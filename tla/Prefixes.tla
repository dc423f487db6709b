--------------------------------- MODULE Prefixes ---------------------------------
(***************************************************************************)
(* Names are shortened by the prefixes of a schema when documents are      *)
(* printed (prefix.rs) and expanded by them when they are read             *)
(* (doc/prefix.rs).  A name is a sequence of characters.  The keys @base,  *)
(* @schema and @vocab are written with their first letter.                 *)
(***************************************************************************)
EXTENDS Naturals, Sequences, FiniteSets, SequencesExt, TLC

CONSTANTS
  AsciiLetters, OtherLetters, Digits,  \* sets of characters
  Bytes,       \* the characters in the order of their bytes
  JsonPrefix,  \* SYS_JSON_PREFIX
  Defaults,    \* the prefixes every context has: name -> expansion
  Capacity     \* of the cache of contexts

Base == <<"@", "b">>
SchemaKey == <<"@", "s">>
Vocab == <<"@", "v">>

\* A prefix is [kind, name, expansion]
Json == [kind |-> "json", name |-> <<>>, expansion |-> JsonPrefix]
Nothing == [kind |-> "none"]

-------------------------------------------------------------------------------
(* The tree of expansions, built from the least to the greatest *)

CommonPrefix(s, t) == LongestCommonPrefix({s, t})
Behind(s, n) == SubSeq(s, n + 1, Len(s))

LessByte(x, y) == SelectInSeq(Bytes, LAMBDA c : c = x) < SelectInSeq(Bytes, LAMBDA c : c = y)
Less(s, t) ==
  LET n == Len(CommonPrefix(s, t))
  IN Len(t) > n /\ (Len(s) = n \/ LessByte(s[n + 1], t[n + 1]))

\* In order of the expansions, and as they come when these are the same
Sorted(prefixes) ==
  LET before(i, j) == \/ Less(prefixes[i].expansion, prefixes[j].expansion)
                      \/ prefixes[i].expansion = prefixes[j].expansion /\ i < j
      order == SetToSortSeq(DOMAIN prefixes, before)
  IN [i \in DOMAIN order |-> prefixes[order[i]]]
Deduplicated(prefixes) ==
  LET kept == SelectSeq([i \in DOMAIN prefixes |-> i],
                        LAMBDA i : i = 1 \/ prefixes[i] # prefixes[i - 1])
  IN [i \in DOMAIN kept |-> prefixes[kept[i]]]

Node(prefix, part, children) == [prefix |-> prefix, part |-> part, children |-> children]
Leaf(prefix, part) == Node(prefix, part, <<>>)
WithChild(parent, child) == [parent EXCEPT !.children = Append(@, child)]

\* Goes back to where the matched text is common: to the end of a part, into the middle of
\* one, which is split there, or out of the tree
RECURSIVE Unwind(_, _, _)
Unwind(b, previous, common) ==
  LET begin == b.offset
      end == b.offset + Len(previous.part)
      within == Len(common) > begin /\ Len(common) < end
      part == Behind(common, begin)
      branch == Node(Nothing, part, <<[previous EXCEPT !.part = Behind(@, Len(part))]>>)
  IN CASE Len(common) = end -> [b EXCEPT !.stack = Append(@, previous), !.matched = common]
       [] within ->
            [b EXCEPT !.stack = Append(@, branch), !.matched = common]
       [] Len(common) # end /\ ~within /\ b.stack # <<>> ->
            Unwind([b EXCEPT !.stack = Front(@), !.offset = @ - Len(Last(b.stack).part)],
                   WithChild(Last(b.stack), previous), common)
       [] OTHER -> [b EXCEPT !.trees = Append(@, previous)]

RECURSIVE Build(_, _)
Build(items, b) ==
  IF items = <<>> THEN b
  ELSE LET prefix == Head(items)
           top == Last(b.stack)
           common == CommonPrefix(b.matched, prefix.expansion)
           part == Behind(prefix.expansion, Len(common))
  IN CASE b.stack = <<>> ->
            Build(Tail(items), [b EXCEPT !.stack = <<Leaf(prefix, prefix.expansion)>>, !.offset = 0,
                                         !.matched = prefix.expansion])
       [] b.stack # <<>> /\ Len(common) = Len(b.matched) ->
            Build(Tail(items), [b EXCEPT !.stack = Append(@, Leaf(prefix, part)), !.matched = @ \o part,
                                         !.offset = @ + Len(top.part)])
       [] OTHER -> Build(items, Unwind([b EXCEPT !.stack = Front(@)], top, common))

RollUp(stack) == FoldRight(LAMBDA parent, child : IF child = Nothing THEN parent ELSE WithChild(parent, child),
                           stack, Nothing)
Contracter(prefixes) ==
  LET b == Build(Deduplicated(Sorted(prefixes \o <<Json>>)),
                 [stack |-> <<>>, trees |-> <<>>, offset |-> 0, matched |-> <<>>])
  IN IF b.stack = <<>> THEN b.trees ELSE Append(b.trees, RollUp(b.stack))

\* The first child that fits is descended into; the last prefix on the way is the longest
RECURSIVE Longest(_, _, _)
Longest(trees, rest, found) ==
  LET fits == SelectSeq(trees, LAMBDA t : IsPrefix(t.part, rest)) IN
  IF fits = <<>> THEN found
  ELSE Longest(fits[1].children, Behind(rest, Len(fits[1].part)),
               IF fits[1].prefix = Nothing THEN found ELSE fits[1].prefix)

Contract(trees, s) ==
  LET p == Longest(trees, s, Nothing)
  IN IF p = Nothing THEN [kind |-> "none", rest |-> s]
     ELSE [kind |-> p.kind, name |-> p.name, rest |-> Behind(s, Len(p.expansion))]

Prefixed(key, rest) == key \o <<":">> \o rest
SchemaContract(trees, s) ==
  LET c == Contract(trees, s)
  IN CASE c.kind = "base" -> Prefixed(Base, c.rest)
       [] c.kind = "other" -> Prefixed(c.name, c.rest)
       [] OTHER -> c.rest
InstanceContract(trees, s) ==
  LET c == Contract(trees, s)
  IN CASE c.kind = "schema" -> Prefixed(SchemaKey, c.rest)
       [] c.kind = "other" -> Prefixed(c.name, c.rest)
       [] OTHER -> c.rest

-------------------------------------------------------------------------------
(* What the context of a schema, [base, schema, pairs], is made into *)

ContracterOf(context) ==
  Contracter(<<[kind |-> "base", name |-> <<>>, expansion |-> context.base],
               [kind |-> "schema", name |-> <<>>, expansion |-> context.schema]>> \o
             [i \in DOMAIN context.pairs |-> [kind |-> "other", name |-> context.pairs[i][1],
                                              expansion |-> context.pairs[i][2]]])
\* A pair replaces a default, the base or an earlier pair of the same name
BuildPrefixMap(context) ==
  FoldLeft(LAMBDA map, pair : (pair[1] :> pair[2]) @@ map,
           (Base :> context.base) @@ (SchemaKey :> context.schema) @@ Defaults, context.pairs)

-------------------------------------------------------------------------------
(* Expansion *)

Letters == AsciiLetters \union OtherLetters
Index(name, word) ==
  SelectInSeq([i \in 1..Len(name) |-> Behind(name, i - 1)], LAMBDA rest : IsPrefix(word, rest))

HasProtocol(name) ==
  LET i == Index(name, <<":", "/", "/">>)
  IN i > 1 /\ name[1] \in AsciiLetters
     /\ \A j \in 2..(i - 1) : name[j] \in AsciiLetters \union Digits \union {"+", "-", "."}

\* prefix:suffix, where the prefix begins with a letter or an @ and does not end in a dot
SplitPrefixedName(name) ==
  LET i == Index(name, <<":">>)
      word == Letters \union Digits \union {"-", "_"}
  IN IF /\ i > 1 /\ name[1] \in Letters \union {"@"}
        /\ name[i - 1] \in word
        /\ \A j \in 2..(i - 1) : name[j] \in word \union {"."}
     THEN <<SubSeq(name, 1, i - 1), Behind(name, i)>> ELSE <<>>

ValueAt(map, key) == IF key \in DOMAIN map THEN map[key] ELSE <<>>
\* The expanded name with its type, of the input where nothing is expanded
ExpandWithBase(map, base, name, type) ==
  LET split == SplitPrefixedName(name)
      prefixed == split # <<>>
  IN CASE HasProtocol(name) -> <<"expanded", name, type>>
       [] name = <<>> -> <<"fails">>
       [] ~HasProtocol(name) /\ prefixed ->
            IF split[1] \in DOMAIN map THEN <<"expanded", map[split[1]] \o split[2], "atom">>
            ELSE <<"key_has_unknown_prefix", name>>
       [] ~HasProtocol(name) /\ name # <<>> /\ ~prefixed /\ name[1] = "@" -> <<"expanded", name, type>>
       [] OTHER -> <<"expanded", base \o ValueAt(map, Vocab) \o name, "atom">>

Expand(map, name, type) == ExpandWithBase(map, ValueAt(map, Base), name, type)
\* Without a schema the names of a schema are below the base
ExpandSchema(map, name, type) ==
  ExpandWithBase(map, IF SchemaKey \in DOMAIN map THEN map[SchemaKey] ELSE ValueAt(map, Base), name, type)

-------------------------------------------------------------------------------
(* The maps of dictionaries, by the number of the term, which is used again for other terms *)

\* A dictionary gives <<kind, word>>, an atom or a text, for a key, which is an atom
Map(dict) == [key \in DOMAIN dict |-> dict[key][2]]

\* The hashes of keys and values are mixed by exclusive or: what occurs an even number of times
\* does not count, and which atom is a key and which its value does not count either
Fingerprint(dict) ==
  LET keys == {<<"atom", key>> : key \in DOMAIN dict}
      times(h) == (IF h \in keys THEN 1 ELSE 0) + Cardinality({k \in DOMAIN dict : dict[k] = h})
      hashes == keys \union {dict[k] : k \in DOMAIN dict}
  IN <<{h \in hashes : times(h) % 2 = 1}, Cardinality(DOMAIN dict)>>

\* Mutant: the number of the term is enough
HitByNumber(cache, term, dict) == term \in DOMAIN cache
Hit(cache, term, dict) == term \in DOMAIN cache /\ cache[term].fingerprint = Fingerprint(dict)
Remember(cache, term, dict) ==
  (term :> [fingerprint |-> Fingerprint(dict), map |-> Map(dict)]) @@
  (IF Cardinality(DOMAIN cache) >= Capacity THEN <<>> ELSE cache)

\* One name expanded with the dictionary of a term
ExpandIn(cache, term, dict, name) ==
  IF Hit(cache, term, dict) THEN [cache |-> cache, result |-> Expand(cache[term].map, name, "atom")]
  ELSE [cache |-> Remember(cache, term, dict), result |-> Expand(Map(dict), name, "atom")]
RustExpandPrefix(calls, name) ==
  FoldLeft(LAMBDA done, call :
             LET step == ExpandIn(done.cache, call.term, call.dict, name)
             IN [cache |-> step.cache, results |-> Append(done.results, step.result)],
           [cache |-> <<>>, results |-> <<>>], calls)
===================================================================================
