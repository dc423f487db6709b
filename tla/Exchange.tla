--------------------------------- MODULE Exchange ---------------------------------
(***************************************************************************)
(* What Prolog exchanges with the Rust libraries: values and patterns with *)
(* the layers of the store, and names for their expansions, which are      *)
(* shortened and expanded with the prefixes of a context.                  *)
(***************************************************************************)
EXTENDS LayerExchange, TLC

CONSTANTS AsciiLetters, OtherLetters, Digits, Bytes, JsonPrefix, Defaults, Capacity  \* see Prefixes

Expanding == INSTANCE Prefixes

\* A name is shortened for a schema and for documents, and both are expanded again
ExchangeNames ==
  /\ question.kind = "names"
  /\ LET trees == Expanding!ContracterOf(question.context)
         map == Expanding!BuildPrefixMap(question.context)
         short == Expanding!SchemaContract(trees, question.name)
         id == Expanding!InstanceContract(trees, question.name)
     IN Respond([contraction |-> Expanding!Contract(trees, question.name),
                 schema |-> Expanding!ExpandSchema(map, short, "text"),
                 instance |-> Expanding!Expand(map, id, "text")])

\* Names are expanded with dictionaries that come one after the other
ExpandInContexts ==
  /\ question.kind = "contexts"
  /\ Respond(Expanding!RustExpandPrefix(question.calls, question.name).results)

ExchangeNext == LayerNext \/ ExchangeNames \/ ExpandInContexts

-------------------------------------------------------------------------------
(* Properties *)

PrefixesOf(context) ==
  {<<"base", context.base>>, <<"schema", context.schema>>, <<"json", JsonPrefix>>} \union
  {<<"other", pair[2]>> : pair \in ToSet(context.pairs)}
\* What is left of a name is not taken for a name with a protocol, nor, alone, with a prefix
IsPlain(rest, alone) ==
  ~IsPrefix(<<"/", "/">>, rest) /\ (alone => rest # <<>> /\ {":", "@"} \cap ToSet(rest) = {})

\* A name is shortened by the longest prefix that it has, and what is left of it, if it is
\* plain, is expanded to the name again, in a schema and in a document (PrefixContracter,
\* prefix_expand_with_base)
ShortNamesComeBack ==
  Answered("names") =>
    LET name == question.name
        fitting == {x \in PrefixesOf(question.context) : IsPrefix(x[2], name)}
        c == answer[1].contraction
        back == {<<"expanded", name, type>> : type \in {"atom", "text"}}
    IN /\ c.kind = "none" <=> fitting = {}
       /\ \A x \in fitting : Len(x[2]) <= Len(name) - Len(c.rest)
       /\ fitting # {} => \E x \in fitting : x[1] = c.kind /\ name = x[2] \o c.rest
       /\ c.kind \notin {"none", "json"} =>
            /\ IsPlain(c.rest, c.kind = "schema") => answer[1].schema \in back
            /\ IsPlain(c.rest, c.kind = "base") => answer[1].instance \in back

\* The dictionaries whose maps are taken for each other: of as many keys, with the same hashes
\* left when the ones that occur twice are struck out
Alike(one, other) == Expanding!Fingerprint(one) = Expanding!Fingerprint(other)

\* A name is expanded with the dictionary that was given, or with one that was given in the
\* same term before and is taken for it (parse_prefix_context)
ContextsAreTheirOwn ==
  Answered("contexts") =>
    \A i \in DOMAIN question.calls :
      LET call == question.calls[i] IN
      \/ answer[1][i] = Expanding!Expand(Expanding!Map(call.dict), question.name, "atom")
      \/ \E j \in 1..(i - 1) :
           /\ question.calls[j].term = call.term /\ Alike(question.calls[j].dict, call.dict)
           /\ answer[1][i] = Expanding!Expand(Expanding!Map(question.calls[j].dict), question.name, "atom")

\* What is looked up by its order or by its text is the best there is: the nearest value, the
\* longest prefix, the dictionary that was given
LookupsAreExact == NearestValuesAreNearest /\ ShortNamesComeBack /\ ContextsAreTheirOwn
===============================================================================
