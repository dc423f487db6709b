--------------------------------- MODULE Frames ---------------------------------
(***************************************************************************)
(* The frames GraphQL works with (graphql/frame.rs): classes and enums     *)
(* under names that GraphQL accepts, the documents that link to a class,   *)
(* and the classes below a class.  An unclean frame is a record with a     *)
(* kind: a class has fields and choices (functions from names to a field   *)
(* [kind, range]) and the classes it inherits from, an enum has values.    *)
(* Two maps that are each other's inverse are a set of pairs.              *)
(***************************************************************************)
EXTENDS SchemaTypes, TLC

CONSTANTS
  BaseTypes,                  \* names of data types
  GraphqlSanitize(_)          \* the name GraphQL knows a name by

ReservedClasses == {"BigFloat", "DateTime", "BigInt", "JSON"}
Collections == {"Set", "List", "Array", "Cardinality"}

\* The name of the way back over a property of a class
InverseFieldName(property, class) == "_" \o property \o "_of_" \o class

\* BiMap: a pair is inserted if both of its names are new
Clashes(map, left, right) == \E p \in map : p[1] = left \/ p[2] = right
InsertNoOverwrite(map, left, right) ==
  IF Clashes(map, left, right) THEN map ELSE map \union {<<left, right>>}
ByLeft(map, left) == (CHOOSE p \in map : p[1] = left)[2]
ByRight(map, right) == (CHOOSE p \in map : p[2] = right)[1]

\* The pairs of names of a sequence, in its order
Renamed(map, names) ==
  FoldLeft(LAMBDA m, n : InsertNoOverwrite(m, GraphqlSanitize(n), n), map, names)

\* Mutant: nothing panics
NeverPanics(map, names) == Renamed(map, names)

\* The panic, as its message has it: two names become one
RenamedOrPanic(map, names) ==
  IF Cardinality(Renamed(map, names)) = Cardinality(map) + Len(names)
  THEN Renamed(map, names) ELSE {}

NamesOf(f) == InOrder(DOMAIN f)
GraphqlNames(f) == {GraphqlSanitize(n) : n \in DOMAIN f}
LastOf(f, g) == Last(SelectSeq(NamesOf(f), LAMBDA n : GraphqlSanitize(n) = g))

SanitizeRange(range) == IF range \in BaseTypes THEN range ELSE GraphqlSanitize(range)
SanitizeField(d) == [kind |-> d.kind, range |-> SanitizeRange(d.range)]
Optionalize(d) == IF d.kind = "Required" THEN [d EXCEPT !.kind = "Optional"] ELSE d

\* The pair that was refused is compared with itself and nothing panics: the field
\* keeps the name of the first property and takes the definition of the last
FieldNames(class) ==
  FoldLeft(LAMBDA m, o : Renamed(m, NamesOf(o)), Renamed({}, NamesOf(class.fields)), class.one_of)

SanitizeClass(class) ==
  [kind |-> "class", inherits |-> {GraphqlSanitize(c) : c \in class.inherits},
   names |-> FieldNames(class),
   fields |-> [g \in GraphqlNames(class.fields) |-> SanitizeField(class.fields[LastOf(class.fields, g)])],
   one_of |-> [i \in 1..Len(class.one_of) |->
                 [g \in GraphqlNames(class.one_of[i]) |->
                    Optionalize(SanitizeField(class.one_of[i][LastOf(class.one_of[i], g)]))]]]

SanitizeEnum(enum) ==
  [kind |-> "enum", names |-> Renamed({}, enum.values),
   values |-> [i \in 1..Len(enum.values) |-> GraphqlSanitize(enum.values[i])]]

\* Mutant: a class is below what it inherits from and not below itself
OnlyInherited(frames, class) ==
  {c \in DOMAIN frames : frames[c].kind = "class" /\ class \in frames[c].inherits}

\* calculate_subsumption: a frame names all the classes its class inherits from
Subsumption(frames, class) ==
  {c \in DOMAIN frames : frames[c].kind = "class" /\ class \in frames[c].inherits \union {c}}

\* allframes_to_allinvertedframes: of two properties with the same way back the last is kept
Before(k, l) == \/ Position(k[1]) < Position(l[1])
                \/ k[1] = l[1] /\ Position(k[2]) < Position(l[2])
InvertedFields(frames, range) ==
  LET classes == {c \in DOMAIN frames : frames[c].kind = "class"}
      links == UNION {{<<c, f>> : f \in {g \in DOMAIN frames[c].fields :
                                           frames[c].fields[g].range = range}} : c \in classes}
      named(b) == SetToSortSeq({l \in links : InverseFieldName(l[2], l[1]) = b}, Before)
  IN [b \in {InverseFieldName(l[2], l[1]) : l \in links} |->
        LET l == Last(named(b))
        IN [class |-> l[1], property |-> l[2], kind |-> frames[l[1]].fields[l[2]].kind]]

\* finalize: no frames at all when two classes, or a class and a restriction, clash
ClassRenaming(unclean, restrictions) ==
  RenamedOrPanic({<<c, c>> : c \in ReservedClasses}, NamesOf(unclean) \o restrictions)

Sanitized(unclean, names) ==
  [g \in GraphqlNames(unclean) |->
     LET f == unclean[ByLeft(names, g)]
     IN IF f.kind = "class" THEN SanitizeClass(f) ELSE SanitizeEnum(f)]
Finalized(names, frames) ==
  [panics |-> FALSE, class_renaming |-> names, frames |-> frames,
   inverted |-> [g \in DOMAIN frames |-> InvertedFields(frames, g)],
   subsumption |-> [g \in DOMAIN frames |-> Subsumption(frames, g)]]
FramesOf(unclean, names) ==
  IF names = {} THEN [panics |-> TRUE] ELSE Finalized(names, Sanitized(unclean, names))
AllFrames(unclean, restrictions) == FramesOf(unclean, ClassRenaming(unclean, restrictions))

-------------------------------------------------------------------------------
(* What is asked of frames *)

IsClass(all, c) == c \in DOMAIN all.frames /\ all.frames[c].kind = "class"
IsEnum(all, c) == c \in DOMAIN all.frames /\ all.frames[c].kind = "enum"
IsForeign(all, c) == c \notin DOMAIN all.frames
\* A class without an entry is below itself
Subsumed(all, c) == IF all.subsumption[c] = {} THEN {c} ELSE all.subsumption[c]

\* A choice is found before a field of the same name
ResolveField(class, field) ==
  LET chosen == {i \in 1..Len(class.one_of) : field \in DOMAIN class.one_of[i]} IN
  IF chosen # {} THEN class.one_of[Min(chosen)][field] ELSE class.fields[field]
FieldsOf(class) == DOMAIN class.fields \union UNION {DOMAIN class.one_of[i] : i \in 1..Len(class.one_of)}
IriOf(class, field) == ByLeft(class.names, field)
IsCollection(field) == field.kind \in Collections
-------------------------------------------------------------------------------
(* Properties *)

\* The class an unclean field belongs to, by the name it came with
DefinitionOf(class, name) ==
  LET at == {i \in 1..Len(class.one_of) : name \in DOMAIN class.one_of[i]} IN
  IF at # {} THEN Optionalize(SanitizeField(class.one_of[Min(at)][name]))
  ELSE SanitizeField(class.fields[name])

\* Whether two properties of a class, or two values of an enum, get one name
Merged(unclean) ==
  LET merges(names) == Cardinality({GraphqlSanitize(n) : n \in names}) < Cardinality(names)
  IN \E c \in DOMAIN unclean :
       IF unclean[c].kind = "enum" THEN merges(ToSet(unclean[c].values))
       ELSE merges(DOMAIN unclean[c].fields \union
                   UNION {DOMAIN unclean[c].one_of[i] : i \in 1..Len(unclean[c].one_of)})

\* Frames that are made hold every class under one name, and every property under a
\* name whose definition is that of the property ("this schema has name collisions")
NamesAreInvertible(unclean, all) ==
  ~all.panics =>
    \A c \in DOMAIN unclean :
      LET class == all.frames[GraphqlSanitize(c)] IN
      /\ ByLeft(all.class_renaming, GraphqlSanitize(c)) = c
      /\ unclean[c].kind = "class" =>
           /\ \A f \in FieldsOf(class) :
                ResolveField(class, f) = DefinitionOf(unclean[c], IriOf(class, f))
           /\ {IriOf(class, f) : f \in FieldsOf(class)} =
                DOMAIN unclean[c].fields \union
                UNION {DOMAIN unclean[c].one_of[i] : i \in 1..Len(unclean[c].one_of)}
      /\ unclean[c].kind = "enum" =>
           {p[2] : p \in class.names} = ToSet(unclean[c].values)
===============================================================================
