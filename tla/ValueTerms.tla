------------------------------- MODULE ValueTerms -------------------------------
(***************************************************************************)
(* Values between Prolog and the store (value.rs): a term is made into the *)
(* entry of a dictionary, with the width of its type, and an entry is read *)
(* back as a term.                                                         *)
(*                                                                         *)
(* A term is <<"int", n>>, <<"float", n>> for n halves, <<"text", w>>,     *)
(* <<"atom", w>> or <<"compound", functor, arguments>>.  A word w is a     *)
(* sequence of characters, <<"digits", n>> for the decimal text of n,      *)
(* <<"halves", n>> for that of n halves, or <<"bytes", b, spelling>> for a *)
(* text that encodes b.                                                    *)
(***************************************************************************)
EXTENDS Integers, Sequences, SequencesExt

CONSTANTS
  Half,        \* 8, 16, 32, 64 -> half as many numbers as that many bits have
  Exact,       \* up to so many halves single precision has each, then, up to twice as many, each second
  SubSeconds   \* fractions in a second, for its nanoseconds

Error == <<"error">>     \* a Prolog exception
Panic == <<"panic">>     \* an unwrap that fails
Entry(type, data) == <<"entry", type, data>>
IsEntry(e) == e[1] = "entry"

Whole(n) == <<"int", n>>
Compound(functor, args) == <<"compound", functor, args>>

-------------------------------------------------------------------------------
(* What the binding reads from a term, and what `as` keeps of it *)

AsUnsigned(n, w) == n % (2 * Half[w])
\* Mutant: kept without its sign
AsMagnitude(n, w) == AsUnsigned(n, w)
AsSigned(n, w) ==
  LET m == AsUnsigned(n, w)
  IN IF m < Half[w] THEN m ELSE m - 2 * Half[w]

\* What single precision keeps of n halves, to the nearest, to even when two are near
AsSingle(n) ==
  IF n % 2 = 0 \/ n \in (-Exact)..Exact THEN n
  ELSE IF (n - 1) % 4 = 0 THEN n - 1 ELSE n + 1

Unsigned(w) == <<"u64", "u", w>>
Signed(w) == <<"i64", "i", w>>
Number == <<"f64", "f", 64>>

Readable(t, field) ==
  CASE field[1] = "u64" -> t[1] = "int" /\ t[2] \in 0..(2 * Half[64] - 1)
    [] field[1] = "i64" -> t[1] = "int" /\ t[2] \in (-Half[64])..(Half[64] - 1)
    [] OTHER -> t[1] \in {"int", "float"}

Kept(t, field) ==
  CASE field[2] = "u" -> AsUnsigned(t[2], field[3])
    [] field[2] = "i" -> AsSigned(t[2], field[3])
    [] OTHER -> IF t[1] = "int" THEN 2 * t[2] ELSE t[2]

-------------------------------------------------------------------------------
(* Texts and numbers *)

TextTypes ==
  {"string", "language", "normalizedString", "token", "NMTOKEN", "Name", "NCName", "Notation",
   "QName", "ID", "IDRef", "Entity", "anyURI"}
MachineTypes ==
  [unsignedByte |-> Unsigned(8), byte |-> Signed(8), unsignedShort |-> Unsigned(16),
   short |-> Signed(16), unsignedInt |-> Unsigned(32), int |-> Signed(32),
   unsignedLong |-> Unsigned(64), long |-> Signed(64)]
FloatTypes == {"float", "double"}
BigTypes ==
  {"integer", "positiveInteger", "negativeInteger", "nonPositiveInteger", "nonNegativeInteger"}

MakeBoolean(t) ==
  IF t[1] = "atom" THEN Entry("boolean", IF t[2] = <<"true">> THEN "true" ELSE "false") ELSE Error
MakeText(type, t) == IF t[1] \in {"text", "atom"} THEN Entry(type, t[2]) ELSE Error
MakeMachine(type, t) ==
  IF Readable(t, MachineTypes[type]) THEN Entry(type, Kept(t, MachineTypes[type])) ELSE Error
MakeFloat(type, t) ==
  IF ~Readable(t, Number) THEN Error
  ELSE Entry(type, IF type = "float" THEN AsSingle(Kept(t, Number)) ELSE Kept(t, Number))

\* Whether a term is the text of a number, or of bytes
Spells(t, how) == t[1] \in {"text", "atom"} /\ t[2] # <<>> /\ t[2][1] = how

\* Numbers of any size go through their text, which has to be one
MakeBig(type, t) ==
  CASE t[1] = "int" -> Entry(type, t[2])
    [] Spells(t, "digits") -> Entry(type, t[2][2])
    [] OTHER -> Panic
MakeDecimal(t) ==
  CASE t[1] \in {"int", "float"} -> Entry("decimal", Kept(t, Number))
    [] Spells(t, "digits") -> Entry("decimal", 2 * t[2][2])
    [] Spells(t, "halves") -> Entry("decimal", t[2][2])
    [] OTHER -> Panic
MakeBytes(type, t) ==
  CASE t[1] # "text" -> Error
    [] t[1] = "text" /\ Spells(t, "bytes") -> Entry(type, t[2][2])
    [] OTHER -> Panic

ReadText(data) == <<"text", data>>
ReadBoolean(data) == <<"atom", <<data>>>>
ReadFloat(data) == <<"float", data>>
ReadDecimal(data) ==
  <<"text", IF data % 2 = 0 THEN <<"digits", data \div 2>> ELSE <<"halves", data>>>>
ReadBytes(type, data) == <<"text", <<"bytes", data, "lower">>>>

-------------------------------------------------------------------------------
(* Parts of dates and durations, whatever the functor is called *)

Offset == <<"u64", "i", 16>>
GregorianFields ==
  [gYear |-> <<Signed(64), Offset>>, gMonth |-> <<Unsigned(8), Offset>>,
   gDay |-> <<Unsigned(8), Offset>>, gYearMonth |-> <<Signed(64), Unsigned(8), Offset>>,
   gMonthDay |-> <<Unsigned(8), Unsigned(8), Offset>>]

Small == <<"i64", "u", 8>>
DurationTypes == {"duration", "yearMonthDuration", "dayTimeDuration"}
DurationFields == <<Signed(8), Signed(64), Small, Small, Small, Small, Number>>
DateFields == <<Signed(64), Small, Small, Signed(16)>>

FieldsOf(type) ==
  CASE type \in DOMAIN GregorianFields -> GregorianFields[type]
    [] type \in DurationTypes -> DurationFields
    [] type = "date" -> DateFields
MakeFields(type, t) ==
  LET fields == FieldsOf(type) IN
  IF /\ t[1] = "compound" /\ Len(t[3]) >= Len(fields)
     /\ \A i \in DOMAIN fields : Readable(t[3][i], fields[i])
  THEN Entry(type, [i \in DOMAIN fields |-> Kept(t[3][i], fields[i])]) ELSE Error

FunctorOf(type) ==
  CASE type = "gYear" -> "gyear" [] type = "gMonth" -> "gmonth" [] type = "gDay" -> "gday"
    [] type = "gYearMonth" -> "gyear_month" [] type = "gMonthDay" -> "gmonth_day"
    [] type \in DurationTypes -> "duration" [] type = "date" -> "date"
    [] type \in {"dateTime", "dateTimeStamp"} -> "date_time" [] type = "time" -> "time"
ReadFields(type, data) ==
  Compound(FunctorOf(type),
           [i \in DOMAIN data |-> IF type \in DurationTypes /\ i = 7 THEN ReadFloat(data[i])
                                  ELSE Whole(data[i])])

-------------------------------------------------------------------------------
(* Moments: the calendar refuses what does not exist *)

MonthDays(year, month) ==
  CASE month \in {4, 6, 9, 11} -> 30
    [] month = 2 -> IF year % 4 = 0 /\ (year % 100 # 0 \/ year % 400 = 0) THEN 29 ELSE 28
    [] OTHER -> 31
IsDate(d) == d[2] \in 1..12 /\ d[3] \in 1..MonthDays(d[1], d[2])
IsTime(hour, minute, second, nano) ==
  /\ hour \in 0..23 /\ minute \in 0..59 /\ second \in 0..59
  /\ nano < SubSeconds \/ (second = 59 /\ nano < 2 * SubSeconds)
IsMoment(d) == IsDate(d) /\ IsTime(d[4], d[5], d[6], d[7])

Cut(w) == <<"i64", "u", w>>
MomentFields == [i \in 1..7 |-> IF i = 1 THEN <<"i64", "i", 32>> ELSE Cut(32)]
TimeFields == [i \in 1..3 |-> <<"u64", "u", 32>>]

MakeMoment(type, t) ==
  IF \/ t[1] # "compound" \/ Len(t[3]) < 7
     \/ \E i \in 1..7 : ~Readable(t[3][i], MomentFields[i]) THEN Error
  ELSE LET d == [i \in 1..7 |-> Kept(t[3][i], MomentFields[i])]
       IN IF IsMoment(d) THEN Entry(type, d) ELSE Panic
MakeTime(t) ==
  IF \/ t[1] # "compound" \/ Len(t[3]) < 3
     \/ \E i \in 1..3 : ~Readable(t[3][i], TimeFields[i]) THEN Error
  ELSE LET d == [i \in 1..3 |-> Kept(t[3][i], TimeFields[i])]
       IN IF IsTime(d[1], d[2], d[3], 0) THEN Entry("time", d) ELSE Panic

-------------------------------------------------------------------------------
(* Intervals are written to text and parsed part by part *)

Parses(t, field) ==
  t[1] = "int" /\ Kept(t, field) = t[2]
ParseComponent(c) ==
  CASE c[1] = "compound" /\ c[2] = "date_time" /\ Len(c[3]) = 7 ->
         LET d == [i \in 1..7 |-> c[3][i][2]]
         IN IF (\A i \in 1..7 : Parses(c[3][i], MomentFields[i])) /\ IsMoment(d)
            THEN <<"date_time", d>> ELSE Error
    [] c[1] = "compound" /\ c[2] = "date" /\ Len(c[3]) = 4 ->
         LET d == [i \in 1..3 |-> c[3][i][2]]
         IN IF (\A i \in 1..3 : Parses(c[3][i], MomentFields[i])) /\ IsDate(d)
            THEN <<"date", d>> ELSE Error
    [] OTHER -> Error
IntervalDurationFields ==
  <<Signed(8), Signed(64), Unsigned(8), Unsigned(8), Unsigned(8), Unsigned(8), Number>>
ParseDuration(c) ==
  IF /\ c[1] = "compound" /\ c[2] = "duration" /\ Len(c[3]) = 7
     /\ \A i \in 1..7 : Readable(c[3][i], IntervalDurationFields[i])
  THEN [i \in 1..7 |-> Kept(c[3][i], IntervalDurationFields[i])] ELSE Error
IntervalFlags == {<<"explicit">>, <<"start_duration">>, <<"duration_end">>}
ParseInterval(t) ==
  IF ~(t[1] = "compound" /\ t[2] = "date_time_interval" /\ Len(t[3]) = 4) THEN Error
  ELSE LET start == ParseComponent(t[3][1])
           end == ParseComponent(t[3][2])
           duration == ParseDuration(t[3][3])
           flag == t[3][4]
       IN IF \/ start = Error \/ end = Error \/ duration = Error
             \/ flag[1] \notin {"atom", "text"} \/ flag[2] \notin IntervalFlags THEN Error
          ELSE Entry("dateTimeInterval",
                     [start |-> start, end |-> end, duration |-> duration, flag |-> flag[2]])

\* A date is read back without its offset
FormatComponent(c) ==
  IF c[1] = "date" THEN Compound("date", [i \in 1..4 |-> Whole(IF i < 4 THEN c[2][i] ELSE 0)])
  ELSE Compound("date_time", [i \in 1..7 |-> Whole(c[2][i])])
\* Whole seconds are written without a fraction and read as an integer
FormatDuration(d) ==
  Compound("duration", [i \in 1..7 |-> CASE i < 7 -> Whole(d[i])
                                         [] i = 7 /\ d[i] % 2 = 0 -> Whole(d[i] \div 2)
                                         [] OTHER -> ReadFloat(d[i])])
FormatInterval(iv) ==
  Compound("date_time_interval",
           <<FormatComponent(iv.start), FormatComponent(iv.end), FormatDuration(iv.duration),
             <<"atom", iv.flag>>>>)

-------------------------------------------------------------------------------
(* Texts with a language are glued by an @ and split at the first *)

MakeLang(text, lang) ==
  IF Contains(lang[2], "@") THEN Panic ELSE Entry("langString", lang[2] \o <<"@">> \o text[2])
SplitLang(glued) ==
  LET at == SelectInSeq(glued, LAMBDA c : c = "@")
  IN <<SubSeq(glued, 1, at - 1), SubSeq(glued, at + 1, Len(glued))>>

MakeEntry(type, t) ==
  CASE type = "boolean" -> MakeBoolean(t)
    [] type \in TextTypes -> MakeText(type, t)
    [] type \in DOMAIN MachineTypes -> MakeMachine(type, t)
    [] type \in FloatTypes -> MakeFloat(type, t)
    [] type = "decimal" -> MakeDecimal(t)
    [] type \in BigTypes -> MakeBig(type, t)
    [] type \in DOMAIN GregorianFields \union DurationTypes \union {"date"} -> MakeFields(type, t)
    [] type \in {"dateTime", "dateTimeStamp"} -> MakeMoment(type, t)
    [] type = "time" -> MakeTime(t)
    [] type \in {"base64Binary", "hexBinary"} -> MakeBytes(type, t)
    [] type = "dateTimeInterval" -> ParseInterval(t)
    [] OTHER -> Error

\* The object of a query, a value with its type or a text with its language
MakeObject(object) ==
  IF object[1] = "lang" THEN MakeLang(object[2], object[3]) ELSE MakeEntry(object[3], object[2])

ReadEntry(entry) ==
  LET type == entry[2]
      data == entry[3]
      value(t) == <<"value", t, type>>
  IN CASE type = "langString" ->
            LET parts == SplitLang(data) IN <<"lang", <<"text", parts[2]>>, <<"atom", parts[1]>>>>
       [] type = "boolean" -> value(ReadBoolean(data))
       [] type \in TextTypes -> value(ReadText(data))
       [] type \in DOMAIN MachineTypes \union BigTypes -> value(Whole(data))
       [] type \in FloatTypes -> value(ReadFloat(data))
       [] type = "decimal" -> value(ReadDecimal(data))
       [] type \in {"base64Binary", "hexBinary"} -> value(ReadBytes(type, data))
       [] type = "dateTimeInterval" -> value(FormatInterval(data))
       [] OTHER -> value(ReadFields(type, data))
===============================================================================
