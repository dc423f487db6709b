------------------------------ MODULE MCDocuments ------------------------------
(* Documents on small layers: two documents, two shared ones, a part and content *)
EXTENDS Documents

CONSTANTS d1, d2, s1, s2, b, c, j

\* The second document has a later identifier than the shared ones
Identifiers == <<d1, s1, s2, d2, b, c, j>>

\* References a layer may have; those to and from the part depend on its owner
Free == {<<d1, s1>>, <<d1, s2>>, <<d1, c>>, <<d2, s1>>, <<d2, c>>, <<d2, d1>>,
         <<s1, s2>>, <<s1, c>>, <<s2, s1>>}
Owners == {d1, s1}
PartClasses == {"Sub", "List"}

TypeTriples(class, nodes) == {<<n, "type", class>> : n \in nodes}
LayerOf(refs, part) ==
  TypeTriples("Document", {d1, d2}) \union TypeTriples("Shared", {s1, s2})
  \union (IF c \in {r[2] : r \in refs} THEN TypeTriples("JSON", {c}) ELSE {})
  \union {<<r[1], "link", r[2]>> : r \in refs}
  \union part
PartOf(owner, class) ==
  {<<b, "type", class>>, <<owner, "link", b>>,
   <<b, IF class = "List" THEN "first" ELSE "link", s2>>}
\* A plain JSON document that shares its content
Json == {<<j, "type", "JSONDocument">>, <<c, "type", "JSON">>, <<j, "link", c>>}
SomeLayers ==
  {LayerOf(refs, part) : refs \in SUBSET Free,
     part \in {{}, Json} \union {PartOf(o, k) : o \in Owners, k \in PartClasses}}
SomeBulks == {{d1, d2}, {d1, s1}}
===============================================================================
