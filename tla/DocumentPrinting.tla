---------------------------- MODULE DocumentPrinting ----------------------------
(***************************************************************************)
(* The requests that print documents (doc/mod.rs): which documents they    *)
(* choose, and what the printers give that use one thread                  *)
(* (print_documents_of_types, print_documents_by_id); the parallel ones    *)
(* give their documents to ParallelPrinter.                                *)
(***************************************************************************)
EXTENDS DocumentRetrieval, ParallelPrinter

VARIABLES
  request    \* what is to be printed

printVars == <<request, printerVars>>

-------------------------------------------------------------------------------
(* What is printed: a request names a class, all classes or documents *)

Context(r) == DocumentContext(r.schema, r.layer)
Types(r) ==
  CASE r.kind = "type" -> SubtypesFor(Context(r), r.schema, r.class)
    [] r.kind = "all" -> LET c == Context(r)
                         IN InOrder(IF r.unfold THEN c.document_types ELSE c.types)
TriplesOfTypes(r) ==
  FlattenSeq([i \in 1..Len(Types(r)) |-> ListO(r.layer, Types(r)[i])])

SkipTake(seq, skip, count) ==
  SubSeq(seq, skip + 1, IF skip + count < Len(seq) THEN skip + count ELSE Len(seq))

\* The parallel printers choose among the documents before they read any
Chosen(r) ==
  SkipTake(IF r.kind = "ids" THEN SelectSeq(r.ids, LAMBDA d : DocumentExists(Context(r), d))
           ELSE LET typed == SelectSeq(TriplesOfTypes(r), LAMBDA t : t[2] = "type")
                IN [i \in 1..Len(typed) |-> typed[i][1]],
           r.skip, r.count)

Read(r, id) == GetIdDocument(Context(r), id, r.unfold)

-------------------------------------------------------------------------------
(* The printer of a request *)

Iterated(r) == LET chosen == Chosen(r) IN [i \in 1..Len(chosen) |-> Read(r, chosen[i])]
PrintInit(requests) == request \in requests /\ PrinterInit({Iterated(request)})

\* No request is printed
PrintIdle ==
  /\ request = <<>> /\ docs = <<>> /\ stage = "idle" /\ stopped = TRUE
  /\ todo = 0 /\ at = [w \in Workers |-> 0]
  /\ channel = <<>> /\ heap = {} /\ cur = 1 /\ printed = <<>>

PrintStep == PrinterNext /\ UNCHANGED request
PrintFairness ==
  /\ WF_printVars(Printing /\ UNCHANGED request)
  /\ \A w \in Workers : WF_printVars((Take(w) \/ Send(w)) /\ UNCHANGED request)

-------------------------------------------------------------------------------
(* Properties *)

\* print_documents_of_types: the triples are counted whatever they say
RECURSIVE PrintedOf(_, _, _, _)
PrintedOf(r, triples, skip, count) ==
  IF triples = <<>> THEN <<>>
  ELSE IF skip > 0 THEN PrintedOf(r, Tail(triples), skip - 1, count)
  ELSE IF count = 0 THEN <<>>
  ELSE IF Head(triples)[2] # "type" THEN PrintedOf(r, Tail(triples), skip, count - 1)
  ELSE LET doc == Read(r, Head(triples)[1]) IN
       <<doc>> \o IF doc[1] # "document" THEN <<>>
                  ELSE PrintedOf(r, Tail(triples), skip, count - 1)

\* print_documents_by_id: what is counted are the documents that are read
RECURSIVE PrintedById(_, _, _, _)
PrintedById(r, ids, skip, count) ==
  IF ids = <<>> THEN <<>>
  ELSE LET doc == Read(r, Head(ids)) IN
    IF doc[1] = "none" THEN PrintedById(r, Tail(ids), skip, count)
    ELSE IF doc[1] = "limit" THEN <<doc>>
    ELSE IF skip > 0 THEN PrintedById(r, Tail(ids), skip - 1, count)
    ELSE IF count = 0 THEN <<>>
    ELSE <<doc>> \o PrintedById(r, Tail(ids), skip, count - 1)

Sequential(r) == IF r.kind = "ids" THEN PrintedById(r, r.ids, r.skip, r.count)
                 ELSE PrintedOf(r, TriplesOfTypes(r), r.skip, r.count)

\* The parallel printers print the page of the sequential ones: they skip and take before
\* they read, and stop like them where a document takes too much work
PrintedPagesAgree ==
  stage # "idle" =>
    LET limits == {i \in DOMAIN docs : docs[i] = <<"limit">>}
    IN Sequential(request) = IF limits = {} THEN docs ELSE SubSeq(docs, 1, Min(limits))
===============================================================================
