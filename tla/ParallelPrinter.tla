---------------------------- MODULE ParallelPrinter ----------------------------
(***************************************************************************)
(* How documents are printed in parallel (doc/mod.rs, the spawned task and *)
(* the receiving loop of par_print_documents_of_types and                  *)
(* par_print_documents_by_id): workers take the documents from one         *)
(* iterator, read them and send them through a bounded channel; the thread *)
(* of the request receives them in any order, keeps those that come early  *)
(* in a heap, and prints them in the order of the iterator.                *)
(***************************************************************************)
EXTENDS Naturals, Sequences, SequencesExt

CONSTANTS
  Workers,       \* threads of the rayon pool
  ChannelSize    \* twice as many in the code

VARIABLES
  docs,      \* the documents the iterator gives out, as they read: the layer is fixed
  todo,      \* number of documents the iterator has given out
  at,        \* worker -> number of the document it reads, 0 when it has none
  stopped,   \* a worker could not send, the others take no more
  channel, heap, cur,
  printed,   \* the documents printed so far
  stage      \* "printing", "done", "failed" after an error, "idle"

printerVars == <<docs, todo, at, stopped, channel, heap, cur, printed, stage>>

PrinterInit(requests) ==
  /\ docs \in requests
  /\ todo = 0 /\ at = [w \in Workers |-> 0] /\ stopped = FALSE
  /\ channel = <<>> /\ heap = {} /\ cur = 1 /\ printed = <<>> /\ stage = "printing"

Take(w) ==
  /\ at[w] = 0 /\ ~stopped /\ todo < Len(docs)
  /\ todo' = todo + 1 /\ at' = [at EXCEPT ![w] = todo + 1]
  /\ UNCHANGED <<docs, stopped, channel, heap, cur, printed, stage>>

\* Mutant: a worker whose receiver is gone waits for room
WaitsForRoom(w) ==
  /\ at[w] # 0 /\ at' = [at EXCEPT ![w] = 0]
  /\ stage = "printing" /\ Len(channel) < ChannelSize
  /\ channel' = Append(channel, [index |-> at[w], doc |-> docs[at[w]]])
  /\ UNCHANGED <<docs, todo, stopped, heap, cur, printed, stage>>

\* The channel takes a document when there is room; without a receiver the send fails
Send(w) ==
  /\ at[w] # 0 /\ at' = [at EXCEPT ![w] = 0]
  /\ \/ /\ stage = "printing" /\ Len(channel) < ChannelSize
        /\ channel' = Append(channel, [index |-> at[w], doc |-> docs[at[w]]])
        /\ UNCHANGED stopped
     \/ /\ stage # "printing" /\ stopped' = TRUE /\ UNCHANGED channel
  /\ UNCHANGED <<docs, todo, heap, cur, printed, stage>>

\* Mutant: the heap is not turned around, and its greatest entry is on top
LatestFirst == {e \in heap : \A f \in heap : f.index <= e.index}

\* The entry on top of the heap: the order of its entries is reversed
Peek == {e \in heap : \A f \in heap : e.index <= f.index}
KeptIsNext == \E e \in Peek : e.index = cur

PrintDocument(entry) == printed' = Append(printed, entry.doc) /\ cur' = cur + 1

\* A document that takes too much work ends the request; none is missing, since the
\* iterator gives out documents that have a type
Receive ==
  /\ stage = "printing" /\ ~KeptIsNext /\ channel # <<>> /\ channel' = Tail(channel)
  /\ LET entry == Head(channel) IN
     \/ /\ entry.doc = <<"limit">> /\ stage' = "failed" /\ UNCHANGED <<heap, cur, printed>>
     \/ /\ entry.doc[1] = "document" /\ UNCHANGED stage
        /\ IF entry.index = cur THEN PrintDocument(entry) /\ UNCHANGED heap
           ELSE heap' = heap \union {entry} /\ UNCHANGED <<cur, printed>>
  /\ UNCHANGED <<docs, todo, at, stopped>>

\* Before the next document is received, those that were kept and follow are printed
PrintKept(entry) ==
  /\ stage = "printing" /\ entry \in Peek /\ entry.index = cur
  /\ heap' = heap \ {entry} /\ PrintDocument(entry)
  /\ UNCHANGED <<docs, todo, at, stopped, channel, stage>>

\* No sender is left when every worker has found the iterator empty
Finish ==
  /\ stage = "printing" /\ ~KeptIsNext /\ channel = <<>>
  /\ (todo = Len(docs) \/ stopped) /\ \A w \in Workers : at[w] = 0
  /\ stage' = "done"
  /\ UNCHANGED <<docs, todo, at, stopped, channel, heap, cur, printed>>

Printing == Receive \/ Finish \/ \E entry \in heap : PrintKept(entry)
PrinterNext == Printing \/ \E w \in Workers : Take(w) \/ Send(w)

PrinterSpec(requests) == PrinterInit(requests) /\ [][PrinterNext]_printerVars

-------------------------------------------------------------------------------
(* Properties *)

Entries == [index : DOMAIN docs, doc : ToSet(docs)]
TypeOK ==
  /\ todo \in 0..Len(docs) /\ at \in [Workers -> 0..Len(docs)] /\ stopped \in BOOLEAN
  /\ channel \in Seq(Entries) /\ heap \subseteq Entries
  /\ cur \in 1..(Len(docs) + 1) /\ printed \in Seq(ToSet(docs))
  /\ stage \in {"printing", "done", "failed", "idle"}

\* In whatever order the documents arrive they are printed in the order of the iterator,
\* each once, and all of them when nothing fails (the receiving loop)
PrintsInOrder == printed = SubSeq(docs, 1, Len(printed)) /\ (stage = "done" => printed = docs)

\* The assertion after the loop: nothing is kept and not printed
NothingIsLeft == stage = "done" => heap = {} /\ cur > todo

\* Whatever the threads do, the request gets its documents as if one thread had printed them
PrintsAsIfAlone == TypeOK /\ PrintsInOrder /\ NothingIsLeft

\* A request ends although its channel is bounded and its receiver may give up, and so
\* do its workers
PrintingEnds == <>(stage # "printing" /\ \A w \in Workers : at[w] = 0)
===============================================================================
