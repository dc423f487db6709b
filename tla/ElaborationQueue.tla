--------------------------- MODULE ElaborationQueue ---------------------------
(***************************************************************************)
(* Parallel elaboration, parallel_elaboration.pl: a request splits its        *)
(* documents into chunks, lists them as a request_queue/8 fact and elaborates *)
(* them itself, while idle workers steal chunks and send the results to the   *)
(* message queue of the request.  A chunk is taken under                      *)
(* elaboration_queue_mutex by a retract and an assert; the cleanup of a       *)
(* request retracts its fact without the mutex.                               *)
(***************************************************************************)
EXTENDS Integers, Sequences, FiniteSets, Functions

CONSTANTS
  Requests,    \* calls of elaborate_insert_request and its variants
  Helpers,     \* multi purpose workers
  NumChunks,   \* chunks of each request
  Nobody

ASSUME ChunkAssumption == NumChunks \in Nat
ASSUME NobodyAssumption == Nobody \notin Helpers \cup Requests

Chunks == 1..NumChunks

VARIABLES
  facts,      \* request_queue facts: the chunks of a request not yet taken
  owner,      \* where the thread of each request is
  own,        \* the chunk it elaborates itself
  remaining,  \* results it still expects
  collected,  \* chunks whose results it has
  mail,       \* messages in the queue of each request
  mutex,      \* holder of elaboration_queue_mutex, if a helper
  helper,     \* where each helper is
  stolen      \* what it has read: a request, a chunk of it, and the rest

ownerVars == <<owner, own, remaining, collected>>
helperVars == <<helper, stolen>>
vars == <<facts, ownerVars, mail, mutex, helperVars>>

NoChunk == 0
Nothing == [request |-> Nobody]
Stolen == [request : Requests, chunk : Chunks, rest : Seq(Chunks)]
Message == [done : BOOLEAN, chunk : Chunks]

TypeOK ==
  /\ DOMAIN facts \subseteq Requests
  /\ \A r \in DOMAIN facts : facts[r] \in Seq(Chunks)
  /\ owner \in [Requests -> {"idle", "collect", "elaborate", "done", "failed"}]
  /\ own \in [Requests -> Chunks \cup {NoChunk}]
  /\ remaining \in [Requests -> 0..NumChunks]
  /\ collected \in [Requests -> SUBSET Chunks]
  /\ mail \in [Requests -> Seq(Message)]
  /\ mutex \in Helpers \cup {Nobody}
  /\ helper \in [Helpers -> {"free", "taking", "elaborate"}]
  /\ stolen \in [Helpers -> Stolen \cup {Nothing}]

Init ==
  /\ facts = <<>>
  /\ owner = [r \in Requests |-> "idle"]
  /\ own = [r \in Requests |-> NoChunk]
  /\ remaining = [r \in Requests |-> NumChunks]
  /\ collected = [r \in Requests |-> {}]
  /\ mail = [r \in Requests |-> <<>>]
  /\ mutex = Nobody
  /\ helper = [h \in Helpers |-> "free"]
  /\ stolen = [h \in Helpers |-> Nothing]

\* retractall and assertz of the fact of a request.
Put(r, chunks) == [q \in DOMAIN facts \cup {r} |-> IF q = r THEN chunks ELSE facts[q]]

\* with_mutex(elaboration_queue_mutex, ...); faulty: no mutex.
NoMutex == TRUE
MutexFree == mutex = Nobody

------------------------------------------------------------------------------
(* The thread of a request *)

\* chunks_from_documents/3.
Split == [i \in Chunks |-> i]

CreateRequestQueue(r) ==
  /\ owner[r] = "idle"
  /\ owner' = [owner EXCEPT ![r] = "collect"]
  /\ facts' = Put(r, Split)
  /\ UNCHANGED <<own, remaining, collected, mail, mutex, helperVars>>

HasOwnChunk(r) == r \in DOMAIN facts /\ facts[r] # <<>>

TakeOwnChunk(r) ==
  /\ owner[r] = "collect"
  /\ remaining[r] > 0
  /\ MutexFree
  /\ HasOwnChunk(r)
  /\ owner' = [owner EXCEPT ![r] = "elaborate"]
  /\ own' = [own EXCEPT ![r] = Head(facts[r])]
  /\ facts' = Put(r, Tail(facts[r]))
  /\ UNCHANGED <<remaining, collected, mail, mutex, helperVars>>

Collect(r, chunk) ==
  /\ collected' = [collected EXCEPT ![r] = @ \cup {chunk}]
  /\ remaining' = [remaining EXCEPT ![r] = @ - 1]

\* cleanup_request/1: the fact goes, whoever is about to assert it again, and so
\* does the message queue.  Faulty: the fact stays.
DestroyQueue(r, end) ==
  /\ owner' = [owner EXCEPT ![r] = end]
  /\ mail' = [mail EXCEPT ![r] = <<>>]
  /\ UNCHANGED facts
Cleanup(r, end) ==
  /\ owner' = [owner EXCEPT ![r] = end]
  /\ mail' = [mail EXCEPT ![r] = <<>>]
  /\ facts' = Restrict(facts, DOMAIN facts \ {r})

ElaborateOwn(r) ==
  /\ owner[r] = "elaborate"
  /\ own' = [own EXCEPT ![r] = NoChunk]
  /\ \/ /\ Collect(r, own[r])
        /\ owner' = [owner EXCEPT ![r] = "collect"]
        /\ UNCHANGED <<facts, mail>>
     \/ /\ Cleanup(r, "failed")
        /\ UNCHANGED <<remaining, collected>>
  /\ UNCHANGED <<mutex, helperVars>>

\* The oldest message: a result, or an error that is thrown.
ReceiveMessage(r) ==
  /\ owner[r] = "collect"
  /\ remaining[r] > 0
  /\ MutexFree
  /\ ~HasOwnChunk(r)
  /\ mail[r] # <<>>
  /\ IF Head(mail[r]).done
     THEN /\ Collect(r, Head(mail[r]).chunk)
          /\ mail' = [mail EXCEPT ![r] = Tail(@)]
          /\ UNCHANGED <<facts, owner>>
     ELSE /\ Cleanup(r, "failed")
          /\ UNCHANGED <<remaining, collected>>
  /\ UNCHANGED <<own, mutex, helperVars>>

\* thread_get_message/3 with handler_message_timeout.  Faulty: it never returns.
NeverTimesOut(r) == FALSE
TimesOut(r) == mail[r] = <<>>

Timeout(r) ==
  /\ owner[r] = "collect"
  /\ remaining[r] > 0
  /\ MutexFree
  /\ ~HasOwnChunk(r)
  /\ TimesOut(r)
  /\ Cleanup(r, "failed")
  /\ UNCHANGED <<own, remaining, collected, mutex, helperVars>>

AllCollected(r) == remaining[r] = 0

Finish(r) ==
  /\ owner[r] = "collect"
  /\ AllCollected(r)
  /\ Cleanup(r, "done")
  /\ UNCHANGED <<own, remaining, collected, mutex, helperVars>>

------------------------------------------------------------------------------
(* Helpers *)

\* take_chunk/7, the read: a chunk of any listed request.
ReadChunk(h) ==
  /\ helper[h] = "free"
  /\ MutexFree
  /\ \E r \in DOMAIN facts :
       /\ facts[r] # <<>>
       /\ stolen' = [stolen EXCEPT ![h] =
            [request |-> r, chunk |-> Head(facts[r]), rest |-> Tail(facts[r])]]
  /\ mutex' = h
  /\ helper' = [helper EXCEPT ![h] = "taking"]
  /\ UNCHANGED <<facts, ownerVars, mail>>

\* The retract and the assert: the fact of a request cleaned up meanwhile is back.
TakeChunk(h) ==
  /\ helper[h] = "taking"
  /\ facts' = Put(stolen[h].request, stolen[h].rest)
  /\ mutex' = Nobody
  /\ helper' = [helper EXCEPT ![h] = "elaborate"]
  /\ UNCHANGED <<ownerVars, mail, stolen>>

\* send_chunk_done/3, send_chunk_error/3: a queue that is gone is ignored.
Send(r, message) ==
  mail' = IF owner[r] \in {"collect", "elaborate"}
          THEN [mail EXCEPT ![r] = Append(@, message)] ELSE mail

\* A chunk whose elaboration fails, instead of throwing, is answered by nobody.
ElaborateStolen(h) ==
  /\ helper[h] = "elaborate"
  /\ \/ \E done \in BOOLEAN :
          Send(stolen[h].request, [done |-> done, chunk |-> stolen[h].chunk])
     \/ UNCHANGED mail
  /\ helper' = [helper EXCEPT ![h] = "free"]
  /\ stolen' = [stolen EXCEPT ![h] = Nothing]
  /\ UNCHANGED <<facts, ownerVars, mutex>>

OwnerStep(r) ==
  \/ TakeOwnChunk(r) \/ ElaborateOwn(r) \/ ReceiveMessage(r) \/ Timeout(r) \/ Finish(r)

Next ==
  \/ \E r \in Requests : CreateRequestQueue(r) \/ OwnerStep(r)
  \/ \E h \in Helpers : ReadChunk(h) \/ TakeChunk(h) \/ ElaborateStolen(h)

Spec == Init /\ [][Next]_vars

\* A thread with work goes on and a section under the mutex ends; nobody has to
\* help, and a helper may elaborate forever.
FairSpec ==
  /\ Spec
  /\ \A r \in Requests : SF_vars(TakeOwnChunk(r)) /\ WF_vars(OwnerStep(r))
  /\ \A h \in Helpers : WF_vars(TakeChunk(h))

------------------------------------------------------------------------------
(* Properties *)

Collecting(r) == owner[r] \in {"collect", "elaborate"}
InHand(r, h) == helper[h] = "elaborate" /\ stolen[h].request = r

\* The chunks of a request: untaken (also while a helper is about to take one), with
\* its own thread, with a helper, in a message, or collected.
Untaken(r) == IF r \in DOMAIN facts THEN Range(facts[r]) ELSE {}
WithOwner(r) == {own[r]} \ {NoChunk}
WithHelpers(r) == {stolen[h].chunk : h \in {g \in Helpers : InHand(r, g)}}
InMail(r) == {m.chunk : m \in Range(mail[r])}

\* No chunk is elaborated twice or counted twice, however takes, thefts and answers
\* interleave: a chunk is in one place, in one hand, in one message.
EachChunkOnce ==
  \A r \in Requests : Collecting(r) =>
    /\ LET places == <<Untaken(r), WithOwner(r), WithHelpers(r), InMail(r), collected[r]>>
       IN  \A i, j \in DOMAIN places : i # j => places[i] \cap places[j] = {}
    /\ Cardinality(WithHelpers(r)) = Cardinality({h \in Helpers : InHand(r, h)})
    /\ Cardinality(InMail(r)) = Len(mail[r])
    /\ remaining[r] = NumChunks - Cardinality(collected[r])

\* A request that succeeds has the results of all its chunks.
ResultIsComplete == \A r \in Requests : owner[r] = "done" => collected[r] = Chunks

\* The variables keep their types, the chunks of a request are counted as they are
\* handed around, and what was counted is what the request gets
ChunksAreCounted == TypeOK /\ EachChunkOnce /\ ResultIsComplete

\* When a request has succeeded nobody works for it any more: its fact is gone, and
\* no helper reads the transaction its thread goes on to write with.
NobodyWorksForTheDone ==
  \A r \in Requests : owner[r] = "done" =>
    /\ r \notin DOMAIN facts
    /\ \A h \in Helpers : stolen[h].request # r

\* Every request ends, though helpers may take chunks and never answer.
EveryRequestEnds ==
  \A r \in Requests : owner[r] = "collect" ~> owner[r] \in {"done", "failed"}
==============================================================================
