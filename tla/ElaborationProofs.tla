-------------------------- MODULE ElaborationProofs --------------------------
(***************************************************************************)
(* Proofs about parallel elaboration for any number of requests, helpers    *)
(* and chunks.  The invariants are layered: ShapeInv, what the variables    *)
(* are at which location; PlacesInv, each chunk in one place; CountInv, the *)
(* results that are still expected; each inductive relative to the ones     *)
(* before.                                                                  *)
(***************************************************************************)
EXTENDS ElaborationQueue, SequenceTheorems, FiniteSetTheorems, TLAPS

------------------------------------------------------------------------------
(* Sequences and sets *)

\* Taking the first element of a sequence without repetitions takes it out of its range.
LEMMA TailLosesHead ==
  ASSUME NEW S, NEW s \in Seq(S), s # <<>>, IsInjective(s)
  PROVE  /\ Head(s) \in Range(s)
         /\ IsInjective(Tail(s))
         /\ Range(Tail(s)) = Range(s) \ {Head(s)}
<1>1. /\ Len(s) \in Nat \ {0} /\ DOMAIN s = 1 .. Len(s) /\ Head(s) = s[1]
      /\ Tail(s) \in Seq(S) /\ Len(Tail(s)) = Len(s) - 1
      /\ \A i \in 1 .. (Len(s) - 1) : Tail(s)[i] = s[i + 1]
  BY EmptySeq, LenProperties, HeadTailProperties
<1>2. DOMAIN Tail(s) = 1 .. (Len(s) - 1)
  BY <1>1, LenProperties
<1>3. \A i, j \in 1 .. Len(s) : s[i] = s[j] => i = j
  BY <1>1 DEF IsInjective
<1>4. Head(s) \in Range(s)
  BY <1>1 DEF Range
<1>5. IsInjective(Tail(s))
  <2> SUFFICES ASSUME NEW i \in 1 .. (Len(s) - 1), NEW j \in 1 .. (Len(s) - 1),
                      Tail(s)[i] = Tail(s)[j]
               PROVE  i = j
    BY <1>2 DEF IsInjective
  <2>1. i + 1 \in 1 .. Len(s) /\ j + 1 \in 1 .. Len(s)
    BY <1>1
  <2>2. s[i + 1] = s[j + 1]
    BY <1>1
  <2> QED
    BY <2>1, <2>2, <1>3
<1>6. ASSUME NEW x \in Range(Tail(s)) PROVE x \in Range(s) \ {Head(s)}
  <2>1. PICK i \in 1 .. (Len(s) - 1) : x = Tail(s)[i]
    BY <1>2 DEF Range
  <2>2. x = s[i + 1] /\ i + 1 \in 1 .. Len(s) /\ i + 1 # 1 /\ 1 \in 1 .. Len(s)
    BY <1>1, <2>1
  <2> QED
    BY <1>1, <1>3, <2>2 DEF Range
<1>7. ASSUME NEW x \in Range(s), x # Head(s) PROVE x \in Range(Tail(s))
  <2>1. PICK i \in 1 .. Len(s) : x = s[i]
    BY <1>1 DEF Range
  <2>2. i # 1
    BY <1>1, <1>7, <2>1
  <2>3. i - 1 \in 1 .. (Len(s) - 1) /\ (i - 1) + 1 = i
    BY <1>1, <2>2
  <2>4. x = Tail(s)[i - 1]
    BY <1>1, <2>1, <2>3
  <2> QED
    BY <1>2, <2>3, <2>4 DEF Range
<1> QED
  BY <1>4, <1>5, <1>6, <1>7

\* Five sets of which no two share an element.
Apart(U, O, H, M, C) ==
  /\ U \cap O = {} /\ U \cap H = {} /\ U \cap M = {} /\ U \cap C = {}
  /\ O \cap H = {} /\ O \cap M = {} /\ O \cap C = {}
  /\ H \cap M = {} /\ H \cap C = {}
  /\ M \cap C = {}

------------------------------------------------------------------------------
(* Shapes *)

\* The types, but for the range of the results still expected, which is part of CountInv.
Shapes ==
  /\ DOMAIN facts \subseteq Requests
  /\ \A r \in DOMAIN facts : facts[r] \in Seq(Chunks)
  /\ owner \in [Requests -> {"idle", "collect", "elaborate", "done", "failed"}]
  /\ own \in [Requests -> Chunks \cup {NoChunk}]
  /\ remaining \in [Requests -> Int]
  /\ collected \in [Requests -> SUBSET Chunks]
  /\ mail \in [Requests -> Seq(Message)]
  /\ mutex \in Helpers \cup {Nobody}
  /\ helper \in [Helpers -> {"free", "taking", "elaborate"}]
  /\ stolen \in [Helpers -> Stolen \cup {Nothing}]

\* A chunk is in the hand of a thread exactly while it elaborates or is about to.
OwnAtWork == \A r \in Requests :
  (owner[r] = "elaborate" => own[r] \in Chunks) /\ (owner[r] # "elaborate" => own[r] = NoChunk)
StolenAtWork == \A h \in Helpers :
  (helper[h] # "free" => stolen[h] \in Stolen) /\ (helper[h] = "free" => stolen[h] = Nothing)

\* A helper between its read and its write has the mutex.
TakerHasMutex == \A h \in Helpers : helper[h] = "taking" => mutex = h

ShapeInv == Shapes /\ OwnAtWork /\ StolenAtWork /\ TakerHasMutex

LEMMA ChunksArePositive == Chunks \subseteq Nat \ {0} /\ NoChunk \notin Chunks
  BY ChunkAssumption DEF Chunks, NoChunk

LEMMA PutFact ==
  ASSUME NEW r \in Requests, NEW chunks, facts' = Put(r, chunks)
  PROVE  /\ DOMAIN facts' = DOMAIN facts \cup {r}
         /\ facts'[r] = chunks
         /\ \A q \in DOMAIN facts : q # r => facts'[q] = facts[q]
  BY DEF Put

LEMMA CleanupFacts ==
  ASSUME NEW r \in Requests, NEW end, Cleanup(r, end)
  PROVE  /\ DOMAIN facts' = DOMAIN facts \ {r}
         /\ \A q \in DOMAIN facts : q # r => facts'[q] = facts[q]
  BY DEF Cleanup, Restrict

LEMMA ShapeInit == Init => ShapeInv
<1> SUFFICES ASSUME Init PROVE ShapeInv
  OBVIOUS
<1> USE DEF Init
<1>1. DOMAIN facts = {}
  OBVIOUS
<1>2. Shapes
  <2>1. NumChunks \in Int
    BY ChunkAssumption
  <2> QED
    BY <1>1, <2>1 DEF Shapes, NoChunk, Nothing
<1>3. OwnAtWork /\ StolenAtWork /\ TakerHasMutex
  BY DEF OwnAtWork, StolenAtWork, TakerHasMutex
<1> QED
  BY <1>2, <1>3 DEF ShapeInv

\* After the cleanup of a request the facts and messages are of the same kind.
LEMMA CleanupShapes ==
  ASSUME Shapes, NEW r \in Requests, NEW end \in {"done", "failed"}, Cleanup(r, end)
  PROVE  /\ DOMAIN facts' \subseteq Requests
         /\ \A q \in DOMAIN facts' : facts'[q] \in Seq(Chunks)
         /\ owner' \in [Requests -> {"idle", "collect", "elaborate", "done", "failed"}]
         /\ mail' \in [Requests -> Seq(Message)]
<1>1. <<>> \in Seq(Message)
  OBVIOUS
<1> QED
  BY <1>1, CleanupFacts DEF Shapes, Cleanup

LEMMA PutShapes ==
  ASSUME Shapes, NEW r \in Requests, NEW chunks \in Seq(Chunks), facts' = Put(r, chunks)
  PROVE  /\ DOMAIN facts' \subseteq Requests
         /\ \A q \in DOMAIN facts' : facts'[q] \in Seq(Chunks)
<1>1. /\ DOMAIN facts' = DOMAIN facts \cup {r}
      /\ facts'[r] = chunks
      /\ \A q \in DOMAIN facts : q # r => facts'[q] = facts[q]
  BY PutFact
<1> QED
  BY <1>1 DEF Shapes

LEMMA ShapeNext == ShapeInv /\ [Next]_vars => ShapeInv'
<1> SUFFICES ASSUME ShapeInv, [Next]_vars PROVE ShapeInv'
  OBVIOUS
<1> USE ChunksArePositive DEF ShapeInv
<1>1. ASSUME NEW r \in Requests, CreateRequestQueue(r) PROVE ShapeInv'
  <2>1. Split \in Seq(Chunks)
    BY ChunkAssumption DEF Split, Chunks
  <2>2. Shapes'
    BY <1>1, <2>1, PutShapes DEF CreateRequestQueue, Shapes, helperVars
  <2>3. (OwnAtWork /\ StolenAtWork /\ TakerHasMutex)'
    BY <1>1 DEF CreateRequestQueue, Shapes, OwnAtWork, StolenAtWork, TakerHasMutex, helperVars
  <2> QED
    BY <2>2, <2>3
<1>2. ASSUME NEW r \in Requests, TakeOwnChunk(r) PROVE ShapeInv'
  <2>1. facts[r] \in Seq(Chunks) /\ Head(facts[r]) \in Chunks /\ Tail(facts[r]) \in Seq(Chunks)
    BY <1>2, HeadTailProperties DEF TakeOwnChunk, HasOwnChunk, Shapes
  <2>2. Shapes'
    BY <1>2, <2>1, PutShapes DEF TakeOwnChunk, Shapes, helperVars
  <2>3. (OwnAtWork /\ StolenAtWork /\ TakerHasMutex)'
    BY <1>2, <2>1 DEF TakeOwnChunk, Shapes, OwnAtWork, StolenAtWork, TakerHasMutex, helperVars
  <2> QED
    BY <2>2, <2>3
<1>3. ASSUME NEW r \in Requests, ElaborateOwn(r) PROVE ShapeInv'
  <2>1. own[r] \in Chunks
    BY <1>3 DEF ElaborateOwn, OwnAtWork
  <2>2. Shapes'
    <3>1. CASE Collect(r, own[r]) /\ owner' = [owner EXCEPT ![r] = "collect"] /\ UNCHANGED <<facts, mail>>
      BY <1>3, <2>1, <3>1 DEF ElaborateOwn, Collect, Shapes, helperVars
    <3>2. CASE Cleanup(r, "failed") /\ UNCHANGED <<remaining, collected>>
      BY <1>3, <3>2, CleanupShapes DEF ElaborateOwn, Shapes, helperVars
    <3> QED
      BY <1>3, <3>1, <3>2 DEF ElaborateOwn
  <2>3. (OwnAtWork /\ StolenAtWork /\ TakerHasMutex)'
    BY <1>3 DEF ElaborateOwn, Collect, Cleanup, Shapes, OwnAtWork, StolenAtWork, TakerHasMutex, helperVars
  <2> QED
    BY <2>2, <2>3
<1>4. ASSUME NEW r \in Requests, ReceiveMessage(r) PROVE ShapeInv'
  <2>1. Head(mail[r]) \in Message /\ Tail(mail[r]) \in Seq(Message)
    BY <1>4, HeadTailProperties DEF ReceiveMessage, Shapes
  <2>2. Shapes'
    <3>1. CASE Head(mail[r]).done
      <4>1. Head(mail[r]).chunk \in Chunks
        BY <2>1 DEF Message
      <4>2. /\ Collect(r, Head(mail[r]).chunk)
            /\ mail' = [mail EXCEPT ![r] = Tail(@)]
            /\ UNCHANGED <<facts, owner, own, mutex, helper, stolen>>
        BY <1>4, <3>1 DEF ReceiveMessage, helperVars
      <4>3. /\ collected' \in [Requests -> SUBSET Chunks]
            /\ remaining' \in [Requests -> Int]
        BY <4>1, <4>2 DEF Collect, Shapes
      <4>4. mail' \in [Requests -> Seq(Message)]
        BY <2>1, <4>2 DEF Shapes
      <4> QED
        BY <4>2, <4>3, <4>4 DEF Shapes
    <3>2. CASE ~Head(mail[r]).done
      BY <1>4, <3>2, CleanupShapes DEF ReceiveMessage, Shapes, helperVars
    <3> QED
      BY <3>1, <3>2
  <2>3. (OwnAtWork /\ StolenAtWork /\ TakerHasMutex)'
    BY <1>4 DEF ReceiveMessage, Collect, Cleanup, Shapes, OwnAtWork, StolenAtWork, TakerHasMutex, helperVars
  <2> QED
    BY <2>2, <2>3
<1>5. ASSUME NEW r \in Requests, Timeout(r) \/ Finish(r) PROVE ShapeInv'
  <2>1. PICK end \in {"done", "failed"} : Cleanup(r, end)
    BY <1>5 DEF Timeout, Finish
  <2>2. owner[r] = "collect" /\ UNCHANGED <<own, remaining, collected, mutex, helperVars>>
    BY <1>5 DEF Timeout, Finish
  <2>3. Shapes'
    BY <2>1, <2>2, CleanupShapes DEF Shapes, helperVars
  <2>4. (OwnAtWork /\ StolenAtWork /\ TakerHasMutex)'
    BY <2>1, <2>2 DEF Cleanup, Shapes, OwnAtWork, StolenAtWork, TakerHasMutex, helperVars
  <2> QED
    BY <2>3, <2>4
<1>6. ASSUME NEW h \in Helpers, ReadChunk(h) PROVE ShapeInv'
  <2>1. PICK r \in DOMAIN facts :
          /\ facts[r] # <<>>
          /\ stolen' = [stolen EXCEPT ![h] =
               [request |-> r, chunk |-> Head(facts[r]), rest |-> Tail(facts[r])]]
    BY <1>6 DEF ReadChunk
  <2>2. [request |-> r, chunk |-> Head(facts[r]), rest |-> Tail(facts[r])] \in Stolen
    BY <2>1, HeadTailProperties DEF Shapes, Stolen
  <2>3. Shapes'
    BY <1>6, <2>1, <2>2 DEF ReadChunk, Shapes, ownerVars
  <2>4. OwnAtWork' /\ StolenAtWork'
    BY <1>6, <2>1, <2>2 DEF ReadChunk, Shapes, OwnAtWork, StolenAtWork, ownerVars
  <2>5. TakerHasMutex'
    BY <1>6, NobodyAssumption DEF ReadChunk, MutexFree, Shapes, TakerHasMutex
  <2> QED
    BY <2>3, <2>4, <2>5
<1>7. ASSUME NEW h \in Helpers, TakeChunk(h) PROVE ShapeInv'
  <2>1. stolen[h].request \in Requests /\ stolen[h].rest \in Seq(Chunks)
    BY <1>7 DEF TakeChunk, StolenAtWork, Stolen
  <2>2. Shapes'
    BY <1>7, <2>1, PutShapes DEF TakeChunk, Shapes, ownerVars
  <2>3. OwnAtWork' /\ StolenAtWork'
    BY <1>7 DEF TakeChunk, Shapes, OwnAtWork, StolenAtWork, ownerVars
  <2>4. TakerHasMutex'
    BY <1>7 DEF TakeChunk, Shapes, TakerHasMutex
  <2> QED
    BY <2>2, <2>3, <2>4
<1>8. ASSUME NEW h \in Helpers, ElaborateStolen(h) PROVE ShapeInv'
  <2>1. mail' \in [Requests -> Seq(Message)]
    <3>1. stolen[h].request \in Requests /\ stolen[h].chunk \in Chunks
      BY <1>8 DEF ElaborateStolen, StolenAtWork, Stolen
    <3>2. ASSUME NEW done \in BOOLEAN, Send(stolen[h].request, [done |-> done, chunk |-> stolen[h].chunk])
          PROVE  mail' \in [Requests -> Seq(Message)]
      <4>1. [done |-> done, chunk |-> stolen[h].chunk] \in Message
        BY <3>1 DEF Message
      <4>2. Append(mail[stolen[h].request], [done |-> done, chunk |-> stolen[h].chunk]) \in Seq(Message)
        BY <3>1, <4>1, AppendProperties DEF Shapes
      <4> QED
        BY <3>1, <3>2, <4>2 DEF Send, Shapes
    <3> QED
      BY <1>8, <3>2 DEF ElaborateStolen, Shapes
  <2>2. Shapes'
    BY <1>8, <2>1 DEF ElaborateStolen, Shapes, ownerVars
  <2>3. OwnAtWork' /\ StolenAtWork' /\ TakerHasMutex'
    BY <1>8 DEF ElaborateStolen, Shapes, OwnAtWork, StolenAtWork, TakerHasMutex, ownerVars
  <2> QED
    BY <2>2, <2>3
<1>9. CASE UNCHANGED vars
  BY <1>9 DEF vars, ownerVars, helperVars, Shapes, OwnAtWork, StolenAtWork, TakerHasMutex
<1> QED
  BY <1>1, <1>2, <1>3, <1>4, <1>5, <1>6, <1>7, <1>8, <1>9 DEF Next, OwnerStep

------------------------------------------------------------------------------
(* Places *)

OneHelperEach(r) == \A g, h \in Helpers :
  InHand(r, g) /\ InHand(r, h) /\ stolen[g].chunk = stolen[h].chunk => g = h
OneMessageEach(r) == \A i, j \in 1 .. Len(mail[r]) :
  mail[r][i].chunk = mail[r][j].chunk => i = j

\* What a helper has read is what it takes: the fact does not change between the two
\* steps, unless the request is cleaned up.
ReadIsCurrent(r) == \A h \in Helpers :
  helper[h] = "taking" /\ stolen[h].request = r =>
    /\ facts[r] # <<>>
    /\ stolen[h].chunk = Head(facts[r])
    /\ stolen[h].rest = Tail(facts[r])

Fresh(r) ==
  /\ r \notin DOMAIN facts
  /\ collected[r] = {}
  /\ mail[r] = <<>>
  /\ \A h \in Helpers : stolen[h].request # r

InPlace(r) ==
  /\ r \in DOMAIN facts
  /\ IsInjective(facts[r])
  /\ ReadIsCurrent(r)
  /\ OneHelperEach(r)
  /\ OneMessageEach(r)
  /\ Apart(Untaken(r), WithOwner(r), WithHelpers(r), InMail(r), collected[r])

RequestInv(r) == (owner[r] = "idle" => Fresh(r)) /\ (Collecting(r) => InPlace(r))
PlacesInv == \A r \in Requests : RequestInv(r)

\* A step that leaves alone what concerns a request keeps what holds of it.
LEMMA Undisturbed ==
  ASSUME NEW r \in Requests, RequestInv(r),
         UNCHANGED <<owner[r], own[r], collected[r], mail[r]>>,
         r \in DOMAIN facts' <=> r \in DOMAIN facts,
         r \in DOMAIN facts => facts'[r] = facts[r],
         \A h \in Helpers : stolen[h].request = r \/ stolen'[h].request = r =>
           UNCHANGED <<helper[h], stolen[h]>>
  PROVE  RequestInv(r)'
<1>1. CASE owner[r] = "idle"
  BY <1>1 DEF RequestInv, Fresh, Collecting
<1>2. CASE Collecting(r)
  <2>1. \A h \in Helpers : InHand(r, h)' <=> InHand(r, h)
    BY DEF InHand
  <2>2. \A h \in Helpers : InHand(r, h) => stolen'[h] = stolen[h]
    BY DEF InHand
  <2>3. Untaken(r)' = Untaken(r) /\ WithOwner(r)' = WithOwner(r) /\ InMail(r)' = InMail(r)
    BY DEF Untaken, WithOwner, InMail
  <2>4. WithHelpers(r)' = WithHelpers(r)
    BY <2>1, <2>2 DEF WithHelpers
  <2>5. InPlace(r)
    BY <1>2 DEF RequestInv
  <2>6. ReadIsCurrent(r)'
    BY <2>5 DEF InPlace, ReadIsCurrent
  <2>7. OneHelperEach(r)'
    BY <2>1, <2>2, <2>5 DEF InPlace, OneHelperEach
  <2>8. OneMessageEach(r)'
    BY <2>5 DEF InPlace, OneMessageEach
  <2>9. /\ r \in DOMAIN facts' /\ IsInjective(facts'[r])
        /\ Apart(Untaken(r), WithOwner(r), WithHelpers(r), InMail(r), collected[r])'
    BY <2>3, <2>4, <2>5 DEF InPlace
  <2>10. InPlace(r)'
    BY <2>6, <2>7, <2>8, <2>9 DEF InPlace
  <2> QED
    BY <1>2, <2>10 DEF RequestInv, Collecting
<1>3. CASE owner[r] # "idle" /\ ~Collecting(r)
  BY <1>3 DEF RequestInv, Collecting
<1> QED
  BY <1>1, <1>2, <1>3

\* A request that ends has nothing to keep, and its end concerns no other.
LEMMA CleanupPlaces ==
  ASSUME ShapeInv, PlacesInv, NEW r \in Requests, NEW end \in {"done", "failed"},
         Cleanup(r, end), UNCHANGED helperVars,
         \A q \in Requests : q # r => UNCHANGED <<own[q], collected[q]>>
  PROVE  PlacesInv'
<1> SUFFICES ASSUME NEW q \in Requests PROVE RequestInv(q)'
  BY DEF PlacesInv
<1>1. CASE q = r
  BY <1>1 DEF ShapeInv, Shapes, Cleanup, RequestInv, Collecting
<1>2. CASE q # r
  <2>1. UNCHANGED <<owner[q], mail[q]>>
    BY <1>2 DEF ShapeInv, Shapes, Cleanup
  <2>2. /\ q \in DOMAIN facts' <=> q \in DOMAIN facts
        /\ q \in DOMAIN facts => facts'[q] = facts[q]
    BY <1>2, CleanupFacts
  <2> QED
    BY <1>2, <2>1, <2>2, Undisturbed DEF PlacesInv, helperVars
<1> QED
  BY <1>1, <1>2

LEMMA PlacesInit == Init => PlacesInv
  BY NobodyAssumption DEF Init, PlacesInv, RequestInv, Fresh, Collecting, Nothing

LEMMA CreatePlaces ==
  ASSUME ShapeInv, PlacesInv, NEW r \in Requests, CreateRequestQueue(r)
  PROVE  PlacesInv'
<1> SUFFICES ASSUME NEW q \in Requests PROVE RequestInv(q)'
  BY DEF PlacesInv
<1>1. /\ owner[r] = "idle" /\ owner'[r] = "collect"
      /\ UNCHANGED <<own, collected, mail, helper, stolen>>
      /\ DOMAIN facts' = DOMAIN facts \cup {r} /\ facts'[r] = Split
      /\ \A p \in DOMAIN facts : p # r => facts'[p] = facts[p]
      /\ \A p \in Requests : p # r => owner'[p] = owner[p]
  BY PutFact DEF CreateRequestQueue, helperVars, ShapeInv, Shapes
<1>2. CASE q = r
  <2>1. Fresh(r) /\ own[r] = NoChunk
    BY <1>1 DEF PlacesInv, RequestInv, ShapeInv, OwnAtWork
  <2>2. IsInjective(Split) /\ r \in DOMAIN facts'
    BY <1>1 DEF Split, IsInjective
  <2>3. ReadIsCurrent(r)' /\ OneHelperEach(r)'
    BY <1>1, <2>1 DEF Fresh, ReadIsCurrent, OneHelperEach, InHand
  <2>4. OneMessageEach(r)' /\ InMail(r)' = {}
    BY <1>1, <2>1 DEF Fresh, OneMessageEach, InMail, Range
  <2>5. WithOwner(r)' = {} /\ WithHelpers(r)' = {} /\ collected'[r] = {}
    BY <1>1, <2>1 DEF Fresh, WithOwner, WithHelpers, InHand
  <2>6. InPlace(r)'
    BY <1>1, <2>2, <2>3, <2>4, <2>5 DEF InPlace, Apart
  <2> QED
    BY <1>1, <1>2, <2>6 DEF RequestInv
<1>3. CASE q # r
  BY <1>1, <1>3, Undisturbed DEF PlacesInv
<1> QED
  BY <1>2, <1>3

LEMMA TakeOwnPlaces ==
  ASSUME ShapeInv, PlacesInv, NEW r \in Requests, TakeOwnChunk(r)
  PROVE  PlacesInv'
<1> SUFFICES ASSUME NEW q \in Requests PROVE RequestInv(q)'
  BY DEF PlacesInv
<1>1. /\ owner[r] = "collect" /\ owner'[r] = "elaborate" /\ facts[r] # <<>>
      /\ own'[r] = Head(facts[r]) /\ mutex = Nobody
      /\ UNCHANGED <<collected, mail, helper, stolen>>
      /\ DOMAIN facts' = DOMAIN facts \cup {r} /\ facts'[r] = Tail(facts[r])
      /\ \A p \in DOMAIN facts : p # r => facts'[p] = facts[p]
      /\ \A p \in Requests : p # r => owner'[p] = owner[p] /\ own'[p] = own[p]
  BY PutFact DEF TakeOwnChunk, HasOwnChunk, MutexFree, helperVars, ShapeInv, Shapes
<1>2. CASE q = r
  <2>1. InPlace(r) /\ own[r] = NoChunk
    BY <1>1 DEF PlacesInv, RequestInv, Collecting, ShapeInv, OwnAtWork
  <2>2. facts[r] \in Seq(Chunks) /\ IsInjective(facts[r]) /\ r \in DOMAIN facts
    BY <2>1 DEF InPlace, ShapeInv, Shapes
  <2>3. /\ Head(facts[r]) \in Range(facts[r])
        /\ IsInjective(Tail(facts[r]))
        /\ Range(Tail(facts[r])) = Range(facts[r]) \ {Head(facts[r])}
    BY <1>1, <2>2, TailLosesHead
  <2>4. /\ Untaken(r)' = Untaken(r) \ {Head(facts[r])} /\ Head(facts[r]) \in Untaken(r)
        /\ WithOwner(r)' \subseteq {Head(facts[r])}
    BY <1>1, <2>2, <2>3 DEF Untaken, WithOwner
  <2>5. WithHelpers(r)' = WithHelpers(r) /\ InMail(r)' = InMail(r) /\ collected'[r] = collected[r]
    BY <1>1 DEF WithHelpers, InHand, InMail
  <2>6. Apart(Untaken(r), WithOwner(r), WithHelpers(r), InMail(r), collected[r])'
    BY <2>1, <2>4, <2>5 DEF InPlace, Apart
  <2>7. ReadIsCurrent(r)'
    BY <1>1, NobodyAssumption DEF ReadIsCurrent, ShapeInv, TakerHasMutex
  <2>8. OneHelperEach(r)' /\ OneMessageEach(r)'
    BY <1>1, <2>1 DEF InPlace, OneHelperEach, OneMessageEach, InHand
  <2>9. InPlace(r)'
    BY <1>1, <2>3, <2>6, <2>7, <2>8 DEF InPlace
  <2> QED
    BY <1>1, <1>2, <2>9 DEF RequestInv
<1>3. CASE q # r
  BY <1>1, <1>3, Undisturbed DEF PlacesInv
<1> QED
  BY <1>2, <1>3

LEMMA ElaborateOwnPlaces ==
  ASSUME ShapeInv, PlacesInv, NEW r \in Requests, ElaborateOwn(r)
  PROVE  PlacesInv'
<1>1. CASE Cleanup(r, "failed") /\ UNCHANGED collected
  BY <1>1, CleanupPlaces DEF ElaborateOwn, ShapeInv, Shapes
<1>2. CASE Collect(r, own[r]) /\ owner' = [owner EXCEPT ![r] = "collect"] /\ UNCHANGED <<facts, mail>>
  <2> SUFFICES ASSUME NEW q \in Requests PROVE RequestInv(q)'
    BY DEF PlacesInv
  <2>1. /\ owner[r] = "elaborate" /\ owner'[r] = "collect" /\ own'[r] = NoChunk
        /\ collected'[r] = collected[r] \cup {own[r]}
        /\ UNCHANGED <<facts, mail, helper, stolen>>
        /\ \A p \in Requests : p # r => UNCHANGED <<owner[p], own[p], collected[p]>>
    BY <1>2 DEF ElaborateOwn, Collect, helperVars, ShapeInv, Shapes
  <2>2. CASE q = r
    <3>1. InPlace(r) /\ own[r] \in Chunks
      BY <2>1 DEF PlacesInv, RequestInv, Collecting, ShapeInv, OwnAtWork
    <3>2. WithOwner(r) = {own[r]} /\ WithOwner(r)' = {}
      BY <2>1, <3>1, ChunksArePositive DEF WithOwner
    <3>3. Untaken(r)' = Untaken(r) /\ WithHelpers(r)' = WithHelpers(r) /\ InMail(r)' = InMail(r)
      BY <2>1 DEF Untaken, WithHelpers, InHand, InMail
    <3>4. Apart(Untaken(r), WithOwner(r), WithHelpers(r), InMail(r), collected[r])'
      BY <2>1, <3>1, <3>2, <3>3 DEF InPlace, Apart
    <3>5. (ReadIsCurrent(r) /\ OneHelperEach(r) /\ OneMessageEach(r))'
      BY <2>1, <3>1 DEF InPlace, ReadIsCurrent, OneHelperEach, OneMessageEach, InHand
    <3>6. InPlace(r)'
      BY <2>1, <3>1, <3>4, <3>5 DEF InPlace
    <3> QED
      BY <2>1, <2>2, <3>6 DEF RequestInv
  <2>3. CASE q # r
    BY <2>1, <2>3, Undisturbed DEF PlacesInv
  <2> QED
    BY <2>2, <2>3
<1> QED
  BY <1>1, <1>2 DEF ElaborateOwn

\* Taking the oldest message takes its chunk out of those in messages.
LEMMA TailLosesMessage ==
  ASSUME NEW s \in Seq(Message), s # <<>>,
         \A i, j \in 1 .. Len(s) : s[i].chunk = s[j].chunk => i = j
  PROVE  /\ \A i, j \in 1 .. Len(Tail(s)) : Tail(s)[i].chunk = Tail(s)[j].chunk => i = j
         /\ Head(s).chunk \in {m.chunk : m \in Range(s)}
         /\ {m.chunk : m \in Range(Tail(s))} = {m.chunk : m \in Range(s)} \ {Head(s).chunk}
<1>1. /\ Len(s) \in Nat \ {0} /\ DOMAIN s = 1 .. Len(s) /\ Head(s) = s[1]
      /\ Tail(s) \in Seq(Message) /\ Len(Tail(s)) = Len(s) - 1
      /\ \A i \in 1 .. (Len(s) - 1) : Tail(s)[i] = s[i + 1]
  BY EmptySeq, LenProperties, HeadTailProperties
<1>2. DOMAIN Tail(s) = 1 .. (Len(s) - 1)
  BY <1>1, LenProperties
<1>3. \A i, j \in 1 .. Len(Tail(s)) : Tail(s)[i].chunk = Tail(s)[j].chunk => i = j
  <2> SUFFICES ASSUME NEW i \in 1 .. (Len(s) - 1), NEW j \in 1 .. (Len(s) - 1),
                      Tail(s)[i].chunk = Tail(s)[j].chunk
               PROVE  i = j
    BY <1>1
  <2>1. i + 1 \in 1 .. Len(s) /\ j + 1 \in 1 .. Len(s) /\ s[i + 1].chunk = s[j + 1].chunk
    BY <1>1
  <2> QED
    BY <2>1
<1>4. Head(s).chunk \in {m.chunk : m \in Range(s)}
  BY <1>1 DEF Range
<1>5. ASSUME NEW x \in {m.chunk : m \in Range(Tail(s))}
      PROVE  x \in {m.chunk : m \in Range(s)} \ {Head(s).chunk}
  <2>1. PICK i \in 1 .. (Len(s) - 1) : x = Tail(s)[i].chunk
    BY <1>2 DEF Range
  <2>2. x = s[i + 1].chunk /\ i + 1 \in 1 .. Len(s) /\ i + 1 # 1 /\ 1 \in 1 .. Len(s)
    BY <1>1, <2>1
  <2> QED
    BY <1>1, <2>2 DEF Range
<1>6. ASSUME NEW x \in {m.chunk : m \in Range(s)}, x # Head(s).chunk
      PROVE  x \in {m.chunk : m \in Range(Tail(s))}
  <2>1. PICK i \in 1 .. Len(s) : x = s[i].chunk
    BY <1>1 DEF Range
  <2>2. i # 1
    BY <1>1, <1>6, <2>1
  <2>3. i - 1 \in 1 .. (Len(s) - 1) /\ (i - 1) + 1 = i
    BY <1>1, <2>2
  <2>4. x = Tail(s)[i - 1].chunk
    BY <1>1, <2>1, <2>3
  <2> QED
    BY <1>2, <2>3, <2>4 DEF Range
<1> QED
  BY <1>3, <1>4, <1>5, <1>6

LEMMA AppendGainsMessage ==
  ASSUME NEW s \in Seq(Message), NEW m \in Message,
         \A i, j \in 1 .. Len(s) : s[i].chunk = s[j].chunk => i = j,
         m.chunk \notin {n.chunk : n \in Range(s)}
  PROVE  /\ \A i, j \in 1 .. Len(Append(s, m)) :
              Append(s, m)[i].chunk = Append(s, m)[j].chunk => i = j
         /\ {n.chunk : n \in Range(Append(s, m))} = {n.chunk : n \in Range(s)} \cup {m.chunk}
<1> DEFINE t == Append(s, m)
<1>1. /\ Len(s) \in Nat /\ DOMAIN s = 1 .. Len(s)
      /\ t \in Seq(Message) /\ Len(t) = Len(s) + 1 /\ t[Len(s) + 1] = m
      /\ \A i \in 1 .. Len(s) : t[i] = s[i]
  BY LenProperties, AppendProperties
<1>2. DOMAIN t = 1 .. (Len(s) + 1)
  BY <1>1, LenProperties
<1>3. \A i \in 1 .. Len(s) : s[i].chunk # m.chunk
  BY <1>1 DEF Range
<1> HIDE DEF t
<1>4. ASSUME NEW i \in 1 .. Len(t), NEW j \in 1 .. Len(t), t[i].chunk = t[j].chunk PROVE i = j
  <2>1. i \in 1 .. Len(s) \/ i = Len(s) + 1
    BY <1>1
  <2>2. j \in 1 .. Len(s) \/ j = Len(s) + 1
    BY <1>1
  <2> QED
    BY <1>1, <1>3, <1>4, <2>1, <2>2
<1>5. {n.chunk : n \in Range(t)} \subseteq {n.chunk : n \in Range(s)} \cup {m.chunk}
  <2> SUFFICES ASSUME NEW i \in 1 .. (Len(s) + 1)
               PROVE  t[i].chunk \in {n.chunk : n \in Range(s)} \cup {m.chunk}
    BY <1>2 DEF Range
  <2>1. i \in 1 .. Len(s) \/ i = Len(s) + 1
    BY <1>1
  <2> QED
    BY <1>1, <2>1 DEF Range
<1>6. {n.chunk : n \in Range(s)} \cup {m.chunk} \subseteq {n.chunk : n \in Range(t)}
  <2>1. Len(s) + 1 \in 1 .. (Len(s) + 1) /\ \A i \in 1 .. Len(s) : i \in 1 .. (Len(s) + 1)
    BY <1>1
  <2> QED
    BY <1>1, <1>2, <2>1 DEF Range
<1> QED
  BY <1>4, <1>5, <1>6 DEF t

LEMMA ReceivePlaces ==
  ASSUME ShapeInv, PlacesInv, NEW r \in Requests, ReceiveMessage(r)
  PROVE  PlacesInv'
<1>1. CASE ~Head(mail[r]).done
  BY <1>1, CleanupPlaces DEF ReceiveMessage, ShapeInv, Shapes
<1>2. CASE Head(mail[r]).done
  <2> SUFFICES ASSUME NEW q \in Requests PROVE RequestInv(q)'
    BY DEF PlacesInv
  <2>1. /\ owner[r] = "collect" /\ mail[r] # <<>> /\ mail'[r] = Tail(mail[r])
        /\ collected'[r] = collected[r] \cup {Head(mail[r]).chunk}
        /\ UNCHANGED <<facts, owner, own, helper, stolen>>
        /\ \A p \in Requests : p # r => UNCHANGED <<mail[p], collected[p]>>
    BY <1>2 DEF ReceiveMessage, Collect, helperVars, ShapeInv, Shapes
  <2>2. CASE q = r
    <3>1. InPlace(r) /\ mail[r] \in Seq(Message)
      BY <2>1 DEF PlacesInv, RequestInv, Collecting, ShapeInv, Shapes
    <3>2. /\ OneMessageEach(r)'
          /\ Head(mail[r]).chunk \in InMail(r)
          /\ InMail(r)' = InMail(r) \ {Head(mail[r]).chunk}
      <4>1. \A i, j \in 1 .. Len(mail[r]) : mail[r][i].chunk = mail[r][j].chunk => i = j
        BY <3>1 DEF InPlace, OneMessageEach
      <4>2. /\ \A i, j \in 1 .. Len(Tail(mail[r])) :
                 Tail(mail[r])[i].chunk = Tail(mail[r])[j].chunk => i = j
            /\ Head(mail[r]).chunk \in {m.chunk : m \in Range(mail[r])}
            /\ {m.chunk : m \in Range(Tail(mail[r]))}
                 = {m.chunk : m \in Range(mail[r])} \ {Head(mail[r]).chunk}
        BY <2>1, <3>1, <4>1, TailLosesMessage
      <4> QED
        BY <2>1, <4>2 DEF OneMessageEach, InMail
    <3>3. Untaken(r)' = Untaken(r) /\ WithHelpers(r)' = WithHelpers(r) /\ WithOwner(r)' = WithOwner(r)
      BY <2>1 DEF Untaken, WithHelpers, InHand, WithOwner
    <3>4. Apart(Untaken(r), WithOwner(r), WithHelpers(r), InMail(r), collected[r])'
      BY <2>1, <3>1, <3>2, <3>3 DEF InPlace, Apart
    <3>5. (ReadIsCurrent(r) /\ OneHelperEach(r))'
      BY <2>1, <3>1 DEF InPlace, ReadIsCurrent, OneHelperEach, InHand
    <3>6. InPlace(r)'
      BY <2>1, <3>1, <3>2, <3>4, <3>5 DEF InPlace
    <3> QED
      BY <2>1, <2>2, <3>6 DEF RequestInv
  <2>3. CASE q # r
    BY <2>1, <2>3, Undisturbed DEF PlacesInv
  <2> QED
    BY <2>2, <2>3
<1> QED
  BY <1>1, <1>2

LEMMA ReadPlaces ==
  ASSUME ShapeInv, PlacesInv, NEW h \in Helpers, ReadChunk(h)
  PROVE  PlacesInv'
<1> SUFFICES ASSUME NEW q \in Requests PROVE RequestInv(q)'
  BY DEF PlacesInv
<1>1. PICK r \in DOMAIN facts :
        /\ facts[r] # <<>>
        /\ stolen' = [stolen EXCEPT ![h] =
             [request |-> r, chunk |-> Head(facts[r]), rest |-> Tail(facts[r])]]
  BY DEF ReadChunk
<1>2. /\ r \in Requests /\ helper[h] = "free" /\ helper'[h] = "taking" /\ mutex = Nobody
      /\ stolen[h] = Nothing
      /\ stolen'[h] = [request |-> r, chunk |-> Head(facts[r]), rest |-> Tail(facts[r])]
      /\ UNCHANGED <<facts, owner, own, collected, mail>>
      /\ \A g \in Helpers : g # h => UNCHANGED <<helper[g], stolen[g]>>
  BY <1>1 DEF ReadChunk, MutexFree, ownerVars, ShapeInv, Shapes, StolenAtWork
<1>3. \A g \in Helpers : helper[g] # "taking"
  BY <1>2, NobodyAssumption DEF ShapeInv, TakerHasMutex
<1>4. CASE q = r /\ Collecting(r)
  <2>1. InPlace(r)
    BY <1>2, <1>4 DEF PlacesInv, RequestInv
  <2>2. \A g \in Helpers : (InHand(r, g)' <=> InHand(r, g)) /\ (InHand(r, g) => stolen'[g] = stolen[g])
    BY <1>2 DEF InHand
  <2>3. WithHelpers(r)' = WithHelpers(r)
    BY <2>2 DEF WithHelpers
  <2>4. Untaken(r)' = Untaken(r) /\ WithOwner(r)' = WithOwner(r) /\ InMail(r)' = InMail(r)
    BY <1>2 DEF Untaken, WithOwner, InMail
  <2>5. ReadIsCurrent(r)'
    <3>1. \A g \in Helpers : helper'[g] = "taking" => g = h
      BY <1>2, <1>3
    <3>2. facts'[r] # <<>> /\ stolen'[h].chunk = Head(facts'[r]) /\ stolen'[h].rest = Tail(facts'[r])
      BY <1>1, <1>2
    <3> QED
      BY <3>1, <3>2 DEF ReadIsCurrent
  <2>6. OneHelperEach(r)' /\ OneMessageEach(r)'
    BY <1>2, <2>1, <2>2 DEF InPlace, OneHelperEach, OneMessageEach
  <2>7. InPlace(r)'
    BY <1>2, <2>1, <2>3, <2>4, <2>5, <2>6 DEF InPlace
  <2> QED
    BY <1>2, <1>4, <2>7 DEF RequestInv, Collecting
<1>5. CASE q = r /\ ~Collecting(r)
  BY <1>1, <1>2, <1>5 DEF PlacesInv, RequestInv, Fresh, Collecting
<1>6. CASE q # r
  <2>1. stolen[h].request # q /\ stolen'[h].request # q
    BY <1>2, <1>6, NobodyAssumption DEF Nothing
  <2> QED
    BY <1>2, <2>1, Undisturbed DEF PlacesInv
<1> QED
  BY <1>4, <1>5, <1>6

LEMMA TakePlaces ==
  ASSUME ShapeInv, PlacesInv, NEW h \in Helpers, TakeChunk(h)
  PROVE  PlacesInv'
<1> SUFFICES ASSUME NEW q \in Requests PROVE RequestInv(q)'
  BY DEF PlacesInv
<1>0. PICK r \in Requests, c \in Chunks : stolen[h].request = r /\ stolen[h].chunk = c
  BY DEF TakeChunk, ShapeInv, StolenAtWork, Stolen
<1>1. /\ helper[h] = "taking" /\ helper'[h] = "elaborate" /\ mutex = h
      /\ UNCHANGED <<owner, own, collected, mail, stolen>>
      /\ \A g \in Helpers : g # h => helper'[g] = helper[g]
  BY DEF TakeChunk, ownerVars, ShapeInv, Shapes, TakerHasMutex
<1>2. /\ DOMAIN facts' = DOMAIN facts \cup {r} /\ facts'[r] = stolen[h].rest
      /\ \A p \in DOMAIN facts : p # r => facts'[p] = facts[p]
  BY <1>0, PutFact DEF TakeChunk
<1>3. \A g \in Helpers : helper'[g] # "taking"
  BY <1>1 DEF ShapeInv, TakerHasMutex
<1>4. CASE q = r /\ Collecting(r)
  <2>1. InPlace(r)
    BY <1>1, <1>4 DEF PlacesInv, RequestInv
  <2>2. facts[r] # <<>> /\ c = Head(facts[r]) /\ facts'[r] = Tail(facts[r])
    BY <1>0, <1>1, <1>2, <2>1 DEF InPlace, ReadIsCurrent
  <2>3. facts[r] \in Seq(Chunks) /\ IsInjective(facts[r]) /\ r \in DOMAIN facts
    BY <2>1 DEF InPlace, ShapeInv, Shapes
  <2>4. /\ c \in Range(facts[r])
        /\ IsInjective(Tail(facts[r]))
        /\ Range(Tail(facts[r])) = Range(facts[r]) \ {c}
    BY <2>2, <2>3, TailLosesHead
  <2>5. c \in Untaken(r) /\ Untaken(r)' = Untaken(r) \ {c}
    BY <1>2, <2>2, <2>3, <2>4 DEF Untaken
  <2>6. InHand(r, h)' /\ \A g \in Helpers : InHand(r, g)' <=> InHand(r, g) \/ g = h
    BY <1>0, <1>1 DEF InHand
  <2>7. WithHelpers(r)' = WithHelpers(r) \cup {c}
    BY <1>0, <1>1, <2>6 DEF WithHelpers
  <2>8. WithOwner(r)' = WithOwner(r) /\ InMail(r)' = InMail(r) /\ collected'[r] = collected[r]
    BY <1>1 DEF WithOwner, InMail
  <2>9. Apart(Untaken(r), WithOwner(r), WithHelpers(r), InMail(r), collected[r])
    BY <2>1 DEF InPlace
  <2>10. Apart(Untaken(r), WithOwner(r), WithHelpers(r), InMail(r), collected[r])'
    BY <2>5, <2>7, <2>8, <2>9 DEF Apart
  <2>11. \A g \in Helpers : InHand(r, g) => stolen[g].chunk # c
    BY <2>5, <2>9 DEF Apart, WithHelpers
  <2>12. OneHelperEach(r)'
    BY <1>0, <1>1, <2>1, <2>6, <2>11 DEF InPlace, OneHelperEach
  <2>13. ReadIsCurrent(r)' /\ OneMessageEach(r)'
    BY <1>1, <1>3, <2>1 DEF InPlace, ReadIsCurrent, OneMessageEach
  <2>14. InPlace(r)'
    BY <1>2, <2>2, <2>4, <2>10, <2>12, <2>13 DEF InPlace
  <2> QED
    BY <1>1, <1>4, <2>14 DEF RequestInv, Collecting
<1>5. CASE q = r /\ ~Collecting(r)
  <2>1. owner[r] # "idle"
    BY <1>0, <1>1 DEF PlacesInv, RequestInv, Fresh
  <2> QED
    BY <1>1, <1>5, <2>1 DEF RequestInv, Collecting
<1>6. CASE q # r
  <2>1. UNCHANGED <<owner[q], own[q], collected[q], mail[q]>>
    BY <1>1
  <2>2. \A g \in Helpers : stolen[g].request = q \/ stolen'[g].request = q =>
          UNCHANGED <<helper[g], stolen[g]>>
    BY <1>0, <1>1, <1>6
  <2>3. (q \in DOMAIN facts' <=> q \in DOMAIN facts) /\ (q \in DOMAIN facts => facts'[q] = facts[q])
    BY <1>2, <1>6
  <2> QED
    BY <2>1, <2>2, <2>3, Undisturbed DEF PlacesInv
<1> QED
  BY <1>4, <1>5, <1>6

LEMMA ElaborateStolenPlaces ==
  ASSUME ShapeInv, PlacesInv, NEW h \in Helpers, ElaborateStolen(h)
  PROVE  PlacesInv'
<1> SUFFICES ASSUME NEW q \in Requests PROVE RequestInv(q)'
  BY DEF PlacesInv
<1>1. PICK r \in Requests, c \in Chunks : stolen[h].request = r /\ stolen[h].chunk = c
  BY DEF ElaborateStolen, ShapeInv, StolenAtWork, Stolen
<1>2. /\ helper[h] = "elaborate" /\ helper'[h] = "free" /\ stolen'[h] = Nothing
      /\ UNCHANGED <<facts, owner, own, collected>>
      /\ \A g \in Helpers : g # h => UNCHANGED <<helper[g], stolen[g]>>
  BY DEF ElaborateStolen, ownerVars, ShapeInv, Shapes
<1>3. CASE q = r /\ Collecting(r)
  <2>1. InPlace(r) /\ mail[r] \in Seq(Message)
    BY <1>3 DEF PlacesInv, RequestInv, ShapeInv, Shapes
  <2>2. InHand(r, h) /\ c \in WithHelpers(r)
    BY <1>1, <1>2 DEF InHand, WithHelpers
  <2>3. \A g \in Helpers : InHand(r, g)' <=> InHand(r, g) /\ g # h
    BY <1>1, <1>2 DEF InHand
  <2>4. \A g \in Helpers : InHand(r, g) /\ g # h => stolen[g].chunk # c
    BY <1>1, <2>1, <2>2 DEF InPlace, OneHelperEach
  <2>5. WithHelpers(r)' = WithHelpers(r) \ {c}
    <3>1. ASSUME NEW x \in WithHelpers(r)' PROVE x \in WithHelpers(r) \ {c}
      BY <1>2, <2>3, <2>4, <3>1 DEF WithHelpers
    <3>2. ASSUME NEW x \in WithHelpers(r), x # c PROVE x \in WithHelpers(r)'
      BY <1>1, <1>2, <2>3, <3>2 DEF WithHelpers
    <3> QED
      BY <3>1, <3>2
  <2>6. Untaken(r)' = Untaken(r) /\ WithOwner(r)' = WithOwner(r) /\ collected'[r] = collected[r]
    BY <1>2 DEF Untaken, WithOwner
  <2>7. Apart(Untaken(r), WithOwner(r), WithHelpers(r), InMail(r), collected[r])
    BY <2>1 DEF InPlace
  <2>8. OneMessageEach(r)' /\ (InMail(r)' = InMail(r) \/ InMail(r)' = InMail(r) \cup {c})
    <3>1. CASE mail' = mail
      BY <2>1, <3>1 DEF InPlace, OneMessageEach, InMail
    <3>2. ASSUME NEW done \in BOOLEAN,
                 Send(stolen[h].request, [done |-> done, chunk |-> stolen[h].chunk])
          PROVE  OneMessageEach(r)' /\ InMail(r)' = InMail(r) \cup {c}
      <4>1. PICK m \in Message : m.chunk = c /\ mail'[r] = Append(mail[r], m)
        <5>1. [done |-> done, chunk |-> c] \in Message
          BY DEF Message
        <5> QED
          BY <1>1, <1>3, <3>2, <5>1 DEF Send, Collecting, ShapeInv, Shapes
      <4>2. /\ \A i, j \in 1 .. Len(mail[r]) : mail[r][i].chunk = mail[r][j].chunk => i = j
            /\ m.chunk \notin {n.chunk : n \in Range(mail[r])}
        BY <2>1, <2>2, <2>7, <4>1 DEF InPlace, OneMessageEach, Apart, InMail
      <4>3. /\ \A i, j \in 1 .. Len(Append(mail[r], m)) :
                 Append(mail[r], m)[i].chunk = Append(mail[r], m)[j].chunk => i = j
            /\ {n.chunk : n \in Range(Append(mail[r], m))}
                 = {n.chunk : n \in Range(mail[r])} \cup {m.chunk}
        BY <2>1, <4>2, AppendGainsMessage
      <4> QED
        BY <4>1, <4>3 DEF OneMessageEach, InMail
    <3> QED
      BY <3>1, <3>2 DEF ElaborateStolen
  <2>9. Apart(Untaken(r), WithOwner(r), WithHelpers(r), InMail(r), collected[r])'
    BY <2>2, <2>5, <2>6, <2>7, <2>8 DEF Apart
  <2>10. OneHelperEach(r)'
    BY <1>2, <2>1, <2>3 DEF InPlace, OneHelperEach
  <2>11. ReadIsCurrent(r)'
    BY <1>2, <2>1 DEF InPlace, ReadIsCurrent
  <2>12. InPlace(r)'
    BY <1>2, <2>1, <2>8, <2>9, <2>10, <2>11 DEF InPlace
  <2> QED
    BY <1>2, <1>3, <2>12 DEF RequestInv, Collecting
<1>4. CASE q = r /\ ~Collecting(r)
  <2>1. owner[r] # "idle"
    BY <1>1 DEF PlacesInv, RequestInv, Fresh
  <2> QED
    BY <1>2, <1>4, <2>1 DEF RequestInv, Collecting
<1>5. CASE q # r
  <2>1. mail'[q] = mail[q]
    BY <1>1, <1>5 DEF ElaborateStolen, Send, ShapeInv, Shapes
  <2>2. stolen[h].request # q /\ stolen'[h].request # q
    BY <1>1, <1>2, <1>5, NobodyAssumption DEF Nothing
  <2> QED
    BY <1>2, <2>1, <2>2, Undisturbed DEF PlacesInv
<1> QED
  BY <1>3, <1>4, <1>5

LEMMA PlacesNext == ShapeInv /\ PlacesInv /\ [Next]_vars => PlacesInv'
<1> SUFFICES ASSUME ShapeInv, PlacesInv, [Next]_vars PROVE PlacesInv'
  OBVIOUS
<1>1. ASSUME NEW r \in Requests, CreateRequestQueue(r) PROVE PlacesInv'
  BY <1>1, CreatePlaces
<1>2. ASSUME NEW r \in Requests, TakeOwnChunk(r) PROVE PlacesInv'
  BY <1>2, TakeOwnPlaces
<1>3. ASSUME NEW r \in Requests, ElaborateOwn(r) PROVE PlacesInv'
  BY <1>3, ElaborateOwnPlaces
<1>4. ASSUME NEW r \in Requests, ReceiveMessage(r) PROVE PlacesInv'
  BY <1>4, ReceivePlaces
<1>5. ASSUME NEW r \in Requests, Timeout(r) PROVE PlacesInv'
  BY <1>5, CleanupPlaces DEF Timeout
<1>6. ASSUME NEW r \in Requests, Finish(r) PROVE PlacesInv'
  BY <1>6, CleanupPlaces DEF Finish
<1>7. ASSUME NEW h \in Helpers, ReadChunk(h) PROVE PlacesInv'
  BY <1>7, ReadPlaces
<1>8. ASSUME NEW h \in Helpers, TakeChunk(h) PROVE PlacesInv'
  BY <1>8, TakePlaces
<1>9. ASSUME NEW h \in Helpers, ElaborateStolen(h) PROVE PlacesInv'
  BY <1>9, ElaborateStolenPlaces
<1>10. CASE UNCHANGED vars
  <2> SUFFICES ASSUME NEW q \in Requests PROVE RequestInv(q)'
    BY DEF PlacesInv
  <2> QED
    BY <1>10, Undisturbed DEF PlacesInv, vars, ownerVars, helperVars
<1> QED
  BY <1>1, <1>2, <1>3, <1>4, <1>5, <1>6, <1>7, <1>8, <1>9, <1>10 DEF Next, OwnerStep

------------------------------------------------------------------------------
(* Counting *)

\* Each result is counted once; with none expected all chunks have been collected.
CountInv == \A r \in Requests : remaining[r] = NumChunks - Cardinality(collected[r])

LEMMA ChunksAreFinite ==
  ASSUME NEW S \in SUBSET Chunks
  PROVE  /\ IsFiniteSet(S) /\ Cardinality(S) \in 0 .. NumChunks
         /\ Cardinality(S) = NumChunks => S = Chunks
<1>1. IsFiniteSet(Chunks) /\ Cardinality(Chunks) = NumChunks
  BY ChunkAssumption, FS_Interval DEF Chunks
<1>2. IsFiniteSet(S) /\ Cardinality(S) <= NumChunks /\ (Cardinality(S) = NumChunks => S = Chunks)
  BY <1>1, FS_Subset
<1>3. Cardinality(S) \in Nat
  BY <1>2, FS_CardinalityType
<1> QED
  BY <1>2, <1>3, ChunkAssumption

LEMMA CountInit == Init => CountInv
  BY FS_EmptySet, ChunkAssumption DEF Init, CountInv

LEMMA CollectCounts ==
  ASSUME ShapeInv, CountInv, NEW r \in Requests, NEW c \in Chunks, c \notin collected[r],
         Collect(r, c)
  PROVE  CountInv'
<1> SUFFICES ASSUME NEW q \in Requests
             PROVE  remaining'[q] = NumChunks - Cardinality(collected'[q])
  BY DEF CountInv
<1>1. CASE q = r
  <2>1. collected[r] \in SUBSET Chunks
    BY DEF ShapeInv, Shapes
  <2>2. IsFiniteSet(collected[r]) /\ Cardinality(collected[r]) \in Nat
    BY <2>1, ChunksAreFinite, FS_CardinalityType
  <2>3. Cardinality(collected[r] \cup {c}) = Cardinality(collected[r]) + 1
    BY <2>2, FS_AddElement
  <2>4. remaining'[r] = remaining[r] - 1 /\ collected'[r] = collected[r] \cup {c}
    BY DEF Collect, ShapeInv, Shapes
  <2>5. remaining[r] = NumChunks - Cardinality(collected[r])
    BY DEF CountInv
  <2> QED
    BY <1>1, <2>2, <2>3, <2>4, <2>5, ChunkAssumption
<1>2. CASE q # r
  BY <1>2 DEF Collect, CountInv, ShapeInv, Shapes
<1> QED
  BY <1>1, <1>2

LEMMA CountNext == ShapeInv /\ PlacesInv /\ CountInv /\ [Next]_vars => CountInv'
<1> SUFFICES ASSUME ShapeInv, PlacesInv, CountInv, [Next]_vars PROVE CountInv'
  OBVIOUS
<1>1. ASSUME NEW r \in Requests, ElaborateOwn(r) PROVE CountInv'
  <2>1. own[r] \in Chunks /\ InPlace(r)
    BY <1>1 DEF ElaborateOwn, ShapeInv, OwnAtWork, PlacesInv, RequestInv, Collecting
  <2>2. own[r] \notin collected[r]
    BY <2>1, ChunksArePositive DEF InPlace, Apart, WithOwner
  <2> QED
    BY <1>1, <2>1, <2>2, CollectCounts DEF ElaborateOwn, CountInv
<1>2. ASSUME NEW r \in Requests, ReceiveMessage(r) PROVE CountInv'
  <2>1. InPlace(r) /\ mail[r] \in Seq(Message) /\ mail[r] # <<>>
    BY <1>2 DEF ReceiveMessage, PlacesInv, RequestInv, Collecting, ShapeInv, Shapes
  <2>2. Head(mail[r]) \in Message /\ Head(mail[r]) \in Range(mail[r])
    BY <2>1, HeadTailProperties, EmptySeq, LenProperties DEF Range
  <2>3. Head(mail[r]).chunk \in Chunks /\ Head(mail[r]).chunk \notin collected[r]
    BY <2>1, <2>2 DEF Message, InPlace, Apart, InMail
  <2> QED
    BY <1>2, <2>3, CollectCounts DEF ReceiveMessage, CountInv
<1>3. ASSUME UNCHANGED <<remaining, collected>> PROVE CountInv'
  BY <1>3 DEF CountInv
<1>4. CASE UNCHANGED vars
  BY <1>3, <1>4 DEF vars, ownerVars
<1>5. ASSUME NEW r \in Requests, CreateRequestQueue(r) \/ TakeOwnChunk(r) \/ Timeout(r) \/ Finish(r)
      PROVE  CountInv'
  BY <1>3, <1>5 DEF CreateRequestQueue, TakeOwnChunk, Timeout, Finish
<1>6. ASSUME NEW h \in Helpers, ReadChunk(h) \/ TakeChunk(h) \/ ElaborateStolen(h)
      PROVE  CountInv'
  BY <1>3, <1>6 DEF ReadChunk, TakeChunk, ElaborateStolen, ownerVars
<1> QED
  BY <1>1, <1>2, <1>4, <1>5, <1>6 DEF Next, OwnerStep

------------------------------------------------------------------------------
(* The end of a request *)

DoneInv == ResultIsComplete /\ NobodyWorksForTheDone

LEMMA DoneInit == Init => DoneInv
  BY DEF Init, DoneInv, ResultIsComplete, NobodyWorksForTheDone

\* When all chunks are collected none is left to list, to take or to send.
LEMMA NothingLeft ==
  ASSUME ShapeInv, PlacesInv, NEW r \in Requests, Collecting(r), collected[r] = Chunks
  PROVE  \A h \in Helpers : stolen[h].request # r
<1>1. InPlace(r)
  BY DEF PlacesInv, RequestInv
<1> SUFFICES ASSUME NEW h \in Helpers, stolen[h].request = r PROVE FALSE
  OBVIOUS
<1>2. stolen[h] \in Stolen /\ stolen[h].chunk \in Chunks /\ helper[h] # "free"
  BY NobodyAssumption DEF ShapeInv, Shapes, StolenAtWork, Stolen, Nothing
<1>3. CASE helper[h] = "elaborate"
  <2>1. stolen[h].chunk \in WithHelpers(r)
    BY <1>3 DEF WithHelpers, InHand
  <2> QED
    BY <1>1, <1>2, <2>1 DEF InPlace, Apart
<1>4. CASE helper[h] = "taking"
  <2>1. facts[r] # <<>> /\ facts[r] \in Seq(Chunks) /\ IsInjective(facts[r]) /\ r \in DOMAIN facts
    BY <1>1, <1>4 DEF InPlace, ReadIsCurrent, ShapeInv, Shapes
  <2>2. Head(facts[r]) \in Untaken(r) /\ Head(facts[r]) \in Chunks
    BY <2>1, TailLosesHead, HeadTailProperties DEF Untaken
  <2> QED
    BY <1>1, <2>2 DEF InPlace, Apart
<1> QED
  BY <1>2, <1>3, <1>4 DEF ShapeInv, Shapes

LEMMA DoneNext ==
  ShapeInv /\ PlacesInv /\ CountInv /\ DoneInv /\ [Next]_vars => DoneInv'
<1> SUFFICES ASSUME ShapeInv, PlacesInv, CountInv, DoneInv, [Next]_vars,
                    NEW q \in Requests, owner'[q] = "done"
             PROVE  /\ collected'[q] = Chunks
                    /\ q \notin DOMAIN facts'
                    /\ \A h \in Helpers : stolen'[h].request # q
  BY DEF DoneInv, ResultIsComplete, NobodyWorksForTheDone
<1>1. ASSUME NEW r \in Requests, Finish(r), q = r
      PROVE  /\ collected'[q] = Chunks
             /\ q \notin DOMAIN facts'
             /\ \A h \in Helpers : stolen'[h].request # q
  <2>1. /\ Collecting(r) /\ remaining[r] = 0 /\ UNCHANGED <<collected, stolen>>
        /\ r \notin DOMAIN facts'
    BY <1>1, CleanupFacts DEF Finish, AllCollected, Collecting, helperVars
  <2>2. collected[r] \in SUBSET Chunks /\ NumChunks - Cardinality(collected[r]) = 0
    BY <2>1 DEF ShapeInv, Shapes, CountInv
  <2>3. collected[r] = Chunks
    BY <2>2, ChunksAreFinite, ChunkAssumption
  <2> QED
    BY <1>1, <2>1, <2>3, NothingLeft
<1>2. ASSUME owner[q] = "done",
             collected'[q] = collected[q],
             q \in DOMAIN facts' => q \in DOMAIN facts,
             \A h \in Helpers : stolen'[h].request = q => stolen[h].request = q
      PROVE  /\ collected'[q] = Chunks
             /\ q \notin DOMAIN facts'
             /\ \A h \in Helpers : stolen'[h].request # q
  BY <1>2 DEF DoneInv, ResultIsComplete, NobodyWorksForTheDone
<1>3. ASSUME NEW r \in Requests, CreateRequestQueue(r)
      PROVE  /\ owner[q] = "done" /\ collected'[q] = collected[q]
             /\ q \in DOMAIN facts' => q \in DOMAIN facts
             /\ \A h \in Helpers : stolen'[h].request = q => stolen[h].request = q
  <2>1. q # r /\ owner[q] = "done" /\ UNCHANGED <<collected, stolen>>
    BY <1>3 DEF CreateRequestQueue, helperVars, ShapeInv, Shapes
  <2> QED
    BY <1>3, <2>1, PutFact, ZenonT(30) DEF CreateRequestQueue
<1>4. ASSUME NEW r \in Requests, TakeOwnChunk(r)
      PROVE  /\ owner[q] = "done" /\ collected'[q] = collected[q]
             /\ q \in DOMAIN facts' => q \in DOMAIN facts
             /\ \A h \in Helpers : stolen'[h].request = q => stolen[h].request = q
  <2>1. q # r /\ owner[q] = "done" /\ UNCHANGED <<collected, stolen>>
    BY <1>4 DEF TakeOwnChunk, helperVars, ShapeInv, Shapes
  <2> QED
    BY <1>4, <2>1, PutFact, ZenonT(30) DEF TakeOwnChunk
<1>5. ASSUME NEW r \in Requests, ElaborateOwn(r) \/ ReceiveMessage(r) \/ Timeout(r) \/ Finish(r), q # r
      PROVE  /\ owner[q] = "done" /\ collected'[q] = collected[q]
             /\ q \in DOMAIN facts' => q \in DOMAIN facts
             /\ \A h \in Helpers : stolen'[h].request = q => stolen[h].request = q
  <2>1. owner[q] = "done" /\ collected'[q] = collected[q] /\ UNCHANGED stolen
    BY <1>5 DEF ElaborateOwn, ReceiveMessage, Timeout, Finish, Collect, Cleanup, helperVars,
                ShapeInv, Shapes
  <2>2. q \in DOMAIN facts' => q \in DOMAIN facts
    <3>1. UNCHANGED facts \/ \E end : Cleanup(r, end)
      BY <1>5 DEF ElaborateOwn, ReceiveMessage, Timeout, Finish
    <3> QED
      BY <3>1, CleanupFacts
  <2> QED
    BY <2>1, <2>2
<1>6. ASSUME NEW r \in Requests, ElaborateOwn(r) \/ ReceiveMessage(r) \/ Timeout(r)
      PROVE  q # r
  BY <1>6 DEF ElaborateOwn, ReceiveMessage, Timeout, Cleanup, ShapeInv, Shapes
<1>7. ASSUME NEW h \in Helpers, ReadChunk(h)
      PROVE  /\ owner[q] = "done" /\ collected'[q] = collected[q]
             /\ q \in DOMAIN facts' => q \in DOMAIN facts
             /\ \A g \in Helpers : stolen'[g].request = q => stolen[g].request = q
  <2>1. owner[q] = "done" /\ UNCHANGED <<facts, collected>>
    BY <1>7 DEF ReadChunk, ownerVars
  <2>2. q \notin DOMAIN facts
    BY <2>1 DEF DoneInv, NobodyWorksForTheDone
  <2>3. PICK r \in DOMAIN facts : stolen' = [stolen EXCEPT ![h] =
               [request |-> r, chunk |-> Head(facts[r]), rest |-> Tail(facts[r])]]
    BY <1>7 DEF ReadChunk
  <2> QED
    BY <2>1, <2>2, <2>3 DEF ShapeInv, Shapes
<1>8. ASSUME NEW h \in Helpers, TakeChunk(h)
      PROVE  /\ owner[q] = "done" /\ collected'[q] = collected[q]
             /\ q \in DOMAIN facts' => q \in DOMAIN facts
             /\ \A g \in Helpers : stolen'[g].request = q => stolen[g].request = q
  <2>1. owner[q] = "done" /\ UNCHANGED <<collected, stolen>>
    BY <1>8 DEF TakeChunk, ownerVars
  <2>2. stolen[h].request \in Requests /\ stolen[h].request # q
    BY <1>8, <2>1 DEF TakeChunk, ShapeInv, StolenAtWork, Stolen, DoneInv, NobodyWorksForTheDone
  <2>3. DOMAIN facts' = DOMAIN facts \cup {stolen[h].request}
    BY <1>8, <2>2, PutFact DEF TakeChunk
  <2> QED
    BY <2>1, <2>2, <2>3
<1>9. ASSUME NEW h \in Helpers, ElaborateStolen(h)
      PROVE  /\ owner[q] = "done" /\ collected'[q] = collected[q]
             /\ q \in DOMAIN facts' => q \in DOMAIN facts
             /\ \A g \in Helpers : stolen'[g].request = q => stolen[g].request = q
  BY <1>9, NobodyAssumption DEF ElaborateStolen, ownerVars, Nothing, ShapeInv, Shapes
<1>10. CASE UNCHANGED vars
  BY <1>2, <1>10 DEF vars, ownerVars, helperVars
<1> QED
  BY <1>1, <1>2, <1>3, <1>4, <1>5, <1>6, <1>7, <1>8, <1>9, <1>10 DEF Next, OwnerStep

------------------------------------------------------------------------------
(* The theorems *)

Inv == ShapeInv /\ PlacesInv /\ CountInv /\ DoneInv

LEMMA Invariance == Spec => []Inv
<1>1. Init => Inv
  BY ShapeInit, PlacesInit, CountInit, DoneInit DEF Inv
<1>2. Inv /\ [Next]_vars => Inv'
  BY ShapeNext, PlacesNext, CountNext, DoneNext DEF Inv
<1> QED
  BY <1>1, <1>2, PTL DEF Spec

LEMMA InvImpliesTypeOK == Inv => TypeOK
<1> SUFFICES ASSUME Inv PROVE TypeOK
  OBVIOUS
<1>1. remaining \in [Requests -> 0 .. NumChunks]
  <2> SUFFICES ASSUME NEW r \in Requests PROVE remaining[r] \in 0 .. NumChunks
    BY DEF Inv, ShapeInv, Shapes
  <2>1. collected[r] \in SUBSET Chunks /\ remaining[r] = NumChunks - Cardinality(collected[r])
    BY DEF Inv, ShapeInv, Shapes, CountInv
  <2>2. Cardinality(collected[r]) \in 0 .. NumChunks
    BY <2>1, ChunksAreFinite
  <2> QED
    BY <2>1, <2>2, ChunkAssumption
<1> QED
  BY <1>1 DEF Inv, ShapeInv, Shapes, TypeOK

\* As many chunks are with helpers as helpers have one, for no two have the same.
LEMMA OneChunkPerHelper ==
  ASSUME Inv, NEW r \in Requests, Collecting(r)
  PROVE  Cardinality(WithHelpers(r)) = Cardinality({h \in Helpers : InHand(r, h)})
<1> DEFINE hands == {h \in Helpers : InHand(r, h)}
           chunk == [h \in hands |-> stolen[h].chunk]
<1>1. OneHelperEach(r)
  BY DEF Inv, PlacesInv, RequestInv, InPlace
<1>2. IsFiniteSet(WithHelpers(r))
  <2>1. WithHelpers(r) \subseteq Chunks
    BY NobodyAssumption DEF WithHelpers, InHand, Inv, ShapeInv, StolenAtWork, Stolen
  <2> QED
    BY <2>1, ChunksAreFinite
<1>3. chunk \in Surjection(hands, WithHelpers(r))
  BY DEF Surjection, WithHelpers
<1>4. chunk \in Injection(hands, WithHelpers(r))
  BY <1>1 DEF Injection, IsInjective, WithHelpers, OneHelperEach
<1> QED
  BY <1>2, <1>3, <1>4, FS_Injection

\* As many chunks are in messages as there are messages, for no two have the same.
LEMMA OneChunkPerMessage ==
  ASSUME Inv, NEW r \in Requests, Collecting(r)
  PROVE  Cardinality(InMail(r)) = Len(mail[r])
<1> DEFINE chunk == [i \in 1 .. Len(mail[r]) |-> mail[r][i].chunk]
<1>1. OneMessageEach(r) /\ mail[r] \in Seq(Message)
  BY DEF Inv, PlacesInv, RequestInv, InPlace, ShapeInv, Shapes
<1>2. Len(mail[r]) \in Nat /\ DOMAIN mail[r] = 1 .. Len(mail[r])
  BY <1>1, LenProperties
<1>3. InMail(r) = {mail[r][i].chunk : i \in 1 .. Len(mail[r])}
  BY <1>2 DEF InMail, Range
<1>4. IsFiniteSet(InMail(r))
  <2>1. \A i \in 1 .. Len(mail[r]) : mail[r][i] \in [done : BOOLEAN, chunk : Chunks]
    BY <1>1, ElementOfSeq DEF Message
  <2>2. InMail(r) \subseteq Chunks
    BY <1>3, <2>1
  <2> QED
    BY <2>2, ChunksAreFinite
<1>5. chunk \in Surjection(1 .. Len(mail[r]), InMail(r))
  BY <1>3 DEF Surjection
<1>6. chunk \in Injection(1 .. Len(mail[r]), InMail(r))
  BY <1>1, <1>3 DEF Injection, IsInjective, OneMessageEach
<1>7. Cardinality(InMail(r)) = Cardinality(1 .. Len(mail[r]))
  BY <1>4, <1>5, <1>6, FS_Injection
<1> QED
  BY <1>2, <1>7, FS_Interval

LEMMA InvImpliesEachChunkOnce == Inv => EachChunkOnce
<1> SUFFICES ASSUME Inv, NEW r \in Requests, Collecting(r)
             PROVE  /\ LET places == <<Untaken(r), WithOwner(r), WithHelpers(r), InMail(r), collected[r]>>
                       IN  \A i, j \in DOMAIN places : i # j => places[i] \cap places[j] = {}
                    /\ Cardinality(WithHelpers(r)) = Cardinality({h \in Helpers : InHand(r, h)})
                    /\ Cardinality(InMail(r)) = Len(mail[r])
                    /\ remaining[r] = NumChunks - Cardinality(collected[r])
  BY DEF EachChunkOnce
<1> DEFINE places == <<Untaken(r), WithOwner(r), WithHelpers(r), InMail(r), collected[r]>>
<1>1. \A i, j \in DOMAIN places : i # j => places[i] \cap places[j] = {}
  <2>1. Apart(Untaken(r), WithOwner(r), WithHelpers(r), InMail(r), collected[r])
    BY DEF Inv, PlacesInv, RequestInv, InPlace
  <2>2. /\ DOMAIN places = {1, 2, 3, 4, 5}
        /\ places[1] = Untaken(r) /\ places[2] = WithOwner(r) /\ places[3] = WithHelpers(r)
        /\ places[4] = InMail(r) /\ places[5] = collected[r]
    OBVIOUS
  <2> HIDE DEF places
  <2> QED
    BY <2>1, <2>2 DEF Apart
<1>2. remaining[r] = NumChunks - Cardinality(collected[r])
  BY DEF Inv, CountInv
<1> QED
  BY <1>1, <1>2, OneChunkPerHelper, OneChunkPerMessage

\* The variables keep their types: in particular the results that a request still
\* expects never go below zero, so that it neither waits nor ends too early.
THEOREM TypeCorrect == Spec => []TypeOK
  BY Invariance, InvImpliesTypeOK, PTL

\* However a request and its helpers take, steal and answer, no chunk is elaborated or
\* counted twice, and a request that succeeds has the results of all its chunks.
THEOREM ChunksCounted == Spec => []ChunksAreCounted
<1>1. Inv => ChunksAreCounted
  BY InvImpliesTypeOK, InvImpliesEachChunkOnce DEF Inv, DoneInv, ChunksAreCounted
<1> QED
  BY <1>1, Invariance, PTL

\* The cleanup of a request outside of the mutex does no harm when the request has
\* succeeded: no helper is then about to assert its fact again.
THEOREM NobodyWorks == Spec => []NobodyWorksForTheDone
<1>1. Inv => NobodyWorksForTheDone
  BY DEF Inv, DoneInv
<1> QED
  BY <1>1, Invariance, PTL
==============================================================================
