-------------------------------- MODULE ReadingProofs --------------------------------
(***************************************************************************)
(* Proofs about what is read.  The parallel printer: for any documents,    *)
(* threads and size of the channel what is printed is what the iterator    *)
(* gives out, in its order; the invariant says where each document is that *)
(* was given out.  The exchange with a layer: for every width of the       *)
(* machine numbers, every term and every layer, a value of a type comes    *)
(* back as it was stored, what is read finds its entry, and a pattern      *)
(* gives the triples that fit it.                                          *)
(***************************************************************************)
EXTENDS ParallelPrinter, LayerExchange, SequenceTheorems, TLAPS

-------------------------------------------------------------------------------
(* The invariant *)

\* A document on its way is the one of its number, and was not printed yet
OnItsWay(entry) ==
  /\ entry \in Entries /\ entry.doc = docs[entry.index]
  /\ cur <= entry.index /\ entry.index <= todo

EntriesInv ==
  /\ \A i \in DOMAIN channel : OnItsWay(channel[i])
  /\ \A entry \in heap : OnItsWay(entry)
  /\ \A w \in Workers : at[w] # 0 => cur <= at[w] /\ at[w] <= todo

\* A number is in one place
NumbersDiffer ==
  /\ \A w, v \in Workers : w # v /\ at[w] # 0 => at[w] # at[v]
  /\ \A w \in Workers, i \in DOMAIN channel : at[w] # channel[i].index
  /\ \A w \in Workers, entry \in heap : at[w] # entry.index
  /\ \A i, j \in DOMAIN channel : i # j => channel[i].index # channel[j].index
  /\ \A i \in DOMAIN channel, entry \in heap : channel[i].index # entry.index
  /\ \A entry, other \in heap : entry.index = other.index => entry = other

\* No document that was given out is lost while the receiver is there
NoneIsLost ==
  stage = "printing" =>
    /\ ~stopped
    /\ \A n \in cur..todo :
         \/ \E w \in Workers : at[w] = n
         \/ \E i \in DOMAIN channel : channel[i].index = n
         \/ \E entry \in heap : entry.index = n

PrinterInv ==
  /\ TypeOK /\ EntriesInv /\ NumbersDiffer /\ NoneIsLost
  /\ cur <= todo + 1 /\ printed = SubSeq(docs, 1, cur - 1)
  /\ stage = "done" => heap = {} /\ cur > todo /\ todo = Len(docs)

-------------------------------------------------------------------------------
(* Facts about the documents and the entries *)

LEMMA DocsFacts ==
  ASSUME NEW Documents, docs \in Seq(Documents)
  PROVE  /\ Len(docs) \in Nat /\ DOMAIN docs = 1..Len(docs)
         /\ \A i \in 1..Len(docs) : docs[i] \in ToSet(docs)
         /\ SubSeq(docs, 1, 0) = <<>>
         /\ SubSeq(docs, 1, Len(docs)) = docs
         /\ \A n \in 0..Len(docs) : SubSeq(docs, 1, n) \in Seq(ToSet(docs)) /\ Len(SubSeq(docs, 1, n)) = n
         /\ \A n \in 1..Len(docs) : Append(SubSeq(docs, 1, n - 1), docs[n]) = SubSeq(docs, 1, n)
PROOF
  <1>1. Len(docs) \in Nat /\ DOMAIN docs = 1..Len(docs)
    OBVIOUS
  <1>2. \A i \in 1..Len(docs) : docs[i] \in ToSet(docs)
    BY <1>1 DEF ToSet
  <1>3. SubSeq(docs, 1, 0) = <<>> /\ SubSeq(docs, 1, Len(docs)) = docs
    OBVIOUS
  <1>4. ASSUME NEW n \in 0..Len(docs)
        PROVE  SubSeq(docs, 1, n) \in Seq(ToSet(docs)) /\ Len(SubSeq(docs, 1, n)) = n
    <2>1. docs \in Seq(ToSet(docs))
      BY <1>1, <1>2
    <2> QED BY <2>1
  <1>5. ASSUME NEW n \in 1..Len(docs)
        PROVE  Append(SubSeq(docs, 1, n - 1), docs[n]) = SubSeq(docs, 1, n)
    OBVIOUS
  <1> QED BY <1>1, <1>2, <1>3, <1>4, <1>5

LEMMA PrinterInitially ==
  ASSUME NEW Documents, NEW requests \in SUBSET Seq(Documents), PrinterInit(requests)
  PROVE  PrinterInv
PROOF
  <1>1. docs \in Seq(Documents)
    BY DEF PrinterInit
  <1>2. TypeOK
    <2>1. Len(docs) \in Nat /\ <<>> \in Seq(Entries) /\ <<>> \in Seq(ToSet(docs))
      BY <1>1
    <2>2. /\ todo = 0 /\ at = [w \in Workers |-> 0] /\ stopped = FALSE /\ channel = <<>>
          /\ heap = {} /\ cur = 1 /\ printed = <<>> /\ stage = "printing"
      BY DEF PrinterInit
    <2>3. todo \in 0..Len(docs) /\ at \in [Workers -> 0..Len(docs)] /\ cur \in 1..(Len(docs) + 1)
      BY <2>1, <2>2
    <2>4. channel \in Seq(Entries) /\ printed \in Seq(ToSet(docs)) /\ heap \subseteq Entries
      BY <2>1, <2>2
    <2>5. stopped \in BOOLEAN /\ stage \in {"printing", "done", "failed", "idle"}
      BY <2>2
    <2> QED BY <2>3, <2>4, <2>5 DEF TypeOK
  <1>3. EntriesInv /\ NumbersDiffer /\ NoneIsLost
    BY DEF PrinterInit, EntriesInv, NumbersDiffer, NoneIsLost
  <1> QED BY <1>1, <1>2, <1>3, DocsFacts DEF PrinterInit, PrinterInv

\* An entry at the front of the channel, and those behind it
LEMMA ChannelFacts ==
  ASSUME channel \in Seq(Entries), channel # <<>>
  PROVE  /\ 1 \in DOMAIN channel /\ Head(channel) = channel[1]
         /\ Tail(channel) \in Seq(Entries)
         /\ \A i \in DOMAIN Tail(channel) : i + 1 \in DOMAIN channel /\ i + 1 # 1 /\ Tail(channel)[i] = channel[i + 1]
         /\ \A i \in DOMAIN channel : i # 1 => i - 1 \in DOMAIN Tail(channel)
PROOF
  <1> QED OBVIOUS

\* An entry that is added at the end
LEMMA SentFacts ==
  ASSUME channel \in Seq(Entries), NEW entry \in Entries
  PROVE  /\ Append(channel, entry) \in Seq(Entries)
         /\ \A i \in DOMAIN channel : i \in DOMAIN Append(channel, entry) /\ Append(channel, entry)[i] = channel[i]
         /\ \A i \in DOMAIN Append(channel, entry) :
              i \in DOMAIN channel \/ (i = Len(channel) + 1 /\ Append(channel, entry)[i] = entry)
         /\ Len(channel) + 1 \in DOMAIN Append(channel, entry)
         /\ Append(channel, entry)[Len(channel) + 1] = entry
PROOF
  <1> QED OBVIOUS

-------------------------------------------------------------------------------
(* Every step keeps the invariant *)

LEMMA TakeStep ==
  ASSUME NEW Documents, docs \in Seq(Documents), PrinterInv, NEW w \in Workers, Take(w)
  PROVE  PrinterInv'
PROOF
  <1>1. TypeOK /\ EntriesInv /\ NumbersDiffer /\ NoneIsLost
    BY DEF PrinterInv
  <1>2. /\ todo \in Nat /\ todo < Len(docs) /\ Len(docs) \in Nat /\ cur \in Nat /\ cur >= 1
        /\ at \in [Workers -> Nat] /\ todo' = todo + 1
        /\ at' \in [Workers -> 0..Len(docs)] /\ at'[w] = todo + 1
        /\ \A v \in Workers : v # w => at'[v] = at[v]
    BY <1>1 DEF Take, TypeOK
  <1>3. /\ docs' = docs /\ channel' = channel /\ heap' = heap /\ cur' = cur /\ printed' = printed
        /\ stage' = stage /\ stopped' = stopped /\ Entries' = Entries /\ at[w] = 0 /\ ~stopped
    BY DEF Take, Entries
  <1>4. TypeOK'
    BY <1>1, <1>2, <1>3 DEF TypeOK
  <1>5. EntriesInv'
    <2>1. \A entry : OnItsWay(entry) => OnItsWay(entry)'
      <3> SUFFICES ASSUME NEW entry, OnItsWay(entry) PROVE OnItsWay(entry)'
        OBVIOUS
      <3>1. entry.index \in Nat
        BY <1>2, DocsFacts DEF OnItsWay, Entries
      <3> QED BY <1>2, <1>3, <3>1 DEF OnItsWay
    <2>2. \A v \in Workers : at'[v] # 0 => cur <= at'[v] /\ at'[v] <= todo + 1
      <3> SUFFICES ASSUME NEW v \in Workers, at'[v] # 0 PROVE cur <= at'[v] /\ at'[v] <= todo + 1
        OBVIOUS
      <3>1. cur <= todo + 1
        BY DEF PrinterInv
      <3>2. CASE v = w
        BY <1>2, <3>1, <3>2
      <3>3. CASE v # w
        BY <1>1, <1>2, <3>3 DEF EntriesInv
      <3> QED BY <3>2, <3>3
    <2> QED BY <1>1, <1>2, <1>3, <2>1, <2>2 DEF EntriesInv
  <1>6. NumbersDiffer'
    <2>1. \A i \in DOMAIN channel : channel[i].index # todo + 1
      BY <1>1, <1>2, DocsFacts DEF EntriesInv, OnItsWay, Entries
    <2>2. \A entry \in heap : entry.index # todo + 1
      BY <1>1, <1>2, DocsFacts DEF EntriesInv, OnItsWay, Entries
    <2>3. \A v \in Workers : at[v] # todo + 1
      BY <1>1, <1>2 DEF EntriesInv
    <2>4. \A u, v \in Workers : u # v /\ at'[u] # 0 => at'[u] # at'[v]
      BY <1>1, <1>2, <2>3 DEF NumbersDiffer
    <2>5. \A v \in Workers, i \in DOMAIN channel : at'[v] # channel[i].index
      BY <1>1, <1>2, <2>1 DEF NumbersDiffer
    <2>6. \A v \in Workers, entry \in heap : at'[v] # entry.index
      BY <1>1, <1>2, <2>2 DEF NumbersDiffer
    <2> QED BY <1>1, <1>3, <2>4, <2>5, <2>6 DEF NumbersDiffer
  <1>7. NoneIsLost'
    <2> SUFFICES ASSUME stage = "printing", NEW n \in cur..(todo + 1)
                 PROVE  \/ \E v \in Workers : at'[v] = n
                        \/ \E i \in DOMAIN channel : channel[i].index = n
                        \/ \E entry \in heap : entry.index = n
      BY <1>2, <1>3 DEF NoneIsLost
    <2>1. CASE n = todo + 1
      BY <1>2, <2>1
    <2>2. CASE n # todo + 1
      <3>1. n \in cur..todo /\ n # 0
        BY <1>2, <2>2
      <3>2. CASE \E v \in Workers : at[v] = n
        BY <1>2, <1>3, <3>1, <3>2
      <3> QED BY <1>1, <3>1, <3>2 DEF NoneIsLost
    <2> QED BY <2>1, <2>2
  <1>8. cur' <= todo' + 1 /\ printed' = SubSeq(docs', 1, cur' - 1)
    BY <1>2, <1>3 DEF PrinterInv
  <1>9. stage' # "done"
    BY <1>2, <1>3 DEF PrinterInv
  <1> QED BY <1>4, <1>5, <1>6, <1>7, <1>8, <1>9 DEF PrinterInv

LEMMA SendStep ==
  ASSUME NEW Documents, docs \in Seq(Documents), PrinterInv, NEW w \in Workers, Send(w)
  PROVE  PrinterInv'
PROOF
  <1> DEFINE sent == [index |-> at[w], doc |-> docs[at[w]]]
  <1>1. TypeOK /\ EntriesInv /\ NumbersDiffer /\ NoneIsLost
    BY DEF PrinterInv
  <1>2. /\ todo \in Nat /\ Len(docs) \in Nat /\ cur \in Nat /\ cur >= 1 /\ todo <= Len(docs)
        /\ at \in [Workers -> Nat] /\ at[w] # 0
        /\ at' \in [Workers -> 0..Len(docs)] /\ at'[w] = 0
        /\ \A v \in Workers : v # w => at'[v] = at[v]
    BY <1>1 DEF Send, TypeOK
  <1>3. /\ docs' = docs /\ heap' = heap /\ cur' = cur /\ printed' = printed /\ todo' = todo
        /\ stage' = stage /\ Entries' = Entries
    BY DEF Send, Entries
  <1>4. \A entry : OnItsWay(entry)' <=> OnItsWay(entry)
    BY <1>3 DEF OnItsWay
  <1>5. \A v \in Workers : at'[v] # 0 => v # w /\ at'[v] = at[v]
    BY <1>2
  <1>6. OnItsWay(sent) /\ sent \in Entries
    <2>1. cur <= at[w] /\ at[w] <= todo
      BY <1>1, <1>2 DEF EntriesInv
    <2>2. at[w] \in DOMAIN docs /\ docs[at[w]] \in ToSet(docs)
      BY <1>2, <2>1, DocsFacts
    <2> QED BY <2>1, <2>2 DEF OnItsWay, Entries
  <1> HIDE DEF sent
  <1>7. CASE stage = "printing" /\ channel' = Append(channel, sent) /\ stopped' = stopped
    <2>0. channel \in Seq(Entries)
      BY <1>1 DEF TypeOK
    <2>1. /\ channel' \in Seq(Entries)
          /\ \A i \in DOMAIN channel : i \in DOMAIN channel' /\ channel'[i] = channel[i]
          /\ \A i \in DOMAIN channel' : i \in DOMAIN channel \/ (i = Len(channel) + 1 /\ channel'[i] = sent)
          /\ \E i \in DOMAIN channel' : channel'[i] = sent
      BY <1>6, <1>7, <2>0, SentFacts
    <2>2. sent.index = at[w]
      BY DEF sent
    <2>3. TypeOK'
      BY <1>1, <1>2, <1>3, <1>7, <2>1 DEF TypeOK
    <2>4. EntriesInv'
      BY <1>1, <1>3, <1>4, <1>5, <1>6, <2>1 DEF EntriesInv
    <2>5. NumbersDiffer'
      <3>1. \A u, v \in Workers : u # v /\ at'[u] # 0 => at'[u] # at'[v]
        BY <1>1, <1>2, <1>5 DEF NumbersDiffer
      <3>2. \A v \in Workers, i \in DOMAIN channel' : at'[v] # channel'[i].index
        <4> SUFFICES ASSUME NEW v \in Workers, NEW i \in DOMAIN channel', at'[v] = channel'[i].index
                     PROVE  FALSE
          OBVIOUS
        <4>1. OnItsWay(channel'[i])
          BY <1>1, <1>6, <2>1 DEF EntriesInv
        <4>2. channel'[i].index # 0
          BY <1>2, <4>1, DocsFacts DEF OnItsWay, Entries
        <4>3. v # w /\ at'[v] = at[v]
          BY <1>5, <4>2
        <4>4. CASE i \in DOMAIN channel
          <5>1. channel'[i] = channel[i] /\ at[v] = channel'[i].index
            BY <2>1, <4>3, <4>4
          <5>2. at[v] # channel[i].index
            BY <1>1, <4>4 DEF NumbersDiffer
          <5> QED BY <5>1, <5>2
        <4>5. CASE channel'[i] = sent
          <5>1. at[v] = at[w]
            BY <2>2, <4>3, <4>5
          <5>2. at[w] # at[v]
            BY <1>1, <1>2, <4>3 DEF NumbersDiffer
          <5> QED BY <5>1, <5>2
        <4> QED BY <2>1, <4>4, <4>5
      <3>3. \A v \in Workers, entry \in heap : at'[v] # entry.index
        <4> SUFFICES ASSUME NEW v \in Workers, NEW entry \in heap, at'[v] = entry.index PROVE FALSE
          OBVIOUS
        <4>1. entry.index # 0
          BY <1>1, <1>2, DocsFacts DEF EntriesInv, OnItsWay, Entries
        <4> QED BY <1>1, <1>5, <4>1 DEF NumbersDiffer
      <3>4. \A i, j \in DOMAIN channel' : i # j => channel'[i].index # channel'[j].index
        BY <1>1, <2>1, <2>2 DEF NumbersDiffer
      <3>5. \A i \in DOMAIN channel', entry \in heap : channel'[i].index # entry.index
        BY <1>1, <2>1, <2>2 DEF NumbersDiffer
      <3> QED BY <1>1, <1>3, <3>1, <3>2, <3>3, <3>4, <3>5 DEF NumbersDiffer
    <2>6. NoneIsLost'
      <3> SUFFICES ASSUME NEW n \in cur..todo
                   PROVE  \/ \E v \in Workers : at'[v] = n
                          \/ \E i \in DOMAIN channel' : channel'[i].index = n
                          \/ \E entry \in heap : entry.index = n
        BY <1>1, <1>3, <1>7 DEF NoneIsLost
      <3>1. CASE n = at[w]
        BY <2>1, <2>2, <3>1
      <3>2. CASE \E v \in Workers : at[v] = n /\ v # w
        BY <1>2, <3>2
      <3>3. CASE \E i \in DOMAIN channel : channel[i].index = n
        BY <2>1, <3>3
      <3> QED BY <1>1, <1>7, <3>1, <3>2, <3>3 DEF NoneIsLost
    <2> QED BY <1>3, <1>7, <2>3, <2>4, <2>5, <2>6 DEF PrinterInv
  <1>8. CASE stage # "printing" /\ stopped' = TRUE /\ channel' = channel
    <2>1. TypeOK'
      BY <1>1, <1>2, <1>3, <1>8 DEF TypeOK
    <2>2. EntriesInv'
      BY <1>1, <1>3, <1>4, <1>5, <1>8 DEF EntriesInv
    <2>3. NumbersDiffer'
      <3>1. \A u, v \in Workers : u # v /\ at'[u] # 0 => at'[u] # at'[v]
        BY <1>1, <1>2, <1>5 DEF NumbersDiffer
      <3>2. \A v \in Workers, i \in DOMAIN channel : at'[v] # channel[i].index
        <4> SUFFICES ASSUME NEW v \in Workers, NEW i \in DOMAIN channel, at'[v] = channel[i].index
                     PROVE  FALSE
          OBVIOUS
        <4>1. channel[i].index # 0
          BY <1>1, <1>2, DocsFacts DEF EntriesInv, OnItsWay, Entries
        <4> QED BY <1>1, <1>5, <4>1 DEF NumbersDiffer
      <3>3. \A v \in Workers, entry \in heap : at'[v] # entry.index
        <4> SUFFICES ASSUME NEW v \in Workers, NEW entry \in heap, at'[v] = entry.index PROVE FALSE
          OBVIOUS
        <4>1. entry.index # 0
          BY <1>1, <1>2, DocsFacts DEF EntriesInv, OnItsWay, Entries
        <4> QED BY <1>1, <1>5, <4>1 DEF NumbersDiffer
      <3> QED BY <1>1, <1>3, <1>8, <3>1, <3>2, <3>3 DEF NumbersDiffer
    <2>4. NoneIsLost'
      BY <1>3, <1>8 DEF NoneIsLost
    <2> QED BY <1>3, <1>8, <2>1, <2>2, <2>3, <2>4 DEF PrinterInv
  <1> QED BY <1>7, <1>8 DEF Send, sent

\* What is printed next is the document whose turn it is
LEMMA PrintNext ==
  ASSUME NEW Documents, docs \in Seq(Documents), PrinterInv, NEW entry, OnItsWay(entry),
         entry.index = cur, PrintDocument(entry)
  PROVE  /\ cur \in 1..Len(docs) /\ cur' = cur + 1 /\ cur' <= todo + 1
         /\ printed' = SubSeq(docs, 1, cur' - 1) /\ printed' \in Seq(ToSet(docs))
PROOF
  <1>1. cur \in 1..Len(docs) /\ cur \in Nat /\ Len(docs) \in Nat /\ entry.doc = docs[cur]
    BY DocsFacts DEF OnItsWay, Entries
  <1>2. printed = SubSeq(docs, 1, cur - 1) /\ cur <= todo /\ todo \in Nat
    BY DEF PrinterInv, OnItsWay, TypeOK
  <1>3. printed' = SubSeq(docs, 1, cur) /\ cur' = cur + 1
    BY <1>1, <1>2, DocsFacts DEF PrintDocument
  <1>4. SubSeq(docs, 1, cur) \in Seq(ToSet(docs)) /\ cur' - 1 = cur
    BY <1>1, <1>3, DocsFacts
  <1> QED BY <1>1, <1>2, <1>3, <1>4

LEMMA ReceiveStep ==
  ASSUME NEW Documents, docs \in Seq(Documents), PrinterInv, Receive
  PROVE  PrinterInv'
PROOF
  <1> DEFINE entry == Head(channel)
  <1>1. TypeOK /\ EntriesInv /\ NumbersDiffer /\ NoneIsLost
    BY DEF PrinterInv
  <1>2. /\ todo \in Nat /\ Len(docs) \in Nat /\ cur \in Nat /\ cur >= 1 /\ todo <= Len(docs)
    BY <1>1 DEF TypeOK
  <1>3. /\ docs' = docs /\ todo' = todo /\ at' = at /\ stopped' = stopped /\ Entries' = Entries
        /\ stage = "printing" /\ channel # <<>> /\ channel' = Tail(channel)
    BY DEF Receive, Entries
  <1>4. /\ 1 \in DOMAIN channel /\ entry = channel[1] /\ channel' \in Seq(Entries)
        /\ \A i \in DOMAIN channel' : i + 1 \in DOMAIN channel /\ i + 1 # 1 /\ channel'[i] = channel[i + 1]
        /\ \A i \in DOMAIN channel : i # 1 => i - 1 \in DOMAIN channel'
        /\ DOMAIN channel \subseteq Nat /\ DOMAIN channel' \subseteq Nat
    BY <1>1, <1>3, ChannelFacts DEF TypeOK
  <1>5. OnItsWay(entry) /\ entry \in Entries
    BY <1>1, <1>4 DEF EntriesInv, OnItsWay
  <1>6. /\ \A i \in DOMAIN channel' : OnItsWay(channel'[i]) /\ channel'[i].index # entry.index
        /\ \A i, j \in DOMAIN channel' : i # j => channel'[i].index # channel'[j].index
        /\ \A i \in DOMAIN channel', other \in heap : channel'[i].index # other.index
        /\ \A v \in Workers, i \in DOMAIN channel' : at[v] # channel'[i].index
        /\ \A other \in heap : other.index # entry.index
        /\ \A v \in Workers : at[v] # entry.index
    BY <1>1, <1>4 DEF EntriesInv, NumbersDiffer
  <1>7. \A n \in cur..todo :
          \/ n = entry.index
          \/ \E v \in Workers : at[v] = n
          \/ \E i \in DOMAIN channel' : channel'[i].index = n
          \/ \E other \in heap : other.index = n
    <2> SUFFICES ASSUME NEW n \in cur..todo, n # entry.index,
                        NEW i \in DOMAIN channel, channel[i].index = n
                 PROVE  \E j \in DOMAIN channel' : channel'[j].index = n
      BY <1>1, <1>3 DEF NoneIsLost
    <2>1. i # 1 /\ i \in Nat
      BY <1>4
    <2>2. i - 1 \in DOMAIN channel' /\ channel'[i - 1] = channel[i]
      <3>1. i - 1 \in DOMAIN channel'
        BY <1>4, <2>1
      <3>2. channel'[i - 1] = channel[(i - 1) + 1] /\ (i - 1) + 1 = i
        BY <1>4, <2>1, <3>1
      <3> QED BY <3>1, <3>2
    <2> QED BY <2>2
  <1>8. ~stopped
    BY <1>1, <1>3 DEF NoneIsLost
  <1> HIDE DEF entry
  <1>9. CASE stage' = "failed" /\ heap' = heap /\ cur' = cur /\ printed' = printed
    <2>1. TypeOK'
      BY <1>1, <1>3, <1>4, <1>9 DEF TypeOK
    <2>2. EntriesInv'
      BY <1>1, <1>3, <1>6, <1>9 DEF EntriesInv, OnItsWay
    <2>3. NumbersDiffer'
      BY <1>1, <1>3, <1>6, <1>9 DEF NumbersDiffer
    <2>4. NoneIsLost'
      BY <1>9 DEF NoneIsLost
    <2> QED BY <1>3, <1>9, <2>1, <2>2, <2>3, <2>4 DEF PrinterInv
  <1>10. CASE stage' = stage /\ entry.index = cur /\ PrintDocument(entry) /\ heap' = heap
    <2>1. /\ cur \in 1..Len(docs) /\ cur' = cur + 1 /\ cur' <= todo + 1
          /\ printed' = SubSeq(docs, 1, cur' - 1) /\ printed' \in Seq(ToSet(docs))
      BY <1>5, <1>10, PrintNext
    <2>2. TypeOK'
      BY <1>1, <1>2, <1>3, <1>4, <1>10, <2>1 DEF TypeOK
    <2>3. \A other : OnItsWay(other) /\ other.index # cur => OnItsWay(other)'
      <3> SUFFICES ASSUME NEW other, OnItsWay(other), other.index # cur PROVE OnItsWay(other)'
        OBVIOUS
      <3>1. other.index \in Nat
        BY <1>2, DocsFacts DEF OnItsWay, Entries
      <3> QED BY <1>2, <1>3, <2>1, <3>1 DEF OnItsWay
    <2>4. EntriesInv'
      <3>1. \A other : (\E i \in DOMAIN channel' : other = channel'[i]) => OnItsWay(other)'
        BY <1>6, <1>10, <2>3
      <3>2. \A other \in heap : OnItsWay(other)'
        BY <1>1, <1>6, <1>10, <2>3 DEF EntriesInv
      <3>3. \A v \in Workers : at[v] # 0 => cur + 1 <= at[v] /\ at[v] <= todo
        <4> SUFFICES ASSUME NEW v \in Workers, at[v] # 0 PROVE cur + 1 <= at[v] /\ at[v] <= todo
          OBVIOUS
        <4>1. cur <= at[v] /\ at[v] <= todo /\ at[v] # cur /\ at[v] \in Nat
          BY <1>1, <1>2, <1>6, <1>10 DEF EntriesInv, TypeOK
        <4> QED BY <1>2, <4>1
      <3> QED BY <1>3, <1>10, <2>1, <3>1, <3>2, <3>3 DEF EntriesInv
    <2>5. NumbersDiffer'
      BY <1>1, <1>3, <1>6, <1>10 DEF NumbersDiffer
    <2>6. NoneIsLost'
      <3> SUFFICES ASSUME NEW n \in (cur + 1)..todo
                   PROVE  \/ \E v \in Workers : at[v] = n
                          \/ \E i \in DOMAIN channel' : channel'[i].index = n
                          \/ \E other \in heap : other.index = n
        BY <1>3, <1>8, <1>10, <2>1 DEF NoneIsLost
      <3>1. n \in cur..todo /\ n # entry.index
        BY <1>2, <1>10
      <3> QED BY <1>7, <3>1
    <2> QED BY <1>3, <1>10, <2>1, <2>2, <2>4, <2>5, <2>6 DEF PrinterInv
  <1>11. CASE stage' = stage /\ heap' = heap \union {entry} /\ cur' = cur /\ printed' = printed
    <2>1. TypeOK'
      BY <1>1, <1>3, <1>4, <1>5, <1>11 DEF TypeOK
    <2>2. EntriesInv'
      BY <1>1, <1>3, <1>5, <1>6, <1>11 DEF EntriesInv, OnItsWay
    <2>3. NumbersDiffer'
      BY <1>1, <1>3, <1>6, <1>11 DEF NumbersDiffer
    <2>4. NoneIsLost'
      BY <1>3, <1>7, <1>8, <1>11 DEF NoneIsLost
    <2> QED BY <1>3, <1>11, <2>1, <2>2, <2>3, <2>4 DEF PrinterInv
  <1> QED BY <1>9, <1>10, <1>11 DEF Receive, entry

LEMMA PrintKeptStep ==
  ASSUME NEW Documents, docs \in Seq(Documents), PrinterInv, NEW entry \in heap, PrintKept(entry)
  PROVE  PrinterInv'
PROOF
  <1>1. TypeOK /\ EntriesInv /\ NumbersDiffer /\ NoneIsLost
    BY DEF PrinterInv
  <1>2. /\ todo \in Nat /\ Len(docs) \in Nat /\ cur \in Nat /\ cur >= 1 /\ todo <= Len(docs)
    BY <1>1 DEF TypeOK
  <1>3. /\ docs' = docs /\ todo' = todo /\ at' = at /\ stopped' = stopped /\ Entries' = Entries
        /\ stage = "printing" /\ stage' = stage /\ channel' = channel
        /\ heap' = heap \ {entry} /\ entry.index = cur /\ PrintDocument(entry)
    BY DEF PrintKept, Entries
  <1>4. OnItsWay(entry)
    BY <1>1 DEF EntriesInv
  <1>5. /\ cur \in 1..Len(docs) /\ cur' = cur + 1 /\ cur' <= todo + 1
        /\ printed' = SubSeq(docs, 1, cur' - 1) /\ printed' \in Seq(ToSet(docs))
    BY <1>3, <1>4, PrintNext
  <1>6. TypeOK'
    BY <1>1, <1>2, <1>3, <1>5 DEF TypeOK
  <1>7. \A other : OnItsWay(other) /\ other.index # cur => OnItsWay(other)'
    <2> SUFFICES ASSUME NEW other, OnItsWay(other), other.index # cur PROVE OnItsWay(other)'
      OBVIOUS
    <2>1. other.index \in Nat
      BY <1>2, DocsFacts DEF OnItsWay, Entries
    <2> QED BY <1>2, <1>3, <1>5, <2>1 DEF OnItsWay
  <1>8. EntriesInv'
    <2>1. \A i \in DOMAIN channel : OnItsWay(channel[i])'
      BY <1>1, <1>3, <1>7 DEF EntriesInv, NumbersDiffer
    <2>2. \A other \in heap \ {entry} : OnItsWay(other)'
      BY <1>1, <1>3, <1>7 DEF EntriesInv, NumbersDiffer
    <2>3. \A v \in Workers : at[v] # 0 => cur + 1 <= at[v] /\ at[v] <= todo
      <3> SUFFICES ASSUME NEW v \in Workers, at[v] # 0 PROVE cur + 1 <= at[v] /\ at[v] <= todo
        OBVIOUS
      <3>1. cur <= at[v] /\ at[v] <= todo /\ at[v] # cur /\ at[v] \in Nat
        BY <1>1, <1>3 DEF EntriesInv, NumbersDiffer, TypeOK
      <3> QED BY <1>2, <3>1
    <2> QED BY <1>3, <1>5, <2>1, <2>2, <2>3 DEF EntriesInv
  <1>9. NumbersDiffer'
    BY <1>1, <1>3 DEF NumbersDiffer
  <1>10. NoneIsLost'
    <2> SUFFICES ASSUME NEW n \in (cur + 1)..todo
                 PROVE  \/ \E v \in Workers : at[v] = n
                        \/ \E i \in DOMAIN channel : channel[i].index = n
                        \/ \E other \in heap \ {entry} : other.index = n
      BY <1>1, <1>3, <1>5 DEF NoneIsLost
    <2>1. n \in cur..todo /\ n # entry.index
      BY <1>2, <1>3
    <2> QED BY <1>1, <1>3, <2>1 DEF NoneIsLost
  <1> QED BY <1>3, <1>5, <1>6, <1>8, <1>9, <1>10 DEF PrinterInv

\* Nothing is on its way when all have found the iterator empty, and what is kept is none
\* that follows: then nothing is kept
LEMMA FinishStep ==
  ASSUME NEW Documents, docs \in Seq(Documents), PrinterInv, Finish
  PROVE  PrinterInv'
PROOF
  <1>1. TypeOK /\ EntriesInv /\ NumbersDiffer /\ NoneIsLost
    BY DEF PrinterInv
  <1>2. /\ todo \in Nat /\ cur \in Nat /\ cur >= 1
    BY <1>1 DEF TypeOK
  <1>3. /\ UNCHANGED <<docs, todo, at, stopped, channel, heap, cur, printed>> /\ stage' = "done"
        /\ channel = <<>> /\ ~KeptIsNext /\ todo = Len(docs) /\ \A w \in Workers : at[w] = 0
    BY <1>1 DEF Finish, NoneIsLost
  <1>4. cur > todo
    <2> SUFFICES ASSUME cur <= todo PROVE FALSE
      BY <1>2
    <2>1. cur \in cur..todo /\ DOMAIN channel = {}
      BY <1>2, <1>3
    <2>2. PICK entry \in heap : entry.index = cur
      BY <1>1, <1>2, <1>3, <2>1 DEF Finish, NoneIsLost
    <2>3. \A other \in heap : entry.index <= other.index
      BY <1>1, <2>2 DEF EntriesInv, OnItsWay
    <2> QED BY <1>3, <2>2, <2>3 DEF KeptIsNext, Peek
  <1>5. heap = {}
    <2> SUFFICES ASSUME NEW entry \in heap PROVE FALSE
      OBVIOUS
    <2>1. cur <= entry.index /\ entry.index <= todo /\ entry.index \in Nat
      BY <1>1, DocsFacts DEF EntriesInv, OnItsWay, Entries
    <2> QED BY <1>2, <1>4, <2>1
  <1>6. TypeOK' /\ EntriesInv' /\ NumbersDiffer' /\ NoneIsLost'
    BY <1>1, <1>3 DEF TypeOK, EntriesInv, OnItsWay, Entries, NumbersDiffer, NoneIsLost
  <1> QED BY <1>3, <1>4, <1>5, <1>6 DEF PrinterInv

LEMMA PrinterStep ==
  ASSUME NEW Documents, docs \in Seq(Documents), PrinterInv, [PrinterNext]_printerVars
  PROVE  PrinterInv' /\ docs' = docs
PROOF
  <1>1. CASE \E w \in Workers : Take(w)
    BY <1>1, TakeStep DEF Take
  <1>2. CASE \E w \in Workers : Send(w)
    BY <1>2, SendStep DEF Send
  <1>3. CASE Receive
    BY <1>3, ReceiveStep DEF Receive
  <1>4. CASE \E entry \in heap : PrintKept(entry)
    BY <1>4, PrintKeptStep DEF PrintKept
  <1>5. CASE Finish
    BY <1>5, FinishStep DEF Finish
  <1>6. CASE UNCHANGED printerVars
    BY <1>6 DEF printerVars, PrinterInv, TypeOK, EntriesInv, OnItsWay, Entries, NumbersDiffer, NoneIsLost
  <1> QED BY <1>1, <1>2, <1>3, <1>4, <1>5, <1>6 DEF PrinterNext, Printing

-------------------------------------------------------------------------------
(* The printer prints as one thread would *)

LEMMA PrintedAlone ==
  ASSUME NEW Documents, docs \in Seq(Documents), PrinterInv
  PROVE  PrintsAsIfAlone
PROOF
  <1>1. TypeOK /\ cur \in 1..(Len(docs) + 1) /\ Len(docs) \in Nat /\ printed = SubSeq(docs, 1, cur - 1)
    BY DEF PrinterInv, TypeOK
  <1>2. cur - 1 \in 0..Len(docs)
    BY <1>1
  <1>3. Len(printed) = cur - 1
    BY <1>1, <1>2, DocsFacts
  <1>4. ASSUME stage = "done" PROVE printed = docs /\ heap = {} /\ cur > todo
    <2>1. heap = {} /\ cur > todo /\ todo = Len(docs)
      BY <1>4 DEF PrinterInv
    <2>2. cur - 1 = Len(docs)
      BY <1>1, <2>1
    <2> QED BY <1>1, <2>1, <2>2, DocsFacts
  <1> QED BY <1>1, <1>3, <1>4 DEF PrintsAsIfAlone, PrintsInOrder, NothingIsLeft

\* Whatever any number of threads do, with a channel of any size: the documents of a request
\* are printed in the order of its iterator, each once, and all of them unless one fails; at
\* the end nothing is kept (the receiving loop and the assertion after it)
THEOREM PrintedAsIfAlone ==
  ASSUME NEW CONSTANT Documents, NEW CONSTANT requests \in SUBSET Seq(Documents)
  PROVE  PrinterSpec(requests) => []PrintsAsIfAlone
PROOF
  <1> DEFINE Inv == docs \in Seq(Documents) /\ PrinterInv
  <1>1. PrinterInit(requests) => Inv
    BY PrinterInitially DEF PrinterInit
  <1>2. Inv /\ [PrinterNext]_printerVars => Inv'
    BY PrinterStep
  <1>3. Inv => PrintsAsIfAlone
    BY PrintedAlone
  <1> HIDE DEF Inv
  <1> QED BY <1>1, <1>2, <1>3, PTL DEF PrinterSpec

-------------------------------------------------------------------------------
(* Numbers keep what fits their width *)

\* The widths of machine numbers, and of those that are also read as signed numbers
Bits == {8, 16, 32, 64}
Narrow == {8, 16, 32}

Fields ==
  {Stored!Unsigned(w) : w \in Bits} \union {Stored!Signed(w) : w \in Bits} \union
  {Stored!Offset, Stored!Small, Stored!Cut(32), <<"i64", "i", 32>>, <<"u64", "u", 32>>, Stored!Number}

\* The widths
LEMMA BitsFacts == {8, 16, 32, 64} \subseteq Bits /\ {8, 16, 32} \subseteq Narrow /\ Narrow \subseteq Bits
PROOF BY DEF Bits, Narrow

\* What is assumed of the numbers, in the words of the proofs
LEMMA NumberFacts ==
  /\ \A w \in Bits : Half[w] \in Nat /\ Half[w] > 0 /\ Half[w] <= Half[64]
  /\ \A w \in Narrow : 2 * Half[w] <= Half[64]
  /\ Half[8] \in Nat /\ Half[16] \in Nat /\ Half[32] \in Nat /\ Half[64] \in Nat /\ Exact \in Nat /\ SubSeconds > 0
  /\ Half[8] > 31 /\ Half[16] > 840 /\ Half[32] > 840
PROOF
  <1>1. \A w \in {8, 16, 32, 64} : Half[w] \in Nat
    BY WidthsGrow DEF NumbersAssumption
  <1> QED BY <1>1, WidthsGrow DEF NumbersAssumption, Bits, Narrow

\* A number cut to a width is one of that width, and keeps its value if it was one
LEMMA CutFacts ==
  ASSUME NEW n \in Int, NEW w \in Bits
  PROVE  /\ Stored!AsUnsigned(n, w) \in 0..(2 * Half[w] - 1)
         /\ Stored!AsSigned(n, w) \in (-Half[w])..(Half[w] - 1)
         /\ n \in 0..(2 * Half[w] - 1) => Stored!AsUnsigned(n, w) = n
         /\ n \in (-Half[w])..(Half[w] - 1) => Stored!AsSigned(n, w) = n
PROOF
  <1> DEFINE h == Half[w]
             m == n % (2 * h)
  <1>1. h \in Nat /\ h > 0
    BY NumberFacts
  <1> HIDE DEF h
  <1>2. m \in 0..(2 * h - 1)
    BY <1>1
  <1>3. n \in 0..(2 * h - 1) => m = n
    BY <1>1
  <1>4. n \in (-h)..(h - 1) => m = IF n >= 0 THEN n ELSE n + 2 * h
    BY <1>1
  <1>5. Stored!AsUnsigned(n, w) = m /\ Stored!AsSigned(n, w) = IF m < h THEN m ELSE m - 2 * h
    BY DEF Stored!AsUnsigned, Stored!AsSigned, h
  <1> HIDE DEF m
  <1>6. /\ Stored!AsUnsigned(n, w) \in 0..(2 * h - 1)
        /\ Stored!AsSigned(n, w) \in (-h)..(h - 1)
        /\ n \in 0..(2 * h - 1) => Stored!AsUnsigned(n, w) = n
        /\ n \in (-h)..(h - 1) => Stored!AsSigned(n, w) = n
    BY <1>1, <1>2, <1>3, <1>4, <1>5
  <1> QED BY <1>6 DEF h

\* Single precision keeps what it keeps
LEMMA SingleFacts ==
  ASSUME NEW n \in Int
  PROVE  /\ Stored!AsSingle(n) \in Int
         /\ IsSingle(n) => Stored!AsSingle(n) = n
         /\ Stored!AsSingle(Stored!AsSingle(n)) = Stored!AsSingle(n)
PROOF
  <1> DEFINE exact(i) == i % 2 = 0 \/ i \in (-Exact)..Exact
  <1>1. Exact \in Nat
    BY NumberFacts
  <1>2. \A i \in Int : exact(i) => Stored!AsSingle(i) = i
    BY DEF Stored!AsSingle
  <1>3. CASE exact(n)
    BY <1>1, <1>2, <1>3 DEF IsSingle
  <1>4. CASE ~exact(n)
    <2>1. n % 2 = 1
      BY <1>4
    <2>2. Stored!AsSingle(n) = IF (n - 1) % 4 = 0 THEN n - 1 ELSE n + 1
      BY <1>4 DEF Stored!AsSingle
    <2>3. Stored!AsSingle(n) \in Int /\ Stored!AsSingle(n) % 2 = 0
      BY <2>1, <2>2
    <2>4. ~IsSingle(n)
      BY <1>1, <1>4 DEF IsSingle
    <2> QED BY <1>2, <2>3, <2>4
  <1> QED BY <1>3, <1>4

\* What was cut is cut to itself
LEMMA CutAgain ==
  ASSUME NEW n \in Int, NEW w \in Bits
  PROVE  /\ Stored!AsUnsigned(Stored!AsUnsigned(n, w), w) = Stored!AsUnsigned(n, w)
         /\ Stored!AsSigned(Stored!AsSigned(n, w), w) = Stored!AsSigned(n, w)
         /\ Stored!AsUnsigned(n, w) \in 0..(2 * Half[64] - 1)
         /\ Stored!AsSigned(n, w) \in (-Half[64])..(Half[64] - 1)
         /\ w \in Narrow => Stored!AsUnsigned(n, w) \in (-Half[64])..(Half[64] - 1)
PROOF
  <1>1. Half[w] \in Nat /\ Half[w] > 0 /\ Half[w] <= Half[64] /\ Half[64] \in Nat
    BY NumberFacts, BitsFacts
  <1>2. w \in Narrow => 2 * Half[w] <= Half[64]
    BY NumberFacts
  <1>3. PICK u \in 0..(2 * Half[w] - 1) : u = Stored!AsUnsigned(n, w)
    BY CutFacts
  <1>4. PICK i \in (-Half[w])..(Half[w] - 1) : i = Stored!AsSigned(n, w)
    BY CutFacts
  <1>5. u \in Int /\ i \in Int
    BY <1>1
  <1>6. Stored!AsUnsigned(u, w) = u /\ Stored!AsSigned(i, w) = i
    BY <1>3, <1>4, <1>5, CutFacts
  <1>7. /\ u \in 0..(2 * Half[64] - 1) /\ i \in (-Half[64])..(Half[64] - 1)
        /\ w \in Narrow => u \in (-Half[64])..(Half[64] - 1)
    BY <1>1, <1>2, <1>3, <1>4
  <1> QED BY <1>3, <1>4, <1>6, <1>7

\* What was kept of a number is read again, and kept as it is
LEMMA KeptAgain ==
  ASSUME NEW f \in Fields, NEW t, t[2] \in Int, Stored!Readable(t, f)
  PROVE  LET k == Stored!Kept(t, f) IN
         /\ k \in Int
         /\ f # Stored!Number /\ (f = Stored!Offset => k >= 0) =>
              Stored!Readable(Stored!Whole(k), f) /\ Stored!Kept(Stored!Whole(k), f) = k
         /\ f = Stored!Number =>
              Stored!Readable(Stored!ReadFloat(k), f) /\ Stored!Kept(Stored!ReadFloat(k), f) = k
PROOF
  <1> DEFINE n == t[2]
             k == Stored!Kept(t, f)
  <1> USE DEF Stored!Whole, Stored!ReadFloat, Stored!Unsigned, Stored!Signed, Stored!Offset,
              Stored!Small, Stored!Cut, Stored!Number
  <1>1. CASE \E w \in Bits : f = <<"u64", "u", w>>
    <2>1. PICK w \in Bits : f = <<"u64", "u", w>>
      BY <1>1
    <2>2. k = Stored!AsUnsigned(n, w)
      BY <2>1 DEF Stored!Kept
    <2>3. Stored!AsUnsigned(k, w) = k /\ k \in 0..(2 * Half[64] - 1)
      BY <2>2, CutAgain, BitsFacts
    <2> QED BY <2>1, <2>3, NumberFacts DEF Stored!Readable, Stored!Kept
  <1>2. CASE \E w \in Bits : f = <<"i64", "i", w>>
    <2>1. PICK w \in Bits : f = <<"i64", "i", w>>
      BY <1>2
    <2>2. k = Stored!AsSigned(n, w)
      BY <2>1 DEF Stored!Kept
    <2>3. Stored!AsSigned(k, w) = k /\ k \in (-Half[64])..(Half[64] - 1)
      BY <2>2, CutAgain, BitsFacts
    <2> QED BY <2>1, <2>3, NumberFacts DEF Stored!Readable, Stored!Kept
  <1>3. CASE \E w \in Narrow : f = <<"i64", "u", w>>
    <2>1. PICK w \in Narrow : f = <<"i64", "u", w>>
      BY <1>3
    <2>2. k = Stored!AsUnsigned(n, w)
      BY <2>1 DEF Stored!Kept
    <2>3. Stored!AsUnsigned(k, w) = k /\ k \in (-Half[64])..(Half[64] - 1)
      BY <2>2, CutAgain, BitsFacts
    <2> QED BY <2>1, <2>3, NumberFacts DEF Stored!Readable, Stored!Kept
  <1>4. CASE f = <<"u64", "i", 16>>
    <2>2. k = Stored!AsSigned(n, 16)
      BY <1>4 DEF Stored!Kept
    <2>3. Stored!AsSigned(k, 16) = k /\ k \in (-Half[64])..(Half[64] - 1)
      BY <2>2, CutAgain, BitsFacts
    <2>4. k >= 0 => k \in 0..(2 * Half[64] - 1)
      BY <2>3, NumberFacts, BitsFacts
    <2> QED BY <1>4, <2>3, <2>4, NumberFacts DEF Stored!Readable, Stored!Kept
  <1>5. CASE f = <<"f64", "f", 64>>
    BY <1>5 DEF Stored!Readable, Stored!Kept
  <1> QED BY <1>1, <1>2, <1>3, <1>4, <1>5 DEF Fields, Bits, Narrow

\* A number in the range of its field is kept as it is
LEMMA KeptWhole ==
  ASSUME NEW n \in Int
  PROVE  /\ \A w \in Bits :
              /\ n \in UnsignedRange(w) =>
                   Stored!Readable(<<"int", n>>, Stored!Unsigned(w)) /\ Stored!Kept(<<"int", n>>, Stored!Unsigned(w)) = n
              /\ n \in SignedRange(w) =>
                   Stored!Readable(<<"int", n>>, Stored!Signed(w)) /\ Stored!Kept(<<"int", n>>, Stored!Signed(w)) = n
         /\ n \in 0..840 => Stored!Readable(<<"int", n>>, Stored!Offset) /\ Stored!Kept(<<"int", n>>, Stored!Offset) = n
         /\ \A w \in Narrow : n \in UnsignedRange(w) =>
              Stored!Readable(<<"int", n>>, <<"i64", "u", w>>) /\ Stored!Kept(<<"int", n>>, <<"i64", "u", w>>) = n
PROOF
  <1> USE DEF UnsignedRange, SignedRange, Stored!Unsigned, Stored!Signed, Stored!Offset
  <1>1. ASSUME NEW w \in Bits, n \in UnsignedRange(w)
        PROVE  Stored!Readable(<<"int", n>>, Stored!Unsigned(w)) /\ Stored!Kept(<<"int", n>>, Stored!Unsigned(w)) = n
    <2>1. Stored!AsUnsigned(n, w) = n
      BY <1>1, CutFacts
    <2>2. n \in 0..(2 * Half[64] - 1)
      BY <2>1, CutAgain
    <2> QED BY <2>1, <2>2 DEF Stored!Readable, Stored!Kept
  <1>2. ASSUME NEW w \in Bits, n \in SignedRange(w)
        PROVE  Stored!Readable(<<"int", n>>, Stored!Signed(w)) /\ Stored!Kept(<<"int", n>>, Stored!Signed(w)) = n
    <2>1. Stored!AsSigned(n, w) = n
      BY <1>2, CutFacts
    <2>2. n \in (-Half[64])..(Half[64] - 1)
      BY <2>1, CutAgain
    <2> QED BY <2>1, <2>2 DEF Stored!Readable, Stored!Kept
  <1>3. ASSUME n \in 0..840
        PROVE  Stored!Readable(<<"int", n>>, Stored!Offset) /\ Stored!Kept(<<"int", n>>, Stored!Offset) = n
    <2>1. 16 \in Bits /\ 64 \in Bits
      BY BitsFacts
    <2>2. Half[16] \in Nat /\ Half[16] > 840 /\ Half[64] \in Nat /\ Half[16] <= Half[64]
      BY <2>1, NumberFacts
    <2>3. n \in (-Half[16])..(Half[16] - 1) /\ n \in 0..(2 * Half[64] - 1)
      BY <1>3, <2>2
    <2>4. Stored!AsSigned(n, 16) = n
      BY <2>1, <2>3, CutFacts
    <2> QED BY <2>3, <2>4 DEF Stored!Readable, Stored!Kept
  <1>4. ASSUME NEW w \in Narrow, n \in UnsignedRange(w)
        PROVE  Stored!Readable(<<"int", n>>, <<"i64", "u", w>>) /\ Stored!Kept(<<"int", n>>, <<"i64", "u", w>>) = n
    <2>1. Stored!AsUnsigned(n, w) = n
      BY <1>4, CutFacts, BitsFacts
    <2>2. n \in (-Half[64])..(Half[64] - 1)
      BY <2>1, CutAgain, BitsFacts
    <2> QED BY <2>1, <2>2 DEF Stored!Readable, Stored!Kept
  <1> QED BY <1>1, <1>2, <1>3, <1>4

-------------------------------------------------------------------------------
(* How each kind of type is made and read, and which terms it has *)

LEMMA BooleanKind ==
  ASSUME NEW type, NEW t, type = "boolean"
  PROVE  /\ Stored!MakeEntry(type, t) = Stored!MakeBoolean(t)
         /\ \A d : Stored!ReadEntry(Stored!Entry(type, d)) = <<"value", Stored!ReadBoolean(d), type>>
         /\ IsOfType(type, t) <=> t[1] = "atom" /\ t[2] \in {<<"true">>, <<"false">>}
PROOF
  <1> USE DEF Stored!TextTypes, Stored!MachineTypes, Stored!FloatTypes, Stored!BigTypes, Stored!GregorianFields,
              Stored!DurationTypes, RangeOf, PartsOf
  <1>1. Stored!MakeEntry(type, t) = Stored!MakeBoolean(t)
    BY DEF Stored!MakeEntry
  <1>2. \A d : Stored!ReadEntry(Stored!Entry(type, d)) = <<"value", Stored!ReadBoolean(d), type>>
    BY DEF Stored!ReadEntry, Stored!Entry
  <1>3. IsOfType(type, t) <=> t[1] = "atom" /\ t[2] \in {<<"true">>, <<"false">>}
    BY DEF IsOfType
  <1> QED BY <1>1, <1>2, <1>3

LEMMA TextKind ==
  ASSUME NEW type, NEW t, type \in Stored!TextTypes
  PROVE  /\ Stored!MakeEntry(type, t) = Stored!MakeText(type, t)
         /\ \A d : Stored!ReadEntry(Stored!Entry(type, d)) = <<"value", Stored!ReadText(d), type>>
         /\ IsOfType(type, t) <=> t[1] = "text"
PROOF
  <1> USE DEF Stored!TextTypes, Stored!MachineTypes, Stored!FloatTypes, Stored!BigTypes, Stored!GregorianFields,
              Stored!DurationTypes, RangeOf, PartsOf
  <1>1. Stored!MakeEntry(type, t) = Stored!MakeText(type, t)
    BY DEF Stored!MakeEntry
  <1>2. \A d : Stored!ReadEntry(Stored!Entry(type, d)) = <<"value", Stored!ReadText(d), type>>
    BY DEF Stored!ReadEntry, Stored!Entry
  <1>3. IsOfType(type, t) <=> t[1] = "text"
    BY DEF IsOfType
  <1> QED BY <1>1, <1>2, <1>3

LEMMA MachineKind ==
  ASSUME NEW type, NEW t, type \in DOMAIN Stored!MachineTypes
  PROVE  /\ Stored!MakeEntry(type, t) = Stored!MakeMachine(type, t)
         /\ \A d : Stored!ReadEntry(Stored!Entry(type, d)) = <<"value", Stored!Whole(d), type>>
         /\ IsOfType(type, t) <=> t[1] = "int" /\ t[2] \in RangeOf[type]
PROOF
  <1> USE DEF Stored!TextTypes, Stored!MachineTypes, Stored!FloatTypes, Stored!BigTypes, Stored!GregorianFields,
              Stored!DurationTypes, RangeOf, PartsOf
  <1>1. Stored!MakeEntry(type, t) = Stored!MakeMachine(type, t)
    BY DEF Stored!MakeEntry
  <1>2. \A d : Stored!ReadEntry(Stored!Entry(type, d)) = <<"value", Stored!Whole(d), type>>
    BY DEF Stored!ReadEntry, Stored!Entry
  <1>3. IsOfType(type, t) <=> t[1] = "int" /\ t[2] \in RangeOf[type]
    BY DEF IsOfType
  <1> QED BY <1>1, <1>2, <1>3

LEMMA FloatKind ==
  ASSUME NEW type, NEW t, type \in Stored!FloatTypes
  PROVE  /\ Stored!MakeEntry(type, t) = Stored!MakeFloat(type, t)
         /\ \A d : Stored!ReadEntry(Stored!Entry(type, d)) = <<"value", Stored!ReadFloat(d), type>>
         /\ IsOfType(type, t) <=> t[1] = "float" /\ (type = "double" \/ IsSingle(t[2]))
PROOF
  <1> USE DEF Stored!TextTypes, Stored!MachineTypes, Stored!FloatTypes, Stored!BigTypes, Stored!GregorianFields,
              Stored!DurationTypes, RangeOf, PartsOf
  <1>1. Stored!MakeEntry(type, t) = Stored!MakeFloat(type, t)
    BY DEF Stored!MakeEntry
  <1>2. \A d : Stored!ReadEntry(Stored!Entry(type, d)) = <<"value", Stored!ReadFloat(d), type>>
    BY DEF Stored!ReadEntry, Stored!Entry
  <1>3. IsOfType(type, t) <=> t[1] = "float" /\ (type = "double" \/ IsSingle(t[2]))
    BY DEF IsOfType
  <1> QED BY <1>1, <1>2, <1>3

LEMMA DecimalKind ==
  ASSUME NEW type, NEW t, type = "decimal"
  PROVE  /\ Stored!MakeEntry(type, t) = Stored!MakeDecimal(t)
         /\ \A d : Stored!ReadEntry(Stored!Entry(type, d)) = <<"value", Stored!ReadDecimal(d), type>>
         /\ IsOfType(type, t) <=> t[1] = "text" /\ (Stored!Spells(t, "digits") \/ Stored!Spells(t, "halves"))
PROOF
  <1> USE DEF Stored!TextTypes, Stored!MachineTypes, Stored!FloatTypes, Stored!BigTypes, Stored!GregorianFields,
              Stored!DurationTypes, RangeOf, PartsOf
  <1>1. Stored!MakeEntry(type, t) = Stored!MakeDecimal(t)
    BY DEF Stored!MakeEntry
  <1>2. \A d : Stored!ReadEntry(Stored!Entry(type, d)) = <<"value", Stored!ReadDecimal(d), type>>
    BY DEF Stored!ReadEntry, Stored!Entry
  <1>3. IsOfType(type, t) <=> t[1] = "text" /\ (Stored!Spells(t, "digits") \/ Stored!Spells(t, "halves"))
    BY DEF IsOfType
  <1> QED BY <1>1, <1>2, <1>3

LEMMA BigKind ==
  ASSUME NEW type, NEW t, type \in Stored!BigTypes
  PROVE  /\ Stored!MakeEntry(type, t) = Stored!MakeBig(type, t)
         /\ \A d : Stored!ReadEntry(Stored!Entry(type, d)) = <<"value", Stored!Whole(d), type>>
         /\ IsOfType(type, t) <=> t[1] = "int"
PROOF
  <1> USE DEF Stored!TextTypes, Stored!MachineTypes, Stored!FloatTypes, Stored!BigTypes, Stored!GregorianFields,
              Stored!DurationTypes, RangeOf, PartsOf
  <1>1. Stored!MakeEntry(type, t) = Stored!MakeBig(type, t)
    BY DEF Stored!MakeEntry
  <1>2. \A d : Stored!ReadEntry(Stored!Entry(type, d)) = <<"value", Stored!Whole(d), type>>
    BY DEF Stored!ReadEntry, Stored!Entry
  <1>3. IsOfType(type, t) <=> t[1] = "int"
    BY DEF IsOfType
  <1> QED BY <1>1, <1>2, <1>3

LEMMA BytesKind ==
  ASSUME NEW type, NEW t, type \in {"hexBinary", "base64Binary"}
  PROVE  /\ Stored!MakeEntry(type, t) = Stored!MakeBytes(type, t)
         /\ \A d : Stored!ReadEntry(Stored!Entry(type, d)) = <<"value", Stored!ReadBytes(type, d), type>>
         /\ IsOfType(type, t) <=> t[1] = "text" /\ Stored!Spells(t, "bytes") /\ t[2][3] = "lower"
PROOF
  <1> USE DEF Stored!TextTypes, Stored!MachineTypes, Stored!FloatTypes, Stored!BigTypes, Stored!GregorianFields,
              Stored!DurationTypes, RangeOf, PartsOf
  <1>1. Stored!MakeEntry(type, t) = Stored!MakeBytes(type, t)
    BY DEF Stored!MakeEntry
  <1>2. \A d : Stored!ReadEntry(Stored!Entry(type, d)) = <<"value", Stored!ReadBytes(type, d), type>>
    BY DEF Stored!ReadEntry, Stored!Entry
  <1>3. IsOfType(type, t) <=> t[1] = "text" /\ Stored!Spells(t, "bytes") /\ t[2][3] = "lower"
    BY DEF IsOfType
  <1> QED BY <1>1, <1>2, <1>3

LEMMA IntervalKind ==
  ASSUME NEW type, NEW t, type = "dateTimeInterval"
  PROVE  /\ Stored!MakeEntry(type, t) = Stored!ParseInterval(t)
         /\ \A d : Stored!ReadEntry(Stored!Entry(type, d)) = <<"value", Stored!FormatInterval(d), type>>
         /\ IsOfType(type, t) <=> IsInterval(t)
PROOF
  <1> USE DEF Stored!TextTypes, Stored!MachineTypes, Stored!FloatTypes, Stored!BigTypes, Stored!GregorianFields,
              Stored!DurationTypes, RangeOf, PartsOf
  <1>1. Stored!MakeEntry(type, t) = Stored!ParseInterval(t)
    BY DEF Stored!MakeEntry
  <1>2. \A d : Stored!ReadEntry(Stored!Entry(type, d)) = <<"value", Stored!FormatInterval(d), type>>
    BY DEF Stored!ReadEntry, Stored!Entry
  <1>3. IsOfType(type, t) <=> IsInterval(t)
    BY DEF IsOfType
  <1> QED BY <1>1, <1>2, <1>3

LEMMA MomentKind ==
  ASSUME NEW type, NEW t, type \in {"dateTime", "dateTimeStamp"}
  PROVE  /\ Stored!MakeEntry(type, t) = Stored!MakeMoment(type, t)
         /\ \A d : Stored!ReadEntry(Stored!Entry(type, d)) = <<"value", Stored!ReadFields(type, d), type>>
         /\ IsOfType(type, t) <=> IsMoment(t)
PROOF
  <1> USE DEF Stored!TextTypes, Stored!MachineTypes, Stored!FloatTypes, Stored!BigTypes, Stored!GregorianFields,
              Stored!DurationTypes, RangeOf, PartsOf
  <1>1. Stored!MakeEntry(type, t) = Stored!MakeMoment(type, t)
    BY DEF Stored!MakeEntry
  <1>2. \A d : Stored!ReadEntry(Stored!Entry(type, d)) = <<"value", Stored!ReadFields(type, d), type>>
    BY DEF Stored!ReadEntry, Stored!Entry
  <1>3. IsOfType(type, t) <=> IsMoment(t)
    BY DEF IsOfType
  <1> QED BY <1>1, <1>2, <1>3

LEMMA TimeKind ==
  ASSUME NEW type, NEW t, type = "time"
  PROVE  /\ Stored!MakeEntry(type, t) = Stored!MakeTime(t)
         /\ \A d : Stored!ReadEntry(Stored!Entry(type, d)) = <<"value", Stored!ReadFields(type, d), type>>
         /\ IsOfType(type, t) <=> IsMade(t, Stored!FunctorOf(type), Len(PartsOf[type])) /\ HasParts(t, PartsOf[type])
PROOF
  <1> USE DEF Stored!TextTypes, Stored!MachineTypes, Stored!FloatTypes, Stored!BigTypes, Stored!GregorianFields,
              Stored!DurationTypes, RangeOf, PartsOf
  <1>1. Stored!MakeEntry(type, t) = Stored!MakeTime(t)
    BY DEF Stored!MakeEntry
  <1>2. \A d : Stored!ReadEntry(Stored!Entry(type, d)) = <<"value", Stored!ReadFields(type, d), type>>
    BY DEF Stored!ReadEntry, Stored!Entry
  <1>3. IsOfType(type, t) <=> IsMade(t, Stored!FunctorOf(type), Len(PartsOf[type])) /\ HasParts(t, PartsOf[type])
    BY DEF IsOfType
  <1> QED BY <1>1, <1>2, <1>3

LEMMA DateKind ==
  ASSUME NEW type, NEW t, type = "date"
  PROVE  /\ Stored!MakeEntry(type, t) = Stored!MakeFields(type, t)
         /\ \A d : Stored!ReadEntry(Stored!Entry(type, d)) = <<"value", Stored!ReadFields(type, d), type>>
         /\ IsOfType(type, t) <=> IsMade(t, Stored!FunctorOf(type), Len(PartsOf[type])) /\ HasParts(t, PartsOf[type])
PROOF
  <1> USE DEF Stored!TextTypes, Stored!MachineTypes, Stored!FloatTypes, Stored!BigTypes, Stored!GregorianFields,
              Stored!DurationTypes, RangeOf, PartsOf
  <1>1. Stored!MakeEntry(type, t) = Stored!MakeFields(type, t)
    BY DEF Stored!MakeEntry
  <1>2. \A d : Stored!ReadEntry(Stored!Entry(type, d)) = <<"value", Stored!ReadFields(type, d), type>>
    BY DEF Stored!ReadEntry, Stored!Entry
  <1>3. IsOfType(type, t) <=> IsMade(t, Stored!FunctorOf(type), Len(PartsOf[type])) /\ HasParts(t, PartsOf[type])
    BY DEF IsOfType
  <1> QED BY <1>1, <1>2, <1>3

LEMMA GregorianKind ==
  ASSUME NEW type, NEW t, type \in DOMAIN Stored!GregorianFields
  PROVE  /\ Stored!MakeEntry(type, t) = Stored!MakeFields(type, t)
         /\ \A d : Stored!ReadEntry(Stored!Entry(type, d)) = <<"value", Stored!ReadFields(type, d), type>>
         /\ IsOfType(type, t) <=> IsMade(t, Stored!FunctorOf(type), Len(PartsOf[type])) /\ HasParts(t, PartsOf[type])
PROOF
  <1> USE DEF Stored!TextTypes, Stored!MachineTypes, Stored!FloatTypes, Stored!BigTypes, Stored!GregorianFields,
              Stored!DurationTypes, RangeOf, PartsOf
  <1>1. Stored!MakeEntry(type, t) = Stored!MakeFields(type, t)
    BY DEF Stored!MakeEntry
  <1>2. \A d : Stored!ReadEntry(Stored!Entry(type, d)) = <<"value", Stored!ReadFields(type, d), type>>
    BY DEF Stored!ReadEntry, Stored!Entry
  <1>3. IsOfType(type, t) <=> IsMade(t, Stored!FunctorOf(type), Len(PartsOf[type])) /\ HasParts(t, PartsOf[type])
    BY DEF IsOfType
  <1> QED BY <1>1, <1>2, <1>3

LEMMA DurationKind ==
  ASSUME NEW type, NEW t, type \in Stored!DurationTypes
  PROVE  /\ Stored!MakeEntry(type, t) = Stored!MakeFields(type, t)
         /\ \A d : Stored!ReadEntry(Stored!Entry(type, d)) = <<"value", Stored!ReadFields(type, d), type>>
         /\ IsOfType(type, t) <=> IsSpan(t) /\ t[3][7][1] = "float"
PROOF
  <1> USE DEF Stored!TextTypes, Stored!MachineTypes, Stored!FloatTypes, Stored!BigTypes, Stored!GregorianFields,
              Stored!DurationTypes, RangeOf, PartsOf
  <1>1. Stored!MakeEntry(type, t) = Stored!MakeFields(type, t)
    BY DEF Stored!MakeEntry
  <1>2. \A d : Stored!ReadEntry(Stored!Entry(type, d)) = <<"value", Stored!ReadFields(type, d), type>>
    BY DEF Stored!ReadEntry, Stored!Entry
  <1>3. IsOfType(type, t) <=> IsSpan(t) /\ t[3][7][1] = "float"
    BY DEF IsOfType
  <1> QED BY <1>1, <1>2, <1>3

-------------------------------------------------------------------------------
(* What may be asked *)

\* A word is letters, or the text of a number or of bytes, which no letters are
Words(Letters) ==
  Seq(Letters) \union ({"digits"} \X Int) \union ({"halves"} \X {n \in Int : n % 2 = 1}) \union
  ({"bytes"} \X Int \X {"upper", "lower"})
\* A number, a word, or a compound of other terms
IsTerm(t, Terms, Letters) ==
  \/ t \in {"int", "float"} \X Int
  \/ t \in {"text", "atom"} \X Words(Letters)
  \/ t \in {"compound"} \X STRING \X Seq(Terms)
AreTerms(Terms, Letters) ==
  /\ {"digits", "halves", "bytes"} \cap Letters = {}
  /\ \A t \in Terms : IsTerm(t, Terms, Letters)
IsObject(object, Terms, Letters) ==
  \/ object \in {"value"} \X Terms \X STRING
  \/ object \in {"lang"} \X ({"text"} \X Seq(Letters)) \X ({"atom"} \X Seq(Letters))

\* A value comes back, and what is read of it finds its entry
StoredWell(type, t) ==
  LET entry == Stored!MakeEntry(type, t) IN
  /\ IsOfType(type, t) => Stored!IsEntry(entry) /\ Stored!ReadEntry(entry) = <<"value", t, type>>
  /\ Stored!IsEntry(entry) /\ ~WrapsOffset(entry) => Stored!MakeObject(Stored!ReadEntry(entry)) = entry

\* A value is stored well if its entry is read as a term that makes the entry
LEMMA Restored ==
  ASSUME NEW type, NEW t, NEW d, NEW r,
         Stored!MakeEntry(type, t) = Stored!Entry(type, d),
         Stored!ReadEntry(Stored!Entry(type, d)) = <<"value", r, type>>,
         WrapsOffset(Stored!Entry(type, d)) \/ Stored!MakeEntry(type, r) = Stored!Entry(type, d),
         IsOfType(type, t) => r = t
  PROVE  StoredWell(type, t)
PROOF
  <1>1. Stored!IsEntry(Stored!Entry(type, d))
    BY DEF Stored!IsEntry, Stored!Entry
  <1>2. Stored!MakeObject(<<"value", r, type>>) = Stored!MakeEntry(type, r)
    BY DEF Stored!MakeObject
  <1> QED BY <1>1, <1>2 DEF StoredWell

\* And if it is refused, and is no term of its type
LEMMA Refused ==
  ASSUME NEW type, NEW t, Stored!MakeEntry(type, t) \in {Stored!Error, Stored!Panic}, ~IsOfType(type, t)
  PROVE  StoredWell(type, t)
PROOF
  <1>1. ~Stored!IsEntry(Stored!Error) /\ ~Stored!IsEntry(Stored!Panic)
    BY DEF Stored!IsEntry, Stored!Error, Stored!Panic
  <1> QED BY <1>1 DEF StoredWell

-------------------------------------------------------------------------------
(* Texts and numbers come back *)

\* A term is what its parts are
LEMMA TermForms ==
  ASSUME NEW Terms, NEW Letters, AreTerms(Terms, Letters), NEW t \in Terms
  PROVE  /\ t[1] \in {"int", "float", "text", "atom", "compound"}
         /\ t[1] \in {"int", "float"} => t[2] \in Int /\ t = <<t[1], t[2]>>
         /\ t[1] \in {"text", "atom"} => t[2] \in Words(Letters) /\ t = <<t[1], t[2]>>
         /\ t[1] = "compound" => t[2] \in STRING /\ t[3] \in Seq(Terms) /\ t = <<"compound", t[2], t[3]>>
PROOF
  <1>1. IsTerm(t, Terms, Letters)
    BY DEF AreTerms
  <1>2. CASE t \in {"int", "float"} \X Int
    BY <1>2
  <1>3. CASE t \in {"text", "atom"} \X Words(Letters)
    BY <1>3
  <1>4. CASE t \in {"compound"} \X STRING \X Seq(Terms)
    BY <1>4
  <1> QED BY <1>1, <1>2, <1>3, <1>4 DEF IsTerm

\* What spells a number or bytes
LEMMA SpelledForms ==
  ASSUME NEW Terms, NEW Letters, AreTerms(Terms, Letters), NEW t \in Terms
  PROVE  /\ Stored!Spells(t, "digits") => t[2][2] \in Int /\ t[2] = <<"digits", t[2][2]>>
         /\ Stored!Spells(t, "halves") => t[2][2] \in Int /\ t[2][2] % 2 = 1 /\ t[2] = <<"halves", t[2][2]>>
         /\ Stored!Spells(t, "bytes") => t[2] = <<"bytes", t[2][2], t[2][3]>>
PROOF
  <1> SUFFICES ASSUME NEW how \in {"digits", "halves", "bytes"}, Stored!Spells(t, how)
               PROVE  /\ how = "digits" => t[2][2] \in Int /\ t[2] = <<"digits", t[2][2]>>
                      /\ how = "halves" => t[2][2] \in Int /\ t[2][2] % 2 = 1 /\ t[2] = <<"halves", t[2][2]>>
                      /\ how = "bytes" => t[2] = <<"bytes", t[2][2], t[2][3]>>
    OBVIOUS
  <1>1. t[2] \in Words(Letters) /\ t[2] # <<>> /\ t[2][1] = how
    BY TermForms DEF Stored!Spells
  <1>2. t[2] \notin Seq(Letters)
    <2>1. how \notin Letters
      BY DEF AreTerms
    <2>2. \A w \in Seq(Letters) : w # <<>> => w[1] \in Letters
      OBVIOUS
    <2> QED BY <1>1, <2>1, <2>2
  <1>3. CASE t[2] \in {"digits"} \X Int
    BY <1>1, <1>3
  <1>4. CASE t[2] \in {"halves"} \X {n \in Int : n % 2 = 1}
    BY <1>1, <1>4
  <1>5. CASE t[2] \in {"bytes"} \X Int \X {"upper", "lower"}
    BY <1>1, <1>5
  <1> QED BY <1>1, <1>2, <1>3, <1>4, <1>5 DEF Words

\* Booleans come back
LEMMA BooleansComeBack ==
  ASSUME NEW Terms, NEW Letters, AreTerms(Terms, Letters), NEW t \in Terms
  PROVE  StoredWell("boolean", t)
PROOF
  <1>1. CASE t[1] = "atom"
    <2> DEFINE d == IF t[2] = <<"true">> THEN "true" ELSE "false"
               r == Stored!ReadBoolean(d)
    <2>1. Stored!MakeEntry("boolean", t) = Stored!Entry("boolean", d)
      BY <1>1, BooleanKind DEF Stored!MakeBoolean
    <2>2. Stored!ReadEntry(Stored!Entry("boolean", d)) = <<"value", r, "boolean">>
      BY BooleanKind
    <2>3. r[1] = "atom" /\ r[2] = <<d>>
      BY DEF Stored!ReadBoolean
    <2>4. Stored!MakeEntry("boolean", r) = Stored!Entry("boolean", d)
      BY <2>3, BooleanKind DEF Stored!MakeBoolean
    <2>5. IsOfType("boolean", t) => r = t
      <3>1. t = <<"atom", t[2]>>
        BY <1>1, TermForms
      <3> QED BY <3>1, BooleanKind DEF Stored!ReadBoolean
    <2> HIDE DEF d, r
    <2> QED BY <2>1, <2>2, <2>4, <2>5, Restored
  <1>2. CASE t[1] # "atom"
    BY <1>2, BooleanKind, Refused DEF Stored!MakeBoolean
  <1> QED BY <1>1, <1>2

\* Texts come back
LEMMA TextsComeBack ==
  ASSUME NEW Terms, NEW Letters, AreTerms(Terms, Letters), NEW t \in Terms, NEW type \in Stored!TextTypes
  PROVE  StoredWell(type, t)
PROOF
  <1>1. CASE t[1] \in {"text", "atom"}
    <2> DEFINE d == t[2]
               r == Stored!ReadText(d)
    <2>1. Stored!MakeEntry(type, t) = Stored!Entry(type, d)
      BY <1>1, TextKind DEF Stored!MakeText
    <2>2. Stored!ReadEntry(Stored!Entry(type, d)) = <<"value", r, type>>
      BY TextKind
    <2>3. r[1] = "text" /\ r[2] = d
      BY DEF Stored!ReadText
    <2>4. Stored!MakeEntry(type, r) = Stored!Entry(type, d)
      BY <2>3, TextKind DEF Stored!MakeText
    <2>5. IsOfType(type, t) => r = t
      BY <1>1, TermForms, TextKind DEF Stored!ReadText
    <2> HIDE DEF d, r
    <2> QED BY <2>1, <2>2, <2>4, <2>5, Restored
  <1>2. CASE t[1] \notin {"text", "atom"}
    BY <1>2, TextKind, Refused DEF Stored!MakeText
  <1> QED BY <1>1, <1>2

\* The fields of machine numbers, and the numbers of their types
LEMMA MachineFields ==
  ASSUME NEW type \in DOMAIN Stored!MachineTypes
  PROVE  \E w \in Bits : \/ Stored!MachineTypes[type] = Stored!Unsigned(w) /\ RangeOf[type] = UnsignedRange(w)
                         \/ Stored!MachineTypes[type] = Stored!Signed(w) /\ RangeOf[type] = SignedRange(w)
PROOF BY DEF Stored!MachineTypes, RangeOf, Bits

\* Machine numbers come back: what was kept fits its width
LEMMA MachineNumbersComeBack ==
  ASSUME NEW Terms, NEW Letters, AreTerms(Terms, Letters), NEW t \in Terms,
         NEW type \in DOMAIN Stored!MachineTypes
  PROVE  StoredWell(type, t)
PROOF
  <1> DEFINE f == Stored!MachineTypes[type]
  <1>1. PICK w \in Bits : \/ f = Stored!Unsigned(w) /\ RangeOf[type] = UnsignedRange(w)
                          \/ f = Stored!Signed(w) /\ RangeOf[type] = SignedRange(w)
    BY MachineFields
  <1>2. f \in Fields /\ f # Stored!Number /\ f # Stored!Offset
    BY <1>1 DEF Fields, Stored!Unsigned, Stored!Signed, Stored!Number, Stored!Offset
  <1>3. CASE Stored!Readable(t, f)
    <2> DEFINE d == Stored!Kept(t, f)
               r == Stored!Whole(d)
    <2>0. t[1] = "int" /\ t[2] \in Int /\ t = <<"int", t[2]>>
      <3>1. t[1] = "int"
        BY <1>1, <1>3 DEF Stored!Readable, Stored!Unsigned, Stored!Signed
      <3> QED BY <3>1, TermForms
    <2>1. Stored!MakeEntry(type, t) = Stored!Entry(type, d)
      BY <1>3, MachineKind DEF Stored!MakeMachine
    <2>2. Stored!ReadEntry(Stored!Entry(type, d)) = <<"value", r, type>>
      BY MachineKind
    <2>3. Stored!Readable(r, f) /\ Stored!Kept(r, f) = d
      BY <1>2, <1>3, <2>0, KeptAgain
    <2>4. Stored!MakeEntry(type, r) = Stored!Entry(type, d)
      BY <2>3, MachineKind DEF Stored!MakeMachine
    <2>5. IsOfType(type, t) => r = t
      BY <1>1, <2>0, KeptWhole, MachineKind DEF Stored!Whole
    <2> HIDE DEF d, r
    <2> QED BY <2>1, <2>2, <2>4, <2>5, Restored
  <1>4. CASE ~Stored!Readable(t, f)
    <2>1. Stored!MakeEntry(type, t) = Stored!Error
      BY <1>4, MachineKind DEF Stored!MakeMachine
    <2>2. ~IsOfType(type, t)
      <3> SUFFICES ASSUME IsOfType(type, t) PROVE FALSE
        OBVIOUS
      <3>1. t[1] = "int" /\ t[2] \in RangeOf[type]
        BY MachineKind
      <3>2. t[2] \in Int /\ t = <<"int", t[2]>>
        BY <3>1, TermForms
      <3> QED BY <1>1, <1>4, <3>1, <3>2, KeptWhole
    <2> QED BY <2>1, <2>2, Refused
  <1> QED BY <1>3, <1>4

\* Floats and doubles come back, as single precision has them
LEMMA FloatsComeBack ==
  ASSUME NEW Terms, NEW Letters, AreTerms(Terms, Letters), NEW t \in Terms, NEW type \in Stored!FloatTypes
  PROVE  StoredWell(type, t)
PROOF
  <1> DEFINE single(n) == IF type = "float" THEN Stored!AsSingle(n) ELSE n
  <1>1. \A x : Stored!Readable(x, Stored!Number) <=> x[1] \in {"int", "float"}
    BY DEF Stored!Readable, Stored!Number
  <1>2. \A x : Stored!Kept(x, Stored!Number) = IF x[1] = "int" THEN 2 * x[2] ELSE x[2]
    BY DEF Stored!Kept, Stored!Number
  <1>3. \A x : x[1] \in {"int", "float"} =>
          Stored!MakeEntry(type, x) = Stored!Entry(type, single(Stored!Kept(x, Stored!Number)))
    BY <1>1, FloatKind DEF Stored!MakeFloat
  <1>4. \A n \in Int : single(n) \in Int /\ single(single(n)) = single(n)
    BY SingleFacts
  <1>5. CASE t[1] \in {"int", "float"}
    <2> DEFINE k == Stored!Kept(t, Stored!Number)
               d == single(k)
               r == Stored!ReadFloat(d)
    <2>0. t[2] \in Int /\ t = <<t[1], t[2]>>
      BY <1>5, TermForms
    <2>1. Stored!MakeEntry(type, t) = Stored!Entry(type, d)
      BY <1>3, <1>5
    <2>2. Stored!ReadEntry(Stored!Entry(type, d)) = <<"value", r, type>>
      BY FloatKind
    <2>3. k \in Int
      BY <1>2, <2>0
    <2>4. single(d) = d
      BY <1>4, <2>3
    <2>5. r[1] = "float" /\ Stored!Kept(r, Stored!Number) = d
      BY <1>2 DEF Stored!ReadFloat
    <2>6. Stored!MakeEntry(type, r) = Stored!Entry(type, d)
      <3>1. Stored!MakeEntry(type, r) = Stored!Entry(type, single(Stored!Kept(r, Stored!Number)))
        BY <1>3, <2>5
      <3> QED BY <3>1, <2>4, <2>5
    <2>7. ASSUME IsOfType(type, t) PROVE r = t
      <3>1. t[1] = "float" /\ (type = "double" \/ IsSingle(t[2]))
        BY <2>7, FloatKind
      <3>2. k = t[2]
        BY <1>2, <3>1
      <3>3. d = t[2]
        BY <2>0, <3>1, <3>2, SingleFacts
      <3> QED BY <2>0, <3>1, <3>3 DEF Stored!ReadFloat
    <2> HIDE DEF d, r
    <2> QED BY <2>1, <2>2, <2>6, <2>7, Restored
  <1>6. CASE t[1] \notin {"int", "float"}
    BY <1>1, <1>6, FloatKind, Refused DEF Stored!MakeFloat
  <1> QED BY <1>5, <1>6

\* Integers of any size come back, whether they came as numbers or as text
LEMMA IntegersComeBack ==
  ASSUME NEW Terms, NEW Letters, AreTerms(Terms, Letters), NEW t \in Terms, NEW type \in Stored!BigTypes
  PROVE  StoredWell(type, t)
PROOF
  <1>1. \A n : Stored!MakeEntry(type, Stored!Whole(n)) = Stored!Entry(type, n)
    BY BigKind DEF Stored!MakeBig, Stored!Whole, Stored!Spells
  <1>2. \A n : Stored!ReadEntry(Stored!Entry(type, n)) = <<"value", Stored!Whole(n), type>>
    BY BigKind
  <1>3. CASE t[1] = "int"
    <2>1. t = Stored!Whole(t[2])
      BY <1>3, TermForms DEF Stored!Whole
    <2> QED BY <1>1, <1>2, <2>1, Restored
  <1>4. CASE t[1] # "int" /\ Stored!Spells(t, "digits")
    <2>1. Stored!MakeEntry(type, t) = Stored!Entry(type, t[2][2])
      BY <1>4, BigKind DEF Stored!MakeBig
    <2>2. ~IsOfType(type, t)
      BY <1>4, BigKind
    <2> QED BY <1>1, <1>2, <2>1, <2>2, Restored
  <1>5. CASE t[1] # "int" /\ ~Stored!Spells(t, "digits")
    BY <1>5, BigKind, Refused DEF Stored!MakeBig
  <1> QED BY <1>3, <1>4, <1>5

\* Decimals come back as the text that spells them
LEMMA DecimalsComeBack ==
  ASSUME NEW Terms, NEW Letters, AreTerms(Terms, Letters), NEW t \in Terms
  PROVE  StoredWell("decimal", t)
PROOF
  <1> DEFINE text(n) == Stored!ReadDecimal(n)
  <1>1. \A n \in Int : Stored!MakeEntry("decimal", text(n)) = Stored!Entry("decimal", n)
    <2> TAKE n \in Int
    <2>1. CASE n % 2 = 0
      <3>1. text(n) = <<"text", <<"digits", n \div 2>>>> /\ 2 * (n \div 2) = n
        BY <2>1 DEF Stored!ReadDecimal
      <3> QED BY <3>1, DecimalKind DEF Stored!MakeDecimal, Stored!Spells
    <2>2. CASE n % 2 # 0
      <3>1. text(n) = <<"text", <<"halves", n>>>>
        BY <2>2 DEF Stored!ReadDecimal
      <3> QED BY <3>1, DecimalKind DEF Stored!MakeDecimal, Stored!Spells
    <2> QED BY <2>1, <2>2
  <1>2. \A n : Stored!ReadEntry(Stored!Entry("decimal", n)) = <<"value", text(n), "decimal">>
    BY DecimalKind
  <1>3. CASE t[1] \in {"int", "float"}
    <2>1. PICK k : k = Stored!Kept(t, Stored!Number)
      OBVIOUS
    <2>2. k \in Int
      BY <1>3, <2>1, TermForms DEF Stored!Kept, Stored!Number
    <2>3. Stored!MakeEntry("decimal", t) = Stored!Entry("decimal", k)
      BY <1>3, <2>1, DecimalKind DEF Stored!MakeDecimal, Stored!Spells
    <2>4. ~IsOfType("decimal", t)
      BY <1>3, DecimalKind
    <2> QED BY <1>1, <1>2, <2>2, <2>3, <2>4, Restored
  <1>4. CASE t[1] \notin {"int", "float"} /\ Stored!Spells(t, "digits")
    <2>1. PICK n \in Int : t[2] = <<"digits", n>> /\ n = t[2][2]
      BY <1>4, SpelledForms
    <2>2. Stored!MakeEntry("decimal", t) = Stored!Entry("decimal", 2 * n)
      BY <1>4, <2>1, DecimalKind DEF Stored!MakeDecimal, Stored!Spells
    <2>3. text(2 * n) = <<"text", <<"digits", n>>>>
      <3>1. (2 * n) % 2 = 0 /\ (2 * n) \div 2 = n
        OBVIOUS
      <3> QED BY <3>1 DEF Stored!ReadDecimal
    <2>4. IsOfType("decimal", t) => text(2 * n) = t
      BY <2>1, <2>3, TermForms, DecimalKind
    <2> HIDE DEF text
    <2> QED BY <1>1, <1>2, <2>2, <2>4, Restored
  <1>5. CASE t[1] \notin {"int", "float"} /\ ~Stored!Spells(t, "digits") /\ Stored!Spells(t, "halves")
    <2>1. PICK n \in Int : t[2] = <<"halves", n>> /\ n = t[2][2] /\ n % 2 = 1
      BY <1>5, SpelledForms
    <2>2. Stored!MakeEntry("decimal", t) = Stored!Entry("decimal", n)
      BY <1>5, <2>1, DecimalKind DEF Stored!MakeDecimal
    <2>3. text(n) = <<"text", <<"halves", n>>>>
      BY <2>1 DEF Stored!ReadDecimal
    <2>4. IsOfType("decimal", t) => text(n) = t
      BY <2>1, <2>3, TermForms, DecimalKind
    <2> HIDE DEF text
    <2> QED BY <1>1, <1>2, <2>2, <2>4, Restored
  <1>6. CASE t[1] \notin {"int", "float"} /\ ~Stored!Spells(t, "digits") /\ ~Stored!Spells(t, "halves")
    BY <1>6, DecimalKind, Refused DEF Stored!MakeDecimal
  <1> QED BY <1>3, <1>4, <1>5, <1>6

\* Bytes come back in lower case
LEMMA BytesComeBack ==
  ASSUME NEW Terms, NEW Letters, AreTerms(Terms, Letters), NEW t \in Terms,
         NEW type \in {"hexBinary", "base64Binary"}
  PROVE  StoredWell(type, t)
PROOF
  <1>1. \A b : Stored!MakeEntry(type, Stored!ReadBytes(type, b)) = Stored!Entry(type, b)
    BY BytesKind DEF Stored!MakeBytes, Stored!ReadBytes, Stored!Spells
  <1>2. \A b : Stored!ReadEntry(Stored!Entry(type, b)) = <<"value", Stored!ReadBytes(type, b), type>>
    BY BytesKind
  <1>3. CASE t[1] = "text" /\ Stored!Spells(t, "bytes")
    <2>1. Stored!MakeEntry(type, t) = Stored!Entry(type, t[2][2])
      BY <1>3, BytesKind DEF Stored!MakeBytes
    <2>2. t[2] = <<"bytes", t[2][2], t[2][3]>> /\ t = <<"text", t[2]>>
      BY <1>3, SpelledForms, TermForms
    <2>3. IsOfType(type, t) => Stored!ReadBytes(type, t[2][2]) = t
      BY <2>2, BytesKind DEF Stored!ReadBytes
    <2> QED BY <1>1, <1>2, <2>1, <2>3, Restored
  <1>4. CASE ~(t[1] = "text" /\ Stored!Spells(t, "bytes"))
    BY <1>4, BytesKind, Refused DEF Stored!MakeBytes
  <1> QED BY <1>3, <1>4

-------------------------------------------------------------------------------
(* Dates and durations come back, part by part *)

AreFields(F, n) == n \in Nat /\ DOMAIN F = 1..n /\ \A i \in 1..n : F[i] \in Fields
AreReadable(args, F, n) ==
  Len(args) >= n /\ \A i \in 1..n : Stored!Readable(args[i], F[i])
KeptParts(args, F, n) == [i \in 1..n |-> Stored!Kept(args[i], F[i])]
ReadParts(d, F, n) ==
  [i \in 1..n |-> IF F[i] = Stored!Number THEN Stored!ReadFloat(d[i]) ELSE Stored!Whole(d[i])]

\* What was kept of the parts of a term is read and kept again
LEMMA PartsKeptAgain ==
  ASSUME NEW Terms, NEW Letters, AreTerms(Terms, Letters), NEW args \in Seq(Terms), NEW n, NEW F,
         AreFields(F, n), AreReadable(args, F, n),
         \A i \in 1..n : F[i] = Stored!Offset => KeptParts(args, F, n)[i] >= 0
  PROVE  LET d == KeptParts(args, F, n)
             again == ReadParts(d, F, n)
         IN /\ Len(again) = n /\ AreReadable(again, F, n)
            /\ KeptParts(again, F, n) = d
PROOF
  <1> DEFINE d == KeptParts(args, F, n)
             again == ReadParts(d, F, n)
  <1>1. n \in Nat /\ \A i \in 1..n : F[i] \in Fields /\ args[i] \in Terms
    BY DEF AreFields, AreReadable
  <1>2. Len(again) = n
    BY <1>1 DEF ReadParts
  <1>3. ASSUME NEW i \in 1..n
        PROVE  Stored!Readable(again[i], F[i]) /\ Stored!Kept(again[i], F[i]) = d[i]
    <2>1. Stored!Readable(args[i], F[i])
      BY DEF AreReadable
    <2>2. args[i][1] \in {"int", "float"}
      BY <1>1, <2>1 DEF Stored!Readable, Fields, Stored!Unsigned, Stored!Signed, Stored!Offset,
                        Stored!Small, Stored!Cut, Stored!Number
    <2>3. args[i][2] \in Int
      BY <1>1, <2>2, TermForms
    <2>4. d[i] = Stored!Kept(args[i], F[i])
      BY DEF KeptParts
    <2>5. again[i] = IF F[i] = Stored!Number THEN Stored!ReadFloat(d[i]) ELSE Stored!Whole(d[i])
      BY DEF ReadParts
    <2>6. F[i] = Stored!Offset => d[i] >= 0
      OBVIOUS
    <2> HIDE DEF d, again
    <2> QED BY <1>1, <2>1, <2>3, <2>4, <2>5, <2>6, KeptAgain
  <1>4. AreReadable(again, F, n)
    BY <1>1, <1>2, <1>3 DEF AreReadable
  <1>5. KeptParts(again, F, n) = d
    BY <1>3 DEF KeptParts
  <1> QED BY <1>2, <1>4, <1>5

Fitting(parts, F, n) ==
  \A i \in 1..n : F[i] # Stored!Number =>
    \A x \in parts[i] : Stored!Readable(<<"int", x>>, F[i]) /\ Stored!Kept(<<"int", x>>, F[i]) = x
HavePart(args, parts, F, n) ==
  /\ Len(args) = n
  /\ \A i \in 1..n : IF F[i] = Stored!Number THEN args[i][1] = "float"
                     ELSE args[i][1] = "int" /\ args[i][2] \in parts[i]

\* The parts that fit their fields are read as they are
LEMMA PartsComeBack ==
  ASSUME NEW Terms, NEW Letters, AreTerms(Terms, Letters), NEW args \in Seq(Terms), NEW n, NEW F, NEW parts,
         AreFields(F, n), Fitting(parts, F, n), HavePart(args, parts, F, n)
  PROVE  /\ AreReadable(args, F, n)
         /\ \A i \in 1..n : KeptParts(args, F, n)[i] = args[i][2]
         /\ ReadParts(KeptParts(args, F, n), F, n) = args
PROOF
  <1>1. n \in Nat /\ Len(args) = n /\ \A i \in 1..n : args[i] \in Terms
    BY DEF AreFields, HavePart
  <1>2. ASSUME NEW i \in 1..n
        PROVE  /\ Stored!Readable(args[i], F[i]) /\ Stored!Kept(args[i], F[i]) = args[i][2]
               /\ args[i] = IF F[i] = Stored!Number THEN Stored!ReadFloat(args[i][2]) ELSE Stored!Whole(args[i][2])
    <2>1. CASE F[i] = Stored!Number
      <3>1. args[i][1] = "float"
        BY <2>1 DEF HavePart
      <3>2. args[i] = <<"float", args[i][2]>>
        BY <1>1, <3>1, TermForms
      <3> QED BY <2>1, <3>1, <3>2 DEF Stored!Readable, Stored!Kept, Stored!Number, Stored!ReadFloat
    <2>2. CASE F[i] # Stored!Number
      <3>1. args[i][1] = "int" /\ args[i][2] \in parts[i]
        BY <2>2 DEF HavePart
      <3>2. args[i] = <<"int", args[i][2]>>
        BY <1>1, <3>1, TermForms
      <3>3. Stored!Readable(<<"int", args[i][2]>>, F[i]) /\ Stored!Kept(<<"int", args[i][2]>>, F[i]) = args[i][2]
        BY <2>2, <3>1 DEF Fitting
      <3> QED BY <2>2, <3>2, <3>3 DEF Stored!Whole
    <2> QED BY <2>1, <2>2
  <1>3. AreReadable(args, F, n)
    BY <1>1, <1>2 DEF AreReadable
  <1>4. \A i \in 1..n : KeptParts(args, F, n)[i] = args[i][2]
    BY <1>2 DEF KeptParts
  <1>5. ReadParts(KeptParts(args, F, n), F, n) = args
    <2>1. \A i \in 1..n : ReadParts(KeptParts(args, F, n), F, n)[i] = args[i]
      BY <1>2, <1>4 DEF ReadParts
    <2>2. args = [i \in 1..n |-> args[i]]
      BY <1>1
    <2> QED BY <2>1, <2>2 DEF ReadParts
  <1> QED BY <1>3, <1>4, <1>5

\* Reading the parts of a type
LEMMA ReadFieldsForm ==
  ASSUME NEW type, NEW n, NEW F, NEW args,
         \A i \in 1..n : F[i] = Stored!Number <=> (type \in Stored!DurationTypes /\ i = 7)
  PROVE  Stored!ReadFields(type, KeptParts(args, F, n)) =
           <<"compound", Stored!FunctorOf(type), ReadParts(KeptParts(args, F, n), F, n)>>
PROOF
  <1>1. DOMAIN KeptParts(args, F, n) = 1..n
    BY DEF KeptParts
  <1>2. Stored!ReadFields(type, KeptParts(args, F, n)) =
          <<"compound", Stored!FunctorOf(type),
            [i \in 1..n |-> IF type \in Stored!DurationTypes /\ i = 7 THEN Stored!ReadFloat(KeptParts(args, F, n)[i])
                            ELSE Stored!Whole(KeptParts(args, F, n)[i])]>>
    BY <1>1 DEF Stored!ReadFields, Stored!Compound
  <1>3. ReadParts(KeptParts(args, F, n), F, n) =
          [i \in 1..n |-> IF type \in Stored!DurationTypes /\ i = 7 THEN Stored!ReadFloat(KeptParts(args, F, n)[i])
                          ELSE Stored!Whole(KeptParts(args, F, n)[i])]
    BY DEF ReadParts
  <1> QED BY <1>2, <1>3

\* The fields of dates and of durations
PlainField(f) == f \in Fields /\ f # Stored!Number /\ f # Stored!Offset

\* The fields that the parts of dates, moments and durations are kept in
LEMMA FieldFacts ==
  /\ PlainField(Stored!Unsigned(8)) /\ PlainField(Stored!Signed(8)) /\ PlainField(Stored!Signed(16))
  /\ PlainField(Stored!Signed(64)) /\ PlainField(Stored!Small) /\ PlainField(Stored!Cut(32))
  /\ PlainField(<<"i64", "i", 32>>) /\ PlainField(<<"u64", "u", 32>>)
  /\ Stored!Offset \in Fields /\ Stored!Number \in Fields /\ Stored!Offset # Stored!Number
PROOF
  <1>1. \A w \in Bits : Stored!Unsigned(w) \in Fields /\ Stored!Signed(w) \in Fields
    BY DEF Fields
  <1>2. {Stored!Offset, Stored!Small, Stored!Cut(32), <<"i64", "i", 32>>, <<"u64", "u", 32>>, Stored!Number} \subseteq Fields
    BY DEF Fields
  <1>3. \A w : {Stored!Unsigned(w), Stored!Signed(w)} \cap {Stored!Number, Stored!Offset} = {}
    BY DEF Stored!Unsigned, Stored!Signed, Stored!Offset, Stored!Number
  <1>4. /\ {Stored!Small, Stored!Cut(32), <<"i64", "i", 32>>, <<"u64", "u", 32>>} \cap {Stored!Number, Stored!Offset} = {}
        /\ Stored!Offset # Stored!Number
    BY DEF Stored!Small, Stored!Cut, Stored!Offset, Stored!Number
  <1>5. 8 \in Bits /\ 16 \in Bits /\ 64 \in Bits
    BY BitsFacts
  <1> QED BY <1>1, <1>2, <1>3, <1>4, <1>5 DEF PlainField

FieldTypes == DOMAIN Stored!GregorianFields \union Stored!DurationTypes \union {"date"}

\* The fields of each type that is kept by its parts
LEMMA FieldTypeForms ==
  ASSUME NEW type \in FieldTypes
  PROVE  LET F == Stored!FieldsOf(type)
         IN \/ type = "gYear" /\ F = <<Stored!Signed(64), Stored!Offset>>
            \/ type \in {"gMonth", "gDay"} /\ F = <<Stored!Unsigned(8), Stored!Offset>>
            \/ type = "gYearMonth" /\ F = <<Stored!Signed(64), Stored!Unsigned(8), Stored!Offset>>
            \/ type = "gMonthDay" /\ F = <<Stored!Unsigned(8), Stored!Unsigned(8), Stored!Offset>>
            \/ type \in Stored!DurationTypes /\ F = Stored!DurationFields
            \/ type = "date" /\ F = Stored!DateFields
PROOF BY DEF FieldTypes, Stored!FieldsOf, Stored!GregorianFields, Stored!DurationTypes

\* Two fields are fields
LEMMA FieldsOfTwo ==
  ASSUME NEW a \in Fields, NEW b \in Fields
  PROVE  AreFields(<<a, b>>, 2)
PROOF BY DEF AreFields

\* And of three
LEMMA FieldsOfThree ==
  ASSUME NEW a \in Fields, NEW b \in Fields, NEW c \in Fields
  PROVE  AreFields(<<a, b, c>>, 3)
PROOF BY DEF AreFields

\* Only the seconds of a duration are read as a float, and only the last part of a Gregorian type is an offset
LEMMA FieldsShape ==
  ASSUME NEW type \in FieldTypes
  PROVE  LET F == Stored!FieldsOf(type)
             n == Len(F)
         IN /\ AreFields(F, n)
            /\ \A i \in 1..n : F[i] = Stored!Number <=> (type \in Stored!DurationTypes /\ i = 7)
            /\ \A i \in 1..n : F[i] = Stored!Offset <=> (type \in DOMAIN Stored!GregorianFields /\ i = n)
PROOF
  <1> DEFINE F == Stored!FieldsOf(type)
             n == Len(F)
             L == Stored!Signed(64)
             U == Stored!Unsigned(8)
             O == Stored!Offset
  <1>0. /\ type \in DOMAIN Stored!GregorianFields <=> type \in {"gYear", "gMonth", "gDay", "gYearMonth", "gMonthDay"}
        /\ type \in Stored!DurationTypes <=> type \in {"duration", "yearMonthDuration", "dayTimeDuration"}
    BY DEF Stored!DurationTypes, Stored!GregorianFields
  <1>1. CASE type = "gYear" /\ F = <<L, O>>
    <2>1. n = 2 /\ F[1] = L /\ F[2] = O
      BY <1>1
    <2>2. AreFields(F, 2)
      BY <1>1, FieldsOfTwo, FieldFacts DEF PlainField
    <2>3. \A i \in 1..2 : i = 1 \/ i = 2
      OBVIOUS
    <2>4. type \notin Stored!DurationTypes /\ type \in DOMAIN Stored!GregorianFields
      BY <1>0, <1>1
    <2> HIDE DEF F, n, L, U, O
    <2>5. /\ \A i \in 1..n : F[i] # Stored!Number
          /\ \A i \in 1..n : F[i] = Stored!Offset <=> i = n
      BY <2>1, <2>3, FieldFacts DEF PlainField, L, U, O
    <2> QED BY <2>1, <2>2, <2>4, <2>5 DEF F, n
  <1>2. CASE type \in {"gMonth", "gDay"} /\ F = <<U, O>>
    <2>1. n = 2 /\ F[1] = U /\ F[2] = O
      BY <1>2
    <2>2. AreFields(F, 2)
      BY <1>2, FieldsOfTwo, FieldFacts DEF PlainField
    <2>3. \A i \in 1..2 : i = 1 \/ i = 2
      OBVIOUS
    <2>4. type \notin Stored!DurationTypes /\ type \in DOMAIN Stored!GregorianFields
      BY <1>0, <1>2
    <2> HIDE DEF F, n, L, U, O
    <2>5. /\ \A i \in 1..n : F[i] # Stored!Number
          /\ \A i \in 1..n : F[i] = Stored!Offset <=> i = n
      BY <2>1, <2>3, FieldFacts DEF PlainField, L, U, O
    <2> QED BY <2>1, <2>2, <2>4, <2>5 DEF F, n
  <1>3. CASE type = "gYearMonth" /\ F = <<L, U, O>>
    <2>1. n = 3 /\ F[1] = L /\ F[2] = U /\ F[3] = O
      BY <1>3
    <2>2. AreFields(F, 3)
      BY <1>3, FieldsOfThree, FieldFacts DEF PlainField
    <2>3. \A i \in 1..3 : i = 1 \/ i = 2 \/ i = 3
      OBVIOUS
    <2>4. type \notin Stored!DurationTypes /\ type \in DOMAIN Stored!GregorianFields
      BY <1>0, <1>3
    <2> HIDE DEF F, n, L, U, O
    <2>5. /\ \A i \in 1..n : F[i] # Stored!Number
          /\ \A i \in 1..n : F[i] = Stored!Offset <=> i = n
      BY <2>1, <2>3, FieldFacts DEF PlainField, L, U, O
    <2> QED BY <2>1, <2>2, <2>4, <2>5 DEF F, n
  <1>4. CASE type = "gMonthDay" /\ F = <<U, U, O>>
    <2>1. n = 3 /\ F[1] = U /\ F[2] = U /\ F[3] = O
      BY <1>4
    <2>2. AreFields(F, 3)
      BY <1>4, FieldsOfThree, FieldFacts DEF PlainField
    <2>3. \A i \in 1..3 : i = 1 \/ i = 2 \/ i = 3
      OBVIOUS
    <2>4. type \notin Stored!DurationTypes /\ type \in DOMAIN Stored!GregorianFields
      BY <1>0, <1>4
    <2> HIDE DEF F, n, L, U, O
    <2>5. /\ \A i \in 1..n : F[i] # Stored!Number
          /\ \A i \in 1..n : F[i] = Stored!Offset <=> i = n
      BY <2>1, <2>3, FieldFacts DEF PlainField, L, U, O
    <2> QED BY <2>1, <2>2, <2>4, <2>5 DEF F, n
  <1>5. CASE type \in Stored!DurationTypes /\ F = Stored!DurationFields
    BY <1>0, <1>5, FieldFacts DEF Stored!DurationFields, AreFields, PlainField
  <1>6. CASE type = "date" /\ F = Stored!DateFields
    <2>1. n = 4 /\ F[1] = L /\ F[2] = Stored!Small /\ F[3] = Stored!Small /\ F[4] = Stored!Signed(16) /\ DOMAIN F = 1..4
      BY <1>6 DEF Stored!DateFields
    <2>2. AreFields(F, 4)
      BY <2>1, FieldFacts DEF AreFields, PlainField
    <2>3. \A i \in 1..4 : i = 1 \/ i = 2 \/ i = 3 \/ i = 4
      OBVIOUS
    <2>4. type \notin Stored!DurationTypes /\ type \notin DOMAIN Stored!GregorianFields
      BY <1>0, <1>6
    <2> HIDE DEF F, n, L, U, O
    <2>5. /\ \A i \in 1..n : F[i] # Stored!Number
          /\ \A i \in 1..n : F[i] # Stored!Offset
      BY <2>1, <2>3, FieldFacts DEF PlainField, L, U, O
    <2> QED BY <2>1, <2>2, <2>4, <2>5 DEF F, n
  <1> QED BY <1>1, <1>2, <1>3, <1>4, <1>5, <1>6, FieldTypeForms

\* A number that a field reads and keeps as it is
Fits(x, f) == Stored!Readable(<<"int", x>>, f) /\ Stored!Kept(<<"int", x>>, f) = x
AllFit(numbers, f) == \A x \in numbers : Fits(x, f)

\* The numbers of dates and durations fit their fields
LEMMA NumbersFit ==
  /\ AllFit(SignedRange(64), Stored!Signed(64)) /\ AllFit(UnsignedRange(8), Stored!Small)
  /\ AllFit(1..12, Stored!Unsigned(8)) /\ AllFit(1..12, Stored!Small)
  /\ AllFit(1..31, Stored!Unsigned(8)) /\ AllFit(1..31, Stored!Small)
  /\ AllFit(Minutes, Stored!Offset) /\ AllFit(SignedMinutes, Stored!Signed(16)) /\ AllFit({-1, 1}, Stored!Signed(8))
PROOF
  <1>1. \A w \in Bits : \A x \in SignedRange(w) : Fits(x, Stored!Signed(w))
    <2> TAKE w \in Bits
    <2> TAKE x \in SignedRange(w)
    <2>1. x \in Int
      BY NumberFacts DEF SignedRange
    <2> QED BY <2>1, KeptWhole DEF Fits
  <1>2. \A x \in UnsignedRange(8) : Fits(x, Stored!Unsigned(8)) /\ Fits(x, Stored!Small)
    <2> TAKE x \in UnsignedRange(8)
    <2>1. x \in Int /\ 8 \in Bits /\ 8 \in Narrow
      BY NumberFacts, BitsFacts DEF UnsignedRange
    <2> QED BY <2>1, KeptWhole DEF Fits, Stored!Small
  <1>3. 1..12 \subseteq UnsignedRange(8) /\ 1..31 \subseteq UnsignedRange(8)
    BY NumberFacts DEF UnsignedRange
  <1>4. \A x \in Minutes : Fits(x, Stored!Offset)
    <2> TAKE x \in Minutes
    <2>1. x \in Int /\ x \in 0..840
      BY DEF Minutes
    <2> QED BY <2>1, KeptWhole DEF Fits
  <1>5. (-840)..840 \subseteq SignedRange(16) /\ {-1, 1} \subseteq SignedRange(8)
    <2> DEFINE h == Half[16]
               b == Half[8]
    <2>1. h \in Nat /\ h > 840 /\ b \in Nat /\ b > 31
      BY NumberFacts
    <2> HIDE DEF h, b
    <2>2. (-840)..840 \subseteq (-h)..(h - 1) /\ {-1, 1} \subseteq (-b)..(b - 1)
      BY <2>1
    <2> QED BY <2>2 DEF SignedRange, h, b
  <1>6. /\ \A x \in SignedRange(64) : Fits(x, Stored!Signed(64))
        /\ \A x \in SignedRange(16) : Fits(x, Stored!Signed(16))
        /\ \A x \in SignedRange(8) : Fits(x, Stored!Signed(8))
    <2>1. 8 \in Bits /\ 16 \in Bits /\ 64 \in Bits
      BY BitsFacts
    <2> QED BY <1>1, <2>1
  <1> QED BY <1>2, <1>3, <1>4, <1>5, <1>6 DEF AllFit, SignedMinutes

\* The ranges of the parts fit the fields
LEMMA FittingParts ==
  ASSUME NEW parts, NEW F, NEW n, \A i \in 1..n : F[i] # Stored!Number => AllFit(parts[i], F[i])
  PROVE  Fitting(parts, F, n)
PROOF BY DEF Fitting, AllFit, Fits

\* The values of a type, as it is read, fit its fields
LEMMA PartsFit ==
  ASSUME NEW type \in FieldTypes
  PROVE  LET F == Stored!FieldsOf(type)
             n == Len(F)
         IN IF type \in Stored!DurationTypes THEN Fitting(SpanParts, F, n)
            ELSE Fitting(PartsOf[type], F, n) /\ Len(PartsOf[type]) = n /\ DOMAIN PartsOf[type] = 1..n
PROOF
  <1> DEFINE F == Stored!FieldsOf(type)
             n == Len(F)
             parts == PartsOf[type]
  <1>1. CASE type = "gYear" /\ F = <<Stored!Signed(64), Stored!Offset>>
    <2>1. n = 2 /\ F[1] = Stored!Signed(64) /\ F[2] = Stored!Offset
      BY <1>1
    <2>2. Len(parts) = 2 /\ DOMAIN parts = 1..2 /\ parts[1] = SignedRange(64) /\ parts[2] = Minutes
      BY <1>1 DEF PartsOf
    <2>3. Fitting(parts, F, n)
      <3>1. \A i \in 1..2 : i = 1 \/ i = 2
        OBVIOUS
      <3> HIDE DEF F, n, parts
      <3>2. \A i \in 1..n : AllFit(parts[i], F[i])
        BY <2>1, <2>2, <3>1, NumbersFit
      <3> QED BY <3>2, FittingParts
    <2>4. type \notin Stored!DurationTypes
      BY <1>1 DEF Stored!DurationTypes
    <2> QED BY <2>1, <2>2, <2>3, <2>4
  <1>2. CASE type = "gMonth" /\ F = <<Stored!Unsigned(8), Stored!Offset>>
    <2>1. n = 2 /\ F[1] = Stored!Unsigned(8) /\ F[2] = Stored!Offset
      BY <1>2
    <2>2. Len(parts) = 2 /\ DOMAIN parts = 1..2 /\ parts[1] = 1..12 /\ parts[2] = Minutes
      BY <1>2 DEF PartsOf
    <2>3. Fitting(parts, F, n)
      <3>1. \A i \in 1..2 : i = 1 \/ i = 2
        OBVIOUS
      <3> HIDE DEF F, n, parts
      <3>2. \A i \in 1..n : AllFit(parts[i], F[i])
        BY <2>1, <2>2, <3>1, NumbersFit
      <3> QED BY <3>2, FittingParts
    <2>4. type \notin Stored!DurationTypes
      BY <1>2 DEF Stored!DurationTypes
    <2> QED BY <2>1, <2>2, <2>3, <2>4
  <1>3. CASE type = "gDay" /\ F = <<Stored!Unsigned(8), Stored!Offset>>
    <2>1. n = 2 /\ F[1] = Stored!Unsigned(8) /\ F[2] = Stored!Offset
      BY <1>3
    <2>2. Len(parts) = 2 /\ DOMAIN parts = 1..2 /\ parts[1] = 1..31 /\ parts[2] = Minutes
      BY <1>3 DEF PartsOf
    <2>3. Fitting(parts, F, n)
      <3>1. \A i \in 1..2 : i = 1 \/ i = 2
        OBVIOUS
      <3> HIDE DEF F, n, parts
      <3>2. \A i \in 1..n : AllFit(parts[i], F[i])
        BY <2>1, <2>2, <3>1, NumbersFit
      <3> QED BY <3>2, FittingParts
    <2>4. type \notin Stored!DurationTypes
      BY <1>3 DEF Stored!DurationTypes
    <2> QED BY <2>1, <2>2, <2>3, <2>4
  <1>4. CASE type = "gYearMonth" /\ F = <<Stored!Signed(64), Stored!Unsigned(8), Stored!Offset>>
    <2>1. n = 3 /\ F[1] = Stored!Signed(64) /\ F[2] = Stored!Unsigned(8) /\ F[3] = Stored!Offset
      BY <1>4
    <2>2. Len(parts) = 3 /\ DOMAIN parts = 1..3 /\ parts[1] = SignedRange(64) /\ parts[2] = 1..12 /\ parts[3] = Minutes
      BY <1>4 DEF PartsOf
    <2>3. Fitting(parts, F, n)
      <3>1. \A i \in 1..3 : i = 1 \/ i = 2 \/ i = 3
        OBVIOUS
      <3> HIDE DEF F, n, parts
      <3>2. \A i \in 1..n : AllFit(parts[i], F[i])
        BY <2>1, <2>2, <3>1, NumbersFit
      <3> QED BY <3>2, FittingParts
    <2>4. type \notin Stored!DurationTypes
      BY <1>4 DEF Stored!DurationTypes
    <2> QED BY <2>1, <2>2, <2>3, <2>4
  <1>5. CASE type = "gMonthDay" /\ F = <<Stored!Unsigned(8), Stored!Unsigned(8), Stored!Offset>>
    <2>1. n = 3 /\ F[1] = Stored!Unsigned(8) /\ F[2] = Stored!Unsigned(8) /\ F[3] = Stored!Offset
      BY <1>5
    <2>2. Len(parts) = 3 /\ DOMAIN parts = 1..3 /\ parts[1] = 1..12 /\ parts[2] = 1..31 /\ parts[3] = Minutes
      BY <1>5 DEF PartsOf
    <2>3. Fitting(parts, F, n)
      <3>1. \A i \in 1..3 : i = 1 \/ i = 2 \/ i = 3
        OBVIOUS
      <3> HIDE DEF F, n, parts
      <3>2. \A i \in 1..n : AllFit(parts[i], F[i])
        BY <2>1, <2>2, <3>1, NumbersFit
      <3> QED BY <3>2, FittingParts
    <2>4. type \notin Stored!DurationTypes
      BY <1>5 DEF Stored!DurationTypes
    <2> QED BY <2>1, <2>2, <2>3, <2>4
  <1>6. CASE type = "date" /\ F = Stored!DateFields
    <2>1. n = 4 /\ F[1] = Stored!Signed(64) /\ F[2] = Stored!Small /\ F[3] = Stored!Small /\ F[4] = Stored!Signed(16)
      BY <1>6 DEF Stored!DateFields
    <2>2. Len(parts) = 4 /\ DOMAIN parts = 1..4 /\ parts[1] = SignedRange(64) /\ parts[2] = 1..12 /\ parts[3] = 1..31 /\ parts[4] = SignedMinutes
      BY <1>6 DEF PartsOf
    <2>3. Fitting(parts, F, n)
      <3>1. \A i \in 1..4 : i = 1 \/ i = 2 \/ i = 3 \/ i = 4
        OBVIOUS
      <3> HIDE DEF F, n, parts
      <3>2. \A i \in 1..n : AllFit(parts[i], F[i])
        BY <2>1, <2>2, <3>1, NumbersFit
      <3> QED BY <3>2, FittingParts
    <2>4. type \notin Stored!DurationTypes
      BY <1>6 DEF Stored!DurationTypes
    <2> QED BY <2>1, <2>2, <2>3, <2>4
  <1>7. CASE type \in Stored!DurationTypes /\ F = Stored!DurationFields
    <2>1. /\ n = 7 /\ F[1] = Stored!Signed(8) /\ F[2] = Stored!Signed(64) /\ F[7] = Stored!Number
          /\ \A i \in 3..6 : F[i] = Stored!Small
      BY <1>7 DEF Stored!DurationFields
    <2>2. SpanParts[1] = {-1, 1} /\ SpanParts[2] = SignedRange(64) /\ \A i \in 3..6 : SpanParts[i] = UnsignedRange(8)
      BY DEF SpanParts
    <2>3. \A i \in 1..7 : i = 1 \/ i = 2 \/ i = 7 \/ i \in 3..6
      OBVIOUS
    <2>4. Fitting(SpanParts, F, n)
      <3> HIDE DEF F, n
      <3>1. \A i \in 1..n : F[i] # Stored!Number => AllFit(SpanParts[i], F[i])
        BY <2>1, <2>2, <2>3, NumbersFit
      <3> QED BY <3>1, FittingParts
    <2> QED BY <1>7, <2>4
  <1> QED BY <1>1, <1>2, <1>3, <1>4, <1>5, <1>6, <1>7, FieldTypeForms

\* A type that is kept by its parts is made and read by them
LEMMA FieldKind ==
  ASSUME NEW type \in FieldTypes, NEW t
  PROVE  /\ Stored!MakeEntry(type, t) = Stored!MakeFields(type, t)
         /\ \A d : Stored!ReadEntry(Stored!Entry(type, d)) = <<"value", Stored!ReadFields(type, d), type>>
         /\ IsOfType(type, t) <=> IF type \in Stored!DurationTypes THEN IsSpan(t) /\ t[3][7][1] = "float"
                                  ELSE /\ IsMade(t, Stored!FunctorOf(type), Len(PartsOf[type]))
                                       /\ HasParts(t, PartsOf[type])
PROOF
  <1>1. CASE type = "date"
    BY <1>1, DateKind DEF Stored!DurationTypes
  <1>2. CASE type \in Stored!DurationTypes
    BY <1>2, DurationKind
  <1>3. CASE type \in DOMAIN Stored!GregorianFields
    <2>1. type \notin Stored!DurationTypes
      BY <1>3 DEF Stored!DurationTypes, Stored!GregorianFields
    <2> QED BY <1>3, <2>1, GregorianKind
  <1> QED BY <1>1, <1>2, <1>3 DEF FieldTypes

\* Years, months and days, dates and durations come back; an offset below zero has wrapped
LEMMA FieldsComeBack ==
  ASSUME NEW Terms, NEW Letters, AreTerms(Terms, Letters), NEW t \in Terms, NEW type \in FieldTypes
  PROVE  StoredWell(type, t)
PROOF
  <1> DEFINE F == Stored!FieldsOf(type)
             n == Len(F)
             args == t[3]
             d == KeptParts(args, F, n)
             again == ReadParts(d, F, n)
             r == <<"compound", Stored!FunctorOf(type), again>>
  <1>1. AreFields(F, n) /\ n \in Nat /\ DOMAIN F = 1..n
    BY FieldsShape DEF AreFields
  <1>2. \A x : Stored!MakeFields(type, x) =
                 IF x[1] = "compound" /\ AreReadable(x[3], F, n) THEN Stored!Entry(type, KeptParts(x[3], F, n))
                 ELSE Stored!Error
    BY <1>1 DEF Stored!MakeFields, AreReadable, KeptParts
  <1>5. ASSUME IsOfType(type, t)
        PROVE  /\ t[1] = "compound" /\ t[2] = Stored!FunctorOf(type)
               /\ AreReadable(args, F, n) /\ again = args
    <2> DEFINE parts == IF type \in Stored!DurationTypes THEN SpanParts ELSE PartsOf[type]
    <2>1. Fitting(parts, F, n)
      BY PartsFit
    <2>2. t[2] = Stored!FunctorOf(type)
      <3>1. CASE type \in Stored!DurationTypes
        <4>1. Stored!FunctorOf(type) = "duration"
          BY <3>1 DEF Stored!FunctorOf, Stored!DurationTypes
        <4> QED BY <1>5, <3>1, <4>1, FieldKind DEF IsSpan, IsMade
      <3>2. CASE type \notin Stored!DurationTypes
        BY <1>5, <3>2, FieldKind DEF IsMade
      <3> QED BY <3>1, <3>2
    <2>3. HavePart(args, parts, F, n)
      <3>1. CASE type \in Stored!DurationTypes
        <4>1. n = 7
          BY <3>1 DEF Stored!FieldsOf, Stored!GregorianFields, Stored!DurationTypes, Stored!DurationFields
        <4>2. DOMAIN SpanParts = 1..6
          BY DEF SpanParts
        <4>3. Len(args) = 7 /\ args[7][1] = "float"
              /\ \A i \in 1..6 : args[i][1] = "int" /\ args[i][2] \in SpanParts[i]
          BY <1>5, <3>1, <4>2, FieldKind DEF IsSpan, IsMade, HasParts
        <4>4. \A i \in 1..n : F[i] = Stored!Number <=> i = 7
          BY <3>1, FieldsShape
        <4> HIDE DEF F, args, n
        <4> QED BY <3>1, <4>1, <4>3, <4>4 DEF HavePart
      <3>2. CASE type \notin Stored!DurationTypes
        <4>1. Len(args) = n /\ \A i \in 1..n : args[i][1] = "int" /\ args[i][2] \in PartsOf[type][i]
          BY <1>5, <3>2, FieldKind, PartsFit DEF IsMade, HasParts
        <4>2. \A i \in 1..n : F[i] # Stored!Number
          BY <3>2, FieldsShape
        <4> HIDE DEF F, args, n
        <4> QED BY <3>2, <4>1, <4>2 DEF HavePart
      <3> QED BY <3>1, <3>2
    <2>4. t[1] = "compound" /\ args \in Seq(Terms)
      <3>1. t[1] = "compound"
        BY <1>5, FieldKind DEF IsSpan, IsMade
      <3> QED BY <3>1, TermForms
    <2>5. AreReadable(args, F, n) /\ again = args
      <3> HIDE DEF F, args, n, parts
      <3> QED BY <1>1, <2>1, <2>3, <2>4, PartsComeBack
    <2> QED BY <2>2, <2>4, <2>5
  <1>3. CASE t[1] = "compound" /\ AreReadable(args, F, n)
    <2>1. args \in Seq(Terms) /\ t = <<"compound", t[2], args>>
      BY <1>3, TermForms
    <2>2. Stored!MakeEntry(type, t) = Stored!Entry(type, d)
      BY <1>2, <1>3, FieldKind
    <2>3. Stored!ReadEntry(Stored!Entry(type, d)) = <<"value", r, type>>
      BY FieldKind, FieldsShape, ReadFieldsForm
    <2>4. WrapsOffset(Stored!Entry(type, d)) \/ Stored!MakeEntry(type, r) = Stored!Entry(type, d)
      <3> SUFFICES ASSUME ~WrapsOffset(Stored!Entry(type, d))
                   PROVE  Stored!MakeEntry(type, r) = Stored!Entry(type, d)
        OBVIOUS
      <3>1. ASSUME NEW i \in 1..n, F[i] = Stored!Offset PROVE d[i] >= 0
        <4>1. type \in DOMAIN Stored!GregorianFields /\ i = n
          BY <3>1, FieldsShape
        <4>2. Len(d) = n
          BY <1>1 DEF KeptParts
        <4>3. ~(d[n] < 0)
          BY <4>1, <4>2 DEF WrapsOffset, Last, Stored!Entry
        <4>4. d[n] \in Int
          <5>1. args[i] \in Terms /\ Stored!Readable(args[i], F[i])
            BY <1>1, <1>3, <2>1 DEF AreReadable
          <5>2. args[i][1] = "int"
            BY <3>1, <5>1 DEF Stored!Readable, Stored!Offset
          <5>3. args[i][2] \in Int
            BY <5>1, <5>2, TermForms
          <5>4. d[n] = Stored!Kept(args[i], F[i])
            BY <4>1 DEF KeptParts
          <5>5. F[i] \in Fields
            BY <1>1 DEF AreFields
          <5> HIDE DEF d
          <5> QED BY <5>1, <5>3, <5>4, <5>5, KeptAgain
        <4> HIDE DEF d
        <4> QED BY <4>1, <4>3, <4>4
      <3>2. AreReadable(again, F, n) /\ KeptParts(again, F, n) = d
        <4> HIDE DEF F, n, args
        <4> QED BY <1>1, <1>3, <2>1, <3>1, PartsKeptAgain
      <3>3. r[1] = "compound" /\ r[3] = again
        OBVIOUS
      <3> HIDE DEF r, again, d
      <3> QED BY <1>2, <3>2, <3>3, FieldKind
    <2>5. IsOfType(type, t) => r = t
      BY <1>5, <2>1
    <2> HIDE DEF d, r
    <2> QED BY <2>2, <2>3, <2>4, <2>5, Restored
  <1>4. CASE ~(t[1] = "compound" /\ AreReadable(args, F, n))
    <2>1. Stored!MakeEntry(type, t) = Stored!Error
      BY <1>2, <1>4, FieldKind
    <2>2. ~IsOfType(type, t)
      BY <1>4, <1>5
    <2> QED BY <2>1, <2>2, Refused
  <1> QED BY <1>3, <1>4

-------------------------------------------------------------------------------
(* Moments and times come back, if the calendar has them *)

\* The parts of moments fit their fields
LEMMA MomentFits ==
  /\ AreFields(Stored!MomentFields, 7) /\ Fitting(MomentParts, Stored!MomentFields, 7)
  /\ \A i \in 1..7 : Stored!MomentFields[i] # Stored!Number /\ Stored!MomentFields[i] # Stored!Offset
PROOF
  <1> DEFINE F == Stored!MomentFields
             first == <<"i64", "i", 32>>
  <1>1. DOMAIN F = 1..7 /\ \A i \in 1..7 : F[i] = IF i = 1 THEN first ELSE Stored!Cut(32)
    BY DEF Stored!MomentFields
  <1>2. \A i \in 1..7 : MomentParts[i] = IF i = 1 THEN SignedRange(32) ELSE UnsignedRange(32)
    BY DEF MomentParts
  <1>3. 32 \in Bits /\ 32 \in Narrow
    BY BitsFacts
  <1>4. SignedRange(32) \subseteq Int /\ UnsignedRange(32) \subseteq Int
    BY NumberFacts DEF SignedRange, UnsignedRange
  <1>5. AllFit(SignedRange(32), Stored!Signed(32)) /\ AllFit(UnsignedRange(32), <<"i64", "u", 32>>)
    BY <1>3, <1>4, KeptWhole DEF AllFit, Fits
  <1>6. first = Stored!Signed(32) /\ Stored!Cut(32) = <<"i64", "u", 32>>
    BY DEF Stored!Signed, Stored!Cut
  <1>7. PlainField(first) /\ PlainField(Stored!Cut(32))
    BY FieldFacts
  <1> HIDE DEF F, first
  <1>8. \A i \in 1..7 : PlainField(F[i]) /\ AllFit(MomentParts[i], F[i])
    BY <1>1, <1>2, <1>5, <1>6, <1>7
  <1>9. AreFields(F, 7) /\ \A i \in 1..7 : F[i] # Stored!Number /\ F[i] # Stored!Offset
    BY <1>1, <1>8 DEF AreFields, PlainField
  <1> QED BY <1>8, <1>9, FittingParts DEF F

\* And those of times
LEMMA TimeFits ==
  /\ AreFields(Stored!TimeFields, 3) /\ Fitting(PartsOf["time"], Stored!TimeFields, 3)
  /\ \A i \in 1..3 : Stored!TimeFields[i] # Stored!Number /\ Stored!TimeFields[i] # Stored!Offset
  /\ Len(PartsOf["time"]) = 3 /\ DOMAIN PartsOf["time"] = 1..3
  /\ PartsOf["time"][1] = 0..23 /\ PartsOf["time"][2] = 0..59 /\ PartsOf["time"][3] = 0..59
PROOF
  <1> DEFINE F == Stored!TimeFields
             parts == PartsOf["time"]
             f == <<"u64", "u", 32>>
  <1>1. DOMAIN F = 1..3 /\ \A i \in 1..3 : F[i] = f
    BY DEF Stored!TimeFields
  <1>2. parts = <<0..23, 0..59, 0..59>>
    BY DEF PartsOf
  <1>3. Len(parts) = 3 /\ DOMAIN parts = 1..3 /\ parts[1] = 0..23 /\ parts[2] = 0..59 /\ parts[3] = 0..59
    BY <1>2
  <1>4. 0..59 \subseteq UnsignedRange(32)
    BY NumberFacts DEF UnsignedRange
  <1>5. AllFit(0..59, f)
    <2>1. f = Stored!Unsigned(32) /\ 32 \in Bits
      BY BitsFacts DEF Stored!Unsigned
    <2> HIDE DEF f
    <2>2. ASSUME NEW x \in 0..59 PROVE Fits(x, f)
      BY <1>4, <2>1, <2>2, KeptWhole DEF Fits
    <2> QED BY <2>2 DEF AllFit
  <1>6. AllFit(0..23, f)
    BY <1>5 DEF AllFit
  <1>7. PlainField(f)
    BY FieldFacts
  <1> HIDE DEF F, f, parts
  <1>8. \A i \in 1..3 : i = 1 \/ i = 2 \/ i = 3
    OBVIOUS
  <1>9. \A i \in 1..3 : PlainField(F[i]) /\ AllFit(parts[i], F[i])
    BY <1>1, <1>3, <1>5, <1>6, <1>7, <1>8
  <1>10. AreFields(F, 3) /\ \A i \in 1..3 : F[i] # Stored!Number /\ F[i] # Stored!Offset
    BY <1>1, <1>9 DEF AreFields, PlainField
  <1> QED BY <1>3, <1>9, <1>10, FittingParts DEF F, parts

\* A term of parts that are all whole comes back, if what is kept of it is
LEMMA WholePartsComeBack ==
  ASSUME NEW Terms, NEW Letters, AreTerms(Terms, Letters), NEW t \in Terms, NEW type, NEW n, NEW F, NEW parts,
         AreFields(F, n), Fitting(parts, F, n), \A i \in 1..n : F[i] # Stored!Number /\ F[i] # Stored!Offset,
         type \notin Stored!DurationTypes,
         t[1] = "compound", AreReadable(t[3], F, n),
         \A x : (x[1] = "compound" /\ Len(x[3]) \in Nat /\ AreReadable(x[3], F, n)
                 /\ KeptParts(x[3], F, n) = KeptParts(t[3], F, n)) =>
           Stored!MakeEntry(type, x) = Stored!Entry(type, KeptParts(t[3], F, n)),
         \A e : Stored!ReadEntry(Stored!Entry(type, e)) = <<"value", Stored!ReadFields(type, e), type>>,
         IsOfType(type, t) => t[2] = Stored!FunctorOf(type) /\ HavePart(t[3], parts, F, n)
  PROVE  StoredWell(type, t)
PROOF
  <1> DEFINE args == t[3]
             d == KeptParts(args, F, n)
             again == ReadParts(d, F, n)
             r == <<"compound", Stored!FunctorOf(type), again>>
  <1>1. args \in Seq(Terms) /\ t = <<"compound", t[2], args>> /\ Len(args) \in Nat
    BY TermForms
  <1>2. Stored!MakeEntry(type, t) = Stored!Entry(type, d)
    BY <1>1
  <1>3. Stored!ReadEntry(Stored!Entry(type, d)) = <<"value", r, type>>
    BY ReadFieldsForm
  <1>4. Len(again) = n /\ AreReadable(again, F, n) /\ KeptParts(again, F, n) = d
    BY <1>1, PartsKeptAgain
  <1>5. Stored!MakeEntry(type, r) = Stored!Entry(type, d)
    <2>1. r[1] = "compound" /\ r[3] = again /\ Len(again) \in Nat
      BY <1>4 DEF AreFields
    <2> HIDE DEF r, again
    <2> QED BY <1>4, <2>1
  <1>6. ASSUME IsOfType(type, t) PROVE r = t
    <2>1. again = args
      BY <1>1, <1>6, PartsComeBack
    <2> QED BY <1>1, <1>6, <2>1
  <1> HIDE DEF d, r
  <1> QED BY <1>2, <1>3, <1>5, <1>6, Restored

\* Moments come back that the calendar has
LEMMA MomentsComeBack ==
  ASSUME NEW Terms, NEW Letters, AreTerms(Terms, Letters), NEW t \in Terms,
         NEW type \in {"dateTime", "dateTimeStamp"}
  PROVE  StoredWell(type, t)
PROOF
  <1> DEFINE F == Stored!MomentFields
             Kept(x) == KeptParts(x[3], F, 7)
  <1>1. type \notin Stored!DurationTypes /\ Stored!FunctorOf(type) = "date_time"
    BY DEF Stored!DurationTypes, Stored!FunctorOf, Stored!GregorianFields
  <1>2. ASSUME NEW x, x[1] = "compound", Len(x[3]) \in Nat
        PROVE  Stored!MakeEntry(type, x) =
                 IF ~AreReadable(x[3], F, 7) THEN Stored!Error
                 ELSE IF Stored!IsMoment(Kept(x)) THEN Stored!Entry(type, Kept(x)) ELSE Stored!Panic
    <2>1. Stored!MakeEntry(type, x) = Stored!MakeMoment(type, x)
      BY MomentKind
    <2>2. AreReadable(x[3], F, 7) <=> ~(Len(x[3]) < 7 \/ \E i \in 1..7 : ~Stored!Readable(x[3][i], F[i]))
      BY <1>2 DEF AreReadable
    <2> QED BY <1>2, <2>1, <2>2 DEF Stored!MakeMoment, KeptParts
  <1>3. \A x : x[1] # "compound" => Stored!MakeEntry(type, x) = Stored!Error
    <2> TAKE x
    <2>1. Stored!MakeEntry(type, x) = Stored!MakeMoment(type, x)
      BY MomentKind
    <2> QED BY <2>1 DEF Stored!MakeMoment
  <1>4. \A e : Stored!ReadEntry(Stored!Entry(type, e)) = <<"value", Stored!ReadFields(type, e), type>>
    BY MomentKind
  <1>5. ASSUME IsOfType(type, t)
        PROVE  /\ t[1] = "compound" /\ t[2] = Stored!FunctorOf(type) /\ HavePart(t[3], MomentParts, F, 7)
               /\ AreReadable(t[3], F, 7) /\ Stored!IsMoment(Kept(t))
    <2>1. DOMAIN MomentParts = 1..7
      BY DEF MomentParts
    <2>2. IsMoment(t)
      BY <1>5, MomentKind
    <2>3. t[1] = "compound" /\ t[2] = "date_time" /\ HavePart(t[3], MomentParts, F, 7)
      BY <2>1, <2>2, MomentFits DEF IsMoment, IsMade, HasParts, HavePart
    <2>4. t[3] \in Seq(Terms)
      BY <2>3, TermForms
    <2>5. AreReadable(t[3], F, 7) /\ \A i \in 1..7 : Kept(t)[i] = t[3][i][2]
      BY <2>3, <2>4, MomentFits, PartsComeBack
    <2>6. Kept(t) = [i \in 1..7 |-> t[3][i][2]]
      BY <2>5 DEF KeptParts
    <2> QED BY <1>1, <2>2, <2>3, <2>5, <2>6 DEF IsMoment
  <1>6. CASE t[1] = "compound" /\ AreReadable(t[3], F, 7) /\ Stored!IsMoment(Kept(t))
    <2>1. \A x : (x[1] = "compound" /\ Len(x[3]) \in Nat /\ AreReadable(x[3], F, 7) /\ Kept(x) = Kept(t)) =>
            Stored!MakeEntry(type, x) = Stored!Entry(type, Kept(t))
      <3> HIDE DEF Kept, F
      <3> QED BY <1>2, <1>6
    <2> HIDE DEF F
    <2> QED BY <1>1, <1>4, <1>5, <1>6, <2>1, MomentFits, WholePartsComeBack DEF F
  <1>7. CASE ~(t[1] = "compound" /\ AreReadable(t[3], F, 7) /\ Stored!IsMoment(Kept(t)))
    <2>1. t[1] = "compound" => Len(t[3]) \in Nat
      BY TermForms
    <2>2. Stored!MakeEntry(type, t) \in {Stored!Error, Stored!Panic}
      <3> HIDE DEF Kept, F
      <3> QED BY <1>2, <1>3, <1>7, <2>1
    <2> QED BY <1>5, <1>7, <2>2, Refused
  <1> QED BY <1>6, <1>7

\* Times come back that the clock has
LEMMA TimesComeBack ==
  ASSUME NEW Terms, NEW Letters, AreTerms(Terms, Letters), NEW t \in Terms
  PROVE  StoredWell("time", t)
PROOF
  <1> DEFINE F == Stored!TimeFields
             parts == PartsOf["time"]
             Kept(x) == KeptParts(x[3], F, 3)
             good(d) == Stored!IsTime(d[1], d[2], d[3], 0)
  <1>1. "time" \notin Stored!DurationTypes /\ Stored!FunctorOf("time") = "time"
    BY DEF Stored!DurationTypes, Stored!FunctorOf, Stored!GregorianFields
  <1>2. ASSUME NEW x, x[1] = "compound", Len(x[3]) \in Nat
        PROVE  Stored!MakeEntry("time", x) =
                 IF ~AreReadable(x[3], F, 3) THEN Stored!Error
                 ELSE IF good(Kept(x)) THEN Stored!Entry("time", Kept(x)) ELSE Stored!Panic
    <2>1. Stored!MakeEntry("time", x) = Stored!MakeTime(x)
      BY TimeKind
    <2>2. AreReadable(x[3], F, 3) <=> ~(Len(x[3]) < 3 \/ \E i \in 1..3 : ~Stored!Readable(x[3][i], F[i]))
      BY <1>2 DEF AreReadable
    <2> QED BY <1>2, <2>1, <2>2 DEF Stored!MakeTime, KeptParts
  <1>3. \A x : x[1] # "compound" => Stored!MakeEntry("time", x) = Stored!Error
    <2> TAKE x
    <2>1. Stored!MakeEntry("time", x) = Stored!MakeTime(x)
      BY TimeKind
    <2> QED BY <2>1 DEF Stored!MakeTime
  <1>4. \A e : Stored!ReadEntry(Stored!Entry("time", e)) = <<"value", Stored!ReadFields("time", e), "time">>
    BY TimeKind
  <1>5. ASSUME IsOfType("time", t)
        PROVE  /\ t[1] = "compound" /\ t[2] = Stored!FunctorOf("time") /\ HavePart(t[3], parts, F, 3)
               /\ AreReadable(t[3], F, 3) /\ good(Kept(t))
    <2>1. IsMade(t, "time", 3) /\ HasParts(t, parts)
      <3>1. IsMade(t, Stored!FunctorOf("time"), Len(PartsOf["time"])) /\ HasParts(t, PartsOf["time"])
        BY <1>5, TimeKind
      <3>2. Len(PartsOf["time"]) = 3
        BY TimeFits
      <3> QED BY <1>1, <3>1, <3>2
    <2>3. t[1] = "compound" /\ t[2] = "time" /\ HavePart(t[3], parts, F, 3)
      BY <2>1, TimeFits DEF IsMade, HasParts, HavePart
    <2>4. t[3] \in Seq(Terms)
      BY <2>3, TermForms
    <2>5. AreReadable(t[3], F, 3) /\ \A i \in 1..3 : Kept(t)[i] = t[3][i][2]
      BY <2>3, <2>4, TimeFits, PartsComeBack
    <2>6. Kept(t)[1] \in 0..23 /\ Kept(t)[2] \in 0..59 /\ Kept(t)[3] \in 0..59
      <3> HIDE DEF F, parts, Kept
      <3>1. t[3][1][2] \in 0..23 /\ t[3][2][2] \in 0..59 /\ t[3][3][2] \in 0..59
        BY <2>1, TimeFits DEF HasParts, parts
      <3> QED BY <2>5, <3>1
    <2>7. good(Kept(t))
      BY <2>6, NumberFacts DEF Stored!IsTime
    <2> QED BY <1>1, <2>3, <2>5, <2>7
  <1>6. CASE t[1] = "compound" /\ AreReadable(t[3], F, 3) /\ good(Kept(t))
    <2>1. \A x : (x[1] = "compound" /\ Len(x[3]) \in Nat /\ AreReadable(x[3], F, 3) /\ Kept(x) = Kept(t)) =>
            Stored!MakeEntry("time", x) = Stored!Entry("time", Kept(t))
      <3> HIDE DEF Kept, F, good
      <3> QED BY <1>2, <1>6
    <2> HIDE DEF F
    <2> QED BY <1>1, <1>4, <1>5, <1>6, <2>1, TimeFits, WholePartsComeBack DEF F
  <1>7. CASE ~(t[1] = "compound" /\ AreReadable(t[3], F, 3) /\ good(Kept(t)))
    <2>1. t[1] = "compound" => Len(t[3]) \in Nat
      BY TermForms
    <2>2. Stored!MakeEntry("time", t) \in {Stored!Error, Stored!Panic}
      <3> HIDE DEF Kept, F, good
      <3> QED BY <1>2, <1>3, <1>7, <2>1
    <2> QED BY <1>5, <1>7, <2>2, Refused
  <1> QED BY <1>6, <1>7

-------------------------------------------------------------------------------
(* Intervals come back: their ends, their duration and what they were given by *)

\* A component of an interval that parses as a moment is written as it was
LEMMA MomentComponents ==
  ASSUME NEW Terms, NEW Letters, AreTerms(Terms, Letters), NEW c \in Terms,
         c[1] = "compound", c[2] = "date_time", Len(c[3]) = 7
  PROVE  LET e == Stored!ParseComponent(c)
         IN /\ IsComponent(c) => e # Stored!Error
            /\ e # Stored!Error => Stored!FormatComponent(e) = c
PROOF
  <1> DEFINE args == c[3]
             F == Stored!MomentFields
             d == [i \in 1..7 |-> args[i][2]]
             ok == (\A i \in 1..7 : Stored!Parses(args[i], F[i])) /\ Stored!IsMoment(d)
  <1>1. args \in Seq(Terms) /\ c = <<"compound", "date_time", args>> /\ \A i \in 1..7 : args[i] \in Terms
    BY TermForms
  <1>2. Stored!ParseComponent(c) = IF ok THEN <<"date_time", d>> ELSE Stored!Error
    BY DEF Stored!ParseComponent
  <1>3. ASSUME IsComponent(c) PROVE ok
    <2>1. IsMoment(c)
      BY <1>3 DEF IsComponent, IsMade
    <2>2. DOMAIN MomentParts = 1..7
      BY DEF MomentParts
    <2>3. ASSUME NEW i \in 1..7 PROVE Stored!Parses(args[i], F[i])
      <3>1. args[i][1] = "int" /\ args[i][2] \in MomentParts[i]
        BY <2>1, <2>2 DEF IsMoment, HasParts
      <3>2. args[i] = <<"int", args[i][2]>>
        BY <1>1, <3>1, TermForms
      <3>3. Stored!Kept(<<"int", args[i][2]>>, F[i]) = args[i][2]
        BY <3>1, MomentFits DEF Fitting
      <3> QED BY <3>1, <3>2, <3>3 DEF Stored!Parses
    <2> QED BY <2>1, <2>3 DEF IsMoment
  <1>4. ASSUME ok PROVE Stored!FormatComponent(<<"date_time", d>>) = c
    <2>1. \A i \in 1..7 : args[i] = Stored!Whole(d[i])
      <3> TAKE i \in 1..7
      <3>1. args[i][1] = "int"
        BY <1>4 DEF Stored!Parses
      <3>2. args[i] = <<"int", args[i][2]>>
        BY <1>1, <3>1, TermForms
      <3> QED BY <3>2 DEF Stored!Whole
    <2>2. args = [i \in 1..7 |-> Stored!Whole(d[i])]
      <3>1. args = [i \in 1..7 |-> args[i]]
        BY <1>1
      <3> HIDE DEF args, d
      <3> QED BY <2>1, <3>1
    <2>3. Stored!FormatComponent(<<"date_time", d>>) = <<"compound", "date_time", [i \in 1..7 |-> Stored!Whole(d[i])]>>
      BY DEF Stored!FormatComponent, Stored!Compound
    <2> HIDE DEF args, d
    <2> QED BY <1>1, <2>2, <2>3
  <1>5. <<"date_time", d>> # Stored!Error
    BY DEF Stored!Error
  <1> HIDE DEF d, ok
  <1> QED BY <1>2, <1>3, <1>4, <1>5

\* One that parses as a date loses its offset, which an interval does not keep
LEMMA DateComponents ==
  ASSUME NEW Terms, NEW Letters, AreTerms(Terms, Letters), NEW c \in Terms,
         c[1] = "compound", c[2] = "date", Len(c[3]) = 4
  PROVE  LET e == Stored!ParseComponent(c)
         IN /\ IsComponent(c) => e # Stored!Error /\ Stored!FormatComponent(e) = c
            /\ e # Stored!Error => Stored!ParseComponent(Stored!FormatComponent(e)) = e
PROOF
  <1> DEFINE args == c[3]
             F == Stored!MomentFields
             d == [i \in 1..3 |-> args[i][2]]
             ok == (\A i \in 1..3 : Stored!Parses(args[i], F[i])) /\ Stored!IsDate(d)
             written == [i \in 1..4 |-> Stored!Whole(IF i < 4 THEN d[i] ELSE 0)]
             f == <<"compound", "date", written>>
  <1>1. args \in Seq(Terms) /\ c = <<"compound", "date", args>> /\ \A i \in 1..4 : args[i] \in Terms
    BY TermForms
  <1>2. Stored!ParseComponent(c) = IF ok THEN <<"date", d>> ELSE Stored!Error
    BY DEF Stored!ParseComponent
  <1>3. Stored!FormatComponent(<<"date", d>>) = f
    BY DEF Stored!FormatComponent, Stored!Compound
  <1>4. ASSUME ok PROVE \A i \in 1..3 : args[i] = <<"int", d[i]>> /\ written[i] = args[i]
    <2> TAKE i \in 1..3
    <2>1. args[i][1] = "int"
      BY <1>4 DEF Stored!Parses
    <2>2. args[i] = <<"int", args[i][2]>>
      BY <1>1, <2>1, TermForms
    <2>3. written[i] = Stored!Whole(d[i])
      OBVIOUS
    <2> QED BY <2>2, <2>3 DEF Stored!Whole
  <1>5. ASSUME ok PROVE Stored!ParseComponent(f) = <<"date", d>>
    <2>1. f[1] = "compound" /\ f[2] = "date" /\ f[3] = written /\ Len(f[3]) = 4
      OBVIOUS
    <2>2. \A i \in 1..3 : Stored!Parses(f[3][i], F[i]) /\ f[3][i][2] = d[i]
      <3> HIDE DEF written, f
      <3> QED BY <1>4, <1>5, <2>1
    <2>3. [i \in 1..3 |-> f[3][i][2]] = d
      <3> HIDE DEF f
      <3> QED BY <2>2
    <2> HIDE DEF f, written, d
    <2> QED BY <1>5, <2>1, <2>2, <2>3 DEF Stored!ParseComponent
  <1>6. ASSUME IsComponent(c) PROVE ok /\ f = c
    <2> DEFINE parts == <<SignedRange(32), 1..12, 1..31, {0}>>
    <2>1. HasParts(c, parts) /\ Stored!IsDate(d)
      BY <1>6 DEF IsComponent, IsMoment, IsMade
    <2>2. DOMAIN parts = 1..4 /\ parts[1] = SignedRange(32) /\ parts[2] = 1..12 /\ parts[3] = 1..31 /\ parts[4] = {0}
      OBVIOUS
    <2>3. \A i \in 1..4 : args[i][1] = "int" /\ args[i][2] \in parts[i]
      BY <2>1, <2>2 DEF HasParts
    <2>4. \A i \in 1..3 : parts[i] \subseteq MomentParts[i]
      <3>1. MomentParts[1] = SignedRange(32) /\ MomentParts[2] = UnsignedRange(32) /\ MomentParts[3] = UnsignedRange(32)
        BY DEF MomentParts
      <3>2. 1..12 \subseteq UnsignedRange(32) /\ 1..31 \subseteq UnsignedRange(32)
        BY NumberFacts DEF UnsignedRange
      <3>3. \A i \in 1..3 : i = 1 \/ i = 2 \/ i = 3
        OBVIOUS
      <3> HIDE DEF parts
      <3> QED BY <2>2, <3>1, <3>2, <3>3
    <2>5. ASSUME NEW i \in 1..3 PROVE Stored!Parses(args[i], F[i])
      <3>1. args[i][1] = "int" /\ args[i][2] \in MomentParts[i]
        <4> HIDE DEF parts, args
        <4> QED BY <2>3, <2>4
      <3>2. args[i] = <<"int", args[i][2]>>
        BY <1>1, <3>1, TermForms
      <3>3. Stored!Kept(<<"int", args[i][2]>>, F[i]) = args[i][2]
        BY <3>1, MomentFits DEF Fitting
      <3> QED BY <3>1, <3>2, <3>3 DEF Stored!Parses
    <2>6. ok
      BY <2>1, <2>5
    <2>7. args[4] = Stored!Whole(0)
      <3>1. args[4][1] = "int" /\ args[4][2] = 0
        BY <2>2, <2>3
      <3>2. args[4] = <<"int", args[4][2]>>
        BY <1>1, <3>1, TermForms
      <3> QED BY <3>1, <3>2 DEF Stored!Whole
    <2>8. \A i \in 1..4 : written[i] = args[i]
      <3>1. \A i \in 1..4 : i \in 1..3 \/ i = 4
        OBVIOUS
      <3>2. written[4] = Stored!Whole(0)
        OBVIOUS
      <3> HIDE DEF written
      <3> QED BY <1>4, <2>6, <2>7, <3>1, <3>2
    <2>9. written = args
      <3>1. args = [i \in 1..4 |-> args[i]] /\ written = [i \in 1..4 |-> written[i]]
        BY <1>1
      <3> HIDE DEF written, args
      <3> QED BY <2>8, <3>1
    <2> QED BY <1>1, <2>6, <2>9
  <1>7. <<"date", d>> # Stored!Error
    BY DEF Stored!Error
  <1> HIDE DEF d, ok, f
  <1> QED BY <1>2, <1>3, <1>5, <1>6, <1>7

\* The ends of an interval come back, and parse as what was written for them
LEMMA ComponentsComeBack ==
  ASSUME NEW Terms, NEW Letters, AreTerms(Terms, Letters), NEW c \in Terms
  PROVE  LET e == Stored!ParseComponent(c)
         IN /\ IsComponent(c) => e # Stored!Error /\ Stored!FormatComponent(e) = c
            /\ e # Stored!Error => Stored!ParseComponent(Stored!FormatComponent(e)) = e
PROOF
  <1>1. CASE c[1] = "compound" /\ c[2] = "date_time" /\ Len(c[3]) = 7
    BY <1>1, MomentComponents
  <1>2. CASE c[1] = "compound" /\ c[2] = "date" /\ Len(c[3]) = 4
    BY <1>2, DateComponents
  <1>3. CASE /\ ~(c[1] = "compound" /\ c[2] = "date_time" /\ Len(c[3]) = 7)
             /\ ~(c[1] = "compound" /\ c[2] = "date" /\ Len(c[3]) = 4)
    <2>1. Stored!ParseComponent(c) = Stored!Error
      BY <1>3 DEF Stored!ParseComponent
    <2>2. ~IsComponent(c)
      BY <1>3 DEF IsComponent, IsMoment, IsMade
    <2> QED BY <2>1, <2>2
  <1> QED BY <1>1, <1>2, <1>3

\* The parts of the duration of an interval fit their fields
LEMMA IntervalDurationFits ==
  LET F == Stored!IntervalDurationFields
  IN /\ AreFields(F, 7) /\ Fitting(SpanParts, F, 7) /\ \A i \in 1..7 : F[i] # Stored!Offset
     /\ \A i \in 1..7 : F[i] = Stored!Number <=> i = 7
PROOF
  <1> DEFINE F == Stored!IntervalDurationFields
             L == Stored!Signed(64)
             S == Stored!Signed(8)
             U == Stored!Unsigned(8)
  <1>1. DOMAIN F = 1..7 /\ F[1] = S /\ F[2] = L /\ F[7] = Stored!Number /\ \A i \in 3..6 : F[i] = U
    BY DEF Stored!IntervalDurationFields
  <1>2. SpanParts[1] = {-1, 1} /\ SpanParts[2] = SignedRange(64) /\ \A i \in 3..6 : SpanParts[i] = UnsignedRange(8)
    BY DEF SpanParts
  <1>3. AllFit(UnsignedRange(8), U)
    <2>1. ASSUME NEW x \in UnsignedRange(8) PROVE Fits(x, U)
      <3>1. x \in Int /\ 8 \in Bits
        BY NumberFacts, BitsFacts DEF UnsignedRange
      <3> QED BY <3>1, KeptWhole DEF Fits
    <2> QED BY <2>1 DEF AllFit
  <1>4. AllFit({-1, 1}, S) /\ AllFit(SignedRange(64), L)
    BY NumbersFit
  <1>5. PlainField(S) /\ PlainField(L) /\ PlainField(U)
    BY FieldFacts
  <1>6. \A i \in 1..7 : i = 7 \/ i \in 3..6 \/ i = 1 \/ i = 2
    OBVIOUS
  <1> HIDE DEF F, L, S, U
  <1>7. \A i \in 1..7 : IF i = 7 THEN F[i] = Stored!Number ELSE PlainField(F[i]) /\ AllFit(SpanParts[i], F[i])
    BY <1>1, <1>2, <1>3, <1>4, <1>5, <1>6
  <1>8. \A i \in 1..7 : F[i] \in Fields /\ F[i] # Stored!Offset /\ (F[i] = Stored!Number <=> i = 7)
    BY <1>7, FieldFacts DEF PlainField
  <1>9. Fitting(SpanParts, F, 7)
    BY <1>7, <1>8, FittingParts
  <1> QED BY <1>1, <1>8, <1>9 DEF AreFields, F

\* The duration of an interval, with whole seconds or half ones
LEMMA SpansComeBack ==
  ASSUME NEW Terms, NEW Letters, AreTerms(Terms, Letters), NEW c \in Terms
  PROVE  LET e == Stored!ParseDuration(c)
         IN /\ (IsSpan(c) /\ (c[3][7][1] = "int" \/ (c[3][7][1] = "float" /\ c[3][7][2] % 2 = 1))) =>
                 e # Stored!Error /\ Stored!FormatDuration(e) = c
            /\ e # Stored!Error => Stored!ParseDuration(Stored!FormatDuration(e)) = e
PROOF
  <1> DEFINE args == c[3]
             F == Stored!IntervalDurationFields
             made == c[1] = "compound" /\ c[2] = "duration" /\ Len(args) = 7
             ok == \A i \in 1..7 : Stored!Readable(args[i], F[i])
             d == [i \in 1..7 |-> Stored!Kept(args[i], F[i])]
             w(i) == CASE i < 7 -> Stored!Whole(d[i])
                       [] i = 7 /\ d[i] % 2 = 0 -> Stored!Whole(d[i] \div 2)
                       [] OTHER -> Stored!ReadFloat(d[i])
             written == [i \in 1..7 |-> w(i)]
             f == <<"compound", "duration", written>>
  <1>1. made => args \in Seq(Terms) /\ c = <<"compound", "duration", args>> /\ \A i \in 1..7 : args[i] \in Terms
    BY TermForms
  <1>2. Stored!ParseDuration(c) = IF made /\ ok THEN d ELSE Stored!Error
    BY DEF Stored!ParseDuration
  <1>3. Stored!FormatDuration(d) = f
    BY DEF Stored!FormatDuration, Stored!Compound
  <1>4. ASSUME made, ok, NEW i \in 1..7
        PROVE  d[i] \in Int /\ Stored!Readable(w(i), F[i]) /\ Stored!Kept(w(i), F[i]) = d[i]
    <2> DEFINE k == d[i]
    <2>1. Stored!Readable(args[i], F[i]) /\ args[i] \in Terms /\ F[i] \in Fields /\ F[i] # Stored!Offset
      BY <1>1, <1>4, IntervalDurationFits DEF AreFields
    <2>2. args[i][2] \in Int
      <3>1. args[i][1] \in {"int", "float"}
        BY <2>1 DEF Stored!Readable, Fields, Stored!Unsigned, Stored!Signed, Stored!Offset,
                    Stored!Small, Stored!Cut, Stored!Number
      <3> QED BY <2>1, <3>1, TermForms
    <2>3. k = Stored!Kept(args[i], F[i])
      OBVIOUS
    <2>4. k \in Int
      <3> HIDE DEF k
      <3> QED BY <2>1, <2>2, <2>3, KeptAgain
    <2>5. CASE i < 7
      <3>1. F[i] # Stored!Number
        BY <2>5, IntervalDurationFits
      <3>2. w(i) = Stored!Whole(k)
        BY <2>5
      <3> HIDE DEF k, w
      <3>3. Stored!Readable(Stored!Whole(k), F[i]) /\ Stored!Kept(Stored!Whole(k), F[i]) = k
        BY <2>1, <2>2, <2>3, <3>1, KeptAgain
      <3> QED BY <2>3, <2>4, <3>2, <3>3
    <2>6. CASE i = 7
      <3>1. F[i] = Stored!Number
        BY <2>6, IntervalDurationFits
      <3>2. w(i) = IF k % 2 = 0 THEN Stored!Whole(k \div 2) ELSE Stored!ReadFloat(k)
        <4>1. ~(i < 7)
          BY <2>6
        <4> HIDE DEF d
        <4> QED BY <2>6, <4>1
      <3>3. k % 2 = 0 => 2 * (k \div 2) = k
        <4> HIDE DEF k
        <4> QED BY <2>4
      <3> HIDE DEF k, w
      <3>4. Stored!Readable(w(i), F[i]) /\ Stored!Kept(w(i), F[i]) = k
        BY <3>1, <3>2, <3>3 DEF Stored!Readable, Stored!Kept, Stored!Number, Stored!Whole, Stored!ReadFloat
      <3> QED BY <2>3, <2>4, <3>4
    <2> QED BY <2>5, <2>6
  <1>5. ASSUME made, ok PROVE Stored!ParseDuration(f) = d
    <2>1. f[1] = "compound" /\ f[2] = "duration" /\ f[3] = written /\ Len(f[3]) = 7
      OBVIOUS
    <2>2. \A i \in 1..7 : f[3][i] = w(i)
      BY <2>1
    <2>3. \A i \in 1..7 : Stored!Readable(f[3][i], F[i]) /\ Stored!Kept(f[3][i], F[i]) = d[i]
      <3> HIDE DEF f, written, w, d, made, ok
      <3> QED BY <1>4, <1>5, <2>2
    <2>4. [i \in 1..7 |-> Stored!Kept(f[3][i], F[i])] = d
      <3> HIDE DEF f
      <3> QED BY <2>3
    <2> HIDE DEF f, written, d
    <2> QED BY <2>1, <2>3, <2>4 DEF Stored!ParseDuration
  <1>6. ASSUME IsSpan(c), args[7][1] = "int" \/ (args[7][1] = "float" /\ args[7][2] % 2 = 1)
        PROVE  made /\ ok /\ f = c
    <2>1. made
      BY <1>6 DEF IsSpan, IsMade
    <2>2. DOMAIN SpanParts = 1..6
      BY DEF SpanParts
    <2>3. \A i \in 1..6 : args[i][1] = "int" /\ args[i][2] \in SpanParts[i]
      BY <1>6, <2>2 DEF IsSpan, HasParts
    <2>4. ASSUME NEW i \in 1..6 PROVE Stored!Readable(args[i], F[i]) /\ w(i) = args[i]
      <3>1. args[i] \in Terms /\ i \in 1..7 /\ i < 7
        BY <1>1, <2>1
      <3>2. args[i] = <<"int", args[i][2]>>
        BY <2>3, <3>1, TermForms
      <3>3. F[i] # Stored!Number
        BY <3>1, IntervalDurationFits
      <3>4. Stored!Readable(<<"int", args[i][2]>>, F[i]) /\ Stored!Kept(<<"int", args[i][2]>>, F[i]) = args[i][2]
        BY <2>3, <3>1, <3>3, IntervalDurationFits DEF Fitting
      <3>5. d[i] = args[i][2]
        BY <3>1, <3>2, <3>4
      <3>6. w(i) = Stored!Whole(d[i])
        BY <3>1
      <3> QED BY <3>2, <3>4, <3>5, <3>6 DEF Stored!Whole
    <2>5. Stored!Readable(args[7], F[7]) /\ w(7) = args[7]
      <3>1. args[7] \in Terms /\ F[7] = Stored!Number
        BY <1>1, <2>1, IntervalDurationFits
      <3>2. args[7][2] \in Int /\ args[7] = <<args[7][1], args[7][2]>>
        BY <1>6, <3>1, TermForms
      <3>3. d[7] = IF args[7][1] = "int" THEN 2 * args[7][2] ELSE args[7][2]
        BY <3>1 DEF Stored!Kept, Stored!Number
      <3>4. w(7) = IF d[7] % 2 = 0 THEN Stored!Whole(d[7] \div 2) ELSE Stored!ReadFloat(d[7])
        <4> HIDE DEF d
        <4> QED OBVIOUS
      <3>5. Stored!Readable(args[7], F[7])
        BY <1>6, <3>1 DEF Stored!Readable, Stored!Number
      <3>6. \A n \in Int : (2 * n) % 2 = 0 /\ (2 * n) \div 2 = n
        OBVIOUS
      <3> HIDE DEF d, w
      <3>7. CASE args[7][1] = "int"
        BY <3>2, <3>3, <3>4, <3>5, <3>6, <3>7 DEF Stored!Whole
      <3>8. CASE args[7][1] = "float" /\ args[7][2] % 2 = 1
        BY <3>2, <3>3, <3>4, <3>5, <3>8 DEF Stored!ReadFloat
      <3> QED BY <1>6, <3>7, <3>8
    <2>6. \A i \in 1..7 : Stored!Readable(args[i], F[i]) /\ w(i) = args[i]
      <3>1. \A i \in 1..7 : i \in 1..6 \/ i = 7
        OBVIOUS
      <3> HIDE DEF w, args, F
      <3> QED BY <2>4, <2>5, <3>1
    <2>7. written = args
      <3>1. args = [i \in 1..7 |-> args[i]]
        BY <1>1, <2>1
      <3> HIDE DEF w, args
      <3> QED BY <2>6, <3>1
    <2> HIDE DEF written, w
    <2> QED BY <1>1, <2>1, <2>6, <2>7
  <1>7. d # Stored!Error
    <2>1. DOMAIN d = 1..7 /\ DOMAIN Stored!Error = 1..1
      BY DEF Stored!Error
    <2>2. 1..7 # 1..1
      OBVIOUS
    <2> HIDE DEF d
    <2> QED BY <2>1, <2>2
  <1> HIDE DEF d, ok, made, f
  <1> QED BY <1>2, <1>3, <1>5, <1>6, <1>7

\* Intervals come back
LEMMA IntervalsComeBack ==
  ASSUME NEW Terms, NEW Letters, AreTerms(Terms, Letters), NEW t \in Terms, NEW type, type = "dateTimeInterval"
  PROVE  StoredWell(type, t)
PROOF
  <1> DEFINE args == t[3]
             made == t[1] = "compound" /\ t[2] = "date_time_interval" /\ Len(args) = 4
             start == Stored!ParseComponent(args[1])
             end == Stored!ParseComponent(args[2])
             span == Stored!ParseDuration(args[3])
             flag == args[4]
             flagged == flag[1] \in {"atom", "text"} /\ flag[2] \in Stored!IntervalFlags
             ok == start # Stored!Error /\ end # Stored!Error /\ span # Stored!Error /\ flagged
             d == [start |-> start, end |-> end, duration |-> span, flag |-> flag[2]]
             s == Stored!FormatComponent(start)
             e == Stored!FormatComponent(end)
             f == Stored!FormatDuration(span)
             written == <<s, e, f, <<"atom", flag[2]>>>>
             r == <<"compound", "date_time_interval", written>>
  <1>1. made => args \in Seq(Terms) /\ t = <<"compound", "date_time_interval", args>> /\ \A i \in 1..4 : args[i] \in Terms
    BY TermForms
  <1>2. Stored!MakeEntry(type, t) = IF made /\ ok THEN Stored!Entry(type, d) ELSE Stored!Error
    <2>1. Stored!MakeEntry(type, t) = Stored!ParseInterval(t)
      BY IntervalKind
    <2> QED BY <2>1 DEF Stored!ParseInterval
  <1>3. Stored!ReadEntry(Stored!Entry(type, d)) = <<"value", r, type>>
    <2>1. Stored!ReadEntry(Stored!Entry(type, d)) = <<"value", Stored!FormatInterval(d), type>>
      BY IntervalKind
    <2>2. Stored!FormatInterval(d) = r
      BY DEF Stored!FormatInterval, Stored!Compound
    <2> QED BY <2>1, <2>2
  <1>4. made =>
          /\ IsComponent(args[1]) => start # Stored!Error /\ s = args[1]
          /\ start # Stored!Error => Stored!ParseComponent(s) = start
          /\ IsComponent(args[2]) => end # Stored!Error /\ e = args[2]
          /\ end # Stored!Error => Stored!ParseComponent(e) = end
    BY <1>1, ComponentsComeBack
  <1>5. made =>
          /\ (IsSpan(args[3]) /\ (args[3][3][7][1] = "int" \/ (args[3][3][7][1] = "float" /\ args[3][3][7][2] % 2 = 1))) =>
               span # Stored!Error /\ f = args[3]
          /\ span # Stored!Error => Stored!ParseDuration(f) = span
    BY <1>1, SpansComeBack
  <1>6. ASSUME made, ok PROVE Stored!MakeEntry(type, r) = Stored!Entry(type, d)
    <2>1. /\ r[1] = "compound" /\ r[2] = "date_time_interval" /\ Len(r[3]) = 4
          /\ r[3][1] = s /\ r[3][2] = e /\ r[3][3] = f /\ r[3][4] = <<"atom", flag[2]>>
      OBVIOUS
    <2>2. r[3][4][1] = "atom" /\ r[3][4][2] = flag[2]
      BY <2>1
    <2>3. Stored!ParseComponent(r[3][1]) = start /\ Stored!ParseComponent(r[3][2]) = end /\ Stored!ParseDuration(r[3][3]) = span
      BY <1>4, <1>5, <1>6, <2>1
    <2>4. Stored!MakeEntry(type, r) = Stored!ParseInterval(r)
      BY IntervalKind
    <2> HIDE DEF r, s, e, f, start, end, span, flag, written
    <2>5. Stored!ParseInterval(r) = Stored!Entry("dateTimeInterval", [start |-> start, end |-> end, duration |-> span, flag |-> flag[2]])
      BY <1>6, <2>1, <2>2, <2>3 DEF Stored!ParseInterval
    <2> QED BY <2>4, <2>5
  <1>7. ASSUME IsOfType(type, t) PROVE made /\ ok /\ r = t
    <2>1. IsInterval(t)
      BY <1>7, IntervalKind
    <2>2. made
      BY <2>1 DEF IsInterval, IsMade
    <2>3. start # Stored!Error /\ s = args[1] /\ end # Stored!Error /\ e = args[2]
      BY <1>4, <2>1, <2>2 DEF IsInterval
    <2>4. span # Stored!Error /\ f = args[3]
      BY <1>5, <2>1, <2>2 DEF IsInterval
    <2>5. flag[1] = "atom" /\ flag[2] \in Stored!IntervalFlags
      BY <2>1 DEF IsInterval
    <2>6. flag = <<"atom", flag[2]>>
      <3>1. flag \in Terms
        BY <1>1, <2>2
      <3> QED BY <2>5, <3>1, TermForms
    <2>7. args = <<args[1], args[2], args[3], args[4]>>
      <3>1. args \in Seq(Terms) /\ Len(args) = 4
        BY <1>1, <2>2
      <3> HIDE DEF args
      <3> QED BY <3>1
    <2> HIDE DEF s, e, f, start, end, span
    <2> QED BY <1>1, <2>2, <2>3, <2>4, <2>5, <2>6, <2>7
  <1> HIDE DEF d, r, ok, made
  <1>8. CASE made /\ ok
    BY <1>2, <1>3, <1>6, <1>7, <1>8, Restored
  <1>9. CASE ~(made /\ ok)
    BY <1>2, <1>7, <1>9, Refused
  <1> QED BY <1>8, <1>9

-------------------------------------------------------------------------------
(* Texts with a language come back, if the language has no @ *)

\* A text is split from its language at the first @, which the language does not have
LEMMA LanguagesComeBack ==
  ASSUME NEW Letters, NEW text \in Seq(Letters), NEW lang \in Seq(Letters), ~Contains(lang, "@")
  PROVE  Stored!SplitLang(lang \o <<"@">> \o text) = <<lang, text>>
PROOF
  <1> DEFINE S == Letters \union {"@"}
             n == Len(lang)
             m == Len(text)
             head == lang \o <<"@">>
             glued == head \o text
             At == {i \in 1..Len(glued) : glued[i] = "@"}
  <1>1. lang \in Seq(S) /\ text \in Seq(S) /\ <<"@">> \in Seq(S) /\ Len(<<"@">>) = 1 /\ <<"@">>[1] = "@"
    OBVIOUS
  <1>0. text \in Seq(S)
    OBVIOUS
  <1>2. n \in Nat /\ m \in Nat
    OBVIOUS
  <1>3. /\ head \in Seq(S) /\ Len(head) = n + 1
        /\ \A i \in 1..(n + 1) : head[i] = IF i <= n THEN lang[i] ELSE <<"@">>[i - n]
    <2> HIDE DEF S
    <2> QED BY <1>1, ConcatProperties
  <1>4. /\ glued \in Seq(S) /\ Len(glued) = n + 1 + m
        /\ \A i \in 1..(n + 1 + m) : glued[i] = IF i <= n + 1 THEN head[i] ELSE text[i - (n + 1)]
    <2> HIDE DEF S, head
    <2>1. /\ head \o text \in Seq(S) /\ Len(head \o text) = Len(head) + Len(text)
          /\ \A i \in 1..(Len(head) + Len(text)) :
               (head \o text)[i] = IF i <= Len(head) THEN head[i] ELSE text[i - Len(head)]
      <3>1. head \in Seq(S)
        BY <1>3
      <3> HIDE DEF n, m, At, glued
      <3> QED BY <1>0, <3>1, ConcatProperties
    <2> QED BY <1>3, <2>1
  <1>5. \A i \in 1..n : glued[i] = lang[i] /\ lang[i] # "@"
    <2> TAKE i \in 1..n
    <2>1. lang[i] # "@"
      BY DEF Contains
    <2>2. i \in 1..(n + 1) /\ i \in 1..(n + 1 + m) /\ i <= n /\ i <= n + 1
      BY <1>2
    <2> HIDE DEF head, glued
    <2> QED BY <1>3, <1>4, <2>1, <2>2
  <1>6. glued[n + 1] = "@"
    <2>1. n + 1 \in 1..(n + 1) /\ n + 1 \in 1..(n + 1 + m) /\ ~(n + 1 <= n) /\ (n + 1) - n = 1
      BY <1>2
    <2> HIDE DEF head, glued, n
    <2> QED BY <1>1, <1>3, <1>4, <2>1
  <1>7. \A j \in 1..m : glued[n + 1 + j] = text[j]
    <2> TAKE j \in 1..m
    <2>1. n + 1 + j \in 1..(n + 1 + m) /\ ~(n + 1 + j <= n + 1) /\ (n + 1 + j) - (n + 1) = j
      BY <1>2
    <2> HIDE DEF head, glued, n, m
    <2> QED BY <1>4, <2>1
  <1>8. Stored!SelectInSeq(glued, LAMBDA c : c = "@") = n + 1
    <2>1. n + 1 \in At /\ \A i \in At : n + 1 <= i
      <3>1. \A i \in At : i \notin 1..n
        BY <1>5
      <3> HIDE DEF glued, n
      <3> QED BY <1>2, <1>4, <1>6, <3>1
    <2>2. At \subseteq Int
      OBVIOUS
    <2> HIDE DEF At
    <2>3. (CHOOSE x \in At : \A y \in At : x <= y) = n + 1
      <3> HIDE DEF n
      <3>1. \A x \in At : (\A y \in At : x <= y) => x = n + 1
        BY <1>2, <2>1, <2>2
      <3>2. \E x \in At : \A y \in At : x <= y
        BY <2>1
      <3> QED BY <3>1, <3>2
    <2>4. At # {}
      BY <2>1
    <2> HIDE DEF glued, n
    <2> QED BY <2>3, <2>4 DEF Stored!SelectInSeq, Stored!Min, At
  <1>9. SubSeq(glued, 1, n) = lang
    <2>1. \A i \in 1..n : glued[i] \in Letters
      BY <1>5
    <2> HIDE DEF glued
    <2>2. /\ SubSeq(glued, 1, n) \in Seq(Letters)
          /\ Len(SubSeq(glued, 1, n)) = IF 1 <= n THEN n - 1 + 1 ELSE 0
          /\ \A i \in 1..(n - 1 + 1) : SubSeq(glued, 1, n)[i] = glued[1 + i - 1]
      BY <1>2, <2>1, SubSeqProperties
    <2>3. Len(SubSeq(glued, 1, n)) = n /\ \A i \in 1..n : SubSeq(glued, 1, n)[i] = lang[i]
      BY <1>2, <1>5, <2>2
    <2> QED BY <2>2, <2>3
  <1>10. SubSeq(glued, n + 2, n + 1 + m) = text
    <2>1. \A i \in (n + 2)..(n + 1 + m) : glued[i] \in Letters
      <3> TAKE i \in (n + 2)..(n + 1 + m)
      <3>1. i - (n + 1) \in 1..m /\ i = n + 1 + (i - (n + 1))
        BY <1>2
      <3>2. text[i - (n + 1)] \in Letters
        BY <3>1
      <3> HIDE DEF glued
      <3> QED BY <1>7, <3>1, <3>2
    <2> HIDE DEF glued
    <2>2. /\ SubSeq(glued, n + 2, n + 1 + m) \in Seq(Letters)
          /\ Len(SubSeq(glued, n + 2, n + 1 + m)) = IF n + 2 <= n + 1 + m THEN (n + 1 + m) - (n + 2) + 1 ELSE 0
          /\ \A i \in 1..((n + 1 + m) - (n + 2) + 1) : SubSeq(glued, n + 2, n + 1 + m)[i] = glued[n + 2 + i - 1]
      <3>1. n + 2 \in Int /\ n + 1 + m \in Int
        BY <1>2
      <3> QED BY <2>1, <3>1, SubSeqProperties
    <2>3. Len(SubSeq(glued, n + 2, n + 1 + m)) = m
      BY <1>2, <2>2
    <2>4. \A i \in 1..m : SubSeq(glued, n + 2, n + 1 + m)[i] = text[i]
      <3> TAKE i \in 1..m
      <3>1. i \in 1..((n + 1 + m) - (n + 2) + 1) /\ n + 2 + i - 1 = n + 1 + i
        BY <1>2
      <3> QED BY <1>7, <2>2, <3>1
    <2> QED BY <2>2, <2>3, <2>4
  <1>11. (n + 1) - 1 = n /\ (n + 1) + 1 = n + 2
    BY <1>2
  <1> HIDE DEF n, m
  <1> QED BY <1>4, <1>8, <1>9, <1>10, <1>11 DEF Stored!SplitLang

-------------------------------------------------------------------------------
(* Every value and every pattern *)

KnownTypes ==
  {"boolean", "decimal", "hexBinary", "base64Binary", "dateTime", "dateTimeStamp", "time", "dateTimeInterval"}
  \union Stored!TextTypes \union DOMAIN Stored!MachineTypes \union Stored!FloatTypes \union Stored!BigTypes
  \union FieldTypes

\* What has no type of these is refused
LEMMA UnknownKind ==
  ASSUME NEW type, NEW t, type \notin KnownTypes
  PROVE  Stored!MakeEntry(type, t) = Stored!Error /\ ~IsOfType(type, t)
PROOF
  <1>1. /\ DOMAIN RangeOf = DOMAIN Stored!MachineTypes
        /\ DOMAIN PartsOf \subseteq FieldTypes \union {"time"}
    BY DEF RangeOf, Stored!MachineTypes, PartsOf, FieldTypes, Stored!GregorianFields
  <1>2. "float" \in Stored!FloatTypes /\ "double" \in Stored!FloatTypes
    BY DEF Stored!FloatTypes
  <1>3. Stored!DurationTypes \subseteq FieldTypes
    BY DEF FieldTypes
  <1>4. Stored!MakeEntry(type, t) = Stored!Error
    BY DEF KnownTypes, FieldTypes, Stored!MakeEntry
  <1>5. ~IsOfType(type, t)
    BY <1>1, <1>2, <1>3 DEF KnownTypes, IsOfType
  <1> QED BY <1>4, <1>5

\* Whatever the type and the term, the value is stored well
LEMMA TermsComeBack ==
  ASSUME NEW Terms, NEW Letters, AreTerms(Terms, Letters), NEW t \in Terms, NEW type
  PROVE  StoredWell(type, t)
PROOF
  <1>1. CASE type = "boolean"
    BY <1>1, BooleansComeBack
  <1>2. CASE type = "decimal"
    BY <1>2, DecimalsComeBack
  <1>3. CASE type \in {"hexBinary", "base64Binary"}
    BY <1>3, BytesComeBack
  <1>4. CASE type \in {"dateTime", "dateTimeStamp"}
    BY <1>4, MomentsComeBack
  <1>5. CASE type = "time"
    BY <1>5, TimesComeBack
  <1>6. CASE type = "dateTimeInterval"
    BY <1>6, IntervalsComeBack
  <1>7. CASE type \in Stored!TextTypes
    BY <1>7, TextsComeBack
  <1>8. CASE type \in DOMAIN Stored!MachineTypes
    BY <1>8, MachineNumbersComeBack
  <1>9. CASE type \in Stored!FloatTypes
    BY <1>9, FloatsComeBack
  <1>10. CASE type \in Stored!BigTypes
    BY <1>10, IntegersComeBack
  <1>11. CASE type \in FieldTypes
    BY <1>11, FieldsComeBack
  <1>12. CASE type \notin KnownTypes
    BY <1>12, UnknownKind, Refused
  <1> QED BY <1>1, <1>2, <1>3, <1>4, <1>5, <1>6, <1>7, <1>8, <1>9, <1>10, <1>11, <1>12 DEF KnownTypes

\* Whatever is stored, with a type or a language, comes back
LEMMA ObjectsComeBack ==
  ASSUME NEW Terms, NEW Letters, AreTerms(Terms, Letters), NEW object, IsObject(object, Terms, Letters)
  PROVE  LET entry == Stored!MakeObject(object)
             read == IF Stored!IsEntry(entry) THEN Stored!ReadEntry(entry) ELSE entry
         IN /\ object[1] = "value" /\ IsOfType(object[3], object[2]) => read = object
            /\ object[1] = "lang" /\ entry # Stored!Panic => read = object
            /\ Stored!IsEntry(entry) /\ ~WrapsOffset(entry) => Stored!MakeObject(read) = entry
PROOF
  <1> DEFINE entry == Stored!MakeObject(object)
             read == IF Stored!IsEntry(entry) THEN Stored!ReadEntry(entry) ELSE entry
  <1>1. CASE object \in {"value"} \X Terms \X STRING
    <2> DEFINE t == object[2]
               type == object[3]
    <2>1. object = <<"value", t, type>> /\ t \in Terms
      BY <1>1
    <2>2. object[1] = "value"
      BY <2>1
    <2>3. entry = Stored!MakeEntry(type, t)
      BY <2>2 DEF Stored!MakeObject
    <2>4. StoredWell(type, t)
      BY <2>1, TermsComeBack
    <2> QED BY <2>1, <2>2, <2>3, <2>4 DEF StoredWell
  <1>2. CASE object \in {"lang"} \X ({"text"} \X Seq(Letters)) \X ({"atom"} \X Seq(Letters))
    <2>1. PICK text \in Seq(Letters), lang \in Seq(Letters) : object = <<"lang", <<"text", text>>, <<"atom", lang>>>>
      BY <1>2
    <2>2. object[1] = "lang" /\ object[2][2] = text /\ object[3][2] = lang
      BY <2>1
    <2>3. entry = IF Contains(lang, "@") THEN Stored!Panic ELSE Stored!Entry("langString", lang \o <<"@">> \o text)
      BY <2>2 DEF Stored!MakeObject, Stored!MakeLang, Contains, Stored!Contains
    <2>4. CASE Contains(lang, "@")
      <3>1. ~Stored!IsEntry(Stored!Panic)
        BY DEF Stored!IsEntry, Stored!Panic
      <3> QED BY <2>2, <2>3, <2>4, <3>1
    <2>5. CASE ~Contains(lang, "@")
      <3> DEFINE data == lang \o <<"@">> \o text
      <3>1. entry = Stored!Entry("langString", data)
        BY <2>3, <2>5
      <3>2. Stored!SplitLang(data) = <<lang, text>>
        BY <2>5, LanguagesComeBack
      <3> HIDE DEF data
      <3>3. Stored!IsEntry(entry)
        BY <3>1 DEF Stored!IsEntry, Stored!Entry
      <3>4. Stored!ReadEntry(entry) = object
        <4>1. entry[2] = "langString" /\ entry[3] = data
          BY <3>1 DEF Stored!Entry
        <4>2. Stored!ReadEntry(entry) =
                <<"lang", <<"text", Stored!SplitLang(data)[2]>>, <<"atom", Stored!SplitLang(data)[1]>>>>
          BY <4>1 DEF Stored!ReadEntry, Stored!TextTypes, Stored!MachineTypes, Stored!BigTypes, Stored!FloatTypes
        <4> QED BY <2>1, <3>2, <4>2
      <3> QED BY <2>2, <3>3, <3>4
    <2> QED BY <2>4, <2>5
  <1> QED BY <1>1, <1>2 DEF IsObject

AreTriples(triples) == \A t \in triples : t = <<t[1], t[2], t[3]>>

\* However a pattern is bound, the index it reads gives the triples that fit
LEMMA PatternsFit ==
  ASSUME NEW triples, AreTriples(triples), NEW s, NEW p, NEW o
  PROVE  Stored!OfPattern(triples, s, p, o) =
           {t \in triples : Is(s, t[1]) /\ Is(p, t[2]) /\ Is(o, t[3])}
PROOF
  <1> DEFINE Fit == {t \in triples : Is(s, t[1]) /\ Is(p, t[2]) /\ Is(o, t[3])}
  <1>1. \A term, x : Stored!IsBound(term) => (Is(term, x) <=> x = term)
    BY DEF Is, Stored!IsBound
  <1>2. \A term, x : ~Stored!IsBound(term) => Is(term, x)
    BY DEF Is, Stored!IsBound
  <1>3. \A t \in triples : t = <<s, p, o>> <=> t[1] = s /\ t[2] = p /\ t[3] = o
    BY DEF AreTriples
  <1>4. CASE Stored!IsBound(s)
    <2>1. Stored!OfPattern(triples, s, p, o) = Stored!WithSubject(triples, s, p, o)
      BY <1>4 DEF Stored!OfPattern
    <2>2. CASE Stored!IsBound(p) /\ Stored!IsBound(o)
      <3>1. Stored!WithSubject(triples, s, p, o) = triples \cap {<<s, p, o>>}
        BY <2>2 DEF Stored!WithSubject
      <3> QED BY <1>1, <1>3, <1>4, <2>1, <2>2, <3>1
    <2>3. CASE Stored!IsBound(p) /\ ~Stored!IsBound(o)
      <3>1. Stored!WithSubject(triples, s, p, o) = {t \in triples : t[1] = s /\ t[2] = p}
        BY <2>3 DEF Stored!WithSubject, Stored!BySubjectPredicate
      <3> QED BY <1>1, <1>2, <1>4, <2>1, <2>3, <3>1
    <2>4. CASE ~Stored!IsBound(p) /\ Stored!IsBound(o)
      <3>1. Stored!WithSubject(triples, s, p, o) = {t \in {u \in triples : u[1] = s} : t[3] = o}
        BY <2>4 DEF Stored!WithSubject, Stored!ById
      <3> QED BY <1>1, <1>2, <1>4, <2>1, <2>4, <3>1
    <2>5. CASE ~Stored!IsBound(p) /\ ~Stored!IsBound(o)
      <3>1. Stored!WithSubject(triples, s, p, o) = {t \in triples : t[1] = s}
        BY <2>5 DEF Stored!WithSubject, Stored!ById
      <3> QED BY <1>1, <1>2, <1>4, <2>1, <2>5, <3>1
    <2> QED BY <2>2, <2>3, <2>4, <2>5
  <1>5. CASE ~Stored!IsBound(s)
    <2>1. Stored!OfPattern(triples, s, p, o) = Stored!WithoutSubject(triples, p, o)
      BY <1>5 DEF Stored!OfPattern
    <2>2. CASE Stored!IsBound(p) /\ Stored!IsBound(o)
      <3>1. Stored!WithoutSubject(triples, p, o) = {t \in {u \in triples : u[3] = o} : t[2] = p}
        BY <2>2 DEF Stored!WithoutSubject, Stored!ByObject
      <3> QED BY <1>1, <1>2, <1>5, <2>1, <2>2, <3>1
    <2>3. CASE Stored!IsBound(p) /\ ~Stored!IsBound(o)
      <3>1. Stored!WithoutSubject(triples, p, o) = {t \in triples : t[2] = p}
        BY <2>3 DEF Stored!WithoutSubject, Stored!ByPredicate
      <3> QED BY <1>1, <1>2, <1>5, <2>1, <2>3, <3>1
    <2>4. CASE ~Stored!IsBound(p) /\ Stored!IsBound(o)
      <3>1. Stored!WithoutSubject(triples, p, o) = {t \in triples : t[3] = o}
        BY <2>4 DEF Stored!WithoutSubject, Stored!ByObject
      <3> QED BY <1>1, <1>2, <1>5, <2>1, <2>4, <3>1
    <2>5. CASE ~Stored!IsBound(p) /\ ~Stored!IsBound(o)
      <3>1. Stored!WithoutSubject(triples, p, o) = triples
        BY <2>5 DEF Stored!WithoutSubject
      <3> QED BY <1>2, <1>5, <2>1, <2>5, <3>1
    <2> QED BY <2>2, <2>3, <2>4, <2>5
  <1> QED BY <1>4, <1>5

\* What is counted is what is found
LEMMA CardsCount ==
  ASSUME NEW layer, NEW s, NEW p, NEW o
  PROVE  LET fit == {t \in Stored!Triples(layer) : Is(s, t[1]) /\ Is(p, t[2]) /\ Is(o, t[3])}
         IN /\ Stored!IsBound(p) /\ Stored!IsBound(s) /\ ~Stored!IsBound(o) =>
                 Stored!SpCard(layer, s, p) = Cardinality(fit)
            /\ Stored!IsBound(p) /\ ~Stored!IsBound(s) /\ Stored!IsBound(o) =>
                 Stored!OpCard(layer, o, p) = Cardinality(fit)
PROOF
  <1> DEFINE triples == Stored!Triples(layer)
             fit == {t \in triples : Is(s, t[1]) /\ Is(p, t[2]) /\ Is(o, t[3])}
  <1>1. /\ \A term, x : Stored!IsBound(term) => (Is(term, x) <=> x = term)
        /\ \A term, x : ~Stored!IsBound(term) => Is(term, x)
    BY DEF Is, Stored!IsBound
  <1>0. \A S : Stored!Cardinality(S) = Cardinality(S)
    BY DEF Stored!Cardinality, Cardinality
  <1>2. ASSUME Stored!IsBound(p), Stored!IsBound(s), ~Stored!IsBound(o)
        PROVE  Stored!SpCard(layer, s, p) = Cardinality(fit)
    <2>1. {t \in triples : t[1] = s /\ t[2] = p} = fit
      <3> HIDE DEF triples
      <3> QED BY <1>1, <1>2
    <2> QED BY <1>0, <2>1 DEF Stored!SpCard, Stored!BySubjectPredicate
  <1>3. ASSUME Stored!IsBound(p), ~Stored!IsBound(s), Stored!IsBound(o)
        PROVE  Stored!OpCard(layer, o, p) = Cardinality(fit)
    <2>1. {t \in {u \in triples : u[3] = o} : t[2] = p} = fit
      <3> HIDE DEF triples
      <3> QED BY <1>1, <1>3
    <2> QED BY <1>0, <2>1 DEF Stored!OpCard, Stored!ByPredicate, Stored!ByObject
  <1> QED BY <1>2, <1>3

-------------------------------------------------------------------------------
(* The specification *)

\* What is asked: values of some terms, patterns of layers of triples, bounds of any kind
IsQuestion(q, Terms, Letters) ==
  /\ q.kind = "value" => IsObject(q.object, Terms, Letters)
  /\ q.kind = "triples" => AreTriples(q.layer.before \union q.layer.removed \union q.layer.added)

\* Every answer is exact
LEMMA AnsweredExactly ==
  ASSUME NEW Terms, NEW Letters, AreTerms(Terms, Letters), IsQuestion(question, Terms, Letters), LayerNext
  PROVE  LayersAnswerExactly'
PROOF
  <1>1. question' = question
    BY DEF LayerNext, StoreValue, FindTriples, FindValues, Respond
  <1>2. CASE StoreValue
    <2> DEFINE object == question.object
               entry == Stored!MakeObject(object)
               read == IF Stored!IsEntry(entry) THEN Stored!ReadEntry(entry) ELSE entry
    <2>1. question.kind = "value" /\ answer' = <<[entry |-> entry, read |-> read]>>
      BY <1>2 DEF StoreValue, Respond
    <2>2. answer'[1].entry = entry /\ answer'[1].read = read
      <3> HIDE DEF entry, read
      <3> QED BY <2>1
    <2>3. IsObject(object, Terms, Letters)
      BY <2>1 DEF IsQuestion
    <2>4. /\ object[1] = "value" /\ IsOfType(object[3], object[2]) => read = object
          /\ object[1] = "lang" /\ entry # Stored!Panic => read = object
          /\ Stored!IsEntry(entry) /\ ~WrapsOffset(entry) => Stored!MakeObject(read) = entry
      BY <2>3, ObjectsComeBack
    <2> HIDE DEF entry, read
    <2>5. StoredValuesComeBack'
      BY <1>1, <2>2, <2>4 DEF StoredValuesComeBack
    <2>6. PatternsFindTheirTriples'
      BY <1>1, <2>1 DEF PatternsFindTheirTriples, Answered
    <2> QED BY <2>5, <2>6 DEF LayersAnswerExactly
  <1>3. CASE FindTriples
    <2> DEFINE layer == question.layer
               s == question.s
               p == question.p
               o == question.o
               found == Stored!IdTriple(layer, s, p, o)
               added == Stored!IdTripleAddition(layer, s, p, o)
               removed == Stored!IdTripleRemoval(layer, s, p, o)
               card == CASE Stored!IsBound(p) /\ Stored!IsBound(s) -> Stored!SpCard(layer, s, p)
                         [] Stored!IsBound(p) /\ Stored!IsBound(o) -> Stored!OpCard(layer, o, p)
                         [] OTHER -> 0
               fits(triples) == {t \in triples : Is(s, t[1]) /\ Is(p, t[2]) /\ Is(o, t[3])}
    <2>1. /\ question.kind = "triples"
          /\ answer' = <<[found |-> found, added |-> added, removed |-> removed, card |-> card]>>
      BY <1>3 DEF FindTriples, Respond
    <2>2. /\ answer'[1].found = found /\ answer'[1].added = added /\ answer'[1].removed = removed
          /\ answer'[1].card = card
      <3> HIDE DEF found, added, removed, card
      <3> QED BY <2>1
    <2>3. /\ AreTriples(Stored!Triples(layer)) /\ AreTriples(layer.added) /\ AreTriples(layer.removed)
      BY <2>1 DEF IsQuestion, AreTriples, Stored!Triples
    <2>4. /\ found = fits(Stored!Triples(layer)) /\ added = fits(layer.added) /\ removed = fits(layer.removed)
      BY <2>3, PatternsFit DEF Stored!IdTriple, Stored!IdTripleAddition, Stored!IdTripleRemoval
    <2>5. Stored!IsBound(p) /\ Stored!IsBound(s) # Stored!IsBound(o) => card = Cardinality(found)
      <3>1. /\ Stored!IsBound(p) /\ Stored!IsBound(s) /\ ~Stored!IsBound(o) => card = Stored!SpCard(layer, s, p)
            /\ Stored!IsBound(p) /\ ~Stored!IsBound(s) /\ Stored!IsBound(o) => card = Stored!OpCard(layer, o, p)
        OBVIOUS
      <3>2. /\ Stored!IsBound(p) /\ Stored!IsBound(s) /\ ~Stored!IsBound(o) =>
                 Stored!SpCard(layer, s, p) = Cardinality(fits(Stored!Triples(layer)))
            /\ Stored!IsBound(p) /\ ~Stored!IsBound(s) /\ Stored!IsBound(o) =>
                 Stored!OpCard(layer, o, p) = Cardinality(fits(Stored!Triples(layer)))
        BY CardsCount
      <3>3. Stored!IsBound(s) \in BOOLEAN /\ Stored!IsBound(o) \in BOOLEAN
        BY DEF Stored!IsBound
      <3> HIDE DEF found, card, fits
      <3> QED BY <2>4, <3>1, <3>2, <3>3
    <2> HIDE DEF found, added, removed, card
    <2>6. PatternsFindTheirTriples'
      BY <1>1, <2>2, <2>4, <2>5 DEF PatternsFindTheirTriples, Stored!Triples
    <2>7. StoredValuesComeBack'
      BY <1>1, <2>1 DEF StoredValuesComeBack, Answered
    <2> QED BY <2>6, <2>7 DEF LayersAnswerExactly
  <1>4. CASE FindValues
    BY <1>1, <1>4 DEF FindValues, LayersAnswerExactly, StoredValuesComeBack, PatternsFindTheirTriples, Answered
  <1> QED BY <1>2, <1>3, <1>4 DEF LayerNext

\* Whatever is asked of a layer, the answer is exact (value.rs, layer.rs): a value of its type
\* comes back as it was stored, a value that is read finds the entry it was read from, and a
\* pattern gives the triples that fit it, however it is bound
THEOREM LayersAnswer ==
  ASSUME NEW CONSTANT questions, NEW CONSTANT Terms, NEW CONSTANT Letters, AreTerms(Terms, Letters),
         \A some \in questions : \A q \in some : IsQuestion(q, Terms, Letters)
  PROVE  LayerSpec(questions) => []LayersAnswerExactly
PROOF
  <1> DEFINE Inv == IsQuestion(question, Terms, Letters) /\ LayersAnswerExactly
  <1>1. ExchangeInit(questions) => Inv
    BY DEF ExchangeInit, LayersAnswerExactly, StoredValuesComeBack, PatternsFindTheirTriples, Answered
  <1>2. Inv /\ [LayerNext]_exchangeVars => Inv'
    <2> SUFFICES ASSUME Inv, [LayerNext]_exchangeVars PROVE Inv'
      OBVIOUS
    <2>1. CASE LayerNext
      <3>1. question' = question
        BY <2>1 DEF LayerNext, StoreValue, FindTriples, FindValues, Respond
      <3> QED BY <2>1, <3>1, AnsweredExactly DEF IsQuestion
    <2>2. CASE UNCHANGED exchangeVars
      BY <2>2 DEF exchangeVars, IsQuestion, LayersAnswerExactly, StoredValuesComeBack, PatternsFindTheirTriples, Answered
    <2> QED BY <2>1, <2>2
  <1> QED BY <1>1, <1>2, PTL DEF LayerSpec

======================================================================================
