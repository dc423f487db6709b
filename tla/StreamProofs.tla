----------------------------- MODULE StreamProofs -----------------------------
(***************************************************************************)
(* Proofs about the commit stream.  An event is on its way to a client for *)
(* a long time: queued for the forwarder, in the buffer of its subscriber, *)
(* in the hands of a task, in the channel of the response.  The invariant  *)
(* says for each of these places which broadcast it is, by counting: what  *)
(* was given to a client, what is on its way, and what is still queued add *)
(* up to what was sent.                                                    *)
(***************************************************************************)
EXTENDS CommitStream, SequenceTheorems, FiniteSetTheorems, TLAPS

-------------------------------------------------------------------------------
(* The invariant: shapes *)

IsSequence(q) == q \in Seq(Range(q))

Events == {Event(c) : c \in Commits}
Subscribers == [buf : Seq(Events), hand : Events \cup {Nothing}, alive : BOOLEAN]
Commands == {Subscribe(ch, s) : ch \in Channels, s \in Streams}
              \cup {Unsubscribe(ch, s) : ch \in Channels, s \in Streams}
              \cup {UnsubscribeAll(s) : s \in Streams}
              \cup {Broadcast(ch, c) : ch \in Channels, c \in Commits}
Hooks == [at : {"none", "sweep", "broadcast", "done"}, branch : Channels \cup {Nothing},
          left : Int]

ServerTypes ==
  /\ ServerTypeOK
  /\ DOMAIN chan = Streams /\ DOMAIN header = Streams /\ DOMAIN got = Streams
  /\ \A s \in Streams : IsSequence(chan[s]) /\ IsSequence(got[s])
  /\ cmds \in Seq(Commands)
  /\ \A k \in DOMAIN subs : subs[k] \in Subscribers
  /\ log \in [Channels -> Seq(Commits)]

PluginTypes ==
  /\ history \in [Channels -> Seq(Commits)] /\ sent \in [Channels -> Seq(Commits)]
  /\ made \in Commits
  /\ hook \in [Commits -> Hooks]
  /\ \A c \in Commits : hook[c].at \in {"sweep", "broadcast"} => hook[c].branch \in Channels
  /\ handler \in [Streams -> {"none", "timeout", "phase1", "history", "delta",
                              "subscribe", "failed", "done"}]
  /\ listed \subseteq Streams /\ IsFiniteSet(listed)
  /\ timeout \in [Streams -> {"none", "running", "fired"}]
  /\ DOMAIN direct = Streams /\ \A s \in Streams : IsSequence(direct[s])
  /\ DOMAIN mutex = Channels
  /\ joined \in [Streams -> Nat \cup {Nothing}]

Types == ServerTypes /\ PluginTypes

\* Who has a broadcast mutex, and who may be listed.
Holders ==
  /\ \A b \in Channels : mutex[b] # Free =>
       /\ mutex[b] \in Streams /\ BranchOf[mutex[b]] = b
       /\ handler[mutex[b]] \in {"delta", "subscribe"}
  /\ \A s \in Streams :
       /\ s \in listed => handler[s] = "done"
       /\ handler[s] = "subscribe" \/ s \in listed => s \in senders \/ ~ReceiverIsOpen(s)

-------------------------------------------------------------------------------
(* The invariant: what is in a response *)

\* The first chunk becomes the header, so the body begins with the second one.
Ahead(s) == IF http[s] \in {"waiting", "left"} THEN 1 ELSE 0
\* Chunks of the body of a response so far
Length(s) == Len(got[s]) + Len(chan[s]) - Ahead(s)

\* The events a response is to have, by position
Live(s) == IF joined[s] = Nothing THEN 0 ELSE Len(log[BranchOf[s]]) - joined[s]
Expected(s, i) ==
  IF i <= Len(direct[s]) THEN direct[s][i]
  ELSE log[BranchOf[s]][joined[s] + (i - Len(direct[s]))]
Fits(s, i, chunk) == i <= Len(direct[s]) + Live(s) /\ chunk = Event(Expected(s, i))

\* The handler gave up, and nothing comes after its error.
GaveUp(s, chunk) == chunk = Answer("failed") /\ handler[s] = "done" /\ joined[s] = Nothing

\* A handler that has sent its header and is not over
Sending(s) == handler[s] \in {"timeout", "phase1", "history", "delta", "subscribe"}

Begun(s) ==
  /\ http[s] = "new" => handler[s] = "none"
  /\ handler[s] = "none" =>
       chan[s] = <<>> /\ got[s] = <<>> /\ direct[s] = <<>> /\ joined[s] = Nothing
  /\ joined[s] # Nothing => handler[s] = "done" /\ joined[s] <= Len(log[BranchOf[s]])

Headed(s) ==
  /\ Ahead(s) = 1 =>
       /\ got[s] = <<>>
       /\ chan[s] # <<>> => chan[s][1].type = "answer"
       /\ Sending(s) \/ joined[s] # Nothing => chan[s] # <<>>
  /\ header[s] # Nothing => header[s].type = "answer"

Given(s) ==
  \A i \in 1 .. Len(got[s]) :
    \/ Fits(s, i, got[s][i])
    \/ i = Len(got[s]) /\ GaveUp(s, got[s][i]) /\ (ReceiverIsOpen(s) => chan[s] = <<>>)

Awaited(s) ==
  ReceiverIsOpen(s) =>
    /\ \A j \in 1 + Ahead(s) .. Len(chan[s]) :
         \/ Fits(s, Len(got[s]) + j - Ahead(s), chan[s][j])
         \/ j = Len(chan[s]) /\ GaveUp(s, chan[s][j])
    /\ Sending(s) => Length(s) = Len(direct[s])

Response(s) == Begun(s) /\ Headed(s) /\ Given(s) /\ Awaited(s)

-------------------------------------------------------------------------------
(* The invariant: broadcasts on their way *)

\* u[b][i]: the broadcasts on b that the forwarder has sent when it has taken i commands
\* of the queue q; l is what was broadcast.
Sends(cmd, b) == cmd.op = "send" /\ cmd.ch = b
Queued(u, q, l) ==
  \A b \in Channels :
    /\ u[b][Len(q)] = Len(l[b])
    /\ \A i \in 0 .. Len(q) : u[b][i] <= Len(l[b])
    /\ \A i \in 1 .. Len(q) :
         /\ Sends(q[i], b) => /\ u[b][i] = u[b][i - 1] + 1
                              /\ q[i].chunk = Event(l[b][u[b][i]])
         /\ ~Sends(q[i], b) => u[b][i] = u[b][i - 1]

\* A stream subscribes once, for what is broadcast from then on.
Subscribes(cmd, s) == cmd.op = "subscribe" /\ cmd.s = s
Asked(u, s) ==
  \A i \in 1 .. Len(cmds) : Subscribes(cmds[i], s) =>
    /\ cmds[i].ch = BranchOf[s] /\ joined[s] = u[BranchOf[s]][i]
    /\ \A j \in 1 .. Len(cmds) : Subscribes(cmds[j], s) => j = i
    /\ <<BranchOf[s], s>> \notin DOMAIN subs
    /\ ReceiverIsOpen(s) => Length(s) = Len(direct[s])

\* What a subscriber has, after what its response has
InHand(k) == IF subs[k].hand = Nothing THEN 0 ELSE 1
Follows(k) ==
  /\ InHand(k) = 1 => Fits(k[2], Length(k[2]) + 1, subs[k].hand)
  /\ \A j \in 1 .. Len(subs[k].buf) :
       Fits(k[2], Length(k[2]) + InHand(k) + j, subs[k].buf[j])
OnItsWay(u, k) ==
  /\ k[1] = BranchOf[k[2]] /\ joined[k[2]] # Nothing /\ joined[k[2]] <= u[k[1]][0]
  /\ ReceiverIsOpen(k[2]) =>
       /\ subs[k].alive
       /\ Length(k[2]) + InHand(k) + Len(subs[k].buf)
            = Len(direct[k[2]]) + (u[k[1]][0] - joined[k[2]])
       /\ Follows(k)

Counts == [Channels -> [Nat -> Nat]]
Delivers(u) ==
  /\ Queued(u, cmds, log)
  /\ \A s \in Streams : Asked(u, s)
  /\ \A k \in DOMAIN subs : OnItsWay(u, k)

StreamInv ==
  /\ Types /\ Holders
  /\ \A s \in Streams : Response(s)
  /\ \E u \in Counts : Delivers(u)

-------------------------------------------------------------------------------
(* Sequences *)

LEMMA Sequences ==
  ASSUME NEW q, IsSequence(q)
  PROVE  /\ Len(q) \in Nat /\ DOMAIN q = 1 .. Len(q)
         /\ q = <<>> <=> Len(q) = 0
         /\ q # <<>> => Len(q) \in Nat \ {0} /\ 1 \in 1 .. Len(q) /\ Head(q) = q[1]
PROOF
  <1> DEFINE S == Range(q)
  <1>1. q \in Seq(S)
    BY DEF IsSequence
  <1> HIDE DEF S
  <1> QED BY <1>1

LEMMA EmptySequence == IsSequence(<<>>) /\ Len(<<>>) = 0
PROOF BY DEF IsSequence

LEMMA TypedSequence ==
  ASSUME NEW S, NEW q \in Seq(S)
  PROVE  IsSequence(q)
PROOF
  <1>1. /\ Len(q) \in Nat /\ DOMAIN q = 1 .. Len(q)
        /\ q = [i \in 1 .. Len(q) |-> q[i]]
    OBVIOUS
  <1>2. \A i \in 1 .. Len(q) : q[i] \in Range(q)
    BY <1>1 DEF Range
  <1>3. q \in [1 .. Len(q) -> Range(q)]
    BY <1>1, <1>2
  <1> QED BY <1>1, <1>3 DEF IsSequence

LEMMA AppendElements ==
  ASSUME NEW q, IsSequence(q), NEW x
  PROVE  /\ IsSequence(Append(q, x)) /\ Append(q, x) # <<>>
         /\ Len(Append(q, x)) = Len(q) + 1 /\ Len(q) \in Nat
         /\ \A i \in 1 .. Len(q) : Append(q, x)[i] = q[i]
         /\ Append(q, x)[Len(q) + 1] = x
PROOF
  <1> DEFINE S == Range(q) \cup {x}
  <1>1. q \in Seq(S) /\ x \in S
    <2>1. PICK R : R = Range(q)
      OBVIOUS
    <2>2. q \in Seq(R)
      BY <2>1 DEF IsSequence
    <2> QED BY <2>1, <2>2
  <1> HIDE DEF S
  <1>2. /\ Append(q, x) \in Seq(S) /\ Append(q, x) # <<>>
        /\ Len(Append(q, x)) = Len(q) + 1 /\ Len(q) \in Nat
        /\ \A i \in 1 .. Len(q) : Append(q, x)[i] = q[i]
        /\ Append(q, x)[Len(q) + 1] = x
    BY <1>1
  <1> QED BY <1>2, TypedSequence

LEMMA TailElements ==
  ASSUME NEW q, IsSequence(q), q # <<>>
  PROVE  /\ IsSequence(Tail(q)) /\ Len(Tail(q)) = Len(q) - 1
         /\ Len(q) \in Nat \ {0} /\ Head(q) = q[1]
         /\ \A i \in 1 .. Len(q) - 1 : Tail(q)[i] = q[i + 1]
PROOF
  <1> DEFINE S == Range(q)
  <1>1. q \in Seq(S)
    BY DEF IsSequence
  <1> HIDE DEF S
  <1>2. /\ Tail(q) \in Seq(S) /\ Len(Tail(q)) = Len(q) - 1
        /\ Len(q) \in Nat \ {0} /\ Head(q) = q[1]
        /\ \A i \in 1 .. Len(q) - 1 : Tail(q)[i] = q[i + 1]
    BY <1>1
  <1> QED BY <1>2, TypedSequence

LEMMA ConcatElements ==
  ASSUME NEW q, IsSequence(q), NEW r, IsSequence(r)
  PROVE  /\ IsSequence(q \o r) /\ Len(q \o r) = Len(q) + Len(r)
         /\ Len(q) \in Nat /\ Len(r) \in Nat
         /\ \A i \in 1 .. Len(q) : (q \o r)[i] = q[i]
         /\ \A i \in 1 .. Len(r) : (q \o r)[Len(q) + i] = r[i]
PROOF
  <1> DEFINE S == Range(q) \cup Range(r)
  <1>1. q \in Seq(S) /\ r \in Seq(S)
    <2>1. PICK A, B : A = Range(q) /\ B = Range(r)
      OBVIOUS
    <2>2. q \in Seq(A) /\ r \in Seq(B)
      BY <2>1 DEF IsSequence
    <2> QED BY <2>1, <2>2
  <1> HIDE DEF S
  <1>2. /\ q \o r \in Seq(S) /\ Len(q \o r) = Len(q) + Len(r)
        /\ Len(q) \in Nat /\ Len(r) \in Nat
        /\ \A i \in 1 .. Len(q) : (q \o r)[i] = q[i]
        /\ \A i \in 1 .. Len(r) : (q \o r)[Len(q) + i] = r[i]
    BY <1>1
  <1> QED BY <1>2, TypedSequence

\* Some sequence of all elements.
LEMMA SetToSeqIsSequence ==
  ASSUME NEW S, IsFiniteSet(S)
  PROVE  SetToSeq(S) \in Seq(S)
PROOF
  <1>1. PICK f \in [1 .. Cardinality(S) -> S] : f \in Bijection(1 .. Cardinality(S), S)
    BY FS_CardinalityType DEF ExistsBijection, Bijection, Injection
  <1>2. IsInjective(f)
    BY <1>1 DEF IsInjective, Bijection, Injection
  <1>3. SetToSeq(S) \in [1 .. Cardinality(S) -> S]
    BY <1>2 DEF SetToSeq
  <1> QED BY <1>3, FS_CardinalityType

-------------------------------------------------------------------------------
(* Types *)

\* The parts of ServerTypes that actions change, one at a time.
ChanTypes ==
  /\ DOMAIN chan = Streams /\ senders \subseteq Streams
  /\ \A s \in Streams : IsSequence(chan[s]) /\ Len(chan[s]) <= ResponseBuffer
QueueTypes == forwarder \in BOOLEAN /\ cmds \in Seq(Commands)
SubTypes ==
  /\ DOMAIN subs \subseteq Channels \X Streams
  /\ \A k \in DOMAIN subs : subs[k] \in Subscribers /\ Len(subs[k].buf) <= SubscriberBuffer
GotTypes ==
  /\ DOMAIN header = Streams /\ DOMAIN got = Streams
  /\ \A s \in Streams : IsSequence(got[s])
HttpTypes ==
  http \in [Streams -> {"new", "waiting", "left", "streaming", "guard", "forget",
                        "ended", "abandoned"}]

LEMMA ServerTypesParts ==
  /\ ServerTypes <=> /\ runtime \in BOOLEAN /\ HttpTypes /\ ChanTypes /\ GotTypes
                     /\ QueueTypes /\ SubTypes /\ log \in [Channels -> Seq(Commits)]
  /\ ServerTypes' <=> /\ runtime' \in BOOLEAN /\ HttpTypes' /\ ChanTypes' /\ GotTypes'
                      /\ QueueTypes' /\ SubTypes' /\ log' \in [Channels -> Seq(Commits)]
PROOF BY DEF ServerTypes, ServerTypeOK, HttpTypes, ChanTypes, GotTypes, QueueTypes, SubTypes

\* A chunk is sent, or the channel is left as it is.
LEMMA SendTypes ==
  ASSUME ChanTypes, NEW s \in Streams, NEW x,
         Send(s, x) \/ SendAndClose(s, x)
  PROVE  ChanTypes'
PROOF
  <1>1. CASE Sent(s)
    <2>1. chan' = [chan EXCEPT ![s] = Append(@, x)] /\ senders' \subseteq Streams
      BY <1>1 DEF Send, SendAndClose, ChanTypes
    <2>2. Len(chan[s]) < ResponseBuffer /\ IsSequence(chan[s]) /\ DOMAIN chan = Streams
      BY <1>1 DEF Sent, ChanTypes
    <2>3. IsSequence(Append(chan[s], x)) /\ Len(Append(chan[s], x)) <= ResponseBuffer
      BY <2>2, AppendElements, BuffersHoldSomething
    <2> QED BY <2>1, <2>2, <2>3 DEF ChanTypes
  <1>2. CASE ~Sent(s)
    BY <1>2 DEF Send, SendAndClose, ChanTypes
  <1> QED BY <1>1, <1>2

LEMMA PushTypes ==
  ASSUME QueueTypes, runtime \in BOOLEAN, NEW cs \in Seq(Commands), Push(cs)
  PROVE  QueueTypes'
PROOF BY DEF QueueTypes, Push

LEMMA RetractTypes ==
  ASSUME Types, NEW ss, RetractStreams(ss)
  PROVE  /\ QueueTypes' /\ senders' \subseteq Streams
         /\ listed' \subseteq Streams /\ IsFiniteSet(listed')
         /\ \E cs \in Seq(Commands) :
              /\ cmds' = cmds \o cs
              /\ \A i \in 1 .. Len(cs) : cs[i].op = "unsubscribe"
PROOF
  <1> DEFINE gone == ss \cap listed
             C == {Unsubscribe(BranchOf[s], s) : s \in gone}
             f == [s \in gone |-> Unsubscribe(BranchOf[s], s)]
  <1>1. gone \subseteq Streams /\ IsFiniteSet(gone) /\ IsFiniteSet(listed \ ss)
    BY FS_Subset DEF Types, PluginTypes
  <1>2. f \in Surjection(gone, C)
    BY DEF Surjection
  <1>3. IsFiniteSet(C)
    BY <1>1, <1>2, FS_Surjection
  <1>4. C \subseteq Commands /\ \A x \in C : x.op = "unsubscribe"
    BY <1>1, StreamAssumption DEF Commands, Unsubscribe
  <1>5. PICK cs : cs = SetToSeq(C)
    OBVIOUS
  <1> HIDE DEF C, f
  <1>6. cs \in Seq(C)
    BY <1>3, <1>5, SetToSeqIsSequence
  <1>7. cs \in Seq(Commands) /\ \A i \in 1 .. Len(cs) : cs[i].op = "unsubscribe"
    BY <1>4, <1>6
  <1>8. Push(cs) /\ listed' = listed \ ss /\ senders' \subseteq senders
    BY <1>5 DEF RetractStreams, C
  <1>9. QueueTypes'
    BY <1>7, <1>8, PushTypes, ServerTypesParts DEF Types
  <1>10. cmds' = cmds \o cs
    BY <1>8 DEF Push
  <1> QED BY <1>1, <1>7, <1>8, <1>9, <1>10 DEF Types, ServerTypes, ServerTypeOK, PluginTypes

\* What a command is, and what it does.
LEMMA ForwardEffect ==
  ASSUME ServerTypes, Forward
  PROVE  /\ IsSequence(cmds) /\ cmds # <<>> /\ cmds' = Tail(cmds) /\ cmds' \in Seq(Commands)
         /\ \/ \E ch \in Channels, s \in Streams :
                 /\ cmds[1] = Subscribe(ch, s)
                 /\ subs' = [k \in DOMAIN subs \cup {<<ch, s>>} |->
                               IF k = <<ch, s>> THEN NewSubscriber ELSE subs[k]]
            \/ \E ch \in Channels, s \in Streams :
                 cmds[1] = Unsubscribe(ch, s) /\ subs' = Without(subs, {<<ch, s>>})
            \/ \E s \in Streams :
                 /\ cmds[1] = UnsubscribeAll(s)
                 /\ subs' = Without(subs, {k \in DOMAIN subs : k[2] = s})
            \/ \E ch \in Channels, c \in Commits :
                 /\ cmds[1] = Broadcast(ch, c)
                 /\ subs' = [k \in DOMAIN subs \ SlowOn(ch) |->
                               IF k \in SubsOf(ch) /\ HasRoom(k)
                               THEN [subs[k] EXCEPT !.buf = Append(@, Event(c))] ELSE subs[k]]
PROOF
  <1>1. cmds \in Seq(Commands) /\ cmds # <<>>
    BY DEF ServerTypes, Forward
  <1>2. Head(cmds) = cmds[1] /\ cmds[1] \in Commands /\ Tail(cmds) \in Seq(Commands)
    BY <1>1
  <1>3. IsSequence(cmds) /\ cmds' = Tail(cmds)
    BY <1>1, TypedSequence DEF Forward
  <1>4. PICK cmd : cmd = Head(cmds)
    OBVIOUS
  <1>5. subs' = CASE cmd.op = "subscribe" ->
                      [k \in DOMAIN subs \cup {<<cmd.ch, cmd.s>>} |->
                         IF k = <<cmd.ch, cmd.s>> THEN NewSubscriber ELSE subs[k]]
                 [] cmd.op = "unsubscribe" -> Without(subs, {<<cmd.ch, cmd.s>>})
                 [] cmd.op = "unsubscribe_all" ->
                      Without(subs, {k \in DOMAIN subs : k[2] = cmd.s})
                 [] cmd.op = "send" ->
                      [k \in DOMAIN subs \ SlowOn(cmd.ch) |->
                         IF k \in SubsOf(cmd.ch) /\ HasRoom(k)
                         THEN [subs[k] EXCEPT !.buf = Append(@, cmd.chunk)] ELSE subs[k]]
    BY <1>4, Zenon DEF Forward
  <1>6. ASSUME NEW ch \in Channels, NEW s \in Streams, cmd = Subscribe(ch, s)
        PROVE  /\ cmds[1] = Subscribe(ch, s)
               /\ subs' = [k \in DOMAIN subs \cup {<<ch, s>>} |->
                             IF k = <<ch, s>> THEN NewSubscriber ELSE subs[k]]
    <2>1. cmd.op = "subscribe" /\ cmd.ch = ch /\ cmd.s = s
      BY <1>6 DEF Subscribe
    <2>2. subs' = [k \in DOMAIN subs \cup {<<cmd.ch, cmd.s>>} |->
                     IF k = <<cmd.ch, cmd.s>> THEN NewSubscriber ELSE subs[k]]
      BY <1>5, <2>1
    <2> QED BY <1>2, <1>4, <1>6, <2>1, <2>2
  <1>7. ASSUME NEW ch \in Channels, NEW s \in Streams, cmd = Unsubscribe(ch, s)
        PROVE  cmds[1] = Unsubscribe(ch, s) /\ subs' = Without(subs, {<<ch, s>>})
    <2>1. cmd.op = "unsubscribe" /\ cmd.ch = ch /\ cmd.s = s
      BY <1>7 DEF Unsubscribe
    <2>2. subs' = Without(subs, {<<cmd.ch, cmd.s>>})
      BY <1>5, <2>1
    <2> QED BY <1>2, <1>4, <1>7, <2>1, <2>2
  <1>8. ASSUME NEW s \in Streams, cmd = UnsubscribeAll(s)
        PROVE  /\ cmds[1] = UnsubscribeAll(s)
               /\ subs' = Without(subs, {k \in DOMAIN subs : k[2] = s})
    <2>1. cmd.op = "unsubscribe_all" /\ cmd.s = s
      BY <1>8 DEF UnsubscribeAll
    <2>2. subs' = Without(subs, {k \in DOMAIN subs : k[2] = cmd.s})
      BY <1>5, <2>1
    <2> QED BY <1>2, <1>4, <1>8, <2>1, <2>2
  <1>9. ASSUME NEW ch \in Channels, NEW c \in Commits, cmd = Broadcast(ch, c)
        PROVE  /\ cmds[1] = Broadcast(ch, c)
               /\ subs' = [k \in DOMAIN subs \ SlowOn(ch) |->
                             IF k \in SubsOf(ch) /\ HasRoom(k)
                             THEN [subs[k] EXCEPT !.buf = Append(@, Event(c))] ELSE subs[k]]
    <2>1. cmd.op = "send" /\ cmd.ch = ch /\ cmd.chunk = Event(c)
      BY <1>9 DEF Broadcast
    <2>2. subs' = [k \in DOMAIN subs \ SlowOn(cmd.ch) |->
                     IF k \in SubsOf(cmd.ch) /\ HasRoom(k)
                     THEN [subs[k] EXCEPT !.buf = Append(@, cmd.chunk)] ELSE subs[k]]
      BY <1>5, <2>1
    <2> QED BY <1>2, <1>4, <1>9, <2>1, <2>2
  <1>10. \/ \E ch \in Channels, s \in Streams : cmd = Subscribe(ch, s)
         \/ \E ch \in Channels, s \in Streams : cmd = Unsubscribe(ch, s)
         \/ \E s \in Streams : cmd = UnsubscribeAll(s)
         \/ \E ch \in Channels, c \in Commits : cmd = Broadcast(ch, c)
    <2>1. cmd \in Commands
      BY <1>2, <1>4
    <2>2. cmd \in {Subscribe(ch, s) : ch \in Channels, s \in Streams}
            => \E ch \in Channels, s \in Streams : cmd = Subscribe(ch, s)
      OBVIOUS
    <2>3. cmd \in {Unsubscribe(ch, s) : ch \in Channels, s \in Streams}
            => \E ch \in Channels, s \in Streams : cmd = Unsubscribe(ch, s)
      OBVIOUS
    <2>4. cmd \in {UnsubscribeAll(s) : s \in Streams}
            => \E s \in Streams : cmd = UnsubscribeAll(s)
      OBVIOUS
    <2>5. cmd \in {Broadcast(ch, c) : ch \in Channels, c \in Commits}
            => \E ch \in Channels, c \in Commits : cmd = Broadcast(ch, c)
      OBVIOUS
    <2>6. \/ cmd \in {Subscribe(ch, s) : ch \in Channels, s \in Streams}
          \/ cmd \in {Unsubscribe(ch, s) : ch \in Channels, s \in Streams}
          \/ cmd \in {UnsubscribeAll(s) : s \in Streams}
          \/ cmd \in {Broadcast(ch, c) : ch \in Channels, c \in Commits}
      BY <2>1 DEF Commands
    <2> QED BY <2>2, <2>3, <2>4, <2>5, <2>6
  <1> QED BY <1>1, <1>2, <1>3, <1>6, <1>7, <1>8, <1>9, <1>10, Zenon

LEMMA ForwardTypes ==
  ASSUME ServerTypes, Forward
  PROVE  SubTypes'
PROOF
  <1>1. SubTypes
    BY ServerTypesParts
  <1>2. ASSUME NEW ch \in Channels, NEW s \in Streams,
               subs' = [k \in DOMAIN subs \cup {<<ch, s>>} |->
                          IF k = <<ch, s>> THEN NewSubscriber ELSE subs[k]]
        PROVE  SubTypes'
    <2>1. NewSubscriber \in Subscribers /\ Len(NewSubscriber.buf) <= SubscriberBuffer
      BY BuffersHoldSomething DEF NewSubscriber, Subscribers
    <2> QED BY <1>1, <1>2, <2>1 DEF SubTypes
  <1>3. ASSUME NEW S, subs' = Without(subs, S)
        PROVE  SubTypes'
    BY <1>1, <1>3 DEF SubTypes, Without
  <1>4. ASSUME NEW ch \in Channels, NEW c \in Commits,
               subs' = [k \in DOMAIN subs \ SlowOn(ch) |->
                          IF k \in SubsOf(ch) /\ HasRoom(k)
                          THEN [subs[k] EXCEPT !.buf = Append(@, Event(c))] ELSE subs[k]]
        PROVE  SubTypes'
    <2>1. ASSUME NEW k \in DOMAIN subs, HasRoom(k)
          PROVE  LET r == [subs[k] EXCEPT !.buf = Append(@, Event(c))]
                 IN r \in Subscribers /\ Len(r.buf) <= SubscriberBuffer
      <3>1. Event(c) \in Events /\ subs[k].buf \in Seq(Events) /\ subs[k] \in Subscribers
        BY <1>1 DEF SubTypes, Subscribers, Events
      <3>2. /\ Append(subs[k].buf, Event(c)) \in Seq(Events)
            /\ Len(Append(subs[k].buf, Event(c))) <= SubscriberBuffer
        BY <2>1, <3>1, BuffersHoldSomething DEF HasRoom
      <3> QED BY <3>1, <3>2 DEF Subscribers
    <2> QED BY <1>1, <1>4, <2>1 DEF SubTypes
  <1> QED BY <1>2, <1>3, <1>4, ForwardEffect, Zenon

LEMMA TaskTypes ==
  ASSUME ServerTypes, NEW k \in DOMAIN subs, TaskReceives(k) \/ TaskSends(k)
  PROVE  SubTypes' /\ ChanTypes'
PROOF
  <1>1. SubTypes /\ ChanTypes /\ k[2] \in Streams /\ subs[k] \in Subscribers
    BY ServerTypesParts DEF SubTypes
  <1>2. CASE TaskReceives(k)
    <2>1. PICK r : r = [subs[k] EXCEPT !.hand = Head(subs[k].buf), !.buf = Tail(@)]
      OBVIOUS
    <2>2. subs[k].buf \in Seq(Events) /\ subs[k].buf # <<>> /\ Len(subs[k].buf) <= SubscriberBuffer
      BY <1>1, <1>2 DEF TaskReceives, SubTypes, Subscribers
    <2>3. r \in Subscribers /\ Len(r.buf) <= SubscriberBuffer
      <3>1. Head(subs[k].buf) \in Events /\ Tail(subs[k].buf) \in Seq(Events)
        BY <2>2
      <3>2. Len(Tail(subs[k].buf)) <= SubscriberBuffer
        BY <2>2, BuffersHoldSomething
      <3> QED BY <1>1, <2>1, <3>1, <3>2 DEF Subscribers
    <2>4. DOMAIN subs' = DOMAIN subs /\ \A j \in DOMAIN subs : subs'[j] = IF j = k THEN r ELSE subs[j]
      BY <1>2, <2>1 DEF TaskReceives
    <2>5. SubTypes'
      BY <1>1, <2>3, <2>4 DEF SubTypes
    <2> QED BY <1>1, <1>2, <2>5 DEF ChanTypes, TaskReceives
  <1>3. CASE TaskSends(k) /\ ReceiverIsOpen(k[2])
    <2>1. PICK r : r = [subs[k] EXCEPT !.hand = Nothing]
      OBVIOUS
    <2>2. r \in Subscribers /\ r.buf = subs[k].buf
      BY <1>1, <2>1 DEF Subscribers
    <2>3. DOMAIN subs' = DOMAIN subs /\ \A j \in DOMAIN subs : subs'[j] = IF j = k THEN r ELSE subs[j]
      BY <1>3, <2>1 DEF TaskSends
    <2>4. SubTypes'
      BY <1>1, <2>2, <2>3 DEF SubTypes
    <2>5. /\ chan' = [chan EXCEPT ![k[2]] = Append(@, subs[k].hand)]
          /\ Len(chan[k[2]]) < ResponseBuffer /\ IsSequence(chan[k[2]]) /\ senders' = senders
      BY <1>1, <1>3 DEF TaskSends, ChanTypes
    <2>6. /\ IsSequence(Append(chan[k[2]], subs[k].hand))
          /\ Len(Append(chan[k[2]], subs[k].hand)) <= ResponseBuffer
      BY <2>5, AppendElements, BuffersHoldSomething
    <2> QED BY <1>1, <2>4, <2>5, <2>6 DEF ChanTypes
  <1>4. CASE TaskSends(k) /\ ~ReceiverIsOpen(k[2])
    <2>1. PICK r : r = [subs[k] EXCEPT !.hand = Nothing, !.buf = <<>>, !.alive = FALSE]
      OBVIOUS
    <2>2. r \in Subscribers /\ r.buf = <<>>
      <3>1. <<>> \in Seq(Events)
        OBVIOUS
      <3> QED BY <1>1, <2>1, <3>1 DEF Subscribers
    <2>3. DOMAIN subs' = DOMAIN subs /\ \A j \in DOMAIN subs : subs'[j] = IF j = k THEN r ELSE subs[j]
      BY <1>4, <2>1 DEF TaskSends
    <2>4. SubTypes'
      BY <1>1, <2>2, <2>3, BuffersHoldSomething DEF SubTypes
    <2> QED BY <1>1, <1>4, <2>4 DEF TaskSends, ChanTypes
  <1> QED BY <1>2, <1>3, <1>4

LEMMA ServerStepTypes ==
  ASSUME ServerTypes, ServerStep(Held)
  PROVE  ServerTypes'
PROOF
  <1> DEFINE Goal == /\ runtime' \in BOOLEAN /\ HttpTypes' /\ ChanTypes' /\ GotTypes'
                     /\ QueueTypes' /\ SubTypes' /\ log' \in [Channels -> Seq(Commits)]
  <1> SUFFICES Goal
    BY ServerTypesParts
  <1>1. /\ runtime \in BOOLEAN /\ HttpTypes /\ ChanTypes /\ GotTypes
        /\ QueueTypes /\ SubTypes /\ log \in [Channels -> Seq(Commits)]
    BY ServerTypesParts
  <1>2. ASSUME StartServer PROVE Goal
    BY <1>1, <1>2 DEF StartServer, HttpTypes, ChanTypes, GotTypes, QueueTypes, SubTypes
  <1>3. ASSUME Forward PROVE Goal
    <2>1. SubTypes' /\ cmds' \in Seq(Commands)
      BY <1>3, ForwardTypes, ForwardEffect
    <2> QED BY <1>1, <1>3, <2>1 DEF Forward, HttpTypes, ChanTypes, GotTypes, QueueTypes
  <1>4. ASSUME NEW k \in DOMAIN subs, TaskReceives(k) \/ TaskSends(k) PROVE Goal
    <2>1. SubTypes' /\ ChanTypes'
      BY <1>4, TaskTypes
    <2> QED BY <1>1, <1>4, <2>1 DEF TaskReceives, TaskSends, HttpTypes, GotTypes, QueueTypes
  <1>5. ASSUME NEW s \in Streams, Connect(s) PROVE Goal
    BY <1>1, <1>5 DEF Connect, HttpTypes, ChanTypes, GotTypes, QueueTypes, SubTypes
  <1>6. ASSUME NEW s \in Streams, FirstChunk(s) PROVE Goal
    <2>1. IsSequence(chan[s]) /\ chan[s] # <<>> /\ Len(chan[s]) <= ResponseBuffer
      BY <1>1, <1>6 DEF FirstChunk, ChanTypes
    <2>2. /\ IsSequence(Tail(chan[s])) /\ Len(Tail(chan[s])) <= ResponseBuffer
          /\ IsSequence(<<>>) /\ Len(<<>>) <= ResponseBuffer
      BY <2>1, TailElements, EmptySequence, BuffersHoldSomething
    <2>3. /\ DOMAIN chan' = Streams /\ chan'[s] \in {<<>>, Tail(chan[s])}
          /\ \A t \in Streams \ {s} : chan'[t] = chan[t]
      BY <1>1, <1>6 DEF FirstChunk, ChanTypes
    <2>4. ChanTypes'
      BY <1>1, <1>6, <2>2, <2>3 DEF FirstChunk, ChanTypes
    <2> QED BY <1>1, <1>6, <2>4 DEF FirstChunk, HttpTypes, GotTypes, QueueTypes, SubTypes
  <1>7. ASSUME NEW s \in Streams, NoFirstChunk(s, Held) PROVE Goal
    BY <1>1, <1>7 DEF NoFirstChunk, HttpTypes, ChanTypes, GotTypes, QueueTypes, SubTypes
  <1>8. ASSUME NEW s \in Streams, ClientReads(s) PROVE Goal
    <2>1. IsSequence(chan[s]) /\ chan[s] # <<>> /\ Len(chan[s]) <= ResponseBuffer /\ IsSequence(got[s])
      BY <1>1, <1>8 DEF ClientReads, ChanTypes, GotTypes
    <2>2. /\ IsSequence(Tail(chan[s])) /\ Len(Tail(chan[s])) <= ResponseBuffer
          /\ IsSequence(Append(got[s], Head(chan[s])))
      BY <2>1, TailElements, AppendElements, BuffersHoldSomething
    <2>3. ChanTypes' /\ GotTypes'
      BY <1>1, <1>8, <2>2 DEF ClientReads, ChanTypes, GotTypes
    <2> QED BY <1>1, <1>8, <2>3 DEF ClientReads, HttpTypes, QueueTypes, SubTypes
  <1>9. ASSUME NEW s \in Streams, DropBody(s) PROVE Goal
    BY <1>1, <1>9, EmptySequence, BuffersHoldSomething
       DEF DropBody, HttpTypes, ChanTypes, GotTypes, QueueTypes, SubTypes
  <1>10. ASSUME NEW s \in Streams, ClientLeaves(s) PROVE Goal
    BY <1>1, <1>9, <1>10 DEF ClientLeaves, HttpTypes, ChanTypes, GotTypes, QueueTypes, SubTypes
  <1>11. ASSUME NEW s \in Streams, GuardUnsubscribes(s) PROVE Goal
    <2>1. <<UnsubscribeAll(s)>> \in Seq(Commands)
      BY DEF Commands
    <2>2. QueueTypes'
      BY <1>1, <1>11, <2>1, PushTypes DEF GuardUnsubscribes
    <2> QED BY <1>1, <1>11, <2>2 DEF GuardUnsubscribes, HttpTypes, ChanTypes, GotTypes, SubTypes
  <1>12. ASSUME NEW s \in Streams, GuardForgets(s) PROVE Goal
    BY <1>1, <1>12 DEF GuardForgets, HttpTypes, ChanTypes, GotTypes, QueueTypes, SubTypes
  <1> HIDE DEF Goal
  <1> QED BY <1>2, <1>3, <1>4, <1>5, <1>6, <1>7, <1>8, <1>9, <1>10, <1>11, <1>12
          DEF ServerStep, EndOfBody

LEMMA TypesInit ==
  ASSUME Init
  PROVE  Types
PROOF
  <1>1. IsFiniteSet({}) /\ IsSequence(<<>>)
    BY FS_EmptySet, EmptySequence
  <1>2. ServerTypes
    <2>1. Len(<<>>) = 0 /\ DOMAIN <<>> = {} /\ <<>> \in Seq(Commands) /\ <<>> \in Seq(Commits)
      OBVIOUS
    <2>2. runtime \in BOOLEAN /\ HttpTypes /\ ChanTypes /\ GotTypes
      <3>1. PICK e : e = <<>>
        OBVIOUS
      <3>2. IsSequence(e) /\ Len(e) <= ResponseBuffer
        BY <1>1, <2>1, <3>1, BuffersHoldSomething
      <3>3. /\ chan = [s \in Streams |-> e] /\ got = [s \in Streams |-> e]
            /\ header = [s \in Streams |-> Nothing] /\ senders = {} /\ runtime = FALSE
            /\ http = [s \in Streams |-> "new"]
        BY <3>1 DEF Init, ServerInit
      <3> QED BY <3>2, <3>3 DEF HttpTypes, ChanTypes, GotTypes
    <2>3. QueueTypes /\ log \in [Channels -> Seq(Commits)]
      BY <2>1 DEF Init, ServerInit, QueueTypes
    <2>4. subs = <<>>
      BY DEF Init, ServerInit
    <2>5. SubTypes
      BY <2>1, <2>4 DEF SubTypes
    <2> QED BY <2>2, <2>3, <2>5, ServerTypesParts
  <1>3. 1 \in Commits /\ <<1>> \in Seq(Commits) /\ <<>> \in Seq(Commits)
    BY BoundAssumption DEF Commits
  <1>4. PICK b \in Channels :
          hook = [c \in Commits |->
            IF c = 1 THEN [Committed(b) EXCEPT !.left = 1]
            ELSE [Committed(Nothing) EXCEPT !.at = "none"]]
    BY DEF Init
  <1>5. /\ hook \in [Commits -> Hooks]
        /\ \A c \in Commits : hook[c].at \in {"sweep", "broadcast"} => hook[c].branch \in Channels
    <2>1. [Committed(b) EXCEPT !.left = 1] \in Hooks /\ [Committed(b) EXCEPT !.left = 1].branch = b
      BY DEF Committed, Hooks
    <2>2. /\ [Committed(Nothing) EXCEPT !.at = "none"] \in Hooks
          /\ [Committed(Nothing) EXCEPT !.at = "none"].at = "none"
      BY BoundAssumption DEF Committed, Hooks
    <2> QED BY <1>4, <2>1, <2>2
  <1>6. PluginTypes
    BY <1>1, <1>3, <1>5 DEF Init, PluginTypes
  <1> QED BY <1>2, <1>6 DEF Types

\* What the handlers, the hook and the timeouts change of the server.
LEMMA PluginServerTypes ==
  ASSUME ServerTypes, ChanTypes', QueueTypes',
         UNCHANGED <<runtime, http, header, got, subs>>, log' \in [Channels -> Seq(Commits)]
  PROVE  ServerTypes'
PROOF BY ServerTypesParts DEF HttpTypes, GotTypes, SubTypes

\* One event is sent by a handler.
LEMMA SendNextTypes ==
  ASSUME Types, NEW s \in Streams, SendNext(s, "failed"), UNCHANGED <<cmds, forwarder>>
  PROVE  /\ ChanTypes' /\ QueueTypes'
         /\ handler' = handler \/ handler' = [handler EXCEPT ![s] = "failed"]
         /\ DOMAIN direct' = Streams /\ \A t \in Streams : IsSequence(direct'[t])
PROOF
  <1>1. PICK x : Send(s, x)
    BY DEF SendNext
  <1>2. ChanTypes' /\ QueueTypes'
    BY <1>1, SendTypes, ServerTypesParts DEF Types, QueueTypes
  <1>3. DOMAIN direct = Streams /\ \A t \in Streams : IsSequence(direct[t])
    BY DEF Types, PluginTypes
  <1>4. PICK y : y = Head(todo[s])
    OBVIOUS
  <1>5. IsSequence(Append(direct[s], y))
    BY <1>3, AppendElements
  <1>6. direct' = direct \/ direct' = [direct EXCEPT ![s] = Append(@, y)]
    BY <1>4 DEF SendNext
  <1>7. handler' = handler \/ handler' = [handler EXCEPT ![s] = "failed"]
    BY DEF SendNext, Goto
  <1> QED BY <1>2, <1>3, <1>5, <1>6, <1>7

LEMMA HandlerStepTypes ==
  ASSUME Types, NEW s \in Streams, HandlerStep(s)
  PROVE  Types'
PROOF
  <1>1. /\ ServerTypes /\ PluginTypes /\ ChanTypes /\ QueueTypes /\ runtime \in BOOLEAN
        /\ log \in [Channels -> Seq(Commits)]
    BY ServerTypesParts DEF Types
  <1>2. ASSUME SendHeader(s) PROVE Types'
    <2>1. ChanTypes' /\ QueueTypes'
      BY <1>1, <1>2, SendTypes DEF SendHeader, QueueTypes
    <2>2. ServerTypes'
      BY <1>1, <1>2, <2>1, PluginServerTypes DEF SendHeader
    <2>3. PluginTypes'
      BY <1>1, <1>2 DEF SendHeader, Goto, PluginTypes, commitVars
    <2> QED BY <2>2, <2>3 DEF Types
  <1>3. ASSUME SetupTimeout(s) PROVE Types'
    <2>1. PluginTypes'
      BY <1>1, <1>3, StreamAssumption DEF SetupTimeout, Goto, PluginTypes, commitVars
    <2> QED BY <1>1, <1>3, <2>1 DEF SetupTimeout, serverVars, Types, ServerTypes, ServerTypeOK
  <1>4. ASSUME ReadHistory(s) PROVE Types'
    <2>1. PluginTypes'
      BY <1>1, <1>4 DEF ReadHistory, Goto, PluginTypes, commitVars
    <2> QED BY <1>1, <1>4, <2>1 DEF ReadHistory, serverVars, Types, ServerTypes, ServerTypeOK
  <1>5. ASSUME SendHistorical(s) PROVE Types'
    <2>1. /\ ChanTypes' /\ QueueTypes'
          /\ handler' = handler \/ handler' = [handler EXCEPT ![s] = "failed"]
          /\ DOMAIN direct' = Streams /\ \A t \in Streams : IsSequence(direct'[t])
      BY <1>5, SendNextTypes DEF SendHistorical
    <2>2. ServerTypes'
      BY <1>1, <1>5, <2>1, PluginServerTypes DEF SendHistorical
    <2>3. PluginTypes'
      BY <1>1, <1>5, <2>1 DEF SendHistorical, PluginTypes, commitVars
    <2> QED BY <2>2, <2>3 DEF Types
  <1>6. ASSUME BeginPhase2(s) PROVE Types'
    <2>1. PluginTypes'
      BY <1>1, <1>6 DEF BeginPhase2, Goto, PluginTypes, commitVars
    <2> QED BY <1>1, <1>6, <2>1 DEF BeginPhase2, serverVars, Types, ServerTypes, ServerTypeOK
  <1>7. ASSUME SendDelta(s) PROVE Types'
    <2>1. /\ ChanTypes' /\ QueueTypes'
          /\ handler' = handler \/ handler' = [handler EXCEPT ![s] = "failed"]
          /\ DOMAIN direct' = Streams /\ \A t \in Streams : IsSequence(direct'[t])
      BY <1>7, SendNextTypes DEF SendDelta
    <2>2. ServerTypes'
      BY <1>1, <1>7, <2>1, PluginServerTypes DEF SendDelta
    <2>3. DOMAIN mutex' = Channels
      BY <1>1, <1>7 DEF SendDelta, PluginTypes
    <2>4. PluginTypes'
      BY <1>1, <1>7, <2>1, <2>3 DEF SendDelta, PluginTypes, commitVars
    <2> QED BY <2>2, <2>4 DEF Types
  <1>8. ASSUME GetSender(s) PROVE Types'
    <2>1. PluginTypes'
      BY <1>1, <1>8 DEF GetSender, Goto, PluginTypes, commitVars
    <2> QED BY <1>1, <1>8, <2>1 DEF GetSender, serverVars, Types, ServerTypes, ServerTypeOK
  <1>9. ASSUME Register(s) PROVE Types'
    <2>1. <<Subscribe(BranchOf[s], s)>> \in Seq(Commands) /\ BranchOf[s] \in Channels
      BY StreamAssumption DEF Commands
    <2>2. QueueTypes'
      BY <1>1, <1>9, <2>1, PushTypes DEF Register
    <2>3. ServerTypes'
      BY <1>1, <1>9, <2>2, PluginServerTypes DEF Register, ChanTypes
    <2>4. Len(log[BranchOf[s]]) \in Nat
      BY <1>1, <2>1
    <2>5. joined' \in [Streams -> Nat \cup {Nothing}]
      BY <1>1, <1>9, <2>4 DEF Register, PluginTypes
    <2>6. listed' \subseteq Streams /\ IsFiniteSet(listed')
      BY <1>1, <1>9, FS_AddElement DEF Register, PluginTypes
    <2>7. PluginTypes'
      BY <1>1, <1>9, <2>5, <2>6 DEF Register, Goto, PluginTypes, commitVars
    <2> QED BY <2>3, <2>7 DEF Types
  <1>10. ASSUME HandlerFailed(s) PROVE Types'
    <2>1. ChanTypes' /\ QueueTypes'
      BY <1>1, <1>10, SendTypes DEF HandlerFailed, QueueTypes
    <2>2. ServerTypes'
      BY <1>1, <1>10, <2>1, PluginServerTypes DEF HandlerFailed
    <2>3. PluginTypes'
      BY <1>1, <1>10 DEF HandlerFailed, Goto, PluginTypes, commitVars
    <2> QED BY <2>2, <2>3 DEF Types
  <1>11. ASSUME HandlerThrows(s) PROVE Types'
    <2>1. <<UnsubscribeAll(s)>> \in Seq(Commands)
      BY DEF Commands
    <2>2. QueueTypes' /\ ChanTypes'
      BY <1>1, <1>11, <2>1, PushTypes DEF HandlerThrows, ChanTypes
    <2>3. ServerTypes'
      BY <1>1, <1>11, <2>2, PluginServerTypes DEF HandlerThrows
    <2>4. listed' \subseteq Streams /\ IsFiniteSet(listed')
      BY <1>1, <1>11, FS_Subset DEF HandlerThrows, PluginTypes
    <2>5. PluginTypes'
      BY <1>1, <1>11, <2>4 DEF HandlerThrows, Goto, PluginTypes, commitVars
    <2> QED BY <2>3, <2>5 DEF Types
  <1> QED BY <1>2, <1>3, <1>4, <1>5, <1>6, <1>7, <1>8, <1>9, <1>10, <1>11 DEF HandlerStep

LEMMA HookStepTypes ==
  ASSUME Types, NEW c \in Commits, HookStep(c)
  PROVE  Types'
PROOF
  <1>1. /\ ServerTypes /\ PluginTypes /\ ChanTypes /\ QueueTypes /\ runtime \in BOOLEAN
        /\ log \in [Channels -> Seq(Commits)]
    BY ServerTypesParts DEF Types
  <1>2. hook[c] \in Hooks /\ hook \in [Commits -> Hooks]
    BY <1>1 DEF PluginTypes
  <1>3. /\ Ran(c) \in [Commits -> Hooks]
        /\ \A d \in Commits : Ran(c)[d].branch = hook[d].branch
        /\ \A d \in Commits : Ran(c)[d].at = hook[d].at \/ d = c
    <2>1. PICK r : r = [hook[c] EXCEPT !.left = @ - 1,
                                       !.at = IF hook[c].left > 1 THEN "sweep" ELSE "done"]
      OBVIOUS
    <2>2. r \in Hooks /\ r.branch = hook[c].branch
      <3>1. hook[c].left \in Int
        BY <1>2 DEF Hooks
      <3>2. PICK n \in Int, a \in {"sweep", "done"} :
              n = hook[c].left - 1 /\ a = IF hook[c].left > 1 THEN "sweep" ELSE "done"
        BY <3>1
      <3>3. r = [hook[c] EXCEPT !.left = n, !.at = a]
        BY <2>1, <3>2
      <3> QED BY <1>2, <3>3 DEF Hooks
    <2>3. Ran(c) = [hook EXCEPT ![c] = r]
      BY <1>2, <2>1 DEF Ran
    <2> QED BY <1>2, <2>2, <2>3
  <1>4. ASSUME SweepAndCheck(c) PROVE Types'
    <2>1. PICK ss : RetractStreams(ss)
      BY <1>4 DEF SweepAndCheck
    <2>2. /\ QueueTypes' /\ senders' \subseteq Streams
          /\ listed' \subseteq Streams /\ IsFiniteSet(listed')
      BY <2>1, RetractTypes
    <2>3. ChanTypes'
      BY <1>1, <1>4, <2>2 DEF SweepAndCheck, ChanTypes
    <2>4. ServerTypes'
      BY <1>1, <1>4, <2>2, <2>3, PluginServerTypes DEF SweepAndCheck
    <2>5. hook[c].branch \in Channels
      BY <1>1, <1>4 DEF SweepAndCheck, PluginTypes
    <2>6. /\ hook' \in [Commits -> Hooks]
          /\ \A d \in Commits : hook'[d].at \in {"sweep", "broadcast"} => hook'[d].branch \in Channels
      <3>1. [hook[c] EXCEPT !.at = "broadcast"] \in Hooks
        BY <1>2 DEF Hooks
      <3>2. [hook[c] EXCEPT !.at = "broadcast"].branch = hook[c].branch
        BY <1>2 DEF Hooks
      <3>3. CASE hook' = Ran(c)
        BY <1>1, <1>3, <2>5, <3>3 DEF PluginTypes
      <3>4. CASE hook' = [hook EXCEPT ![c].at = "broadcast"]
        <4>1. hook' = [hook EXCEPT ![c] = [hook[c] EXCEPT !.at = "broadcast"]]
          BY <1>2, <3>4
        <4> QED BY <1>1, <1>2, <2>5, <3>1, <3>2, <4>1 DEF PluginTypes
      <3> QED BY <1>4, <3>3, <3>4 DEF SweepAndCheck
    <2>7. PluginTypes'
      BY <1>1, <1>4, <2>2, <2>6 DEF SweepAndCheck, PluginTypes, commitVars, handlerVars
    <2> QED BY <2>4, <2>7 DEF Types
  <1>5. ASSUME BroadcastCommit(c) PROVE Types'
    <2>1. PICK b \in Channels : b = hook[c].branch
      BY <1>1, <1>5 DEF BroadcastCommit, PluginTypes
    <2>2. /\ hook' \in [Commits -> Hooks]
          /\ \A d \in Commits : hook'[d].at \in {"sweep", "broadcast"} => hook'[d].branch \in Channels
      BY <1>1, <1>3, <1>5, <2>1 DEF BroadcastCommit, PluginTypes
    <2>3. <<Broadcast(b, c)>> \in Seq(Commands)
      BY DEF Commands
    <2>4. \/ UNCHANGED <<sent, forwarder, cmds, log>>
          \/ /\ sent' = [sent EXCEPT ![b] = Remember(@, c)]
             /\ Push(<<Broadcast(b, c)>>)
             /\ log' = [log EXCEPT ![b] = Append(@, c)]
      BY <1>5, <2>1 DEF BroadcastCommit
    <2>5. QueueTypes' /\ ChanTypes'
      BY <1>1, <1>5, <2>3, <2>4, PushTypes DEF QueueTypes, BroadcastCommit, ChanTypes
    <2>6. log' \in [Channels -> Seq(Commits)]
      <3>1. Append(log[b], c) \in Seq(Commits)
        BY <1>1
      <3> QED BY <1>1, <2>4, <3>1
    <2>7. sent \in [Channels -> Seq(Commits)]
      BY <1>1 DEF PluginTypes
    <2>8. Remember(sent[b], c) \in Seq(Commits)
      <3>1. PICK q : q = Append(sent[b], c)
        OBVIOUS
      <3>2. q \in Seq(Commits) /\ Len(q) \in Nat
        BY <2>7, <3>1
      <3>3. PICK m : m = Min({Len(q), KeptNotices})
        OBVIOUS
      <3>4. m \in Nat /\ m <= Len(q)
        BY <3>2, <3>3, BoundAssumption DEF Min
      <3>5. SubSeq(q, Len(q) - m + 1, Len(q)) \in Seq(Commits)
        BY <3>2, <3>4
      <3> QED BY <3>1, <3>3, <3>5 DEF Remember
    <2>9. sent' \in [Channels -> Seq(Commits)]
      BY <2>4, <2>7, <2>8
    <2>10. ServerTypes'
      BY <1>1, <1>5, <2>5, <2>6, PluginServerTypes DEF BroadcastCommit
    <2>11. PluginTypes'
      BY <1>1, <1>5, <2>2, <2>9 DEF BroadcastCommit, PluginTypes, commitVars, handlerVars
    <2> QED BY <2>10, <2>11 DEF Types
  <1> QED BY <1>4, <1>5 DEF HookStep

LEMMA TypesStep ==
  ASSUME Types, [Next]_vars
  PROVE  Types'
PROOF
  <1>1. /\ ServerTypes /\ PluginTypes /\ ChanTypes /\ QueueTypes /\ runtime \in BOOLEAN
        /\ log \in [Channels -> Seq(Commits)]
    BY ServerTypesParts DEF Types
  <1>2. ASSUME Server PROVE Types'
    <2>1. ServerTypes'
      BY <1>1, <1>2, ServerStepTypes DEF Server
    <2> QED BY <1>1, <1>2, <2>1 DEF Types, Server, PluginTypes, handlerVars, commitVars
  <1>3. ASSUME NEW s \in Streams, TimeoutFires(s) PROVE Types'
    <2>1. /\ QueueTypes' /\ senders' \subseteq Streams
          /\ listed' \subseteq Streams /\ IsFiniteSet(listed')
      BY <1>3, RetractTypes DEF TimeoutFires
    <2>2. ChanTypes'
      BY <1>1, <1>3, <2>1 DEF TimeoutFires, ChanTypes
    <2>3. ServerTypes'
      BY <1>1, <1>3, <2>1, <2>2, PluginServerTypes DEF TimeoutFires
    <2>4. PluginTypes'
      BY <1>1, <1>3, <2>1 DEF TimeoutFires, PluginTypes, handlerVars, commitVars
    <2> QED BY <2>3, <2>4 DEF Types
  <1>4. ASSUME NEW b \in Channels, Commit(b) PROVE Types'
    <2>1. made + 1 \in Commits /\ made' = made + 1
      BY <1>1, <1>4, BoundAssumption DEF Commit, PluginTypes, Commits
    <2>2. history' \in [Channels -> Seq(Commits)]
      BY <1>1, <1>4, <2>1 DEF Commit, PluginTypes
    <2>3. Committed(b) \in Hooks /\ Committed(b).branch = b
      BY BoundAssumption DEF Committed, Hooks
    <2>4. PluginTypes'
      BY <1>1, <1>4, <2>1, <2>2, <2>3 DEF Commit, PluginTypes, handlerVars
    <2> QED BY <1>1, <1>4, <2>4 DEF Commit, serverVars, Types, ServerTypes, ServerTypeOK
  <1>5. ASSUME NEW b \in Channels, ResetBranch(b) PROVE Types'
    <2>1. Front(history[b]) \in Seq(Commits)
      BY <1>1, <1>5 DEF ResetBranch, PluginTypes, Front
    <2>2. PluginTypes'
      BY <1>1, <1>5, <2>1 DEF ResetBranch, PluginTypes, handlerVars
    <2> QED BY <1>1, <1>5, <2>2 DEF ResetBranch, serverVars, Types, ServerTypes, ServerTypeOK
  <1>6. ASSUME UNCHANGED vars PROVE Types'
    BY <1>1, <1>6 DEF vars, serverVars, Types, ServerTypes, ServerTypeOK, PluginTypes
  <1> QED BY <1>2, <1>3, <1>4, <1>5, <1>6, HandlerStepTypes, HookStepTypes DEF Next

-------------------------------------------------------------------------------
(* The mutex and the list *)

LEMMA HoldersInit ==
  ASSUME Init
  PROVE  Holders
PROOF BY DEF Init, ServerInit, Holders

\* What keeps Holders when no mutex and no handler moves.
LEMMA HoldersStay ==
  ASSUME Holders, Types, UNCHANGED <<mutex, handler>>, listed' \subseteq listed,
         \A s \in Streams : ReceiverIsOpen(s)' => ReceiverIsOpen(s) \/ s \in senders',
         \A s \in Streams : s \in senders /\ s \notin senders' =>
           \/ ~ReceiverIsOpen(s)'
           \/ s \in listed /\ s \notin listed'
  PROVE  Holders'
PROOF BY DEF Holders, Types, PluginTypes

LEMMA HandlerStepHolders ==
  ASSUME Holders, Types, NEW s \in Streams, HandlerStep(s)
  PROVE  Holders'
PROOF
  <1>1. /\ BranchOf[s] \in Channels /\ DOMAIN mutex = Channels /\ DOMAIN handler = Streams
        /\ senders \subseteq Streams /\ listed \subseteq Streams
    BY StreamAssumption DEF Types, PluginTypes, ServerTypes, ServerTypeOK
  <1>2. ASSUME SendHeader(s) PROVE Holders'
    BY <1>1, <1>2 DEF SendHeader, Send, SendAndClose, Goto, Holders, ReceiverIsOpen
  <1>3. ASSUME SetupTimeout(s) PROVE Holders'
    BY <1>1, <1>3 DEF SetupTimeout, serverVars, Goto, Holders, ReceiverIsOpen
  <1>4. ASSUME ReadHistory(s) PROVE Holders'
    BY <1>1, <1>4 DEF ReadHistory, serverVars, Goto, Holders, ReceiverIsOpen
  <1>5. ASSUME SendHistorical(s) PROVE Holders'
    BY <1>1, <1>5 DEF SendHistorical, SendNext, Send, Sent, Goto, Holders, ReceiverIsOpen
  <1>6. ASSUME BeginPhase2(s) PROVE Holders'
    BY <1>1, <1>6 DEF BeginPhase2, serverVars, Goto, Holders, ReceiverIsOpen
  <1>7. ASSUME SendDelta(s) PROVE Holders'
    BY <1>1, <1>7 DEF SendDelta, SendNext, Send, Sent, Goto, Holders, ReceiverIsOpen
  <1>8. ASSUME GetSender(s) PROVE Holders'
    BY <1>1, <1>8 DEF GetSender, serverVars, Goto, Holders, ReceiverIsOpen
  <1>9. ASSUME Register(s) PROVE Holders'
    BY <1>1, <1>9 DEF Register, Goto, Holders, ReceiverIsOpen
  <1>10. ASSUME HandlerFailed(s) PROVE Holders'
    BY <1>1, <1>10 DEF HandlerFailed, SendAndClose, Goto, Holders, ReceiverIsOpen
  <1>11. ASSUME HandlerThrows(s) PROVE Holders'
    BY <1>1, <1>11 DEF HandlerThrows, Goto, Holders, ReceiverIsOpen
  <1> QED BY <1>2, <1>3, <1>4, <1>5, <1>6, <1>7, <1>8, <1>9, <1>10, <1>11 DEF HandlerStep

LEMMA ServerHolders ==
  ASSUME Holders, Types, Server
  PROVE  Holders'
PROOF
  <1>1. /\ UNCHANGED <<mutex, handler, listed>> /\ ServerStep(Held) /\ DOMAIN http = Streams
    BY DEF Server, handlerVars, Types, ServerTypes, ServerTypeOK
  <1> DEFINE Kept == /\ \A s \in Streams : ReceiverIsOpen(s)' => ReceiverIsOpen(s) \/ s \in senders'
                     /\ \A s \in Streams : s \in senders /\ s \notin senders' => ~ReceiverIsOpen(s)'
  <1>2. ASSUME NEW s \in Streams, Connect(s) PROVE Kept
    BY <1>1, <1>2 DEF Connect, ReceiverIsOpen
  <1>3. ASSUME NEW s \in Streams, FirstChunk(s) PROVE Kept
    BY <1>1, <1>3 DEF FirstChunk, ReceiverIsOpen
  <1>4. ASSUME NEW s \in Streams, NoFirstChunk(s, Held) PROVE Kept
    BY <1>1, <1>4 DEF NoFirstChunk, ReceiverIsOpen
  <1>5. ASSUME NEW s \in Streams, ClientReads(s) PROVE Kept
    BY <1>1, <1>5 DEF ClientReads, ReceiverIsOpen
  <1>6. ASSUME NEW s \in Streams, EndOfBody(s, Held) \/ ClientLeaves(s) PROVE Kept
    BY <1>1, <1>6 DEF EndOfBody, ClientLeaves, DropBody, ReceiverIsOpen
  <1>7. ASSUME NEW s \in Streams, GuardUnsubscribes(s) \/ GuardForgets(s) PROVE Kept
    BY <1>1, <1>7 DEF GuardUnsubscribes, GuardForgets, ReceiverIsOpen
  <1>8. ASSUME NEW k \in DOMAIN subs, TaskReceives(k) \/ TaskSends(k) PROVE Kept
    BY <1>8 DEF TaskReceives, TaskSends, ReceiverIsOpen
  <1>9. ASSUME StartServer \/ Forward PROVE Kept
    BY <1>9 DEF StartServer, Forward, ReceiverIsOpen
  <1> HIDE DEF Kept
  <1>10. Kept
    BY <1>1, <1>2, <1>3, <1>4, <1>5, <1>6, <1>7, <1>8, <1>9 DEF ServerStep
  <1> USE DEF Kept
  <1> QED BY <1>1, <1>10, HoldersStay

LEMMA HoldersStep ==
  ASSUME Holders, Types, [Next]_vars
  PROVE  Holders'
PROOF
  <1>1. ASSUME NEW ss, RetractStreams(ss), UNCHANGED <<mutex, handler, http>> PROVE Holders'
    BY <1>1, HoldersStay DEF RetractStreams, ReceiverIsOpen
  <1>2. ASSUME NEW s \in Streams, TimeoutFires(s) PROVE Holders'
    BY <1>1, <1>2 DEF TimeoutFires, handlerVars
  <1>3. ASSUME NEW c \in Commits, SweepAndCheck(c) PROVE Holders'
    BY <1>1, <1>3 DEF SweepAndCheck, handlerVars
  <1>4. ASSUME NEW c \in Commits, BroadcastCommit(c) PROVE Holders'
    BY <1>4, HoldersStay DEF BroadcastCommit, handlerVars, ReceiverIsOpen
  <1>5. ASSUME NEW b \in Channels, Commit(b) \/ ResetBranch(b) PROVE Holders'
    BY <1>5, HoldersStay DEF Commit, ResetBranch, handlerVars, serverVars, ReceiverIsOpen
  <1>6. ASSUME UNCHANGED vars PROVE Holders'
    BY <1>6, HoldersStay DEF vars, serverVars, ReceiverIsOpen
  <1> QED BY <1>2, <1>3, <1>4, <1>5, <1>6, HandlerStepHolders, ServerHolders DEF Next, HookStep

-------------------------------------------------------------------------------
(* One response: what a step may do to it *)

\* What was broadcast stays, and so does what a stream is to have.
LogGrows ==
  \A b \in Channels :
    /\ Len(log[b]) \in Nat /\ Len(log'[b]) \in Nat /\ Len(log[b]) <= Len(log'[b])
    /\ \A i \in 1 .. Len(log[b]) : log'[b][i] = log[b][i]
Joins(s) ==
  \/ joined'[s] = joined[s]
  \/ joined[s] = Nothing /\ joined'[s] = Len(log[BranchOf[s]])

\* The chunks are left alone, the handler goes on, the client may leave early.
Keeps(s) ==
  /\ chan'[s] = chan[s] /\ got'[s] = got[s] /\ header'[s] = header[s]
  /\ direct'[s] = direct[s]
  /\ http'[s] = http[s] \/ (http[s] = "waiting" /\ http'[s] = "left")
  /\ \/ handler'[s] = handler[s] /\ joined'[s] = joined[s]
     \/ /\ handler'[s] \notin {"none", "done"} /\ joined'[s] = joined[s] /\ Sending(s)
     \/ /\ handler'[s] = "done" /\ Joins(s) /\ Sending(s)
     \/ /\ handler'[s] \in {"failed", "done"} /\ joined'[s] = joined[s]
        /\ handler[s] \in {"none", "failed"} /\ http[s] # "new"

\* The receiver is dropped, or was before.
Closes(s) ==
  /\ ~ReceiverIsOpen(s)' /\ (http'[s] = "new" => http[s] = "new")
  /\ chan'[s] \in {<<>>, chan[s]} /\ got'[s] = got[s] /\ direct'[s] = direct[s]
  /\ header'[s] = header[s] \/ (Ahead(s) = 1 /\ chan[s] # <<>> /\ header'[s] = Head(chan[s]))
  /\ handler'[s] = handler[s] /\ joined'[s] = joined[s]

\* The first chunk becomes the header of a response with a body.
Heads(s) ==
  /\ http[s] = "waiting" /\ http'[s] = "streaming" /\ chan[s] # <<>>
  /\ header'[s] = Head(chan[s]) /\ chan'[s] = Tail(chan[s]) /\ got'[s] = got[s]
  /\ direct'[s] = direct[s] /\ handler'[s] = handler[s] /\ joined'[s] = joined[s]

Reads(s) ==
  /\ http[s] = "streaming" /\ http'[s] = http[s] /\ chan[s] # <<>>
  /\ got'[s] = Append(got[s], Head(chan[s])) /\ chan'[s] = Tail(chan[s])
  /\ header'[s] = header[s]
  /\ direct'[s] = direct[s] /\ handler'[s] = handler[s] /\ joined'[s] = joined[s]

Connects(s) ==
  /\ http[s] = "new" /\ http'[s] = "waiting"
  /\ chan'[s] = chan[s] /\ got'[s] = got[s] /\ header'[s] = header[s]
  /\ direct'[s] = direct[s] /\ handler'[s] = handler[s] /\ joined'[s] = joined[s]

\* A chunk is appended: the first one, an event of the handler, one of a broadcast,
\* and the error of the handler.
Appends(s, x) ==
  /\ ReceiverIsOpen(s) /\ http'[s] = http[s] /\ chan'[s] = Append(chan[s], x)
  /\ got'[s] = got[s] /\ header'[s] = header[s] /\ joined'[s] = joined[s]
Answers(s) ==
  /\ \E x : Appends(s, x) /\ x.type = "answer"
  /\ handler[s] = "none" /\ handler'[s] \in {"timeout", "done"}
  /\ http[s] \in {"waiting", "left"} /\ direct'[s] = direct[s]
Tells(s) ==
  /\ \E c : Appends(s, Event(c)) /\ direct'[s] = Append(direct[s], c)
  /\ Sending(s) /\ handler'[s] = handler[s]
Relays(s) ==
  /\ \E x : Appends(s, x) /\ Fits(s, Length(s) + 1, x)
  /\ handler[s] = "done" /\ joined[s] # Nothing
  /\ handler'[s] = handler[s] /\ direct'[s] = direct[s]
Fails(s) ==
  /\ Appends(s, Answer("failed"))
  /\ handler[s] = "failed" /\ handler'[s] = "done" /\ direct'[s] = direct[s]

\* What a step may do to a response, other than the one that relays a broadcast.
Moves(s) ==
  \/ Keeps(s) \/ Closes(s) \/ Heads(s) \/ Reads(s) \/ Connects(s)
  \/ Answers(s) \/ Tells(s) \/ Fails(s)

\* The types that these need of one stream.
Shape(s) ==
  /\ IsSequence(chan[s]) /\ IsSequence(got[s]) /\ IsSequence(direct[s])
  /\ joined[s] \in Nat \cup {Nothing} /\ BranchOf[s] \in Channels
  /\ http[s] \in {"new", "waiting", "left", "streaming", "guard", "forget", "ended", "abandoned"}

LEMMA ShapeOfStream ==
  ASSUME Types, NEW s \in Streams
  PROVE  Shape(s)
PROOF BY StreamAssumption DEF Types, ServerTypes, ServerTypeOK, PluginTypes, Shape

LEMMA Positions ==
  ASSUME NEW d \in Nat, NEW n \in Nat, NEW l \in Nat, NEW ll \in Nat, NEW i \in Nat,
         l <= ll, n <= l, i <= d + (l - n)
  PROVE  /\ i <= d + (ll - n)
         /\ ~(i <= d) => n + (i - d) \in 1 .. l
PROOF OBVIOUS

\* A chunk that fits goes on to fit.
LEMMA FitsStays ==
  ASSUME NEW s \in Streams, Shape(s), LogGrows, Joins(s),
         Len(direct'[s]) \in Nat, Len(direct[s]) <= Len(direct'[s]),
         \A j \in 1 .. Len(direct[s]) : direct'[s][j] = direct[s][j],
         joined[s] # Nothing =>
           joined'[s] = joined[s] /\ Len(direct'[s]) = Len(direct[s])
             /\ joined[s] <= Len(log[BranchOf[s]]),
         NEW i \in Nat, 1 <= i, NEW x, Fits(s, i, x)
  PROVE  Fits(s, i, x)'
PROOF
  <1>1. /\ Len(direct[s]) \in Nat /\ BranchOf[s] \in Channels
        /\ joined[s] \in Nat \cup {Nothing}
    BY Sequences DEF Shape
  <1>2. PICK b \in Channels : b = BranchOf[s]
    BY <1>1
  <1>3. /\ Len(log[b]) \in Nat /\ Len(log'[b]) \in Nat /\ Len(log[b]) <= Len(log'[b])
        /\ \A n \in 1 .. Len(log[b]) : log'[b][n] = log[b][n]
    BY DEF LogGrows
  <1>4. i <= Len(direct[s]) + Live(s) /\ x = Event(Expected(s, i))
    BY DEF Fits
  <1>5. CASE joined[s] = Nothing
    <2>1. i <= Len(direct[s]) /\ x = Event(direct[s][i])
      BY <1>1, <1>4, <1>5 DEF Live, Expected
    <2>2. Live(s)' \in Nat
      BY <1>2, <1>3, <1>5, NothingAssumption DEF Live, Joins
    <2> QED BY <1>1, <2>1, <2>2 DEF Fits, Expected
  <1>6. CASE joined[s] # Nothing
    <2>1. PICK n \in Nat : n = joined[s] /\ n = joined'[s] /\ n <= Len(log[b])
      BY <1>1, <1>2, <1>6
    <2>2. /\ Live(s) = Len(log[b]) - n /\ Live(s)' = Len(log'[b]) - n
      BY <1>2, <1>6, <2>1 DEF Live
    <2>3. PICK d \in Nat, l \in Nat, ll \in Nat :
            /\ d = Len(direct[s]) /\ d = Len(direct'[s]) /\ l = Len(log[b]) /\ ll = Len(log'[b])
            /\ l <= ll /\ i <= d + (l - n) /\ n <= l
      BY <1>1, <1>3, <1>4, <1>6, <2>1, <2>2
    <2>4. i <= Len(direct'[s]) + Live(s)'
      <3>1. i <= d + (ll - n)
        BY <2>3, Positions
      <3> QED BY <2>2, <2>3, <3>1
    <2>5. CASE i <= d
      <3>1. i \in 1 .. Len(direct[s]) /\ i <= Len(direct'[s])
        BY <2>3, <2>5
      <3>2. x = Event(direct[s][i])
        BY <1>4, <2>3, <2>5 DEF Expected
      <3>3. Expected(s, i)' = direct'[s][i]
        BY <3>1 DEF Expected
      <3> QED BY <2>4, <3>1, <3>2, <3>3 DEF Fits
    <2>6. CASE ~(i <= d)
      <3>1. PICK m \in Nat : m = n + (i - d)
        BY <2>6
      <3>2. m \in 1 .. Len(log[b])
        BY <2>3, <2>6, <3>1, Positions
      <3>3. x = Event(log[b][m])
        BY <1>2, <1>4, <2>1, <2>3, <2>6, <3>1 DEF Expected
      <3>4. x = Event(log'[b][m])
        BY <1>3, <3>2, <3>3
      <3>5. Expected(s, i)' = log'[b][m]
        BY <1>2, <2>1, <2>3, <2>6, <3>1 DEF Expected
      <3> QED BY <2>4, <3>4, <3>5 DEF Fits
    <2> QED BY <2>5, <2>6
  <1> QED BY <1>5, <1>6

\* A stream that subscribed is to have what it was, and has as many chunks as it had.
Still(s) ==
  joined[s] # Nothing =>
    /\ joined'[s] = joined[s] /\ direct'[s] = direct[s]
    /\ ReceiverIsOpen(s)' => ReceiverIsOpen(s) /\ Length(s)' = Length(s)

\* All that fits goes on to fit.
LEMMA AllFit ==
  ASSUME NEW s \in Streams, Types, Types', LogGrows, Begun(s), Joins(s),
         \/ direct'[s] = direct[s]
         \/ joined[s] = Nothing /\ \E c : direct'[s] = Append(direct[s], c)
  PROVE  \A i \in Nat : \A x : 1 <= i /\ Fits(s, i, x) => Fits(s, i, x)'
PROOF
  <1>1. Shape(s)
    BY ShapeOfStream
  <1>2. IsSequence(direct[s]) /\ Len(direct[s]) \in Nat
    BY <1>1, Sequences DEF Shape
  <1>3. /\ Len(direct'[s]) \in Nat /\ Len(direct[s]) <= Len(direct'[s])
        /\ \A j \in 1 .. Len(direct[s]) : direct'[s][j] = direct[s][j]
        /\ joined[s] # Nothing => Len(direct'[s]) = Len(direct[s])
    BY <1>2, AppendElements
  <1>4. joined[s] # Nothing => joined'[s] = joined[s] /\ joined[s] <= Len(log[BranchOf[s]])
    BY DEF Begun, Joins
  <1> QED BY <1>1, <1>3, <1>4, FitsStays

LEMMA KeepsResponse ==
  ASSUME NEW s \in Streams, Types, Types', LogGrows, Response(s), Keeps(s)
  PROVE  Response(s)' /\ Still(s)
PROOF
  <1>1. Begun(s) /\ Headed(s) /\ Given(s) /\ Awaited(s) /\ Shape(s)
    BY ShapeOfStream DEF Response
  <1>2. /\ chan'[s] = chan[s] /\ got'[s] = got[s] /\ header'[s] = header[s]
        /\ direct'[s] = direct[s] /\ Joins(s)
    BY DEF Keeps, Joins
  <1>3. \A i \in Nat : \A x : 1 <= i /\ Fits(s, i, x) => Fits(s, i, x)'
    BY <1>1, <1>2, AllFit
  <1>4. /\ Ahead(s)' = Ahead(s) /\ ReceiverIsOpen(s)' = ReceiverIsOpen(s)
        /\ Ahead(s) \in {0, 1}
    BY DEF Keeps, Ahead, ReceiverIsOpen
  <1>5. Length(s)' = Length(s)
    BY <1>2, <1>4 DEF Length
  <1>6. (Sending(s)' => Sending(s)) /\ (handler'[s] = "none" => handler[s] = "none")
    BY DEF Keeps, Sending
  <1>7. handler[s] = "done" => handler'[s] = "done" /\ joined'[s] = joined[s]
    BY DEF Keeps, Sending
  <1>8. \A x : GaveUp(s, x) => GaveUp(s, x)'
    BY <1>7 DEF GaveUp
  <1>9. joined'[s] # Nothing => Sending(s) \/ joined[s] # Nothing
    BY DEF Keeps
  <1>10. Begun(s)'
    <2>1. http'[s] = "new" => handler'[s] = "none"
      BY <1>1 DEF Keeps, Begun, Sending
    <2>2. handler'[s] = "none" => joined'[s] = joined[s]
      BY DEF Keeps
    <2>3. joined'[s] # Nothing => handler'[s] = "done"
      BY <1>1, <1>7 DEF Keeps, Begun, Joins
    <2>4. joined'[s] # Nothing => joined'[s] <= Len(log'[BranchOf[s]])
      BY <1>1, <1>2, NothingAssumption DEF Shape, LogGrows, Joins, Begun
    <2> QED BY <1>1, <1>2, <1>6, <2>1, <2>2, <2>3, <2>4 DEF Begun
  <1>11. Headed(s)'
    BY <1>1, <1>2, <1>4, <1>6, <1>9 DEF Headed
  <1>12. /\ IsSequence(got[s]) /\ IsSequence(chan[s])
         /\ Len(got[s]) \in Nat /\ Len(chan[s]) \in Nat
    BY <1>1, Sequences DEF Shape
  <1>13. Given(s)'
    BY <1>1, <1>2, <1>3, <1>4, <1>8, <1>12 DEF Given
  <1>14. Awaited(s)'
    <2>1. ASSUME NEW j \in 1 + Ahead(s) .. Len(chan[s]), ReceiverIsOpen(s)
          PROVE  \/ Fits(s, Len(got[s]) + j - Ahead(s), chan[s][j])'
                 \/ j = Len(chan[s]) /\ GaveUp(s, chan[s][j])'
      <3>1. PICK i \in Nat : i = Len(got[s]) + j - Ahead(s) /\ 1 <= i
        BY <1>4, <1>12
      <3>2. \/ Fits(s, i, chan[s][j])
            \/ j = Len(chan[s]) /\ GaveUp(s, chan[s][j])
        BY <1>1, <2>1, <3>1 DEF Awaited
      <3>3. PICK x : x = chan[s][j]
        OBVIOUS
      <3>4. \/ Fits(s, i, x)'
            \/ j = Len(chan[s]) /\ GaveUp(s, x)'
        BY <1>3, <1>8, <3>1, <3>2, <3>3
      <3> QED BY <1>2, <1>4, <3>1, <3>3, <3>4
    <2> QED BY <1>1, <1>2, <1>4, <1>5, <1>6, <2>1 DEF Awaited
  <1>15. Still(s)
    BY <1>2, <1>4, <1>5, <1>7, <1>1 DEF Still, Begun
  <1> QED BY <1>10, <1>11, <1>13, <1>14, <1>15 DEF Response

LEMMA ClosesResponse ==
  ASSUME NEW s \in Streams, Types, Types', LogGrows, Response(s), Closes(s)
  PROVE  Response(s)' /\ Still(s)
PROOF
  <1>1. Begun(s) /\ Headed(s) /\ Given(s) /\ Shape(s)
    BY ShapeOfStream DEF Response
  <1>2. /\ got'[s] = got[s] /\ direct'[s] = direct[s] /\ Joins(s)
        /\ handler'[s] = handler[s] /\ joined'[s] = joined[s] /\ ~ReceiverIsOpen(s)'
    BY DEF Closes, Joins
  <1>3. \A i \in Nat : \A x : 1 <= i /\ Fits(s, i, x) => Fits(s, i, x)'
    BY <1>1, <1>2, AllFit
  <1>4. Ahead(s)' = 0
    BY <1>2 DEF Ahead, ReceiverIsOpen
  <1>5. \A x : GaveUp(s, x) => GaveUp(s, x)'
    BY <1>2 DEF GaveUp
  <1>6. Begun(s)'
    <2>1. joined'[s] # Nothing => joined'[s] <= Len(log'[BranchOf[s]])
      BY <1>1, <1>2 DEF Shape, LogGrows, Begun
    <2> QED BY <1>1, <1>2, <2>1 DEF Begun, Closes
  <1>7. Headed(s)'
    <2>1. Ahead(s) = 1 /\ chan[s] # <<>> => Head(chan[s]).type = "answer"
      BY <1>1, Sequences DEF Headed, Shape
    <2> QED BY <1>1, <1>4, <2>1 DEF Headed, Closes
  <1>8. Len(got[s]) \in Nat
    BY <1>1, Sequences DEF Shape
  <1>9. Given(s)'
    BY <1>1, <1>2, <1>3, <1>5, <1>8 DEF Given
  <1> QED BY <1>2, <1>6, <1>7, <1>9 DEF Response, Awaited, Still

LEMMA HeadsResponse ==
  ASSUME NEW s \in Streams, Types, Types', LogGrows, Response(s), Heads(s)
  PROVE  Response(s)' /\ Still(s)
PROOF
  <1>1. Begun(s) /\ Headed(s) /\ Given(s) /\ Awaited(s) /\ Shape(s)
    BY ShapeOfStream DEF Response
  <1>2. /\ got'[s] = got[s] /\ direct'[s] = direct[s] /\ Joins(s)
        /\ handler'[s] = handler[s] /\ joined'[s] = joined[s]
        /\ chan[s] # <<>> /\ chan'[s] = Tail(chan[s]) /\ header'[s] = Head(chan[s])
    BY DEF Heads, Joins
  <1>3. \A i \in Nat : \A x : 1 <= i /\ Fits(s, i, x) => Fits(s, i, x)'
    BY <1>1, <1>2, AllFit
  <1>4. Ahead(s) = 1 /\ Ahead(s)' = 0 /\ ReceiverIsOpen(s) /\ ReceiverIsOpen(s)'
    BY DEF Ahead, ReceiverIsOpen, Heads
  <1>5. \A x : GaveUp(s, x) => GaveUp(s, x)'
    BY <1>2 DEF GaveUp
  <1>6. got[s] = <<>> /\ Len(got[s]) = 0 /\ header'[s].type = "answer"
    BY <1>1, <1>2, <1>4, Sequences DEF Headed, Shape
  <1>7. /\ Len(chan'[s]) = Len(chan[s]) - 1 /\ Len(chan[s]) \in Nat \ {0}
        /\ \A i \in 1 .. Len(chan[s]) - 1 : chan'[s][i] = chan[s][i + 1]
    BY <1>1, <1>2, TailElements DEF Shape
  <1>8. Length(s)' = Length(s)
    BY <1>2, <1>4, <1>6, <1>7 DEF Length
  <1>9. Begun(s)'
    <2>1. joined'[s] # Nothing => joined'[s] <= Len(log'[BranchOf[s]])
      BY <1>1, <1>2 DEF Shape, LogGrows, Begun
    <2> QED BY <1>1, <1>2, <2>1 DEF Begun, Heads
  <1>10. Headed(s)'
    BY <1>4, <1>6 DEF Headed
  <1>11. Given(s)'
    BY <1>2, <1>6 DEF Given
  <1>12. Awaited(s)'
    <2>1. ASSUME NEW j \in 1 .. Len(chan'[s])
          PROVE  \/ Fits(s, j, chan[s][j])'
                 \/ j = Len(chan'[s]) /\ GaveUp(s, chan[s][j])'
      <3>1. j + 1 \in 2 .. Len(chan[s]) /\ chan'[s][j] = chan[s][j + 1]
        BY <1>7
      <3>2. PICK x : x = chan[s][j + 1]
        OBVIOUS
      <3>3. \/ Fits(s, Len(got[s]) + (j + 1) - Ahead(s), x)
            \/ j + 1 = Len(chan[s]) /\ GaveUp(s, x)
        BY <1>1, <1>4, <3>1, <3>2 DEF Awaited
      <3>4. Fits(s, j, x) \/ (j + 1 = Len(chan[s]) /\ GaveUp(s, x))
        BY <1>4, <1>6, <3>3
      <3>5. Fits(s, j, x)' \/ (j = Len(chan'[s]) /\ GaveUp(s, x)')
        BY <1>3, <1>5, <1>7, <3>4
      <3> QED BY <3>1, <3>2, <3>5
    <2>2. Sending(s)' => Length(s)' = Len(direct'[s])
      BY <1>1, <1>2, <1>4, <1>8 DEF Awaited, Sending
    <2>3. 1 + Ahead(s)' = 1 /\ \A j \in 1 .. Len(chan'[s]) : Len(got'[s]) + j - Ahead(s)' = j
      BY <1>2, <1>4, <1>6
    <2> QED BY <2>1, <2>2, <2>3 DEF Awaited
  <1> QED BY <1>2, <1>4, <1>8, <1>9, <1>10, <1>11, <1>12 DEF Response, Still

LEMMA ReadsResponse ==
  ASSUME NEW s \in Streams, Types, Types', LogGrows, Response(s), Reads(s)
  PROVE  Response(s)' /\ Still(s)
PROOF
  <1>1. Begun(s) /\ Headed(s) /\ Given(s) /\ Awaited(s) /\ Shape(s)
    BY ShapeOfStream DEF Response
  <1>2. /\ direct'[s] = direct[s] /\ Joins(s) /\ header'[s] = header[s]
        /\ handler'[s] = handler[s] /\ joined'[s] = joined[s]
        /\ chan[s] # <<>> /\ chan'[s] = Tail(chan[s])
        /\ got'[s] = Append(got[s], Head(chan[s]))
    BY DEF Reads, Joins
  <1>3. \A i \in Nat : \A x : 1 <= i /\ Fits(s, i, x) => Fits(s, i, x)'
    BY <1>1, <1>2, AllFit
  <1>4. Ahead(s) = 0 /\ Ahead(s)' = 0 /\ ReceiverIsOpen(s) /\ ReceiverIsOpen(s)'
    BY DEF Ahead, ReceiverIsOpen, Reads
  <1>5. \A x : GaveUp(s, x) => GaveUp(s, x)'
    BY <1>2 DEF GaveUp
  <1>6. /\ Len(chan'[s]) = Len(chan[s]) - 1 /\ Len(chan[s]) \in Nat \ {0}
        /\ \A i \in 1 .. Len(chan[s]) - 1 : chan'[s][i] = chan[s][i + 1]
        /\ Head(chan[s]) = chan[s][1]
    BY <1>1, <1>2, TailElements DEF Shape
  <1>7. /\ Len(got'[s]) = Len(got[s]) + 1 /\ Len(got[s]) \in Nat
        /\ \A i \in 1 .. Len(got[s]) : got'[s][i] = got[s][i]
        /\ got'[s][Len(got[s]) + 1] = chan[s][1]
    BY <1>1, <1>2, <1>6, AppendElements DEF Shape
  <1>8. PICK n \in Nat, m \in Nat \ {0} : n = Len(got[s]) /\ m = Len(chan[s])
    BY <1>6, <1>7
  <1>9. PICK n1 \in Nat, m1 \in Nat : n1 = n + 1 /\ m1 = m - 1
    OBVIOUS
  <1>10. n1 = Len(got'[s]) /\ m1 = Len(chan'[s])
    BY <1>6, <1>7, <1>8, <1>9
  <1>11. n1 + m1 - 0 = n + m - 0
    BY <1>9
  <1>12. Length(s)' = Length(s)
    <2>1. Length(s) = n + m - 0 /\ Length(s)' = n1 + m1 - 0
      BY <1>4, <1>8, <1>10 DEF Length
    <2> QED BY <1>11, <2>1
  <1>13. Begun(s)'
    <2>1. joined'[s] # Nothing => joined'[s] <= Len(log'[BranchOf[s]])
      BY <1>1, <1>2 DEF Shape, LogGrows, Begun
    <2> QED BY <1>1, <1>2, <2>1 DEF Begun, Reads
  <1>14. Headed(s)'
    BY <1>1, <1>2, <1>4 DEF Headed
  <1>15. \A j \in 1 .. Len(chan[s]) : \A x : x = chan[s][j] =>
           Fits(s, Len(got[s]) + j, x) \/ (j = Len(chan[s]) /\ GaveUp(s, x))
    <2>1. \A j \in 1 .. Len(chan[s]) : Len(got[s]) + j - Ahead(s) = Len(got[s]) + j
      BY <1>4, <1>7
    <2>2. 1 + Ahead(s) = 1
      BY <1>4
    <2> QED BY <1>1, <1>4, <2>1, <2>2 DEF Awaited
  <1>16. Given(s)'
    <2>1. ASSUME NEW i \in 1 .. n
          PROVE  Fits(s, i, got[s][i])'
      <3>1. PICK x : x = got[s][i]
        OBVIOUS
      <3>2. Fits(s, i, x)
        BY <1>1, <1>2, <1>4, <1>8, <3>1 DEF Given
      <3>3. Fits(s, i, x)'
        BY <1>3, <3>2
      <3> QED BY <1>7, <1>8, <3>1, <3>3
    <2>2. \/ Fits(s, n1, got[s][n1])'
          \/ GaveUp(s, got[s][n1])' /\ chan'[s] = <<>>
      <3>1. PICK x : x = chan[s][1]
        OBVIOUS
      <3>2. 1 \in 1 .. m /\ n + 1 = n1 /\ 1 <= n1
        BY <1>9
      <3>3. Fits(s, n1, x) \/ (1 = m /\ GaveUp(s, x))
        BY <1>8, <1>15, <3>1, <3>2
      <3>4. 1 = m => chan'[s] = <<>>
        <4>1. IsSequence(chan'[s])
          BY <1>1, <1>2, TailElements DEF Shape
        <4>2. 1 = m => m1 = 0
          BY <1>9
        <4> QED BY <1>10, <4>1, <4>2, Sequences
      <3>5. Fits(s, n1, x)' \/ (GaveUp(s, x)' /\ chan'[s] = <<>>)
        BY <1>3, <1>5, <3>2, <3>3, <3>4
      <3>6. x = got'[s][n1]
        BY <1>7, <1>8, <1>9, <3>1
      <3> QED BY <3>5, <3>6
    <2>3. \A i \in 1 .. n1 : i \in 1 .. n \/ i = n1
      BY <1>9
    <2>4. ASSUME NEW i \in 1 .. n1
          PROVE  \/ Fits(s, i, got[s][i])'
                 \/ i = n1 /\ GaveUp(s, got[s][i])' /\ chan'[s] = <<>>
      BY <2>1, <2>2, <2>3
    <2> QED BY <1>10, <2>4 DEF Given
  <1>17. Awaited(s)'
    <2>1. ASSUME NEW j \in 1 .. m1
          PROVE  \/ Fits(s, Len(got[s]) + j - Ahead(s), chan[s][j])'
                 \/ j = m1 /\ GaveUp(s, chan[s][j])'
      <3>1. j + 1 \in 1 .. m /\ j \in 1 .. m - 1
        BY <1>9
      <3>2. PICK x : x = chan[s][j + 1]
        OBVIOUS
      <3>3. PICK i \in Nat : i = n + (j + 1) /\ 1 <= i
        OBVIOUS
      <3>4. Fits(s, i, x) \/ (j + 1 = m /\ GaveUp(s, x))
        BY <1>8, <1>15, <3>1, <3>2, <3>3
      <3>5. Fits(s, i, x)' \/ (j = m1 /\ GaveUp(s, x)')
        <4>1. j + 1 = m => j = m1
          BY <1>9
        <4> QED BY <1>3, <1>5, <3>3, <3>4, <4>1
      <3>6. i = n1 + j - 0
        BY <1>9, <3>3
      <3>7. i = (Len(got[s]) + j - Ahead(s))'
        BY <1>4, <1>10, <3>6
      <3>8. x = chan'[s][j]
        BY <1>6, <1>8, <3>1, <3>2
      <3> QED BY <3>5, <3>7, <3>8
    <2>2. Sending(s)' => Length(s)' = Len(direct'[s])
      BY <1>1, <1>2, <1>4, <1>12 DEF Awaited, Sending
    <2>3. 1 + Ahead(s)' = 1
      BY <1>4
    <2> QED BY <1>10, <2>1, <2>2, <2>3 DEF Awaited
  <1> QED BY <1>2, <1>4, <1>12, <1>13, <1>14, <1>16, <1>17 DEF Response, Still

LEMMA ConnectsResponse ==
  ASSUME NEW s \in Streams, Types, Types', LogGrows, Response(s), Connects(s)
  PROVE  Response(s)' /\ Still(s)
PROOF
  <1>1. Begun(s) /\ Headed(s)
    BY DEF Response
  <1>2. /\ chan'[s] = <<>> /\ got'[s] = <<>> /\ direct'[s] = <<>> /\ joined'[s] = Nothing
        /\ header'[s] = header[s] /\ handler'[s] = "none" /\ joined[s] = Nothing
        /\ Ahead(s)' = 1 /\ http'[s] = "waiting"
    BY <1>1 DEF Connects, Begun, Ahead
  <1>3. Len(chan'[s]) = 0 /\ Len(got'[s]) = 0
    BY <1>2
  <1> QED BY <1>1, <1>2, <1>3 DEF Response, Begun, Headed, Given, Awaited, Sending, Still

LEMMA AppendsResponse ==
  ASSUME NEW s \in Streams, NEW x, Types, Types', LogGrows, Response(s), Appends(s, x),
         ~(handler[s] = "done" /\ joined[s] = Nothing),
         \/ direct'[s] = direct[s]
         \/ joined[s] = Nothing /\ \E c : direct'[s] = Append(direct[s], c),
         handler'[s] # "none", joined[s] # Nothing => handler'[s] = "done",
         \/ Ahead(s) = 1 /\ chan[s] = <<>> /\ x.type = "answer"
         \/ Fits(s, Length(s), x)' /\ (Ahead(s) = 1 => chan[s] # <<>>)
         \/ GaveUp(s, x)',
         Sending(s)' => Length(s)' = Len(direct'[s])
  PROVE  Response(s)'
PROOF
  <1>1. Begun(s) /\ Headed(s) /\ Given(s) /\ Awaited(s) /\ Shape(s)
    BY ShapeOfStream DEF Response
  <1>2. /\ chan'[s] = Append(chan[s], x) /\ got'[s] = got[s] /\ header'[s] = header[s]
        /\ joined'[s] = joined[s] /\ Joins(s) /\ http'[s] = http[s]
        /\ ReceiverIsOpen(s) /\ ReceiverIsOpen(s)'
    BY DEF Appends, Joins, ReceiverIsOpen
  <1>3. \A i \in Nat : \A y : 1 <= i /\ Fits(s, i, y) => Fits(s, i, y)'
    BY <1>1, <1>2, AllFit
  <1>4. PICK a \in {0, 1} : a = Ahead(s) /\ a = Ahead(s)'
    BY <1>2 DEF Ahead
  <1>5. \A y : ~GaveUp(s, y)
    BY DEF GaveUp
  <1>6. /\ Len(chan'[s]) = Len(chan[s]) + 1 /\ Len(chan[s]) \in Nat /\ chan'[s] # <<>>
        /\ \A i \in 1 .. Len(chan[s]) : chan'[s][i] = chan[s][i]
        /\ chan'[s][Len(chan[s]) + 1] = x
    <2>1. PICK q : q = chan[s] /\ IsSequence(q) /\ chan'[s] = Append(q, x)
      BY <1>1, <1>2 DEF Shape
    <2>2. /\ Append(q, x) # <<>>
          /\ Len(Append(q, x)) = Len(q) + 1 /\ Len(q) \in Nat
          /\ \A i \in 1 .. Len(q) : Append(q, x)[i] = q[i]
          /\ Append(q, x)[Len(q) + 1] = x
      BY <2>1, AppendElements
    <2> QED BY <2>1, <2>2
  <1>7. PICK n \in Nat, m \in Nat : n = Len(got[s]) /\ m = Len(chan[s])
    BY <1>1, <1>6, Sequences DEF Shape
  <1>8. PICK m1 \in Nat : m1 = m + 1
    OBVIOUS
  <1>9. m1 = Len(chan'[s])
    BY <1>6, <1>7, <1>8
  <1>10. Begun(s)'
    <2>1. joined'[s] # Nothing => joined'[s] <= Len(log'[BranchOf[s]])
      BY <1>1, <1>2 DEF Shape, LogGrows, Begun
    <2>2. http'[s] # "new"
      BY <1>2 DEF ReceiverIsOpen
    <2> QED BY <1>1, <1>2, <2>1, <2>2 DEF Begun
  <1>11. Headed(s)'
    <2>1. a = 1 => got'[s] = <<>>
      BY <1>1, <1>2, <1>4 DEF Headed
    <2>2. a = 1 => chan'[s][1].type = "answer"
      <3>1. CASE m = 0
        <4>1. chan[s] = <<>> /\ chan'[s][1] = x
          <5>1. m + 1 = 1
            BY <3>1
          <5> QED BY <1>1, <1>6, <1>7, <3>1, <5>1, Sequences DEF Shape
        <4>2. a = 1 => x.type = "answer"
          BY <1>4, <4>1 DEF GaveUp, Answer
        <4> QED BY <4>1, <4>2
      <3>2. CASE m # 0
        <4>1. 1 \in 1 .. m
          BY <3>2
        <4>2. chan[s] # <<>> /\ chan'[s][1] = chan[s][1]
          BY <1>1, <1>6, <1>7, <3>2, <4>1, Sequences DEF Shape
        <4> QED BY <1>1, <1>4, <4>2 DEF Headed
      <3> QED BY <3>1, <3>2
    <2> QED BY <1>1, <1>2, <1>4, <1>6, <2>1, <2>2 DEF Headed
  <1>12. Given(s)'
    <2>1. ASSUME NEW i \in 1 .. n
          PROVE  Fits(s, i, got[s][i])'
      <3>1. PICK y : y = got[s][i]
        OBVIOUS
      <3>2. Fits(s, i, y)
        BY <1>1, <1>5, <1>7, <3>1 DEF Given
      <3>3. Fits(s, i, y)'
        BY <1>3, <3>2
      <3> QED BY <1>2, <3>1, <3>3
    <2> QED BY <1>2, <1>7, <2>1 DEF Given
  <1>13. Awaited(s)'
    <2>1. ASSUME NEW j \in 1 + a .. m1
          PROVE  \/ Fits(s, Len(got[s]) + j - Ahead(s), chan[s][j])'
                 \/ j = m1 /\ GaveUp(s, chan[s][j])'
      <3>1. PICK i \in Nat : i = n + j - a /\ 1 <= i
        OBVIOUS
      <3>2. i = (Len(got[s]) + j - Ahead(s))' /\ i = Len(got[s]) + j - Ahead(s)
        BY <1>2, <1>4, <1>7, <3>1
      <3>3. CASE j \in 1 + a .. m
        <4>1. PICK y : y = chan[s][j]
          OBVIOUS
        <4>2. Fits(s, i, y)
          BY <1>1, <1>2, <1>4, <1>5, <1>7, <3>2, <3>3, <4>1 DEF Awaited
        <4>3. Fits(s, i, y)'
          BY <1>3, <3>1, <4>2
        <4>4. j \in 1 .. m
          BY <3>3
        <4>5. y = chan'[s][j]
          BY <1>6, <1>7, <4>1, <4>4
        <4> QED BY <3>2, <4>3, <4>5
      <3>4. CASE j = m1
        <4>1. chan'[s][j] = x
          BY <1>6, <1>7, <1>8, <3>4
        <4>2. ~(a = 1 /\ chan[s] = <<>>)
          <5>1. a = 1 => m # 0
            BY <1>8, <3>4
          <5> QED BY <1>1, <1>7, <5>1, Sequences DEF Shape
        <4>3. Fits(s, Length(s), x)' \/ GaveUp(s, x)'
          BY <1>4, <4>2
        <4>4. i = n + m1 - a
          BY <3>1, <3>4
        <4>5. Length(s)' = i
          BY <1>2, <1>4, <1>7, <1>9, <4>4 DEF Length
        <4>6. Fits(s, i, x)' \/ GaveUp(s, x)'
          BY <4>3, <4>5 DEF Fits
        <4> QED BY <3>2, <3>4, <4>1, <4>6
      <3>5. j \in 1 + a .. m \/ j = m1
        BY <1>8
      <3> QED BY <3>3, <3>4, <3>5
    <2> QED BY <1>4, <1>9, <2>1 DEF Awaited
  <1> QED BY <1>10, <1>11, <1>12, <1>13 DEF Response

\* A chunk more.
LEMMA AppendsLength ==
  ASSUME NEW s \in Streams, NEW x, Types, Appends(s, x)
  PROVE  /\ Length(s)' = Length(s) + 1 /\ Ahead(s)' = Ahead(s) /\ Length(s) \in Int
         /\ chan[s] # <<>> \/ Ahead(s) = 0 => Length(s) \in Nat
         /\ chan[s] = <<>> /\ got[s] = <<>> /\ Ahead(s) = 1 => Length(s)' = 0
PROOF
  <1>1. PICK g, q : /\ g = got[s] /\ q = chan[s] /\ IsSequence(g) /\ IsSequence(q)
                    /\ chan'[s] = Append(q, x) /\ got'[s] = g
    BY ShapeOfStream DEF Shape, Appends
  <1>2. /\ Len(g) \in Nat /\ Len(q) \in Nat /\ Len(Append(q, x)) = Len(q) + 1
        /\ q # <<>> => Len(q) # 0
        /\ g = <<>> => Len(g) = 0
        /\ q = <<>> => Len(q) = 0
    BY <1>1, AppendElements, Sequences
  <1>3. PICK n \in Nat, m \in Nat : n = Len(g) /\ m = Len(q)
    BY <1>2
  <1>4. PICK a \in {0, 1} : a = Ahead(s) /\ a = Ahead(s)'
    BY DEF Ahead, Appends
  <1>5. PICK m1 \in Nat : m1 = m + 1
    OBVIOUS
  <1>6. Length(s) = n + m - a /\ Length(s)' = n + m1 - a
    BY <1>1, <1>2, <1>3, <1>4, <1>5 DEF Length
  <1>7. /\ n + m1 - a = n + m - a + 1 /\ n + m - a \in Int
        /\ m # 0 \/ a = 0 => n + m - a \in Nat
        /\ n = 0 /\ m = 0 /\ a = 1 => n + m1 - a = 0
    BY <1>5
  <1>8. (q # <<>> => m # 0) /\ (g = <<>> => n = 0) /\ (q = <<>> => m = 0)
    BY <1>2, <1>3
  <1> QED BY <1>1, <1>4, <1>6, <1>7, <1>8

LEMMA AnswersResponse ==
  ASSUME NEW s \in Streams, Types, Types', LogGrows, Response(s), Answers(s)
  PROVE  Response(s)' /\ Still(s)
PROOF
  <1>1. PICK x : Appends(s, x) /\ x.type = "answer"
    BY DEF Answers
  <1>2. Begun(s) /\ Headed(s)
    BY DEF Response
  <1>3. /\ chan[s] = <<>> /\ got[s] = <<>> /\ direct'[s] = <<>> /\ joined[s] = Nothing
        /\ direct'[s] = direct[s]
    BY <1>2 DEF Answers, Begun
  <1>4. Ahead(s) = 1 /\ handler'[s] # "none" /\ handler[s] = "none"
    BY DEF Answers, Ahead
  <1>5. Length(s)' = 0 /\ Len(direct'[s]) = 0
    BY <1>1, <1>3, <1>4, AppendsLength
  <1>6. Response(s)'
    BY <1>1, <1>3, <1>4, <1>5, AppendsResponse
  <1> QED BY <1>3, <1>6 DEF Still

LEMMA TellsResponse ==
  ASSUME NEW s \in Streams, Types, Types', LogGrows, Response(s), Tells(s)
  PROVE  Response(s)' /\ Still(s)
PROOF
  <1>1. PICK c : Appends(s, Event(c)) /\ direct'[s] = Append(direct[s], c)
    BY DEF Tells
  <1>2. PICK x : x = Event(c)
    OBVIOUS
  <1>3. Begun(s) /\ Headed(s) /\ Awaited(s)
    BY DEF Response
  <1>4. Sending(s) /\ joined[s] = Nothing /\ joined'[s] = Nothing /\ handler'[s] = handler[s]
    BY <1>1, <1>3 DEF Tells, Begun, Sending, Appends
  <1>5. ReceiverIsOpen(s) /\ Length(s) = Len(direct[s])
    BY <1>1, <1>3, <1>4 DEF Appends, Awaited
  <1>6. Length(s)' = Length(s) + 1
    BY <1>1, AppendsLength
  <1>7. PICK e : e = direct[s] /\ IsSequence(e) /\ direct'[s] = Append(e, c)
    BY <1>1, ShapeOfStream DEF Shape
  <1>8. /\ Len(Append(e, c)) = Len(e) + 1 /\ Len(e) \in Nat
        /\ Append(e, c)[Len(e) + 1] = c
    BY <1>7, AppendElements
  <1>9. PICK d \in Nat : d = Len(e) + 1 /\ d = Len(direct'[s]) /\ d = Length(s)' /\ direct'[s][d] = c
    BY <1>5, <1>6, <1>7, <1>8
  <1>10. Fits(s, Length(s), x)'
    <2>1. Live(s)' = 0
      BY <1>4 DEF Live
    <2>2. Expected(s, Length(s))' = c
      BY <1>9 DEF Expected
    <2>3. Length(s)' <= Len(direct'[s]) + Live(s)'
      <3>1. d <= d + 0
        OBVIOUS
      <3> QED BY <1>9, <2>1, <3>1
    <2> QED BY <1>2, <2>2, <2>3 DEF Fits
  <1>11. Ahead(s) = 1 => chan[s] # <<>>
    BY <1>3, <1>4 DEF Headed
  <1>12. handler'[s] # "none" /\ ~(handler[s] = "done")
    BY <1>4 DEF Sending
  <1>13. Response(s)'
    BY <1>1, <1>2, <1>4, <1>9, <1>10, <1>11, <1>12, AppendsResponse
  <1> QED BY <1>4, <1>13 DEF Still

LEMMA RelaysResponse ==
  ASSUME NEW s \in Streams, Types, Types', LogGrows, Response(s), Relays(s)
  PROVE  Response(s)' /\ Length(s)' = Length(s) + 1
PROOF
  <1>1. PICK x : Appends(s, x) /\ Fits(s, Length(s) + 1, x)
    BY DEF Relays
  <1>2. Begun(s) /\ Headed(s)
    BY DEF Response
  <1>3. /\ handler[s] = "done" /\ handler'[s] = "done" /\ joined[s] # Nothing
        /\ direct'[s] = direct[s] /\ Joins(s)
    BY <1>1 DEF Relays, Appends, Joins
  <1>4. Ahead(s) = 1 => chan[s] # <<>>
    BY <1>2, <1>3 DEF Headed
  <1>5. Ahead(s) \in {0, 1}
    BY DEF Ahead
  <1>6. Length(s)' = Length(s) + 1 /\ Length(s) \in Nat
    BY <1>1, <1>4, <1>5, AppendsLength
  <1>7. PICK i \in Nat : i = Length(s) + 1 /\ 1 <= i
    BY <1>6
  <1>8. Fits(s, i, x)'
    BY <1>1, <1>2, <1>3, <1>7, AllFit
  <1>9. Fits(s, Length(s), x)'
    BY <1>6, <1>7, <1>8 DEF Fits
  <1>10. ~Sending(s)'
    BY <1>3 DEF Sending
  <1>11. Response(s)'
    BY <1>1, <1>3, <1>4, <1>9, <1>10, AppendsResponse
  <1> QED BY <1>6, <1>11

LEMMA FailsResponse ==
  ASSUME NEW s \in Streams, Types, Types', LogGrows, Response(s), Fails(s)
  PROVE  Response(s)' /\ Still(s)
PROOF
  <1>1. Begun(s)
    BY DEF Response
  <1>2. PICK x : x = Answer("failed")
    OBVIOUS
  <1>3. Appends(s, x) /\ direct'[s] = direct[s] /\ joined[s] = Nothing /\ joined'[s] = Nothing
    BY <1>1, <1>2 DEF Fails, Begun, Appends
  <1>4. GaveUp(s, x)'
    BY <1>2, <1>3 DEF Fails, GaveUp
  <1>5. handler'[s] # "none" /\ ~Sending(s)' /\ ~(handler[s] = "done")
    BY DEF Fails, Sending
  <1>6. Response(s)'
    BY <1>3, <1>4, <1>5, AppendsResponse
  <1> QED BY <1>3, <1>6 DEF Still

LEMMA MovesResponse ==
  ASSUME NEW s \in Streams, Types, Types', LogGrows, Response(s), Moves(s)
  PROVE  Response(s)' /\ Still(s)
PROOF
  BY KeepsResponse, ClosesResponse, HeadsResponse, ReadsResponse, ConnectsResponse,
     AnswersResponse, TellsResponse, FailsResponse DEF Moves

-------------------------------------------------------------------------------
(* Every step moves every response *)

LEMMA IdleMoves ==
  ASSUME NEW s \in Streams,
         /\ chan'[s] = chan[s] /\ got'[s] = got[s] /\ header'[s] = header[s]
         /\ direct'[s] = direct[s] /\ http'[s] = http[s] /\ handler'[s] = handler[s]
         /\ joined'[s] = joined[s]
  PROVE  Moves(s)
PROOF BY DEF Moves, Keeps

LEMMA ServerMoves ==
  ASSUME Types, Server, \A k \in DOMAIN subs : ~TaskSends(k)
  PROVE  \A s \in Streams : Moves(s)
PROOF
  <1>1. /\ UNCHANGED <<handler, direct, joined>> /\ ServerStep(Held)
        /\ DOMAIN http = Streams /\ DOMAIN chan = Streams
        /\ DOMAIN got = Streams /\ DOMAIN header = Streams
    BY DEF Server, handlerVars, Types, ServerTypes, ServerTypeOK
  <1>2. ASSUME NEW s \in Streams, Connect(s), NEW t \in Streams PROVE Moves(t)
    <2>1. CASE t = s
      <3>1. Connects(s)
        BY <1>1, <1>2 DEF Connect, Connects
      <3> QED BY <2>1, <3>1 DEF Moves
    <2>2. CASE t # s
      BY <1>1, <1>2, <2>2, IdleMoves DEF Connect
    <2> QED BY <2>1, <2>2
  <1>3. ASSUME NEW s \in Streams, FirstChunk(s), NEW t \in Streams PROVE Moves(t)
    <2>1. CASE t = s
      <3>1. chan'[s] = <<>> \/ chan'[s] = Tail(chan[s])
        BY <1>1, <1>3 DEF FirstChunk
      <3>2. Ahead(s) = 1 /\ chan[s] # <<>> /\ header'[s] = Head(chan[s])
        BY <1>1, <1>3 DEF FirstChunk, Ahead
      <3>3. CASE http[s] = "waiting" /\ BodyOf(Head(chan[s])) = "stream"
        <4>1. http'[s] = "streaming" /\ chan'[s] = Tail(chan[s])
          BY <1>1, <1>3, <3>3 DEF FirstChunk
        <4>2. Heads(s)
          BY <1>1, <1>3, <3>2, <3>3, <4>1 DEF FirstChunk, Heads
        <4> QED BY <2>1, <4>2 DEF Moves
      <3>4. CASE ~(http[s] = "waiting" /\ BodyOf(Head(chan[s])) = "stream")
        <4>1. http'[s] \in {"abandoned", "ended"} /\ chan'[s] = <<>>
          BY <1>1, <1>3, <3>4 DEF FirstChunk
        <4>2. Closes(s)
          BY <1>1, <1>3, <3>2, <4>1 DEF FirstChunk, Closes, ReceiverIsOpen
        <4> QED BY <2>1, <4>2 DEF Moves
      <3> QED BY <3>3, <3>4
    <2>2. CASE t # s
      <3>1. chan'[t] = chan[t] /\ header'[t] = header[t]
        BY <1>1, <1>3, <2>2 DEF FirstChunk
      <3>2. http'[t] = http[t]
        BY <1>1, <1>3, <2>2 DEF FirstChunk
      <3> QED BY <1>1, <1>3, <3>1, <3>2, IdleMoves DEF FirstChunk
    <2> QED BY <2>1, <2>2
  <1>4. ASSUME NEW s \in Streams, NoFirstChunk(s, Held), NEW t \in Streams PROVE Moves(t)
    <2>1. CASE t = s
      <3>1. Closes(s)
        BY <1>1, <1>4 DEF NoFirstChunk, Closes, ReceiverIsOpen
      <3> QED BY <2>1, <3>1 DEF Moves
    <2>2. CASE t # s
      BY <1>1, <1>4, <2>2, IdleMoves DEF NoFirstChunk
    <2> QED BY <2>1, <2>2
  <1>5. ASSUME NEW s \in Streams, ClientReads(s), NEW t \in Streams PROVE Moves(t)
    <2>1. CASE t = s
      <3>1. Reads(s)
        BY <1>1, <1>5 DEF ClientReads, Reads
      <3> QED BY <2>1, <3>1 DEF Moves
    <2>2. CASE t # s
      BY <1>1, <1>5, <2>2, IdleMoves DEF ClientReads
    <2> QED BY <2>1, <2>2
  <1>6. ASSUME NEW s \in Streams, DropBody(s), NEW t \in Streams PROVE Moves(t)
    <2>1. CASE t = s
      <3>1. Closes(s)
        BY <1>1, <1>6 DEF DropBody, Closes, ReceiverIsOpen
      <3> QED BY <2>1, <3>1 DEF Moves
    <2>2. CASE t # s
      BY <1>1, <1>6, <2>2, IdleMoves DEF DropBody
    <2> QED BY <2>1, <2>2
  <1>7. ASSUME NEW s \in Streams, ClientLeaves(s), NEW t \in Streams PROVE Moves(t)
    <2>1. CASE DropBody(s)
      BY <1>6, <2>1
    <2>2. CASE t = s /\ ~DropBody(s)
      <3>1. Keeps(s)
        BY <1>1, <1>7, <2>2 DEF ClientLeaves, Keeps
      <3> QED BY <2>2, <3>1 DEF Moves
    <2>3. CASE t # s /\ ~DropBody(s)
      BY <1>1, <1>7, <2>3, IdleMoves DEF ClientLeaves
    <2> QED BY <2>1, <2>2, <2>3
  <1>8. ASSUME NEW s \in Streams, GuardUnsubscribes(s) \/ GuardForgets(s), NEW t \in Streams
        PROVE Moves(t)
    <2>1. CASE t = s
      <3>1. Closes(s)
        BY <1>1, <1>8 DEF GuardUnsubscribes, GuardForgets, Closes, ReceiverIsOpen
      <3> QED BY <2>1, <3>1 DEF Moves
    <2>2. CASE t # s
      BY <1>1, <1>8, <2>2, IdleMoves DEF GuardUnsubscribes, GuardForgets
    <2> QED BY <2>1, <2>2
  <1>9. ASSUME NEW k \in DOMAIN subs, TaskReceives(k), NEW t \in Streams PROVE Moves(t)
    BY <1>1, <1>9, IdleMoves DEF TaskReceives
  <1>10. ASSUME StartServer \/ Forward, NEW t \in Streams PROVE Moves(t)
    BY <1>1, <1>10, IdleMoves DEF StartServer, Forward
  <1> QED BY <1>1, <1>2, <1>3, <1>4, <1>5, <1>6, <1>7, <1>8, <1>9, <1>10 DEF ServerStep, EndOfBody

LEMMA HandlerMoves ==
  ASSUME Types, \A s \in Streams : Response(s), NEW h \in Streams, HandlerStep(h)
  PROVE  \A s \in Streams : Moves(s)
PROOF
  <1>1. /\ DOMAIN handler = Streams /\ DOMAIN chan = Streams
        /\ DOMAIN direct = Streams /\ DOMAIN joined = Streams /\ Begun(h)
    BY DEF Types, ServerTypes, PluginTypes, Response
  <1>2. ASSUME SendHeader(h), NEW t \in Streams PROVE Moves(t)
    <2>1. CASE t = h /\ Sent(h)
      <3>1. PICK x : x.type = "answer" /\ (Send(h, x) \/ SendAndClose(h, x))
        BY <1>2 DEF SendHeader, Answer
      <3>2. Appends(h, x)
        BY <1>1, <1>2, <2>1, <3>1 DEF SendHeader, Send, SendAndClose, Sent, Appends
      <3>3. Answers(h)
        BY <1>1, <1>2, <2>1, <3>1, <3>2 DEF SendHeader, Goto, Answers
      <3> QED BY <2>1, <3>3 DEF Moves
    <2>2. CASE t = h /\ ~Sent(h)
      <3>1. Keeps(h)
        BY <1>1, <1>2, <2>2 DEF SendHeader, Send, SendAndClose, Goto, Keeps
      <3> QED BY <2>2, <3>1 DEF Moves
    <2>3. CASE t # h
      BY <1>1, <1>2, <2>3, IdleMoves DEF SendHeader, Send, SendAndClose, Goto
    <2> QED BY <2>1, <2>2, <2>3
  <1>3. ASSUME SetupTimeout(h) \/ ReadHistory(h) \/ BeginPhase2(h) \/ GetSender(h),
               NEW t \in Streams
        PROVE  Moves(t)
    <2>1. UNCHANGED <<http, chan, got, header, direct, joined>>
      BY <1>3 DEF SetupTimeout, ReadHistory, BeginPhase2, GetSender, serverVars
    <2>2. CASE t = h
      <3>1. Keeps(h)
        BY <1>1, <1>3, <2>1 DEF SetupTimeout, ReadHistory, BeginPhase2, GetSender, Goto, Keeps, Sending
      <3> QED BY <2>2, <3>1 DEF Moves
    <2>3. CASE t # h
      <3>1. handler'[t] = handler[t]
        BY <1>1, <1>3, <2>3 DEF SetupTimeout, ReadHistory, BeginPhase2, GetSender, Goto
      <3> QED BY <2>1, <3>1, IdleMoves
    <2> QED BY <2>2, <2>3
  <1>4. ASSUME SendHistorical(h) \/ SendDelta(h), NEW t \in Streams PROVE Moves(t)
    <2>1. /\ SendNext(h, "failed") /\ Sending(h)
          /\ UNCHANGED <<http, got, header, joined>>
      BY <1>4 DEF SendHistorical, SendDelta, Sending
    <2>2. PICK c : c = Head(todo[h])
      OBVIOUS
    <2>3. CASE t = h /\ Sent(h)
      <3>1. /\ chan' = [chan EXCEPT ![h] = Append(@, Event(c))]
            /\ direct' = [direct EXCEPT ![h] = Append(@, c)] /\ UNCHANGED handler
            /\ ReceiverIsOpen(h)
        BY <2>1, <2>2, <2>3 DEF SendNext, Send, Sent
      <3>2. Tells(h)
        BY <1>1, <2>1, <3>1 DEF Tells, Appends
      <3> QED BY <2>3, <3>2 DEF Moves
    <2>4. CASE t = h /\ ~Sent(h)
      <3>1. Keeps(h)
        BY <1>1, <2>1, <2>4 DEF SendNext, Send, Goto, Keeps
      <3> QED BY <2>4, <3>1 DEF Moves
    <2>5. CASE t # h
      <3>1. chan'[t] = chan[t] /\ direct'[t] = direct[t] /\ handler'[t] = handler[t]
        BY <1>1, <2>1, <2>5 DEF SendNext, Send, Goto
      <3> QED BY <2>1, <3>1, IdleMoves
    <2> QED BY <2>3, <2>4, <2>5
  <1>5. ASSUME Register(h), NEW t \in Streams PROVE Moves(t)
    <2>1. CASE t = h
      <3>1. joined[h] = Nothing
        BY <1>1, <1>5 DEF Register, Begun
      <3>2. Keeps(h)
        BY <1>1, <1>5, <3>1 DEF Register, Goto, Keeps, Joins, Sending
      <3> QED BY <2>1, <3>2 DEF Moves
    <2>2. CASE t # h
      BY <1>1, <1>5, <2>2, IdleMoves DEF Register, Goto
    <2> QED BY <2>1, <2>2
  <1>6. ASSUME HandlerFailed(h), NEW t \in Streams PROVE Moves(t)
    <2>1. CASE t = h /\ Sent(h)
      <3>1. Fails(h)
        BY <1>1, <1>6, <2>1 DEF HandlerFailed, SendAndClose, Sent, Goto, Fails, Appends
      <3> QED BY <2>1, <3>1 DEF Moves
    <2>2. CASE t = h /\ ~Sent(h)
      <3>1. Keeps(h)
        BY <1>1, <1>6, <2>2 DEF HandlerFailed, SendAndClose, Goto, Keeps, Begun
      <3> QED BY <2>2, <3>1 DEF Moves
    <2>3. CASE t # h
      BY <1>1, <1>6, <2>3, IdleMoves DEF HandlerFailed, SendAndClose, Goto
    <2> QED BY <2>1, <2>2, <2>3
  <1>7. ASSUME HandlerThrows(h), NEW t \in Streams PROVE Moves(t)
    <2>1. CASE t = h
      <3>1. Keeps(h)
        BY <1>1, <1>7 DEF HandlerThrows, Goto, Keeps, Joins, Sending
      <3> QED BY <2>1, <3>1 DEF Moves
    <2>2. CASE t # h
      BY <1>1, <1>7, <2>2, IdleMoves DEF HandlerThrows, Goto
    <2> QED BY <2>1, <2>2
  <1> QED BY <1>2, <1>3, <1>4, <1>5, <1>6, <1>7 DEF HandlerStep

LEMMA OtherMoves ==
  ASSUME NEW s \in Streams,
         \/ \E t \in Streams : TimeoutFires(t)
         \/ \E b \in Channels : Commit(b) \/ ResetBranch(b)
         \/ \E c \in Commits : HookStep(c)
         \/ UNCHANGED vars
  PROVE  Moves(s)
PROOF
  BY IdleMoves DEF TimeoutFires, Commit, ResetBranch, HookStep, SweepAndCheck, BroadcastCommit,
                   vars, serverVars, handlerVars

LEMMA LogStep ==
  ASSUME Types, [Next]_vars
  PROVE  LogGrows
PROOF
  <1>1. log \in [Channels -> Seq(Commits)]
    BY DEF Types, ServerTypes
  <1>2. UNCHANGED log => LogGrows
    BY <1>1 DEF LogGrows
  <1>3. ASSUME NEW b \in Channels, NEW c \in Commits, log' = [log EXCEPT ![b] = Append(@, c)]
        PROVE  LogGrows
    <2>1. ASSUME NEW a \in Channels
          PROVE  /\ Len(log[a]) \in Nat /\ Len(log'[a]) \in Nat /\ Len(log[a]) <= Len(log'[a])
                 /\ \A i \in 1 .. Len(log[a]) : log'[a][i] = log[a][i]
      <3>1. PICK q \in Seq(Commits) : q = log[a]
        BY <1>1
      <3>2. log'[a] = q \/ log'[a] = Append(q, c)
        BY <1>1, <1>3, <3>1
      <3> QED BY <3>1, <3>2
    <2> QED BY <2>1 DEF LogGrows
  <1>4. ASSUME NEW c \in Commits, BroadcastCommit(c) PROVE LogGrows
    <2>1. hook[c].branch \in Channels
      BY <1>4 DEF BroadcastCommit, Types, PluginTypes
    <2> QED BY <1>2, <1>3, <1>4, <2>1 DEF BroadcastCommit
  <1>5. ASSUME Server PROVE UNCHANGED log
    BY <1>5 DEF Server, ServerStep, StartServer, Forward, TaskReceives, TaskSends, Connect,
                FirstChunk, NoFirstChunk, ClientReads, EndOfBody, ClientLeaves, DropBody,
                GuardUnsubscribes, GuardForgets
  <1>6. ASSUME NEW s \in Streams, HandlerStep(s) \/ TimeoutFires(s) PROVE UNCHANGED log
    BY <1>6 DEF HandlerStep, SendHeader, SetupTimeout, ReadHistory, SendHistorical, BeginPhase2,
                SendDelta, GetSender, Register, HandlerFailed, HandlerThrows, TimeoutFires, serverVars
  <1>7. ASSUME NEW b \in Channels, Commit(b) \/ ResetBranch(b) PROVE UNCHANGED log
    BY <1>7 DEF Commit, ResetBranch, serverVars
  <1>8. ASSUME NEW c \in Commits, SweepAndCheck(c) PROVE UNCHANGED log
    BY <1>8 DEF SweepAndCheck
  <1>9. ASSUME UNCHANGED vars PROVE UNCHANGED log
    BY <1>9 DEF vars, serverVars
  <1> QED BY <1>2, <1>4, <1>5, <1>6, <1>7, <1>8, <1>9 DEF Next, HookStep

-------------------------------------------------------------------------------
(* The queue of the forwarder *)

LEMMA QueuedPush ==
  ASSUME NEW q \in Seq(Commands), NEW cs \in Seq(Commands), NEW l \in [Channels -> Seq(Commits)],
         NEW u \in Counts, Queued(u, q, l), \A i \in 1 .. Len(cs) : cs[i].op # "send"
  PROVE  \E v \in Counts :
           /\ Queued(v, q \o cs, l)
           /\ \A b \in Channels : \A i \in 0 .. Len(q) : v[b][i] = u[b][i]
           /\ \A b \in Channels : \A i \in Nat : i > Len(q) => v[b][i] = Len(l[b])
PROOF
  <1> DEFINE v == [b \in Channels |-> [i \in Nat |-> IF i <= Len(q) THEN u[b][i] ELSE Len(l[b])]]
  <1>1. PICK n \in Nat, m \in Nat : n = Len(q) /\ m = Len(cs)
    OBVIOUS
  <1>2. /\ v \in Counts
        /\ \A b \in Channels : \A i \in Nat : v[b][i] = IF i <= n THEN u[b][i] ELSE Len(l[b])
    <2>1. \A b \in Channels : Len(l[b]) \in Nat
      OBVIOUS
    <2>2. \A b \in Channels : \A i \in Nat : u[b][i] \in Nat
      BY DEF Counts
    <2>3. \A b \in Channels : \A i \in Nat : v[b][i] = IF i <= n THEN u[b][i] ELSE Len(l[b])
      BY <1>1
    <2>4. v \in Counts
      BY <2>1, <2>2 DEF Counts
    <2> QED BY <2>3, <2>4
  <1>3. \A b \in Channels : u[b][n] = Len(l[b]) /\ Len(l[b]) \in Nat
    BY <1>1 DEF Queued
  <1>4. /\ Len(q \o cs) = n + m
        /\ \A i \in 1 .. n : (q \o cs)[i] = q[i]
        /\ \A i \in 1 .. m : (q \o cs)[n + i] = cs[i]
    BY <1>1, ConcatElements, TypedSequence
  <1> HIDE DEF v
  <1>5. PICK r : r = q \o cs
    OBVIOUS
  <1>6. ASSUME NEW i \in n + 1 .. n + m
        PROVE  r[i].op # "send"
    <2>1. PICK j \in 1 .. m : i = n + j
      <3>1. i - n \in 1 .. m /\ i = n + (i - n)
        OBVIOUS
      <3> QED BY <3>1
    <2> QED BY <1>1, <1>4, <1>5, <2>1
  <1>7. ASSUME NEW b \in Channels
        PROVE  /\ v[b][n + m] = Len(l[b])
               /\ \A i \in 0 .. n + m : v[b][i] <= Len(l[b])
               /\ \A i \in 1 .. n + m :
                    /\ Sends(r[i], b) => /\ v[b][i] = v[b][i - 1] + 1
                                         /\ r[i].chunk = Event(l[b][v[b][i]])
                    /\ ~Sends(r[i], b) => v[b][i] = v[b][i - 1]
    <2>1. PICK L \in Nat : L = Len(l[b])
      BY <1>3
    <2>2. \A i \in Nat : v[b][i] = IF i <= n THEN u[b][i] ELSE L
      BY <1>2, <2>1
    <2>3. u[b][n] = L
      BY <1>3, <2>1
    <2>4. v[b][n + m] = L
      <3>1. n + m \in Nat /\ (n + m <= n => n + m = n)
        OBVIOUS
      <3> QED BY <2>2, <2>3, <3>1
    <2>5. \A i \in 0 .. n : u[b][i] <= L
      BY <1>1, <2>1 DEF Queued
    <2>6. ASSUME NEW i \in 0 .. n + m
          PROVE  v[b][i] <= L
      BY <2>2, <2>5
    <2>7. ASSUME NEW i \in 1 .. n
          PROVE  /\ Sends(r[i], b) => /\ v[b][i] = v[b][i - 1] + 1
                                      /\ r[i].chunk = Event(l[b][v[b][i]])
                 /\ ~Sends(r[i], b) => v[b][i] = v[b][i - 1]
      <3>1. v[b][i] = u[b][i] /\ v[b][i - 1] = u[b][i - 1] /\ r[i] = q[i]
        BY <1>4, <1>5, <2>2
      <3>2. /\ Sends(q[i], b) => /\ u[b][i] = u[b][i - 1] + 1
                                 /\ q[i].chunk = Event(l[b][u[b][i]])
            /\ ~Sends(q[i], b) => u[b][i] = u[b][i - 1]
        BY <1>1 DEF Queued
      <3> QED BY <3>1, <3>2
    <2>8. ASSUME NEW i \in n + 1 .. n + m
          PROVE  ~Sends(r[i], b) /\ v[b][i] = v[b][i - 1]
      <3>1. /\ i \in Nat /\ i - 1 \in Nat /\ ~(i <= n)
            /\ i - 1 <= n => i - 1 = n
        OBVIOUS
      <3>2. v[b][i] = L /\ v[b][i - 1] = L
        BY <2>2, <2>3, <3>1
      <3> QED BY <1>6, <3>2 DEF Sends
    <2>9. \A i \in 1 .. n + m : i \in 1 .. n \/ i \in n + 1 .. n + m
      OBVIOUS
    <2> QED BY <2>1, <2>4, <2>6, <2>7, <2>8, <2>9
  <1>8. Queued(v, r, l)
    BY <1>4, <1>5, <1>7 DEF Queued
  <1>9. /\ \A b \in Channels : \A i \in 0 .. n : v[b][i] = u[b][i]
        /\ \A b \in Channels : \A i \in Nat : i > n => v[b][i] = Len(l[b])
    BY <1>2
  <1> QED BY <1>1, <1>2, <1>5, <1>8, <1>9, SMTT(30)

\* The commit c was broadcast on the branch ch: the queue q became r, the log l became ll.
WasSent(q, r, l, ll, ch, c) ==
  /\ r = Append(q, Broadcast(ch, c))
  /\ \A b \in Channels : ll[b] = IF b = ch THEN Append(l[b], c) ELSE l[b]

LEMMA QueuedSend ==
  ASSUME NEW q \in Seq(Commands), NEW l \in [Channels -> Seq(Commits)],
         NEW u \in Counts, Queued(u, q, l), NEW ch \in Channels, NEW c \in Commits,
         NEW r, NEW ll, WasSent(q, r, l, ll, ch, c)
  PROVE  \E v \in Counts :
           /\ Queued(v, r, ll)
           /\ \A b \in Channels : \A i \in 0 .. Len(q) : v[b][i] = u[b][i]
PROOF
  <1>1. PICK n \in Nat : n = Len(q)
    OBVIOUS
  <1>3. ASSUME NEW b \in Channels
        PROVE  /\ Len(l[b]) \in Nat
               /\ Len(ll[b]) = Len(l[b]) + (IF b = ch THEN 1 ELSE 0)
               /\ \A i \in 1 .. Len(l[b]) : ll[b][i] = l[b][i]
               /\ b = ch => ll[b][Len(l[b]) + 1] = c
    <2>1. PICK p \in Seq(Commits) : p = l[b]
      OBVIOUS
    <2>2. ll[b] = IF b = ch THEN Append(p, c) ELSE p
      BY <2>1 DEF WasSent
    <2> QED BY <2>1, <2>2
  <1> DEFINE v == [b \in Channels |-> [i \in Nat |-> IF i <= n THEN u[b][i] ELSE Len(ll[b])]]
  <1>4. /\ v \in Counts
        /\ \A b \in Channels : \A i \in Nat : v[b][i] = IF i <= n THEN u[b][i] ELSE Len(ll[b])
    <2>1. \A b \in Channels : Len(ll[b]) \in Nat
      BY <1>3
    <2> QED BY <2>1 DEF Counts
  <1> HIDE DEF v
  <1>5. PICK x : x = Broadcast(ch, c)
    OBVIOUS
  <1>6. Len(r) = n + 1 /\ r[n + 1] = x /\ \A i \in 1 .. n : r[i] = q[i]
    BY <1>1, <1>5, AppendElements, TypedSequence DEF WasSent
  <1>7. ASSUME NEW b \in Channels
        PROVE  /\ v[b][n + 1] = Len(ll[b])
               /\ \A i \in 0 .. n + 1 : v[b][i] <= Len(ll[b])
               /\ \A i \in 1 .. n + 1 :
                    /\ Sends(r[i], b) => /\ v[b][i] = v[b][i - 1] + 1
                                         /\ r[i].chunk = Event(ll[b][v[b][i]])
                    /\ ~Sends(r[i], b) => v[b][i] = v[b][i - 1]
    <2>1. PICK L \in Nat, K \in Nat :
            L = Len(l[b]) /\ K = Len(ll[b]) /\ K = L + (IF b = ch THEN 1 ELSE 0)
      <3>1. PICK L \in Nat : L = Len(l[b])
        BY <1>3
      <3>2. PICK K \in Nat : K = L + (IF b = ch THEN 1 ELSE 0)
        OBVIOUS
      <3> QED BY <1>3, <3>1, <3>2
    <2>2. \A i \in Nat : v[b][i] = IF i <= n THEN u[b][i] ELSE K
      BY <1>4, <2>1
    <2>3. u[b][n] = L /\ \A i \in 0 .. n : u[b][i] <= L
      BY <1>1, <2>1 DEF Queued
    <2>4. v[b][n + 1] = K
      <3>1. n + 1 \in Nat /\ ~(n + 1 <= n)
        OBVIOUS
      <3> QED BY <2>2, <3>1
    <2>5. \A i \in 0 .. n : u[b][i] \in Nat
      BY DEF Counts
    <2>6. ASSUME NEW i \in 0 .. n + 1
          PROVE  v[b][i] <= K
      <3>1. CASE i \in 0 .. n
        <4>1. v[b][i] = u[b][i] /\ u[b][i] <= L /\ u[b][i] \in Nat
          BY <2>2, <2>3, <2>5, <3>1
        <4> QED BY <2>1, <4>1
      <3>2. CASE i \notin 0 .. n
        BY <2>2, <3>2
      <3> QED BY <3>1, <3>2
    <2>7. ASSUME NEW i \in 1 .. n
          PROVE  /\ Sends(r[i], b) => /\ v[b][i] = v[b][i - 1] + 1
                                      /\ r[i].chunk = Event(ll[b][v[b][i]])
                 /\ ~Sends(r[i], b) => v[b][i] = v[b][i - 1]
      <3>0. i \in 0 .. n /\ i - 1 \in 0 .. n /\ i \in Nat /\ i - 1 \in Nat
        OBVIOUS
      <3>1. v[b][i] = u[b][i] /\ v[b][i - 1] = u[b][i - 1] /\ r[i] = q[i]
        BY <1>6, <2>2, <3>0
      <3>2. /\ Sends(q[i], b) => /\ u[b][i] = u[b][i - 1] + 1
                                 /\ q[i].chunk = Event(l[b][u[b][i]])
            /\ ~Sends(q[i], b) => u[b][i] = u[b][i - 1]
        BY <1>1 DEF Queued
      <3>3. Sends(q[i], b) => u[b][i] \in 1 .. L
        <4>1. u[b][i] \in Nat /\ u[b][i - 1] \in Nat /\ u[b][i] <= L
          BY <2>3, <2>5, <3>0
        <4>2. Sends(q[i], b) => u[b][i] = u[b][i - 1] + 1
          BY <3>2
        <4> QED BY <4>1, <4>2
      <3>4. Sends(q[i], b) => ll[b][u[b][i]] = l[b][u[b][i]]
        BY <1>3, <2>1, <3>3
      <3> QED BY <3>1, <3>2, <3>4
    <2>8. /\ Sends(r[n + 1], b) => /\ v[b][n + 1] = v[b][n] + 1
                                   /\ r[n + 1].chunk = Event(ll[b][v[b][n + 1]])
          /\ ~Sends(r[n + 1], b) => v[b][n + 1] = v[b][n]
      <3>1. v[b][n] = L
        BY <2>2, <2>3
      <3>2. Sends(r[n + 1], b) <=> b = ch
        BY <1>5, <1>6 DEF Sends, Broadcast
      <3>3. b = ch => K = L + 1 /\ ll[b][K] = c /\ r[n + 1].chunk = Event(c)
        BY <1>3, <1>5, <1>6, <2>1 DEF Broadcast
      <3> QED BY <2>1, <2>4, <3>1, <3>2, <3>3
    <2>9. ASSUME NEW i \in 1 .. n + 1
          PROVE  /\ Sends(r[i], b) => /\ v[b][i] = v[b][i - 1] + 1
                                      /\ r[i].chunk = Event(ll[b][v[b][i]])
                 /\ ~Sends(r[i], b) => v[b][i] = v[b][i - 1]
      <3>1. CASE i \in 1 .. n
        BY <2>7, <3>1
      <3>2. CASE i = n + 1
        <4>1. i - 1 = n
          BY <3>2
        <4> QED BY <2>8, <3>2, <4>1
      <3>3. i \in 1 .. n \/ i = n + 1
        OBVIOUS
      <3> QED BY <3>1, <3>2, <3>3
    <2> QED BY <2>1, <2>4, <2>6, <2>9
  <1>8. Queued(v, r, ll)
    BY <1>6, <1>7 DEF Queued
  <1>9. \A b \in Channels : \A i \in 0 .. n : v[b][i] = u[b][i]
    BY <1>4
  <1> QED BY <1>1, <1>4, <1>8, <1>9

LEMMA QueuedTail ==
  ASSUME NEW q \in Seq(Commands), q # <<>>, NEW l \in [Channels -> Seq(Commits)],
         NEW u \in Counts, Queued(u, q, l)
  PROVE  \E v \in Counts :
           /\ Queued(v, Tail(q), l)
           /\ \A b \in Channels : \A i \in Nat : v[b][i] = u[b][i + 1]
PROOF
  <1> DEFINE v == [b \in Channels |-> [i \in Nat |-> u[b][i + 1]]]
  <1>1. PICK n \in Nat : Len(q) = n + 1
    <2>1. Len(q) \in Nat /\ Len(q) # 0
      OBVIOUS
    <2>2. Len(q) - 1 \in Nat /\ Len(q) = (Len(q) - 1) + 1
      BY <2>1
    <2> QED BY <2>2
  <1>2. v \in Counts /\ \A b \in Channels : \A i \in Nat : v[b][i] = u[b][i + 1]
    BY DEF Counts
  <1> HIDE DEF v
  <1>3. PICK r : r = Tail(q) /\ Len(r) = n /\ \A i \in 1 .. n : r[i] = q[i + 1]
    <2>1. Len(Tail(q)) = Len(q) - 1 /\ \A i \in 1 .. Len(q) - 1 : Tail(q)[i] = q[i + 1]
      BY TailElements, TypedSequence
    <2>2. Len(q) - 1 = n
      BY <1>1
    <2> QED BY <2>1, <2>2
  <1>4. ASSUME NEW b \in Channels
        PROVE  /\ v[b][n] = Len(l[b])
               /\ \A i \in 0 .. n : v[b][i] <= Len(l[b])
               /\ \A i \in 1 .. n :
                    /\ Sends(r[i], b) => /\ v[b][i] = v[b][i - 1] + 1
                                         /\ r[i].chunk = Event(l[b][v[b][i]])
                    /\ ~Sends(r[i], b) => v[b][i] = v[b][i - 1]
    <2>1. /\ u[b][n + 1] = Len(l[b])
          /\ \A i \in 0 .. n + 1 : u[b][i] <= Len(l[b])
          /\ \A i \in 1 .. n + 1 :
               /\ Sends(q[i], b) => /\ u[b][i] = u[b][i - 1] + 1
                                    /\ q[i].chunk = Event(l[b][u[b][i]])
               /\ ~Sends(q[i], b) => u[b][i] = u[b][i - 1]
      BY <1>1 DEF Queued
    <2>2. \A i \in 0 .. n : i \in Nat /\ i + 1 \in 0 .. n + 1
      OBVIOUS
    <2>3. v[b][n] = Len(l[b]) /\ \A i \in 0 .. n : v[b][i] <= Len(l[b])
      BY <1>2, <2>1, <2>2
    <2>4. ASSUME NEW i \in 1 .. n
          PROVE  /\ Sends(r[i], b) => /\ v[b][i] = v[b][i - 1] + 1
                                      /\ r[i].chunk = Event(l[b][v[b][i]])
                 /\ ~Sends(r[i], b) => v[b][i] = v[b][i - 1]
      <3>1. i + 1 \in 1 .. n + 1 /\ (i + 1) - 1 = i /\ i - 1 \in Nat /\ (i - 1) + 1 = i
        OBVIOUS
      <3>2. v[b][i] = u[b][i + 1] /\ v[b][i - 1] = u[b][i] /\ r[i] = q[i + 1]
        BY <1>2, <1>3, <3>1
      <3>3. /\ Sends(q[i + 1], b) => /\ u[b][i + 1] = u[b][i] + 1
                                     /\ q[i + 1].chunk = Event(l[b][u[b][i + 1]])
            /\ ~Sends(q[i + 1], b) => u[b][i + 1] = u[b][i]
        BY <2>1, <3>1
      <3> QED BY <3>2, <3>3
    <2> QED BY <2>3, <2>4
  <1>5. Queued(v, r, l)
    BY <1>3, <1>4 DEF Queued
  <1> QED BY <1>2, <1>3, <1>5

-------------------------------------------------------------------------------
(* What is on its way stays so *)

LEMMA LengthOfResponse ==
  ASSUME NEW s \in Streams, Types, Response(s), joined[s] # Nothing
  PROVE  Length(s) \in Nat
PROOF
  <1>1. PICK g, q : g = got[s] /\ q = chan[s] /\ IsSequence(g) /\ IsSequence(q)
    BY ShapeOfStream DEF Shape
  <1>2. Len(g) \in Nat /\ Len(q) \in Nat /\ (q # <<>> => Len(q) # 0)
    BY <1>1, Sequences
  <1>3. PICK a \in {0, 1} : a = Ahead(s)
    BY DEF Ahead
  <1>4. a = 1 => q # <<>>
    BY <1>1, <1>3 DEF Response, Headed
  <1>5. PICK n \in Nat, m \in Nat : n = Len(g) /\ m = Len(q) /\ (a = 1 => m # 0)
    BY <1>2, <1>4
  <1>6. n + m - a \in Nat
    BY <1>5
  <1> QED BY <1>1, <1>3, <1>5, <1>6 DEF Length

LEMMA OnItsWayStays ==
  ASSUME Types, Types', LogGrows, NEW u \in Counts, NEW v \in Counts, NEW k \in DOMAIN subs,
         subs'[k] = subs[k], OnItsWay(u, k), v[k[1]][0] = u[k[1]][0],
         Response(k[2]), Still(k[2])
  PROVE  OnItsWay(v, k)'
PROOF
  <1>1. k[2] \in Streams
    BY DEF Types, ServerTypes, ServerTypeOK
  <1>2. PICK s \in Streams : s = k[2]
    BY <1>1
  <1>3. /\ joined[s] # Nothing /\ joined'[s] = joined[s] /\ direct'[s] = direct[s]
        /\ ReceiverIsOpen(s)' => ReceiverIsOpen(s) /\ Length(s)' = Length(s)
    BY <1>2 DEF OnItsWay, Still
  <1>4. Begun(s) /\ Joins(s)
    BY <1>2, <1>3 DEF Response, Joins
  <1>5. \A i \in Nat : \A x : 1 <= i /\ Fits(s, i, x) => Fits(s, i, x)'
    BY <1>3, <1>4, AllFit
  <1>6. Length(s) \in Nat
    BY <1>2, <1>3, LengthOfResponse
  <1>7. PICK h \in {0, 1} : h = InHand(k) /\ h = InHand(k)'
    BY DEF InHand
  <1>8. ASSUME ReceiverIsOpen(s)'
        PROVE  Follows(k)'
    <2>1. Follows(k) /\ Length(s)' = Length(s)
      BY <1>2, <1>3, <1>8 DEF OnItsWay
    <2>2. h = 1 => Fits(s, Length(s) + 1, subs[k].hand)'
      <3>1. PICK i \in Nat : i = Length(s) + 1 /\ 1 <= i
        BY <1>6
      <3>2. PICK x : x = subs[k].hand
        OBVIOUS
      <3>3. h = 1 => Fits(s, i, x)
        BY <1>2, <1>7, <2>1, <3>1, <3>2 DEF Follows
      <3>4. h = 1 => Fits(s, i, x)'
        BY <1>5, <3>1, <3>3
      <3>5. i = (Length(s) + 1)' /\ x = subs'[k].hand
        BY <2>1, <3>1, <3>2
      <3> QED BY <3>4, <3>5
    <2>3. ASSUME NEW j \in 1 .. Len(subs[k].buf)
          PROVE  Fits(s, Length(s) + InHand(k) + j, subs[k].buf[j])'
      <3>1. PICK n \in Nat : n = Len(subs[k].buf)
        <4>1. subs[k].buf \in Seq(Events)
          BY DEF Types, ServerTypes, Subscribers
        <4> QED BY <4>1
      <3>2. j \in 1 .. n
        BY <3>1
      <3>3. PICK i \in Nat : i = Length(s) + h + j /\ 1 <= i
        BY <1>6, <3>2
      <3>4. PICK x : x = subs[k].buf[j]
        OBVIOUS
      <3>5. Fits(s, i, x)
        BY <1>2, <1>7, <2>1, <3>3, <3>4 DEF Follows
      <3>6. Fits(s, i, x)'
        BY <1>5, <3>3, <3>5
      <3>7. i = (Length(s) + InHand(k) + j)' /\ x = subs'[k].buf[j]
        BY <1>7, <2>1, <3>3, <3>4
      <3> QED BY <3>6, <3>7
    <2> QED BY <1>2, <1>7, <2>2, <2>3 DEF Follows
  <1>9. /\ k[1] = BranchOf[s] /\ joined[s] <= u[k[1]][0]
        /\ ReceiverIsOpen(s) =>
             /\ subs[k].alive
             /\ Length(s) + InHand(k) + Len(subs[k].buf)
                  = Len(direct[s]) + (u[k[1]][0] - joined[s])
    BY <1>2 DEF OnItsWay
  <1> QED BY <1>2, <1>3, <1>7, <1>8, <1>9 DEF OnItsWay

\* Commands that do not subscribe s are appended to the queue.
LEMMA AskedStays ==
  ASSUME Types, Types', NEW s \in Streams, NEW u \in Counts, NEW v \in Counts, Asked(u, s), Still(s),
         NEW cs \in Seq(Commands), cmds' = cmds \o cs, DOMAIN subs' = DOMAIN subs,
         \A i \in 1 .. Len(cs) : ~Subscribes(cs[i], s),
         \A b \in Channels : \A i \in 0 .. Len(cmds) : v[b][i] = u[b][i]
  PROVE  Asked(v, s)'
PROOF
  <1>1. PICK b \in Channels : b = BranchOf[s]
    BY StreamAssumption
  <1>2. cmds \in Seq(Commands)
    BY DEF Types, ServerTypes
  <1>3. PICK n \in Nat, m \in Nat : n = Len(cmds) /\ m = Len(cs)
    BY <1>2
  <1>4. /\ Len(cmds') = n + m
        /\ \A i \in 1 .. n : cmds'[i] = cmds[i]
        /\ \A i \in 1 .. m : cmds'[n + i] = cs[i]
    BY <1>2, <1>3, ConcatElements, TypedSequence
  <1>5. ASSUME NEW i \in 1 .. n + m, Subscribes(cmds'[i], s)
        PROVE  i \in 1 .. n
    <2>1. CASE i \notin 1 .. n
      <3>1. PICK j \in 1 .. m : i = n + j
        <4>1. i - n \in 1 .. m /\ i = n + (i - n)
          BY <2>1
        <4> QED BY <4>1
      <3> QED BY <1>3, <1>4, <1>5, <3>1
    <2> QED BY <2>1
  <1>6. ASSUME NEW i \in 1 .. n + m, Subscribes(cmds'[i], s)
        PROVE  /\ cmds'[i].ch = BranchOf[s] /\ joined'[s] = v[BranchOf[s]][i]
               /\ \A j \in 1 .. n + m : Subscribes(cmds'[j], s) => j = i
               /\ <<BranchOf[s], s>> \notin DOMAIN subs'
               /\ ReceiverIsOpen(s)' => Length(s)' = Len(direct'[s])
    <2>1. i \in 1 .. n /\ i \in 0 .. n /\ i \in Nat /\ cmds'[i] = cmds[i]
      BY <1>4, <1>5, <1>6
    <2>2. /\ cmds[i].ch = b /\ joined[s] = u[b][i]
          /\ \A j \in 1 .. n : Subscribes(cmds[j], s) => j = i
          /\ <<b, s>> \notin DOMAIN subs
          /\ ReceiverIsOpen(s) => Length(s) = Len(direct[s])
      BY <1>1, <1>3, <1>6, <2>1 DEF Asked
    <2>3. joined[s] # Nothing
      <3>1. u[b][i] \in Nat
        BY <2>1 DEF Counts
      <3> QED BY <2>2, <3>1, NothingAssumption
    <2>4. \A j \in 1 .. n + m : Subscribes(cmds'[j], s) => j = i
      BY <1>4, <1>5, <2>2
    <2> QED BY <1>1, <1>3, <2>1, <2>2, <2>3, <2>4 DEF Still
  <1> QED BY <1>4, <1>6 DEF Asked

\* Commands that neither send nor subscribe, or none.
LEMMA PushDelivers ==
  ASSUME Types, Types', LogGrows, \A s \in Streams : Response(s) /\ Still(s),
         NEW u \in Counts, Delivers(u), NEW cs \in Seq(Commands), cmds' = cmds \o cs,
         UNCHANGED <<subs, log>>,
         \A i \in 1 .. Len(cs) : cs[i].op \notin {"send", "subscribe"}
  PROVE  \E v \in Counts : Delivers(v)'
PROOF
  <1>1. cmds \in Seq(Commands) /\ log \in [Channels -> Seq(Commits)]
    BY DEF Types, ServerTypes
  <1>2. Queued(u, cmds, log) /\ Len(cmds) \in Nat
    BY <1>1 DEF Delivers
  <1>3. PICK v \in Counts :
           /\ Queued(v, cmds \o cs, log)
           /\ \A b \in Channels : \A i \in 0 .. Len(cmds) : v[b][i] = u[b][i]
    <2>1. PICK q \in Seq(Commands), l \in [Channels -> Seq(Commits)] : q = cmds /\ l = log
      BY <1>1
    <2>2. Queued(u, q, l) /\ \A i \in 1 .. Len(cs) : cs[i].op # "send"
      BY <1>2, <2>1
    <2>3. \E v \in Counts :
            /\ Queued(v, q \o cs, l)
            /\ \A b \in Channels : \A i \in 0 .. Len(q) : v[b][i] = u[b][i]
            /\ \A b \in Channels : \A i \in Nat : i > Len(q) => v[b][i] = Len(l[b])
      BY <2>2, QueuedPush, ZenonT(40)
    <2> QED BY <2>1, <2>3
  <1>4. \A b \in Channels : v[b][0] = u[b][0]
    BY <1>2, <1>3
  <1>5. Queued(v, cmds, log)'
    BY <1>3 DEF Queued
  <1>6. ASSUME NEW s \in Streams PROVE Asked(v, s)'
    <2>1. \A i \in 1 .. Len(cs) : ~Subscribes(cs[i], s)
      BY DEF Subscribes
    <2> QED BY <1>3, <2>1, AskedStays DEF Delivers
  <1>7. ASSUME NEW k \in DOMAIN subs PROVE OnItsWay(v, k)'
    <2>1. k[1] \in Channels /\ k[2] \in Streams
      BY DEF Types, ServerTypes, ServerTypeOK
    <2> QED BY <1>4, <2>1, OnItsWayStays DEF Delivers
  <1> QED BY <1>5, <1>6, <1>7 DEF Delivers

LEMMA RegisterDelivers ==
  ASSUME Types, Types', LogGrows, \A s \in Streams : Response(s) /\ Still(s),
         NEW u \in Counts, Delivers(u), NEW h \in Streams, Register(h)
  PROVE  \E v \in Counts : Delivers(v)'
PROOF
  <1>1. cmds \in Seq(Commands) /\ log \in [Channels -> Seq(Commits)]
    BY DEF Types, ServerTypes
  <1>2. PICK b \in Channels : b = BranchOf[h]
    BY StreamAssumption
  <1>3. PICK cs \in Seq(Commands), x \in Commands :
          /\ x = Subscribe(b, h) /\ cs = <<x>> /\ Len(cs) = 1 /\ cs[1] = x
    <2>1. PICK x \in Commands : x = Subscribe(b, h)
      BY DEF Commands
    <2>2. <<x>> \in Seq(Commands) /\ Len(<<x>>) = 1 /\ <<x>>[1] = x
      OBVIOUS
    <2> QED BY <2>1, <2>2
  <1>4. x.op = "subscribe" /\ x.ch = b /\ x.s = h
    BY <1>3 DEF Subscribe
  <1>5. cmds' = cmds \o cs /\ UNCHANGED <<subs, log>>
    BY <1>2, <1>3 DEF Register, Push
  <1>6. /\ joined' = [joined EXCEPT ![h] = Len(log[b])] /\ handler[h] = "subscribe"
        /\ UNCHANGED <<chan, got, http, direct>>
    BY <1>2 DEF Register
  <1>7. joined[h] = Nothing /\ joined'[h] = Len(log[b])
    BY <1>6 DEF Response, Begun, Types, PluginTypes
  <1>8. PICK n \in Nat : n = Len(cmds)
    BY <1>1
  <1>9. PICK v \in Counts :
           /\ Queued(v, cmds \o cs, log)
           /\ \A a \in Channels : \A i \in 0 .. n : v[a][i] = u[a][i]
           /\ \A a \in Channels : \A i \in Nat : i > n => v[a][i] = Len(log[a])
    <2>1. PICK q \in Seq(Commands), l \in [Channels -> Seq(Commits)] : q = cmds /\ l = log
      BY <1>1
    <2>2. Queued(u, q, l) /\ \A i \in 1 .. Len(cs) : cs[i].op # "send"
      BY <1>3, <1>4, <2>1 DEF Delivers
    <2>3. \E v \in Counts :
            /\ Queued(v, q \o cs, l)
            /\ \A a \in Channels : \A i \in 0 .. Len(q) : v[a][i] = u[a][i]
            /\ \A a \in Channels : \A i \in Nat : i > Len(q) => v[a][i] = Len(l[a])
      BY <2>2, QueuedPush, ZenonT(40)
    <2> QED BY <1>8, <2>1, <2>3
  <1>10. /\ Len(cmds') = n + 1 /\ cmds'[n + 1] = x
         /\ \A i \in 1 .. n : cmds'[i] = cmds[i]
    BY <1>1, <1>3, <1>5, <1>8, ConcatElements, TypedSequence
  <1>11. Queued(v, cmds, log)'
    BY <1>5, <1>9 DEF Queued
  <1>12. ASSUME NEW s \in Streams, s # h PROVE Asked(v, s)'
    <2>1. \A i \in 1 .. Len(cs) : ~Subscribes(cs[i], s)
      BY <1>3, <1>4, <1>12 DEF Subscribes
    <2> QED BY <1>5, <1>8, <1>9, <2>1, AskedStays DEF Delivers
  <1>13. Asked(v, h)'
    <2>1. \A i \in 1 .. n : ~Subscribes(cmds[i], h)
      <3>1. ASSUME NEW i \in 1 .. n, Subscribes(cmds[i], h) PROVE FALSE
        <4>1. joined[h] = u[b][i] /\ u[b][i] \in Nat
          <5>1. joined[h] = u[b][i]
            BY <1>2, <1>8, <3>1 DEF Delivers, Asked
          <5>2. u[b][i] \in Nat
            BY DEF Counts
          <5> QED BY <5>1, <5>2
        <4> QED BY <1>7, <4>1, NothingAssumption
      <3> QED BY <3>1
    <2>2. \A i \in 1 .. n + 1 : i \in 1 .. n \/ i = n + 1
      OBVIOUS
    <2>3. \A i \in 1 .. n + 1 : Subscribes(cmds'[i], h) => i = n + 1
      BY <1>10, <2>1, <2>2
    <2>4. <<b, h>> \notin DOMAIN subs
      <3>1. ASSUME <<b, h>> \in DOMAIN subs PROVE joined[h] # Nothing
        BY <3>1 DEF Delivers, OnItsWay
      <3> QED BY <1>7, <3>1
    <2>5. v[b][n + 1] = Len(log[b])
      <3>1. n + 1 \in Nat /\ n + 1 > n
        OBVIOUS
      <3> QED BY <1>9, <3>1
    <2>6. ReceiverIsOpen(h)' => Length(h)' = Len(direct'[h])
      BY <1>6 DEF Response, Awaited, Sending, ReceiverIsOpen, Length, Ahead
    <2>7. cmds'[n + 1].ch = b
      BY <1>4, <1>10
    <2> QED BY <1>2, <1>5, <1>7, <1>10, <2>3, <2>4, <2>5, <2>6, <2>7 DEF Asked
  <1>14. ASSUME NEW k \in DOMAIN subs PROVE OnItsWay(v, k)'
    <2>1. k[1] \in Channels /\ k[2] \in Streams
      BY DEF Types, ServerTypes, ServerTypeOK
    <2>2. v[k[1]][0] = u[k[1]][0]
      BY <1>8, <1>9, <2>1
    <2> QED BY <1>5, <2>1, <2>2, OnItsWayStays DEF Delivers
  <1> QED BY <1>5, <1>11, <1>12, <1>13, <1>14 DEF Delivers

LEMMA BroadcastDelivers ==
  ASSUME Types, Types', LogGrows, \A s \in Streams : Response(s) /\ Still(s),
         NEW u \in Counts, Delivers(u), NEW b \in Channels, NEW c \in Commits,
         Push(<<Broadcast(b, c)>>), log' = [log EXCEPT ![b] = Append(@, c)], UNCHANGED subs
  PROVE  \E v \in Counts : Delivers(v)'
PROOF
  <1>1. PICK q \in Seq(Commands), l \in [Channels -> Seq(Commits)] : q = cmds /\ l = log
    BY DEF Types, ServerTypes
  <1>2. PICK x \in Commands : x = Broadcast(b, c)
    BY DEF Commands
  <1>3. cmds' = q \o <<x>> /\ q \o <<x>> = Append(q, x)
    BY <1>1, <1>2 DEF Push
  <1>4. PICK v \in Counts :
           /\ Queued(v, cmds', log')
           /\ \A a \in Channels : \A i \in 0 .. Len(q) : v[a][i] = u[a][i]
    <2>1. Queued(u, q, l)
      BY <1>1 DEF Delivers
    <2>2. PICK r, ll : r = cmds' /\ ll = log'
      OBVIOUS
    <2>3. WasSent(q, r, l, ll, b, c)
      BY <1>1, <1>2, <1>3, <2>2 DEF WasSent
    <2>4. \E v \in Counts :
            /\ Queued(v, r, ll)
            /\ \A a \in Channels : \A i \in 0 .. Len(q) : v[a][i] = u[a][i]
      BY <2>1, <2>3, QueuedSend
    <2> QED BY <2>2, <2>4
  <1>5. Queued(v, cmds, log)'
    BY <1>4 DEF Queued
  <1>6. ASSUME NEW s \in Streams PROVE Asked(v, s)'
    <2>1. PICK cs \in Seq(Commands) : cs = <<x>> /\ Len(cs) = 1 /\ cs[1] = x
      <3>1. <<x>> \in Seq(Commands) /\ Len(<<x>>) = 1 /\ <<x>>[1] = x
        OBVIOUS
      <3> QED BY <3>1
    <2>2. \A i \in 1 .. Len(cs) : ~Subscribes(cs[i], s)
      BY <1>2, <2>1 DEF Subscribes, Broadcast
    <2> QED BY <1>1, <1>3, <1>4, <2>1, <2>2, AskedStays DEF Delivers
  <1>7. ASSUME NEW k \in DOMAIN subs PROVE OnItsWay(v, k)'
    <2>1. k[1] \in Channels /\ k[2] \in Streams
      BY DEF Types, ServerTypes, ServerTypeOK
    <2>2. v[k[1]][0] = u[k[1]][0]
      <3>1. Len(q) \in Nat /\ 0 \in 0 .. Len(q)
        OBVIOUS
      <3> QED BY <1>4, <2>1, <3>1
    <2> QED BY <2>1, <2>2, OnItsWayStays DEF Delivers
  <1> QED BY <1>5, <1>6, <1>7 DEF Delivers

LEMMA TaskReceivesDelivers ==
  ASSUME Types, Types', LogGrows, \A s \in Streams : Response(s) /\ Still(s),
         NEW u \in Counts, Delivers(u), NEW k \in DOMAIN subs, TaskReceives(k),
         UNCHANGED <<joined, direct>>
  PROVE  Delivers(u)'
PROOF
  <1>1. /\ UNCHANGED <<cmds, log, chan, got, http>> /\ subs[k].hand = Nothing /\ subs[k].buf # <<>>
    BY DEF TaskReceives
  <1>2. k[2] \in Streams /\ subs[k] \in Subscribers
    BY DEF Types, ServerTypes, ServerTypeOK
  <1>3. PICK r : r = [subs[k] EXCEPT !.hand = Head(subs[k].buf), !.buf = Tail(@)]
    OBVIOUS
  <1>4. /\ DOMAIN subs' = DOMAIN subs /\ subs'[k] = r
        /\ \A j \in DOMAIN subs \ {k} : subs'[j] = subs[j]
    BY <1>3 DEF TaskReceives
  <1>5. PICK buf \in Seq(Events) : buf = subs[k].buf /\ buf # <<>>
    BY <1>1, <1>2 DEF Subscribers
  <1>6. /\ subs'[k].hand = Head(buf) /\ subs'[k].buf = Tail(buf) /\ subs'[k].alive = subs[k].alive
    BY <1>2, <1>3, <1>4, <1>5 DEF Subscribers
  <1>7. PICK m \in Nat : Len(buf) = m + 1
    <2>1. Len(buf) \in Nat /\ Len(buf) # 0
      BY <1>5
    <2>2. Len(buf) - 1 \in Nat /\ Len(buf) = (Len(buf) - 1) + 1
      BY <2>1
    <2> QED BY <2>2
  <1>8. /\ Len(Tail(buf)) = m /\ Head(buf) = buf[1]
        /\ \A i \in 1 .. m : Tail(buf)[i] = buf[i + 1]
    <2>1. /\ Len(Tail(buf)) = Len(buf) - 1 /\ Head(buf) = buf[1]
          /\ \A i \in 1 .. Len(buf) - 1 : Tail(buf)[i] = buf[i + 1]
      BY <1>5, TailElements, TypedSequence
    <2>2. Len(buf) - 1 = m
      BY <1>7
    <2> QED BY <2>1, <2>2
  <1>9. InHand(k) = 0 /\ InHand(k)' = 1
    <2>1. Head(buf) \in Events
      BY <1>5
    <2>2. Head(buf) # Nothing
      BY <2>1, NothingAssumption DEF Events
    <2> QED BY <1>1, <1>6, <2>2 DEF InHand
  <1>10. PICK s \in Streams : s = k[2]
    BY <1>2
  <1>11. /\ Length(s)' = Length(s) /\ ReceiverIsOpen(s)' = ReceiverIsOpen(s)
         /\ \A i, x : Fits(s, i, x)' <=> Fits(s, i, x)
    BY <1>1 DEF Length, Ahead, ReceiverIsOpen, Fits, Live, Expected
  <1>12. /\ k[1] = BranchOf[s] /\ joined[s] # Nothing /\ joined[s] <= u[k[1]][0]
         /\ ReceiverIsOpen(s) =>
              /\ subs[k].alive
              /\ Length(s) + 0 + (m + 1) = Len(direct[s]) + (u[k[1]][0] - joined[s])
              /\ Follows(k)
    BY <1>5, <1>7, <1>9, <1>10 DEF Delivers, OnItsWay
  <1>13. PICK L \in Nat : L = Length(s)
    BY <1>10, <1>12, LengthOfResponse
  <1>14. ASSUME ReceiverIsOpen(s)
         PROVE  Follows(k)'
    <2>1. \A j \in 1 .. m + 1 : Fits(s, L + 0 + j, buf[j])
      BY <1>5, <1>7, <1>9, <1>10, <1>12, <1>13, <1>14 DEF Follows
    <2>2. Fits(s, L + 1, buf[1])
      <3>1. 1 \in 1 .. m + 1 /\ L + 0 + 1 = L + 1
        OBVIOUS
      <3> QED BY <2>1, <3>1
    <2>3. ASSUME NEW j \in 1 .. m
          PROVE  Fits(s, L + 1 + j, Tail(buf)[j])
      <3>1. j + 1 \in 1 .. m + 1 /\ L + 0 + (j + 1) = L + 1 + j
        OBVIOUS
      <3> QED BY <1>8, <2>1, <3>1
    <2>4. Fits(s, L + 1, subs'[k].hand) /\ \A j \in 1 .. m : Fits(s, L + 1 + j, subs'[k].buf[j])
      BY <1>6, <1>8, <2>2, <2>3
    <2>5. /\ Fits(s, Length(s) + 1, subs[k].hand)'
          /\ \A j \in 1 .. m : Fits(s, Length(s) + InHand(k) + j, subs[k].buf[j])'
      BY <1>9, <1>11, <1>13, <2>4, ZenonT(40) DEF Fits
    <2> QED BY <1>6, <1>8, <1>10, <2>5 DEF Follows
  <1>15. OnItsWay(u, k)'
    <2>1. L + 0 + (m + 1) = L + 1 + m
      OBVIOUS
    <2>2. Len(subs'[k].buf) = m
      BY <1>6, <1>8
    <2>3. ReceiverIsOpen(s) =>
            Length(s)' + InHand(k)' + Len(subs'[k].buf) = Len(direct'[s]) + (u[k[1]][0] - joined'[s])
      BY <1>9, <1>11, <1>12, <1>13, <2>1, <2>2
    <2> QED BY <1>6, <1>10, <1>11, <1>12, <1>14, <2>3 DEF OnItsWay
  <1>16. ASSUME NEW j \in DOMAIN subs, j # k PROVE OnItsWay(u, j)'
    <2>1. j[1] \in Channels /\ j[2] \in Streams
      BY DEF Types, ServerTypes, ServerTypeOK
    <2> QED BY <1>4, <1>16, <2>1, OnItsWayStays DEF Delivers
  <1>17. ASSUME NEW t \in Streams PROVE Asked(u, t)'
    BY <1>1, <1>4 DEF Delivers, Asked, Length, Ahead, ReceiverIsOpen
  <1>18. Queued(u, cmds, log)'
    BY <1>1 DEF Delivers, Queued
  <1> QED BY <1>4, <1>15, <1>16, <1>17, <1>18 DEF Delivers

\* The task of an open response sends what it has in hand.
LEMMA TaskSendsRelays ==
  ASSUME Types, \A s \in Streams : Response(s), NEW u \in Counts, Delivers(u),
         NEW k \in DOMAIN subs, TaskSends(k), ReceiverIsOpen(k[2]),
         UNCHANGED <<joined, direct, handler>>
  PROVE  Relays(k[2])
PROOF
  <1>1. PICK s \in Streams : s = k[2]
    BY DEF Types, ServerTypes, ServerTypeOK
  <1>2. /\ subs[k].hand # Nothing /\ chan' = [chan EXCEPT ![s] = Append(@, subs[k].hand)]
        /\ UNCHANGED <<got, header, http>>
    BY <1>1 DEF TaskSends
  <1>3. InHand(k) = 1 /\ joined[s] # Nothing /\ Follows(k)
    BY <1>1, <1>2 DEF InHand, Delivers, OnItsWay
  <1>4. Fits(s, Length(s) + 1, subs[k].hand)
    BY <1>1, <1>3 DEF Follows
  <1>5. handler[s] = "done"
    BY <1>3 DEF Response, Begun
  <1>6. Appends(s, subs[k].hand)
    BY <1>1, <1>2 DEF Appends, Types, ServerTypes
  <1> QED BY <1>1, <1>3, <1>4, <1>5, <1>6 DEF Relays

LEMMA TaskSendsDelivers ==
  ASSUME Types, Types', LogGrows, \A s \in Streams : Response(s), NEW u \in Counts, Delivers(u),
         NEW k \in DOMAIN subs, TaskSends(k), ReceiverIsOpen(k[2]),
         \A s \in Streams \ {k[2]} : Still(s), Length(k[2])' = Length(k[2]) + 1,
         UNCHANGED <<joined, direct>>
  PROVE  Delivers(u)'
PROOF
  <1>1. PICK s \in Streams : s = k[2]
    BY DEF Types, ServerTypes, ServerTypeOK
  <1>2. /\ UNCHANGED <<cmds, log, http>> /\ subs[k].hand # Nothing
        /\ subs' = [subs EXCEPT ![k].hand = Nothing]
    BY <1>1 DEF TaskSends
  <1>3. subs[k] \in Subscribers /\ k \in Channels \X Streams
    BY DEF Types, ServerTypes, ServerTypeOK
  <1>4. PICK r : r = [subs[k] EXCEPT !.hand = Nothing]
    OBVIOUS
  <1>5. /\ DOMAIN subs' = DOMAIN subs /\ subs'[k] = r
        /\ \A j \in DOMAIN subs \ {k} : subs'[j] = subs[j]
    BY <1>2, <1>4
  <1>6. subs'[k].hand = Nothing /\ subs'[k].buf = subs[k].buf /\ subs'[k].alive = subs[k].alive
    BY <1>3, <1>4, <1>5 DEF Subscribers
  <1>7. InHand(k) = 1 /\ InHand(k)' = 0
    BY <1>2, <1>6 DEF InHand
  <1>8. PICK m \in Nat : m = Len(subs[k].buf)
    <2>1. subs[k].buf \in Seq(Events)
      BY <1>3 DEF Subscribers
    <2> QED BY <2>1
  <1>9. /\ k[1] = BranchOf[s] /\ joined[s] # Nothing /\ joined[s] <= u[k[1]][0]
        /\ subs[k].alive
        /\ Length(s) + 1 + m = Len(direct[s]) + (u[k[1]][0] - joined[s])
        /\ Follows(k)
    BY <1>1, <1>7, <1>8 DEF Delivers, OnItsWay
  <1>10. PICK L \in Nat, L1 \in Nat : L = Length(s) /\ L1 = L + 1 /\ L1 = Length(s)'
    <2>1. PICK L \in Nat : L = Length(s)
      BY <1>9, LengthOfResponse
    <2>2. PICK L1 \in Nat : L1 = L + 1
      OBVIOUS
    <2> QED BY <1>1, <2>1, <2>2
  <1>11. \A i, x : Fits(s, i, x)' <=> Fits(s, i, x)
    BY <1>2 DEF Fits, Live, Expected
  <1>12. Follows(k)'
    <2>1. ASSUME NEW j \in 1 .. m
          PROVE  Fits(s, Length(s) + InHand(k) + j, subs[k].buf[j])'
      <3>1. Fits(s, L + 1 + j, subs[k].buf[j])
        BY <1>1, <1>7, <1>8, <1>9, <1>10 DEF Follows
      <3>2. L + 1 + j = L1 + 0 + j
        BY <1>10
      <3>3. PICK i, x : i = L1 + 0 + j /\ x = subs[k].buf[j]
        OBVIOUS
      <3>4. Fits(s, i, x)'
        BY <1>11, <3>1, <3>2, <3>3
      <3>5. i = (Length(s) + InHand(k) + j)' /\ x = subs'[k].buf[j]
        BY <1>6, <1>7, <1>10, <3>3
      <3> QED BY <3>4, <3>5
    <2> QED BY <1>1, <1>6, <1>7, <1>8, <2>1 DEF Follows
  <1>13. OnItsWay(u, k)'
    <2>1. L1 + 0 + m = L + 1 + m
      BY <1>10
    <2>2. Length(s)' + InHand(k)' + Len(subs'[k].buf) = Len(direct'[s]) + (u[k[1]][0] - joined'[s])
      BY <1>6, <1>7, <1>8, <1>9, <1>10, <2>1
    <2> QED BY <1>1, <1>6, <1>9, <1>12, <2>2 DEF OnItsWay
  <1>14. ASSUME NEW j \in DOMAIN subs, j # k PROVE OnItsWay(u, j)'
    <2>1. j \in Channels \X Streams
      BY DEF Types, ServerTypes, ServerTypeOK
    <2>2. j[2] # s
      <3>1. j[1] = BranchOf[j[2]]
        BY DEF Delivers, OnItsWay
      <3> QED BY <1>1, <1>3, <1>9, <1>14, <2>1, <3>1
    <2> QED BY <1>1, <1>5, <1>14, <2>1, <2>2, OnItsWayStays DEF Delivers
  <1>15. ASSUME NEW t \in Streams PROVE Asked(u, t)'
    <2>1. CASE t = s
      <3>1. <<BranchOf[s], s>> = k
        BY <1>1, <1>3, <1>9
      <3>2. \A i \in 1 .. Len(cmds) : ~Subscribes(cmds[i], s)
        BY <3>1 DEF Delivers, Asked
      <3> QED BY <1>2, <2>1, <3>2 DEF Asked
    <2>2. CASE t # s
      <3>1. PICK cs \in Seq(Commands) : cs = <<>> /\ Len(cs) = 0
        <4>1. <<>> \in Seq(Commands) /\ Len(<<>>) = 0
          OBVIOUS
        <4> QED BY <4>1
      <3>2. cmds' = cmds \o cs
        BY <1>2, <3>1 DEF Types, ServerTypes
      <3>3. Asked(u, t) /\ Still(t)
        BY <1>1, <2>2 DEF Delivers
      <3>4. \A i \in 1 .. Len(cs) : ~Subscribes(cs[i], t)
        BY <3>1
      <3> QED BY <1>5, <3>2, <3>3, <3>4, AskedStays
    <2> QED BY <2>1, <2>2
  <1>16. Queued(u, cmds, log)'
    BY <1>2 DEF Delivers, Queued
  <1> QED BY <1>5, <1>13, <1>14, <1>15, <1>16 DEF Delivers

\* The task of a response that is closed ends.
LEMMA TaskEndsDelivers ==
  ASSUME Types, Types', LogGrows, \A s \in Streams : Response(s) /\ Still(s),
         NEW u \in Counts, Delivers(u),
         NEW k \in DOMAIN subs, TaskSends(k), ~ReceiverIsOpen(k[2]), UNCHANGED <<joined, direct>>
  PROVE  Delivers(u)'
PROOF
  <1>1. /\ UNCHANGED <<cmds, log, http, chan, got>> /\ DOMAIN subs' = DOMAIN subs
        /\ \A j \in DOMAIN subs \ {k} : subs'[j] = subs[j]
    BY DEF TaskSends
  <1>2. OnItsWay(u, k)'
    BY <1>1 DEF Delivers, OnItsWay, ReceiverIsOpen
  <1>3. ASSUME NEW j \in DOMAIN subs, j # k PROVE OnItsWay(u, j)'
    <2>1. j \in Channels \X Streams
      BY DEF Types, ServerTypes, ServerTypeOK
    <2> QED BY <1>1, <1>3, <2>1, OnItsWayStays DEF Delivers
  <1>4. ASSUME NEW t \in Streams PROVE Asked(u, t)'
    BY <1>1 DEF Delivers, Asked, Length, Ahead, ReceiverIsOpen
  <1>5. Queued(u, cmds, log)'
    BY <1>1 DEF Delivers, Queued
  <1> QED BY <1>1, <1>2, <1>3, <1>4, <1>5 DEF Delivers

\* The forwarder takes a command: what was asked for behind it goes on to be.
LEMMA ForwardAsked ==
  ASSUME Types, NEW s \in Streams, NEW u \in Counts, NEW v \in Counts, Asked(u, s),
         cmds # <<>>, cmds' = Tail(cmds), UNCHANGED <<joined, direct, http, chan, got>>,
         \A b \in Channels : \A i \in Nat : v[b][i] = u[b][i + 1],
         <<BranchOf[s], s>> \in DOMAIN subs' =>
           <<BranchOf[s], s>> \in DOMAIN subs \/ Subscribes(cmds[1], s)
  PROVE  Asked(v, s)'
PROOF
  <1>1. PICK q \in Seq(Commands) : q = cmds /\ q # <<>>
    BY DEF Types, ServerTypes
  <1>2. PICK n \in Nat : Len(q) = n + 1
    <2>1. Len(q) \in Nat /\ Len(q) # 0
      BY <1>1
    <2>2. Len(q) - 1 \in Nat /\ Len(q) = (Len(q) - 1) + 1
      BY <2>1
    <2> QED BY <2>2
  <1>3. PICK r : r = cmds' /\ Len(r) = n /\ \A i \in 1 .. n : r[i] = q[i + 1]
    <2>1. Len(Tail(q)) = Len(q) - 1 /\ \A i \in 1 .. Len(q) - 1 : Tail(q)[i] = q[i + 1]
      BY <1>1, TailElements, TypedSequence
    <2>2. Len(q) - 1 = n
      BY <1>2
    <2> QED BY <1>1, <2>1, <2>2
  <1>4. PICK b \in Channels : b = BranchOf[s]
    BY StreamAssumption
  <1>5. \A i \in 1 .. n + 1 : Subscribes(q[i], s) =>
          /\ q[i].ch = b /\ joined[s] = u[b][i]
          /\ \A j \in 1 .. n + 1 : Subscribes(q[j], s) => j = i
          /\ <<b, s>> \notin DOMAIN subs
          /\ ReceiverIsOpen(s) => Length(s) = Len(direct[s])
    BY <1>1, <1>2, <1>4 DEF Asked
  <1>6. ASSUME NEW i \in 1 .. n, Subscribes(r[i], s)
        PROVE  /\ r[i].ch = b /\ joined[s] = v[b][i]
               /\ \A j \in 1 .. n : Subscribes(r[j], s) => j = i
               /\ <<b, s>> \notin DOMAIN subs'
               /\ ReceiverIsOpen(s) => Length(s) = Len(direct[s])
    <2>1. /\ i + 1 \in 1 .. n + 1 /\ 1 \in 1 .. n + 1 /\ ~(1 = i + 1) /\ i \in Nat
          /\ \A j \in 1 .. n : j + 1 \in 1 .. n + 1 /\ (j + 1 = i + 1 => j = i)
      OBVIOUS
    <2>2. Subscribes(q[i + 1], s) /\ r[i] = q[i + 1] /\ v[b][i] = u[b][i + 1]
      BY <1>3, <1>6, <2>1
    <2>3. \A j \in 1 .. n : Subscribes(r[j], s) => j = i
      BY <1>3, <1>5, <2>1, <2>2
    <2>4. ~Subscribes(q[1], s)
      BY <1>5, <2>1, <2>2
    <2> QED BY <1>1, <1>4, <1>5, <2>1, <2>2, <2>3, <2>4
  <1>7. Length(s)' = Length(s) /\ ReceiverIsOpen(s)' = ReceiverIsOpen(s)
    BY DEF Length, Ahead, ReceiverIsOpen
  <1> QED BY <1>3, <1>4, <1>6, <1>7 DEF Asked

\* A new subscriber has nothing yet, and is to have what is broadcast from now on.
LEMMA SubscribeDelivers ==
  ASSUME Types, NEW ch \in Channels, NEW s \in Streams, NEW u \in Counts, NEW v \in Counts,
         Asked(u, s), cmds # <<>>, cmds[1] = Subscribe(ch, s), v[ch][0] = u[ch][1],
         UNCHANGED <<joined, direct, http, chan, got>>, NEW k, k = <<ch, s>>,
         subs'[k] = NewSubscriber
  PROVE  OnItsWay(v, k)'
PROOF
  <1>1. 1 \in 1 .. Len(cmds)
    <2>1. cmds \in Seq(Commands)
      BY DEF Types, ServerTypes
    <2> QED BY <2>1
  <1>2. cmds[1].op = "subscribe" /\ cmds[1].ch = ch /\ cmds[1].s = s
    BY DEF Subscribe
  <1>3. /\ ch = BranchOf[s] /\ joined[s] = u[ch][1]
        /\ ReceiverIsOpen(s) => Length(s) = Len(direct[s])
    BY <1>1, <1>2 DEF Asked, Subscribes
  <1>4. PICK j \in Nat : j = joined[s] /\ j = v[ch][0] /\ j # Nothing
    <2>1. u[ch][1] \in Nat
      BY DEF Counts
    <2> QED BY <1>3, <2>1, NothingAssumption
  <1>5. subs'[k].alive /\ subs'[k].hand = Nothing /\ subs'[k].buf = <<>>
    BY DEF NewSubscriber
  <1>6. InHand(k)' = 0 /\ Len(subs'[k].buf) = 0
    BY <1>5 DEF InHand
  <1>7. Length(s)' = Length(s) /\ ReceiverIsOpen(s)' = ReceiverIsOpen(s)
    BY DEF Length, Ahead, ReceiverIsOpen
  <1>8. Follows(k)'
    BY <1>6 DEF Follows
  <1>9. PICK d \in Nat : d = Len(direct[s])
    BY ShapeOfStream, Sequences DEF Shape
  <1>10. d + 0 + 0 = d + (j - j)
    OBVIOUS
  <1>11. ReceiverIsOpen(s)' =>
           Length(s)' + InHand(k)' + Len(subs'[k].buf) = Len(direct'[s]) + (v[ch][0] - joined'[s])
    BY <1>3, <1>4, <1>6, <1>7, <1>9, <1>10
  <1>12. j <= j
    OBVIOUS
  <1> QED BY <1>3, <1>4, <1>5, <1>8, <1>11, <1>12 DEF OnItsWay

LEMMA CountsAreNumbers ==
  ASSUME NEW u \in Counts, NEW b \in Channels
  PROVE  \A i \in Nat : u[b][i] \in Nat
PROOF BY DEF Counts

\* The commit c is the next broadcast on ch.
NextSent(u, v, ch, c) ==
  v[ch][0] = u[ch][0] + 1 /\ v[ch][0] <= Len(log[ch]) /\ Event(c) = Event(log[ch][v[ch][0]])

Buffers(k, x) == subs'[k] = [subs[k] EXCEPT !.buf = Append(@, x)]

\* A broadcast goes into the buffer of a subscriber that has room.
LEMMA BufferDelivers ==
  ASSUME Types, \A s \in Streams : Response(s), NEW ch \in Channels, NEW c \in Commits,
         NEW u \in Counts, NEW v \in Counts,
         NextSent(u, v, ch, c),
         UNCHANGED <<joined, direct, http, chan, got, log>>,
         NEW k \in DOMAIN subs, k[1] = ch, OnItsWay(u, k),
         Buffers(k, Event(c))
  PROVE  OnItsWay(v, k)'
PROOF
  <1>1. PICK s \in Streams : s = k[2]
    BY DEF Types, ServerTypes, ServerTypeOK
  <1>2. PICK buf : buf = subs[k].buf /\ buf \in Seq(Events)
    BY DEF Types, ServerTypes, Subscribers
  <1>3. subs[k] \in Subscribers
    BY DEF Types, ServerTypes
  <1>4. PICK x : x = Event(c)
    OBVIOUS
  <1>5. /\ subs'[k].buf = Append(buf, x) /\ subs'[k].hand = subs[k].hand
        /\ subs'[k].alive = subs[k].alive
    BY <1>2, <1>3, <1>4 DEF Subscribers, Buffers
  <1>6. PICK m \in Nat, m1 \in Nat : m = Len(buf) /\ m1 = m + 1
    <2>1. PICK m \in Nat : m = Len(buf)
      BY <1>2
    <2>2. PICK m1 \in Nat : m1 = m + 1
      OBVIOUS
    <2> QED BY <2>1, <2>2
  <1>7. /\ Len(Append(buf, x)) = m1 /\ Append(buf, x)[m1] = x
        /\ \A i \in 1 .. m : Append(buf, x)[i] = buf[i]
    BY <1>2, <1>6, AppendElements, TypedSequence
  <1>8. PICK h \in {0, 1} : h = InHand(k) /\ h = InHand(k)'
    BY <1>5 DEF InHand
  <1>9. /\ ch = BranchOf[s] /\ joined[s] # Nothing /\ joined[s] <= u[ch][0]
        /\ ReceiverIsOpen(s) =>
             /\ subs[k].alive
             /\ Length(s) + h + m = Len(direct[s]) + (u[ch][0] - joined[s])
             /\ Follows(k)
    BY <1>1, <1>2, <1>6, <1>8 DEF OnItsWay
  <1>10. PICK L \in Nat : L = Length(s)
    BY <1>9, LengthOfResponse
  <1>11. PICK d \in Nat, j \in Nat, p \in Nat, p1 \in Nat, l \in Nat :
           /\ d = Len(direct[s]) /\ j = joined[s] /\ p = u[ch][0] /\ p1 = v[ch][0]
           /\ l = Len(log[ch]) /\ j <= p /\ p1 = p + 1 /\ p1 <= l
           /\ Event(c) = Event(log[ch][p1])
    <2>1. Len(direct[s]) \in Nat /\ joined[s] \in Nat
      BY <1>9, ShapeOfStream, Sequences DEF Shape
    <2>2. u[ch][0] \in Nat /\ v[ch][0] \in Nat
      <3>1. (\A i \in Nat : u[ch][i] \in Nat) /\ (\A i \in Nat : v[ch][i] \in Nat)
        BY CountsAreNumbers
      <3> QED BY <3>1
    <2>3. Len(log[ch]) \in Nat
      BY DEF Types, ServerTypes
    <2>4. PICK d \in Nat, j \in Nat, p \in Nat, p1 \in Nat, l \in Nat :
             d = Len(direct[s]) /\ j = joined[s] /\ p = u[ch][0] /\ p1 = v[ch][0] /\ l = Len(log[ch])
      BY <2>1, <2>2, <2>3
    <2>5. j <= p /\ p1 = p + 1 /\ p1 <= l /\ Event(c) = Event(log[ch][p1])
      BY <1>9, <2>4 DEF NextSent
    <2> QED BY <2>4, <2>5
  <1>12. /\ Length(s)' = Length(s) /\ ReceiverIsOpen(s)' = ReceiverIsOpen(s)
         /\ \A i, y : Fits(s, i, y)' <=> Fits(s, i, y)
    BY DEF Length, Ahead, ReceiverIsOpen, Fits, Live, Expected
  <1>13. ASSUME ReceiverIsOpen(s)
         PROVE  /\ L + h + m1 = d + (p1 - j)
                /\ Follows(k)'
    <2>1. L + h + m = d + (p - j)
      BY <1>9, <1>10, <1>11, <1>13
    <2>2. PICK i \in Nat : i = L + h + m1
      OBVIOUS
    <2>3. L + h + m1 = d + (p1 - j) /\ i <= d + (l - j) /\ ~(i <= d) /\ j + (i - d) = p1
      <3>1. j <= p /\ p1 = p + 1 /\ p1 <= l /\ m1 = m + 1
        BY <1>6, <1>11
      <3> QED BY <2>1, <2>2, <3>1
    <2>4. Fits(s, i, x)
      <3>1. Live(s) = l - j
        BY <1>9, <1>11 DEF Live
      <3>2. Expected(s, i) = log[ch][p1]
        BY <1>9, <1>11, <2>3 DEF Expected
      <3>3. x = Event(log[ch][p1])
        BY <1>4, <1>11
      <3> QED BY <1>11, <2>3, <3>1, <3>2, <3>3 DEF Fits
    <2>5. ASSUME NEW n \in 1 .. m1
          PROVE  Fits(s, Length(s) + InHand(k) + n, subs[k].buf[n])'
      <3>1. PICK y : y = Append(buf, x)[n]
        OBVIOUS
      <3>2. Fits(s, L + h + n, y)
        <4>1. CASE n = m1
          BY <1>7, <2>2, <2>4, <3>1, <4>1
        <4>2. CASE n # m1
          <5>1. n \in 1 .. m
            BY <1>6, <4>2
          <5>2. Fits(s, L + h + n, buf[n])
            BY <1>1, <1>2, <1>6, <1>8, <1>9, <1>10, <1>13, <5>1 DEF Follows
          <5> QED BY <1>7, <3>1, <5>1, <5>2
        <4> QED BY <4>1, <4>2
      <3>3. PICK e : e = L + h + n
        OBVIOUS
      <3>4. Fits(s, e, y)'
        BY <1>12, <3>2, <3>3
      <3>5. e = (Length(s) + InHand(k) + n)' /\ y = subs'[k].buf[n]
        BY <1>5, <1>8, <1>10, <1>12, <3>1, <3>3
      <3> QED BY <3>4, <3>5
    <2>6. h = 1 => Fits(s, Length(s) + 1, subs[k].hand)'
      <3>1. PICK e, y : e = L + 1 /\ y = subs[k].hand
        OBVIOUS
      <3>2. h = 1 => Fits(s, e, y)
        BY <1>1, <1>8, <1>9, <1>10, <1>13, <3>1 DEF Follows
      <3>3. h = 1 => Fits(s, e, y)'
        BY <1>12, <3>2
      <3>4. e = (Length(s) + 1)' /\ y = subs'[k].hand
        BY <1>5, <1>10, <1>12, <3>1
      <3> QED BY <3>3, <3>4
    <2>7. Len(subs'[k].buf) = m1
      BY <1>5, <1>7
    <2> QED BY <1>1, <1>8, <2>3, <2>5, <2>6, <2>7 DEF Follows
  <1>14. j <= p1
    BY <1>11
  <1>15. ReceiverIsOpen(s) =>
           Length(s)' + InHand(k)' + Len(subs'[k].buf) = Len(direct'[s]) + (v[ch][0] - joined'[s])
    BY <1>5, <1>7, <1>8, <1>10, <1>11, <1>12, <1>13
  <1> QED BY <1>1, <1>5, <1>9, <1>11, <1>12, <1>13, <1>14, <1>15 DEF OnItsWay

\* The counts when the forwarder takes a command.
LEMMA ForwardCounts ==
  ASSUME Types, NEW u \in Counts, NEW v \in Counts, Queued(u, cmds, log), cmds # <<>>,
         \A b \in Channels : \A i \in Nat : v[b][i] = u[b][i + 1], NEW b \in Channels
  PROVE  /\ v[b][0] = u[b][1]
         /\ ~Sends(cmds[1], b) => v[b][0] = u[b][0]
         /\ \A c \in Commits : cmds[1] = Broadcast(b, c) => NextSent(u, v, b, c)
PROOF
  <1>1. 1 \in 1 .. Len(cmds) /\ 1 \in 0 .. Len(cmds)
    <2>1. cmds \in Seq(Commands)
      BY DEF Types, ServerTypes
    <2> QED BY <2>1
  <1>2. v[b][0] = u[b][1]
    <2>1. 0 \in Nat /\ 0 + 1 = 1
      OBVIOUS
    <2>2. v[b][0] = u[b][0 + 1]
      BY <2>1
    <2> QED BY <2>1, <2>2
  <1>3. /\ u[b][1] <= Len(log[b])
        /\ Sends(cmds[1], b) => u[b][1] = u[b][0] + 1 /\ cmds[1].chunk = Event(log[b][u[b][1]])
        /\ ~Sends(cmds[1], b) => u[b][1] = u[b][0]
    <2>1. 1 - 1 = 0
      OBVIOUS
    <2>2. /\ u[b][1] <= Len(log[b])
          /\ Sends(cmds[1], b) => /\ u[b][1] = u[b][1 - 1] + 1
                                  /\ cmds[1].chunk = Event(log[b][u[b][1]])
          /\ ~Sends(cmds[1], b) => u[b][1] = u[b][1 - 1]
      BY <1>1 DEF Queued
    <2> QED BY <2>1, <2>2
  <1>4. ASSUME NEW c \in Commits, cmds[1] = Broadcast(b, c)
        PROVE  NextSent(u, v, b, c)
    <2>1. Sends(cmds[1], b) /\ cmds[1].chunk = Event(c)
      BY <1>4 DEF Sends, Broadcast
    <2> QED BY <1>2, <1>3, <2>1 DEF NextSent
  <1> QED BY <1>2, <1>3, <1>4

LEMMA ForwardDelivers ==
  ASSUME Types, Types', LogGrows, \A s \in Streams : Response(s) /\ Still(s),
         NEW u \in Counts, Delivers(u), Forward, UNCHANGED <<joined, direct>>
  PROVE  \E v \in Counts : Delivers(v)'
PROOF
  <1>1. /\ cmds # <<>> /\ cmds' = Tail(cmds) /\ UNCHANGED <<http, chan, got, log>>
        /\ Queued(u, cmds, log)
    BY DEF Forward, Delivers
  <1>2. PICK v \in Counts :
           /\ Queued(v, cmds', log)
           /\ \A b \in Channels : \A i \in Nat : v[b][i] = u[b][i + 1]
    <2>1. PICK q \in Seq(Commands), l \in [Channels -> Seq(Commits)] : q = cmds /\ l = log
      BY DEF Types, ServerTypes
    <2>2. \E v \in Counts :
            /\ Queued(v, Tail(q), l)
            /\ \A b \in Channels : \A i \in Nat : v[b][i] = u[b][i + 1]
      BY <1>1, <2>1, QueuedTail
    <2> QED BY <1>1, <2>1, <2>2
  <1>3. Queued(v, cmds, log)'
    BY <1>1, <1>2 DEF Queued
  <1>4. \A b \in Channels :
          /\ v[b][0] = u[b][1]
          /\ ~Sends(cmds[1], b) => v[b][0] = u[b][0]
          /\ \A c \in Commits : cmds[1] = Broadcast(b, c) => NextSent(u, v, b, c)
    BY <1>1, <1>2, ForwardCounts
  <1>5. ASSUME NEW k \in DOMAIN subs, subs'[k] = subs[k], ~Sends(cmds[1], k[1])
        PROVE  OnItsWay(v, k)'
    <2>1. k[1] \in Channels /\ k[2] \in Streams
      BY DEF Types, ServerTypes, ServerTypeOK
    <2> QED BY <1>4, <1>5, <2>1, OnItsWayStays DEF Delivers
  <1>6. ASSUME NEW s \in Streams,
               <<BranchOf[s], s>> \in DOMAIN subs' =>
                 <<BranchOf[s], s>> \in DOMAIN subs \/ Subscribes(cmds[1], s)
        PROVE  Asked(v, s)'
    BY <1>1, <1>2, <1>6, ForwardAsked DEF Delivers
  <1>7. ASSUME NEW ch \in Channels, NEW s \in Streams, cmds[1] = Subscribe(ch, s),
               subs' = [k \in DOMAIN subs \cup {<<ch, s>>} |->
                          IF k = <<ch, s>> THEN NewSubscriber ELSE subs[k]]
        PROVE  \A k \in DOMAIN subs' : OnItsWay(v, k)'
    <2>1. \A b : ~Sends(cmds[1], b)
      BY <1>7 DEF Sends, Subscribe
    <2>2. ASSUME NEW k \in DOMAIN subs, k # <<ch, s>> PROVE OnItsWay(v, k)'
      BY <1>5, <1>7, <2>1, <2>2
    <2>3. ASSUME NEW k, k = <<ch, s>> PROVE OnItsWay(v, k)'
      <3>1. subs'[k] = NewSubscriber
        BY <1>7, <2>3
      <3>2. Asked(u, s)
        BY DEF Delivers
      <3> QED BY <1>1, <1>4, <1>7, <2>3, <3>1, <3>2, SubscribeDelivers
    <2>4. DOMAIN subs' = DOMAIN subs \cup {<<ch, s>>}
      BY <1>7
    <2> QED BY <2>2, <2>3, <2>4
  <1>8. ASSUME NEW ch \in Channels, NEW s \in Streams, cmds[1] = Subscribe(ch, s),
               DOMAIN subs' = DOMAIN subs \cup {<<ch, s>>}, NEW t \in Streams
        PROVE  Asked(v, t)'
    <2>1. cmds[1].op = "subscribe" /\ cmds[1].s = s
      BY <1>8 DEF Subscribe
    <2>2. <<BranchOf[t], t>> = <<ch, s>> => Subscribes(cmds[1], t)
      BY <2>1 DEF Subscribes
    <2> QED BY <1>6, <1>8, <2>2
  <1>9. ASSUME NEW gone, subs' = Without(subs, gone), \A b : ~Sends(cmds[1], b)
        PROVE  /\ \A k \in DOMAIN subs' : OnItsWay(v, k)'
               /\ \A t \in Streams : Asked(v, t)'
    <2>1. /\ \A k \in DOMAIN subs' : k \in DOMAIN subs /\ subs'[k] = subs[k]
          /\ \A k : k \in DOMAIN subs' => k \in DOMAIN subs
      BY <1>9 DEF Without
    <2> QED BY <1>5, <1>6, <1>9, <2>1
  <1>10. ASSUME NEW ch \in Channels, NEW c \in Commits, cmds[1] = Broadcast(ch, c),
                subs' = [k \in DOMAIN subs \ SlowOn(ch) |->
                           IF k \in SubsOf(ch) /\ HasRoom(k)
                           THEN [subs[k] EXCEPT !.buf = Append(@, Event(c))] ELSE subs[k]]
         PROVE  /\ \A k \in DOMAIN subs' : OnItsWay(v, k)'
                /\ \A t \in Streams : Asked(v, t)'
    <2>1. NextSent(u, v, ch, c)
      BY <1>4, <1>10
    <2>2. cmds[1].op = "send" /\ cmds[1].ch = ch
      BY <1>10 DEF Broadcast
    <2>3. /\ DOMAIN subs' \subseteq DOMAIN subs
          /\ \A k \in DOMAIN subs' :
               IF k[1] = ch THEN Buffers(k, Event(c)) ELSE subs'[k] = subs[k]
      BY <1>10 DEF SlowOn, SubsOf, Buffers
    <2>4. ASSUME NEW k \in DOMAIN subs', k[1] = ch PROVE OnItsWay(v, k)'
      <3>1. k \in DOMAIN subs /\ Buffers(k, Event(c)) /\ OnItsWay(u, k)
        BY <2>3, <2>4 DEF Delivers
      <3> QED BY <1>1, <2>1, <2>4, <3>1, BufferDelivers
    <2>5. ASSUME NEW k \in DOMAIN subs', k[1] # ch PROVE OnItsWay(v, k)'
      BY <1>5, <2>2, <2>3, <2>5 DEF Sends
    <2> QED BY <1>6, <2>3, <2>4, <2>5
  <1>11. ServerTypes
    BY DEF Types
  <1>12. \/ \E ch \in Channels, s \in Streams :
              /\ cmds[1] = Subscribe(ch, s)
              /\ subs' = [k \in DOMAIN subs \cup {<<ch, s>>} |->
                            IF k = <<ch, s>> THEN NewSubscriber ELSE subs[k]]
         \/ \E ch \in Channels, s \in Streams :
              cmds[1] = Unsubscribe(ch, s) /\ subs' = Without(subs, {<<ch, s>>})
         \/ \E s \in Streams :
              /\ cmds[1] = UnsubscribeAll(s)
              /\ subs' = Without(subs, {k \in DOMAIN subs : k[2] = s})
         \/ \E ch \in Channels, c \in Commits :
              /\ cmds[1] = Broadcast(ch, c)
              /\ subs' = [k \in DOMAIN subs \ SlowOn(ch) |->
                            IF k \in SubsOf(ch) /\ HasRoom(k)
                            THEN [subs[k] EXCEPT !.buf = Append(@, Event(c))] ELSE subs[k]]
    BY <1>11, ForwardEffect, Zenon
  <1>13. /\ \A ch, s : \A b : ~Sends(Unsubscribe(ch, s), b)
         /\ \A s : \A b : ~Sends(UnsubscribeAll(s), b)
    BY DEF Sends, Unsubscribe, UnsubscribeAll
  <1>14. (\A k \in DOMAIN subs' : OnItsWay(v, k)') /\ (\A t \in Streams : Asked(v, t)')
    <2>1. ASSUME NEW ch \in Channels, NEW s \in Streams, cmds[1] = Subscribe(ch, s),
                 subs' = [k \in DOMAIN subs \cup {<<ch, s>>} |->
                            IF k = <<ch, s>> THEN NewSubscriber ELSE subs[k]]
          PROVE  (\A k \in DOMAIN subs' : OnItsWay(v, k)') /\ (\A t \in Streams : Asked(v, t)')
      <3>1. DOMAIN subs' = DOMAIN subs \cup {<<ch, s>>}
        BY <2>1
      <3> QED BY <1>7, <1>8, <2>1, <3>1
    <2>2. ASSUME NEW ch \in Channels, NEW s \in Streams, cmds[1] = Unsubscribe(ch, s),
                 subs' = Without(subs, {<<ch, s>>})
          PROVE  (\A k \in DOMAIN subs' : OnItsWay(v, k)') /\ (\A t \in Streams : Asked(v, t)')
      BY <1>9, <1>13, <2>2
    <2>3. ASSUME NEW s \in Streams, cmds[1] = UnsubscribeAll(s),
                 subs' = Without(subs, {k \in DOMAIN subs : k[2] = s})
          PROVE  (\A k \in DOMAIN subs' : OnItsWay(v, k)') /\ (\A t \in Streams : Asked(v, t)')
      BY <1>9, <1>13, <2>3
    <2> QED BY <1>10, <1>12, <2>1, <2>2, <2>3, Zenon
  <1> QED BY <1>3, <1>14 DEF Delivers

\* Nothing is queued, taken or relayed.
LEMMA QuietDelivers ==
  ASSUME Types, Types', LogGrows, \A s \in Streams : Response(s) /\ Still(s),
         NEW u \in Counts, Delivers(u), UNCHANGED <<cmds, subs, log>>
  PROVE  \E v \in Counts : Delivers(v)'
PROOF
  <1>1. PICK cs \in Seq(Commands) : cs = <<>> /\ Len(cs) = 0
    <2>1. <<>> \in Seq(Commands) /\ Len(<<>>) = 0
      OBVIOUS
    <2> QED BY <2>1
  <1>2. cmds' = cmds \o cs
    BY <1>1 DEF Types, ServerTypes
  <1>3. \A i \in 1 .. Len(cs) : cs[i].op \notin {"send", "subscribe"}
    BY <1>1
  <1> QED BY <1>2, <1>3, PushDelivers

\* A stream is taken off all channels.
LEMMA LeavingDelivers ==
  ASSUME Types, Types', LogGrows, \A s \in Streams : Response(s) /\ Still(s),
         NEW u \in Counts, Delivers(u), NEW s \in Streams, Push(<<UnsubscribeAll(s)>>),
         UNCHANGED <<subs, log>>
  PROVE  \E v \in Counts : Delivers(v)'
PROOF
  <1>1. PICK x \in Commands : x = UnsubscribeAll(s)
    BY DEF Commands
  <1>2. PICK cs \in Seq(Commands) : cs = <<x>> /\ Len(cs) = 1 /\ cs[1] = x
    <2>1. <<x>> \in Seq(Commands) /\ Len(<<x>>) = 1 /\ <<x>>[1] = x
      OBVIOUS
    <2> QED BY <2>1
  <1>3. cmds' = cmds \o cs
    BY <1>1, <1>2 DEF Push
  <1>4. x.op = "unsubscribe_all"
    BY <1>1 DEF UnsubscribeAll
  <1>5. \A i \in 1 .. Len(cs) : cs[i].op \notin {"send", "subscribe"}
    BY <1>2, <1>4
  <1> QED BY <1>3, <1>5, PushDelivers

\* Streams are taken off the list.
LEMMA RetractDelivers ==
  ASSUME Types, Types', LogGrows, \A s \in Streams : Response(s) /\ Still(s),
         NEW u \in Counts, Delivers(u), NEW ss, RetractStreams(ss), UNCHANGED <<subs, log>>
  PROVE  \E v \in Counts : Delivers(v)'
PROOF
  <1>1. PICK cs \in Seq(Commands) :
          cmds' = cmds \o cs /\ \A i \in 1 .. Len(cs) : cs[i].op = "unsubscribe"
    BY RetractTypes
  <1>2. \A i \in 1 .. Len(cs) : cs[i].op \notin {"send", "subscribe"}
    BY <1>1
  <1> QED BY <1>1, <1>2, PushDelivers

-------------------------------------------------------------------------------
(* The invariant *)

LEMMA StreamInit ==
  ASSUME Init
  PROVE  StreamInv
PROOF
  <1>1. Types /\ Holders
    BY TypesInit, HoldersInit
  <1>2. ASSUME NEW s \in Streams PROVE Response(s)
    <2>1. /\ http[s] = "new" /\ handler[s] = "none" /\ chan[s] = <<>> /\ got[s] = <<>>
          /\ header[s] = Nothing /\ direct[s] = <<>> /\ joined[s] = Nothing
      BY DEF Init, ServerInit
    <2>2. Begun(s)
      BY <2>1 DEF Begun
    <2>3. Headed(s)
      BY <2>1 DEF Headed, Ahead
    <2>4. Given(s)
      BY <2>1, EmptySequence DEF Given
    <2>5. Awaited(s)
      BY <2>1 DEF Awaited, ReceiverIsOpen
    <2> QED BY <2>2, <2>3, <2>4, <2>5 DEF Response
  <1>3. PICK u : u = [b \in Channels |-> [i \in Nat |-> 0]]
    OBVIOUS
  <1>4. u \in Counts /\ \A b \in Channels : \A i \in Nat : u[b][i] = 0
    BY <1>3 DEF Counts
  <1>5. Delivers(u)
    <2>1. cmds = <<>> /\ DOMAIN subs = {} /\ \A b \in Channels : log[b] = <<>>
      BY DEF Init, ServerInit
    <2>2. Len(cmds) = 0 /\ \A b \in Channels : Len(log[b]) = 0
      BY <2>1, EmptySequence
    <2>3. Queued(u, cmds, log)
      BY <1>4, <2>2 DEF Queued
    <2>4. \A s \in Streams : Asked(u, s)
      BY <2>2 DEF Asked
    <2> QED BY <2>1, <2>3, <2>4 DEF Delivers
  <1> QED BY <1>1, <1>2, <1>4, <1>5 DEF StreamInv

\* The task of a subscriber sends what it has in hand.
LEMMA TaskSendsStep ==
  ASSUME Types, Types', LogGrows, \A s \in Streams : Response(s), NEW u \in Counts, Delivers(u),
         NEW k \in DOMAIN subs, TaskSends(k), UNCHANGED <<joined, direct, handler>>
  PROVE  (\A s \in Streams : Response(s)') /\ Delivers(u)'
PROOF
  <1>1. DOMAIN chan = Streams /\ k[2] \in Streams /\ UNCHANGED <<got, header, http>>
    BY DEF Types, ServerTypes, ServerTypeOK, TaskSends
  <1>2. ASSUME NEW s \in Streams, chan'[s] = chan[s] PROVE Response(s)' /\ Still(s)
    <2>1. Moves(s)
      BY <1>1, <1>2, IdleMoves
    <2> QED BY <2>1, MovesResponse
  <1>3. CASE ReceiverIsOpen(k[2])
    <2>1. Relays(k[2])
      BY <1>3, TaskSendsRelays
    <2>2. Response(k[2])' /\ Length(k[2])' = Length(k[2]) + 1
      BY <1>1, <2>1, RelaysResponse
    <2>3. \A s \in Streams \ {k[2]} : chan'[s] = chan[s]
      BY <1>1, <1>3 DEF TaskSends
    <2>4. \A s \in Streams \ {k[2]} : Response(s)' /\ Still(s)
      BY <1>2, <2>3
    <2>5. Delivers(u)'
      BY <1>3, <2>2, <2>4, TaskSendsDelivers
    <2> QED BY <2>2, <2>4, <2>5
  <1>4. CASE ~ReceiverIsOpen(k[2])
    <2>1. \A s \in Streams : chan'[s] = chan[s]
      BY <1>4 DEF TaskSends
    <2>2. \A s \in Streams : Response(s)' /\ Response(s) /\ Still(s)
      BY <1>2, <2>1
    <2>3. Delivers(u)'
      BY <1>4, <2>2, TaskEndsDelivers
    <2> QED BY <2>2, <2>3
  <1> QED BY <1>3, <1>4

LEMMA ServerDelivers ==
  ASSUME Types, Types', LogGrows, \A s \in Streams : Response(s) /\ Still(s),
         NEW u \in Counts, Delivers(u), Server, \A k \in DOMAIN subs : ~TaskSends(k)
  PROVE  \E v \in Counts : Delivers(v)'
PROOF
  <1>1. UNCHANGED <<joined, direct>> /\ ServerStep(Held)
    BY DEF Server, handlerVars
  <1>2. CASE Forward
    BY <1>1, <1>2, ForwardDelivers
  <1>3. ASSUME NEW k \in DOMAIN subs, TaskReceives(k)
        PROVE  \E v \in Counts : Delivers(v)'
    BY <1>1, <1>3, TaskReceivesDelivers
  <1>4. ASSUME NEW s \in Streams, GuardUnsubscribes(s)
        PROVE  \E v \in Counts : Delivers(v)'
    BY <1>4, LeavingDelivers DEF GuardUnsubscribes
  <1>5. StartServer => UNCHANGED <<cmds, subs, log>>
    BY DEF StartServer
  <1>6. ASSUME NEW s \in Streams
        PROVE  \/ Connect(s) \/ FirstChunk(s) \/ NoFirstChunk(s, Held) \/ ClientReads(s)
               \/ EndOfBody(s, Held) \/ ClientLeaves(s) \/ GuardForgets(s)
               => UNCHANGED <<cmds, subs, log>>
    BY DEF Connect, FirstChunk, NoFirstChunk, ClientReads, EndOfBody, ClientLeaves, DropBody,
           GuardForgets
  <1>7. CASE UNCHANGED <<cmds, subs, log>>
    BY <1>7, QuietDelivers
  <1> QED BY <1>1, <1>2, <1>3, <1>4, <1>5, <1>6, <1>7 DEF ServerStep

LEMMA HandlerDelivers ==
  ASSUME Types, Types', LogGrows, \A s \in Streams : Response(s) /\ Still(s),
         NEW u \in Counts, Delivers(u), NEW h \in Streams, HandlerStep(h)
  PROVE  \E v \in Counts : Delivers(v)'
PROOF
  <1>1. CASE Register(h)
    BY <1>1, RegisterDelivers
  <1>2. CASE HandlerThrows(h)
    BY <1>2, LeavingDelivers DEF HandlerThrows
  <1>3. CASE \/ SendHeader(h) \/ SetupTimeout(h) \/ ReadHistory(h) \/ SendHistorical(h)
             \/ BeginPhase2(h) \/ SendDelta(h) \/ GetSender(h) \/ HandlerFailed(h)
    <2>1. UNCHANGED <<cmds, subs, log>>
      BY <1>3 DEF SendHeader, SetupTimeout, ReadHistory, SendHistorical, BeginPhase2, SendDelta,
                  GetSender, HandlerFailed, serverVars
    <2> QED BY <2>1, QuietDelivers
  <1> QED BY <1>1, <1>2, <1>3 DEF HandlerStep

LEMMA OtherDelivers ==
  ASSUME Types, Types', LogGrows, \A s \in Streams : Response(s) /\ Still(s),
         NEW u \in Counts, Delivers(u),
         \/ \E t \in Streams : TimeoutFires(t)
         \/ \E b \in Channels : Commit(b) \/ ResetBranch(b)
         \/ \E c \in Commits : HookStep(c)
         \/ UNCHANGED vars
  PROVE  \E v \in Counts : Delivers(v)'
PROOF
  <1>1. ASSUME NEW t \in Streams, TimeoutFires(t) PROVE \E v \in Counts : Delivers(v)'
    BY <1>1, RetractDelivers DEF TimeoutFires
  <1>2. ASSUME NEW c \in Commits, SweepAndCheck(c) PROVE \E v \in Counts : Delivers(v)'
    BY <1>2, RetractDelivers DEF SweepAndCheck
  <1>3. ASSUME NEW c \in Commits, BroadcastCommit(c) PROVE \E v \in Counts : Delivers(v)'
    <2>1. UNCHANGED subs
      BY <1>3 DEF BroadcastCommit
    <2>2. CASE UNCHANGED <<sent, forwarder, cmds, log>>
      BY <2>1, <2>2, QuietDelivers
    <2>3. CASE ~UNCHANGED <<sent, forwarder, cmds, log>>
      <3>1. PICK b \in Channels : b = hook[c].branch
        BY <1>3 DEF BroadcastCommit, Types, PluginTypes
      <3>2. Push(<<Broadcast(b, c)>>) /\ log' = [log EXCEPT ![b] = Append(@, c)]
        BY <1>3, <2>3, <3>1 DEF BroadcastCommit
      <3> QED BY <2>1, <3>2, BroadcastDelivers
    <2> QED BY <2>2, <2>3
  <1>4. ASSUME NEW b \in Channels, Commit(b) \/ ResetBranch(b) PROVE UNCHANGED <<cmds, subs, log>>
    BY <1>4 DEF Commit, ResetBranch, serverVars
  <1>5. UNCHANGED vars => UNCHANGED <<cmds, subs, log>>
    BY DEF vars, serverVars
  <1>6. CASE UNCHANGED <<cmds, subs, log>>
    BY <1>6, QuietDelivers
  <1> QED BY <1>1, <1>2, <1>3, <1>4, <1>5, <1>6 DEF HookStep

LEMMA StreamStep ==
  ASSUME StreamInv, [Next]_vars
  PROVE  StreamInv'
PROOF
  <1>1. Types /\ Holders /\ \A s \in Streams : Response(s)
    BY DEF StreamInv
  <1>2. Types' /\ Holders' /\ LogGrows
    BY <1>1, TypesStep, HoldersStep, LogStep
  <1>3. PICK u \in Counts : Delivers(u)
    BY DEF StreamInv
  <1>4. ASSUME \A s \in Streams : Moves(s)
        PROVE  \A s \in Streams : Response(s)' /\ Response(s) /\ Still(s)
    BY <1>1, <1>2, <1>4, MovesResponse
  <1>5. ASSUME Server, \A k \in DOMAIN subs : ~TaskSends(k)
        PROVE  (\A s \in Streams : Response(s)') /\ \E v \in Counts : Delivers(v)'
    <2>1. \A s \in Streams : Moves(s)
      BY <1>1, <1>5, ServerMoves
    <2> QED BY <1>1, <1>2, <1>3, <1>4, <1>5, <2>1, ServerDelivers
  <1>6. ASSUME Server, NEW k \in DOMAIN subs, TaskSends(k)
        PROVE  (\A s \in Streams : Response(s)') /\ Delivers(u)'
    <2>1. UNCHANGED <<joined, direct, handler>>
      BY <1>6 DEF Server, handlerVars
    <2> QED BY <1>1, <1>2, <1>3, <1>6, <2>1, TaskSendsStep
  <1>7. ASSUME NEW h \in Streams, HandlerStep(h)
        PROVE  (\A s \in Streams : Response(s)') /\ \E v \in Counts : Delivers(v)'
    <2>1. \A s \in Streams : Moves(s)
      BY <1>1, <1>7, HandlerMoves
    <2> QED BY <1>1, <1>2, <1>3, <1>4, <1>7, <2>1, HandlerDelivers
  <1>8. ASSUME \/ \E t \in Streams : TimeoutFires(t)
               \/ \E b \in Channels : Commit(b) \/ ResetBranch(b)
               \/ \E c \in Commits : HookStep(c)
               \/ UNCHANGED vars
        PROVE  (\A s \in Streams : Response(s)') /\ \E v \in Counts : Delivers(v)'
    <2>1. \A s \in Streams : Moves(s)
      BY <1>8, OtherMoves
    <2> QED BY <1>1, <1>2, <1>3, <1>4, <1>8, <2>1, OtherDelivers
  <1>9. (\A s \in Streams : Response(s)') /\ \E v \in Counts : Delivers(v)'
    <2>1. CASE Server
      BY <1>3, <1>5, <1>6, <2>1
    <2>2. CASE ~Server
      <3>1. \/ \E h \in Streams : HandlerStep(h)
            \/ \E t \in Streams : TimeoutFires(t)
            \/ \E b \in Channels : Commit(b) \/ ResetBranch(b)
            \/ \E c \in Commits : HookStep(c)
            \/ UNCHANGED vars
        BY <2>2 DEF Next
      <3> QED BY <1>7, <1>8, <3>1
    <2> QED BY <2>1, <2>2
  <1> QED BY <1>2, <1>9 DEF StreamInv

\* Every event of every response is at its place, wherever it is on its way.
THEOREM StreamAlways == Spec => []StreamInv
PROOF BY StreamInit, StreamStep, PTL DEF Spec

\* The plugin, the server and the client agree: mutexes are held by handlers in their second
\* phase, the first chunk of a response is no event, and a listed stream can be sent to
\* (dispatch_stream_request, stream_commit_data, retract_stream, StreamGuard).
THEOREM StreamsAlwaysAgree == Spec => []StreamsAgree
PROOF
  <1>1. StreamInv => StreamsAgree
    <2> SUFFICES ASSUME StreamInv PROVE StreamsAgree
      OBVIOUS
    <2>1. Types /\ Holders /\ \A s \in Streams : Headed(s)
      BY DEF StreamInv, Response
    <2>2. TypeOK
      <3>1. \A c \in Commits : hook[c].at \in {"none", "sweep", "broadcast", "done"}
        BY <2>1 DEF Types, PluginTypes, Hooks
      <3>2. Mutual
        BY <2>1 DEF Holders, Mutual
      <3> QED BY <2>1, <3>1, <3>2 DEF Types, ServerTypes, PluginTypes, TypeOK
    <2>3. HeaderComesFirst
      BY <2>1 DEF Headed, HeaderComesFirst
    <2>4. ListedStreamsAreOpen
      BY <2>1 DEF Holders, Types, PluginTypes, ListedStreamsAreOpen
    <2> QED BY <2>2, <2>3, <2>4 DEF StreamsAgree
  <1> QED BY <1>1, StreamAlways, PTL

\* The broadcasts a response is to have, as CatchupThenLive says it.
LiveEvents(s) ==
  IF joined[s] = Nothing THEN <<>>
  ELSE SubSeq(log[BranchOf[s]], joined[s] + 1, Len(log[BranchOf[s]]))

\* The events a response is to have, as one sequence.
LEMMA ExpectedEvents ==
  ASSUME Types, NEW s \in Streams, Begun(s), NEW i \in Nat, 1 <= i,
         i <= Len(direct[s]) + Live(s)
  PROVE  /\ i \in DOMAIN (direct[s] \o LiveEvents(s))
         /\ (direct[s] \o LiveEvents(s))[i] = Expected(s, i)
PROOF
  <1>0. PICK live : live = LiveEvents(s)
    OBVIOUS
  <1>1. PICK q : q = direct[s] /\ IsSequence(q) /\ Len(q) \in Nat
    BY ShapeOfStream, Sequences DEF Shape
  <1>2. PICK d \in Nat : d = Len(q)
    BY <1>1
  <1>3. PICK l : l = log[BranchOf[s]] /\ l \in Seq(Commits)
    BY StreamAssumption DEF Types, ServerTypes
  <1>4. PICK n \in Nat : n = Len(l)
    BY <1>3
  <1>5. CASE joined[s] = Nothing
    <2>1. live = <<>> /\ Live(s) = 0
      BY <1>0, <1>5 DEF Live, LiveEvents
    <2>2. IsSequence(q \o live) /\ Len(q \o live) = Len(q) + 0
          /\ \A j \in 1 .. Len(q) : (q \o live)[j] = q[j]
      BY <1>1, <2>1, EmptySequence, ConcatElements
    <2>3. i \in 1 .. d
      <3>1. i <= d + 0
        BY <1>1, <1>2, <2>1
      <3> QED BY <3>1
    <2>4. DOMAIN (q \o live) = 1 .. d
      <3>1. d + 0 = d
        OBVIOUS
      <3> QED BY <1>2, <2>2, <3>1, Sequences
    <2>5. Expected(s, i) = q[i]
      <3>1. i <= d
        BY <2>3
      <3> QED BY <1>1, <1>2, <3>1 DEF Expected
    <2> QED BY <1>0, <1>1, <1>2, <2>2, <2>3, <2>4, <2>5
  <1>6. CASE joined[s] # Nothing
    <2>1. PICK j \in Nat : j = joined[s] /\ j <= n
      BY <1>3, <1>4, <1>6, ShapeOfStream DEF Shape, Begun
    <2>2. live = SubSeq(l, j + 1, n) /\ Live(s) = n - j
      BY <1>0, <1>3, <1>4, <1>6, <2>1 DEF Live, LiveEvents
    <2>3. PICK m \in Nat : m = n - j
      BY <2>1
    <2>4. /\ live \in Seq(Commits) /\ Len(live) = m
          /\ \A e \in 1 .. m : live[e] = l[j + e]
      <3>1. \A e \in j + 1 .. n : l[e] \in Commits
        BY <1>3, <1>4
      <3>2. j + 1 \in Int /\ n \in Int
        OBVIOUS
      <3>3. /\ live \in Seq(Commits)
            /\ Len(live) = IF j + 1 <= n THEN n - (j + 1) + 1 ELSE 0
            /\ \A e \in 1 .. n - (j + 1) + 1 : live[e] = l[(j + 1) + e - 1]
        BY <2>2, <3>1, <3>2, SubSeqProperties
      <3>4. /\ n - (j + 1) + 1 = m /\ (~(j + 1 <= n) => m = 0)
            /\ \A e \in 1 .. m : (j + 1) + e - 1 = j + e
        BY <2>1, <2>3
      <3>5. Len(live) = m
        BY <3>3, <3>4
      <3> QED BY <3>3, <3>4, <3>5
    <2>5. /\ IsSequence(q \o live) /\ Len(q \o live) = d + m
          /\ \A e \in 1 .. d : (q \o live)[e] = q[e]
          /\ \A e \in 1 .. m : (q \o live)[d + e] = live[e]
      <3>1. IsSequence(live) /\ IsSequence(q)
        BY <1>1, <2>4, TypedSequence
      <3>2. /\ IsSequence(q \o live) /\ Len(q \o live) = Len(q) + Len(live)
            /\ \A e \in 1 .. Len(q) : (q \o live)[e] = q[e]
            /\ \A e \in 1 .. Len(live) : (q \o live)[Len(q) + e] = live[e]
        BY ONLY <3>1, ConcatElements
      <3> QED BY <1>2, <2>4, <3>2
    <2>6. DOMAIN (q \o live) = 1 .. d + m
      BY <2>5, Sequences
    <2>7. i \in 1 .. d + m
      <3>1. i <= d + m
        BY <1>1, <1>2, <2>2, <2>3
      <3> QED BY <3>1
    <2>8. (q \o live)[i] = Expected(s, i)
      <3>1. CASE i <= d
        <4>1. i \in 1 .. d
          BY <3>1
        <4> QED BY <1>1, <1>2, <2>5, <3>1, <4>1 DEF Expected
      <3>2. CASE ~(i <= d)
        <4>1. PICK e \in 1 .. m : e = i - d /\ i = d + e
          <5>1. i - d \in 1 .. m /\ i = d + (i - d)
            BY <2>7, <3>2
          <5> QED BY <5>1
        <4>2. (q \o live)[i] = l[j + e]
          BY <2>4, <2>5, <4>1
        <4>3. Expected(s, i) = l[j + e]
          BY <1>1, <1>2, <1>3, <2>1, <3>2, <4>1 DEF Expected
        <4> QED BY <4>2, <4>3
      <3> QED BY <3>1, <3>2
    <2> QED BY <1>0, <1>1, <2>6, <2>7, <2>8
  <1> QED BY <1>5, <1>6

\* A client is given a beginning of the commits its handler sent, followed by the broadcasts
\* after its subscription, and at the end perhaps the error of its handler: however steps of
\* the forwarder, the tasks, the clients and the handlers interleave (run_forwarder,
\* subscriber_task, StreamGuard, stream_commit_data).
THEOREM CatchupThenLiveAlways == Spec => []CatchupThenLive
PROOF
  <1>1. StreamInv => CatchupThenLive
    <2> SUFFICES ASSUME StreamInv PROVE CatchupThenLive
      OBVIOUS
    <2>1. Types /\ \A s \in Streams : Begun(s) /\ Given(s)
      BY DEF StreamInv, Response
    <2>2. ASSUME NEW s \in Streams, NEW i \in DOMAIN got[s]
          PROVE  \/ /\ i \in DOMAIN (direct[s] \o LiveEvents(s))
                    /\ got[s][i] = Event((direct[s] \o LiveEvents(s))[i])
                 \/ i = Len(got[s]) /\ got[s][i] = Answer("failed")
      <3>1. i \in 1 .. Len(got[s]) /\ i \in Nat /\ 1 <= i
        BY <2>1, ShapeOfStream, Sequences DEF Shape
      <3>2. CASE Fits(s, i, got[s][i])
        <4>1. i <= Len(direct[s]) + Live(s) /\ got[s][i] = Event(Expected(s, i))
          BY <3>2 DEF Fits
        <4>2. /\ i \in DOMAIN (direct[s] \o LiveEvents(s))
              /\ (direct[s] \o LiveEvents(s))[i] = Expected(s, i)
          BY <2>1, <2>2, <3>1, <4>1, ExpectedEvents
        <4> QED BY <4>1, <4>2
      <3>3. CASE ~Fits(s, i, got[s][i])
        BY <2>1, <3>1, <3>3 DEF Given, GaveUp
      <3> QED BY <3>2, <3>3
    <2> QED BY <2>2 DEF CatchupThenLive, LiveEvents
  <1> QED BY <1>1, StreamAlways, PTL
===============================================================================
