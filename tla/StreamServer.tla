----------------------------- MODULE StreamServer -----------------------------
(***************************************************************************)
(* Streaming responses of the Rust web server: the registry of response    *)
(* streams, the broadcast registry with its forwarder and one task per     *)
(* subscriber, and the HTTP side of a streaming request.  What the Prolog  *)
(* handlers do with them is the business of the modules that extend this   *)
(* one.                                                                    *)
(*                                                                         *)
(* A stream is named by its request: identifiers are taken from a counter  *)
(* under the lock of the registry and are never reused.                    *)
(***************************************************************************)
EXTENDS Naturals, Sequences, SequencesExt, FiniteSets

CONSTANTS
  Streams,            \* streaming requests
  Channels,           \* names of broadcast channels
  ResponseBuffer,     \* capacity of a response channel (128 in the code)
  SubscriberBuffer,   \* capacity of the buffer of a subscriber (64)
  Nothing             \* no chunk

ASSUME BuffersHoldSomething ==
  ResponseBuffer \in Nat \ {0} /\ SubscriberBuffer \in Nat \ {0}

VARIABLES
  runtime,    \* the handle of the tokio runtime is set: the server is up
  forwarder,  \* the forwarder task is spawned
  http,       \* where the HTTP side of each request stands
  senders,    \* streams whose sender the registry holds
  chan,       \* chunks in the response channel of each stream
  header,     \* the chunk that was taken as status and headers
  got,        \* the chunks the client of each stream was given as body
  cmds,       \* commands queued for the forwarder
  subs,       \* the forwarder's subscribers, by channel and stream
  log         \* what was broadcast on each channel, in the order of the queue

serverVars == <<runtime, forwarder, http, senders, chan, header, got, cmds, subs, log>>

\* chunks: an answer with its body or with the body "stream"; an event
Answer(body) == [type |-> "answer", body |-> body]
Event(c) == [type |-> "event", commit |-> c]

\* Without a "body" the first chunk of a stream reads as one with the body "stream"
BodyOf(chunk) == IF chunk.type = "answer" THEN chunk.body ELSE "stream"

\* http: the receiver is in the blocking task, in the response body, or dropped
ReceiverIsOpen(s) == http[s] \in {"waiting", "left", "streaming"}

ServerInit ==
  /\ runtime = FALSE /\ forwarder = FALSE
  /\ http = [s \in Streams |-> "new"]
  /\ senders = {}
  /\ chan = [s \in Streams |-> <<>>]
  /\ header = [s \in Streams |-> Nothing]
  /\ got = [s \in Streams |-> <<>>]
  /\ cmds = <<>>
  /\ subs = <<>>
  /\ log = [ch \in Channels |-> <<>>]

-------------------------------------------------------------------------------
(* The registry of streams *)

\* StreamRegistry::send: try_send; a closed receiver costs the stream its sender.
\* Sent(s) tells whether the chunk goes through, Send(s, chunk) what it changes.
Sent(s) == s \in senders /\ ReceiverIsOpen(s) /\ Len(chan[s]) < ResponseBuffer

Send(s, chunk) ==
  /\ senders' = IF ReceiverIsOpen(s) THEN senders ELSE senders \ {s}
  /\ chan' = IF Sent(s) THEN [chan EXCEPT ![s] = Append(@, chunk)] ELSE chan

\* appserver_stream_send of a last chunk, then appserver_stream_close
SendAndClose(s, chunk) ==
  /\ chan' = IF Sent(s) THEN [chan EXCEPT ![s] = Append(@, chunk)] ELSE chan
  /\ senders' = senders \ {s}

\* The predicates that plugin::register installs in the Prolog module
Installed ==
  {"start", "stream_send", "stream_send_raw", "stream_close", "broadcast_subscribe",
   "broadcast_unsubscribe", "broadcast_unsubscribe_all", "broadcast_send",
   "broadcast_send_raw", "stream_recv", "open_fd_stream", "close_fd"}

\* A caller that catches the error of an unknown predicate sees it fail
StreamExists(s) == "stream_exists" \in Installed /\ s \in senders

-------------------------------------------------------------------------------
(* The broadcast registry and its forwarder *)

\* Every public method of the registry: spawn the forwarder if it can be, then push
Push(commands) ==
  /\ forwarder' = (forwarder \/ (runtime /\ commands # <<>>))
  /\ cmds' = cmds \o commands

Subscribe(ch, s) == [op |-> "subscribe", ch |-> ch, s |-> s]
Unsubscribe(ch, s) == [op |-> "unsubscribe", ch |-> ch, s |-> s]
UnsubscribeAll(s) == [op |-> "unsubscribe_all", s |-> s]
Broadcast(ch, c) == [op |-> "send", ch |-> ch, chunk |-> Event(c)]

\* A subscriber: its bounded buffer, the chunk its task is sending, its task running
NewSubscriber == [buf |-> <<>>, hand |-> Nothing, alive |-> TRUE]

Without(f, keys) == [k \in DOMAIN f \ keys |-> f[k]]
SubsOf(ch) == {k \in DOMAIN subs : k[1] = ch}
HasRoom(k) == subs[k].alive /\ Len(subs[k].buf) < SubscriberBuffer

\* The subscribers whose buffer refuses a chunk (try_send)
SlowOn(ch) == {k \in SubsOf(ch) : ~HasRoom(k)}

\* run_forwarder: one command.  Removing a subscriber aborts its task, with what
\* the task still had; a subscriber without room is removed.
Forward ==
  /\ forwarder /\ cmds # <<>>
  /\ LET cmd == Head(cmds) IN
       subs' = CASE cmd.op = "subscribe" ->
                      [k \in DOMAIN subs \cup {<<cmd.ch, cmd.s>>} |->
                         IF k = <<cmd.ch, cmd.s>> THEN NewSubscriber ELSE subs[k]]
                 [] cmd.op = "unsubscribe" -> Without(subs, {<<cmd.ch, cmd.s>>})
                 [] cmd.op = "unsubscribe_all" ->
                      Without(subs, {k \in DOMAIN subs : k[2] = cmd.s})
                 [] cmd.op = "send" ->
                      [k \in DOMAIN subs \ SlowOn(cmd.ch) |->
                         IF k \in SubsOf(cmd.ch) /\ HasRoom(k)
                         THEN [subs[k] EXCEPT !.buf = Append(@, cmd.chunk)] ELSE subs[k]]
  /\ cmds' = Tail(cmds)
  /\ UNCHANGED <<runtime, forwarder, http, senders, chan, header, got, log>>

\* subscriber_task: take a chunk from the buffer ...
TaskReceives(k) ==
  /\ k \in DOMAIN subs
  /\ subs[k].alive /\ subs[k].hand = Nothing /\ subs[k].buf # <<>>
  /\ subs' = [subs EXCEPT ![k].hand = Head(subs[k].buf), ![k].buf = Tail(@)]
  /\ UNCHANGED <<runtime, forwarder, http, senders, chan, header, got, cmds, log>>

\* Mutant: the task does not wait when the response channel is full
TaskDropsWhenFull(k) ==
  /\ k \in DOMAIN subs
  /\ subs[k].alive /\ subs[k].hand # Nothing
  /\ subs' = [subs EXCEPT ![k].hand = Nothing]
  /\ chan' = IF ReceiverIsOpen(k[2]) /\ Len(chan[k[2]]) < ResponseBuffer
             THEN [chan EXCEPT ![k[2]] = Append(@, subs[k].hand)] ELSE chan
  /\ UNCHANGED <<runtime, forwarder, http, senders, header, got, cmds, log>>

\* ... and wait until the response channel takes it; a dropped receiver ends the task
TaskSends(k) ==
  /\ k \in DOMAIN subs
  /\ subs[k].alive /\ subs[k].hand # Nothing
  /\ LET s == k[2] IN
       IF ReceiverIsOpen(s)
       THEN /\ Len(chan[s]) < ResponseBuffer
            /\ chan' = [chan EXCEPT ![s] = Append(@, subs[k].hand)]
            /\ subs' = [subs EXCEPT ![k].hand = Nothing]
       ELSE /\ subs' = [subs EXCEPT ![k].hand = Nothing, ![k].buf = <<>>, ![k].alive = FALSE]
            /\ UNCHANGED chan
  /\ UNCHANGED <<runtime, forwarder, http, senders, header, got, cmds, log>>

-------------------------------------------------------------------------------
(* The HTTP side *)

\* start_with_routes: the runtime exists and its handle is published before requests
StartServer ==
  /\ ~runtime
  /\ runtime' = TRUE
  /\ UNCHANGED <<forwarder, http, senders, chan, header, got, cmds, subs, log>>

\* dispatch_stream_request up to the wait for the first chunk: the stream is in the
\* registry before the handler is told of it
Connect(s) ==
  /\ runtime /\ http[s] = "new"
  /\ http' = [http EXCEPT ![s] = "waiting"]
  /\ senders' = senders \cup {s}
  /\ UNCHANGED <<runtime, forwarder, chan, header, got, cmds, subs, log>>

\* Somebody still holds a clone of the sender of s: the registry, a task, a queued
\* subscription, or a caller between get_sender and subscribe (held)
HasSender(s, held) ==
  \/ s \in senders \/ s \in held
  \/ \E k \in DOMAIN subs : k[2] = s /\ subs[k].alive
  \/ \E i \in 1..Len(cmds) : cmds[i].op = "subscribe" /\ cmds[i].s = s

\* The first chunk: status and headers, and a body unless that is to be streamed.
\* A client that left meanwhile is not noticed by the blocking task.
FirstChunk(s) ==
  /\ http[s] \in {"waiting", "left"} /\ chan[s] # <<>>
  /\ chan' = [chan EXCEPT ![s] = IF http[s] = "left" \/ BodyOf(Head(@)) # "stream"
                                 THEN <<>> ELSE Tail(@)]
  /\ header' = [header EXCEPT ![s] = Head(chan[s])]
  /\ IF http[s] = "left"
     THEN http' = [http EXCEPT ![s] = "abandoned"] /\ UNCHANGED senders
     ELSE IF BodyOf(Head(chan[s])) = "stream"
          THEN http' = [http EXCEPT ![s] = "streaming"] /\ UNCHANGED senders
          ELSE http' = [http EXCEPT ![s] = "ended"] /\ senders' = senders \ {s}
  /\ UNCHANGED <<runtime, forwarder, got, cmds, subs, log>>

\* The handler closed the stream without a chunk: an error response
NoFirstChunk(s, held) ==
  /\ http[s] \in {"waiting", "left"} /\ chan[s] = <<>> /\ ~HasSender(s, held)
  /\ http' = [http EXCEPT ![s] = "ended"]
  /\ UNCHANGED <<runtime, forwarder, senders, chan, header, got, cmds, subs, log>>

\* The client is given the next chunk of the body
ClientReads(s) ==
  /\ http[s] = "streaming" /\ chan[s] # <<>>
  /\ got' = [got EXCEPT ![s] = Append(@, Head(chan[s]))]
  /\ chan' = [chan EXCEPT ![s] = Tail(@)]
  /\ UNCHANGED <<runtime, forwarder, http, senders, header, cmds, subs, log>>

\* The response ends: its body is dropped, first the receiver, then the StreamGuard
DropBody(s) ==
  /\ http' = [http EXCEPT ![s] = "guard"]
  /\ chan' = [chan EXCEPT ![s] = <<>>]
  /\ UNCHANGED <<runtime, forwarder, senders, header, got, cmds, subs, log>>

EndOfBody(s, held) ==
  /\ http[s] = "streaming" /\ chan[s] = <<>> /\ ~HasSender(s, held)
  /\ DropBody(s)

ClientLeaves(s) ==
  \/ http[s] = "streaming" /\ DropBody(s)
  \/ /\ http[s] = "waiting"
     /\ http' = [http EXCEPT ![s] = "left"]
     /\ UNCHANGED <<runtime, forwarder, senders, chan, header, got, cmds, subs, log>>

\* StreamGuard::drop takes the two registries one after the other
GuardUnsubscribes(s) ==
  /\ http[s] = "guard"
  /\ http' = [http EXCEPT ![s] = "forget"]
  /\ Push(<<UnsubscribeAll(s)>>)
  /\ UNCHANGED <<runtime, senders, chan, header, got, subs, log>>

GuardForgets(s) ==
  /\ http[s] = "forget"
  /\ http' = [http EXCEPT ![s] = "ended"]
  /\ senders' = senders \ {s}
  /\ UNCHANGED <<runtime, forwarder, chan, header, got, cmds, subs, log>>

ServerStep(held) ==
  \/ StartServer
  \/ Forward
  \/ \E k \in DOMAIN subs : TaskReceives(k) \/ TaskSends(k)
  \/ \E s \in Streams :
       \/ Connect(s) \/ FirstChunk(s) \/ NoFirstChunk(s, held)
       \/ ClientReads(s) \/ EndOfBody(s, held) \/ ClientLeaves(s)
       \/ GuardUnsubscribes(s) \/ GuardForgets(s)

ServerTypeOK ==
  /\ runtime \in BOOLEAN /\ forwarder \in BOOLEAN
  /\ http \in [Streams -> {"new", "waiting", "left", "streaming", "guard", "forget",
                           "ended", "abandoned"}]
  /\ senders \subseteq Streams
  /\ \A s \in Streams : Len(chan[s]) <= ResponseBuffer
  /\ DOMAIN subs \subseteq Channels \X Streams
  /\ \A k \in DOMAIN subs : Len(subs[k].buf) <= SubscriberBuffer
  /\ DOMAIN log = Channels
===============================================================================
