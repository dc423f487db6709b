----------------------------- MODULE CommitStream -----------------------------
(***************************************************************************)
(* The commit stream of a branch (plugins/webserver_commits.pl) over the   *)
(* streams of the web server: a handler that sends the commits its client  *)
(* missed and then registers it for the live ones, the hook that follows   *)
(* every commit and broadcasts it, and the thread that ends a stream after *)
(* its timeout.  A broadcast channel is a branch; commits are numbered in  *)
(* the order they are made.                                                *)
(***************************************************************************)
EXTENDS StreamServer, FiniteSetsExt

CONSTANTS
  BranchOf,     \* the branch each stream asks for
  SinceOf,      \* the commit it has already (since=), or Nothing
  HasTimeout,   \* its response is to end after a timeout
  KeptNotices,  \* broadcast_sent entries kept for a branch (100 in the code)
  HookRuns,     \* times the hook is called for one commit
  MaxCommits,   \* bound: commits, with the first one of each branch
  MaxUpsets     \* bound: resets of a branch and exceptions of handlers

ASSUME StreamAssumption == BranchOf \in [Streams -> Channels] /\ HasTimeout \in [Streams -> BOOLEAN]
ASSUME BoundAssumption ==
  /\ KeptNotices \in Nat /\ HookRuns \in Nat \ {0}
  /\ MaxCommits \in Nat \ {0} /\ MaxUpsets \in Nat

VARIABLES
  history,       \* commits of each branch, oldest first
  made,          \* commits made so far
  hook,          \* the hook of each commit: what it does and its remaining calls
  sent,          \* broadcast_sent/2: commits of each branch, oldest entry first
  mutex,         \* holder of the broadcast mutex of each branch
  handler,       \* where the handler of each stream stands
  first,         \* C_head: the head a handler read for its catch-up
  todo,          \* commits a handler has still to send
  listed,        \* commit_stream/3: streams registered for live commits
  timeout,       \* the timeout thread of each stream
  direct,        \* commits the handler sent to each stream (observed)
  joined,        \* broadcasts on the branch when the stream subscribed (observed)
  upsets         \* used up of the bound

handlerVars == <<handler, first, todo, direct, joined>>
commitVars == <<history, made>>
vars == <<serverVars, history, made, hook, sent, mutex, handler, first, todo,
          listed, timeout, direct, joined, upsets>>

Free == "free"
Commits == 1..MaxCommits
ASSUME NothingAssumption == Nothing \notin Nat /\ \A c \in Commits : Nothing # Event(c)
HeadOf(b) == Last(history[b])

\* The hook of a commit that was just made
Committed(b) == [at |-> "sweep", branch |-> b, left |-> HookRuns]

Init ==
  /\ ServerInit
  /\ history = [b \in Channels |-> <<1>>]
  /\ made = 1
  /\ \E b \in Channels :      \* the first commit of b was just made
       hook = [c \in Commits |->
         IF c = 1 THEN [Committed(b) EXCEPT !.left = 1]
         ELSE [Committed(Nothing) EXCEPT !.at = "none"]]
  /\ sent = [b \in Channels |-> <<>>]
  /\ mutex = [b \in Channels |-> Free]
  /\ handler = [s \in Streams |-> "none"]
  /\ first = [s \in Streams |-> Nothing]
  /\ todo = [s \in Streams |-> <<>>]
  /\ listed = {}
  /\ timeout = [s \in Streams |-> "none"]
  /\ direct = [s \in Streams |-> <<>>]
  /\ joined = [s \in Streams |-> Nothing]
  /\ upsets = 0

Goto(s, pc) == handler' = [handler EXCEPT ![s] = pc]

-------------------------------------------------------------------------------
(* The handler, on a worker thread of the request pool *)

\* commits_handler and send_response: the headers are the first chunk; a request
\* that is refused gets an answer of its own instead, and the stream is closed
SendHeader(s) ==
  /\ http[s] \in {"waiting", "left"} /\ handler[s] = "none"
  /\ \/ /\ Send(s, Answer("stream"))
        /\ Goto(s, IF Sent(s) THEN "timeout" ELSE "failed")
     \/ /\ SendAndClose(s, Answer("refused"))
        /\ Goto(s, "done")
  /\ UNCHANGED <<runtime, forwarder, http, header, got, cmds, subs, log, first, todo,
                 direct, joined, commitVars, hook, sent, mutex, listed, timeout, upsets>>

\* stream_commit_data begins with setup_timeout
SetupTimeout(s) ==
  /\ handler[s] = "timeout"
  /\ timeout' = [timeout EXCEPT ![s] = IF HasTimeout[s] THEN "running" ELSE "none"]
  /\ Goto(s, "phase1")
  /\ UNCHANGED <<serverVars, first, todo, direct, joined, commitVars, hook, sent,
                 mutex, listed, upsets>>

\* filter_commits_since_commit: what is before the known commit in the list that
\* starts at the head; nothing when the commit is not found
NewerThan(newestFirst, c) ==
  IF \E i \in DOMAIN newestFirst : newestFirst[i] = c
  THEN SubSeq(newestFirst, 1, SelectInSeq(newestFirst, LAMBDA x : x = c) - 1)
  ELSE <<>>

\* send_historical_commits: read head and history, no mutex; the catch-up in
\* chronological order, and the head if it is not part of it
ReadHistory(s) ==
  /\ handler[s] = "phase1"
  /\ LET b == BranchOf[s]
         catchup == IF SinceOf[s] = Nothing THEN <<>>
                    ELSE Reverse(NewerThan(Reverse(history[b]), SinceOf[s]))
     IN /\ first' = [first EXCEPT ![s] = HeadOf(b)]
        /\ todo' = [todo EXCEPT ![s] =
             IF Contains(catchup, HeadOf(b)) THEN catchup ELSE Append(catchup, HeadOf(b))]
  /\ Goto(s, "history")
  /\ UNCHANGED <<serverVars, direct, joined, commitVars, hook, sent, mutex, listed,
                 timeout, upsets>>

\* send_commit_event of one commit: one that is not taken fails the whole handler
SendNext(s, onFail) ==
  /\ todo[s] # <<>>
  /\ Send(s, Event(Head(todo[s])))
  /\ todo' = [todo EXCEPT ![s] = Tail(@)]
  /\ IF Sent(s)
     THEN direct' = [direct EXCEPT ![s] = Append(@, Head(todo[s]))] /\ UNCHANGED handler
     ELSE Goto(s, onFail) /\ UNCHANGED direct

SendHistorical(s) ==
  /\ handler[s] = "history"
  /\ SendNext(s, "failed")
  /\ UNCHANGED <<runtime, forwarder, http, header, got, cmds, subs, log, first, joined,
                 commitVars, hook, sent, mutex, listed, timeout, upsets>>

\* send_delta_commits, under the mutex: when the head has moved, the part of the
\* list behind C_head (the whole list if it is not there), oldest first, as far as
\* it has been broadcast
Delta(b, cHead) ==
  LET newestFirst == Reverse(history[b])
      at == SelectInSeq(newestFirst, LAMBDA x : x = cHead)
      delta == IF HeadOf(b) = cHead THEN <<>>
               ELSE IF at = 0 THEN newestFirst
               ELSE SubSeq(newestFirst, at + 1, Len(newestFirst))
  IN SelectSeq(Reverse(delta), LAMBDA c : Contains(sent[b], c))

BeginPhase2(s) ==
  /\ handler[s] = "history" /\ todo[s] = <<>>
  /\ mutex[BranchOf[s]] = Free
  /\ mutex' = [mutex EXCEPT ![BranchOf[s]] = s]
  /\ todo' = [todo EXCEPT ![s] = Delta(BranchOf[s], first[s])]
  /\ Goto(s, "delta")
  /\ UNCHANGED <<serverVars, first, direct, joined, commitVars, hook, sent, listed,
                 timeout, upsets>>

\* Mutant: the mutex is not given back by a failure
FailureKeepsMutex(s) ==
  /\ handler[s] = "delta"
  /\ SendNext(s, "failed")
  /\ UNCHANGED <<runtime, forwarder, http, header, got, cmds, subs, log, first, joined,
                 commitVars, hook, sent, mutex, listed, timeout, upsets>>

\* A failure inside with_mutex gives the mutex back
SendDelta(s) ==
  /\ handler[s] = "delta"
  /\ SendNext(s, "failed")
  /\ mutex' = IF Sent(s) THEN mutex ELSE [mutex EXCEPT ![BranchOf[s]] = Free]
  /\ UNCHANGED <<runtime, forwarder, http, header, got, cmds, subs, log, first, joined,
                 commitVars, hook, sent, listed, timeout, upsets>>

\* appserver_broadcast_subscribe clones the sender, fails without one, ...
GetSender(s) ==
  /\ handler[s] = "delta" /\ todo[s] = <<>>
  /\ IF s \in senders
     THEN Goto(s, "subscribe") /\ UNCHANGED mutex
     ELSE Goto(s, "failed") /\ mutex' = [mutex EXCEPT ![BranchOf[s]] = Free]
  /\ UNCHANGED <<serverVars, first, todo, direct, joined, commitVars, hook, sent,
                 listed, timeout, upsets>>

\* ... and queues the subscription; then commit_stream/3 is asserted
Register(s) ==
  /\ handler[s] = "subscribe"
  /\ Push(<<Subscribe(BranchOf[s], s)>>)
  /\ joined' = [joined EXCEPT ![s] = Len(log[BranchOf[s]])]
  /\ listed' = listed \cup {s}
  /\ mutex' = [mutex EXCEPT ![BranchOf[s]] = Free]
  /\ Goto(s, "done")
  /\ UNCHANGED <<runtime, http, senders, chan, header, got, subs, log, first, todo,
                 direct, commitVars, hook, sent, timeout, upsets>>

\* The goal of the handler failed: worker_loop sends an error and closes the stream
HandlerFailed(s) ==
  /\ handler[s] = "failed"
  /\ SendAndClose(s, Answer("failed"))
  /\ Goto(s, "done")
  /\ UNCHANGED <<runtime, forwarder, http, header, got, cmds, subs, log, first, todo,
                 direct, joined, commitVars, hook, sent, mutex, listed, timeout, upsets>>

\* An exception while the catch-up is read or sent: stream_commit_data cleans up
HandlerThrows(s) ==
  /\ upsets < MaxUpsets
  /\ handler[s] \in {"phase1", "history", "delta"}
  /\ upsets' = upsets + 1
  /\ mutex' = IF handler[s] = "delta" THEN [mutex EXCEPT ![BranchOf[s]] = Free] ELSE mutex
  /\ listed' = listed \ {s}
  /\ Push(<<UnsubscribeAll(s)>>)
  /\ senders' = senders \ {s}
  /\ Goto(s, "done")
  /\ UNCHANGED <<runtime, http, chan, header, got, subs, log, first, todo, direct,
                 joined, commitVars, hook, sent, timeout>>

-------------------------------------------------------------------------------
(* The end of a stream *)

\* Mutants: the stream stays on the list; its subscription stays
StaysListed(ss) ==
  /\ UNCHANGED listed
  /\ Push(SetToSeq({Unsubscribe(BranchOf[s], s) : s \in ss \cap listed}))
  /\ senders' = senders \ (ss \cap listed)

StaysSubscribed(ss) ==
  /\ listed' = listed \ ss
  /\ UNCHANGED <<forwarder, cmds>>
  /\ senders' = senders \ (ss \cap listed)

\* retract_stream of those that are listed (retract/1 lets one caller win)
RetractStreams(ss) ==
  /\ listed' = listed \ ss
  /\ Push(SetToSeq({Unsubscribe(BranchOf[s], s) : s \in ss \cap listed}))
  /\ senders' = senders \ (ss \cap listed)

TimeoutFires(s) ==
  /\ timeout[s] = "running"
  /\ timeout' = [timeout EXCEPT ![s] = "fired"]
  /\ RetractStreams({s})
  /\ UNCHANGED <<runtime, http, chan, header, got, subs, log, handlerVars, commitVars,
                 hook, sent, mutex, upsets>>

-------------------------------------------------------------------------------
(* Commits and their hook *)

\* A commit is visible on the branch before its hook runs
Commit(b) ==
  /\ made < MaxCommits
  /\ made' = made + 1
  /\ history' = [history EXCEPT ![b] = Append(@, made + 1)]
  /\ hook' = [hook EXCEPT ![made + 1] = Committed(b)]
  /\ UNCHANGED <<serverVars, handlerVars, sent, mutex, listed, timeout, upsets>>

\* The branch is reset to the commit before its head
ResetBranch(b) ==
  /\ upsets < MaxUpsets /\ Len(history[b]) > 1
  /\ upsets' = upsets + 1
  /\ history' = [history EXCEPT ![b] = Front(@)]
  /\ UNCHANGED <<serverVars, handlerVars, made, hook, sent, mutex, listed, timeout>>

\* The hook has run: again, for the next validation of the transaction, or not
Ran(c) == [hook EXCEPT ![c].left = @ - 1,
                       ![c].at = IF hook[c].left > 1 THEN "sweep" ELSE "done"]

\* broadcast_commit_events: retract the streams the server does not know; then
\* send_to_branch_streams: the fast path, before the event is built
SweepAndCheck(c) ==
  /\ hook[c].at = "sweep"
  /\ RetractStreams({s \in listed : ~StreamExists(s)})
  /\ hook' = IF Contains(sent[hook[c].branch], c) THEN Ran(c)
             ELSE [hook EXCEPT ![c].at = "broadcast"]
  /\ UNCHANGED <<runtime, http, chan, header, got, subs, log, handlerVars, commitVars,
                 sent, mutex, timeout, upsets>>

\* cleanup_old_broadcasts keeps the newest entries of the branch
Remember(notices, c) ==
  LET all == Append(notices, c)
  IN SubSeq(all, Len(all) - Min({Len(all), KeptNotices}) + 1, Len(all))

\* ... and, under the mutex, the check again and the broadcast
BroadcastCommit(c) ==
  /\ hook[c].at = "broadcast"
  /\ mutex[hook[c].branch] = Free
  /\ LET b == hook[c].branch IN
       IF Contains(sent[b], c) THEN UNCHANGED <<sent, forwarder, cmds, log>>
       ELSE /\ sent' = [sent EXCEPT ![b] = Remember(@, c)]
            /\ Push(<<Broadcast(b, c)>>)
            /\ log' = [log EXCEPT ![b] = Append(@, c)]
  /\ hook' = Ran(c)
  /\ UNCHANGED <<runtime, http, senders, chan, header, got, subs, handlerVars,
                 commitVars, mutex, listed, timeout, upsets>>

-------------------------------------------------------------------------------
\* Clones of senders between get_sender and subscribe
Held == {s \in Streams : handler[s] = "subscribe"}

Server ==
  /\ ServerStep(Held)
  /\ UNCHANGED <<handlerVars, commitVars, hook, sent, mutex, listed, timeout, upsets>>

HandlerStep(s) ==
  \/ SendHeader(s) \/ SetupTimeout(s) \/ ReadHistory(s) \/ SendHistorical(s)
  \/ BeginPhase2(s) \/ SendDelta(s) \/ GetSender(s) \/ Register(s)
  \/ HandlerFailed(s) \/ HandlerThrows(s)

HookStep(c) == SweepAndCheck(c) \/ BroadcastCommit(c)

Next ==
  \/ Server
  \/ \E s \in Streams : HandlerStep(s) \/ TimeoutFires(s)
  \/ \E b \in Channels : Commit(b) \/ ResetBranch(b)
  \/ \E c \in Commits : HookStep(c)

Spec == Init /\ [][Next]_vars

\* Threads and tasks run; no client has to read, to stay, or to leave
Fairness ==
  /\ WF_vars(Forward /\ Server)
  /\ \A s \in Streams :
       /\ WF_vars(HandlerStep(s) /\ ~HandlerThrows(s))
       /\ WF_vars(TimeoutFires(s))
  /\ \A k \in Channels \X Streams :
       WF_vars(Server /\ (TaskReceives(k) \/ TaskSends(k)))
  /\ \A c \in Commits : WF_vars(HookStep(c))

LiveSpec == Spec /\ Fairness

-------------------------------------------------------------------------------
Mutual == \A b \in Channels : mutex[b] # Free =>
            mutex[b] \in Streams /\ handler[mutex[b]] \in {"delta", "subscribe"}

\* The shapes of the variables, the capacities of the buffers, and the holder of a
\* broadcast mutex as the handler that is in its second phase.
TypeOK ==
  /\ ServerTypeOK
  /\ \A b \in Channels : history[b] \in Seq(Commits) /\ sent[b] \in Seq(Commits)
  /\ made \in Commits
  /\ \A c \in Commits : hook[c].at \in {"none", "sweep", "broadcast", "done"}
  /\ handler \in [Streams -> {"none", "timeout", "phase1", "history", "delta",
                              "subscribe", "failed", "done"}]
  /\ listed \subseteq Streams
  /\ timeout \in [Streams -> {"none", "running", "fired"}]
  /\ Mutual

\* What a client was given is, without omission or repetition, a beginning of the
\* commits its handler sent followed by the broadcasts queued after its subscription,
\* and at the end perhaps the error of its handler: a slow client may be cut off, but it
\* never misses one event and gets the next (run_forwarder, subscriber_task, StreamGuard,
\* stream_commit_data).
CatchupThenLive ==
  \A s \in Streams :
    LET live == IF joined[s] = Nothing THEN <<>>
                ELSE SubSeq(log[BranchOf[s]], joined[s] + 1, Len(log[BranchOf[s]]))
        expected == direct[s] \o live
    IN \A i \in DOMAIN got[s] :
         \/ i \in DOMAIN expected /\ got[s][i] = Event(expected[i])
         \/ i = Len(got[s]) /\ got[s][i] = Answer("failed")

\* The first chunk of a response, which becomes its status and headers, is never an
\* event: nothing is sent to a stream and the stream is on no channel before its
\* handler has answered (dispatch_stream_request would read it as headers).
HeaderComesFirst ==
  \A s \in Streams : header[s] # Nothing => header[s].type = "answer"

\* The plugin never lists a stream whose sender is gone while its response is still
\* open: the three ways to close a stream take it off the list first.
ListedStreamsAreOpen ==
  \A s \in listed : s \notin senders => ~ReceiverIsOpen(s)

\* The plugin, the server and the client agree on a stream: the variables have their
\* types, a response begins with its header, and a listed stream can be sent to
StreamsAgree == TypeOK /\ HeaderComesFirst /\ ListedStreamsAreOpen

\* A commit is never held up by the listeners: its hook ends although no client
\* reads, and although handlers hold the mutex of the branch while they send.
CommitsAreNeverHeldUp ==
  \A c \in Commits : (hook[c].at # "none") ~> (hook[c].at = "done")

\* The timeout of a registered stream ends it: nobody keeps a sender, so that the
\* client, once it has read what is left, is told that the stream is over.
TimeoutReleasesStream ==
  \A s \in Streams :
    (s \in listed /\ timeout[s] = "running") ~> ~HasSender(s, Held)

\* What sweep_stale_streams promises: only a stream that the server has cleaned up
\* is taken off the list before its timeout.
OnlyStaleAreSwept ==
  [][\A s \in listed \ listed' : timeout'[s] # timeout[s] \/ s \notin senders]_vars
===============================================================================
