------------------------------ MODULE RequestPool ------------------------------
(***************************************************************************)
(* A request of a plugin route: dispatch_request_via_pipe opens the pipes  *)
(* and queues it, the dispatcher thread hands it to the next worker of     *)
(* request_worker_pool, the worker answers into the pipe, and a watchdog   *)
(* looks after the workers.  The pipes live in the descriptor table of the *)
(* process, from which every part takes and closes numbers: a number that  *)
(* was closed is given to whoever opens next.                              *)
(***************************************************************************)
EXTENDS Naturals, Sequences, FiniteSets, FiniteSetsExt, SequencesExt

CONSTANTS
  Requests,
  WithBody,     \* requests that carry a body
  BadQuery,     \* requests whose query uri_query_components may refuse
  Workers,      \* 16 in the code
  MaxFds,       \* descriptors the process may open
  QueueSize,    \* room of DISPATCH_QUEUE (1024 in the code)
  MaxUpsets,    \* bound: worker threads that die and clients that go away
  Nothing

ASSUME RequestPoolAssumption ==
  /\ WithBody \subseteq Requests /\ BadQuery \subseteq Requests
  /\ IsFiniteSet(Workers) /\ Workers # {}
  /\ MaxFds \in Nat \ {0} /\ QueueSize \in Nat \ {0} /\ MaxUpsets \in Nat

VARIABLES
  fd,       \* the pipe end behind each descriptor number, or Nothing
  nums,     \* the numbers each request holds: outr, outw, inr, inw
  inpipe,   \* chunks in the input pipe of each request
  outpipe,  \* what was written to the output pipe of each request
  req,      \* where dispatch_request_via_pipe stands for each request
  got,      \* what its client was given
  writer,   \* the blocking task that writes its body
  queue,    \* DISPATCH_QUEUE
  order,    \* worker_queue/1, in the order of the round robin
  inbox,    \* the message queue of each worker
  at,       \* where each worker stands
  work,     \* the request it works on
  dup,      \* the numbers behind its InStream and OutStream
  body,     \* chunks it drained
  starved,  \* requests whose worker found no descriptor left (observed)
  busy,     \* workers with a worker_busy/2 fact
  ready,    \* the queue of the watchdog
  halted,   \* halt(1) was called
  upsets    \* used up of the bound

rustVars == <<req, got, writer, queue>>
poolVars == <<order, inbox, busy, ready, halted>>
workerVars == <<at, work, dup, body, starved>>
pipeVars == <<fd, nums, inpipe, outpipe>>
vars == <<rustVars, poolVars, workerVars, pipeVars, upsets>>

Fds == 1..MaxFds
Chunks == <<"body">>
NoNums == [outr |-> 0, outw |-> 0, inr |-> 0, inw |-> 0]
Finished == {"answered", "failed", "left"}

-------------------------------------------------------------------------------
(* The descriptor table *)

Ends == [of : Requests, pipe : {"in", "out"}, dir : {"read", "write"}]
ASSUME NothingAssumption == Nothing \notin Requests \union Ends

End(r, pipe, dir) == [of |-> r, pipe |-> pipe, dir |-> dir]
Unused == {n \in Fds : fd[n] = Nothing}
\* The number an open is given: the lowest one, others having been given just before
Lowest(given) == Min(Unused \ given)
IsOpen(e) == \E n \in Fds : fd[n] = e
\* The table with the numbers of S closed; closing an unused number does nothing
Closed(S) == [n \in Fds |-> IF n \in S THEN Nothing ELSE fd[n]]

Init ==
  /\ fd = [n \in Fds |-> Nothing]
  /\ nums = [r \in Requests |-> NoNums]
  /\ inpipe = [r \in Requests |-> <<>>] /\ outpipe = [r \in Requests |-> <<>>]
  /\ req = [r \in Requests |-> "new"] /\ got = [r \in Requests |-> <<>>]
  /\ writer = [r \in Requests |-> "none"]
  /\ queue = <<>>
  /\ order = SetToSeq(Workers)
  /\ inbox = [w \in Workers |-> <<>>]
  /\ at = [w \in Workers |-> "idle"] /\ work = [w \in Workers |-> Nothing]
  /\ dup = [w \in Workers |-> [in |-> 0, out |-> 0]]
  /\ body = [w \in Workers |-> <<>>]
  /\ starved = {}
  /\ busy = {} /\ ready = <<>> /\ halted = FALSE
  /\ upsets = 0

-------------------------------------------------------------------------------
(* dispatch_request_via_pipe *)

\* Both pipes are opened, or what was opened is closed and the client gets a 500
OpenPipes(r) ==
  /\ req[r] = "new"
  /\ IF Cardinality(Unused) < (IF r \in WithBody THEN 4 ELSE 2)
     THEN req' = [req EXCEPT ![r] = "failed"] /\ UNCHANGED <<fd, nums>>
     ELSE LET outr == Lowest({})
              outw == Lowest({outr})
              inr == IF r \in WithBody THEN Lowest({outr, outw}) ELSE 0
              inw == IF r \in WithBody THEN Lowest({outr, outw, inr}) ELSE 0
              n == [outr |-> outr, outw |-> outw, inr |-> inr, inw |-> inw]
          IN /\ nums' = [nums EXCEPT ![r] = n]
             /\ fd' = [k \in Fds |->
                  CASE k = n.outr -> End(r, "out", "read")
                    [] k = n.outw -> End(r, "out", "write")
                    [] k = n.inr -> End(r, "in", "read")
                    [] k = n.inw -> End(r, "in", "write")
                    [] OTHER -> fd[k]]
             /\ req' = [req EXCEPT ![r] = "sending"]
  /\ UNCHANGED <<inpipe, outpipe, got, writer, queue, poolVars, workerVars, upsets>>

\* The task waits for room in the queue, then leaves the body to a blocking task
QueueRequest(r) ==
  /\ req[r] = "sending" /\ Len(queue) < QueueSize
  /\ queue' = Append(queue, r)
  /\ req' = [req EXCEPT ![r] = "headers"]
  /\ writer' = [writer EXCEPT ![r] = IF r \in WithBody THEN "writing" ELSE "none"]
  /\ UNCHANGED <<got, pipeVars, poolVars, workerVars, upsets>>

\* The blocking task writes a chunk; after the last one, or when nobody can read
\* any more, its file is dropped
WriteBody(r) ==
  /\ writer[r] = "writing"
  /\ LET sent == Len(inpipe[r]) IN
     IF sent < Len(Chunks) /\ IsOpen(End(r, "in", "read"))
     THEN /\ inpipe' = [inpipe EXCEPT ![r] = Append(@, Chunks[sent + 1])]
          /\ UNCHANGED <<fd, writer>>
     ELSE /\ fd' = Closed({nums[r].inw})
          /\ writer' = [writer EXCEPT ![r] = "done"]
          /\ UNCHANGED inpipe
  /\ UNCHANGED <<nums, outpipe, req, got, queue, poolVars, workerVars, upsets>>

\* The next piece of the answer, and whether the body ends with it: with the piece
\* that fills the Content-Length, or at the end of the pipe
Unread(r) == Len(got[r]) < Len(outpipe[r])
NextPiece(r) == outpipe[r][Len(got[r]) + 1]
BodyEnds(r) ==
  IF Unread(r) THEN NextPiece(r).last ELSE ~IsOpen(End(r, "out", "write"))

\* The headers, then the body; an end before any header is answered with a 500
ReadAnswer(r) ==
  /\ req[r] \in {"headers", "body"}
  /\ Unread(r) \/ BodyEnds(r)
  /\ got' = [got EXCEPT ![r] = IF Unread(r) THEN Append(@, NextPiece(r)) ELSE @]
  /\ req' = [req EXCEPT ![r] =
               IF ~BodyEnds(r) THEN "body"
               ELSE IF Unread(r) \/ req[r] = "body" THEN "answered" ELSE "failed"]
  /\ fd' = IF BodyEnds(r) THEN Closed({nums[r].outr}) ELSE fd
  /\ UNCHANGED <<nums, inpipe, outpipe, writer, queue, poolVars, workerVars, upsets>>

\* axum drops the future of a request whose client went away: the ends it owns are
\* closed.  The numbers of the two others are plain integers in the message, which
\* is dropped with them when the future was waiting for room in the queue
ClientLeaves(r) ==
  /\ req[r] \in {"sending", "headers", "body"} /\ upsets < MaxUpsets
  /\ fd' = Closed({nums[r].outr} \union
                  IF req[r] = "sending" THEN {nums[r].inw} ELSE {})
  /\ req' = [req EXCEPT ![r] = IF req[r] = "sending" THEN "dropped" ELSE "left"]
  /\ upsets' = upsets + 1
  /\ UNCHANGED <<nums, inpipe, outpipe, got, writer, queue, poolVars, workerVars>>

-------------------------------------------------------------------------------
(* The dispatcher thread: dispatch_request/6 *)

\* The worker whose turn it is must be alive; it is marked as busy and sent the work
DispatchRequest(r) ==
  /\ order' = Append(Tail(order), Head(order))
  /\ LET w == Head(order) IN
     IF at[w] = "dead"           \* check_worker_alive
     THEN halted' = TRUE /\ UNCHANGED <<busy, inbox>>
     ELSE /\ busy' = busy \union {w}
          /\ inbox' = [inbox EXCEPT ![w] = Append(@, r)]
          /\ UNCHANGED halted

Dispatch ==
  /\ queue # <<>>
  /\ queue' = Tail(queue)
  /\ DispatchRequest(Head(queue))
  /\ UNCHANGED <<req, got, writer, ready, pipeVars, workerVars, upsets>>

-------------------------------------------------------------------------------
(* A worker: worker_loop/1 and handle_pipe_work/6 *)

Goto(w, l) == at' = [at EXCEPT ![w] = l]
Input(w) == nums[work[w]].inr
Output(w) == nums[work[w]].outw

\* thread_get_message
TakeWork(w) ==
  /\ at[w] = "idle" /\ inbox[w] # <<>>
  /\ work' = [work EXCEPT ![w] = Head(inbox[w])]
  /\ inbox' = [inbox EXCEPT ![w] = Tail(@)]
  /\ body' = [body EXCEPT ![w] = <<>>]
  /\ dup' = [dup EXCEPT ![w] = [in |-> 0, out |-> 0]]
  /\ Goto(w, IF Head(inbox[w]) \in WithBody THEN "open_in" ELSE "open_out")
  /\ UNCHANGED <<starved, order, busy, ready, halted, rustVars, pipeVars, upsets>>

\* The table once the pipe end behind number n has a second number
Duplicated(n) == [fd EXCEPT ![Lowest({})] = fd[n]]

\* appserver_open_fd_stream: the descriptor is duplicated, the setup fails when
\* there is none left, and the cleanup of the call does not run then.  Then
\* build_swi_request_from_dict, an exception of which leaves through the cleanup
OpenStream(w) ==
  /\ at[w] \in {"open_in", "open_out"}
  /\ LET n == IF at[w] = "open_in" THEN Input(w) ELSE Output(w) IN
     IF Unused = {}
     THEN /\ Goto(w, "failed")
          /\ starved' = starved \union {work[w]}
          /\ UNCHANGED <<fd, dup>>
     ELSE /\ UNCHANGED starved
          /\ fd' = Duplicated(n)
          /\ IF at[w] = "open_in"
             THEN dup' = [dup EXCEPT ![w].in = Lowest({})] /\ Goto(w, "drain")
             ELSE /\ dup' = [dup EXCEPT ![w].out = Lowest({})]
                  /\ \/ Goto(w, "run")
                     \/ work[w] \in BadQuery /\ Goto(w, "raised")
  /\ UNCHANGED <<nums, inpipe, outpipe, work, body, rustVars, poolVars, upsets>>

\* drain_pipe_bytes: up to the end of the pipe
DrainBody(w) ==
  /\ at[w] = "drain"
  /\ LET r == work[w] IN
     IF Len(body[w]) < Len(inpipe[r])
     THEN /\ body' = [body EXCEPT ![w] = Append(@, inpipe[r][Len(@) + 1])]
          /\ UNCHANGED at
     ELSE /\ ~IsOpen(End(r, "in", "write"))
          /\ Goto(w, "open_out")
          /\ UNCHANGED body
  /\ UNCHANGED <<work, dup, starved, rustVars, poolVars, pipeVars, upsets>>

\* A write on descriptor n, which fails when it is no end for writing or when
\* nobody can read any more
Written(n, item) ==
  LET e == fd[n] IN
  IF /\ e # Nothing /\ e.pipe = "out" /\ e.dir = "write"
     /\ IsOpen([e EXCEPT !.dir = "read"])
  THEN [outpipe EXCEPT ![e.of] = Append(@, item)] ELSE outpipe

\* The handler writes through its CGI stream: a reply with its length, the first
\* part of an answer of unknown length, its last part, or an error, whose output
\* carries no length.  An error of the write ends in the handler's catch
RunHandler(w) ==
  /\ at[w] \in {"run", "more"}
  /\ \E last \in (IF at[w] = "run" THEN BOOLEAN ELSE {FALSE}) :
       /\ outpipe' = Written(dup[w].out, [by |-> work[w], last |-> last, error |-> FALSE])
       /\ \/ Goto(w, "close")
          \/ at[w] = "run" /\ ~last /\ Goto(w, "more")
  /\ UNCHANGED <<fd, nums, inpipe, work, dup, body, starved, rustVars, poolVars, upsets>>

\* The cleanup closes the streams, then the descriptors they were made from
CloseStreams(w) ==
  /\ at[w] \in {"close", "raised"}
  /\ fd' = Closed({dup[w].in, dup[w].out})
  /\ Goto(w, IF at[w] = "close" THEN "close_fds" ELSE "raised_fds")
  /\ UNCHANGED <<nums, inpipe, outpipe, work, dup, body, starved, rustVars, poolVars, upsets>>

\* Mutants: one of the two is forgotten, or an error is reported afterwards
ClosesOnly(w, number, next) ==
  /\ at[w] \in {"close_fds", "raised_fds"}
  /\ fd' = Closed(number)
  /\ Goto(w, next)
  /\ UNCHANGED <<nums, inpipe, outpipe, work, dup, body, starved, rustVars, poolVars, upsets>>
InputIsForgotten(w) == ClosesOnly(w, {Output(w)}, "signal")
OutputIsForgotten(w) == ClosesOnly(w, {Input(w)}, "signal")
ErrorAfterCleanup(w) == ClosesOnly(w, {Output(w), Input(w)}, "failed")

CloseFds(w) ==
  /\ at[w] \in {"close_fds", "raised_fds"}
  /\ fd' = Closed({Output(w), Input(w)})
  /\ Goto(w, IF at[w] = "close_fds" THEN "signal" ELSE "failed")
  /\ UNCHANGED <<nums, inpipe, outpipe, work, dup, body, starved, rustVars, poolVars, upsets>>

\* safe_write_cgi_error: whatever the number stands for now is duplicated, written
\* and closed again
WriteError(w) ==
  /\ at[w] = "failed"
  /\ outpipe' = IF Unused = {} THEN outpipe
                ELSE Written(Output(w), [by |-> work[w], last |-> FALSE, error |-> TRUE])
  /\ Goto(w, "signal")
  /\ UNCHANGED <<fd, nums, inpipe, work, dup, body, starved, rustVars, poolVars, upsets>>

\* cleanup_worker_state, signal_worker_ready
SignalReady(w) ==
  /\ at[w] = "signal"
  /\ ready' = Append(ready, w)
  /\ work' = [work EXCEPT ![w] = Nothing]
  /\ Goto(w, "idle")
  /\ UNCHANGED <<dup, body, starved, order, inbox, busy, halted, rustVars, pipeVars, upsets>>

\* An error outside of the catches of worker_loop ends the thread
WorkerDies(w) ==
  /\ at[w] \in {"idle", "signal"} /\ upsets < MaxUpsets
  /\ Goto(w, "dead")
  /\ upsets' = upsets + 1
  /\ UNCHANGED <<work, dup, body, starved, order, inbox, busy, ready, halted, rustVars, pipeVars>>

WorkerStep(w) ==
  \/ TakeWork(w) \/ OpenStream(w) \/ DrainBody(w) \/ RunHandler(w)
  \/ CloseStreams(w) \/ CloseFds(w) \/ WriteError(w)
  \/ SignalReady(w)

-------------------------------------------------------------------------------
\* watchdog_loop: a ready message, if there is one, clears the flag of its worker;
\* then a dead worker among the busy ones stops the server
Watchdog ==
  /\ LET left == IF ready = <<>> THEN busy ELSE busy \ {Head(ready)} IN
     /\ ready # <<>> \/ \E w \in busy : at[w] = "dead"
     /\ busy' = left
     /\ halted' = \E w \in left : at[w] = "dead"
  /\ ready' = IF ready = <<>> THEN ready ELSE Tail(ready)
  /\ UNCHANGED <<order, inbox, rustVars, workerVars, pipeVars, upsets>>

RequestStep(r) ==
  OpenPipes(r) \/ QueueRequest(r) \/ WriteBody(r) \/ ReadAnswer(r)

Next ==
  /\ ~halted
  /\ \/ \E r \in Requests : RequestStep(r) \/ ClientLeaves(r)
     \/ Dispatch
     \/ \E w \in Workers : WorkerStep(w) \/ WorkerDies(w)
     \/ Watchdog

Spec == Init /\ [][Next]_vars

\* Tasks, the dispatcher, the workers and the watchdog run; nobody has to leave
\* or to die
Fairness ==
  /\ \A r \in Requests : WF_vars(~halted /\ RequestStep(r))
  /\ WF_vars(~halted /\ Dispatch)
  /\ \A w \in Workers : WF_vars(~halted /\ WorkerStep(w))
  /\ WF_vars(~halted /\ Watchdog)

LiveSpec == Spec /\ Fairness

-------------------------------------------------------------------------------
(* Properties *)

TypeOK ==
  /\ \A n \in Fds : fd[n] \in Ends \union {Nothing}
  /\ \A r \in Requests : \A f \in DOMAIN NoNums : nums[r][f] \in 0..MaxFds
  /\ \A r \in Requests : \A i \in DOMAIN outpipe[r] :
       outpipe[r][i] \in [by : Requests, last : BOOLEAN, error : BOOLEAN]
  /\ \A w \in Workers : work[w] \in Requests \union {Nothing}
  /\ busy \subseteq Workers
  /\ ToSet(order) = Workers /\ Len(order) = Cardinality(Workers)
  /\ halted \in BOOLEAN

\* What a client is given was written for its own request: a number is closed and
\* given away again while others still hold it, yet never written or closed by them
\* (appserver_open_fd_stream, handle_pipe_work).  Excepted is the error of a refused
\* query, which is written after its descriptors are closed (open_fd_for_error)
AnswersAreTheirOwn ==
  \A r \in Requests : \A i \in DOMAIN got[r] :
    got[r][i].by = r \/ (got[r][i].error /\ got[r][i].by \in BadQuery)

\* The handler of a request with a body that is complete has all of it
BodiesAreWhole ==
  \A w \in Workers :
    at[w] = "run" /\ work[w] \in WithBody /\ req[work[w]] # "left" => body[w] = Chunks

\* The requests in flight are apart from each other and from the pool: every number,
\* item and flag has its owner, answers are not mixed up, and bodies are whole
RequestsAreApart == TypeOK /\ AnswersAreTheirOwn /\ BodiesAreWhole

\* Once nobody works for a request its descriptors are free again, except those of
\* a client that left before its request was queued and of a setup that failed
Serves(w, r) == work[w] = r \/ r \in ToSet(inbox[w])
DescriptorsComeBack ==
  \A r \in Requests :
    /\ ~halted /\ req[r] \in Finished /\ r \notin starved /\ writer[r] # "writing"
    /\ r \notin ToSet(queue) /\ \A w \in Workers : ~Serves(w, r)
    => \A n \in Fds : fd[n] # Nothing => fd[n].of # r

\* A queued request is answered, or ends with its client or with the server, unless
\* its worker found no descriptor or died after an earlier ready message had cleared
\* its flag
EveryRequestEnds ==
  \A r \in Requests : req[r] = "headers" ~>
    \/ req[r] \in Finished \/ halted \/ r \in starved
    \/ \E w \in Workers : at[w] = "dead" /\ w \notin busy
===============================================================================
