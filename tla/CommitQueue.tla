----------------------------- MODULE CommitQueue -----------------------------
(***************************************************************************)
(* The commit queue of src/core/document/commit_queue.pl: producers (HTTP   *)
(* requests, background optimizers) put packages on a queue per branch, and *)
(* a pool of multi purpose workers drains the queues.  Dynamic facts of the *)
(* Prolog database are the variables; a section under commit_scheduler_mutex *)
(* is one step; what runs outside of it is a step of its own.               *)
(***************************************************************************)
EXTENDS Integers, Sequences, FiniteSets, SequencesExt

CONSTANTS
  Workers,          \* threads created by start_workers/1
  Branches,         \* branch keys
  Databases,        \* database keys
  DatabaseOf,       \* branch_key_database_key/2
  Packages,         \* one per request
  BranchOf,         \* the branch_key of a package
  Answers,          \* results delivered to a requester
  Deferrable,       \* optimize_when_idle packages without a reply queue
  ProducerTimeout,  \* TERMINUSDB_COMMIT_QUEUE_TIMEOUT is set
  JobsMayFail,      \* a job may fail (in the Prolog sense) without an answer
  MaxSchedules,     \* bound: optimizations scheduled in one behaviour
  MaxCrashes,       \* bound: worker threads lost to an uncaught exception
  MaxStops,         \* bound: calls of stop_workers/0
  NoBranch, NoPackage, NoWorker, NoAnswer

ASSUME DatabaseOfAssumption == DatabaseOf \in [Branches -> Databases]
ASSUME BranchOfAssumption == BranchOf \in [Packages -> Branches]
ASSUME DeferrableAssumption == Deferrable \subseteq Packages
ASSUME SwitchAssumption == ProducerTimeout \in BOOLEAN /\ JobsMayFail \in BOOLEAN
ASSUME BoundAssumption ==
  MaxSchedules \in Nat /\ MaxCrashes \in Nat /\ MaxStops \in Nat
ASSUME NullAssumption ==
  /\ NoBranch \notin Branches
  /\ NoPackage \notin Packages
  /\ NoWorker \notin Workers
  /\ NoAnswer \notin Answers
ASSUME WorkersFinite == IsFiniteSet(Workers)

VARIABLES
  queue,        \* the message queue of each branch
  pending,      \* pending_branches/1
  age,          \* branches with a pending_branch_age/2 fact
  active,       \* active_branch/2 facts: pairs of a branch and a worker
  branchLock,   \* holder of the mutex of each branch
  activeCount,  \* database_active_branch_count/2
  tracked,      \* databases for which the activeCount fact exists
  branchOpt,    \* pending_branch_optimization and its _due fact
  databaseOpt,  \* pending_database_optimization and its _due fact
  globalOpt,    \* pending_global_optimization and its _due fact
  hook,         \* schedule_database_optimization calls between read and write
  mailbox,      \* messages in the thread queue of each worker
  pc,           \* where each worker thread is
  work,         \* the branch a worker has picked
  job,          \* the package a worker runs
  tasks,        \* optimizations collected by requeue_branch
  after,        \* where the worker continues when requeue_branch is done
  client,       \* where each producer is
  reply,        \* content of each reply queue
  shouldStop,   \* multi_purpose_workers_should_stop/0
  registered,   \* multi_purpose_worker_thread/1
  schedules, crashes, stops   \* counters of the bounds

schedulerVars == <<pending, age, active, activeCount, tracked>>
optVars == <<branchOpt, databaseOpt, globalOpt, hook>>
threadVars == <<pc, work, job, tasks, after>>
clientVars == <<client, reply>>
poolVars == <<shouldStop, registered, schedules, crashes, stops>>
vars == <<queue, branchLock, mailbox, schedulerVars, optVars, threadVars,
          clientVars, poolVars>>

OptState == {"none", "pending", "due"}
Locations == {"top", "pick", "lock", "take", "run", "deferRegister", "deferWake",
              "release", "requeue", "optimize", "global", "globalOptimize",
              "idle", "exit", "dead"}
ClientStates == {"idle", "sent", "registered", "waiting", "answered", "gaveUp", "detached"}

QueueTypes ==
  /\ queue \in [Branches -> Seq(Packages)]
  /\ branchLock \in [Branches -> Workers \cup {NoWorker}]
  /\ mailbox \in [Workers -> Nat]
SchedulerTypes ==
  /\ pending \in Seq(Branches)
  /\ age \in SUBSET Branches
  /\ active \in SUBSET (Branches \X Workers)
  /\ activeCount \in [Databases -> Int]
  /\ tracked \in SUBSET Databases
OptTypes ==
  /\ branchOpt \in [Branches -> OptState]
  /\ databaseOpt \in [Databases -> OptState]
  /\ globalOpt \in [Databases -> OptState]
  /\ hook \in [Databases -> {"none", "tracked", "global"}]
ThreadTypes ==
  /\ pc \in [Workers -> Locations]
  /\ work \in [Workers -> Branches \cup {NoBranch}]
  /\ job \in [Workers -> Packages \cup {NoPackage}]
  /\ tasks \in [Workers -> SUBSET {"branch", "database"}]
  /\ after \in [Workers -> {"top", "global", "exit"}]
ClientTypes ==
  /\ client \in [Packages -> ClientStates]
  /\ reply \in [Packages -> Answers \cup {NoAnswer}]
PoolTypes ==
  /\ shouldStop \in BOOLEAN
  /\ registered \in SUBSET Workers
  /\ schedules \in Nat /\ crashes \in Nat /\ stops \in Nat
TypeOK ==
  QueueTypes /\ SchedulerTypes /\ OptTypes /\ ThreadTypes /\ ClientTypes /\ PoolTypes

Init ==
  /\ queue = [b \in Branches |-> <<>>]
  /\ pending = <<>>
  /\ age = {}
  /\ active = {}
  /\ branchLock = [b \in Branches |-> NoWorker]
  /\ activeCount = [d \in Databases |-> 0]
  /\ tracked = {}
  /\ branchOpt = [b \in Branches |-> "none"]
  /\ databaseOpt = [d \in Databases |-> "none"]
  /\ globalOpt = [d \in Databases |-> "none"]
  /\ hook = [d \in Databases |-> "none"]
  /\ mailbox = [w \in Workers |-> 0]
  /\ pc = [w \in Workers |-> "top"]
  /\ work = [w \in Workers |-> NoBranch]
  /\ job = [w \in Workers |-> NoPackage]
  /\ tasks = [w \in Workers |-> {}]
  /\ after = [w \in Workers |-> "top"]
  /\ client = [p \in Packages |-> "idle"]
  /\ reply = [p \in Packages |-> NoAnswer]
  /\ shouldStop = FALSE
  /\ registered = Workers
  /\ schedules = 0
  /\ crashes = 0
  /\ stops = 0

------------------------------------------------------------------------------
(* Helpers shared by producers and workers *)

Goto(w, location) == pc' = [pc EXCEPT ![w] = location]

Enlist(b, branches) ==
  IF b \in Range(branches) THEN branches ELSE Append(branches, b)

\* Faulty: a worker that is awake needs no message.
WakeSleepers ==
  mailbox' = [w \in Workers |->
                IF w \in registered /\ pc[w] = "idle" THEN mailbox[w] + 1
                                                     ELSE mailbox[w]]

\* Faulty: the work is recorded and nobody is told.
WakeNobody == mailbox' = mailbox

\* A message to a thread that has ended is lost: the error is caught.
WakeWorkers ==
  mailbox' = [w \in Workers |->
                IF w \in registered /\ pc[w] # "dead" THEN mailbox[w] + 1
                                                      ELSE mailbox[w]]

RegisterPendingBranch(b) ==
  /\ age' = age \cup {b}
  /\ pending' = Enlist(b, pending)

\* thread_send_message/2 on the queue of a branch; faulty: a stack.
PutFirst(packages, p) == <<p>> \o packages
Put(packages, p) == Append(packages, p)

IsActive(b) == \E w \in Workers : <<b, w>> \in active

\* A scheduled optimization is recorded; a second one makes it due.
Scheduled(state) == IF state = "none" THEN "pending" ELSE "due"

------------------------------------------------------------------------------
(* Producers *)

\* enqueue_commit/2 up to thread_send_message.
EnqueueSend(p) ==
  /\ client[p] = "idle"
  /\ client' = [client EXCEPT ![p] = "sent"]
  /\ queue' = [queue EXCEPT ![BranchOf[p]] = Put(@, p)]
  /\ UNCHANGED <<reply, branchLock, mailbox, schedulerVars, optVars, threadVars, poolVars>>

EnqueueRegister(p) ==
  /\ client[p] = "sent"
  /\ client' = [client EXCEPT ![p] = "registered"]
  /\ RegisterPendingBranch(BranchOf[p])
  /\ UNCHANGED <<queue, reply, branchLock, mailbox, active, activeCount, tracked,
                 optVars, threadVars, poolVars>>

EnqueueWake(p) ==
  /\ client[p] = "registered"
  /\ client' = [client EXCEPT ![p] = IF p \in Deferrable THEN "detached" ELSE "waiting"]
  /\ WakeWorkers
  /\ UNCHANGED <<queue, reply, branchLock, schedulerVars, optVars, threadVars, poolVars>>

ReceiveResult(p) ==
  /\ client[p] = "waiting"
  /\ reply[p] # NoAnswer
  /\ client' = [client EXCEPT ![p] = "answered"]
  /\ UNCHANGED <<queue, reply, branchLock, mailbox, schedulerVars, optVars, threadVars, poolVars>>

\* The producer stops waiting and destroys its reply queue.
ProducerGivesUp(p) ==
  /\ ProducerTimeout
  /\ client[p] = "waiting"
  /\ reply[p] = NoAnswer
  /\ client' = [client EXCEPT ![p] = "gaveUp"]
  /\ UNCHANGED <<queue, reply, branchLock, mailbox, schedulerVars, optVars, threadVars, poolVars>>

------------------------------------------------------------------------------
(* The loop of a worker *)

LoopTop(w) ==
  /\ pc[w] = "top"
  /\ Goto(w, IF shouldStop THEN "exit" ELSE "pick")
  /\ UNCHANGED <<queue, branchLock, mailbox, work, job, tasks, after,
                 schedulerVars, optVars, clientVars, poolVars>>

\* Faulty: takes the first branch even when another worker is active on it.
FirstPending(i) == i = 1

\* The first pending branch that no worker is active on.
FirstNonActive(i) ==
  /\ i \in DOMAIN pending
  /\ ~IsActive(pending[i])
  /\ \A j \in 1 .. (i - 1) : IsActive(pending[j])

\* increment_database_active_branch_count/1; faulty: forgets the other branches.
CountOverwritten(d) == 1
CountIncremented(d) == IF d \in tracked THEN activeCount[d] + 1 ELSE 1

PickNextBranch(w) ==
  /\ pc[w] = "pick"
  /\ \E i \in DOMAIN pending :
       LET b == pending[i]
           d == DatabaseOf[b] IN
       /\ FirstNonActive(i)
       /\ pending' = RemoveAt(pending, i)
       /\ active' = active \cup {<<b, w>>}
       /\ activeCount' = [activeCount EXCEPT ![d] = CountIncremented(d)]
       /\ tracked' = tracked \cup {d}
       /\ work' = [work EXCEPT ![w] = b]
  /\ Goto(w, "lock")
  /\ UNCHANGED <<queue, branchLock, mailbox, age, job, tasks, after,
                 optVars, clientVars, poolVars>>

NothingToPick(w) ==
  /\ pc[w] = "pick"
  /\ \A i \in DOMAIN pending : IsActive(pending[i])
  /\ Goto(w, "global")
  /\ UNCHANGED <<queue, branchLock, mailbox, work, job, tasks, after,
                 schedulerVars, optVars, clientVars, poolVars>>

\* acquire_branch_lock(BranchKey, [timeout(0)])
TryBranchLock(w) ==
  /\ pc[w] = "lock"
  /\ IF branchLock[work[w]] = NoWorker
     THEN /\ branchLock' = [branchLock EXCEPT ![work[w]] = w]
          /\ Goto(w, "take")
          /\ UNCHANGED after
     ELSE /\ Goto(w, "requeue")
          /\ after' = [after EXCEPT ![w] = "global"]
          /\ UNCHANGED branchLock
  /\ UNCHANGED <<queue, mailbox, work, job, tasks, schedulerVars, optVars,
                 clientVars, poolVars>>

\* The end of process_commit_batch/3: the cleanup releases the lock and requeues
\* the branch, and the loop goes on.
LeaveBatch(w, next) ==
  /\ Goto(w, "release")
  /\ after' = [after EXCEPT ![w] = next]

\* process_commit_batch/3 with the batch size of one.
TakePackage(w) ==
  /\ pc[w] = "take"
  /\ IF queue[work[w]] # <<>>
     THEN /\ job' = [job EXCEPT ![w] = Head(queue[work[w]])]
          /\ queue' = [queue EXCEPT ![work[w]] = Tail(@)]
          /\ Goto(w, "run")
          /\ UNCHANGED after
     ELSE /\ LeaveBatch(w, "global")
          /\ UNCHANGED <<job, queue>>
  /\ UNCHANGED <<branchLock, mailbox, work, tasks, schedulerVars, optVars,
                 clientVars, poolVars>>

Runs(w, p) == pc[w] = "run" /\ job[w] = p

\* An optimization without a requester waits until its branch queue is empty.
MustDefer(w, p) == p \in Deferrable /\ queue[work[w]] # <<>>

\* run_queued_job/1 with its answer.  The send fails, silently, when the
\* producer has destroyed the reply queue or never had one.
RunJob(w) ==
  \E p \in Packages, answer \in Answers :
    /\ Runs(w, p)
    /\ ~MustDefer(w, p)
    /\ reply' = IF p \in Deferrable \/ client[p] = "gaveUp"
                THEN reply ELSE [reply EXCEPT ![p] = answer]
    /\ job' = [job EXCEPT ![w] = NoPackage]
    /\ LeaveBatch(w, "top")
    /\ UNCHANGED <<queue, branchLock, mailbox, client, work, tasks, schedulerVars,
                   optVars, poolVars>>

\* The job fails: process_commit_batch/3 fails with it and nobody is told.
JobFails(w) ==
  \E p \in Packages :
    /\ JobsMayFail
    /\ Runs(w, p)
    /\ ~MustDefer(w, p)
    /\ job' = [job EXCEPT ![w] = NoPackage]
    /\ LeaveBatch(w, "global")
    /\ UNCHANGED <<queue, branchLock, mailbox, work, tasks, schedulerVars,
                   optVars, clientVars, poolVars>>

DeferJob(w) ==
  \E p \in Packages :
    /\ Runs(w, p)
    /\ MustDefer(w, p)
    /\ queue' = [queue EXCEPT ![work[w]] = Put(@, p)]
    /\ job' = [job EXCEPT ![w] = NoPackage]
    /\ Goto(w, "deferRegister")
    /\ UNCHANGED <<branchLock, mailbox, work, tasks, after, schedulerVars,
                   optVars, clientVars, poolVars>>

DeferRegister(w) ==
  /\ pc[w] = "deferRegister"
  /\ RegisterPendingBranch(work[w])
  /\ Goto(w, "deferWake")
  /\ UNCHANGED <<queue, branchLock, mailbox, active, activeCount, tracked, work,
                 job, tasks, after, optVars, clientVars, poolVars>>

DeferWake(w) ==
  /\ pc[w] = "deferWake"
  /\ WakeWorkers
  /\ LeaveBatch(w, "top")
  /\ UNCHANGED <<queue, branchLock, work, job, tasks, schedulerVars, optVars,
                 clientVars, poolVars>>

ReleaseBranchLock(w) ==
  /\ pc[w] = "release"
  /\ branchLock' = [branchLock EXCEPT ![work[w]] = NoWorker]
  /\ Goto(w, "requeue")
  /\ UNCHANGED <<queue, mailbox, work, job, tasks, after, schedulerVars, optVars,
                 clientVars, poolVars>>

\* A branch stays pending while its queue holds a package.  Faulty: only the
\* registrations count.
RegisteredAgain(b) == b \in Range(pending)
MoreWork(b) == b \in Range(pending) \/ queue[b] # <<>>

\* decrement_database_active_branch_count/2 (a negative count would be an error).
CountDecremented(d) == IF d \in tracked THEN activeCount[d] - 1 ELSE 0

\* The age goes with the last pending work.
AgeAfterRequeue(b) == IF MoreWork(b) THEN age \cup {b} ELSE age \ {b}

\* The section of requeue_branch/2 under the scheduler mutex.  Optimizations
\* are collected when the branch has drained and, for the database, when no
\* branch of it is active any more.
RequeueBranch(b, w) ==
  LET d == DatabaseOf[b]
      held == <<b, w>> \in active
      count == IF held THEN CountDecremented(d) ELSE activeCount[d]
      drained == held /\ ~MoreWork(b) /\ branchOpt[b] # "none"
      quiet == held /\ count = 0 /\ databaseOpt[d] # "none"
  IN /\ active' = active \ {<<b, w>>}
     /\ activeCount' = [activeCount EXCEPT ![d] = count]
     /\ tracked' = IF held THEN tracked \cup {d} ELSE tracked
     /\ pending' = IF MoreWork(b) THEN Enlist(b, pending) ELSE pending
     /\ age' = AgeAfterRequeue(b)
     /\ branchOpt' = [branchOpt EXCEPT ![b] = IF drained THEN "none" ELSE @]
     /\ databaseOpt' = [databaseOpt EXCEPT ![d] = IF quiet THEN "none" ELSE @]
     /\ tasks' = [tasks EXCEPT ![w] = (IF drained THEN {"branch"} ELSE {})
                                   \cup (IF quiet THEN {"database"} ELSE {})]

Requeue(w) ==
  /\ pc[w] = "requeue"
  /\ RequeueBranch(work[w], w)
  /\ Goto(w, "optimize")
  /\ UNCHANGED <<queue, branchLock, mailbox, globalOpt, hook, work, job, after,
                 clientVars, poolVars>>

\* run_collected_optimization/2: the branch first; errors are logged.
RunTask(w) ==
  /\ pc[w] = "optimize"
  /\ tasks[w] # {}
  /\ tasks' = [tasks EXCEPT ![w] = IF "branch" \in @ THEN @ \ {"branch"} ELSE {}]
  /\ UNCHANGED <<queue, branchLock, mailbox, pc, work, job, after, schedulerVars,
                 optVars, clientVars, poolVars>>

TasksDone(w) ==
  /\ pc[w] = "optimize"
  /\ tasks[w] = {}
  /\ Goto(w, after[w])
  /\ work' = [work EXCEPT ![w] = NoBranch]
  /\ UNCHANGED <<queue, branchLock, mailbox, job, tasks, after, schedulerVars,
                 optVars, clientVars, poolVars>>

\* try_global_optimization/0: due work first.
TakeGlobalOptimization(w) ==
  /\ pc[w] = "global"
  /\ \E d \in Databases :
       /\ \/ globalOpt[d] = "due"
          \/ globalOpt[d] = "pending" /\ \A e \in Databases : globalOpt[e] # "due"
       /\ globalOpt' = [globalOpt EXCEPT ![d] = "none"]
  /\ Goto(w, "globalOptimize")
  /\ UNCHANGED <<queue, branchLock, mailbox, branchOpt, databaseOpt, hook, work,
                 job, tasks, after, schedulerVars, clientVars, poolVars>>

GlobalOptimizationDone(w) ==
  /\ pc[w] = "globalOptimize"
  /\ Goto(w, "top")
  /\ UNCHANGED <<queue, branchLock, mailbox, work, job, tasks, after,
                 schedulerVars, optVars, clientVars, poolVars>>

NoGlobalOptimization(w) ==
  /\ pc[w] = "global"
  /\ \A d \in Databases : globalOpt[d] = "none"
  /\ Goto(w, "idle")
  /\ UNCHANGED <<queue, branchLock, mailbox, work, job, tasks, after,
                 schedulerVars, optVars, clientVars, poolVars>>

\* idle_worker_wait/0 blocks on the thread queue, without a timeout.
HasMessage(w) == mailbox[w] > 0

WakeUp(w) ==
  /\ pc[w] = "idle"
  /\ HasMessage(w)
  /\ mailbox' = [mailbox EXCEPT ![w] = @ - 1]
  /\ Goto(w, "top")
  /\ UNCHANGED <<queue, branchLock, work, job, tasks, after, schedulerVars,
                 optVars, clientVars, poolVars>>

\* thread_at_exit(cleanup_active_branches_for_worker(Me)).
ExitCleanup(w) ==
  /\ pc[w] = "exit"
  /\ \E b \in Branches :
       /\ <<b, w>> \in active
       /\ RequeueBranch(b, w)
       /\ work' = [work EXCEPT ![w] = b]
  /\ Goto(w, "optimize")
  /\ after' = [after EXCEPT ![w] = "exit"]
  /\ UNCHANGED <<queue, branchLock, mailbox, globalOpt, hook, job, clientVars, poolVars>>

HoldsNoBranch(w) == \A b \in Branches : <<b, w>> \notin active

ThreadEnds(w) ==
  /\ pc[w] = "exit"
  /\ HoldsNoBranch(w)
  /\ Goto(w, "dead")
  /\ UNCHANGED <<queue, branchLock, mailbox, work, job, tasks, after,
                 schedulerVars, optVars, clientVars, poolVars>>

\* An exception that nothing catches ends the thread.  Raised by the trylock it
\* leaves the branch to thread_at_exit; raised by a job (or by the handler of its
\* errors) it unwinds through setup_call_cleanup/3.
Crash(w) ==
  /\ crashes < MaxCrashes
  /\ crashes' = crashes + 1
  /\ \/ /\ pc[w] = "lock"
        /\ Goto(w, "exit")
        /\ UNCHANGED <<job, after>>
     \/ /\ pc[w] = "run"
        /\ LeaveBatch(w, "exit")
        /\ job' = [job EXCEPT ![w] = NoPackage]
  /\ UNCHANGED <<queue, branchLock, mailbox, work, tasks, schedulerVars, optVars,
                 clientVars, shouldStop, registered, schedules, stops>>

------------------------------------------------------------------------------
(* Optimizations scheduled by post commit hooks, and the pool *)

ScheduleBranchOptimization(b) ==
  /\ schedules < MaxSchedules
  /\ schedules' = schedules + 1
  /\ branchOpt' = [branchOpt EXCEPT ![b] = Scheduled(@)]
  /\ WakeWorkers
  /\ UNCHANGED <<queue, branchLock, databaseOpt, globalOpt, hook, schedulerVars,
                 threadVars, clientVars, shouldStop, registered, crashes, stops>>

\* The count is retracted and asserted again while a worker picks or requeues a
\* branch of the database.
CountMayBeMissing(d) ==
  \/ d \notin tracked
  \/ \E w \in Workers : \/ pc[w] = "requeue" /\ DatabaseOf[work[w]] = d
                        \/ pc[w] = "pick" /\ \E i \in DOMAIN pending :
                             FirstNonActive(i) /\ DatabaseOf[pending[i]] = d

\* schedule_database_optimization/1 looks for the count outside of the mutex
\* and then records the optimization in the table this has chosen.
ReadActiveCount(d) ==
  /\ schedules < MaxSchedules
  /\ hook[d] = "none"
  /\ schedules' = schedules + 1
  /\ \E route \in {"tracked", "global"} :
       /\ route = "tracked" => d \in tracked
       /\ route = "global" => CountMayBeMissing(d)
       /\ hook' = [hook EXCEPT ![d] = route]
  /\ UNCHANGED <<queue, branchLock, mailbox, branchOpt, databaseOpt, globalOpt,
                 schedulerVars, threadVars, clientVars, shouldStop, registered,
                 crashes, stops>>

ScheduleDatabaseOptimization(d) ==
  /\ hook[d] # "none"
  /\ IF hook[d] = "tracked"
     THEN /\ databaseOpt' = [databaseOpt EXCEPT ![d] = Scheduled(@)]
          /\ UNCHANGED globalOpt
     ELSE /\ globalOpt' = [globalOpt EXCEPT ![d] = Scheduled(@)]
          /\ UNCHANGED databaseOpt
  /\ hook' = [hook EXCEPT ![d] = "none"]
  /\ WakeWorkers
  /\ UNCHANGED <<queue, branchLock, branchOpt, schedulerVars, threadVars,
                 clientVars, poolVars>>

\* stop_workers/0 up to the messages; then each thread is joined.
StopWorkers ==
  /\ stops < MaxStops
  /\ ~shouldStop
  /\ stops' = stops + 1
  /\ shouldStop' = TRUE
  /\ WakeWorkers
  /\ UNCHANGED <<queue, branchLock, schedulerVars, optVars, threadVars, clientVars,
                 registered, schedules, crashes>>

JoinWorker(w) ==
  /\ shouldStop
  /\ w \in registered
  /\ pc[w] = "dead"
  /\ registered' = registered \ {w}
  /\ UNCHANGED <<queue, branchLock, mailbox, schedulerVars, optVars, threadVars,
                 clientVars, shouldStop, schedules, crashes, stops>>

\* start_workers/1 after the old threads were joined.
StartWorkers ==
  /\ shouldStop
  /\ registered = {}
  /\ shouldStop' = FALSE
  /\ registered' = Workers
  /\ pc' = [w \in Workers |-> "top"]
  /\ mailbox' = [w \in Workers |-> 0]
  /\ UNCHANGED <<queue, branchLock, work, job, tasks, after, schedulerVars,
                 optVars, clientVars, schedules, crashes, stops>>

------------------------------------------------------------------------------
WorkerStep(w) ==
  \/ LoopTop(w) \/ PickNextBranch(w) \/ NothingToPick(w) \/ TryBranchLock(w)
  \/ TakePackage(w) \/ RunJob(w) \/ JobFails(w)
  \/ DeferJob(w) \/ DeferRegister(w) \/ DeferWake(w)
  \/ ReleaseBranchLock(w) \/ Requeue(w) \/ RunTask(w) \/ TasksDone(w)
  \/ TakeGlobalOptimization(w) \/ GlobalOptimizationDone(w) \/ NoGlobalOptimization(w)
  \/ WakeUp(w) \/ ExitCleanup(w) \/ ThreadEnds(w)

ProducerStep(p) == EnqueueRegister(p) \/ EnqueueWake(p) \/ ReceiveResult(p)

Next ==
  \/ \E w \in Workers : WorkerStep(w) \/ Crash(w) \/ JoinWorker(w)
  \/ \E p \in Packages : EnqueueSend(p) \/ ProducerStep(p) \/ ProducerGivesUp(p)
  \/ \E b \in Branches : ScheduleBranchOptimization(b)
  \/ \E d \in Databases : ReadActiveCount(d) \/ ScheduleDatabaseOptimization(d)
  \/ StopWorkers
  \/ StartWorkers

Spec == Init /\ [][Next]_vars

\* Threads run.  Nothing makes a producer send, a hook schedule, a thread crash
\* or the server stop.
Fairness ==
  /\ \A w \in Workers : WF_vars(WorkerStep(w))
  /\ \A p \in Packages : WF_vars(ProducerStep(p))
  /\ \A d \in Databases : WF_vars(ScheduleDatabaseOptimization(d))

FairSpec == Spec /\ Fairness

------------------------------------------------------------------------------
(* Properties *)

\* No two workers hold the same branch and no worker holds two branches.
ActiveIsExclusive ==
  \A f, g \in active : (f[1] = g[1] \/ f[2] = g[2]) => f = g

\* The counter that decides when a database is quiet is the number of its
\* active branches, whatever the interleaving of picks, requeues and exits.
CountIsExact ==
  \A d \in Databases : activeCount[d] = Cardinality({f \in active : DatabaseOf[f[1]] = d})

\* With every variable of its type.
CountersAreExact == TypeOK /\ CountIsExact

\* A package on a queue is never forgotten: its branch is pending, a worker holds
\* it, or a producer (or deferring worker) is about to register it.
NothingStranded ==
  \A b \in Branches : queue[b] # <<>> =>
    \/ b \in Range(pending)
    \/ IsActive(b)
    \/ \E p \in Packages : client[p] = "sent" /\ BranchOf[p] = b

\* The trylock of a worker that has picked a branch always succeeds.
LockFreeWhenTried ==
  \A w \in Workers : pc[w] = "lock" => branchLock[work[w]] = NoWorker

\* Every pending branch has an age, so that pending_commit_stale/1 sees it and
\* workers that prefer elaboration still commit first.
PendingHaveAge == Range(pending) \subseteq age

\* A worker that comes back to the list of pending branches before it sleeps: it is on
\* its way there, has a package in hand, or will find one on the branch it has picked.
\* One that finds the queue of its branch empty goes to sleep without another look.
LooksAgain(w) ==
  \/ pc[w] \in {"top", "pick", "run", "deferRegister", "deferWake", "globalOptimize"}
  \/ pc[w] \in {"lock", "take"} /\ queue[work[w]] # <<>>
  \/ pc[w] \in {"release", "requeue", "optimize"} /\ after[w] = "top"

\* A branch that could be picked is never left to workers that all sleep: one of them
\* will look again or has a message, or a producer is about to send one.  (What a worker
\* owes to the others is lost when it ends in mid work, and messages with the pool.)
Claimable(b) == b \in Range(pending) /\ ~IsActive(b)
NoLostWakeup ==
  ~JobsMayFail /\ crashes = 0 /\ stops = 0 /\ (\E b \in Branches : Claimable(b)) =>
    \/ \E w \in Workers : LooksAgain(w) \/ mailbox[w] > 0
    \/ \E p \in Packages : client[p] \in {"sent", "registered"}

\* Global work is never left by a worker that sleeps, wherever the record was made
\* between two looks at the table, and whoever crashed or was restarted meanwhile.
GlobalWorkIsSeen ==
  (\E d \in Databases : globalOpt[d] # "none") =>
    \A w \in Workers : pc[w] = "idle" => mailbox[w] > 0

\* A thread that has ended holds neither a branch nor a lock.
DeadWorkersHoldNothing ==
  \A w \in Workers : pc[w] = "dead" =>
    \A b \in Branches : <<b, w>> \notin active /\ branchLock[b] # w

\* The locks of branches are sound through crashes and restarts of the pool: a branch has
\* one worker at a time, who finds its mutex free, and a dead one gives back both.
BranchLocksAreSound == ActiveIsExclusive /\ LockFreeWhenTried /\ DeadWorkersHoldNothing

\* A database optimization is collected only when no branch of it is active.
DatabaseOptimizedWhenQuiet ==
  [][\A w \in Workers :
        "database" \in tasks'[w] \ tasks[w] =>
           \A f \in active' : DatabaseOf[f[1]] # DatabaseOf[work'[w]]]_vars

\* Every package sent is answered in the end.
Answered(p) == client[p] \in {"answered", "gaveUp", "detached"}
EveryPackageIsAnswered ==
  \A p \in Packages : client[p] = "sent" ~> Answered(p)

\* The queue implements the service: the packages a branch serves are the jobs of
\* the workers that have picked it.
Service == INSTANCE BranchService WITH
  submitted <- {p \in Packages : client[p] # "idle"},
  waiting <- queue,
  serving <- [b \in Branches |->
                {job[w] : w \in {v \in Workers : work[v] = b /\ job[v] # NoPackage}}],
  answer <- reply
ImplementsService == Service!Spec
==============================================================================
