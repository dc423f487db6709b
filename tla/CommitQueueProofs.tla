-------------------------- MODULE CommitQueueProofs --------------------------
(***************************************************************************)
(* Proofs about the commit queue for any number of workers, branches and   *)
(* packages, in three parts.                                               *)
(*   I.   Types, and who holds what at which location: TypeInv, HoldInv    *)
(*        and what is built on them, each relative to the ones before.     *)
(*   II.  No wake-up is lost: no worker sleeps while global work is        *)
(*        recorded, and a branch that could be picked is never left to     *)
(*        workers that all sleep.  The second is an accounting argument:   *)
(*        each look at the list of pending branches that may be in vain    *)
(*        has been paid for by a producer, who is still to send its        *)
(*        messages or has given one to every worker.                       *)
(*   III. The queue implements the service of BranchService: with its      *)
(*        threads, locks, list of pending branches and messages, every     *)
(*        branch still is a server of its own that takes packages in the   *)
(*        order they were sent, works on one at a time and answers each at *)
(*        most once.                                                       *)
(***************************************************************************)
EXTENDS CommitQueue, SequenceTheorems, FiniteSetTheorems, TLAPS

(* Part I *)

------------------------------------------------------------------------------
(* Sequences *)

\* A sequence without its i-th element: the list of pending branches after a pick.
LEMMA RemoveAtElements ==
  ASSUME NEW S, NEW s \in Seq(S), NEW i \in 1 .. Len(s)
  PROVE  /\ RemoveAt(s, i) \in Seq(S)
         /\ Len(RemoveAt(s, i)) = Len(s) - 1
         /\ \A j \in 1 .. (Len(s) - 1) :
              RemoveAt(s, i)[j] = IF j < i THEN s[j] ELSE s[j + 1]
<1> DEFINE front == SubSeq(s, 1, i - 1)
           back == SubSeq(s, i + 1, Len(s))
<1>1. /\ front \in Seq(S) /\ Len(front) = i - 1
      /\ \A j \in 1 .. (i - 1) : front[j] = s[j]
  OBVIOUS
<1>2. /\ back \in Seq(S) /\ Len(back) = Len(s) - i
      /\ \A j \in 1 .. (Len(s) - i) : back[j] = s[i + j]
  OBVIOUS
<1>3. RemoveAt(s, i) = front \o back
  BY DEF RemoveAt
<1> HIDE DEF front, back
<1>4. /\ front \o back \in Seq(S)
      /\ Len(front \o back) = Len(front) + Len(back)
      /\ \A j \in 1 .. (Len(front) + Len(back)) : (front \o back)[j] =
            IF j <= Len(front) THEN front[j] ELSE back[j - Len(front)]
  BY <1>1, <1>2, ConcatProperties
<1>5. Len(s) \in Nat /\ i \in Int
  OBVIOUS
<1>6. ASSUME NEW j \in 1 .. (Len(s) - 1), j < i
      PROVE  (front \o back)[j] = s[j]
  BY <1>1, <1>2, <1>4, <1>5, <1>6
<1>7. ASSUME NEW j \in 1 .. (Len(s) - 1), ~(j < i)
      PROVE  (front \o back)[j] = s[j + 1]
  <2>1. j \in 1 .. (Len(front) + Len(back)) /\ ~(j <= Len(front))
    BY <1>1, <1>2, <1>5, <1>7
  <2>2. /\ j - Len(front) \in 1 .. (Len(s) - i)
        /\ i + (j - Len(front)) = j + 1
    BY <1>1, <1>5, <1>7
  <2>3. (front \o back)[j] = back[j - Len(front)]
    BY <1>4, <2>1
  <2>4. back[j - Len(front)] = s[i + (j - Len(front))]
    BY <1>2, <2>2
  <2> QED
    BY <2>2, <2>3, <2>4
<1> QED
  BY <1>1, <1>2, <1>3, <1>4, <1>5, <1>6, <1>7

LEMMA RemoveAtProperties ==
  ASSUME NEW S, NEW s \in Seq(S), NEW i \in 1 .. Len(s)
  PROVE  /\ RemoveAt(s, i) \in Seq(S)
         /\ Range(RemoveAt(s, i)) \subseteq Range(s)
         /\ Range(s) \subseteq Range(RemoveAt(s, i)) \cup {s[i]}
<1> DEFINE r == RemoveAt(s, i)
<1>1. /\ r \in Seq(S) /\ Len(r) = Len(s) - 1
      /\ \A j \in 1 .. (Len(s) - 1) : r[j] = IF j < i THEN s[j] ELSE s[j + 1]
  BY RemoveAtElements
<1> HIDE DEF r
<1>2. Range(r) \subseteq Range(s)
  BY <1>1 DEF Range
<1>3. ASSUME NEW k \in 1 .. Len(s), k # i
      PROVE  s[k] \in Range(r)
  <2>1. CASE k < i
    BY <2>1, <1>1 DEF Range
  <2>2. CASE k > i
    <3>1. k - 1 \in 1 .. (Len(s) - 1) /\ r[k - 1] = s[k]
      BY <2>2, <1>1
    <3> QED
      BY <3>1, <1>1 DEF Range
  <2> QED
    BY <1>3, <2>1, <2>2
<1>4. Range(s) \subseteq Range(r) \cup {s[i]}
  BY <1>3 DEF Range
<1> QED
  BY <1>1, <1>2, <1>4 DEF r

\* What register_pending_branch/1 does to the list of pending branches.
LEMMA EnlistProperties ==
  ASSUME NEW S, NEW s \in Seq(S), NEW b \in S
  PROVE  /\ Enlist(b, s) \in Seq(S)
         /\ Range(Enlist(b, s)) = Range(s) \cup {b}
<1>1. CASE b \in Range(s)
  BY <1>1 DEF Enlist
<1>2. CASE b \notin Range(s)
  <2>1. Enlist(b, s) = Append(s, b)
    BY <1>2 DEF Enlist
  <2>2. /\ Append(s, b) \in Seq(S)
        /\ Len(Append(s, b)) = Len(s) + 1
        /\ \A j \in 1 .. Len(s) : Append(s, b)[j] = s[j]
        /\ Append(s, b)[Len(s) + 1] = b
    OBVIOUS
  <2>3. Range(Append(s, b)) = Range(s) \cup {b}
    BY <2>2 DEF Range
  <2> QED
    BY <2>1, <2>2, <2>3
<1> QED
  BY <1>1, <1>2

------------------------------------------------------------------------------
(* Types *)

\* Locations at which a worker has a branch in hand.
HasBranch == {"lock", "take", "run", "deferRegister", "deferWake", "release", "requeue"}

WorkIsABranch == \A w \in Workers : pc[w] \in HasBranch => work[w] \in Branches

TypeInv == TypeOK /\ WorkIsABranch

LEMMA TypeInit == Init => TypeInv
<1> SUFFICES ASSUME Init PROVE TypeInv
  OBVIOUS
<1> USE DEF Init
<1>1. QueueTypes /\ SchedulerTypes
  BY DEF QueueTypes, SchedulerTypes
<1>2. OptTypes /\ ClientTypes
  BY DEF OptTypes, OptState, ClientTypes, ClientStates
<1>3. ThreadTypes /\ PoolTypes /\ WorkIsABranch
  BY BoundAssumption DEF ThreadTypes, Locations, PoolTypes, WorkIsABranch, HasBranch
<1> QED
  BY <1>1, <1>2, <1>3 DEF TypeInv, TypeOK

\* requeue_branch/2 of a branch keeps the types of what it writes.
LEMMA RequeueBranchTypes ==
  ASSUME TypeOK, NEW b \in Branches, NEW w \in Workers, RequeueBranch(b, w)
  PROVE  /\ pending' \in Seq(Branches)
         /\ age' \in SUBSET Branches
         /\ active' \in SUBSET (Branches \X Workers)
         /\ activeCount' \in [Databases -> Int]
         /\ tracked' \in SUBSET Databases
         /\ branchOpt' \in [Branches -> OptState]
         /\ databaseOpt' \in [Databases -> OptState]
         /\ tasks' \in [Workers -> SUBSET {"branch", "database"}]
<1> USE DEF TypeOK, SchedulerTypes, OptTypes, ThreadTypes
<1>1. DatabaseOf[b] \in Databases
  BY DatabaseOfAssumption
<1>2. pending' \in Seq(Branches)
  BY EnlistProperties DEF RequeueBranch
<1>3. age' \in SUBSET Branches /\ active' \in SUBSET (Branches \X Workers)
  BY DEF RequeueBranch, AgeAfterRequeue
<1>4. activeCount' \in [Databases -> Int] /\ tracked' \in SUBSET Databases
  BY <1>1 DEF RequeueBranch, CountDecremented
<1>5. branchOpt' \in [Branches -> OptState] /\ databaseOpt' \in [Databases -> OptState]
  BY <1>1 DEF RequeueBranch, OptState
<1>6. tasks' \in [Workers -> SUBSET {"branch", "database"}]
  BY DEF RequeueBranch
<1> QED
  BY <1>2, <1>3, <1>4, <1>5, <1>6

LEMMA TypeStep == TypeInv /\ [Next]_vars => TypeInv'
<1> SUFFICES ASSUME TypeInv, [Next]_vars PROVE TypeInv'
  OBVIOUS
<1> USE DEF TypeInv, TypeOK, QueueTypes, SchedulerTypes, OptTypes, ThreadTypes,
            ClientTypes, PoolTypes, WorkIsABranch, HasBranch, Locations, Goto,
            schedulerVars, optVars, threadVars, clientVars, poolVars
<1>1. ASSUME NEW p \in Packages, EnqueueSend(p)
      PROVE  TypeInv'
  <2>1. queue' \in [Branches -> Seq(Packages)]
    <3>1. BranchOf[p] \in Branches /\ Append(queue[BranchOf[p]], p) \in Seq(Packages)
      BY BranchOfAssumption
    <3> QED
      BY <1>1, <3>1 DEF EnqueueSend, Put
  <2> QED
    BY <1>1, <2>1 DEF EnqueueSend, ClientStates
<1>2. ASSUME NEW p \in Packages, EnqueueRegister(p)
      PROVE  TypeInv'
  <2>1. BranchOf[p] \in Branches
    BY BranchOfAssumption
  <2>2. pending' \in Seq(Branches) /\ age' \in SUBSET Branches
    BY <1>2, <2>1, EnlistProperties DEF EnqueueRegister, RegisterPendingBranch
  <2>3. client' \in [Packages -> ClientStates]
    BY <1>2 DEF EnqueueRegister, ClientStates
  <2> QED
    BY <1>2, <2>2, <2>3 DEF EnqueueRegister
<1>3. ASSUME NEW p \in Packages, EnqueueWake(p)
      PROVE  TypeInv'
  BY <1>3 DEF EnqueueWake, WakeWorkers, ClientStates
<1>4. ASSUME NEW p \in Packages, ReceiveResult(p) \/ ProducerGivesUp(p)
      PROVE  TypeInv'
  <2>1. client' \in [Packages -> ClientStates]
    <3>1. PICK s \in {"answered", "gaveUp"} : client' = [client EXCEPT ![p] = s]
      BY <1>4 DEF ReceiveResult, ProducerGivesUp
    <3> QED
      BY <3>1 DEF ClientStates
  <2> QED
    BY <1>4, <2>1 DEF ReceiveResult, ProducerGivesUp
<1>5. ASSUME NEW w \in Workers, LoopTop(w) \/ NothingToPick(w)
      PROVE  TypeInv'
  <2>1. PICK location \in {"exit", "pick", "global"} : Goto(w, location)
    BY <1>5 DEF LoopTop, NothingToPick
  <2>2. pc' \in [Workers -> Locations] /\ (work' = work => WorkIsABranch')
    BY <2>1
  <2> QED
    BY <1>5, <2>2 DEF LoopTop, NothingToPick
<1>6. ASSUME NEW w \in Workers, PickNextBranch(w)
      PROVE  TypeInv'
  <2>1. PICK i \in 1 .. Len(pending) :
           /\ pending' = RemoveAt(pending, i)
           /\ active' = active \cup {<<pending[i], w>>}
           /\ activeCount' = [activeCount EXCEPT
                                ![DatabaseOf[pending[i]]] = CountIncremented(DatabaseOf[pending[i]])]
           /\ tracked' = tracked \cup {DatabaseOf[pending[i]]}
           /\ work' = [work EXCEPT ![w] = pending[i]]
    <3>1. DOMAIN pending = 1 .. Len(pending)
      OBVIOUS
    <3> QED
      BY <1>6, <3>1, Zenon DEF PickNextBranch
  <2>2. pending[i] \in Branches /\ DatabaseOf[pending[i]] \in Databases
    BY DatabaseOfAssumption
  <2>3. pending' \in Seq(Branches)
    BY <2>1, RemoveAtProperties
  <2>4. activeCount' \in [Databases -> Int]
    BY <2>1, <2>2 DEF CountIncremented
  <2>5. ThreadTypes' /\ WorkIsABranch'
    BY <1>6, <2>1, <2>2 DEF PickNextBranch
  <2>6. UNCHANGED <<queue, branchLock, mailbox, age, optVars, clientVars, poolVars>>
    BY <1>6 DEF PickNextBranch
  <2>7. SchedulerTypes'
    BY <2>1, <2>2, <2>3, <2>4, <2>6
  <2> QED
    BY <2>5, <2>6, <2>7
<1>7. ASSUME NEW w \in Workers, TryBranchLock(w)
      PROVE  TypeInv'
  <2>1. branchLock' \in [Branches -> Workers \cup {NoWorker}]
    <3>1. \/ branchLock' = [branchLock EXCEPT ![work[w]] = w]
          \/ branchLock' = branchLock
      BY <1>7 DEF TryBranchLock
    <3> QED
      BY <3>1
  <2>2. /\ pc' \in [Workers -> Locations]
        /\ after' \in [Workers -> {"top", "global", "exit"}]
    BY <1>7 DEF TryBranchLock
  <2>3. WorkIsABranch'
    BY <1>7 DEF TryBranchLock
  <2> QED
    BY <1>7, <2>1, <2>2, <2>3 DEF TryBranchLock
<1>8. ASSUME NEW w \in Workers, TakePackage(w)
      PROVE  TypeInv'
  <2>1. /\ queue' \in [Branches -> Seq(Packages)]
        /\ job' \in [Workers -> Packages \cup {NoPackage}]
    <3>1. pc[w] = "take" /\ work[w] \in Branches
      BY <1>8 DEF TakePackage
    <3>2. CASE queue[work[w]] = <<>>
      BY <1>8, <3>1, <3>2 DEF TakePackage
    <3>3. CASE queue[work[w]] # <<>>
      <4>1. /\ Head(queue[work[w]]) \in Packages
            /\ Tail(queue[work[w]]) \in Seq(Packages)
        BY <3>1, <3>3
      <4>2. /\ job' = [job EXCEPT ![w] = Head(queue[work[w]])]
            /\ queue' = [queue EXCEPT ![work[w]] = Tail(queue[work[w]])]
        BY <1>8, <3>1, <3>3 DEF TakePackage
      <4> QED
        BY <4>1, <4>2
    <3> QED
      BY <3>2, <3>3
  <2>2. /\ pc' \in [Workers -> Locations]
        /\ after' \in [Workers -> {"top", "global", "exit"}]
    <3>1. \/ Goto(w, "run") /\ UNCHANGED after
          \/ LeaveBatch(w, "global")
      BY <1>8 DEF TakePackage
    <3> QED
      BY <3>1 DEF LeaveBatch
  <2>3. WorkIsABranch'
    BY <1>8 DEF TakePackage, LeaveBatch
  <2> QED
    BY <1>8, <2>1, <2>2, <2>3 DEF TakePackage
<1>9. ASSUME NEW w \in Workers, RunJob(w) \/ JobFails(w)
      PROVE  TypeInv'
  <2>1. CASE RunJob(w)
    <3>1. reply' \in [Packages -> Answers \cup {NoAnswer}]
      BY <2>1 DEF RunJob
    <3> QED
      BY <2>1, <3>1 DEF RunJob, Runs, LeaveBatch
  <2>2. CASE JobFails(w)
    BY <2>2 DEF JobFails, Runs, LeaveBatch
  <2> QED
    BY <1>9, <2>1, <2>2
<1>10. ASSUME NEW w \in Workers, DeferJob(w)
       PROVE  TypeInv'
  BY <1>10 DEF DeferJob, Put, Runs
<1>11. ASSUME NEW w \in Workers, DeferRegister(w)
       PROVE  TypeInv'
  BY <1>11, EnlistProperties DEF DeferRegister, RegisterPendingBranch
<1>12. ASSUME NEW w \in Workers, DeferWake(w)
       PROVE  TypeInv'
  BY <1>12 DEF DeferWake, WakeWorkers, LeaveBatch
<1>13. ASSUME NEW w \in Workers, ReleaseBranchLock(w)
       PROVE  TypeInv'
  BY <1>13 DEF ReleaseBranchLock
<1>14. ASSUME NEW w \in Workers, Requeue(w)
       PROVE  TypeInv'
  <2>1. work[w] \in Branches /\ RequeueBranch(work[w], w)
    BY <1>14 DEF Requeue
  <2> QED
    BY <1>14, <2>1, RequeueBranchTypes DEF Requeue
<1>15. ASSUME NEW w \in Workers, RunTask(w) \/ TasksDone(w)
       PROVE  TypeInv'
  <2>1. CASE RunTask(w)
    BY <2>1 DEF RunTask
  <2>2. CASE TasksDone(w)
    BY <2>2 DEF TasksDone
  <2> QED
    BY <1>15, <2>1, <2>2
<1>16. ASSUME NEW w \in Workers, TakeGlobalOptimization(w)
       PROVE  TypeInv'
  BY <1>16 DEF TakeGlobalOptimization, OptState
<1>17. ASSUME NEW w \in Workers, GlobalOptimizationDone(w) \/ NoGlobalOptimization(w)
       PROVE  TypeInv'
  <2>1. CASE GlobalOptimizationDone(w)
    BY <2>1 DEF GlobalOptimizationDone
  <2>2. CASE NoGlobalOptimization(w)
    BY <2>2 DEF NoGlobalOptimization
  <2> QED
    BY <1>17, <2>1, <2>2
<1>18. ASSUME NEW w \in Workers, WakeUp(w)
       PROVE  TypeInv'
  BY <1>18 DEF WakeUp, HasMessage
<1>19. ASSUME NEW w \in Workers, ExitCleanup(w)
       PROVE  TypeInv'
  <2>1. PICK b \in Branches : RequeueBranch(b, w) /\ work' = [work EXCEPT ![w] = b]
    BY <1>19 DEF ExitCleanup
  <2> QED
    BY <1>19, <2>1, RequeueBranchTypes DEF ExitCleanup
<1>20. ASSUME NEW w \in Workers, ThreadEnds(w)
       PROVE  TypeInv'
  BY <1>20 DEF ThreadEnds
<1>21. ASSUME NEW w \in Workers, Crash(w)
       PROVE  TypeInv'
  <2>1. CASE pc[w] = "lock"
    <3>1. pc' = [pc EXCEPT ![w] = "exit"] /\ UNCHANGED <<job, after>>
      BY <1>21, <2>1 DEF Crash
    <3> QED
      BY <1>21, <3>1 DEF Crash
  <2>2. CASE pc[w] = "run"
    <3>1. /\ pc' = [pc EXCEPT ![w] = "release"]
          /\ after' = [after EXCEPT ![w] = "exit"]
          /\ job' = [job EXCEPT ![w] = NoPackage]
      BY <1>21, <2>2 DEF Crash, LeaveBatch
    <3> QED
      BY <1>21, <2>2, <3>1 DEF Crash
  <2> QED
    BY <1>21, <2>1, <2>2 DEF Crash
<1>22. ASSUME NEW b \in Branches, ScheduleBranchOptimization(b)
       PROVE  TypeInv'
  BY <1>22 DEF ScheduleBranchOptimization, Scheduled, OptState, WakeWorkers
<1>23. ASSUME NEW d \in Databases, ReadActiveCount(d)
       PROVE  TypeInv'
  BY <1>23 DEF ReadActiveCount
<1>24. ASSUME NEW d \in Databases, ScheduleDatabaseOptimization(d)
       PROVE  TypeInv'
  <2>1. OptTypes'
    <3>1. /\ Scheduled(databaseOpt[d]) \in OptState
          /\ Scheduled(globalOpt[d]) \in OptState
      BY DEF Scheduled, OptState
    <3>2. hook' \in [Databases -> {"none", "tracked", "global"}]
      BY <1>24 DEF ScheduleDatabaseOptimization
    <3>3. /\ databaseOpt' \in [Databases -> OptState]
          /\ globalOpt' \in [Databases -> OptState]
      <4>1. CASE hook[d] = "tracked"
        <5>1. databaseOpt' = [databaseOpt EXCEPT ![d] = Scheduled(databaseOpt[d])] /\ globalOpt' = globalOpt
          BY <1>24, <4>1 DEF ScheduleDatabaseOptimization
        <5> QED
          BY <3>1, <5>1
      <4>2. CASE hook[d] # "tracked"
        <5>1. globalOpt' = [globalOpt EXCEPT ![d] = Scheduled(globalOpt[d])] /\ databaseOpt' = databaseOpt
          BY <1>24, <4>2 DEF ScheduleDatabaseOptimization
        <5> QED
          BY <3>1, <5>1
      <4> QED
        BY <4>1, <4>2
    <3> QED
      BY <1>24, <3>2, <3>3 DEF ScheduleDatabaseOptimization
  <2>2. mailbox' \in [Workers -> Nat]
    BY <1>24 DEF ScheduleDatabaseOptimization, WakeWorkers
  <2> QED
    BY <1>24, <2>1, <2>2 DEF ScheduleDatabaseOptimization
<1>25. ASSUME NEW w \in Workers, JoinWorker(w)
       PROVE  TypeInv'
  BY <1>25 DEF JoinWorker
<1>26. CASE StopWorkers
  BY <1>26 DEF StopWorkers, WakeWorkers
<1>27. CASE StartWorkers
  BY <1>27 DEF StartWorkers
<1>28. CASE UNCHANGED vars
  BY <1>28 DEF vars
<1> QED
  BY <1>1, <1>2, <1>3, <1>4, <1>5, <1>6, <1>7, <1>8, <1>9, <1>10, <1>11, <1>12,
     <1>13, <1>14, <1>15, <1>16, <1>17, <1>18, <1>19, <1>20, <1>21, <1>22, <1>23,
     <1>24, <1>25, <1>26, <1>27, <1>28 DEF Next, WorkerStep, ProducerStep

\* In every behaviour every variable keeps its type and a worker that has a branch
\* in hand has a real one.
THEOREM TypeCorrect == Spec => []TypeOK
<1>1. Spec => []TypeInv
  BY TypeInit, TypeStep, PTL DEF Spec
<1>2. TypeInv => TypeOK
  BY DEF TypeInv
<1> QED
  BY <1>1, <1>2, PTL

------------------------------------------------------------------------------
(* Who holds what *)

\* Locations at which a worker holds the mutex of its branch.
HasLock == {"take", "run", "deferRegister", "deferWake", "release"}

\* The active_branch/2 facts are those of the workers with a branch in hand, and of
\* a thread that was thrown out of the trylock and has not run its exit handler.
ActiveHeld ==
  /\ \A w \in Workers : pc[w] \in HasBranch => <<work[w], w>> \in active
  /\ \A b \in Branches, w \in Workers :
       <<b, w>> \in active => work[w] = b /\ pc[w] \in HasBranch \cup {"exit"}
  /\ \A b \in Branches, v, w \in Workers :
       <<b, v>> \in active /\ <<b, w>> \in active => v = w

LockHeld ==
  \A b \in Branches, w \in Workers :
    branchLock[b] = w <=> pc[w] \in HasLock /\ work[w] = b

JoinedAreDead == \A w \in Workers : w \notin registered => pc[w] = "dead"

HoldInv == ActiveHeld /\ LockHeld /\ JoinedAreDead

\* What the steps below use of the types.
HoldTypes ==
  /\ pc \in [Workers -> Locations]
  /\ work \in [Workers -> Branches \cup {NoBranch}]
  /\ active \in SUBSET (Branches \X Workers)
  /\ branchLock \in [Branches -> Workers \cup {NoWorker}]
  /\ registered \in SUBSET Workers
  /\ WorkIsABranch

LEMMA TypesForHold == TypeInv => HoldTypes
  BY DEF TypeInv, TypeOK, HoldTypes, QueueTypes, SchedulerTypes, ThreadTypes, PoolTypes

\* A step that moves one thread between locations which hold the same things.
LEMMA HoldMove ==
  ASSUME HoldTypes, HoldInv, NEW w \in Workers, NEW location,
         Goto(w, location),
         UNCHANGED <<active, branchLock, work, registered>>,
         pc[w] \notin {"exit", "dead"},
         pc[w] \in HasBranch <=> location \in HasBranch,
         pc[w] \in HasLock <=> location \in HasLock
  PROVE  HoldInv'
<1> USE DEF HoldTypes, HoldInv
<1>1. \A v \in Workers : pc'[v] = IF v = w THEN location ELSE pc[v]
  BY DEF Goto
<1>2. ActiveHeld'
  BY <1>1 DEF ActiveHeld
<1>3. LockHeld'
  BY <1>1 DEF LockHeld
<1>4. JoinedAreDead'
  BY <1>1 DEF JoinedAreDead
<1> QED
  BY <1>2, <1>3, <1>4

LEMMA HoldSame ==
  ASSUME HoldInv, UNCHANGED <<active, branchLock, work, registered, pc>>
  PROVE  HoldInv'
  BY DEF HoldInv, ActiveHeld, LockHeld, JoinedAreDead

\* Giving a branch back, at the end of a batch or when a thread ends.
LEMMA HoldRequeue ==
  ASSUME HoldTypes, HoldInv, NEW w \in Workers, NEW b \in Branches,
         <<b, w>> \in active, pc[w] \notin HasLock,
         Goto(w, "optimize"),
         active' = active \ {<<b, w>>},
         UNCHANGED <<branchLock, work, registered>>
  PROVE  HoldInv'
<1> USE DEF HoldTypes, HoldInv
<1>1. \A v \in Workers : pc'[v] = IF v = w THEN "optimize" ELSE pc[v]
  BY DEF Goto
<1>2. work[w] = b /\ pc[w] # "dead"
  BY DEF ActiveHeld, HasBranch
<1>3. ActiveHeld'
  BY <1>1, <1>2 DEF ActiveHeld, HasBranch
<1>4. LockHeld'
  BY <1>1 DEF LockHeld, HasLock
<1>5. JoinedAreDead'
  BY <1>1, <1>2 DEF JoinedAreDead
<1> QED
  BY <1>3, <1>4, <1>5

LEMMA HoldInit == Init => HoldInv
  BY NullAssumption
     DEF Init, HoldInv, ActiveHeld, LockHeld, JoinedAreDead, HasBranch, HasLock

LEMMA HoldStep == TypeInv /\ HoldInv /\ [Next]_vars => HoldInv'
<1> SUFFICES ASSUME TypeInv, HoldInv, [Next]_vars PROVE HoldInv'
  OBVIOUS
<1>0. HoldTypes
  BY TypesForHold
<1> USE <1>0 DEF schedulerVars, threadVars, poolVars
<1>1. ASSUME NEW p \in Packages, EnqueueSend(p) \/ ProducerStep(p) \/ ProducerGivesUp(p)
      PROVE  HoldInv'
  BY <1>1, HoldSame DEF EnqueueSend, ProducerStep, EnqueueRegister, EnqueueWake,
     ReceiveResult, ProducerGivesUp
<1>2. ASSUME NEW w \in Workers, LoopTop(w)
      PROVE  HoldInv'
  <2>1. PICK location \in {"exit", "pick"} :
          /\ pc[w] = "top" /\ Goto(w, location)
          /\ UNCHANGED <<active, branchLock, work, registered>>
    BY <1>2 DEF LoopTop
  <2> QED
    BY <2>1, HoldMove DEF HasBranch, HasLock
<1>3. ASSUME NEW w \in Workers, PickNextBranch(w)
      PROVE  HoldInv'
  <2>1. PICK i \in 1 .. Len(pending) :
           /\ ~IsActive(pending[i])
           /\ active' = active \cup {<<pending[i], w>>}
           /\ work' = [work EXCEPT ![w] = pending[i]]
    <3>1. DOMAIN pending = 1 .. Len(pending)
      BY DEF TypeInv, TypeOK, SchedulerTypes
    <3> QED
      BY <1>3, <3>1, Zenon DEF PickNextBranch, FirstNonActive
  <2>2. PICK b \in Branches :
           /\ \A v \in Workers : <<b, v>> \notin active
           /\ active' = active \cup {<<b, w>>}
           /\ work' = [work EXCEPT ![w] = b]
    <3>1. pending[i] \in Branches
      BY DEF TypeInv, TypeOK, SchedulerTypes
    <3> QED
      BY <2>1, <3>1, Zenon DEF IsActive
  <2>3. /\ pc[w] = "pick" /\ pc' = [pc EXCEPT ![w] = "lock"]
        /\ UNCHANGED <<branchLock, registered>>
    BY <1>3 DEF PickNextBranch, Goto
  <2> USE DEF HoldTypes, HoldInv
  <2>4. ActiveHeld'
    BY <2>2, <2>3 DEF ActiveHeld, HasBranch
  <2>5. LockHeld'
    BY <2>2, <2>3 DEF LockHeld, HasLock
  <2>6. JoinedAreDead'
    BY <2>3 DEF JoinedAreDead
  <2> QED
    BY <2>4, <2>5, <2>6
<1>4. ASSUME NEW w \in Workers, NothingToPick(w)
      PROVE  HoldInv'
  <2>1. /\ pc[w] = "pick" /\ Goto(w, "global")
        /\ UNCHANGED <<active, branchLock, work, registered>>
    BY <1>4 DEF NothingToPick
  <2> QED
    BY <2>1, HoldMove DEF HasBranch, HasLock
<1>5. ASSUME NEW w \in Workers, TryBranchLock(w)
      PROVE  HoldInv'
  <2>1. pc[w] = "lock" /\ UNCHANGED <<active, work, registered>> /\ work[w] \in Branches
    BY <1>5 DEF TryBranchLock, HoldTypes, WorkIsABranch, HasBranch
  <2>2. CASE branchLock[work[w]] = NoWorker
    <3>1. /\ branchLock' = [branchLock EXCEPT ![work[w]] = w]
          /\ pc' = [pc EXCEPT ![w] = "take"]
      BY <1>5, <2>2 DEF TryBranchLock, Goto
    <3> USE DEF HoldTypes, HoldInv
    <3>2. ActiveHeld'
      BY <2>1, <3>1 DEF ActiveHeld, HasBranch
    <3>3. LockHeld'
      BY <2>1, <2>2, <3>1, NullAssumption DEF LockHeld, HasLock
    <3>4. JoinedAreDead'
      BY <2>1, <3>1 DEF JoinedAreDead
    <3> QED
      BY <3>2, <3>3, <3>4
  <2>3. CASE branchLock[work[w]] # NoWorker
    <3>1. Goto(w, "requeue") /\ UNCHANGED branchLock
      BY <1>5, <2>3 DEF TryBranchLock
    <3> QED
      BY <2>1, <3>1, HoldMove DEF HasBranch, HasLock
  <2> QED
    BY <2>2, <2>3
<1>6. ASSUME NEW w \in Workers, TakePackage(w)
      PROVE  HoldInv'
  <2>1. PICK location \in {"run", "release"} :
          /\ pc[w] = "take" /\ Goto(w, location)
          /\ UNCHANGED <<active, branchLock, work, registered>>
    BY <1>6 DEF TakePackage, LeaveBatch
  <2> QED
    BY <2>1, HoldMove DEF HasBranch, HasLock
<1>7. ASSUME NEW w \in Workers, RunJob(w) \/ JobFails(w)
      PROVE  HoldInv'
  <2>1. /\ pc[w] = "run" /\ Goto(w, "release")
        /\ UNCHANGED <<active, branchLock, work, registered>>
    BY <1>7 DEF RunJob, JobFails, Runs, LeaveBatch
  <2> QED
    BY <2>1, HoldMove DEF HasBranch, HasLock
<1>8. ASSUME NEW w \in Workers, DeferJob(w)
      PROVE  HoldInv'
  <2>1. /\ pc[w] = "run" /\ Goto(w, "deferRegister")
        /\ UNCHANGED <<active, branchLock, work, registered>>
    BY <1>8 DEF DeferJob, Runs
  <2> QED
    BY <2>1, HoldMove DEF HasBranch, HasLock
<1>9. ASSUME NEW w \in Workers, DeferRegister(w)
      PROVE  HoldInv'
  <2>1. /\ pc[w] = "deferRegister" /\ Goto(w, "deferWake")
        /\ UNCHANGED <<active, branchLock, work, registered>>
    BY <1>9 DEF DeferRegister
  <2> QED
    BY <2>1, HoldMove DEF HasBranch, HasLock
<1>10. ASSUME NEW w \in Workers, DeferWake(w)
      PROVE  HoldInv'
  <2>1. /\ pc[w] = "deferWake" /\ Goto(w, "release")
        /\ UNCHANGED <<active, branchLock, work, registered>>
    BY <1>10 DEF DeferWake, LeaveBatch
  <2> QED
    BY <2>1, HoldMove DEF HasBranch, HasLock
<1>11. ASSUME NEW w \in Workers, ReleaseBranchLock(w)
      PROVE  HoldInv'
  <2>1. /\ pc[w] = "release" /\ pc' = [pc EXCEPT ![w] = "requeue"]
        /\ branchLock' = [branchLock EXCEPT ![work[w]] = NoWorker]
        /\ UNCHANGED <<active, work, registered>>
        /\ work[w] \in Branches
    BY <1>11 DEF ReleaseBranchLock, Goto, HoldTypes, WorkIsABranch, HasBranch
  <2> USE DEF HoldTypes, HoldInv
  <2>2. ActiveHeld'
    BY <2>1 DEF ActiveHeld, HasBranch
  <2>3. \A v \in Workers : branchLock[work[w]] = v => v = w
    BY <2>1 DEF LockHeld, HasLock
  <2>4. LockHeld'
    BY <2>1, <2>3, NullAssumption DEF LockHeld, HasLock
  <2>5. JoinedAreDead'
    BY <2>1 DEF JoinedAreDead
  <2> QED
    BY <2>2, <2>4, <2>5
<1>12. ASSUME NEW w \in Workers, Requeue(w)
      PROVE  HoldInv'
  <2>1. /\ pc[w] = "requeue" /\ Goto(w, "optimize")
        /\ active' = active \ {<<work[w], w>>}
        /\ UNCHANGED <<branchLock, work, registered>>
    BY <1>12 DEF Requeue, RequeueBranch
  <2>2. work[w] \in Branches /\ <<work[w], w>> \in active
    BY <2>1 DEF HoldTypes, WorkIsABranch, HasBranch, HoldInv, ActiveHeld
  <2> QED
    BY <2>1, <2>2, HoldRequeue DEF HasLock
<1>13. ASSUME NEW w \in Workers, RunTask(w)
      PROVE  HoldInv'
  BY <1>13, HoldSame DEF RunTask
<1>14. ASSUME NEW w \in Workers, TasksDone(w)
      PROVE  HoldInv'
  <2>1. /\ pc[w] = "optimize" /\ pc' = [pc EXCEPT ![w] = after[w]]
        /\ after[w] \in {"top", "global", "exit"}
        /\ work' = [work EXCEPT ![w] = NoBranch]
        /\ UNCHANGED <<active, branchLock, registered>>
    BY <1>14 DEF TasksDone, Goto, TypeInv, TypeOK, ThreadTypes
  <2> USE DEF HoldTypes, HoldInv
  <2>2. ActiveHeld'
    BY <2>1 DEF ActiveHeld, HasBranch
  <2>3. LockHeld'
    BY <2>1 DEF LockHeld, HasLock
  <2>4. JoinedAreDead'
    BY <2>1 DEF JoinedAreDead
  <2> QED
    BY <2>2, <2>3, <2>4
<1>15. ASSUME NEW w \in Workers, TakeGlobalOptimization(w) \/ NoGlobalOptimization(w)
      PROVE  HoldInv'
  <2>1. PICK location \in {"globalOptimize", "idle"} :
          /\ pc[w] = "global" /\ Goto(w, location)
          /\ UNCHANGED <<active, branchLock, work, registered>>
    BY <1>15 DEF TakeGlobalOptimization, NoGlobalOptimization
  <2> QED
    BY <2>1, HoldMove DEF HasBranch, HasLock
<1>16. ASSUME NEW w \in Workers, GlobalOptimizationDone(w)
      PROVE  HoldInv'
  <2>1. /\ pc[w] = "globalOptimize" /\ Goto(w, "top")
        /\ UNCHANGED <<active, branchLock, work, registered>>
    BY <1>16 DEF GlobalOptimizationDone
  <2> QED
    BY <2>1, HoldMove DEF HasBranch, HasLock
<1>17. ASSUME NEW w \in Workers, WakeUp(w)
      PROVE  HoldInv'
  <2>1. /\ pc[w] = "idle" /\ Goto(w, "top")
        /\ UNCHANGED <<active, branchLock, work, registered>>
    BY <1>17 DEF WakeUp
  <2> QED
    BY <2>1, HoldMove DEF HasBranch, HasLock
<1>18. ASSUME NEW w \in Workers, ExitCleanup(w)
      PROVE  HoldInv'
  <2>1. PICK b \in Branches :
          /\ <<b, w>> \in active
          /\ active' = active \ {<<b, w>>}
          /\ work' = [work EXCEPT ![w] = b]
    BY <1>18 DEF ExitCleanup, RequeueBranch
  <2>2. /\ pc[w] = "exit" /\ Goto(w, "optimize")
        /\ UNCHANGED <<branchLock, registered>>
    BY <1>18 DEF ExitCleanup
  <2>3. work[w] = b
    BY <2>1 DEF HoldInv, ActiveHeld
  <2>4. work' = work
    BY <2>1, <2>3 DEF HoldTypes
  <2> QED
    BY <2>1, <2>2, <2>4, HoldRequeue DEF HasLock
<1>19. ASSUME NEW w \in Workers, ThreadEnds(w)
      PROVE  HoldInv'
  <2>1. /\ pc[w] = "exit" /\ pc' = [pc EXCEPT ![w] = "dead"]
        /\ \A b \in Branches : <<b, w>> \notin active
        /\ UNCHANGED <<active, branchLock, work, registered>>
    BY <1>19 DEF ThreadEnds, Goto, HoldsNoBranch
  <2> USE DEF HoldTypes, HoldInv
  <2>2. ActiveHeld'
    BY <2>1 DEF ActiveHeld, HasBranch
  <2>3. LockHeld'
    BY <2>1 DEF LockHeld, HasLock
  <2>4. JoinedAreDead'
    BY <2>1 DEF JoinedAreDead
  <2> QED
    BY <2>2, <2>3, <2>4
<1>20. ASSUME NEW w \in Workers, Crash(w)
      PROVE  HoldInv'
  <2>1. UNCHANGED <<active, branchLock, work, registered>>
    BY <1>20 DEF Crash
  <2>2. CASE pc[w] = "lock"
    <3>1. pc' = [pc EXCEPT ![w] = "exit"]
      BY <1>20, <2>2 DEF Crash, Goto
    <3> USE DEF HoldTypes, HoldInv
    <3>2. ActiveHeld'
      BY <2>1, <2>2, <3>1 DEF ActiveHeld, HasBranch
    <3>3. LockHeld'
      BY <2>1, <2>2, <3>1 DEF LockHeld, HasLock
    <3>4. JoinedAreDead'
      BY <2>1, <2>2, <3>1 DEF JoinedAreDead
    <3> QED
      BY <3>2, <3>3, <3>4
  <2>3. CASE pc[w] = "run"
    <3>1. Goto(w, "release")
      BY <1>20, <2>3 DEF Crash, LeaveBatch
    <3> QED
      BY <2>1, <2>3, <3>1, HoldMove DEF HasBranch, HasLock
  <2> QED
    BY <1>20, <2>2, <2>3 DEF Crash
<1>21. ASSUME NEW w \in Workers, JoinWorker(w)
      PROVE  HoldInv'
  <2>1. /\ pc[w] = "dead" /\ registered' = registered \ {w}
        /\ UNCHANGED <<active, branchLock, work, pc>>
    BY <1>21 DEF JoinWorker
  <2> QED
    BY <2>1 DEF HoldTypes, HoldInv, ActiveHeld, LockHeld, JoinedAreDead
<1>22. CASE StartWorkers
  <2>1. /\ registered = {} /\ registered' = Workers
        /\ pc' = [w \in Workers |-> "top"]
        /\ UNCHANGED <<active, branchLock, work>>
    BY <1>22 DEF StartWorkers
  <2>2. \A w \in Workers : pc[w] = "dead"
    BY <2>1 DEF HoldInv, JoinedAreDead
  <2> QED
    BY <2>1, <2>2 DEF HoldTypes, HoldInv, ActiveHeld, LockHeld, JoinedAreDead,
       HasBranch, HasLock
<1>23. ASSUME NEW b \in Branches, ScheduleBranchOptimization(b)
      PROVE  HoldInv'
  BY <1>23, HoldSame DEF ScheduleBranchOptimization
<1>24. ASSUME NEW d \in Databases, ReadActiveCount(d) \/ ScheduleDatabaseOptimization(d)
      PROVE  HoldInv'
  BY <1>24, HoldSame DEF ReadActiveCount, ScheduleDatabaseOptimization
<1>25. CASE StopWorkers \/ UNCHANGED vars
  BY <1>25, HoldSame DEF StopWorkers, vars
<1> QED
  BY <1>1, <1>2, <1>3, <1>4, <1>5, <1>6, <1>7, <1>8, <1>9, <1>10, <1>11, <1>12,
     <1>13, <1>14, <1>15, <1>16, <1>17, <1>18, <1>19, <1>20, <1>21, <1>22, <1>23, <1>24, <1>25 DEF Next, WorkerStep, ProducerStep

LEMMA HoldCorrect == Spec => [](TypeInv /\ HoldInv)
<1>1. Init => TypeInv /\ HoldInv
  BY TypeInit, HoldInit
<1>2. TypeInv /\ HoldInv /\ [Next]_vars => TypeInv' /\ HoldInv'
  BY TypeStep, HoldStep
<1> QED
  BY <1>1, <1>2, PTL DEF Spec

LEMMA HoldExclusive == TypeInv /\ HoldInv => ActiveIsExclusive
<1> SUFFICES ASSUME TypeInv, HoldInv,
                    NEW f \in active, NEW g \in active,
                    f[1] = g[1] \/ f[2] = g[2]
             PROVE  f = g
  BY DEF ActiveIsExclusive
<1>1. PICK b \in Branches, v \in Workers : f = <<b, v>>
  BY TypesForHold DEF HoldTypes
<1>2. PICK c \in Branches, w \in Workers : g = <<c, w>>
  BY TypesForHold DEF HoldTypes
<1>3. b = c /\ v = w
  BY <1>1, <1>2 DEF HoldInv, ActiveHeld
<1> QED
  BY <1>1, <1>2, <1>3

\* No two workers hold the same branch and no worker holds two: the mutex around
\* pick_next_branch/2 and requeue_branch/2, with the exit handler, is enough.
THEOREM ActiveExclusive == Spec => []ActiveIsExclusive
  BY HoldExclusive, HoldCorrect, PTL

LEMMA HoldLockFree == TypeInv /\ HoldInv => LockFreeWhenTried
<1> SUFFICES ASSUME TypeInv, HoldInv, NEW w \in Workers, pc[w] = "lock"
             PROVE  branchLock[work[w]] = NoWorker
  BY DEF LockFreeWhenTried
<1>1. HoldTypes
  BY TypesForHold
<1>2. work[w] \in Branches /\ <<work[w], w>> \in active
  BY <1>1 DEF HoldTypes, WorkIsABranch, HasBranch, HoldInv, ActiveHeld
<1>3. ASSUME NEW v \in Workers, branchLock[work[w]] = v
      PROVE  FALSE
  <2>1. pc[v] \in HasLock /\ work[v] = work[w]
    BY <1>2, <1>3 DEF HoldInv, LockHeld
  <2>2. <<work[w], v>> \in active
    BY <2>1 DEF HasLock, HasBranch, HoldInv, ActiveHeld
  <2>3. v = w
    BY <1>2, <2>2 DEF HoldInv, ActiveHeld
  <2> QED
    BY <2>1, <2>3 DEF HasLock
<1> QED
  BY <1>1, <1>2, <1>3 DEF HoldTypes

\* The trylock of try_commit_work/0 finds the mutex of the branch it has picked free,
\* so the path that requeues a branch with its lock held elsewhere is never taken.
THEOREM LockFree == Spec => []LockFreeWhenTried
  BY HoldLockFree, HoldCorrect, PTL

\* A thread that has ended, by stop_workers/0 or by an exception, holds neither a
\* branch nor a mutex: thread_at_exit and the cleanup handlers give back everything.
THEOREM DeadHoldNothing == Spec => []DeadWorkersHoldNothing
<1>1. TypeInv /\ HoldInv => DeadWorkersHoldNothing
  BY DEF DeadWorkersHoldNothing, HoldInv, ActiveHeld, LockHeld, HasBranch, HasLock
<1> QED
  BY <1>1, HoldCorrect, PTL

\* The locks of branches are sound, for any number of workers, branches, crashes and
\* restarts of the pool.
THEOREM BranchLocksSound == Spec => []BranchLocksAreSound
<1>1. ActiveIsExclusive /\ LockFreeWhenTried /\ DeadWorkersHoldNothing => BranchLocksAreSound
  BY DEF BranchLocksAreSound
<1> QED
  BY <1>1, ActiveExclusive, LockFree, DeadHoldNothing, PTL

------------------------------------------------------------------------------
(* Nothing queued is forgotten *)

\* What the steps below use of the types.
PendingTypes ==
  /\ queue \in [Branches -> Seq(Packages)]
  /\ pending \in Seq(Branches)
  /\ client \in [Packages -> ClientStates]
  /\ active \in SUBSET (Branches \X Workers)

LEMMA TypesForPending == TypeInv => PendingTypes
  BY DEF TypeInv, TypeOK, PendingTypes, QueueTypes, SchedulerTypes, ClientTypes

LEMMA PendingInit == Init => NothingStranded /\ PendingHaveAge
  BY DEF Init, NothingStranded, PendingHaveAge, Range

LEMMA PendingSame ==
  ASSUME NothingStranded, PendingHaveAge,
         UNCHANGED <<queue, pending, age, active, client>>
  PROVE  NothingStranded' /\ PendingHaveAge'
  BY DEF NothingStranded, PendingHaveAge, IsActive

\* register_pending_branch/1, with the branch of a package that was sent.
LEMMA PendingRegister ==
  ASSUME PendingTypes, NothingStranded, PendingHaveAge,
         NEW b \in Branches, RegisterPendingBranch(b),
         UNCHANGED <<queue, active>>,
         \A p \in Packages : client[p] = "sent" => client'[p] = "sent" \/ BranchOf[p] = b
  PROVE  NothingStranded' /\ PendingHaveAge'
<1>1. Range(pending') = Range(pending) \cup {b}
  BY EnlistProperties DEF RegisterPendingBranch, PendingTypes
<1>2. NothingStranded'
  BY <1>1 DEF NothingStranded, IsActive
<1>3. PendingHaveAge'
  BY <1>1 DEF PendingHaveAge, RegisterPendingBranch
<1> QED
  BY <1>2, <1>3

\* requeue_branch/2: a branch whose queue holds a package is pending afterwards.
LEMMA PendingRequeue ==
  ASSUME PendingTypes, NothingStranded, PendingHaveAge,
         NEW b \in Branches, NEW w \in Workers, RequeueBranch(b, w),
         UNCHANGED <<queue, client>>
  PROVE  NothingStranded' /\ PendingHaveAge'
<1>1. active' = active \ {<<b, w>>}
  BY DEF RequeueBranch
<1>2. CASE MoreWork(b)
  <2>1. Range(pending') = Range(pending) \cup {b}
    BY <1>2, EnlistProperties DEF RequeueBranch, PendingTypes
  <2>2. NothingStranded'
    BY <1>1, <2>1 DEF NothingStranded, IsActive
  <2>3. PendingHaveAge'
    BY <1>2, <2>1 DEF PendingHaveAge, RequeueBranch, AgeAfterRequeue
  <2> QED
    BY <2>2, <2>3
<1>3. CASE ~MoreWork(b)
  <2>1. pending' = pending /\ queue[b] = <<>> /\ b \notin Range(pending)
    BY <1>3 DEF RequeueBranch, MoreWork
  <2>2. NothingStranded'
    BY <1>1, <2>1 DEF NothingStranded, IsActive
  <2>3. PendingHaveAge'
    BY <1>3, <2>1 DEF PendingHaveAge, RequeueBranch, AgeAfterRequeue
  <2> QED
    BY <2>2, <2>3
<1> QED
  BY <1>2, <1>3

LEMMA PendingStep ==
  TypeInv /\ HoldInv /\ NothingStranded /\ PendingHaveAge /\ [Next]_vars
    => NothingStranded' /\ PendingHaveAge'
<1> SUFFICES ASSUME TypeInv, HoldInv, NothingStranded, PendingHaveAge, [Next]_vars
             PROVE  NothingStranded' /\ PendingHaveAge'
  OBVIOUS
<1>0. PendingTypes /\ HoldTypes
  BY TypesForPending, TypesForHold
<1> USE <1>0 DEF schedulerVars
<1>1. ASSUME NEW p \in Packages, EnqueueSend(p)
      PROVE  NothingStranded' /\ PendingHaveAge'
  <2>1. /\ BranchOf[p] \in Branches
        /\ queue' = [queue EXCEPT ![BranchOf[p]] = Append(queue[BranchOf[p]], p)]
        /\ client' = [client EXCEPT ![p] = "sent"]
        /\ UNCHANGED <<pending, age, active>>
    BY <1>1, BranchOfAssumption DEF EnqueueSend, Put
  <2>2. /\ client'[p] = "sent"
        /\ \A q \in Packages : client[q] = "sent" => client'[q] = "sent"
        /\ \A b \in Branches : b # BranchOf[p] => queue'[b] = queue[b]
    BY <2>1 DEF PendingTypes
  <2>3. NothingStranded'
    BY <2>1, <2>2 DEF NothingStranded, IsActive
  <2> QED
    BY <2>1, <2>3 DEF PendingHaveAge
<1>2. ASSUME NEW p \in Packages, EnqueueRegister(p)
      PROVE  NothingStranded' /\ PendingHaveAge'
  <2>1. BranchOf[p] \in Branches
    BY BranchOfAssumption
  <2>2. \A q \in Packages : client[q] = "sent" => client'[q] = "sent" \/ q = p
    BY <1>2 DEF EnqueueRegister, PendingTypes
  <2> QED
    BY <1>2, <2>1, <2>2, PendingRegister DEF EnqueueRegister
<1>3. ASSUME NEW p \in Packages, EnqueueWake(p) \/ ReceiveResult(p) \/ ProducerGivesUp(p)
      PROVE  NothingStranded' /\ PendingHaveAge'
  <2>1. /\ UNCHANGED <<queue, pending, age, active>>
        /\ \A q \in Packages : client[q] = "sent" => client'[q] = "sent"
    BY <1>3 DEF EnqueueWake, ReceiveResult, ProducerGivesUp, PendingTypes
  <2> QED
    BY <2>1 DEF NothingStranded, PendingHaveAge, IsActive
<1>4. ASSUME NEW w \in Workers, PickNextBranch(w)
      PROVE  NothingStranded' /\ PendingHaveAge'
  <2>1. PICK i \in 1 .. Len(pending) :
           /\ pending' = RemoveAt(pending, i)
           /\ active' = active \cup {<<pending[i], w>>}
    <3>1. DOMAIN pending = 1 .. Len(pending)
      BY DEF PendingTypes
    <3> QED
      BY <1>4, <3>1, Zenon DEF PickNextBranch
  <2>2. /\ Range(pending') \subseteq Range(pending)
        /\ Range(pending) \subseteq Range(pending') \cup {pending[i]}
    BY <2>1, RemoveAtProperties DEF PendingTypes
  <2>3. UNCHANGED <<queue, age, client>>
    BY <1>4 DEF PickNextBranch, clientVars
  <2>4. NothingStranded'
    BY <2>1, <2>2, <2>3 DEF NothingStranded, IsActive
  <2> QED
    BY <2>2, <2>3, <2>4 DEF PendingHaveAge
<1>5. ASSUME NEW w \in Workers, TakePackage(w)
      PROVE  NothingStranded' /\ PendingHaveAge'
  <2>1. UNCHANGED <<pending, age, active, client>>
    BY <1>5 DEF TakePackage, clientVars
  <2>2. \A b \in Branches : queue'[b] # <<>> => queue[b] # <<>>
    BY <1>5 DEF TakePackage, PendingTypes
  <2> QED
    BY <2>1, <2>2 DEF NothingStranded, PendingHaveAge, IsActive
<1>6. ASSUME NEW w \in Workers, DeferJob(w)
      PROVE  NothingStranded' /\ PendingHaveAge'
  <2>1. UNCHANGED <<pending, age, active, client>>
    BY <1>6 DEF DeferJob, clientVars
  <2>2. queue[work[w]] # <<>>
    BY <1>6 DEF DeferJob, MustDefer
  <2>3. \A b \in Branches : queue'[b] # <<>> => queue[b] # <<>>
    BY <1>6, <2>2 DEF DeferJob, PendingTypes
  <2> QED
    BY <2>1, <2>3 DEF NothingStranded, PendingHaveAge, IsActive
<1>7. ASSUME NEW w \in Workers, DeferRegister(w)
      PROVE  NothingStranded' /\ PendingHaveAge'
  <2>1. work[w] \in Branches
    BY <1>7 DEF DeferRegister, HoldTypes, WorkIsABranch, HasBranch
  <2> QED
    BY <1>7, <2>1, PendingRegister DEF DeferRegister, clientVars
<1>8. ASSUME NEW w \in Workers, Requeue(w)
      PROVE  NothingStranded' /\ PendingHaveAge'
  <2>1. work[w] \in Branches
    BY <1>8 DEF Requeue, HoldTypes, WorkIsABranch, HasBranch
  <2> QED
    BY <1>8, <2>1, PendingRequeue DEF Requeue, clientVars
<1>9. ASSUME NEW w \in Workers, ExitCleanup(w)
      PROVE  NothingStranded' /\ PendingHaveAge'
  BY <1>9, PendingRequeue DEF ExitCleanup, clientVars
<1>10. ASSUME NEW w \in Workers,
              \/ LoopTop(w) \/ NothingToPick(w) \/ TryBranchLock(w) \/ RunJob(w)
              \/ JobFails(w) \/ DeferWake(w) \/ ReleaseBranchLock(w) \/ RunTask(w)
              \/ TasksDone(w) \/ TakeGlobalOptimization(w) \/ GlobalOptimizationDone(w)
              \/ NoGlobalOptimization(w) \/ WakeUp(w) \/ ThreadEnds(w) \/ Crash(w)
              \/ JoinWorker(w)
       PROVE  NothingStranded' /\ PendingHaveAge'
  <2>1. UNCHANGED <<queue, pending, age, active, client>>
    BY <1>10 DEF clientVars, LoopTop, NothingToPick, TryBranchLock, RunJob, JobFails,
       DeferWake, ReleaseBranchLock, RunTask, TasksDone, TakeGlobalOptimization,
       GlobalOptimizationDone, NoGlobalOptimization, WakeUp, ThreadEnds, Crash, JoinWorker
  <2> QED
    BY <2>1, PendingSame
<1>11. CASE \/ StopWorkers \/ StartWorkers \/ UNCHANGED vars
            \/ \E b \in Branches : ScheduleBranchOptimization(b)
            \/ \E d \in Databases : ReadActiveCount(d) \/ ScheduleDatabaseOptimization(d)
  <2>1. UNCHANGED <<queue, pending, age, active, client>>
    BY <1>11 DEF clientVars, vars, StopWorkers, StartWorkers, ScheduleBranchOptimization,
       ReadActiveCount, ScheduleDatabaseOptimization
  <2> QED
    BY <2>1, PendingSame
<1> QED
  BY <1>1, <1>2, <1>3, <1>4, <1>5, <1>6, <1>7, <1>8, <1>9, <1>10, <1>11
     DEF Next, WorkerStep, ProducerStep

LEMMA PendingCorrect == Spec => [](NothingStranded /\ PendingHaveAge)
<1>1. Init => TypeInv /\ HoldInv /\ NothingStranded /\ PendingHaveAge
  BY TypeInit, HoldInit, PendingInit
<1>2. TypeInv /\ HoldInv /\ NothingStranded /\ PendingHaveAge /\ [Next]_vars
        => TypeInv' /\ HoldInv' /\ NothingStranded' /\ PendingHaveAge'
  BY TypeStep, HoldStep, PendingStep
<1> QED
  BY <1>1, <1>2, PTL DEF Spec

\* A queued package is never forgotten, whatever the interleaving of its two step
\* enqueue with picks, requeues, deferrals and the exit of threads.
THEOREM NeverStranded == Spec => []NothingStranded
  BY PendingCorrect, PTL

\* Every pending branch has an age, so pending_commit_stale/1 sees all waiting work.
THEOREM PendingAged == Spec => []PendingHaveAge
  BY PendingCorrect, PTL

------------------------------------------------------------------------------
(* The count of active branches *)

ActiveOf(d, facts) == {f \in facts : DatabaseOf[f[1]] = d}

\* A database whose fact is missing has no active branch.
CountInv ==
  /\ IsFiniteSet(active)
  /\ CountIsExact
  /\ \A d \in Databases : d \notin tracked => activeCount[d] = 0

\* What the steps below use of the types.
CountTypes ==
  /\ pending \in Seq(Branches)
  /\ active \in SUBSET (Branches \X Workers)
  /\ activeCount \in [Databases -> Int]
  /\ tracked \in SUBSET Databases
  /\ tasks \in [Workers -> SUBSET {"branch", "database"}]

LEMMA TypesForCount == TypeInv => CountTypes
  BY DEF TypeInv, TypeOK, CountTypes, SchedulerTypes, ThreadTypes

LEMMA CountInit == Init => CountInv
<1> SUFFICES ASSUME Init PROVE CountInv
  OBVIOUS
<1>1. IsFiniteSet(active)
  BY FS_EmptySet DEF Init
<1>2. CountIsExact
  <2>1. \A d \in Databases : {f \in active : DatabaseOf[f[1]] = d} = {}
    BY DEF Init
  <2> QED
    BY <2>1, FS_EmptySet DEF Init, CountIsExact
<1> QED
  BY <1>1, <1>2 DEF Init, CountInv

LEMMA CountSame ==
  ASSUME CountInv, UNCHANGED <<active, activeCount, tracked>>
  PROVE  CountInv'
  BY DEF CountInv, CountIsExact

\* A fact more or less changes the count of its own database, by one.
LEMMA FactAdded ==
  ASSUME IsFiniteSet(active), NEW b, NEW w, <<b, w>> \notin active, NEW d \in Databases
  PROVE  Cardinality(ActiveOf(d, active \cup {<<b, w>>})) =
           IF DatabaseOf[b] = d THEN Cardinality(ActiveOf(d, active)) + 1
                                ELSE Cardinality(ActiveOf(d, active))
<1>1. IsFiniteSet(ActiveOf(d, active)) /\ <<b, w>> \notin ActiveOf(d, active)
  BY FS_Subset DEF ActiveOf
<1>2. CASE DatabaseOf[b] = d
  <2>1. ActiveOf(d, active \cup {<<b, w>>}) = ActiveOf(d, active) \cup {<<b, w>>}
    BY <1>2 DEF ActiveOf
  <2>2. Cardinality(ActiveOf(d, active) \cup {<<b, w>>}) = Cardinality(ActiveOf(d, active)) + 1
    BY <1>1, FS_AddElement, Zenon
  <2> QED
    BY <1>2, <2>1, <2>2
<1>3. CASE DatabaseOf[b] # d
  <2>1. ActiveOf(d, active \cup {<<b, w>>}) = ActiveOf(d, active)
    BY <1>3 DEF ActiveOf
  <2> QED
    BY <1>3, <2>1
<1> QED
  BY <1>2, <1>3

LEMMA FactRemoved ==
  ASSUME IsFiniteSet(active), NEW b, NEW w, <<b, w>> \in active, NEW d \in Databases
  PROVE  Cardinality(ActiveOf(d, active \ {<<b, w>>})) =
           IF DatabaseOf[b] = d THEN Cardinality(ActiveOf(d, active)) - 1
                                ELSE Cardinality(ActiveOf(d, active))
<1>1. IsFiniteSet(ActiveOf(d, active))
  BY FS_Subset DEF ActiveOf
<1>2. CASE DatabaseOf[b] = d
  <2>1. /\ ActiveOf(d, active \ {<<b, w>>}) = ActiveOf(d, active) \ {<<b, w>>}
        /\ <<b, w>> \in ActiveOf(d, active)
    BY <1>2 DEF ActiveOf
  <2>2. Cardinality(ActiveOf(d, active) \ {<<b, w>>}) = Cardinality(ActiveOf(d, active)) - 1
    BY <1>1, <2>1, FS_RemoveElement, Zenon
  <2> QED
    BY <1>2, <2>1, <2>2
<1>3. CASE DatabaseOf[b] # d
  <2>1. ActiveOf(d, active \ {<<b, w>>}) = ActiveOf(d, active)
    BY <1>3 DEF ActiveOf
  <2> QED
    BY <1>3, <2>1
<1> QED
  BY <1>2, <1>3

\* pick_next_branch/2, with the count of the database of the branch.
LEMMA CountPick ==
  ASSUME CountTypes, CountInv, NEW b \in Branches, NEW w \in Workers,
         <<b, w>> \notin active,
         active' = active \cup {<<b, w>>},
         activeCount' = [activeCount EXCEPT ![DatabaseOf[b]] = CountIncremented(DatabaseOf[b])],
         tracked' = tracked \cup {DatabaseOf[b]}
  PROVE  CountInv'
<1>1. IsFiniteSet(active')
  BY FS_AddElement DEF CountInv
<1>2. ASSUME NEW d \in Databases
      PROVE  activeCount'[d] = Cardinality(ActiveOf(d, active'))
  <2>1. activeCount[d] = Cardinality(ActiveOf(d, active))
    BY DEF CountInv, CountIsExact, ActiveOf
  <2>2. activeCount'[d] = IF DatabaseOf[b] = d THEN activeCount[d] + 1 ELSE activeCount[d]
    BY DatabaseOfAssumption DEF CountIncremented, CountInv, CountTypes
  <2> QED
    BY <2>1, <2>2, FactAdded DEF CountInv
<1>3. CountIsExact'
  BY <1>2 DEF CountIsExact, ActiveOf
<1>4. \A d \in Databases : d \notin tracked' => activeCount'[d] = 0
  BY DEF CountInv, CountTypes
<1> QED
  BY <1>1, <1>3, <1>4 DEF CountInv

\* requeue_branch/2: the count goes down when the fact was there, and never twice.
LEMMA CountRequeue ==
  ASSUME CountTypes, CountInv, NEW b \in Branches, NEW w \in Workers, RequeueBranch(b, w)
  PROVE  CountInv'
<1> DEFINE d == DatabaseOf[b]
<1>0. d \in Databases
  BY DatabaseOfAssumption
<1>1. CASE <<b, w>> \notin active
  <2>1. UNCHANGED <<active, activeCount, tracked>>
    BY <1>1, <1>0 DEF RequeueBranch, CountTypes
  <2> QED
    BY <2>1, CountSame
<1>2. CASE <<b, w>> \in active
  <2>1. /\ active' = active \ {<<b, w>>}
        /\ activeCount' = [activeCount EXCEPT ![d] = CountDecremented(d)]
        /\ tracked' = tracked \cup {d}
    BY <1>2 DEF RequeueBranch
  <2>2. d \in tracked
    <3>1. IsFiniteSet(ActiveOf(d, active)) /\ <<b, w>> \in ActiveOf(d, active)
      BY <1>2, FS_Subset DEF ActiveOf, CountInv
    <3>2. Cardinality(ActiveOf(d, active)) # 0
      BY <3>1, FS_EmptySet
    <3> QED
      BY <1>0, <3>2 DEF CountInv, CountIsExact, ActiveOf
  <2>3. IsFiniteSet(active')
    BY <2>1, FS_RemoveElement DEF CountInv
  <2>4. ASSUME NEW e \in Databases
        PROVE  activeCount'[e] = Cardinality(ActiveOf(e, active'))
    <3>1. activeCount[e] = Cardinality(ActiveOf(e, active))
      BY DEF CountInv, CountIsExact, ActiveOf
    <3>2. activeCount'[e] = IF d = e THEN activeCount[e] - 1 ELSE activeCount[e]
      BY <2>1, <2>2 DEF CountDecremented, CountTypes
    <3> QED
      BY <1>2, <2>1, <3>1, <3>2, FactRemoved DEF CountInv
  <2>5. CountIsExact'
    BY <2>4 DEF CountIsExact, ActiveOf
  <2>6. \A e \in Databases : e \notin tracked' => activeCount'[e] = 0
    BY <2>1 DEF CountInv, CountTypes
  <2> QED
    BY <2>3, <2>5, <2>6 DEF CountInv
<1> QED
  BY <1>1, <1>2

LEMMA CountStep == TypeInv /\ CountInv /\ [Next]_vars => CountInv'
<1> SUFFICES ASSUME TypeInv, CountInv, [Next]_vars PROVE CountInv'
  OBVIOUS
<1>0. CountTypes /\ HoldTypes
  BY TypesForCount, TypesForHold
<1> USE <1>0 DEF schedulerVars
<1>1. ASSUME NEW w \in Workers, PickNextBranch(w)
      PROVE  CountInv'
  <2>1. PICK i \in 1 .. Len(pending) :
           /\ ~IsActive(pending[i])
           /\ active' = active \cup {<<pending[i], w>>}
           /\ activeCount' = [activeCount EXCEPT
                 ![DatabaseOf[pending[i]]] = CountIncremented(DatabaseOf[pending[i]])]
           /\ tracked' = tracked \cup {DatabaseOf[pending[i]]}
    <3>1. DOMAIN pending = 1 .. Len(pending)
      BY DEF CountTypes
    <3> QED
      BY <1>1, <3>1, Zenon DEF PickNextBranch, FirstNonActive
  <2>2. pending[i] \in Branches
    BY DEF CountTypes
  <2>3. PICK b \in Branches :
           /\ ~IsActive(b)
           /\ active' = active \cup {<<b, w>>}
           /\ activeCount' = [activeCount EXCEPT
                 ![DatabaseOf[b]] = CountIncremented(DatabaseOf[b])]
           /\ tracked' = tracked \cup {DatabaseOf[b]}
    BY <2>1, <2>2, Zenon
  <2>4. <<b, w>> \notin active
    BY <2>3, Zenon DEF IsActive
  <2> QED
    BY <1>0, <2>3, <2>4, CountPick, Zenon
<1>2. ASSUME NEW w \in Workers, Requeue(w)
      PROVE  CountInv'
  <2>1. work[w] \in Branches
    BY <1>2 DEF Requeue, HoldTypes, WorkIsABranch, HasBranch
  <2> QED
    BY <1>2, <2>1, CountRequeue DEF Requeue
<1>3. ASSUME NEW w \in Workers, ExitCleanup(w)
      PROVE  CountInv'
  BY <1>3, CountRequeue DEF ExitCleanup
<1>4. ASSUME NEW w \in Workers,
             \/ LoopTop(w) \/ NothingToPick(w) \/ TryBranchLock(w) \/ TakePackage(w)
             \/ RunJob(w) \/ JobFails(w) \/ DeferJob(w) \/ DeferRegister(w) \/ DeferWake(w)
             \/ ReleaseBranchLock(w) \/ RunTask(w) \/ TasksDone(w)
             \/ TakeGlobalOptimization(w) \/ GlobalOptimizationDone(w)
             \/ NoGlobalOptimization(w) \/ WakeUp(w) \/ ThreadEnds(w) \/ Crash(w)
             \/ JoinWorker(w)
      PROVE  CountInv'
  <2>1. UNCHANGED <<active, activeCount, tracked>>
    BY <1>4 DEF LoopTop, NothingToPick, TryBranchLock, TakePackage, RunJob, JobFails,
       DeferJob, DeferRegister, DeferWake, ReleaseBranchLock, RunTask, TasksDone,
       TakeGlobalOptimization, GlobalOptimizationDone, NoGlobalOptimization, WakeUp,
       ThreadEnds, Crash, JoinWorker
  <2> QED
    BY <2>1, CountSame
<1>5. ASSUME NEW p \in Packages, EnqueueSend(p) \/ ProducerStep(p) \/ ProducerGivesUp(p)
      PROVE  CountInv'
  <2>1. UNCHANGED <<active, activeCount, tracked>>
    BY <1>5 DEF EnqueueSend, ProducerStep, EnqueueRegister, EnqueueWake, ReceiveResult,
       ProducerGivesUp
  <2> QED
    BY <2>1, CountSame
<1>6. CASE \/ StopWorkers \/ StartWorkers \/ UNCHANGED vars
           \/ \E b \in Branches : ScheduleBranchOptimization(b)
           \/ \E d \in Databases : ReadActiveCount(d) \/ ScheduleDatabaseOptimization(d)
  <2>1. UNCHANGED <<active, activeCount, tracked>>
    BY <1>6 DEF vars, StopWorkers, StartWorkers, ScheduleBranchOptimization,
       ReadActiveCount, ScheduleDatabaseOptimization
  <2> QED
    BY <2>1, CountSame
<1> QED
  BY <1>1, <1>2, <1>3, <1>4, <1>5, <1>6 DEF Next, WorkerStep

\* The count that tells a database quiet is the number of its active branches: no
\* interleaving of picks, requeues and exit handlers counts a branch twice.
THEOREM CountExact == Spec => []CountIsExact
<1>1. Init => TypeInv /\ CountInv
  BY TypeInit, CountInit
<1>2. TypeInv /\ CountInv /\ [Next]_vars => TypeInv' /\ CountInv'
  BY TypeStep, CountStep
<1>3. CountInv => CountIsExact
  BY DEF CountInv
<1> QED
  BY <1>1, <1>2, <1>3, PTL DEF Spec

\* The counts are exact and every variable keeps its type.
THEOREM CountersExact == Spec => []CountersAreExact
<1>1. TypeOK /\ CountIsExact => CountersAreExact
  BY DEF CountersAreExact
<1> QED
  BY <1>1, TypeCorrect, CountExact, PTL

\* The optimization of a database is only collected by the step that gives back the
\* last active branch.
LEMMA QuietRequeue ==
  ASSUME CountTypes, CountInv', NEW b \in Branches, NEW w \in Workers,
         RequeueBranch(b, w), "database" \in tasks'[w]
  PROVE  \A f \in active' : DatabaseOf[f[1]] # DatabaseOf[b]
<1> DEFINE d == DatabaseOf[b]
<1>0. d \in Databases
  BY DatabaseOfAssumption
<1>1. activeCount'[d] = 0
  BY <1>0 DEF RequeueBranch, CountTypes
<1>2. IsFiniteSet(ActiveOf(d, active')) /\ Cardinality(ActiveOf(d, active')) = 0
  BY <1>0, <1>1, FS_Subset DEF CountInv, CountIsExact, ActiveOf
<1> QED
  BY <1>2, FS_EmptySet DEF ActiveOf

LEMMA QuietStep ==
  TypeInv /\ CountInv' /\ [Next]_vars =>
    [\A w \in Workers : "database" \in tasks'[w] \ tasks[w] =>
       \A f \in active' : DatabaseOf[f[1]] # DatabaseOf[work'[w]]]_vars
<1> SUFFICES ASSUME TypeInv, CountInv', Next, NEW w \in Workers,
                    "database" \in tasks'[w], "database" \notin tasks[w]
             PROVE  \A f \in active' : DatabaseOf[f[1]] # DatabaseOf[work'[w]]
  OBVIOUS
<1>0. CountTypes /\ HoldTypes
  BY TypesForCount, TypesForHold
<1> USE <1>0
<1>1. ASSUME NEW v \in Workers, Requeue(v)
      PROVE  \A f \in active' : DatabaseOf[f[1]] # DatabaseOf[work'[w]]
  <2>1. work[v] \in Branches /\ work' = work /\ RequeueBranch(work[v], v)
    BY <1>1 DEF Requeue, HoldTypes, WorkIsABranch, HasBranch
  <2>2. v = w
    BY <2>1 DEF RequeueBranch, CountTypes
  <2> QED
    BY <2>1, <2>2, QuietRequeue
<1>2. ASSUME NEW v \in Workers, ExitCleanup(v)
      PROVE  \A f \in active' : DatabaseOf[f[1]] # DatabaseOf[work'[w]]
  <2>1. PICK b \in Branches : RequeueBranch(b, v) /\ work' = [work EXCEPT ![v] = b]
    BY <1>2 DEF ExitCleanup
  <2>2. v = w
    BY <2>1 DEF RequeueBranch, CountTypes
  <2>3. work'[w] = b
    BY <2>1, <2>2 DEF HoldTypes
  <2> QED
    BY <2>1, <2>2, <2>3, QuietRequeue
<1>3. ASSUME NEW v \in Workers, RunTask(v)
      PROVE  FALSE
  BY <1>3 DEF RunTask, CountTypes
<1>4. ASSUME NEW v \in Workers,
             \/ LoopTop(v) \/ PickNextBranch(v) \/ NothingToPick(v) \/ TryBranchLock(v)
             \/ TakePackage(v) \/ RunJob(v) \/ JobFails(v) \/ DeferJob(v)
             \/ DeferRegister(v) \/ DeferWake(v) \/ ReleaseBranchLock(v) \/ TasksDone(v)
             \/ TakeGlobalOptimization(v) \/ GlobalOptimizationDone(v)
             \/ NoGlobalOptimization(v) \/ WakeUp(v) \/ ThreadEnds(v) \/ Crash(v)
             \/ JoinWorker(v)
      PROVE  tasks' = tasks
  BY <1>4 DEF threadVars, LoopTop, PickNextBranch, NothingToPick, TryBranchLock,
     TakePackage, RunJob, JobFails, DeferJob, DeferRegister, DeferWake, ReleaseBranchLock,
     TasksDone, TakeGlobalOptimization, GlobalOptimizationDone, NoGlobalOptimization,
     WakeUp, ThreadEnds, Crash, JoinWorker
<1>5. ASSUME NEW p \in Packages, EnqueueSend(p) \/ ProducerStep(p) \/ ProducerGivesUp(p)
      PROVE  tasks' = tasks
  BY <1>5 DEF threadVars, EnqueueSend, ProducerStep, EnqueueRegister, EnqueueWake,
     ReceiveResult, ProducerGivesUp
<1>6. CASE \/ StopWorkers \/ StartWorkers
           \/ \E b \in Branches : ScheduleBranchOptimization(b)
           \/ \E d \in Databases : ReadActiveCount(d) \/ ScheduleDatabaseOptimization(d)
  <2>1. tasks' = tasks
    BY <1>6 DEF threadVars, StopWorkers, StartWorkers, ScheduleBranchOptimization,
       ReadActiveCount, ScheduleDatabaseOptimization
  <2> QED
    BY <2>1
<1> QED
  BY <1>1, <1>2, <1>3, <1>4, <1>5, <1>6 DEF Next, WorkerStep

\* A database is optimized by the worker that gives back its last active branch,
\* never beside a commit to another branch of it that is still active.
THEOREM OptimizedWhenQuiet == Spec => DatabaseOptimizedWhenQuiet
<1>1. Init => TypeInv /\ CountInv
  BY TypeInit, CountInit
<1>2. TypeInv /\ CountInv /\ [Next]_vars => TypeInv' /\ CountInv'
  BY TypeStep, CountStep
<1> QED
  BY <1>1, <1>2, QuietStep, PTL DEF Spec, DatabaseOptimizedWhenQuiet

(* Part II: no wake-up is lost *)

------------------------------------------------------------------------------
(* Messages *)

\* What the steps below use of the types.
WakeTypes ==
  /\ mailbox \in [Workers -> Nat]
  /\ pc \in [Workers -> Locations]
  /\ client \in [Packages -> ClientStates]
  /\ globalOpt \in [Databases -> OptState]
  /\ after \in [Workers -> {"top", "global", "exit"}]

LEMMA TypesForWake == TypeInv => WakeTypes
  BY DEF TypeInv, TypeOK, WakeTypes, QueueTypes, OptTypes, ThreadTypes, ClientTypes

\* A message to all workers reaches everyone who has not ended.
LEMMA MessageReaches ==
  ASSUME TypeInv, HoldInv, WakeWorkers, NEW w \in Workers
  PROVE  mailbox'[w] = IF pc[w] = "dead" THEN mailbox[w] ELSE mailbox[w] + 1
  BY TypesForWake DEF WakeTypes, WakeWorkers, HoldInv, JoinedAreDead

------------------------------------------------------------------------------
(* Global work *)

LEMMA SeenInit == Init => GlobalWorkIsSeen
  BY DEF Init, GlobalWorkIsSeen

\* A step that records no global work and puts nobody to sleep.
LEMMA SeenSame ==
  ASSUME TypeInv, GlobalWorkIsSeen,
         \A d \in Databases : globalOpt'[d] # "none" => globalOpt[d] # "none",
         \A w \in Workers :
           pc'[w] = "idle" => pc[w] = "idle" /\ (mailbox[w] > 0 => mailbox'[w] > 0)
  PROVE  GlobalWorkIsSeen'
  BY DEF GlobalWorkIsSeen

LEMMA SeenStep == TypeInv /\ HoldInv /\ GlobalWorkIsSeen /\ [Next]_vars => GlobalWorkIsSeen'
<1> SUFFICES ASSUME TypeInv, HoldInv, GlobalWorkIsSeen, [Next]_vars
             PROVE  GlobalWorkIsSeen'
  OBVIOUS
<1>0. WakeTypes
  BY TypesForWake
<1> USE <1>0 DEF WakeTypes, Goto, optVars, threadVars
<1>1. ASSUME WakeWorkers, UNCHANGED <<globalOpt>>,
             \A w \in Workers : pc'[w] = "idle" => pc[w] = "idle"
      PROVE  GlobalWorkIsSeen'
  BY <1>1, SeenSame, MessageReaches
<1>2. ASSUME UNCHANGED <<globalOpt, mailbox>>,
             \A w \in Workers : pc'[w] = "idle" => pc[w] = "idle"
      PROVE  GlobalWorkIsSeen'
  BY <1>2, SeenSame
<1>3. ASSUME NEW p \in Packages, EnqueueSend(p) \/ ProducerStep(p) \/ ProducerGivesUp(p)
      PROVE  GlobalWorkIsSeen'
  BY <1>1, <1>2, <1>3 DEF ProducerStep, EnqueueSend, EnqueueRegister, EnqueueWake,
     ReceiveResult, ProducerGivesUp
<1>4. ASSUME NEW w \in Workers,
             \/ LoopTop(w) \/ PickNextBranch(w) \/ NothingToPick(w) \/ TryBranchLock(w)
             \/ TakePackage(w) \/ RunJob(w) \/ JobFails(w) \/ DeferJob(w)
             \/ DeferRegister(w) \/ ReleaseBranchLock(w) \/ Requeue(w) \/ RunTask(w)
             \/ GlobalOptimizationDone(w) \/ ExitCleanup(w) \/ ThreadEnds(w)
             \/ Crash(w) \/ JoinWorker(w)
      PROVE  GlobalWorkIsSeen'
  <2>1. UNCHANGED <<globalOpt, mailbox>>
    BY <1>4 DEF LoopTop, PickNextBranch, NothingToPick, TryBranchLock, TakePackage,
       RunJob, JobFails, DeferJob, DeferRegister, ReleaseBranchLock, Requeue, RunTask,
       GlobalOptimizationDone, ExitCleanup, ThreadEnds, Crash, JoinWorker
  <2>2. \/ UNCHANGED pc
        \/ \E location \in Locations \ {"idle"} : pc' = [pc EXCEPT ![w] = location]
    BY <1>4 DEF LoopTop, PickNextBranch, NothingToPick, TryBranchLock, TakePackage,
       RunJob, JobFails, DeferJob, DeferRegister, ReleaseBranchLock, Requeue, RunTask,
       GlobalOptimizationDone, ExitCleanup, ThreadEnds, Crash, JoinWorker, LeaveBatch,
       Locations
  <2> QED
    BY <1>2, <2>1, <2>2
<1>5. ASSUME NEW w \in Workers, TasksDone(w)
      PROVE  GlobalWorkIsSeen'
  BY <1>2, <1>5 DEF TasksDone
<1>6. ASSUME NEW w \in Workers, DeferWake(w)
      PROVE  GlobalWorkIsSeen'
  BY <1>1, <1>6 DEF DeferWake, LeaveBatch
<1>7. ASSUME NEW w \in Workers, TakeGlobalOptimization(w)
      PROVE  GlobalWorkIsSeen'
  <2>1. \A d \in Databases : globalOpt'[d] # "none" => globalOpt[d] # "none"
    BY <1>7 DEF TakeGlobalOptimization
  <2>2. pc' = [pc EXCEPT ![w] = "globalOptimize"] /\ UNCHANGED mailbox
    BY <1>7 DEF TakeGlobalOptimization
  <2> QED
    BY <2>1, <2>2, SeenSame
<1>8. ASSUME NEW w \in Workers, NoGlobalOptimization(w)
      PROVE  GlobalWorkIsSeen'
  BY <1>8 DEF NoGlobalOptimization, GlobalWorkIsSeen
<1>9. ASSUME NEW w \in Workers, WakeUp(w)
      PROVE  GlobalWorkIsSeen'
  <2>1. UNCHANGED globalOpt
    BY <1>9 DEF WakeUp
  <2>2. \A v \in Workers : pc'[v] = "idle" => pc[v] = "idle" /\ mailbox'[v] = mailbox[v]
    BY <1>9 DEF WakeUp
  <2> QED
    BY <2>1, <2>2, SeenSame
<1>10. ASSUME NEW d \in Databases, ScheduleDatabaseOptimization(d)
       PROVE  GlobalWorkIsSeen'
  <2>1. WakeWorkers /\ UNCHANGED pc
    BY <1>10 DEF ScheduleDatabaseOptimization
  <2>2. \A w \in Workers : pc'[w] = "idle" => mailbox'[w] > 0
    BY <2>1, MessageReaches
  <2> QED
    BY <2>2 DEF GlobalWorkIsSeen
<1>11. CASE StartWorkers
  <2>1. \A w \in Workers : pc'[w] = "top"
    BY <1>11 DEF StartWorkers
  <2> QED
    BY <2>1 DEF GlobalWorkIsSeen
<1>12. CASE \/ StopWorkers \/ UNCHANGED vars
            \/ \E b \in Branches : ScheduleBranchOptimization(b)
            \/ \E d \in Databases : ReadActiveCount(d)
  BY <1>1, <1>2, <1>12 DEF StopWorkers, vars, ScheduleBranchOptimization, ReadActiveCount
<1> QED
  BY <1>3, <1>4, <1>5, <1>6, <1>7, <1>8, <1>9, <1>10, <1>11, <1>12 DEF Next, WorkerStep

\* A worker never sleeps without a message while global work is recorded, although the
\* record is made outside of the look at the table that puts it to sleep: whatever the
\* interleaving, and through crashes, stop_workers/0 and start_workers/1.
THEOREM GlobalWorkSeen == Spec => []GlobalWorkIsSeen
<1>1. Init => GlobalWorkIsSeen
  BY SeenInit
<1> QED
  BY <1>1, SeenStep, HoldCorrect, PTL DEF Spec

------------------------------------------------------------------------------
(* Accounts: needs that are covered by tokens of their own *)

Covered(needs, tokens) ==
  \E f \in [needs -> tokens] : \A x, y \in needs : f[x] = f[y] => x = y

\* Fewer needs or more tokens.
LEMMA CoveredSubset ==
  ASSUME NEW N, NEW T, Covered(N, T), NEW M, M \subseteq N, NEW S, T \subseteq S
  PROVE  Covered(M, S)
<1>1. PICK f \in [N -> T] : \A x, y \in N : f[x] = f[y] => x = y
  BY DEF Covered
<1> DEFINE g == [x \in M |-> f[x]]
<1>2. g \in [M -> S] /\ \A x, y \in M : g[x] = g[y] => x = y
  BY <1>1
<1> QED
  BY <1>2 DEF Covered

\* A need that is met frees any one token.
LEMMA CoveredSpend ==
  ASSUME NEW N, NEW T, Covered(N, T), NEW b \in N, NEW t
  PROVE  Covered(N \ {b}, T \ {t})
<1>1. PICK f \in [N -> T] : \A x, y \in N : f[x] = f[y] => x = y
  BY DEF Covered
<1> DEFINE g == [x \in N \ {b} |-> IF f[x] = t THEN f[b] ELSE f[x]]
<1>2. g \in [N \ {b} -> T \ {t}]
  BY <1>1
<1>3. ASSUME NEW x \in N \ {b}, NEW y \in N \ {b}, g[x] = g[y]
      PROVE  x = y
  BY <1>1, <1>3
<1> QED
  BY <1>2, <1>3 DEF Covered

\* A new need with a new token.
LEMMA CoveredGrow ==
  ASSUME NEW N, NEW T, Covered(N, T), NEW b, NEW t, t \notin T
  PROVE  Covered(N \cup {b}, T \cup {t})
<1>1. PICK f \in [N -> T] : \A x, y \in N : f[x] = f[y] => x = y
  BY DEF Covered
<1> DEFINE g == [x \in N \cup {b} |-> IF x \in N THEN f[x] ELSE t]
<1>2. g \in [N \cup {b} -> T \cup {t}]
  BY <1>1
<1>3. ASSUME NEW x \in N \cup {b}, NEW y \in N \cup {b}, g[x] = g[y]
      PROVE  x = y
  BY <1>1, <1>3
<1> QED
  BY <1>2, <1>3 DEF Covered

\* One need takes the place of another.
LEMMA CoveredRename ==
  ASSUME NEW N, NEW T, Covered(N, T), NEW a \in N, NEW b
  PROVE  Covered((N \ {a}) \cup {b}, T)
<1>1. PICK t \in T : TRUE
  BY DEF Covered
<1>2. Covered(N \ {a}, T \ {t})
  BY CoveredSpend
<1>3. Covered((N \ {a}) \cup {b}, (T \ {t}) \cup {t})
  BY <1>2, CoveredGrow
<1>4. (T \ {t}) \cup {t} = T
  OBVIOUS
<1> QED
  BY <1>3, <1>4

\* One token takes the place of another.
LEMMA CoveredExchange ==
  ASSUME NEW N, NEW T, Covered(N, T), NEW t, NEW u, u \notin T
  PROVE  Covered(N, (T \ {t}) \cup {u})
<1>1. PICK f \in [N -> T] : \A x, y \in N : f[x] = f[y] => x = y
  BY DEF Covered
<1> DEFINE g == [x \in N |-> IF f[x] = t THEN u ELSE f[x]]
<1>2. g \in [N -> (T \ {t}) \cup {u}]
  BY <1>1
<1>3. ASSUME NEW x \in N, NEW y \in N, g[x] = g[y]
      PROVE  x = y
  BY <1>1, <1>3
<1> QED
  BY <1>2, <1>3 DEF Covered

------------------------------------------------------------------------------
(* What is owed and who owes it *)

\* A token of each producer, and as many of each worker as it has looks left.
Tokens(producers, looks) ==
  ({0} \X producers \X {0}) \cup {t \in {1} \X Workers \X Nat : t[3] < looks[t[2]]}

\* The needs of packages that are to be registered and of branches.
Needs(packages, branches) == ({0} \X packages) \cup ({1} \X branches)

LEMMA TokenForms ==
  ASSUME NEW P, NEW looks \in [Workers -> Nat]
  PROVE  /\ \A p : <<0, p, 0>> \in Tokens(P, looks) <=> p \in P
         /\ \A w \in Workers, i \in Nat : <<1, w, i>> \in Tokens(P, looks) <=> i < looks[w]
         /\ \A t \in Tokens(P, looks) :
              \/ \E p \in P : t = <<0, p, 0>>
              \/ \E w \in Workers, i \in Nat : i < looks[w] /\ t = <<1, w, i>>
  BY DEF Tokens

LEMMA NeedForms ==
  ASSUME NEW P, NEW B
  PROVE  /\ \A p : <<0, p>> \in Needs(P, B) <=> p \in P
         /\ \A b : <<1, b>> \in Needs(P, B) <=> b \in B
         /\ \A n \in Needs(P, B) :
              (\E p \in P : n = <<0, p>>) \/ (\E b \in B : n = <<1, b>>)
  BY DEF Needs

\* More producers, or more looks.
LEMMA TokensGrow ==
  ASSUME NEW P, NEW Q, P \subseteq Q,
         NEW looks \in [Workers -> Nat], NEW more \in [Workers -> Nat],
         \A w \in Workers : looks[w] <= more[w]
  PROVE  Tokens(P, looks) \subseteq Tokens(Q, more)
<1> SUFFICES ASSUME NEW t \in Tokens(P, looks)
             PROVE  t \in Tokens(Q, more)
  OBVIOUS
<1>1. CASE \E p \in P : t = <<0, p, 0>>
  BY <1>1, TokenForms
<1>2. CASE \E w \in Workers, i \in Nat : i < looks[w] /\ t = <<1, w, i>>
  <2>1. PICK w \in Workers, i \in Nat : i < looks[w] /\ t = <<1, w, i>>
    BY <1>2
  <2>2. i < more[w]
    BY <2>1
  <2> QED
    BY <2>1, <2>2, TokenForms
<1> QED
  BY <1>1, <1>2, TokenForms

\* A producer that has sent its package owes a registration and has a token.
LEMMA AccountSend ==
  ASSUME NEW P, NEW B, NEW Q, NEW looks \in [Workers -> Nat],
         Covered(Needs(P, B), Tokens(Q, looks)), NEW p, p \notin Q
  PROVE  Covered(Needs(P \cup {p}, B), Tokens(Q \cup {p}, looks))
<1>1. <<0, p, 0>> \notin Tokens(Q, looks)
  BY TokenForms
<1>2. Covered(Needs(P, B) \cup {<<0, p>>}, Tokens(Q, looks) \cup {<<0, p, 0>>})
  BY <1>1, CoveredGrow
<1>3. Needs(P \cup {p}, B) = Needs(P, B) \cup {<<0, p>>}
  BY DEF Needs
<1>4. Tokens(Q \cup {p}, looks) = Tokens(Q, looks) \cup {<<0, p, 0>>}
  BY DEF Tokens
<1> QED
  BY <1>2, <1>3, <1>4

\* Its registration turns what it owes into a need of the branch.
LEMMA AccountRegister ==
  ASSUME NEW P, NEW B, NEW T, Covered(Needs(P, B), T), NEW p \in P, NEW b
  PROVE  Covered(Needs(P \ {p}, B \cup {b}), T)
<1>1. <<0, p>> \in Needs(P, B)
  BY NeedForms
<1>2. Covered((Needs(P, B) \ {<<0, p>>}) \cup {<<1, b>>}, T)
  BY <1>1, CoveredRename
<1>3. Needs(P \ {p}, B \cup {b}) \subseteq (Needs(P, B) \ {<<0, p>>}) \cup {<<1, b>>}
  BY DEF Needs
<1> QED
  BY <1>2, <1>3, CoveredSubset

\* A worker with one look more than it had.
LEMMA LookTokenIsNew ==
  ASSUME NEW Q, NEW looks \in [Workers -> Nat], NEW more \in [Workers -> Nat],
         NEW w \in Workers, more[w] > looks[w]
  PROVE  /\ <<1, w, looks[w]>> \notin Tokens(Q, looks)
         /\ <<1, w, looks[w]>> \in Tokens(Q, more)
  BY TokenForms

\* Its message gives every worker a look for its token.
LEMMA AccountWake ==
  ASSUME NEW N, NEW Q, NEW looks \in [Workers -> Nat], NEW more \in [Workers -> Nat],
         Covered(N, Tokens(Q, looks)), NEW p,
         \A v \in Workers : looks[v] <= more[v],
         NEW w \in Workers, more[w] > looks[w]
  PROVE  Covered(N, Tokens(Q \ {p}, more))
<1> DEFINE t == <<0, p, 0>>
           u == <<1, w, looks[w]>>
<1>1. u \notin Tokens(Q, looks) /\ \A R : u \in Tokens(R, more)
  BY LookTokenIsNew
<1>2. Covered(N, (Tokens(Q, looks) \ {t}) \cup {u})
  BY <1>1, CoveredExchange
<1>3. Tokens(Q, looks) \ {t} \subseteq Tokens(Q \ {p}, looks)
  BY TokenForms DEF Tokens
<1>4. Tokens(Q \ {p}, looks) \subseteq Tokens(Q \ {p}, more)
  BY TokensGrow
<1>5. (Tokens(Q, looks) \ {t}) \cup {u} \subseteq Tokens(Q \ {p}, more)
  BY <1>1, <1>3, <1>4
<1> QED
  BY <1>2, <1>5, CoveredSubset

\* A look in vain at a branch that needed one.
LEMMA AccountSpend ==
  ASSUME NEW P, NEW B, NEW Q, NEW looks \in [Workers -> Nat], NEW less \in [Workers -> Nat],
         Covered(Needs(P, B), Tokens(Q, looks)), NEW b \in B, NEW w \in Workers,
         less[w] = looks[w] - 1, \A v \in Workers : v # w => less[v] = looks[v]
  PROVE  Covered(Needs(P, B \ {b}), Tokens(Q, less))
<1> DEFINE t == <<1, w, less[w]>>
           N == Needs(P, B) \ {<<1, b>>}
           T == Tokens(Q, looks) \ {t}
<1>1. Covered(N, T)
  <2>1. <<1, b>> \in Needs(P, B)
    BY NeedForms
  <2> QED
    BY <2>1, CoveredSpend
<1>2. Needs(P, B \ {b}) \subseteq N
  BY DEF Needs
<1>3. T \subseteq Tokens(Q, less)
  <2>1. \A v \in Workers, i \in Nat : i < looks[v] /\ <<1, v, i>> # t => i < less[v]
    <3>1. \A i \in Nat : i < looks[w] /\ i # less[w] => i < less[w]
      OBVIOUS
    <3> QED
      BY <3>1
  <2> SUFFICES ASSUME NEW x \in T
               PROVE  x \in Tokens(Q, less)
    OBVIOUS
  <2>2. \/ \E p \in Q : x = <<0, p, 0>>
        \/ \E v \in Workers, i \in Nat : i < looks[v] /\ x = <<1, v, i>>
    BY TokenForms
  <2>3. CASE \E p \in Q : x = <<0, p, 0>>
    <3>1. \A p \in Q : <<0, p, 0>> \in Tokens(Q, less)
      BY TokenForms
    <3> QED
      BY <2>3, <3>1
  <2>4. CASE \E v \in Workers, i \in Nat : i < looks[v] /\ x = <<1, v, i>>
    <3>1. \A v \in Workers, i \in Nat : i < less[v] => <<1, v, i>> \in Tokens(Q, less)
      BY TokenForms
    <3>2. PICK v \in Workers, i \in Nat : i < looks[v] /\ x = <<1, v, i>>
      BY <2>4
    <3>3. i < less[v]
      BY <2>1, <3>2
    <3> QED
      BY <3>1, <3>2, <3>3
  <2> QED
    BY <2>2, <2>3, <2>4
<1> HIDE DEF N, T
<1> QED
  BY <1>1, <1>2, <1>3, CoveredSubset

\* A worker that puts a package back owes a registration and has a look more.
LEMMA AccountDefer ==
  ASSUME NEW P, NEW B, NEW Q, NEW looks \in [Workers -> Nat], NEW more \in [Workers -> Nat],
         Covered(Needs(P, B), Tokens(Q, looks)), NEW b,
         \A v \in Workers : looks[v] <= more[v],
         NEW w \in Workers, more[w] > looks[w]
  PROVE  Covered(Needs(P, B \cup {b}), Tokens(Q, more))
<1> DEFINE t == <<1, w, looks[w]>>
           T == Tokens(Q, looks) \cup {t}
<1>1. t \notin Tokens(Q, looks) /\ t \in Tokens(Q, more)
  BY LookTokenIsNew
<1>2. Covered(Needs(P, B) \cup {<<1, b>>}, T)
  BY <1>1, CoveredGrow
<1>3. Needs(P, B \cup {b}) = Needs(P, B) \cup {<<1, b>>}
  BY DEF Needs
<1>4. T \subseteq Tokens(Q, more)
  BY <1>1, TokensGrow
<1> HIDE DEF T
<1>5. Covered(Needs(P, B \cup {b}), T)
  BY <1>2, <1>3
<1> QED
  BY <1>4, <1>5, CoveredSubset

------------------------------------------------------------------------------
(* The account of the queue *)

SentPackages == {p \in Packages : client[p] = "sent"}
Producing == {p \in Packages : client[p] \in {"sent", "registered"}}
SentFor(b) == \E p \in Packages : client[p] = "sent" /\ BranchOf[p] = b

\* A branch needs a look when it is pending and has nothing to offer, so that the look
\* may be in vain, or has work that no producer will register; one that a worker has in
\* hand will be in that state when it is requeued.
NeedsLook(b) ==
  \/ b \in Range(pending) /\ (queue[b] = <<>> \/ IsActive(b))
  \/ queue[b] # <<>> /\ ~SentFor(b)
  \/ \E w \in Workers : pc[w] = "deferRegister" /\ work[w] = b
Owed == {b \in Branches : NeedsLook(b)}

\* The looks a worker has left before it sleeps for good, and the one that a worker
\* which puts a package back is about to give to everyone.
LooksLeft(w) ==
  mailbox[w] + (IF LooksAgain(w) THEN 1 ELSE 0)
             + (IF pc[w] \in {"deferRegister", "deferWake"} THEN 1 ELSE 0)
Looks == [w \in Workers |-> LooksLeft(w)]

Balanced == Covered(Needs(SentPackages, Owed), Tokens(Producing, Looks))

\* A worker that holds a branch in need pays for it itself, or a producer does that has
\* registered it: what pays is not lost when others look in vain.
HolderPays ==
  \A b \in Branches, w \in Workers :
    <<b, w>> \in active /\ NeedsLook(b) =>
      \/ LooksLeft(w) > 0
      \/ \E p \in Packages : client[p] = "registered" /\ BranchOf[p] = b

CreditInv == Balanced /\ HolderPays

LEMMA LooksTypes ==
  /\ TypeInv => Looks \in [Workers -> Nat] /\ \A w \in Workers : LooksLeft(w) \in Nat
  /\ TypeInv' => Looks' \in [Workers -> Nat] /\ \A w \in Workers : LooksLeft(w)' \in Nat
<1>1. mailbox \in [Workers -> Nat] =>
        Looks \in [Workers -> Nat] /\ \A w \in Workers : LooksLeft(w) \in Nat
  BY DEF Looks, LooksLeft
<1>2. mailbox' \in [Workers -> Nat] =>
        Looks' \in [Workers -> Nat] /\ \A w \in Workers : LooksLeft(w)' \in Nat
  BY DEF Looks, LooksLeft
<1> QED
  BY <1>1, <1>2 DEF TypeInv, TypeOK, QueueTypes

\* A step after which nothing more is owed and nobody has a look less.
LEMMA BalancedSame ==
  ASSUME TypeInv, TypeInv', CreditInv,
         SentPackages' = SentPackages, Producing' = Producing,
         \A b \in Branches : NeedsLook(b)' => NeedsLook(b),
         \A w \in Workers : LooksLeft(w)' >= LooksLeft(w)
  PROVE  Balanced'
<1>1. Needs(SentPackages', Owed') \subseteq Needs(SentPackages, Owed)
  BY DEF Needs, Owed
<1>2. Looks \in [Workers -> Nat] /\ Looks' \in [Workers -> Nat]
  BY LooksTypes
<1>3. \A w \in Workers : Looks[w] <= Looks'[w]
  BY LooksTypes DEF Looks
<1>4. Tokens(Producing, Looks) \subseteq Tokens(Producing', Looks')
  BY <1>2, <1>3, TokensGrow
<1> QED
  BY <1>1, <1>4, CoveredSubset DEF CreditInv, Balanced

LEMMA CreditSame ==
  ASSUME TypeInv, TypeInv', CreditInv,
         \A p \in Packages :
           client[p] \in {"sent", "registered"} \/ client'[p] \in {"sent", "registered"}
             => client'[p] = client[p],
         \A b \in Branches : NeedsLook(b)' => NeedsLook(b),
         active' \subseteq active,
         \A w \in Workers : LooksLeft(w)' >= LooksLeft(w)
  PROVE  CreditInv'
<1>1. SentPackages' = SentPackages /\ Producing' = Producing
  BY DEF SentPackages, Producing
<1>2. Balanced'
  BY <1>1, BalancedSame
<1>3. HolderPays'
  <2> SUFFICES ASSUME NEW b \in Branches, NEW w \in Workers,
                      <<b, w>> \in active', NeedsLook(b)', ~(LooksLeft(w)' > 0)
               PROVE  \E p \in Packages : client'[p] = "registered" /\ BranchOf[p] = b
    BY DEF HolderPays
  <2>1. LooksLeft(w) \in Nat /\ LooksLeft(w)' \in Nat
    BY LooksTypes
  <2>2. \E p \in Packages : client[p] = "registered" /\ BranchOf[p] = b
    BY <2>1 DEF CreditInv, HolderPays
  <2> QED
    BY <2>2
<1> QED
  BY <1>2, <1>3 DEF CreditInv

\* What the steps below use of the types.
CreditTypes ==
  /\ WakeTypes
  /\ HoldTypes
  /\ PendingTypes
  /\ BranchOf \in [Packages -> Branches]

LEMMA TypesForCredit == TypeInv => CreditTypes
  BY TypesForWake, TypesForHold, TypesForPending, BranchOfAssumption DEF CreditTypes

\* enqueue_commit/2 up to thread_send_message: the producer owes its registration.
LEMMA CreditSend ==
  ASSUME TypeInv, TypeInv', CreditInv, NEW p \in Packages, EnqueueSend(p)
  PROVE  CreditInv'
<1> USE DEF CreditTypes, WakeTypes, PendingTypes
<1>0. CreditTypes
  BY TypesForCredit
<1>1. /\ client[p] = "idle" /\ client' = [client EXCEPT ![p] = "sent"]
      /\ BranchOf[p] \in Branches
      /\ queue' = [queue EXCEPT ![BranchOf[p]] = Append(@, p)]
      /\ UNCHANGED <<pending, active, mailbox, pc, work, after>>
  BY <1>0 DEF EnqueueSend, Put, schedulerVars, threadVars
<1>2. /\ queue'[BranchOf[p]] # <<>>
      /\ \A b \in Branches : b # BranchOf[p] => queue'[b] = queue[b]
  BY <1>0, <1>1
<1>3. /\ SentPackages' = SentPackages \cup {p}
      /\ Producing' = Producing \cup {p} /\ p \notin Producing
  BY <1>0, <1>1 DEF SentPackages, Producing
<1>4. ASSUME NEW b \in Branches, NeedsLook(b)'
      PROVE  NeedsLook(b)
  <2>1. SentFor(b) => SentFor(b)'
    BY <1>0, <1>1 DEF SentFor
  <2>2. SentFor(BranchOf[p])'
    BY <1>0, <1>1 DEF SentFor
  <2>3. IsActive(b)' = IsActive(b)
    BY <1>1 DEF IsActive
  <2> QED
    BY <1>1, <1>2, <1>4, <2>1, <2>2, <2>3 DEF NeedsLook
<1>5. \A w \in Workers : LooksLeft(w)' >= LooksLeft(w)
  <2> SUFFICES ASSUME NEW w \in Workers PROVE LooksLeft(w)' >= LooksLeft(w)
    OBVIOUS
  <2>1. LooksAgain(w) => LooksAgain(w)'
    <3>1. pc[w] \in {"lock", "take"} => work[w] \in Branches
      BY <1>0 DEF HoldTypes, WorkIsABranch, HasBranch
    <3> QED
      BY <1>1, <1>2, <3>1 DEF LooksAgain
  <2> QED
    BY <1>0, <1>1, <2>1 DEF LooksLeft
<1>6. /\ Looks \in [Workers -> Nat] /\ Looks' \in [Workers -> Nat]
      /\ \A w \in Workers : LooksLeft(w) \in Nat /\ LooksLeft(w)' \in Nat
  BY LooksTypes
<1>7. Balanced'
  <2>1. Covered(Needs(SentPackages \cup {p}, Owed), Tokens(Producing \cup {p}, Looks))
    BY <1>3, <1>6, AccountSend DEF CreditInv, Balanced
  <2>2. Needs(SentPackages', Owed') \subseteq Needs(SentPackages \cup {p}, Owed)
    BY <1>3, <1>4 DEF Needs, Owed
  <2>3. \A w \in Workers : Looks[w] <= Looks'[w]
    BY <1>5, <1>6 DEF Looks
  <2>4. Tokens(Producing \cup {p}, Looks) \subseteq Tokens(Producing', Looks')
    BY <1>3, <1>6, <2>3, TokensGrow
  <2> QED
    BY <2>1, <2>2, <2>4, CoveredSubset DEF Balanced
<1>8. HolderPays'
  <2>1. \A q \in Packages : client[q] = "registered" => client'[q] = "registered"
    BY <1>0, <1>1
  <2> QED
    BY <1>1, <1>4, <1>5, <1>6, <2>1 DEF CreditInv, HolderPays
<1> QED
  BY <1>7, <1>8 DEF CreditInv

\* register_pending_branch/1: what the producer owed is a need of the branch now.
LEMMA CreditRegister ==
  ASSUME TypeInv, TypeInv', CreditInv, NEW p \in Packages, EnqueueRegister(p)
  PROVE  CreditInv'
<1> USE DEF CreditTypes, WakeTypes, PendingTypes
<1> DEFINE c == BranchOf[p]
<1>0. CreditTypes /\ c \in Branches
  BY TypesForCredit
<1>1. /\ client[p] = "sent" /\ client' = [client EXCEPT ![p] = "registered"]
      /\ Range(pending') = Range(pending) \cup {c}
      /\ UNCHANGED <<queue, active, mailbox, pc, work, after>>
  BY <1>0, EnlistProperties DEF EnqueueRegister, RegisterPendingBranch, threadVars
<1>2. /\ SentPackages' = SentPackages \ {p} /\ p \in SentPackages
      /\ Producing' = Producing
  BY <1>0, <1>1 DEF SentPackages, Producing
<1>3. ASSUME NEW b \in Branches, NeedsLook(b)', b # c
      PROVE  NeedsLook(b)
  <2>1. SentFor(b) => SentFor(b)'
    BY <1>0, <1>1, <1>3 DEF SentFor
  <2>2. IsActive(b)' = IsActive(b)
    BY <1>1 DEF IsActive
  <2> QED
    BY <1>1, <1>3, <2>1, <2>2 DEF NeedsLook
<1>4. \A w \in Workers : LooksLeft(w)' = LooksLeft(w)
  BY <1>1 DEF LooksLeft, LooksAgain
<1>5. Looks' = Looks
  BY <1>4 DEF Looks
<1>6. Balanced'
  <2>1. Covered(Needs(SentPackages \ {p}, Owed \cup {c}), Tokens(Producing, Looks))
    BY <1>2, AccountRegister DEF CreditInv, Balanced
  <2>2. Needs(SentPackages', Owed') \subseteq Needs(SentPackages \ {p}, Owed \cup {c})
    BY <1>2, <1>3 DEF Needs, Owed
  <2>3. Tokens(Producing, Looks) = Tokens(Producing', Looks')
    BY <1>2, <1>5
  <2> QED
    BY <2>1, <2>2, <2>3, CoveredSubset DEF Balanced
<1>7. HolderPays'
  <2>1. \A q \in Packages : client[q] = "registered" => client'[q] = "registered"
    BY <1>0, <1>1
  <2>2. client'[p] = "registered"
    BY <1>0, <1>1
  <2> QED
    BY <1>1, <1>3, <1>4, <2>1, <2>2 DEF CreditInv, HolderPays
<1> QED
  BY <1>6, <1>7 DEF CreditInv

\* A message to everybody while nobody has ended: everybody has a look more.
LEMMA EverybodyLooks ==
  ASSUME TypeInv, HoldInv, WakeWorkers, \A w \in Workers : pc[w] # "dead"
  PROVE  \A w \in Workers : mailbox'[w] = mailbox[w] + 1
  BY MessageReaches

\* The messages of a producer: each worker has a look in place of its token.
LEMMA CreditWake ==
  ASSUME TypeInv, TypeInv', HoldInv, CreditInv, NEW p \in Packages, EnqueueWake(p),
         Workers # {}, \A w \in Workers : pc[w] # "dead"
  PROVE  CreditInv'
<1> USE DEF CreditTypes, WakeTypes, PendingTypes
<1>0. CreditTypes
  BY TypesForCredit
<1>1. /\ client[p] = "registered"
      /\ client' \in [Packages -> ClientStates]
      /\ client'[p] \notin {"sent", "registered"}
      /\ \A q \in Packages : q # p => client'[q] = client[q]
      /\ UNCHANGED <<queue, pending, active, pc, work, after>>
  BY <1>0 DEF EnqueueWake, schedulerVars, threadVars, ClientStates
<1>2. \A w \in Workers : mailbox'[w] = mailbox[w] + 1
  BY EverybodyLooks DEF EnqueueWake
<1>3. SentPackages' = SentPackages /\ Producing' = Producing \ {p}
  BY <1>0, <1>1 DEF SentPackages, Producing
<1>4. \A b \in Branches : NeedsLook(b)' = NeedsLook(b)
  <2>1. \A b \in Branches : SentFor(b)' = SentFor(b)
    BY <1>1 DEF SentFor
  <2> QED
    BY <1>1, <2>1 DEF NeedsLook, IsActive
<1>5. \A w \in Workers : LooksLeft(w)' = LooksLeft(w) + 1
  BY <1>0, <1>1, <1>2 DEF LooksLeft, LooksAgain
<1>6. /\ Looks \in [Workers -> Nat] /\ Looks' \in [Workers -> Nat]
      /\ \A w \in Workers : LooksLeft(w) \in Nat
  BY LooksTypes
<1>7. \A w \in Workers : Looks[w] <= Looks'[w] /\ Looks'[w] > Looks[w]
  BY <1>5, <1>6 DEF Looks
<1>8. Balanced'
  <2>1. PICK w \in Workers : TRUE
    OBVIOUS
  <2>2. Covered(Needs(SentPackages, Owed), Tokens(Producing \ {p}, Looks'))
    BY <1>6, <1>7, AccountWake DEF CreditInv, Balanced
  <2>3. Owed' = Owed
    BY <1>4 DEF Owed
  <2> QED
    BY <1>3, <2>2, <2>3 DEF Balanced
<1>9. HolderPays'
  BY <1>5, <1>6 DEF HolderPays
<1> QED
  BY <1>8, <1>9 DEF CreditInv

\* Messages to everybody that nobody owed.
LEMMA CreditMessage ==
  ASSUME TypeInv, TypeInv', CreditInv,
         UNCHANGED <<queue, pending, active, client, pc, work, after>>,
         \A w \in Workers : mailbox'[w] >= mailbox[w]
  PROVE  CreditInv'
<1>1. \A b \in Branches : NeedsLook(b)' => NeedsLook(b)
  BY DEF NeedsLook, SentFor, IsActive
<1>2. \A w \in Workers : LooksLeft(w)' >= LooksLeft(w)
  BY TypesForCredit DEF CreditTypes, WakeTypes, TypeInv, TypeOK, QueueTypes, LooksLeft,
     LooksAgain
<1> QED
  BY <1>1, <1>2, CreditSame

\* A step of one worker that leaves the list and the queues alone and keeps its looks.
LEMMA CreditMove ==
  ASSUME TypeInv, TypeInv', CreditInv, NEW w \in Workers, NEW location \in Locations,
         Goto(w, location), location # "deferRegister",
         UNCHANGED <<queue, pending, active, client>>,
         \A v \in Workers : v # w =>
           work'[v] = work[v] /\ after'[v] = after[v] /\ mailbox'[v] >= mailbox[v],
         LooksLeft(w)' >= LooksLeft(w)
  PROVE  CreditInv'
<1>0. /\ \A v \in Workers : v # w => pc'[v] = pc[v]
      /\ pc'[w] = location
  BY TypesForCredit DEF CreditTypes, WakeTypes, Goto
<1>1. \A b \in Branches : NeedsLook(b)' => NeedsLook(b)
  BY <1>0 DEF NeedsLook, SentFor, IsActive
<1>2. \A v \in Workers : LooksLeft(v)' >= LooksLeft(v)
  <2> SUFFICES ASSUME NEW v \in Workers, v # w PROVE LooksLeft(v)' >= LooksLeft(v)
    OBVIOUS
  <2>1. LooksAgain(v)' = LooksAgain(v)
    BY <1>0 DEF LooksAgain
  <2>2. mailbox[v] \in Nat /\ mailbox'[v] \in Nat
    BY DEF TypeInv, TypeOK, QueueTypes
  <2> QED
    BY <1>0, <2>1, <2>2 DEF LooksLeft
<1> QED
  BY <1>1, <1>2, CreditSame

\* Every pending branch is listed once.
PendingOnce ==
  \A i, j \in 1 .. Len(pending) : pending[i] = pending[j] => i = j

\* Taking an element off a list without duplicates takes it off for good.
LEMMA RemoveAtOnce ==
  ASSUME NEW S, NEW s \in Seq(S), NEW i \in 1 .. Len(s),
         \A j, k \in 1 .. Len(s) : s[j] = s[k] => j = k
  PROVE  /\ s[i] \notin Range(RemoveAt(s, i))
         /\ \A j, k \in 1 .. Len(RemoveAt(s, i)) :
              RemoveAt(s, i)[j] = RemoveAt(s, i)[k] => j = k
<1> DEFINE r == RemoveAt(s, i)
<1>1. /\ r \in Seq(S) /\ Len(r) = Len(s) - 1
      /\ \A j \in 1 .. (Len(s) - 1) : r[j] = IF j < i THEN s[j] ELSE s[j + 1]
  BY RemoveAtElements
<1> HIDE DEF r
<1>2. \A j \in 1 .. (Len(s) - 1) : j \in 1 .. Len(s) /\ j + 1 \in 1 .. Len(s)
  OBVIOUS
<1>3. ASSUME NEW j \in 1 .. (Len(s) - 1)
      PROVE  r[j] # s[i]
  BY <1>1, <1>2
<1>4. ASSUME NEW j \in 1 .. (Len(s) - 1), NEW k \in 1 .. (Len(s) - 1), r[j] = r[k]
      PROVE  j = k
  BY <1>1, <1>2, <1>4
<1>5. DOMAIN r = 1 .. (Len(s) - 1)
  BY <1>1
<1>6. s[i] \notin Range(r)
  BY <1>3, <1>5 DEF Range
<1> QED
  BY <1>1, <1>4, <1>6 DEF r

\* pick_next_branch/2: the branch is off the list; a look at one whose queue is empty
\* was in vain, another one will be followed by a second look.
LEMMA CreditPick ==
  ASSUME TypeInv, TypeInv', HoldInv, PendingOnce, CreditInv,
         NEW w \in Workers, PickNextBranch(w)
  PROVE  CreditInv'
<1> USE DEF CreditTypes, WakeTypes, PendingTypes
<1>0. CreditTypes
  BY TypesForCredit
<1>1. PICK b \in Branches :
         /\ ~IsActive(b)
         /\ b \in Range(pending)
         /\ Range(pending') \subseteq Range(pending) /\ b \notin Range(pending')
         /\ active' = active \cup {<<b, w>>}
         /\ work' = [work EXCEPT ![w] = b]
  <2>1. PICK i \in 1 .. Len(pending) :
           /\ ~IsActive(pending[i])
           /\ pending' = RemoveAt(pending, i)
           /\ active' = active \cup {<<pending[i], w>>}
           /\ work' = [work EXCEPT ![w] = pending[i]]
    <3>1. DOMAIN pending = 1 .. Len(pending)
      BY <1>0
    <3> QED
      BY <3>1, Zenon DEF PickNextBranch, FirstNonActive
  <2>2. pending[i] \in Branches /\ pending[i] \in Range(pending)
    BY <1>0 DEF Range
  <2>3. Range(RemoveAt(pending, i)) \subseteq Range(pending)
    BY <1>0, RemoveAtProperties
  <2>4. pending[i] \notin Range(RemoveAt(pending, i))
    BY <1>0, RemoveAtOnce DEF PendingOnce
  <2> QED
    BY <2>1, <2>2, <2>3, <2>4
<1>2. /\ b \in Branches /\ b \in Range(pending)
      /\ Range(pending') \subseteq Range(pending) /\ b \notin Range(pending')
  BY <1>1
<1>3. /\ pc[w] = "pick" /\ pc' = [pc EXCEPT ![w] = "lock"]
      /\ UNCHANGED <<queue, mailbox, after, client>>
  BY DEF PickNextBranch, Goto, clientVars
<1>4. /\ ~IsActive(b)
      /\ active' = active \cup {<<b, w>>}
      /\ work'[w] = b /\ \A v \in Workers : v # w => work'[v] = work[v]
  BY <1>0, <1>1 DEF HoldTypes
<1>5. /\ pc'[w] = "lock" /\ \A v \in Workers : v # w => pc'[v] = pc[v]
  BY <1>0, <1>3
<1>6. ASSUME NEW c \in Branches, NeedsLook(c)', c # b
      PROVE  NeedsLook(c)
  <2>1. IsActive(c)' => IsActive(c)
    BY <1>4, <1>6 DEF IsActive
  <2>2. SentFor(c)' = SentFor(c)
    BY <1>3 DEF SentFor
  <2> QED
    BY <1>2, <1>3, <1>4, <1>5, <1>6, <2>1, <2>2 DEF NeedsLook
<1>7. NeedsLook(b)' => queue[b] # <<>> /\ ~SentFor(b)
  <2>1. \A v \in Workers : pc[v] = "deferRegister" => work[v] # b
    BY <1>4 DEF IsActive, HoldInv, ActiveHeld, HasBranch
  <2>2. SentFor(b)' = SentFor(b)
    BY <1>3 DEF SentFor
  <2> QED
    BY <1>2, <1>3, <1>4, <1>5, <2>1, <2>2 DEF NeedsLook
<1>8. \A v \in Workers : v # w => LooksLeft(v)' = LooksLeft(v)
  BY <1>3, <1>4, <1>5 DEF LooksLeft, LooksAgain
<1>9. LooksLeft(w)' = IF queue[b] # <<>> THEN LooksLeft(w) ELSE LooksLeft(w) - 1
  <2>1. LooksLeft(w) = mailbox[w] + 1 /\ mailbox[w] \in Nat
    BY <1>0, <1>3 DEF LooksLeft, LooksAgain
  <2>2. LooksLeft(w)' = IF queue[b] # <<>> THEN mailbox[w] + 1 ELSE mailbox[w]
    BY <1>0, <1>3, <1>4, <1>5 DEF LooksLeft, LooksAgain
  <2> QED
    BY <2>1, <2>2
<1>10. /\ Looks \in [Workers -> Nat] /\ Looks' \in [Workers -> Nat]
       /\ \A v \in Workers : LooksLeft(v) \in Nat /\ LooksLeft(v)' \in Nat
  BY LooksTypes
<1>11. SentPackages' = SentPackages /\ Producing' = Producing
  BY <1>3 DEF SentPackages, Producing
<1>12. HolderPays'
  <2> SUFFICES ASSUME NEW c \in Branches, NEW v \in Workers,
                      <<c, v>> \in active', NeedsLook(c)', ~(LooksLeft(v)' > 0)
               PROVE  \E p \in Packages : client'[p] = "registered" /\ BranchOf[p] = c
    BY DEF HolderPays
  <2>1. CASE c = b
    <3>1. v = w
      BY <1>4, <2>1 DEF IsActive
    <3>2. queue[b] # <<>>
      BY <1>7, <2>1
    <3>3. LooksLeft(w) = mailbox[w] + 1 /\ mailbox[w] \in Nat
      BY <1>0, <1>3 DEF LooksLeft, LooksAgain
    <3> QED
      BY <1>9, <3>1, <3>2, <3>3
  <2>2. CASE c # b
    <3>1. <<c, v>> \in active /\ NeedsLook(c)
      BY <1>4, <1>6, <2>2
    <3>2. v # w
      BY <1>3, <3>1 DEF HoldInv, ActiveHeld, HasBranch
    <3> QED
      BY <1>3, <1>8, <3>1, <3>2 DEF CreditInv, HolderPays
  <2> QED
    BY <2>1, <2>2
<1>13. CASE queue[b] # <<>>
  <2>1. \A c \in Branches : NeedsLook(c)' => NeedsLook(c)
    BY <1>2, <1>6, <1>7 DEF NeedsLook
  <2>2. \A v \in Workers : LooksLeft(v)' >= LooksLeft(v)
    BY <1>8, <1>9, <1>10, <1>13
  <2> QED
    BY <1>11, <1>12, <2>1, <2>2, BalancedSame DEF CreditInv
<1>14. CASE queue[b] = <<>>
  <2>1. b \in Owed
    BY <1>2, <1>14 DEF Owed, NeedsLook
  <2>2. Owed' \subseteq Owed \ {b}
    BY <1>6, <1>7, <1>14 DEF Owed
  <2>3. /\ Looks'[w] = Looks[w] - 1 /\ Looks[w] > 0
        /\ \A v \in Workers : v # w => Looks'[v] = Looks[v]
    BY <1>8, <1>9, <1>10, <1>14 DEF Looks
  <2>4. Covered(Needs(SentPackages, Owed \ {b}), Tokens(Producing, Looks'))
    BY <1>10, <2>1, <2>3, AccountSpend DEF CreditInv, Balanced
  <2>5. Needs(SentPackages', Owed') \subseteq Needs(SentPackages, Owed \ {b})
    BY <1>11, <2>2 DEF Needs
  <2>6. Tokens(Producing, Looks') = Tokens(Producing', Looks')
    BY <1>11
  <2>7. Balanced'
    BY <2>4, <2>5, <2>6, CoveredSubset DEF Balanced
  <2> QED
    BY <1>12, <2>7 DEF CreditInv
<1> QED
  BY <1>13, <1>14

\* What a token t is that pays for a branch b in hand.
PaysFor(b, t) ==
  \/ \E v \in Workers : <<b, v>> \in active /\ LooksLeft(v) > 0 /\ t = <<1, v, 0>>
  \/ \E p \in Packages : client[p] = "registered" /\ BranchOf[p] = b /\ t = <<0, p, 0>>

\* When all pending branches are in hand, everything owed is paid for by those who hold
\* a branch and by the producers: a worker that finds nothing is not needed.
LEMMA OthersPay ==
  ASSUME TypeInv, HoldInv, NothingStranded, CreditInv,
         \A b \in Branches : b \in Range(pending) => IsActive(b),
         NEW w \in Workers, pc[w] = "pick",
         NEW looks \in [Workers -> Nat],
         \A v \in Workers : v # w => looks[v] = LooksLeft(v)
  PROVE  Covered(Needs(SentPackages, Owed), Tokens(Producing, looks))
<1> DEFINE N == Needs(SentPackages, Owed)
           T == Tokens(Producing, looks)
<1>1. ASSUME NEW b \in Owed
      PROVE  \E t \in T : PaysFor(b, t)
  <2>1. b \in Branches /\ NeedsLook(b)
    BY DEF Owed
  <2>2. IsActive(b)
    <3>1. pc[w] # "deferRegister"
      OBVIOUS
    <3>2. \A v \in Workers : pc[v] = "deferRegister" /\ work[v] = b => IsActive(b)
      BY DEF HoldInv, ActiveHeld, HasBranch, IsActive
    <3>3. queue[b] # <<>> /\ ~SentFor(b) => IsActive(b)
      BY <2>1 DEF NothingStranded, SentFor
    <3> QED
      BY <2>1, <3>2, <3>3 DEF NeedsLook
  <2>3. PICK v \in Workers : <<b, v>> \in active
    BY <2>2 DEF IsActive
  <2>4. v # w
    BY <2>1, <2>3 DEF HoldInv, ActiveHeld, HasBranch
  <2>5. CASE LooksLeft(v) > 0
    <3>1. 0 < looks[v] /\ 0 \in Nat
      BY <2>4, <2>5
    <3>2. <<1, v, 0>> \in T
      BY <3>1, TokenForms
    <3> QED
      BY <2>3, <2>5, <3>2 DEF PaysFor
  <2>6. CASE ~(LooksLeft(v) > 0)
    <3>1. PICK p \in Packages : client[p] = "registered" /\ BranchOf[p] = b
      BY <2>1, <2>3, <2>6 DEF CreditInv, HolderPays
    <3>2. p \in Producing
      BY <3>1 DEF Producing
    <3>3. <<0, p, 0>> \in T
      BY <3>2, TokenForms
    <3> QED
      BY <3>1, <3>3 DEF PaysFor
  <2> QED
    BY <2>5, <2>6
<1>2. ASSUME NEW b \in Owed, NEW c \in Owed, NEW t, PaysFor(b, t), PaysFor(c, t)
      PROVE  b = c
  <2>1. b \in Branches /\ c \in Branches
    BY DEF Owed
  <2>2. CASE \E v \in Workers : <<b, v>> \in active /\ t = <<1, v, 0>>
    <3>1. PICK v \in Workers : <<b, v>> \in active /\ t = <<1, v, 0>>
      BY <2>2
    <3>2. PICK u \in Workers : <<c, u>> \in active /\ t = <<1, u, 0>>
      <4>1. ~\E p \in Packages : t = <<0, p, 0>>
        BY <3>1
      <4> QED
        BY <1>2, <4>1, Zenon DEF PaysFor
    <3>3. u = v
      BY <3>1, <3>2
    <3> QED
      BY <2>1, <3>1, <3>2, <3>3 DEF HoldInv, ActiveHeld
  <2>3. CASE \E p \in Packages : BranchOf[p] = b /\ t = <<0, p, 0>>
    <3>1. PICK p \in Packages : BranchOf[p] = b /\ t = <<0, p, 0>>
      BY <2>3
    <3>2. PICK q \in Packages : BranchOf[q] = c /\ t = <<0, q, 0>>
      <4>1. ~\E v \in Workers : t = <<1, v, 0>>
        BY <3>1
      <4> QED
        BY <1>2, <4>1, Zenon DEF PaysFor
    <3>3. p = q
      BY <3>1, <3>2
    <3> QED
      BY <3>1, <3>2, <3>3
  <2> QED
    BY <1>2, <2>2, <2>3, Zenon DEF PaysFor
<1>3. ASSUME NEW b \in Owed, NEW p \in SentPackages
      PROVE  ~PaysFor(b, <<0, p, 0>>)
  BY <1>3 DEF PaysFor, SentPackages
<1>4. \A p \in SentPackages : <<0, p, 0>> \in T
  <2>1. SentPackages \subseteq Producing
    BY DEF SentPackages, Producing
  <2> QED
    BY <2>1, TokenForms
<1> HIDE DEF T
<1> DEFINE f == [n \in N |-> IF n[1] = 0 THEN <<0, n[2], 0>>
                                         ELSE CHOOSE t \in T : PaysFor(n[2], t)]
<1>5. ASSUME NEW n \in N
      PROVE  \/ \E p \in SentPackages : n = <<0, p>> /\ f[n] = <<0, p, 0>>
             \/ \E b \in Owed : n = <<1, b>> /\ f[n] \in T /\ PaysFor(b, f[n])
  <2>1. CASE \E p \in SentPackages : n = <<0, p>>
    <3>1. PICK p \in SentPackages : n = <<0, p>>
      BY <2>1
    <3>2. f[n] = <<0, p, 0>>
      BY <3>1
    <3> QED
      BY <3>1, <3>2
  <2>2. CASE \E b \in Owed : n = <<1, b>>
    <3>1. PICK b \in Owed : n = <<1, b>>
      BY <2>2
    <3>2. f[n] = CHOOSE t \in T : PaysFor(b, t)
      BY <3>1
    <3>3. f[n] \in T /\ PaysFor(b, f[n])
      BY <1>1, <3>2
    <3> QED
      BY <3>1, <3>3
  <2>3. (\E p \in SentPackages : n = <<0, p>>) \/ (\E b \in Owed : n = <<1, b>>)
    BY NeedForms
  <2> QED
    BY <2>1, <2>2, <2>3
<1>6. f = [n \in N |-> f[n]]
  OBVIOUS
<1> HIDE DEF f, N
<1>7. f \in [N -> T]
  BY <1>4, <1>5, <1>6
<1>8. ASSUME NEW m \in N, NEW n \in N, f[m] = f[n]
      PROVE  m = n
  <2>1. CASE \E p \in SentPackages : m = <<0, p>> /\ f[m] = <<0, p, 0>>
    <3>1. PICK p \in SentPackages : m = <<0, p>> /\ f[m] = <<0, p, 0>>
      BY <2>1
    <3>2. ~\E b \in Owed : n = <<1, b>> /\ f[n] \in T /\ PaysFor(b, f[n])
      BY <1>3, <1>8, <3>1
    <3>3. PICK q \in SentPackages : n = <<0, q>> /\ f[n] = <<0, q, 0>>
      BY <1>5, <3>2
    <3> QED
      BY <1>8, <3>1, <3>3
  <2>2. CASE \E b \in Owed : m = <<1, b>> /\ f[m] \in T /\ PaysFor(b, f[m])
    <3>1. PICK b \in Owed : m = <<1, b>> /\ PaysFor(b, f[m])
      BY <2>2
    <3>2. ~\E p \in SentPackages : n = <<0, p>> /\ f[n] = <<0, p, 0>>
      BY <1>3, <1>8, <3>1
    <3>3. PICK c \in Owed : n = <<1, c>> /\ PaysFor(c, f[n])
      BY <1>5, <3>2
    <3> QED
      BY <1>2, <1>8, <3>1, <3>3
  <2> QED
    BY <1>5, <2>1, <2>2
<1>9. Covered(N, T)
  BY <1>7, <1>8 DEF Covered
<1> QED
  BY <1>9 DEF N, T

LEMMA CreditNothing ==
  ASSUME TypeInv, TypeInv', HoldInv, NothingStranded, CreditInv,
         NEW w \in Workers, NothingToPick(w)
  PROVE  CreditInv'
<1> USE DEF CreditTypes, WakeTypes, PendingTypes
<1>0. CreditTypes
  BY TypesForCredit
<1>1. /\ pc[w] = "pick" /\ pc' = [pc EXCEPT ![w] = "global"]
      /\ UNCHANGED <<queue, mailbox, pending, active, client, work, after>>
  BY DEF NothingToPick, Goto, schedulerVars, clientVars
<1>2. pc'[w] = "global" /\ \A v \in Workers : v # w => pc'[v] = pc[v]
  BY <1>0, <1>1
<1>3. \A v \in Workers : v # w => LooksLeft(v)' = LooksLeft(v)
  BY <1>1, <1>2 DEF LooksLeft, LooksAgain
<1>4. \A b \in Branches : NeedsLook(b)' => NeedsLook(b)
  BY <1>1, <1>2 DEF NeedsLook, SentFor, IsActive
<1>5. SentPackages' = SentPackages /\ Producing' = Producing
  BY <1>1 DEF SentPackages, Producing
<1>6. Balanced'
  <2>1. Looks' \in [Workers -> Nat] /\ \A v \in Workers : Looks'[v] = LooksLeft(v)'
    BY LooksTypes DEF Looks
  <2>2. \A b \in Branches : b \in Range(pending) => IsActive(b)
    BY DEF NothingToPick, Range
  <2>3. Covered(Needs(SentPackages, Owed), Tokens(Producing, Looks'))
    BY <1>1, <1>3, <2>1, <2>2, OthersPay
  <2>4. Needs(SentPackages', Owed') \subseteq Needs(SentPackages, Owed)
    BY <1>4, <1>5 DEF Needs, Owed
  <2> QED
    BY <1>5, <2>3, <2>4, CoveredSubset DEF Balanced
<1>7. HolderPays'
  <2> SUFFICES ASSUME NEW c \in Branches, NEW v \in Workers,
                      <<c, v>> \in active, NeedsLook(c)', ~(LooksLeft(v)' > 0)
               PROVE  \E p \in Packages : client'[p] = "registered" /\ BranchOf[p] = c
    BY <1>1 DEF HolderPays
  <2>1. v # w
    BY <1>1 DEF HoldInv, ActiveHeld, HasBranch
  <2> QED
    BY <1>1, <1>3, <1>4, <2>1 DEF CreditInv, HolderPays
<1> QED
  BY <1>6, <1>7 DEF CreditInv

\* process_commit_batch/3: what a worker finds on the queue of its branch stays promised
\* by the look it takes when the package is done; one that finds nothing has no look to
\* lose.
LEMMA CreditTake ==
  ASSUME TypeInv, TypeInv', HoldInv, CreditInv, NEW w \in Workers, TakePackage(w)
  PROVE  CreditInv'
<1> USE DEF CreditTypes, WakeTypes, PendingTypes
<1>0. CreditTypes
  BY TypesForCredit
<1>1. /\ pc[w] = "take" /\ work[w] \in Branches
      /\ UNCHANGED <<pending, active, client, mailbox, work>>
  BY <1>0 DEF TakePackage, schedulerVars, clientVars, HoldTypes, WorkIsABranch, HasBranch
<1>2. CASE queue[work[w]] # <<>>
  <2>1. /\ queue' = [queue EXCEPT ![work[w]] = Tail(@)]
        /\ pc' = [pc EXCEPT ![w] = "run"]
        /\ UNCHANGED after
    BY <1>2 DEF TakePackage, Goto
  <2>2. pc'[w] = "run" /\ \A v \in Workers : v # w => pc'[v] = pc[v]
    BY <1>0, <2>1
  <2>3. \A b \in Branches : b # work[w] => queue'[b] = queue[b]
    BY <1>0, <2>1
  <2>4. <<work[w], w>> \in active
    BY <1>1 DEF HoldInv, ActiveHeld, HasBranch
  <2>5. ASSUME NEW b \in Branches, NeedsLook(b)'
        PROVE  NeedsLook(b)
    <3>1. CASE b = work[w]
      <4>1. IsActive(b)
        BY <2>4, <3>1 DEF IsActive
      <4>2. SentFor(b)' = SentFor(b)
        BY <1>1 DEF SentFor
      <4> QED
        BY <1>1, <1>2, <2>2, <2>5, <3>1, <4>1, <4>2 DEF NeedsLook
    <3>2. CASE b # work[w]
      <4>1. SentFor(b)' = SentFor(b) /\ IsActive(b)' = IsActive(b)
        BY <1>1 DEF SentFor, IsActive
      <4> QED
        BY <1>1, <2>2, <2>3, <2>5, <3>2, <4>1 DEF NeedsLook
    <3> QED
      BY <3>1, <3>2
  <2>6. ASSUME NEW v \in Workers
        PROVE  LooksLeft(v)' >= LooksLeft(v)
    <3>1. CASE v = w
      BY <1>0, <1>1, <1>2, <2>2, <3>1 DEF LooksLeft, LooksAgain
    <3>2. CASE v # w
      <4>1. pc[v] \in {"lock", "take"} => work[v] \in Branches /\ work[v] # work[w]
        BY <1>0, <2>4, <3>2 DEF HoldInv, ActiveHeld, HasBranch, HoldTypes, WorkIsABranch
      <4>2. LooksAgain(v)' = LooksAgain(v)
        BY <1>1, <2>1, <2>2, <2>3, <3>2, <4>1 DEF LooksAgain
      <4>3. LooksLeft(v)' = LooksLeft(v)
        BY <1>1, <2>2, <3>2, <4>2 DEF LooksLeft
      <4> QED
        BY <4>3, LooksTypes
    <3> QED
      BY <3>1, <3>2
  <2> QED
    BY <1>1, <2>5, <2>6, CreditSame
<1>3. CASE queue[work[w]] = <<>>
  <2>1. /\ Goto(w, "release") /\ UNCHANGED queue
        /\ \A v \in Workers : v # w => after'[v] = after[v]
    BY <1>0, <1>3 DEF TakePackage, LeaveBatch
  <2>2. LooksLeft(w)' >= LooksLeft(w)
    <3>1. LooksLeft(w) = mailbox[w]
      BY <1>0, <1>1, <1>3 DEF LooksLeft, LooksAgain
    <3>2. LooksLeft(w)' >= mailbox'[w]
      <4>1. mailbox'[w] \in Nat
        BY <1>0, <1>1
      <4> QED
        BY <4>1 DEF LooksLeft
    <3> QED
      BY <1>1, <3>1, <3>2
  <2>3. /\ "release" \in Locations
        /\ \A v \in Workers : mailbox'[v] >= mailbox[v]
    BY <1>0, <1>1 DEF Locations
  <2> QED
    BY <1>1, <2>1, <2>2, <2>3, CreditMove
<1> QED
  BY <1>2, <1>3

\* A worker that puts its package back owes the branch a registration, and is about to
\* send a message to everybody.
LEMMA CreditDefer ==
  ASSUME TypeInv, TypeInv', HoldInv, CreditInv, NEW w \in Workers, DeferJob(w)
  PROVE  CreditInv'
<1> USE DEF CreditTypes, WakeTypes, PendingTypes
<1> DEFINE b == work[w]
<1>0. CreditTypes
  BY TypesForCredit
<1>1. /\ pc[w] = "run" /\ b \in Branches /\ queue[b] # <<>>
      /\ queue'[b] # <<>>
      /\ \A c \in Branches : c # b => queue'[c] = queue[c]
      /\ pc' = [pc EXCEPT ![w] = "deferRegister"]
      /\ UNCHANGED <<pending, active, client, mailbox, work, after>>
  <2>1. PICK p \in Packages :
           /\ pc[w] = "run" /\ queue[b] # <<>>
           /\ queue' = [queue EXCEPT ![b] = Append(@, p)]
    BY DEF DeferJob, Runs, MustDefer, Put
  <2>2. b \in Branches
    BY <1>0, <2>1 DEF HoldTypes, WorkIsABranch, HasBranch
  <2>3. /\ pc' = [pc EXCEPT ![w] = "deferRegister"]
        /\ UNCHANGED <<pending, active, client, mailbox, work, after>>
    BY DEF DeferJob, Goto, schedulerVars, clientVars
  <2>4. queue[b] \in Seq(Packages) /\ queue'[b] = Append(queue[b], p)
    BY <1>0, <2>1, <2>2
  <2>5. queue'[b] # <<>>
    <3>1. Len(Append(queue[b], p)) # Len(<<>>)
      BY <2>4
    <3> QED
      BY <2>4, <3>1
  <2>6. \A c \in Branches : c # b => queue'[c] = queue[c]
    BY <1>0, <2>1
  <2> HIDE DEF b
  <2> QED
    BY <2>1, <2>2, <2>3, <2>5, <2>6
<1>2. pc'[w] = "deferRegister" /\ \A v \in Workers : v # w => pc'[v] = pc[v]
  BY <1>0, <1>1
<1>3. <<b, w>> \in active
  BY <1>1 DEF HoldInv, ActiveHeld, HasBranch
<1>4. ASSUME NEW c \in Branches, NeedsLook(c)', c # b
      PROVE  NeedsLook(c)
  <2>1. SentFor(c)' = SentFor(c) /\ IsActive(c)' = IsActive(c)
    BY <1>1 DEF SentFor, IsActive
  <2> QED
    BY <1>1, <1>2, <1>4, <2>1 DEF NeedsLook
<1>5. \A v \in Workers : v # w => LooksLeft(v)' = LooksLeft(v)
  <2> SUFFICES ASSUME NEW v \in Workers, v # w
               PROVE  LooksLeft(v)' = LooksLeft(v)
    OBVIOUS
  <2>1. pc[v] \in {"lock", "take"} => work[v] \in Branches /\ work[v] # b
    BY <1>0, <1>3 DEF HoldInv, ActiveHeld, HasBranch, HoldTypes, WorkIsABranch
  <2>2. LooksAgain(v)' = LooksAgain(v)
    BY <1>1, <1>2, <2>1 DEF LooksAgain
  <2> QED
    BY <1>1, <1>2, <2>2 DEF LooksLeft
<1>6. LooksLeft(w)' = LooksLeft(w) + 1 /\ LooksLeft(w) > 0
  BY <1>0, <1>1, <1>2 DEF LooksLeft, LooksAgain
<1>7. /\ Looks \in [Workers -> Nat] /\ Looks' \in [Workers -> Nat]
      /\ \A v \in Workers : LooksLeft(v) \in Nat /\ LooksLeft(v)' \in Nat
  BY LooksTypes
<1>8. SentPackages' = SentPackages /\ Producing' = Producing
  BY <1>1 DEF SentPackages, Producing
<1>9. Balanced'
  <2>1. /\ \A v \in Workers : Looks[v] <= Looks'[v]
        /\ Looks'[w] > Looks[w]
    BY <1>5, <1>6, <1>7 DEF Looks
  <2>2. Covered(Needs(SentPackages, Owed \cup {b}), Tokens(Producing, Looks'))
    BY <1>7, <2>1, AccountDefer DEF CreditInv, Balanced
  <2>3. Needs(SentPackages', Owed') \subseteq Needs(SentPackages, Owed \cup {b})
    BY <1>4, <1>8 DEF Needs, Owed
  <2>4. Tokens(Producing, Looks') = Tokens(Producing', Looks')
    BY <1>8
  <2> QED
    BY <2>2, <2>3, <2>4, CoveredSubset DEF Balanced
<1>10. HolderPays'
  <2> SUFFICES ASSUME NEW c \in Branches, NEW v \in Workers,
                      <<c, v>> \in active, NeedsLook(c)', ~(LooksLeft(v)' > 0)
               PROVE  \E p \in Packages : client'[p] = "registered" /\ BranchOf[p] = c
    BY <1>1 DEF HolderPays
  <2>1. v # w
    BY <1>6, <1>7
  <2>2. c # b
    BY <1>3, <2>1 DEF HoldInv, ActiveHeld
  <2> QED
    BY <1>1, <1>4, <1>5, <2>1, <2>2 DEF CreditInv, HolderPays
<1> QED
  BY <1>9, <1>10 DEF CreditInv

\* Its registration is that of a branch it has in hand.
LEMMA CreditDeferRegister ==
  ASSUME TypeInv, TypeInv', HoldInv, CreditInv, NEW w \in Workers, DeferRegister(w)
  PROVE  CreditInv'
<1> USE DEF CreditTypes, WakeTypes, PendingTypes
<1>0. CreditTypes
  BY TypesForCredit
<1>1. /\ pc[w] = "deferRegister" /\ work[w] \in Branches
      /\ RegisterPendingBranch(work[w])
      /\ pc' = [pc EXCEPT ![w] = "deferWake"]
      /\ UNCHANGED <<queue, active, client, mailbox, work, after>>
  BY <1>0 DEF DeferRegister, Goto, clientVars, HoldTypes, WorkIsABranch, HasBranch
<1>2. pc'[w] = "deferWake" /\ \A v \in Workers : v # w => pc'[v] = pc[v]
  BY <1>0, <1>1
<1>3. Range(pending') = Range(pending) \cup {work[w]}
  BY <1>0, <1>1, EnlistProperties DEF RegisterPendingBranch
<1>4. ASSUME NEW b \in Branches, NeedsLook(b)'
      PROVE  NeedsLook(b)
  <2>1. CASE b = work[w]
    BY <1>1, <2>1 DEF NeedsLook
  <2>2. CASE b # work[w]
    <3>1. SentFor(b)' = SentFor(b) /\ IsActive(b)' = IsActive(b)
      BY <1>1 DEF SentFor, IsActive
    <3> QED
      BY <1>1, <1>2, <1>3, <1>4, <2>2, <3>1 DEF NeedsLook
  <2> QED
    BY <2>1, <2>2
<1>5. \A v \in Workers : LooksLeft(v)' = LooksLeft(v)
  BY <1>1, <1>2 DEF LooksLeft, LooksAgain
<1>6. \A v \in Workers : LooksLeft(v)' >= LooksLeft(v)
  BY <1>5, LooksTypes
<1> QED
  BY <1>1, <1>4, <1>6, CreditSame

\* Its messages are the look it had promised.
LEMMA CreditDeferWake ==
  ASSUME TypeInv, TypeInv', HoldInv, CreditInv, NEW w \in Workers, DeferWake(w),
         \A v \in Workers : pc[v] # "dead"
  PROVE  CreditInv'
<1> USE DEF CreditTypes, WakeTypes
<1>0. CreditTypes
  BY TypesForCredit
<1>1. /\ pc[w] = "deferWake" /\ WakeWorkers
      /\ Goto(w, "release") /\ after' = [after EXCEPT ![w] = "top"]
      /\ UNCHANGED <<queue, pending, active, client, work>>
  BY DEF DeferWake, LeaveBatch, schedulerVars, clientVars
<1>2. \A v \in Workers : mailbox'[v] = mailbox[v] + 1 /\ mailbox[v] \in Nat
  BY <1>0, <1>1, EverybodyLooks
<1>3. pc'[w] = "release" /\ after'[w] = "top"
  BY <1>0, <1>1 DEF Goto
<1>4. LooksLeft(w)' >= LooksLeft(w)
  BY <1>1, <1>2, <1>3 DEF LooksLeft, LooksAgain
<1>5. /\ \A v \in Workers : v # w => after'[v] = after[v] /\ mailbox'[v] >= mailbox[v]
      /\ "release" \in Locations
  BY <1>0, <1>1, <1>2 DEF Locations
<1> QED
  BY <1>1, <1>4, <1>5, CreditMove

\* requeue_branch/2: a branch that is listed again was owed a look while it was in hand.
LEMMA CreditRequeue ==
  ASSUME TypeInv, TypeInv', HoldInv, CreditInv, NEW w \in Workers, Requeue(w)
  PROVE  CreditInv'
<1> USE DEF CreditTypes, WakeTypes, PendingTypes
<1> DEFINE b == work[w]
<1>0. CreditTypes
  BY TypesForCredit
<1>1. /\ pc[w] = "requeue" /\ b \in Branches
      /\ active' = active \ {<<b, w>>}
      /\ pending' = IF MoreWork(b) THEN Enlist(b, pending) ELSE pending
      /\ pc' = [pc EXCEPT ![w] = "optimize"]
      /\ UNCHANGED <<queue, client, mailbox, work, after>>
  BY <1>0 DEF Requeue, RequeueBranch, Goto, clientVars, HoldTypes, WorkIsABranch, HasBranch
<1>2. pc'[w] = "optimize" /\ \A v \in Workers : v # w => pc'[v] = pc[v]
  BY <1>0, <1>1
<1>3. /\ <<b, w>> \in active /\ IsActive(b)
      /\ \A v \in Workers : <<b, v>> \notin active'
  BY <1>1 DEF HoldInv, ActiveHeld, HasBranch, IsActive
<1>4. /\ Range(pending') \subseteq Range(pending) \cup {b}
      /\ b \in Range(pending') => MoreWork(b)
  BY <1>0, <1>1, EnlistProperties DEF MoreWork
<1>5. ASSUME NEW c \in Branches, NeedsLook(c)'
      PROVE  NeedsLook(c)
  <2>1. SentFor(c)' = SentFor(c)
    BY <1>1 DEF SentFor
  <2>2. CASE c = b
    <3>1. ~IsActive(c)'
      BY <1>3, <2>2 DEF IsActive
    <3>2. b \in Range(pending') /\ queue'[b] = <<>> => b \in Range(pending)
      BY <1>1, <1>4 DEF MoreWork
    <3> QED
      BY <1>1, <1>2, <1>3, <1>5, <2>1, <2>2, <3>1, <3>2 DEF NeedsLook
  <2>3. CASE c # b
    <3>1. IsActive(c)' = IsActive(c)
      BY <1>1, <2>3 DEF IsActive
    <3> QED
      BY <1>1, <1>2, <1>4, <1>5, <2>1, <2>3, <3>1 DEF NeedsLook
  <2> QED
    BY <2>2, <2>3
<1>6. ASSUME NEW v \in Workers
      PROVE  LooksLeft(v)' >= LooksLeft(v)
  <2>1. LooksAgain(v)' = LooksAgain(v)
    BY <1>1, <1>2 DEF LooksAgain
  <2>2. LooksLeft(v)' = LooksLeft(v)
    BY <1>1, <1>2, <2>1 DEF LooksLeft
  <2> QED
    BY <2>2, LooksTypes
<1>7. active' \subseteq active
  BY <1>1
<1> QED
  BY <1>1, <1>5, <1>6, <1>7, CreditSame

\* Nobody has been told to stop or has ended.
Quiet ==
  /\ ~shouldStop
  /\ \A w \in Workers : after[w] # "exit" /\ pc[w] \notin {"exit", "dead"}

\* The steps of a worker whose jobs do not fail.
LEMMA CreditWorker ==
  ASSUME TypeInv, TypeInv', HoldInv, NothingStranded, PendingOnce, CreditInv, Quiet,
         ~JobsMayFail, NEW w \in Workers, WorkerStep(w)
  PROVE  CreditInv'
<1> USE DEF CreditTypes, WakeTypes
<1>0. CreditTypes /\ mailbox[w] \in Nat
  BY TypesForCredit
<1>1. ASSUME NEW location \in Locations, Goto(w, location), location # "deferRegister",
             UNCHANGED <<queue, pending, active, client, mailbox>>,
             \A v \in Workers : v # w => work'[v] = work[v] /\ after'[v] = after[v],
             LooksAgain(w) => LooksAgain(w)', pc[w] \notin {"deferRegister", "deferWake"}
      PROVE  CreditInv'
  <2>1. pc'[w] = location
    BY <1>0, <1>1 DEF Goto
  <2>2. LooksLeft(w)' >= LooksLeft(w)
    BY <1>0, <1>1, <2>1 DEF LooksLeft
  <2>3. \A v \in Workers : mailbox'[v] >= mailbox[v]
    BY <1>0, <1>1
  <2> QED
    BY <1>1, <2>2, <2>3, CreditMove
<1> DEFINE Moves(location) ==
      /\ Goto(w, location)
      /\ pc[w] \notin {"deferRegister", "deferWake"}
      /\ UNCHANGED <<queue, pending, active, client, mailbox>>
<1>2. CASE LoopTop(w)
  <2>1. Moves("pick") /\ UNCHANGED <<work, after>>
    BY <1>2 DEF LoopTop, Quiet, schedulerVars, clientVars
  <2>2. LooksAgain(w)'
    BY <1>0, <2>1 DEF LooksAgain, Goto
  <2> QED
    BY <1>1, <2>1, <2>2 DEF Locations
<1>3. CASE TryBranchLock(w)
  <2>1. branchLock[work[w]] = NoWorker
    BY <1>3, HoldLockFree DEF TryBranchLock, LockFreeWhenTried
  <2>2. /\ pc[w] = "lock" /\ Moves("take") /\ UNCHANGED <<work, after>>
    BY <1>3, <2>1 DEF TryBranchLock, schedulerVars, clientVars
  <2>3. LooksAgain(w) => LooksAgain(w)'
    BY <1>0, <2>2 DEF LooksAgain, Goto
  <2> QED
    BY <1>1, <2>2, <2>3 DEF Locations
<1>4. CASE RunJob(w)
  <2>1. /\ Moves("release") /\ after' = [after EXCEPT ![w] = "top"] /\ UNCHANGED work
    BY <1>4 DEF RunJob, Runs, LeaveBatch, schedulerVars
  <2>2. LooksAgain(w)'
    BY <1>0, <2>1 DEF LooksAgain, Goto
  <2>3. \A v \in Workers : v # w => after'[v] = after[v]
    BY <1>0, <2>1
  <2> QED
    BY <1>1, <2>1, <2>2, <2>3 DEF Locations
<1>5. CASE ReleaseBranchLock(w)
  <2>1. pc[w] = "release" /\ Moves("requeue") /\ UNCHANGED <<work, after>>
    BY <1>5 DEF ReleaseBranchLock, schedulerVars, clientVars
  <2>2. LooksAgain(w) => LooksAgain(w)'
    BY <1>0, <2>1 DEF LooksAgain, Goto
  <2> QED
    BY <1>1, <2>1, <2>2 DEF Locations
<1>6. CASE RunTask(w)
  <2>1. UNCHANGED <<queue, pending, active, client, pc, work, after, mailbox>>
    BY <1>6 DEF RunTask, schedulerVars, clientVars
  <2>2. \A v \in Workers : mailbox'[v] >= mailbox[v]
    BY <1>0, <2>1
  <2> QED
    BY <2>1, <2>2, CreditMessage
<1>7. CASE TasksDone(w)
  <2>1. /\ pc[w] = "optimize" /\ Moves(after[w]) /\ UNCHANGED after
        /\ work' = [work EXCEPT ![w] = NoBranch]
    BY <1>7 DEF TasksDone, schedulerVars, clientVars
  <2>2. after[w] \in {"top", "global"}
    BY <1>0 DEF Quiet
  <2>3. LooksAgain(w) => LooksAgain(w)'
    BY <1>0, <2>1, <2>2 DEF LooksAgain, Goto
  <2>4. \A v \in Workers : v # w => work'[v] = work[v]
    BY <1>0, <2>1 DEF HoldTypes
  <2> QED
    BY <1>1, <2>1, <2>2, <2>3, <2>4 DEF Locations
<1>8. CASE TakeGlobalOptimization(w)
  <2>1. pc[w] = "global" /\ Moves("globalOptimize") /\ UNCHANGED <<work, after>>
    BY <1>8 DEF TakeGlobalOptimization, schedulerVars, clientVars
  <2>2. LooksAgain(w)'
    BY <1>0, <2>1 DEF LooksAgain, Goto
  <2> QED
    BY <1>1, <2>1, <2>2 DEF Locations
<1>9. CASE GlobalOptimizationDone(w)
  <2>1. Moves("top") /\ UNCHANGED <<work, after>>
    BY <1>9 DEF GlobalOptimizationDone, schedulerVars, clientVars
  <2>2. LooksAgain(w)'
    BY <1>0, <2>1 DEF LooksAgain, Goto
  <2> QED
    BY <1>1, <2>1, <2>2 DEF Locations
<1>10. CASE NoGlobalOptimization(w)
  <2>1. pc[w] = "global" /\ Moves("idle") /\ UNCHANGED <<work, after>>
    BY <1>10 DEF NoGlobalOptimization, schedulerVars, clientVars
  <2>2. ~LooksAgain(w)
    BY <2>1 DEF LooksAgain
  <2> QED
    BY <1>1, <2>1, <2>2 DEF Locations
<1>11. CASE WakeUp(w)
  <2>1. /\ pc[w] = "idle" /\ Goto(w, "top") /\ mailbox[w] > 0
        /\ mailbox' = [mailbox EXCEPT ![w] = @ - 1]
        /\ UNCHANGED <<queue, pending, active, client, work, after>>
    BY <1>11 DEF WakeUp, HasMessage, schedulerVars, clientVars
  <2>2. mailbox'[w] = mailbox[w] - 1 /\ \A v \in Workers : v # w => mailbox'[v] = mailbox[v]
    BY <1>0, <2>1
  <2>3. LooksLeft(w) = mailbox[w] /\ LooksLeft(w)' = mailbox'[w] + 1
    BY <1>0, <2>1, <2>2 DEF LooksLeft, LooksAgain, Goto
  <2>4. LooksLeft(w)' >= LooksLeft(w) /\ \A v \in Workers : mailbox[v] \in Nat
    BY <1>0, <2>2, <2>3
  <2>5. \A v \in Workers : v # w =>
          work'[v] = work[v] /\ after'[v] = after[v] /\ mailbox'[v] >= mailbox[v]
    BY <2>1, <2>2, <2>4
  <2> QED
    BY <2>1, <2>4, <2>5, CreditMove DEF Locations
<1>12. ~(JobFails(w) \/ ExitCleanup(w) \/ ThreadEnds(w))
  BY DEF Quiet, JobFails, ExitCleanup, ThreadEnds
<1>13. CASE \/ PickNextBranch(w) \/ NothingToPick(w) \/ TakePackage(w) \/ DeferJob(w)
            \/ DeferRegister(w) \/ DeferWake(w) \/ Requeue(w)
  BY <1>13, CreditPick, CreditNothing, CreditTake, CreditDefer, CreditDeferRegister,
     CreditDeferWake, CreditRequeue DEF Quiet
<1> QED
  BY <1>2, <1>3, <1>4, <1>5, <1>6, <1>7, <1>8, <1>9, <1>10, <1>11, <1>12, <1>13
  DEF WorkerStep

\* Without a crash and a call of stop_workers/0, nobody is told to stop or ends.
CalmInv == crashes = 0 /\ stops = 0 => Quiet

LEMMA CalmInit == Init => CalmInv
  BY DEF Init, CalmInv, Quiet

LEMMA CalmStep == TypeInv /\ CalmInv /\ [Next]_vars => CalmInv'
<1> SUFFICES ASSUME TypeInv, CalmInv, [Next]_vars, crashes' = 0, stops' = 0
             PROVE  Quiet'
  BY DEF CalmInv
<1> DEFINE Types == WakeTypes /\ crashes \in Nat /\ stops \in Nat
<1>0. Types
  BY TypesForWake DEF TypeInv, TypeOK, PoolTypes
<1> USE DEF WakeTypes, poolVars
<1>1. ASSUME NEW w \in Workers, UNCHANGED <<crashes, stops, shouldStop>>,
             NEW location \in Locations \ {"exit", "dead"}, Goto(w, location),
             NEW next \in {"top", "global"},
             after' = after \/ after' = [after EXCEPT ![w] = next]
      PROVE  Quiet'
  BY <1>0, <1>1 DEF CalmInv, Quiet, Goto
<1>2. ASSUME UNCHANGED <<crashes, stops, shouldStop, pc, after>>
      PROVE  Quiet'
  BY <1>2 DEF CalmInv, Quiet
<1>3. crashes = 0 /\ stops = 0 => Quiet
  BY DEF CalmInv
<1>4. ASSUME NEW w \in Workers, TasksDone(w)
      PROVE  Quiet'
  <2>1. after[w] \in Locations \ {"exit", "dead"} /\ UNCHANGED poolVars
    BY <1>0, <1>3, <1>4 DEF TasksDone, Quiet, Locations
  <2> QED
    BY <1>1, <1>4, <2>1 DEF TasksDone
<1>5. ASSUME NEW w \in Workers, LoopTop(w)
      PROVE  Quiet'
  <2>1. Goto(w, "pick") /\ UNCHANGED <<after, crashes, stops, shouldStop>>
    BY <1>3, <1>5 DEF LoopTop, Quiet
  <2> QED
    BY <1>1, <2>1 DEF Locations
<1>6. ASSUME NEW w \in Workers, ExitCleanup(w) \/ ThreadEnds(w) \/ Crash(w) \/ JoinWorker(w)
      PROVE  Quiet'
  BY <1>0, <1>3, <1>6 DEF ExitCleanup, ThreadEnds, Crash, JoinWorker, Quiet
<1>7. CASE StopWorkers \/ StartWorkers
  BY <1>0, <1>3, <1>7 DEF StopWorkers, StartWorkers, Quiet
<1>8. ASSUME NEW w \in Workers,
             \/ PickNextBranch(w) \/ NothingToPick(w) \/ TryBranchLock(w) \/ TakePackage(w)
             \/ RunJob(w) \/ JobFails(w) \/ DeferJob(w) \/ DeferRegister(w)
             \/ DeferWake(w) \/ ReleaseBranchLock(w) \/ Requeue(w) \/ WakeUp(w)
             \/ TakeGlobalOptimization(w) \/ GlobalOptimizationDone(w)
             \/ NoGlobalOptimization(w)
      PROVE  Quiet'
  <2>1. /\ UNCHANGED poolVars
        /\ \E location \in Locations \ {"exit", "dead"} : Goto(w, location)
        /\ \/ UNCHANGED after
           \/ \E next \in {"top", "global"} : after' = [after EXCEPT ![w] = next]
    BY <1>8 DEF PickNextBranch, NothingToPick, TryBranchLock, TakePackage, RunJob,
       JobFails, DeferJob, DeferRegister, DeferWake, ReleaseBranchLock, Requeue, WakeUp,
       TakeGlobalOptimization, GlobalOptimizationDone, NoGlobalOptimization, LeaveBatch,
       Locations
  <2> QED
    BY <1>1, <2>1
<1>9. CASE \/ \E w \in Workers : RunTask(w)
           \/ \E p \in Packages : EnqueueSend(p) \/ ProducerStep(p) \/ ProducerGivesUp(p)
           \/ \E b \in Branches : ScheduleBranchOptimization(b)
           \/ \E d \in Databases : ReadActiveCount(d) \/ ScheduleDatabaseOptimization(d)
           \/ UNCHANGED vars
  <2>1. UNCHANGED <<crashes, stops, shouldStop, pc, after>>
    BY <1>9 DEF RunTask, EnqueueSend, ProducerStep, EnqueueRegister, EnqueueWake,
       ReceiveResult, ProducerGivesUp, ScheduleBranchOptimization, ReadActiveCount,
       ScheduleDatabaseOptimization, vars, threadVars
  <2> QED
    BY <1>2, <2>1
<1> QED
  BY <1>4, <1>5, <1>6, <1>7, <1>8, <1>9 DEF Next, WorkerStep

\* register_pending_branch/1 and requeue_branch/2 list a branch once.
LEMMA EnlistOnce ==
  ASSUME NEW S, NEW s \in Seq(S), NEW b \in S,
         \A j, k \in 1 .. Len(s) : s[j] = s[k] => j = k
  PROVE  \A j, k \in 1 .. Len(Enlist(b, s)) : Enlist(b, s)[j] = Enlist(b, s)[k] => j = k
<1>1. CASE b \in Range(s)
  BY <1>1 DEF Enlist
<1>2. CASE b \notin Range(s)
  <2> DEFINE r == Append(s, b)
  <2>1. Enlist(b, s) = r
    BY <1>2 DEF Enlist
  <2>2. /\ Len(r) = Len(s) + 1 /\ r[Len(s) + 1] = b
        /\ \A j \in 1 .. Len(s) : r[j] = s[j] /\ s[j] # b
    BY <1>2 DEF Range
  <2> HIDE DEF r
  <2>3. ASSUME NEW j \in 1 .. Len(r), NEW k \in 1 .. Len(r), r[j] = r[k]
        PROVE  j = k
    <3>1. /\ j \in 1 .. Len(s) \/ j = Len(s) + 1
          /\ k \in 1 .. Len(s) \/ k = Len(s) + 1
      BY <2>2
    <3> QED
      BY <2>2, <2>3, <3>1
  <2> QED
    BY <2>1, <2>3
<1> QED
  BY <1>1, <1>2

LEMMA OnceInit == Init => PendingOnce
  BY DEF Init, PendingOnce

LEMMA OnceStep == TypeInv /\ PendingOnce /\ [Next]_vars => PendingOnce'
<1> SUFFICES ASSUME TypeInv, PendingOnce, [Next]_vars
             PROVE  PendingOnce'
  OBVIOUS
<1>0. CreditTypes
  BY TypesForCredit
<1> USE DEF CreditTypes, PendingTypes
<1>1. ASSUME NEW b \in Branches, pending' = Enlist(b, pending)
      PROVE  PendingOnce'
  BY <1>0, <1>1, EnlistOnce, SMTT(30) DEF PendingOnce
<1>2. ASSUME UNCHANGED pending
      PROVE  PendingOnce'
  BY <1>2 DEF PendingOnce
<1>3. ASSUME NEW b \in Branches, NEW w \in Workers, RequeueBranch(b, w)
      PROVE  PendingOnce'
  BY <1>1, <1>2, <1>3 DEF RequeueBranch
<1>4. ASSUME NEW w \in Workers, PickNextBranch(w)
      PROVE  PendingOnce'
  <2>1. PICK i \in 1 .. Len(pending) : pending' = RemoveAt(pending, i)
    <3>1. DOMAIN pending = 1 .. Len(pending)
      BY <1>0
    <3> QED
      BY <1>4, <3>1, Zenon DEF PickNextBranch
  <2> QED
    BY <1>0, <2>1, RemoveAtOnce, SMTT(30) DEF PendingOnce
<1>5. ASSUME NEW w \in Workers, DeferRegister(w)
      PROVE  PendingOnce'
  <2>1. work[w] \in Branches /\ pending' = Enlist(work[w], pending)
    BY <1>0, <1>5 DEF DeferRegister, RegisterPendingBranch, HoldTypes, WorkIsABranch, HasBranch
  <2> QED
    BY <1>1, <2>1
<1>6. ASSUME NEW w \in Workers, Requeue(w) \/ ExitCleanup(w)
      PROVE  PendingOnce'
  <2>1. Requeue(w) => work[w] \in Branches
    BY <1>0 DEF Requeue, HoldTypes, WorkIsABranch, HasBranch
  <2> QED
    BY <1>3, <1>6, <2>1 DEF Requeue, ExitCleanup
<1>7. ASSUME NEW p \in Packages, EnqueueRegister(p)
      PROVE  PendingOnce'
  BY <1>0, <1>1, <1>7 DEF EnqueueRegister, RegisterPendingBranch
<1>8. ASSUME NEW p \in Packages,
             EnqueueSend(p) \/ EnqueueWake(p) \/ ReceiveResult(p) \/ ProducerGivesUp(p)
      PROVE  PendingOnce'
  BY <1>2, <1>8 DEF EnqueueSend, EnqueueWake, ReceiveResult, ProducerGivesUp, schedulerVars
<1>9. ASSUME NEW w \in Workers,
             \/ LoopTop(w) \/ NothingToPick(w) \/ TryBranchLock(w) \/ TakePackage(w)
             \/ RunJob(w) \/ JobFails(w) \/ DeferJob(w) \/ DeferWake(w)
             \/ ReleaseBranchLock(w) \/ RunTask(w) \/ TasksDone(w)
             \/ TakeGlobalOptimization(w) \/ GlobalOptimizationDone(w)
             \/ NoGlobalOptimization(w) \/ WakeUp(w) \/ ThreadEnds(w) \/ Crash(w)
             \/ JoinWorker(w)
      PROVE  PendingOnce'
  BY <1>2, <1>9 DEF LoopTop, NothingToPick, TryBranchLock, TakePackage, RunJob, JobFails,
     DeferJob, DeferWake, ReleaseBranchLock, RunTask, TasksDone, TakeGlobalOptimization,
     GlobalOptimizationDone, NoGlobalOptimization, WakeUp, ThreadEnds, Crash, JoinWorker,
     schedulerVars
<1>10. CASE \/ \E b \in Branches : ScheduleBranchOptimization(b)
            \/ \E d \in Databases : ReadActiveCount(d) \/ ScheduleDatabaseOptimization(d)
            \/ StopWorkers \/ StartWorkers \/ UNCHANGED vars
  BY <1>2, <1>10 DEF ScheduleBranchOptimization, ReadActiveCount,
     ScheduleDatabaseOptimization, StopWorkers, StartWorkers, vars, schedulerVars
<1> QED
  BY <1>4, <1>5, <1>6, <1>7, <1>8, <1>9, <1>10 DEF Next, WorkerStep, ProducerStep

------------------------------------------------------------------------------
(* The theorem *)

\* The case the theorem is about: no worker has been lost in mid work.
Calm == ~JobsMayFail /\ crashes = 0 /\ stops = 0

WakeInv == PendingOnce /\ CalmInv /\ (Calm => CreditInv)

LEMMA WakeInit == Init => WakeInv
<1> SUFFICES ASSUME Init PROVE WakeInv
  OBVIOUS
<1>1. Owed = {} /\ SentPackages = {} /\ active = {}
  BY DEF Init, Owed, NeedsLook, Range, SentPackages
<1>2. Needs(SentPackages, Owed) = {}
  BY <1>1 DEF Needs
<1>3. Covered({}, Tokens(Producing, Looks))
  <2> DEFINE f == [n \in {} |-> n]
  <2>1. f \in [{} -> Tokens(Producing, Looks)]
    OBVIOUS
  <2> QED
    BY <2>1 DEF Covered
<1>4. CreditInv
  BY <1>1, <1>2, <1>3 DEF CreditInv, Balanced, HolderPays
<1> QED
  BY <1>4, OnceInit, CalmInit DEF WakeInv

LEMMA CreditStep ==
  ASSUME TypeInv, TypeInv', HoldInv, NothingStranded, WakeInv, Workers # {}, [Next]_vars,
         Calm'
  PROVE  CreditInv'
<1>0. crashes \in Nat /\ stops \in Nat /\ TypeInv'
  BY DEF TypeInv, TypeOK, PoolTypes
<1>1. ASSUME NEW w \in Workers, Crash(w)
      PROVE  FALSE
  BY <1>0, <1>1 DEF Crash, Calm
<1>2. ~StopWorkers
  BY <1>0 DEF StopWorkers, Calm
<1>3. Calm
  <2>1. CASE \E w \in Workers : WorkerStep(w) \/ JoinWorker(w)
    BY <2>1 DEF Calm, WorkerStep, JoinWorker, LoopTop, PickNextBranch, NothingToPick,
       TryBranchLock, TakePackage, RunJob, JobFails, DeferJob, DeferRegister, DeferWake,
       ReleaseBranchLock, Requeue, RunTask, TasksDone, TakeGlobalOptimization,
       GlobalOptimizationDone, NoGlobalOptimization, WakeUp, ExitCleanup, ThreadEnds,
       poolVars
  <2>2. CASE \/ \E p \in Packages :
                  EnqueueSend(p) \/ ProducerStep(p) \/ ProducerGivesUp(p)
             \/ \E b \in Branches : ScheduleBranchOptimization(b)
             \/ \E d \in Databases : ReadActiveCount(d) \/ ScheduleDatabaseOptimization(d)
             \/ StartWorkers \/ UNCHANGED vars
    BY <2>2 DEF Calm, EnqueueSend, ProducerStep, EnqueueRegister, EnqueueWake,
       ReceiveResult, ProducerGivesUp, ScheduleBranchOptimization, ReadActiveCount,
       ScheduleDatabaseOptimization, StartWorkers, vars, poolVars
  <2> QED
    BY <1>1, <1>2, <2>1, <2>2 DEF Next
<1>4. CreditInv /\ Quiet /\ PendingOnce /\ ~JobsMayFail
  BY <1>3 DEF WakeInv, CalmInv, Calm
<1>5. \A w \in Workers : pc[w] # "dead"
  BY <1>4 DEF Quiet
<1>6. ASSUME UNCHANGED <<queue, pending, active, pc, work, after>>,
             UNCHANGED client, WakeWorkers \/ UNCHANGED mailbox
      PROVE  CreditInv'
  <2>1. \A w \in Workers : mailbox'[w] >= mailbox[w]
    BY <1>5, <1>6, EverybodyLooks, TypesForWake DEF WakeTypes
  <2> QED
    BY <1>4, <1>6, <2>1, CreditMessage
<1>7. ASSUME NEW p \in Packages, ReceiveResult(p) \/ ProducerGivesUp(p)
      PROVE  CreditInv'
  <2>1. /\ client[p] = "waiting" /\ client'[p] \in {"answered", "gaveUp"}
        /\ \A q \in Packages : q # p => client'[q] = client[q]
        /\ UNCHANGED <<queue, pending, active, mailbox, pc, work, after>>
    BY <1>7, TypesForWake DEF WakeTypes, ReceiveResult, ProducerGivesUp, schedulerVars,
       threadVars
  <2>2. \A b \in Branches : NeedsLook(b)' => NeedsLook(b)
    <3>1. \A b \in Branches : SentFor(b)' = SentFor(b)
      BY <2>1 DEF SentFor
    <3> QED
      BY <2>1, <3>1 DEF NeedsLook, IsActive
  <2>3. \A w \in Workers : LooksLeft(w)' = LooksLeft(w)
    BY <2>1 DEF LooksLeft, LooksAgain
  <2>4. \A w \in Workers : LooksLeft(w)' >= LooksLeft(w)
    BY <2>3, LooksTypes
  <2> QED
    BY <1>4, <2>1, <2>2, <2>4, CreditSame
<1>8. ASSUME NEW p \in Packages, EnqueueSend(p) \/ EnqueueRegister(p) \/ EnqueueWake(p)
      PROVE  CreditInv'
  BY <1>4, <1>5, <1>8, CreditSend, CreditRegister, CreditWake
<1>9. ASSUME NEW w \in Workers, WorkerStep(w)
      PROVE  CreditInv'
  BY <1>4, <1>9, CreditWorker
<1>10. ASSUME NEW w \in Workers, JoinWorker(w)
       PROVE  CreditInv'
  BY <1>4, <1>10 DEF JoinWorker, Quiet
<1>11. ~StartWorkers
  BY <1>4 DEF StartWorkers, Quiet
<1>12. CASE \/ \E b \in Branches : ScheduleBranchOptimization(b)
            \/ \E d \in Databases : ReadActiveCount(d) \/ ScheduleDatabaseOptimization(d)
            \/ UNCHANGED vars
  BY <1>6, <1>12 DEF ScheduleBranchOptimization, ReadActiveCount,
     ScheduleDatabaseOptimization, vars, schedulerVars, threadVars, clientVars
<1> QED
  BY <1>1, <1>2, <1>7, <1>8, <1>9, <1>10, <1>11, <1>12 DEF Next, ProducerStep

\* A branch that could be picked is owed a look, or its producer has a token: somebody
\* who is not asleep for good has it.
LEMMA WakeImplies == TypeInv /\ WakeInv => NoLostWakeup
<1> SUFFICES ASSUME TypeInv, WakeInv, Calm, NEW b \in Branches, Claimable(b)
             PROVE  \/ \E w \in Workers : LooksAgain(w) \/ mailbox[w] > 0
                    \/ \E p \in Packages : client[p] \in {"sent", "registered"}
  BY DEF NoLostWakeup, Calm
<1>1. CASE SentFor(b)
  BY <1>1 DEF SentFor
<1>2. CASE ~SentFor(b)
  <2>1. b \in Owed
    BY <1>2 DEF Owed, NeedsLook, Claimable
  <2>2. <<1, b>> \in Needs(SentPackages, Owed)
    BY <2>1, NeedForms
  <2>3. PICK t \in Tokens(Producing, Looks) : TRUE
    BY <2>2 DEF WakeInv, CreditInv, Balanced, Covered
  <2>4. Looks \in [Workers -> Nat] /\ mailbox \in [Workers -> Nat]
    BY LooksTypes, TypesForWake DEF WakeTypes
  <2>5. \/ \E p \in Producing : TRUE
        \/ \E w \in Workers, i \in Nat : i < Looks[w]
    BY <2>3, <2>4, TokenForms
  <2>6. ASSUME NEW w \in Workers, NEW i \in Nat, i < Looks[w]
        PROVE  LooksAgain(w) \/ mailbox[w] > 0
    <3>1. LooksLeft(w) > 0
      BY <2>4, <2>6 DEF Looks
    <3>2. pc[w] \in {"deferRegister", "deferWake"} => LooksAgain(w)
      BY DEF LooksAgain
    <3> QED
      BY <2>4, <3>1, <3>2 DEF LooksLeft
  <2> QED
    BY <2>5, <2>6 DEF Producing
<1> QED
  BY <1>1, <1>2

LEMMA WakeStep ==
  ASSUME Workers # {}
  PROVE  TypeInv /\ TypeInv' /\ HoldInv /\ NothingStranded /\ WakeInv /\ [Next]_vars
           => WakeInv'
<1> SUFFICES ASSUME TypeInv, TypeInv', HoldInv, NothingStranded, WakeInv, [Next]_vars
             PROVE  WakeInv'
  OBVIOUS
<1>1. PendingOnce' /\ CalmInv'
  BY OnceStep, CalmStep DEF WakeInv
<1>2. Calm' => CreditInv'
  BY CreditStep
<1> QED
  BY <1>1, <1>2 DEF WakeInv

\* No wake-up is lost: while a branch could be picked, some worker that is not asleep will
\* look at the list of pending branches again, or has a message, or a producer is about to
\* send one to everybody; for any number of workers, branches, packages and optimizations,
\* as long as no worker is lost in mid work and the pool is not restarted.
THEOREM NoWakeupLost == Workers # {} => (Spec => []NoLostWakeup)
<1> SUFFICES ASSUME Workers # {} PROVE Spec => []NoLostWakeup
  OBVIOUS
<1>1. Init => WakeInv
  BY WakeInit
<1>2. TypeInv /\ TypeInv' /\ HoldInv /\ NothingStranded /\ WakeInv /\ [Next]_vars => WakeInv'
  BY WakeStep
<1>3. TypeInv /\ WakeInv => NoLostWakeup
  BY WakeImplies
<1> QED
  BY <1>1, <1>2, <1>3, HoldCorrect, NeverStranded, PTL DEF Spec

(* Part III: the queue implements the service of its branches *)

------------------------------------------------------------------------------
(* The queue of a branch *)

\* Packages of the branch b, out of the set A, each of them once.
InLine(b, q, A) ==
  /\ \A p \in Range(q) : p \in A /\ BranchOf[p] = b
  /\ \A i, j \in 1 .. Len(q) : q[i] = q[j] => i = j

LEMMA LineAppend ==
  ASSUME NEW b, NEW A, NEW q \in Seq(Packages), InLine(b, q, A),
         NEW p \in Packages, p \in A, BranchOf[p] = b, p \notin Range(q)
  PROVE  /\ InLine(b, Append(q, p), A)
         /\ Range(Append(q, p)) = Range(q) \cup {p}
<1> DEFINE r == Append(q, p)
<1>1. /\ Len(r) = Len(q) + 1 /\ r[Len(q) + 1] = p
      /\ \A i \in 1 .. Len(q) : r[i] = q[i] /\ q[i] # p
      /\ DOMAIN r = 1 .. Len(r) /\ DOMAIN q = 1 .. Len(q)
  BY DEF Range
<1> HIDE DEF r
<1>2. \A i \in 1 .. Len(r) : i \in 1 .. Len(q) \/ i = Len(q) + 1
  BY <1>1
<1>3. Range(r) = Range(q) \cup {p}
  BY <1>1, <1>2 DEF Range
<1>4. \A i, j \in 1 .. Len(q) : q[i] = q[j] => i = j
  BY DEF InLine
<1>5. ASSUME NEW i \in 1 .. Len(r), NEW j \in 1 .. Len(r), r[i] = r[j]
      PROVE  i = j
  BY <1>1, <1>2, <1>4, <1>5
<1> QED
  BY <1>3, <1>5 DEF InLine, r

LEMMA LineTail ==
  ASSUME NEW b, NEW A, NEW q \in Seq(Packages), InLine(b, q, A), q # <<>>
  PROVE  /\ InLine(b, Tail(q), A)
         /\ Head(q) \in Range(q)
         /\ Range(Tail(q)) = Range(q) \ {Head(q)}
<1> DEFINE r == Tail(q)
<1>1. /\ Len(q) \in Nat \ {0} /\ Head(q) = q[1] /\ Len(r) = Len(q) - 1
      /\ \A i \in 1 .. Len(r) : r[i] = q[i + 1]
      /\ DOMAIN r = 1 .. Len(r) /\ DOMAIN q = 1 .. Len(q)
  OBVIOUS
<1>2. /\ \A i \in 1 .. Len(r) : i + 1 \in 1 .. Len(q) /\ i + 1 # 1
      /\ \A i \in 1 .. Len(q) : i # 1 => i - 1 \in 1 .. Len(r) /\ (i - 1) + 1 = i
      /\ 1 \in 1 .. Len(q)
  BY <1>1
<1> HIDE DEF r
<1>3. \A i, j \in 1 .. Len(q) : q[i] = q[j] => i = j
  BY DEF InLine
<1>4. Head(q) \in Range(q)
  BY <1>1, <1>2 DEF Range
<1>5. Range(r) \subseteq Range(q) \ {Head(q)}
  BY <1>1, <1>2, <1>3, SMTT(30) DEF Range
<1>6. Range(q) \ {Head(q)} \subseteq Range(r)
  <2> SUFFICES ASSUME NEW i \in 1 .. Len(q), i # 1
               PROVE  q[i] \in Range(r)
    BY <1>1 DEF Range
  <2>1. r[i - 1] = q[i] /\ i - 1 \in 1 .. Len(r)
    BY <1>1, <1>2
  <2> QED
    BY <1>1, <2>1 DEF Range
<1>7. ASSUME NEW i \in 1 .. Len(r), NEW j \in 1 .. Len(r), r[i] = r[j]
      PROVE  i = j
  <2>1. i + 1 = j + 1
    BY <1>1, <1>2, <1>3, <1>7
  <2> QED
    BY <2>1
<1>8. InLine(b, r, A)
  BY <1>5, <1>7 DEF InLine
<1> QED
  BY <1>4, <1>5, <1>6, <1>8 DEF r

LEMMA LineSame ==
  ASSUME NEW b, NEW A, NEW q, InLine(b, q, A), NEW B,
         \A p \in A : BranchOf[p] = b /\ p \in Range(q) => p \in B
  PROVE  InLine(b, q, B)
  BY DEF InLine

------------------------------------------------------------------------------
(* Where packages are *)

\* Packages that were sent and have no answer.
Awaiting == {p \in Packages : client[p] # "idle" /\ reply[p] = NoAnswer}

\* A worker has a package in hand exactly while it runs it.
JobRuns == \A w \in Workers : job[w] # NoPackage <=> pc[w] = "run"

QueueSound == \A b \in Branches : InLine(b, queue[b], Awaiting)

JobSound ==
  \A w \in Workers : job[w] # NoPackage =>
    /\ job[w] \in Awaiting
    /\ BranchOf[job[w]] = work[w]
    /\ job[w] \notin Range(queue[work[w]])

\* A package is in one place, a queue of its branch or the hands of a worker, until it is
\* answered.
PlaceInv ==
  /\ JobRuns /\ QueueSound /\ JobSound
  /\ \A p \in Packages : client[p] = "idle" => reply[p] = NoAnswer

\* What the steps below use of the types.
PlaceTypes ==
  /\ HoldTypes
  /\ queue \in [Branches -> Seq(Packages)]
  /\ job \in [Workers -> Packages \cup {NoPackage}]
  /\ client \in [Packages -> ClientStates]
  /\ reply \in [Packages -> Answers \cup {NoAnswer}]
  /\ BranchOf \in [Packages -> Branches]
  /\ NoPackage \notin Packages /\ NoAnswer \notin Answers

LEMMA TypesForPlace == TypeInv => PlaceTypes
  BY TypesForHold, BranchOfAssumption, NullAssumption
  DEF TypeInv, TypeOK, QueueTypes, ThreadTypes, ClientTypes, PlaceTypes

LEMMA PlaceInit == Init => PlaceInv
  BY DEF Init, PlaceInv, JobRuns, QueueSound, JobSound, InLine, Range

\* The worker that has a package of a branch in hand is the only one that has the branch.
LEMMA OneJob ==
  ASSUME TypeInv, HoldInv, PlaceInv, NEW v \in Workers, NEW w \in Workers,
         job[v] # NoPackage, work[v] = work[w], pc[w] \in HasBranch
  PROVE  v = w
<1>1. pc[v] = "run"
  BY DEF PlaceInv, JobRuns
<1>2. work[w] \in Branches
  BY TypesForHold DEF HoldTypes, WorkIsABranch
<1> QED
  BY <1>1, <1>2 DEF HoldInv, ActiveHeld, HasBranch

\* A step that moves no package and answers none.
LEMMA PlaceSame ==
  ASSUME PlaceInv, UNCHANGED <<queue, job, reply>>,
         \A p \in Packages : client'[p] = "idle" <=> client[p] = "idle",
         \A w \in Workers : pc'[w] = "run" <=> pc[w] = "run",
         \A w \in Workers : pc[w] = "run" => work'[w] = work[w]
  PROVE  PlaceInv'
<1>1. Awaiting' = Awaiting
  BY DEF Awaiting
<1>2. JobRuns' /\ QueueSound' /\ JobSound'
  BY <1>1 DEF PlaceInv, JobRuns, QueueSound, JobSound
<1> QED
  BY <1>2 DEF PlaceInv

LEMMA PlaceSend ==
  ASSUME TypeInv, PlaceInv, NEW p \in Packages, EnqueueSend(p)
  PROVE  PlaceInv'
<1> USE DEF PlaceTypes
<1>0. PlaceTypes
  BY TypesForPlace
<1> DEFINE b == BranchOf[p]
<1>1. /\ client[p] = "idle" /\ client'[p] = "sent"
      /\ \A o \in Packages : o # p => client'[o] = client[o]
      /\ b \in Branches /\ queue'[b] = Append(queue[b], p)
      /\ \A c \in Branches : c # b => queue'[c] = queue[c]
      /\ UNCHANGED <<pc, work, job, reply>>
  BY <1>0 DEF EnqueueSend, Put, threadVars
<1>2. Awaiting' = Awaiting \cup {p} /\ p \notin Awaiting
  BY <1>1 DEF Awaiting, PlaceInv
<1>3. \A c \in Branches : queue[c] \in Seq(Packages) /\ InLine(c, queue[c], Awaiting')
  BY <1>0, <1>2, LineSame DEF PlaceInv, QueueSound
<1>4. p \notin Range(queue[b])
  BY <1>1, <1>2 DEF PlaceInv, QueueSound, InLine
<1>5. /\ InLine(b, Append(queue[b], p), Awaiting')
      /\ Range(Append(queue[b], p)) = Range(queue[b]) \cup {p}
  <2>1. p \in Awaiting' /\ queue[b] \in Seq(Packages) /\ InLine(b, queue[b], Awaiting')
    BY <1>1, <1>2, <1>3
  <2> QED
    BY <1>4, <2>1, LineAppend
<1>6. QueueSound'
  BY <1>1, <1>3, <1>5 DEF QueueSound
<1>7. JobSound'
  <2> SUFFICES ASSUME NEW w \in Workers, job[w] # NoPackage
               PROVE  /\ job[w] \in Awaiting' /\ BranchOf[job[w]] = work[w]
                      /\ job[w] \notin Range(queue'[work[w]])
    BY <1>1 DEF JobSound
  <2>1. /\ job[w] \in Awaiting /\ BranchOf[job[w]] = work[w] /\ work[w] \in Branches
        /\ job[w] \notin Range(queue[work[w]])
    BY <1>0 DEF PlaceInv, JobSound, Awaiting
  <2>2. job[w] # p
    BY <1>2, <2>1
  <2>3. CASE work[w] = b
    <3>1. Range(queue'[work[w]]) = Range(queue[work[w]]) \cup {p}
      BY <1>1, <1>5, <2>3
    <3> QED
      BY <1>2, <2>1, <2>2, <3>1
  <2>4. CASE work[w] # b
    BY <1>1, <1>2, <2>1, <2>4
  <2> QED
    BY <2>3, <2>4
<1>8. JobRuns' /\ \A o \in Packages : client'[o] = "idle" => reply'[o] = NoAnswer
  BY <1>1 DEF PlaceInv, JobRuns
<1> QED
  BY <1>6, <1>7, <1>8 DEF PlaceInv

\* process_commit_batch/3 takes the oldest package out of the queue.
LEMMA PlaceTake ==
  ASSUME TypeInv, HoldInv, PlaceInv, NEW w \in Workers, TakePackage(w)
  PROVE  PlaceInv'
<1> USE DEF PlaceTypes
<1>0. PlaceTypes
  BY TypesForPlace
<1>1. CASE queue[work[w]] = <<>>
  <2>1. /\ pc[w] = "take" /\ pc' = [pc EXCEPT ![w] = "release"]
        /\ UNCHANGED <<queue, job, reply, client, work>>
    BY <1>1 DEF TakePackage, LeaveBatch, Goto, clientVars
  <2> QED
    BY <1>0, <2>1, PlaceSame DEF HoldTypes
<1>2. CASE queue[work[w]] # <<>>
  <2> DEFINE b == work[w]
             q == queue[b]
  <2>1. /\ pc[w] = "take" /\ pc' = [pc EXCEPT ![w] = "run"]
        /\ queue' = [queue EXCEPT ![b] = Tail(q)] /\ job' = [job EXCEPT ![w] = Head(q)]
        /\ UNCHANGED <<client, reply, work>>
    BY <1>2 DEF TakePackage, Goto, clientVars
  <2>2. b \in Branches /\ q \in Seq(Packages) /\ InLine(b, q, Awaiting)
    BY <1>0, <2>1 DEF PlaceInv, QueueSound, HoldTypes, WorkIsABranch, HasBranch
  <2>3. /\ InLine(b, Tail(q), Awaiting) /\ Head(q) \in Range(q)
        /\ Range(Tail(q)) = Range(q) \ {Head(q)}
    BY <1>2, <2>2, LineTail
  <2>4. Head(q) \in Awaiting /\ BranchOf[Head(q)] = b /\ Head(q) \in Packages
    BY <2>2, <2>3 DEF InLine, Awaiting
  <2>5. /\ queue'[b] = Tail(q) /\ \A c \in Branches : c # b => queue'[c] = queue[c]
        /\ job'[w] = Head(q) /\ \A v \in Workers : v # w => job'[v] = job[v]
        /\ pc'[w] = "run" /\ \A v \in Workers : v # w => pc'[v] = pc[v]
    BY <1>0, <2>1, <2>2 DEF HoldTypes
  <2>6. Awaiting' = Awaiting
    BY <2>1 DEF Awaiting
  <2> HIDE DEF q
  <2>7. QueueSound'
    BY <2>3, <2>5, <2>6 DEF PlaceInv, QueueSound
  <2>8. JobSound'
    <3> SUFFICES ASSUME NEW v \in Workers, job'[v] # NoPackage
                 PROVE  /\ job'[v] \in Awaiting /\ BranchOf[job'[v]] = work[v]
                        /\ job'[v] \notin Range(queue'[work[v]])
      BY <2>1, <2>6 DEF JobSound
    <3>1. CASE v = w
      BY <2>3, <2>4, <2>5, <3>1
    <3>2. CASE v # w
      <4>1. /\ job'[v] = job[v] /\ job[v] \in Awaiting /\ BranchOf[job[v]] = work[v]
            /\ job[v] \notin Range(queue[work[v]])
        BY <2>5, <3>2 DEF PlaceInv, JobSound
      <4>2. work[v] # b /\ work[v] \in Branches
        BY <1>0, <2>1, <2>5, <3>2, <4>1, OneJob DEF HasBranch, Awaiting
      <4> QED
        BY <2>5, <4>1, <4>2
    <3> QED
      BY <3>1, <3>2
  <2>9. JobRuns'
    BY <1>0, <2>1, <2>4, <2>5 DEF PlaceInv, JobRuns
  <2>10. \A p \in Packages : client'[p] = "idle" => reply'[p] = NoAnswer
    BY <2>1 DEF PlaceInv
  <2> QED
    BY <2>7, <2>8, <2>9, <2>10 DEF PlaceInv
<1> QED
  BY <1>1, <1>2

\* Background work goes back to the end of the queue.
LEMMA PlaceDefer ==
  ASSUME TypeInv, HoldInv, PlaceInv, NEW w \in Workers, DeferJob(w)
  PROVE  PlaceInv'
<1> USE DEF PlaceTypes
<1> DEFINE b == work[w]
           q == queue[b]
           p == job[w]
<1>0. PlaceTypes
  BY TypesForPlace
<1>1. /\ pc[w] = "run" /\ pc' = [pc EXCEPT ![w] = "deferRegister"]
      /\ queue' = [queue EXCEPT ![b] = Append(q, p)]
      /\ job' = [job EXCEPT ![w] = NoPackage]
      /\ UNCHANGED <<client, reply, work>>
  BY DEF DeferJob, Runs, Put, Goto, clientVars
<1>2. b \in Branches /\ q \in Seq(Packages) /\ InLine(b, q, Awaiting)
  BY <1>0, <1>1 DEF PlaceInv, QueueSound, HoldTypes, WorkIsABranch, HasBranch
<1>3. p \in Awaiting /\ BranchOf[p] = b /\ p \notin Range(q) /\ p \in Packages
  BY <1>1 DEF PlaceInv, JobRuns, JobSound, Awaiting
<1>4. InLine(b, Append(q, p), Awaiting) /\ Range(Append(q, p)) = Range(q) \cup {p}
  BY <1>2, <1>3, LineAppend
<1>5. /\ queue'[b] = Append(q, p) /\ \A c \in Branches : c # b => queue'[c] = queue[c]
      /\ job'[w] = NoPackage /\ \A v \in Workers : v # w => job'[v] = job[v]
      /\ pc'[w] # "run" /\ \A v \in Workers : v # w => pc'[v] = pc[v]
  BY <1>0, <1>1, <1>2 DEF HoldTypes
<1>6. Awaiting' = Awaiting
  BY <1>1 DEF Awaiting
<1> HIDE DEF q
<1>7. QueueSound'
  BY <1>4, <1>5, <1>6 DEF PlaceInv, QueueSound
<1>8. JobSound'
  <2> SUFFICES ASSUME NEW v \in Workers, v # w, job[v] # NoPackage
               PROVE  job[v] \in Awaiting /\ BranchOf[job[v]] = work[v]
                      /\ job[v] \notin Range(queue'[work[v]])
    BY <1>1, <1>5, <1>6 DEF JobSound
  <2>1. /\ job[v] \in Awaiting /\ BranchOf[job[v]] = work[v]
        /\ job[v] \notin Range(queue[work[v]])
    BY DEF PlaceInv, JobSound
  <2>2. work[v] # b /\ work[v] \in Branches
    BY <1>0, <1>1, <2>1, OneJob DEF HasBranch, Awaiting
  <2> QED
    BY <1>5, <2>1, <2>2
<1>9. JobRuns'
  BY <1>5 DEF PlaceInv, JobRuns
<1>10. \A o \in Packages : client'[o] = "idle" => reply'[o] = NoAnswer
  BY <1>1 DEF PlaceInv
<1> QED
  BY <1>7, <1>8, <1>9, <1>10 DEF PlaceInv

\* A package leaves the hands of its worker, with an answer or without.
LEMMA PlaceFinish ==
  ASSUME TypeInv, HoldInv, PlaceInv, NEW w \in Workers, pc[w] = "run",
         NEW location, location # "run", pc' = [pc EXCEPT ![w] = location],
         job' = [job EXCEPT ![w] = NoPackage],
         \A o \in Packages : o # job[w] => reply'[o] = reply[o],
         UNCHANGED <<queue, client, work>>
  PROVE  PlaceInv'
<1> USE DEF PlaceTypes
<1> DEFINE p == job[w]
<1>0. PlaceTypes
  BY TypesForPlace
<1>1. /\ p \in Awaiting /\ BranchOf[p] = work[w] /\ p \notin Range(queue[work[w]])
      /\ p \in Packages /\ client[p] # "idle"
  BY DEF PlaceInv, JobRuns, JobSound, Awaiting
<1>2. \A o \in Awaiting : o # p => o \in Awaiting'
  BY DEF Awaiting
<1>3. /\ job'[w] = NoPackage /\ \A v \in Workers : v # w => job'[v] = job[v]
      /\ pc'[w] # "run" /\ \A v \in Workers : v # w => pc'[v] = pc[v]
  BY <1>0 DEF HoldTypes
<1>4. QueueSound'
  <2> SUFFICES ASSUME NEW c \in Branches
               PROVE  InLine(c, queue[c], Awaiting')
    BY DEF QueueSound
  <2>1. InLine(c, queue[c], Awaiting)
    BY DEF PlaceInv, QueueSound
  <2>2. p \notin Range(queue[c])
    BY <1>1, <2>1 DEF InLine
  <2> QED
    BY <1>2, <2>1, <2>2, LineSame
<1>5. JobSound'
  <2> SUFFICES ASSUME NEW v \in Workers, v # w, job[v] # NoPackage
               PROVE  job[v] \in Awaiting' /\ BranchOf[job[v]] = work[v]
                      /\ job[v] \notin Range(queue[work[v]])
    BY <1>3 DEF JobSound
  <2>1. /\ job[v] \in Awaiting /\ BranchOf[job[v]] = work[v]
        /\ job[v] \notin Range(queue[work[v]])
    BY DEF PlaceInv, JobSound
  <2>2. work[v] # work[w]
    BY OneJob DEF HasBranch
  <2> QED
    BY <1>1, <1>2, <2>1, <2>2
<1>6. JobRuns'
  BY <1>3 DEF PlaceInv, JobRuns
<1>7. \A o \in Packages : client'[o] = "idle" => reply'[o] = NoAnswer
  BY <1>1 DEF PlaceInv
<1> QED
  BY <1>4, <1>5, <1>6, <1>7 DEF PlaceInv

------------------------------------------------------------------------------
(* The steps *)

\* What a branch serves, and what was sent, in the mapping of CommitQueue.
Serving(b) == {job[w] : w \in {v \in Workers : work[v] = b /\ job[v] # NoPackage}}
Submitted == {p \in Packages : client[p] # "idle"}

\* The package of the worker that has the branch in hand, and no other.
LEMMA ServingOne ==
  ASSUME TypeInv, HoldInv, PlaceInv, NEW w \in Workers, pc[w] \in HasBranch
  PROVE  Serving(work[w]) = IF pc[w] = "run" THEN {job[w]} ELSE {}
<1>1. \A v \in Workers : job[v] # NoPackage /\ work[v] = work[w] => v = w
  BY OneJob
<1>2. job[w] # NoPackage <=> pc[w] = "run"
  BY DEF PlaceInv, JobRuns
<1> QED
  BY <1>1, <1>2 DEF Serving

\* A step that changes the hands of one worker changes what its branch serves.
LEMMA ServingChange ==
  ASSUME TypeInv, HoldInv, PlaceInv, NEW w \in Workers, pc[w] \in HasBranch,
         NEW b \in Branches, work[w] = b, NEW x, job' = [job EXCEPT ![w] = x],
         UNCHANGED work
  PROVE  /\ Serving(b)' = IF x = NoPackage THEN {} ELSE {x}
         /\ \A c \in Branches : c # b => Serving(c)' = Serving(c)
<1>1. \A v \in Workers : job[v] # NoPackage /\ work[v] = b => v = w
  BY OneJob
<1>2. job'[w] = x /\ \A v \in Workers : v # w => job'[v] = job[v]
  BY TypesForPlace DEF PlaceTypes
<1>3. Serving(b)' = IF x = NoPackage THEN {} ELSE {x}
  BY <1>1, <1>2 DEF Serving
<1>4. \A c \in Branches : c # b => Serving(c)' = Serving(c)
  BY <1>2 DEF Serving
<1> QED
  BY <1>3, <1>4

LEMMA ServingSame ==
  ASSUME PlaceInv, UNCHANGED job, \A w \in Workers : pc[w] = "run" => work'[w] = work[w]
  PROVE  \A b : Serving(b)' = Serving(b)
<1>1. \A w \in Workers : job[w] # NoPackage => work'[w] = work[w]
  BY DEF PlaceInv, JobRuns
<1> QED
  BY <1>1 DEF Serving

\* A step that the service does not see.
Unseen ==
  /\ UNCHANGED <<queue, job, reply>>
  /\ \A p \in Packages : client'[p] = "idle" <=> client[p] = "idle"
  /\ \A w \in Workers : pc'[w] = "run" <=> pc[w] = "run"
  /\ \A w \in Workers : pc[w] = "run" => work'[w] = work[w]

LEMMA UnseenStep ==
  ASSUME PlaceInv, Unseen
  PROVE  PlaceInv' /\ UNCHANGED Service!vars
<1>1. PlaceInv'
  BY PlaceSame DEF Unseen
<1>2. \A b \in Branches : Serving(b)' = Serving(b)
  BY ServingSame DEF Unseen
<1>3. Submitted' = Submitted
  BY DEF Unseen, Submitted
<1>4. UNCHANGED <<queue, reply>>
  BY DEF Unseen
<1> QED
  BY <1>1, <1>2, <1>3, <1>4 DEF Service!vars, Serving, Submitted

\* enqueue_commit/2 submits a package.
LEMMA ServiceSend ==
  ASSUME TypeInv, PlaceInv, NEW p \in Packages, EnqueueSend(p)
  PROVE  Service!Submit(p)
<1>1. /\ client[p] = "idle" /\ client'[p] = "sent"
      /\ \A o \in Packages : o # p => client'[o] = client[o]
      /\ queue' = [queue EXCEPT ![BranchOf[p]] = Append(@, p)]
      /\ UNCHANGED <<pc, work, job, reply>>
  BY TypesForPlace DEF PlaceTypes, EnqueueSend, Put, threadVars
<1>2. p \notin Submitted /\ Submitted' = Submitted \cup {p}
  BY <1>1 DEF Submitted
<1>3. \A b : Serving(b)' = Serving(b)
  BY <1>1 DEF Serving
<1> QED
  BY <1>1, <1>2, <1>3 DEF Service!Submit, Submitted, Serving

\* process_commit_batch/3 serves the oldest package of the branch.
LEMMA ServiceTake ==
  ASSUME TypeInv, HoldInv, PlaceInv, NEW w \in Workers, TakePackage(w),
         queue[work[w]] # <<>>
  PROVE  \E b \in Branches : Service!Serve(b)
<1> USE DEF PlaceTypes
<1>0. PlaceTypes
  BY TypesForPlace
<1>1. PICK b \in Branches : b = work[w]
  BY <1>0 DEF TakePackage, HoldTypes, WorkIsABranch, HasBranch
<1>2. /\ pc[w] = "take" /\ queue[b] # <<>>
      /\ queue' = [queue EXCEPT ![b] = Tail(@)] /\ job' = [job EXCEPT ![w] = Head(queue[b])]
      /\ UNCHANGED <<client, reply, work>>
  BY <1>1 DEF TakePackage, clientVars
<1>3. pc[w] \in HasBranch /\ Serving(b) = {}
  BY <1>1, <1>2, ServingOne DEF HasBranch
<1>4. PICK p \in Packages : p = Head(queue[b])
  BY <1>0, <1>2
<1>5. [c \in Branches |-> Serving(c)']
        = [[c \in Branches |-> Serving(c)] EXCEPT ![b] = {p}]
  <2>1. job' = [job EXCEPT ![w] = p] /\ p # NoPackage /\ UNCHANGED work /\ work[w] = b
    BY <1>0, <1>1, <1>2, <1>4
  <2> QED
    BY <1>3, <2>1, ServingChange
<1>6. Service!Serve(b)
  BY <1>2, <1>3, <1>4, <1>5 DEF Service!Serve, Serving
<1> QED
  BY <1>6

\* run_queued_job/1 finishes with an answer that is sent, or with one that is lost.
LEMMA ServiceFinish ==
  ASSUME TypeInv, HoldInv, PlaceInv, NEW w \in Workers, pc[w] = "run",
         job' = [job EXCEPT ![w] = NoPackage],
         \/ UNCHANGED reply
         \/ \E a \in Answers : reply' = [reply EXCEPT ![job[w]] = a],
         UNCHANGED <<queue, client, work>>
  PROVE  \E b \in Branches : Service!Finish(b)
<1>0. PlaceTypes
  BY TypesForPlace
<1>1. PICK b \in Branches : b = work[w]
  BY <1>0 DEF PlaceTypes, HoldTypes, WorkIsABranch, HasBranch
<1>2. PICK p \in Packages : p = job[w] /\ reply[p] = NoAnswer
  BY DEF PlaceInv, JobRuns, JobSound, Awaiting
<1>3. pc[w] \in HasBranch /\ Serving(b) = {p}
  BY <1>1, <1>2, ServingOne DEF HasBranch
<1>4. [c \in Branches |-> Serving(c)']
        = [[c \in Branches |-> Serving(c)] EXCEPT ![b] = {}]
  BY <1>1, <1>3, ServingChange
<1>5. \/ UNCHANGED reply
      \/ \E a \in Answers : reply[p] = NoAnswer /\ reply' = [reply EXCEPT ![p] = a]
  BY <1>2
<1>6. Service!Finish(b)
  BY <1>3, <1>4, <1>5 DEF Service!Finish, Serving
<1> QED
  BY <1>6

\* Background work goes back behind the packages that came meanwhile.
LEMMA ServiceDefer ==
  ASSUME TypeInv, HoldInv, PlaceInv, NEW w \in Workers, DeferJob(w)
  PROVE  \E b \in Branches : Service!PutBack(b)
<1>0. PlaceTypes
  BY TypesForPlace
<1>1. PICK b \in Branches : b = work[w]
  BY <1>0 DEF PlaceTypes, HoldTypes, WorkIsABranch, HasBranch, DeferJob, Runs
<1>2. PICK p \in Packages :
         /\ pc[w] = "run" /\ p = job[w] /\ p \in Deferrable /\ queue[b] # <<>>
         /\ queue' = [queue EXCEPT ![b] = Append(@, p)]
         /\ job' = [job EXCEPT ![w] = NoPackage]
         /\ UNCHANGED <<client, reply, work>>
  BY <1>1 DEF DeferJob, Runs, MustDefer, Put, clientVars
<1>3. pc[w] \in HasBranch /\ Serving(b) = {p}
  BY <1>1, <1>2, ServingOne DEF HasBranch
<1>4. [c \in Branches |-> Serving(c)']
        = [[c \in Branches |-> Serving(c)] EXCEPT ![b] = {}]
  BY <1>1, <1>2, <1>3, ServingChange
<1>5. Service!PutBack(b)
  BY <1>2, <1>3, <1>4 DEF Service!PutBack, Serving
<1> QED
  BY <1>5

------------------------------------------------------------------------------
(* The theorem *)

\* The steps that take no package, answer none and put none back.
LEMMA UnseenSteps ==
  ASSUME TypeInv, HoldInv, PlaceInv, [Next]_vars
  PROVE  \/ Unseen
         \/ \E p \in Packages : EnqueueSend(p)
         \/ \E w \in Workers :
              \/ TakePackage(w) /\ queue[work[w]] # <<>>
              \/ RunJob(w) \/ JobFails(w) \/ DeferJob(w) \/ (Crash(w) /\ pc[w] = "run")
<1> USE DEF PlaceTypes, HoldTypes
<1>0. PlaceTypes /\ after \in [Workers -> {"top", "global", "exit"}]
  BY TypesForPlace DEF TypeInv, TypeOK, ThreadTypes
<1>1. ASSUME NEW w \in Workers, UNCHANGED <<queue, job, reply, client>>,
             pc[w] # "run", NEW location, location # "run",
             pc' = [pc EXCEPT ![w] = location],
             \A v \in Workers : v # w => work'[v] = work[v]
      PROVE  Unseen
  BY <1>0, <1>1 DEF Unseen
<1>2. ASSUME UNCHANGED <<queue, job, reply, client, pc, work>>
      PROVE  Unseen
  BY <1>2 DEF Unseen
<1>3. ASSUME NEW w \in Workers,
             \/ LoopTop(w) \/ PickNextBranch(w) \/ NothingToPick(w) \/ TryBranchLock(w)
             \/ (TakePackage(w) /\ queue[work[w]] = <<>>) \/ DeferRegister(w)
             \/ DeferWake(w) \/ ReleaseBranchLock(w) \/ Requeue(w) \/ TasksDone(w)
             \/ TakeGlobalOptimization(w) \/ GlobalOptimizationDone(w)
             \/ NoGlobalOptimization(w) \/ WakeUp(w) \/ ExitCleanup(w) \/ ThreadEnds(w)
             \/ (Crash(w) /\ pc[w] # "run")
      PROVE  Unseen
  <2>1. /\ UNCHANGED <<queue, job, reply, client>> /\ pc[w] # "run"
        /\ \E location \in Locations \ {"run"} : pc' = [pc EXCEPT ![w] = location]
    BY <1>0, <1>3 DEF LoopTop, PickNextBranch, NothingToPick, TryBranchLock, TakePackage,
       DeferRegister, DeferWake, ReleaseBranchLock, Requeue, TasksDone,
       TakeGlobalOptimization, GlobalOptimizationDone, NoGlobalOptimization, WakeUp,
       ExitCleanup, ThreadEnds, Crash, LeaveBatch, Goto, Locations, clientVars
  <2>2. \A v \in Workers : v # w => work'[v] = work[v]
    BY <1>0, <1>3 DEF LoopTop, PickNextBranch, NothingToPick, TryBranchLock, TakePackage,
       DeferRegister, DeferWake, ReleaseBranchLock, Requeue, TasksDone,
       TakeGlobalOptimization, GlobalOptimizationDone, NoGlobalOptimization, WakeUp,
       ExitCleanup, ThreadEnds, Crash
  <2> QED
    BY <1>1, <2>1, <2>2
<1>4. ASSUME NEW p \in Packages, ProducerStep(p) \/ ProducerGivesUp(p)
      PROVE  Unseen
  BY <1>0, <1>4 DEF ProducerStep, EnqueueRegister, EnqueueWake, ReceiveResult,
     ProducerGivesUp, threadVars, Unseen
<1>5. CASE StartWorkers
  <2>1. \A w \in Workers : pc[w] = "dead" /\ pc'[w] = "top"
    BY <1>5 DEF StartWorkers, HoldInv, JoinedAreDead
  <2> QED
    BY <1>5, <2>1 DEF StartWorkers, Unseen, clientVars
<1>6. CASE \/ \E w \in Workers : RunTask(w) \/ JoinWorker(w)
           \/ \E b \in Branches : ScheduleBranchOptimization(b)
           \/ \E d \in Databases : ReadActiveCount(d) \/ ScheduleDatabaseOptimization(d)
           \/ StopWorkers \/ UNCHANGED vars
  BY <1>2, <1>6 DEF RunTask, JoinWorker, ScheduleBranchOptimization, ReadActiveCount,
     ScheduleDatabaseOptimization, StopWorkers, vars, threadVars, clientVars
<1> QED
  BY <1>3, <1>4, <1>5, <1>6 DEF Next, WorkerStep

LEMMA ServiceStep ==
  TypeInv /\ HoldInv /\ PlaceInv /\ [Next]_vars
    => PlaceInv' /\ [Service!Next]_(Service!vars)
<1> SUFFICES ASSUME TypeInv, HoldInv, PlaceInv, [Next]_vars
             PROVE  PlaceInv' /\ [Service!Next]_(Service!vars)
  OBVIOUS
<1>1. CASE Unseen
  BY <1>1, UnseenStep
<1>2. ASSUME NEW p \in Packages, EnqueueSend(p)
      PROVE  PlaceInv' /\ Service!Next
  BY <1>2, PlaceSend, ServiceSend DEF Service!Next
<1>3. ASSUME NEW w \in Workers, TakePackage(w), queue[work[w]] # <<>>
      PROVE  PlaceInv' /\ Service!Next
  BY <1>3, PlaceTake, ServiceTake DEF Service!Next
<1>4. ASSUME NEW w \in Workers, DeferJob(w)
      PROVE  PlaceInv' /\ Service!Next
  BY <1>4, PlaceDefer, ServiceDefer DEF Service!Next
<1>5. ASSUME NEW w \in Workers,
             RunJob(w) \/ JobFails(w) \/ (Crash(w) /\ pc[w] = "run")
      PROVE  PlaceInv' /\ Service!Next
  <2>1. /\ pc[w] = "run" /\ job' = [job EXCEPT ![w] = NoPackage]
        /\ pc' = [pc EXCEPT ![w] = "release"]
        /\ UNCHANGED <<queue, client, work>>
    BY <1>5 DEF RunJob, JobFails, Crash, Runs, LeaveBatch, Goto, clientVars
  <2>2. \/ UNCHANGED reply
        \/ \E a \in Answers : reply' = [reply EXCEPT ![job[w]] = a]
    BY <1>5 DEF RunJob, JobFails, Crash, Runs, clientVars
  <2>3. \A o \in Packages : o # job[w] => reply'[o] = reply[o]
    BY <2>2, TypesForPlace DEF PlaceTypes
  <2>4. PlaceInv'
    BY <2>1, <2>3, PlaceFinish
  <2> QED
    BY <2>1, <2>2, <2>4, ServiceFinish DEF Service!Next
<1> QED
  BY <1>1, <1>2, <1>3, <1>4, <1>5, UnseenSteps

\* The commit queue implements the service: whatever the threads, locks, crashes and
\* restarts of the pool do, a branch works on one package at a time, in the order in which
\* they were sent, and a package that has been answered is never worked on again.
THEOREM QueueImplementsService == Spec => ImplementsService
<1>1. Init => PlaceInv /\ Service!Init
  <2>1. Init => Service!Init
    BY DEF Init, Service!Init
  <2> QED
    BY <2>1, PlaceInit
<1>2. TypeInv /\ HoldInv /\ PlaceInv /\ [Next]_vars
        => PlaceInv' /\ [Service!Next]_(Service!vars)
  BY ServiceStep
<1> QED
  BY <1>1, <1>2, HoldCorrect, PTL DEF Spec, ImplementsService, Service!Spec
==============================================================================
