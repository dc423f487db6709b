---------------------------- MODULE BranchService ----------------------------
(***************************************************************************)
(* What the commit queue promises its clients, without threads, locks, lists *)
(* of pending branches or wake-up messages: every branch is a server of its  *)
(* own that takes packages in the order they were sent, works on one at a    *)
(* time, and answers a package at most once, when it has worked on it.       *)
(***************************************************************************)
EXTENDS Sequences

CONSTANTS Branches, Packages, BranchOf, Answers, Deferrable, NoAnswer

VARIABLES
  submitted,  \* packages that were sent
  waiting,    \* packages waiting on each branch, oldest first
  serving,    \* the package each branch works on, if any
  answer      \* the answer each package got

vars == <<submitted, waiting, serving, answer>>

Init ==
  /\ submitted = {}
  /\ waiting = [b \in Branches |-> <<>>]
  /\ serving = [b \in Branches |-> {}]
  /\ answer = [p \in Packages |-> NoAnswer]

Submit(p) ==
  /\ p \notin submitted
  /\ submitted' = submitted \cup {p}
  /\ waiting' = [waiting EXCEPT ![BranchOf[p]] = Append(@, p)]
  /\ UNCHANGED <<serving, answer>>

Serve(b) ==
  /\ serving[b] = {}
  /\ waiting[b] # <<>>
  /\ serving' = [serving EXCEPT ![b] = {Head(waiting[b])}]
  /\ waiting' = [waiting EXCEPT ![b] = Tail(@)]
  /\ UNCHANGED <<submitted, answer>>

\* The answer is lost when nobody waits for it, or when the job failed.
Finish(b) ==
  \E p \in serving[b] :
    /\ serving' = [serving EXCEPT ![b] = {}]
    /\ \/ UNCHANGED answer
       \/ \E a \in Answers :
            /\ answer[p] = NoAnswer
            /\ answer' = [answer EXCEPT ![p] = a]
    /\ UNCHANGED <<submitted, waiting>>

\* Background work goes back behind the packages that came meanwhile.
PutBack(b) ==
  \E p \in serving[b] \cap Deferrable :
    /\ waiting[b] # <<>>
    /\ serving' = [serving EXCEPT ![b] = {}]
    /\ waiting' = [waiting EXCEPT ![b] = Append(@, p)]
    /\ UNCHANGED <<submitted, answer>>

Next ==
  \/ \E p \in Packages : Submit(p)
  \/ \E b \in Branches : Serve(b) \/ Finish(b) \/ PutBack(b)

Spec == Init /\ [][Next]_vars
==============================================================================
