--------------------------- MODULE RequestPoolProofs ---------------------------
(***************************************************************************)
(* Proofs about the request pool.  A descriptor is a plain number that     *)
(* several parts of the server keep, and that means another pipe once it   *)
(* was closed and given away.  The invariant says who has a claim to which *)
(* number: as long as a claim lasts nobody closes the number, and what is  *)
(* open is claimed by somebody.  It rests on a request being at one place  *)
(* of the pool at a time.                                                  *)
(***************************************************************************)
EXTENDS RequestPool, SequenceTheorems, FiniteSetTheorems, WellFoundedInduction, TLAPS

-------------------------------------------------------------------------------
(* Sequences and the lowest number *)

LEMMA AppendElements ==
  ASSUME NEW S, NEW s \in Seq(S), NEW x \in S
  PROVE  /\ Append(s, x) \in Seq(S)
         /\ ToSet(Append(s, x)) = ToSet(s) \union {x}
         /\ IsInjective(s) /\ x \notin ToSet(s) => IsInjective(Append(s, x))
         /\ Len(Append(s, x)) = Len(s) + 1
PROOF
  <1> DEFINE n == Len(s) + 1
             t == Append(s, x)
  <1>1. /\ Len(s) \in Nat /\ n \in Nat /\ t \in Seq(S) /\ Len(t) = n
        /\ DOMAIN s = 1 .. Len(s) /\ DOMAIN t = 1 .. n
        /\ t[n] = x /\ \A i \in 1 .. Len(s) : t[i] = s[i]
    OBVIOUS
  <1> HIDE DEF t
  <1>2. ToSet(t) = ToSet(s) \union {x}
    BY <1>1 DEF ToSet
  <1>3. IsInjective(s) /\ x \notin ToSet(s) => IsInjective(t)
    BY <1>1 DEF ToSet, IsInjective
  <1> QED BY <1>1, <1>2, <1>3 DEF t

LEMMA TailElements ==
  ASSUME NEW S, NEW s \in Seq(S), s # <<>>
  PROVE  /\ Head(s) \in S /\ Tail(s) \in Seq(S)
         /\ ToSet(s) = ToSet(Tail(s)) \union {Head(s)}
         /\ IsInjective(s) => IsInjective(Tail(s)) /\ Head(s) \notin ToSet(Tail(s))
         /\ Len(Tail(s)) = Len(s) - 1
PROOF
  <1> DEFINE t == Tail(s)
  <1>1. /\ Len(s) \in Nat \ {0} /\ t \in Seq(S) /\ Len(t) = Len(s) - 1 /\ Head(s) = s[1]
        /\ DOMAIN s = 1 .. Len(s) /\ DOMAIN t = 1 .. Len(s) - 1
        /\ \A i \in 1 .. Len(s) - 1 : t[i] = s[i + 1]
    OBVIOUS
  <1>2. Head(s) \in S
    BY <1>1
  <1> HIDE DEF t
  <1>3. \A i \in 1 .. Len(s) : i = 1 \/ (i - 1 \in 1 .. Len(s) - 1 /\ s[i] = t[i - 1])
    BY <1>1
  <1>4. ToSet(s) = ToSet(t) \union {Head(s)}
    <2>1. ToSet(s) \subseteq ToSet(t) \union {Head(s)}
      BY <1>1, <1>3, SMTT(30) DEF ToSet
    <2>2. Head(s) \in ToSet(s) /\ ToSet(t) \subseteq ToSet(s)
      BY <1>1, SMTT(30) DEF ToSet
    <2> QED BY <2>1, <2>2
  <1>5. ASSUME IsInjective(s) PROVE IsInjective(t) /\ Head(s) \notin ToSet(t)
    <2>1. \A i, j \in 1 .. Len(s) : s[i] = s[j] => i = j
      BY <1>1, <1>5 DEF IsInjective
    <2>2. \A i \in 1 .. Len(s) - 1 : i + 1 \in 1 .. Len(s) /\ i + 1 # 1
      BY <1>1
    <2>3. \A i, j \in 1 .. Len(s) - 1 : t[i] = t[j] => i = j
      BY <1>1, <2>1, <2>2
    <2>4. Head(s) \notin ToSet(t)
      BY <1>1, <2>1, <2>2 DEF ToSet
    <2> QED BY <1>1, <2>3, <2>4 DEF IsInjective
  <1> QED BY <1>1, <1>2, <1>4, <1>5 DEF t

LEMMA LowestIsUnused ==
  ASSUME NEW S, S \subseteq Nat, S # {}
  PROVE  Min(S) \in S
PROOF
  <1>1. PICK m \in S : \A i \in S : ~(<<i, m>> \in OpToRel(<, Nat))
    BY NatLessThanWellFounded, WFMin
  <1>2. \A i \in S : ~(i < m)
    BY <1>1 DEF OpToRel
  <1>3. \A i \in S : m <= i
    BY <1>2
  <1> QED BY <1>3 DEF Min

-------------------------------------------------------------------------------
(* The invariant *)

Items == [by : Requests, last : BOOLEAN, error : BOOLEAN]
Sent == {"headers", "body"} \union Finished
\* The places of a worker at which it uses the pipes of its request
Uses == {"open_in", "open_out", "drain", "run", "more", "close", "raised",
         "close_fds", "raised_fds"}

Types ==
  /\ fd \in [Fds -> Ends \union {Nothing}]
  /\ nums \in [Requests -> [outr : 0..MaxFds, outw : 0..MaxFds, inr : 0..MaxFds, inw : 0..MaxFds]]
  /\ inpipe \in [Requests -> Seq({"body"})] /\ outpipe \in [Requests -> Seq(Items)]
  /\ req \in [Requests -> {"new", "sending", "dropped"} \union Sent]
  /\ got \in [Requests -> Seq(Items)]
  /\ writer \in [Requests -> {"none", "writing", "done"}]
  /\ queue \in Seq(Requests)
  /\ order \in Seq(Workers)
  /\ inbox \in [Workers -> Seq(Requests)]
  /\ at \in [Workers -> Uses \union {"idle", "failed", "signal", "dead"}]
  /\ work \in [Workers -> Requests \union {Nothing}]
  /\ dup \in [Workers -> [in : 0..MaxFds, out : 0..MaxFds]]
  /\ body \in [Workers -> Seq({"body"})]
  /\ starved \subseteq Requests
  /\ busy \subseteq Workers /\ ready \in Seq(Workers) /\ halted \in BOOLEAN

Rotates == ToSet(order) = Workers /\ Len(order) = Cardinality(Workers)

\* A request is sent once, and it is in the queue, in one inbox or with one worker, once.
Placed ==
  /\ IsInjective(queue) /\ \A w \in Workers : IsInjective(inbox[w])
  /\ \A r \in ToSet(queue) : req[r] \in Sent
  /\ \A w \in Workers, r \in Requests : Serves(w, r) =>
       /\ req[r] \in Sent /\ r \notin ToSet(queue)
       /\ ~(work[w] = r /\ r \in ToSet(inbox[w]))
       /\ \A v \in Workers : Serves(v, r) => v = w
  /\ \A w \in Workers : /\ at[w] \in Uses \union {"failed", "signal"} => work[w] \in Requests
                        /\ at[w] = "idle" => work[w] = Nothing
                        /\ at[w] \in {"open_in", "drain"} => work[w] \in WithBody

\* Who has a claim: the future of a request to its end of the output pipe, its message or
\* its worker to the worker's ends, the writer to its end of the input pipe, and a worker
\* to the duplicates behind its streams.  A failed setup leaves the worker's ends open.
Waits(r) == req[r] \in {"sending", "headers", "body"}
InUse(w) == at[w] \in Uses \/ (at[w] = "failed" /\ work[w] \notin BadQuery)
HasPair(r) ==
  \/ req[r] = "sending" \/ r \in ToSet(queue)
  \/ \E w \in Workers : r \in ToSet(inbox[w]) \/ (work[w] = r /\ InUse(w))
HasInW(r) == r \in WithBody /\ (req[r] = "sending" \/ writer[r] = "writing")
HasDupIn(w) ==
  at[w] \in {"drain", "open_out", "run", "more", "close", "raised"} /\ work[w] \in WithBody
HasDupOut(w) == at[w] \in {"run", "more", "close", "raised"}

Names(n, e) == n \in Fds /\ fd[n] = e

\* What is claimed stands for what it was opened for.
Claims ==
  /\ \A r \in Requests :
       /\ Waits(r) => Names(nums[r].outr, End(r, "out", "read"))
       /\ HasPair(r) => Names(nums[r].outw, End(r, "out", "write"))
       /\ HasPair(r) /\ r \in WithBody => Names(nums[r].inr, End(r, "in", "read"))
       /\ HasInW(r) => Names(nums[r].inw, End(r, "in", "write"))
       /\ r \notin WithBody => nums[r].inr = 0 /\ nums[r].inw = 0
  /\ \A w \in Workers :
       /\ HasDupIn(w) => /\ Names(dup[w].in, End(work[w], "in", "read"))
                         /\ dup[w].in # nums[work[w]].inr
       /\ HasDupOut(w) => /\ Names(dup[w].out, End(work[w], "out", "write"))
                          /\ dup[w].out # nums[work[w]].outw
       /\ at[w] \in Uses /\ work[w] \notin WithBody => dup[w].in = 0
       /\ at[w] = "failed" => nums[work[w]].outw \in Fds

\* What is open is claimed, or was left behind by a failed setup or a dropped message.
Left(r) == r \in starved \/ req[r] = "dropped"
ClaimedBy(n, r) ==
  \/ Left(r)
  \/ (n = nums[r].outr /\ Waits(r))
  \/ (n \in {nums[r].outw, nums[r].inr} /\ HasPair(r))
  \/ (n = nums[r].inw /\ HasInW(r))
  \/ \E w \in Workers : /\ work[w] = r
                        /\ \/ n = dup[w].in /\ HasDupIn(w)
                           \/ n = dup[w].out /\ HasDupOut(w)
Accounted == ~halted => \A n \in Fds : fd[n] # Nothing => ClaimedBy(n, fd[n].of)

\* The body of a request on its way to the worker: what was written of it, and what its
\* worker drained.
WrittenBody(r) ==
  /\ Len(inpipe[r]) <= Len(Chunks)
  /\ \A i \in 1..Len(inpipe[r]) : inpipe[r][i] = Chunks[i]
  /\ writer[r] = "writing" => r \in WithBody
  /\ HasPair(r) /\ r \in WithBody /\ req[r] # "sending" => writer[r] # "none"
  /\ HasPair(r) /\ writer[r] = "done" => Len(inpipe[r]) = Len(Chunks)
  /\ req[r] \in {"new", "sending"} => writer[r] = "none"
DrainedBody(w) ==
  at[w] \in {"open_in", "drain", "open_out", "run"} /\ work[w] \in WithBody =>
    /\ Len(body[w]) <= Len(inpipe[work[w]])
    /\ \A i \in 1..Len(body[w]) : body[w][i] = inpipe[work[w]][i]
    /\ at[w] \in {"open_out", "run"} => Len(body[w]) = Len(Chunks)
Bodies == (\A r \in Requests : WrittenBody(r)) /\ \A w \in Workers : DrainedBody(w)

\* The answer of a request on its way to the client, and who may write an error into
\* the pipe of another request.
ItsOwn(r, item) == item.by = r \/ (item.error /\ item.by \in BadQuery)
Answered(r) ==
  /\ Len(got[r]) <= Len(outpipe[r])
  /\ \A i \in 1..Len(got[r]) : got[r][i] = outpipe[r][i]
  /\ \A i \in 1..Len(outpipe[r]) : ItsOwn(r, outpipe[r][i])
Refused(w) ==
  /\ at[w] \in {"raised", "raised_fds"} => work[w] \in BadQuery
  /\ at[w] = "failed" => work[w] \in BadQuery \union starved
Answers == (\A r \in Requests : Answered(r)) /\ \A w \in Workers : Refused(w)

PoolInv == Types /\ Rotates /\ Placed /\ Claims /\ Accounted /\ Bodies /\ Answers

-------------------------------------------------------------------------------
(* Types *)

LEMMA EndsAreEnds ==
  /\ \A r \in Requests : \A pipe \in {"in", "out"}, dir \in {"read", "write"} :
       /\ End(r, pipe, dir) \in Ends /\ End(r, pipe, dir) # Nothing
       /\ End(r, pipe, dir).of = r /\ End(r, pipe, dir).pipe = pipe /\ End(r, pipe, dir).dir = dir
PROOF BY NothingAssumption DEF End, Ends

\* The pipes of r are opened under four numbers, or two and none.
Opened(r, outr, outw, inr, inw) ==
  /\ outr \in Unused /\ outw \in Unused \ {outr}
  /\ r \in WithBody => inr \in Unused \ {outr, outw} /\ inw \in Unused \ {outr, outw, inr}
  /\ r \notin WithBody => inr = 0 /\ inw = 0
  /\ nums' = [nums EXCEPT ![r] = [outr |-> outr, outw |-> outw, inr |-> inr, inw |-> inw]]
  /\ fd' = [k \in Fds |->
       CASE k = outr -> End(r, "out", "read")
         [] k = outw -> End(r, "out", "write")
         [] k = inr -> End(r, "in", "read")
         [] k = inw -> End(r, "in", "write")
         [] OTHER -> fd[k]]
  /\ req' = [req EXCEPT ![r] = "sending"]

LEMMA OpenNumbers ==
  ASSUME Types, NEW r \in Requests, OpenPipes(r)
  PROVE  \/ req' = [req EXCEPT ![r] = "failed"] /\ UNCHANGED <<fd, nums>>
         \/ \E outr, outw, inr, inw : Opened(r, outr, outw, inr, inw)
PROOF
  <1> DEFINE outr == Lowest({})
             outw == Lowest({outr})
             inr == IF r \in WithBody THEN Lowest({outr, outw}) ELSE 0
             inw == IF r \in WithBody THEN Lowest({outr, outw, inr}) ELSE 0
  <1>1. CASE Cardinality(Unused) < (IF r \in WithBody THEN 4 ELSE 2)
    BY <1>1 DEF OpenPipes
  <1>2. CASE ~(Cardinality(Unused) < (IF r \in WithBody THEN 4 ELSE 2))
    <2>1. /\ IsFiniteSet(Unused) /\ Unused \subseteq Nat /\ Cardinality(Unused) \in Nat
      <3>1. IsFiniteSet(Fds) /\ Unused \subseteq Fds /\ Fds \subseteq Nat
        BY FS_Interval, RequestPoolAssumption DEF Fds, Unused
      <3> QED BY <3>1, FS_Subset, FS_CardinalityType
    <2>2. ASSUME NEW S, IsFiniteSet(S), S \subseteq Nat, Cardinality(S) > 0
          PROVE  /\ Min(S) \in S /\ S \ {Min(S)} \subseteq Nat /\ IsFiniteSet(S \ {Min(S)})
                 /\ Cardinality(S \ {Min(S)}) = Cardinality(S) - 1
      <3>1. S # {}
        BY <2>2, FS_EmptySet
      <3>2. Min(S) \in S
        BY <2>2, <3>1, LowestIsUnused
      <3> QED BY <2>2, <3>2, FS_RemoveElement
    <2>3. outr = Min(Unused) /\ Cardinality(Unused) > 0
      <3>1. Unused \ {} = Unused /\ (IF r \in WithBody THEN 4 ELSE 2) \in 2 .. 4
        OBVIOUS
      <3> QED BY <1>2, <2>1, <3>1 DEF Lowest
    <2>4. /\ outr \in Unused /\ Unused \ {outr} \subseteq Nat /\ IsFiniteSet(Unused \ {outr})
          /\ Cardinality(Unused \ {outr}) = Cardinality(Unused) - 1
      BY <2>1, <2>2, <2>3
    <2> HIDE DEF outr
    <2>5. /\ outw \in Unused \ {outr} /\ Unused \ {outr, outw} \subseteq Nat
          /\ IsFiniteSet(Unused \ {outr, outw})
          /\ Cardinality(Unused \ {outr, outw}) = Cardinality(Unused) - 2
      <3>1. Cardinality(Unused \ {outr}) > 0 /\ outw = Min(Unused \ {outr})
        BY <1>2, <2>1, <2>4 DEF Lowest
      <3>2. /\ outw \in Unused \ {outr} /\ IsFiniteSet((Unused \ {outr}) \ {outw})
            /\ Cardinality((Unused \ {outr}) \ {outw}) = Cardinality(Unused \ {outr}) - 1
        BY <2>2, <2>4, <3>1
      <3>3. (Unused \ {outr}) \ {outw} = Unused \ {outr, outw}
        OBVIOUS
      <3> HIDE DEF outw
      <3>4. Cardinality(Unused \ {outr, outw}) = Cardinality(Unused) - 2
        BY <2>1, <2>4, <3>2, <3>3
      <3> QED BY <2>1, <3>2, <3>3, <3>4
    <2> HIDE DEF outw
    <2>6. /\ r \in WithBody => inr \in Unused \ {outr, outw} /\ inw \in Unused \ {outr, outw, inr}
          /\ r \notin WithBody => inr = 0 /\ inw = 0
      <3>1. CASE r \in WithBody
        <4>1. Cardinality(Unused \ {outr, outw}) > 0 /\ inr = Min(Unused \ {outr, outw})
          BY <1>2, <2>1, <2>5, <3>1 DEF Lowest
        <4>2. /\ inr \in Unused \ {outr, outw} /\ IsFiniteSet((Unused \ {outr, outw}) \ {inr})
              /\ Cardinality((Unused \ {outr, outw}) \ {inr}) = Cardinality(Unused \ {outr, outw}) - 1
          BY <2>2, <2>5, <4>1
        <4>3. (Unused \ {outr, outw}) \ {inr} = Unused \ {outr, outw, inr}
          OBVIOUS
        <4>4. inw = Min(Unused \ {outr, outw, inr})
          BY <3>1 DEF Lowest
        <4> HIDE DEF inr
        <4>6. Cardinality(Unused \ {outr, outw, inr}) > 0
          BY <1>2, <2>1, <2>5, <3>1, <4>2, <4>3
        <4>5. inw \in Unused \ {outr, outw, inr}
          BY <2>1, <2>2, <4>2, <4>3, <4>4, <4>6
        <4> QED BY <3>1, <4>2, <4>5
      <3>2. CASE r \notin WithBody
        BY <3>2
      <3> QED BY <3>1, <3>2
    <2>7. /\ nums' = [nums EXCEPT ![r] = [outr |-> outr, outw |-> outw, inr |-> inr, inw |-> inw]]
          /\ fd' = [k \in Fds |->
               CASE k = outr -> End(r, "out", "read")
                 [] k = outw -> End(r, "out", "write")
                 [] k = inr -> End(r, "in", "read")
                 [] k = inw -> End(r, "in", "write")
                 [] OTHER -> fd[k]]
          /\ req' = [req EXCEPT ![r] = "sending"]
      BY <1>2, SMTT(30) DEF OpenPipes, outr, outw
    <2> HIDE DEF inr, inw
    <2>8. Opened(r, outr, outw, inr, inw)
      BY <2>4, <2>5, <2>6, <2>7 DEF Opened
    <2> QED BY <2>8
  <1> QED BY <1>1, <1>2

LEMMA TypesInit == Init => Types /\ Rotates
PROOF
  <1> SUFFICES ASSUME Init PROVE Types /\ Rotates
    OBVIOUS
  <1> USE DEF Init
  <1> DEFINE N == 1..Cardinality(Workers)
             f == SetToSeq(Workers)
  <1>1. Cardinality(Workers) \in Nat /\ ExistsBijection(N, Workers)
    BY RequestPoolAssumption, FS_CardinalityType
  <1>2. f \in [N -> Workers] /\ IsInjective(f)
    <2>1. \E g \in [N -> Workers] : IsInjective(g)
      BY <1>1 DEF ExistsBijection, Bijection, Injection, IsInjective
    <2> QED BY <2>1 DEF SetToSeq
  <1> HIDE DEF f
  <1>3. f \in Seq(Workers) /\ Len(f) = Cardinality(Workers) /\ DOMAIN f = N
    BY <1>1, <1>2
  <1>4. ToSet(f) = Workers
    <2>1. f \in Injection(N, Workers) /\ IsFiniteSet(N) /\ Cardinality(N) = Cardinality(Workers)
      BY <1>1, <1>2, FS_Interval DEF Injection, IsInjective
    <2>2. f \in Surjection(N, Workers)
      BY <2>1, RequestPoolAssumption, FS_Injection
    <2> QED BY <1>3, <2>2 DEF Surjection, ToSet
  <1>5. order = f
    BY DEF f
  <1>6. \A S : <<>> \in Seq(S)
    OBVIOUS
  <1>7. 0 \in 0..MaxFds
    BY RequestPoolAssumption
  <1>8. NoNums \in [outr : 0..MaxFds, outw : 0..MaxFds, inr : 0..MaxFds, inw : 0..MaxFds]
    BY <1>7 DEF NoNums
  <1> QED BY <1>3, <1>4, <1>5, <1>6, <1>7, <1>8 DEF Types, Rotates

\* A write appends to the pipe that the number stands for, or does nothing.
LEMMA WrittenAppends ==
  ASSUME Types, NEW n \in Fds, NEW item \in Items
  PROVE  /\ Written(n, item) = outpipe \/ \E r \in Requests :
              fd[n] = End(r, "out", "write")
              /\ Written(n, item) = [outpipe EXCEPT ![r] = Append(@, item)]
         /\ Written(n, item) \in [Requests -> Seq(Items)]
PROOF
  <1> DEFINE e == fd[n]
  <1>1. CASE e # Nothing /\ e.pipe = "out" /\ e.dir = "write" /\ IsOpen([e EXCEPT !.dir = "read"])
    <2>1. e \in Ends
      BY <1>1 DEF Types
    <2>2. e.of \in Requests /\ e = End(e.of, "out", "write")
      BY <1>1, <2>1 DEF Ends, End
    <2>3. Written(n, item) = [outpipe EXCEPT ![e.of] = Append(@, item)]
      BY <1>1 DEF Written
    <2>4. Append(outpipe[e.of], item) \in Seq(Items)
      BY <2>2 DEF Types
    <2> HIDE DEF e
    <2>5. Written(n, item) \in [Requests -> Seq(Items)]
      BY <2>2, <2>3, <2>4 DEF Types
    <2> QED BY <2>2, <2>3, <2>5 DEF e
  <1>2. CASE ~(e # Nothing /\ e.pipe = "out" /\ e.dir = "write" /\ IsOpen([e EXCEPT !.dir = "read"]))
    BY <1>2 DEF Written, Types
  <1> QED BY <1>1, <1>2

LEMMA ClosedTypes ==
  ASSUME Types, NEW S
  PROVE  Closed(S) \in [Fds -> Ends \union {Nothing}]
PROOF BY DEF Types, Closed

\* A stream is set up on a descriptor of its own, or there is none.
SetupFails(w) ==
  /\ at' = [at EXCEPT ![w] = "failed"] /\ starved' = starved \union {work[w]}
  /\ UNCHANGED <<fd, dup>>
InOpens(w, m) ==
  /\ at[w] = "open_in" /\ work[w] \in WithBody
  /\ fd' = [fd EXCEPT ![m] = End(work[w], "in", "read")] /\ m # nums[work[w]].inr
  /\ dup' = [dup EXCEPT ![w].in = m] /\ starved' = starved
  /\ at' = [at EXCEPT ![w] = "drain"]
OutOpens(w, m) ==
  /\ at[w] = "open_out"
  /\ fd' = [fd EXCEPT ![m] = End(work[w], "out", "write")] /\ m # nums[work[w]].outw
  /\ dup' = [dup EXCEPT ![w].out = m] /\ starved' = starved
  /\ \/ at' = [at EXCEPT ![w] = "run"]
     \/ work[w] \in BadQuery /\ at' = [at EXCEPT ![w] = "raised"]

LEMMA StreamOpens ==
  ASSUME PoolInv, NEW w \in Workers, OpenStream(w)
  PROVE  /\ work[w] \in Requests
         /\ SetupFails(w) \/ \E m \in Unused : InOpens(w, m) \/ OutOpens(w, m)
PROOF
  <1>1. at[w] \in {"open_in", "open_out"} /\ work[w] \in Requests
    BY DEF OpenStream, PoolInv, Placed, Uses
  <1>2. CASE Unused = {}
    BY <1>1, <1>2 DEF OpenStream, SetupFails, Goto
  <1>3. CASE Unused # {}
    <2> DEFINE m == Lowest({})
    <2>1. m \in Unused
      <3>1. Unused \ {} = Unused /\ Unused \subseteq Nat
        BY RequestPoolAssumption DEF Unused, Fds
      <3> QED BY <1>3, <3>1, LowestIsUnused DEF Lowest
    <2>2. HasPair(work[w])
      BY <1>1 DEF HasPair, InUse, Uses
    <2>3. CASE at[w] = "open_in"
      <3>1. /\ fd' = [fd EXCEPT ![m] = fd[nums[work[w]].inr]]
            /\ dup' = [dup EXCEPT ![w].in = m] /\ starved' = starved
            /\ at' = [at EXCEPT ![w] = "drain"]
        BY <1>3, <2>3 DEF OpenStream, Duplicated, Input, Goto
      <3>2. work[w] \in WithBody
        BY <1>1, <2>3 DEF PoolInv, Placed
      <3>3. Names(nums[work[w]].inr, End(work[w], "in", "read"))
        BY <1>1, <2>2, <3>2 DEF PoolInv, Claims
      <3> HIDE DEF m
      <3>4. m # nums[work[w]].inr
        BY <1>1, <2>1, <3>3, EndsAreEnds DEF Names, Unused
      <3>5. InOpens(w, m)
        BY <2>3, <3>1, <3>2, <3>3, <3>4 DEF InOpens, Names
      <3> QED BY <1>1, <2>1, <3>5
    <2>4. CASE at[w] = "open_out"
      <3>1. /\ fd' = [fd EXCEPT ![m] = fd[nums[work[w]].outw]]
            /\ dup' = [dup EXCEPT ![w].out = m] /\ starved' = starved
            /\ \/ at' = [at EXCEPT ![w] = "run"]
               \/ work[w] \in BadQuery /\ at' = [at EXCEPT ![w] = "raised"]
        BY <1>3, <2>4 DEF OpenStream, Duplicated, Output, Goto
      <3>2. Names(nums[work[w]].outw, End(work[w], "out", "write"))
        BY <1>1, <2>2 DEF PoolInv, Claims
      <3> HIDE DEF m
      <3>3. m # nums[work[w]].outw
        BY <1>1, <2>1, <3>2, EndsAreEnds DEF Names, Unused
      <3>4. OutOpens(w, m)
        BY <2>4, <3>1, <3>2, <3>3 DEF OutOpens, Names
      <3> QED BY <1>1, <2>1, <3>4
    <2> QED BY <1>1, <2>3, <2>4
  <1> QED BY <1>2, <1>3

LEMMA RequestTypes ==
  ASSUME PoolInv, NEW r \in Requests, RequestStep(r) \/ ClientLeaves(r)
  PROVE  Types'
PROOF
  <1> USE DEF PoolInv, Types
  <1>1. CASE OpenPipes(r)
    <2>0. UNCHANGED <<inpipe, outpipe, got, writer, queue, poolVars, workerVars>>
      BY <1>1 DEF OpenPipes
    <2>1. CASE req' = [req EXCEPT ![r] = "failed"] /\ UNCHANGED <<fd, nums>>
      BY <2>0, <2>1 DEF poolVars, workerVars, Sent, Finished
    <2>2. ASSUME NEW outr, NEW outw, NEW inr, NEW inw, Opened(r, outr, outw, inr, inw) PROVE Types'
      <3>1. /\ outr \in 0..MaxFds /\ outw \in 0..MaxFds /\ inr \in 0..MaxFds /\ inw \in 0..MaxFds
        <4>1. /\ outr \in Unused /\ outw \in Unused /\ inr \in Unused \union {0}
              /\ inw \in Unused \union {0}
          BY <2>2 DEF Opened
        <4>2. Unused \subseteq 0..MaxFds /\ 0 \in 0..MaxFds
          BY RequestPoolAssumption DEF Unused, Fds
        <4> QED BY <4>1, <4>2
      <3>2. nums' \in [Requests -> [outr : 0..MaxFds, outw : 0..MaxFds,
                                    inr : 0..MaxFds, inw : 0..MaxFds]]
        BY <2>2, <3>1 DEF Opened
      <3>3. fd' \in [Fds -> Ends \union {Nothing}]
        BY <2>2, EndsAreEnds DEF Opened
      <3>4. req' \in [Requests -> {"new", "sending", "dropped"} \union Sent]
        BY <2>2 DEF Opened
      <3> QED BY <2>0, <3>2, <3>3, <3>4 DEF poolVars, workerVars
    <2> QED BY <1>1, <2>1, <2>2, OpenNumbers
  <1>2. CASE QueueRequest(r)
    <2>1. queue' \in Seq(Requests)
      BY <1>2 DEF QueueRequest
    <2> QED BY <1>2, <2>1 DEF QueueRequest, pipeVars, poolVars, workerVars, Sent
  <1>3. CASE WriteBody(r)
    <2>1. inpipe' \in [Requests -> Seq({"body"})] /\ writer' \in [Requests -> {"none", "writing", "done"}]
          /\ fd' \in [Fds -> Ends \union {Nothing}]
      <3>1. CASE Len(inpipe[r]) < Len(Chunks) /\ IsOpen(End(r, "in", "read"))
        <4>1. Len(Chunks) = 1 /\ Chunks[1] = "body" /\ Len(inpipe[r]) \in Nat
          BY DEF Chunks
        <4>2. Len(inpipe[r]) + 1 = 1
          BY <3>1, <4>1
        <4>3. /\ inpipe' = [inpipe EXCEPT ![r] = Append(@, "body")] /\ writer' = writer /\ fd' = fd
          BY <1>3, <3>1, <4>1, <4>2 DEF WriteBody
        <4> QED BY <4>3
      <3>2. CASE ~(Len(inpipe[r]) < Len(Chunks) /\ IsOpen(End(r, "in", "read")))
        <4>1. /\ inpipe' = inpipe /\ writer' = [writer EXCEPT ![r] = "done"]
              /\ fd' = Closed({nums[r].inw})
          BY <1>3, <3>2 DEF WriteBody
        <4> QED BY <4>1, ClosedTypes
      <3> QED BY <3>1, <3>2
    <2> QED BY <1>3, <2>1 DEF WriteBody, poolVars, workerVars
  <1>4. CASE ReadAnswer(r)
    <2>1. Unread(r) => NextPiece(r) \in Items
      <3>1. Unread(r) => Len(got[r]) + 1 \in 1..Len(outpipe[r])
        BY DEF Unread
      <3>2. outpipe[r] \in Seq(Items)
        OBVIOUS
      <3> QED BY <3>1, <3>2 DEF NextPiece
    <2>2. got' \in [Requests -> Seq(Items)]
      BY <1>4, <2>1 DEF ReadAnswer
    <2>3. fd' \in [Fds -> Ends \union {Nothing}]
      BY <1>4, ClosedTypes DEF ReadAnswer
    <2>4. req' \in [Requests -> {"new", "sending", "dropped"} \union Sent]
      BY <1>4 DEF ReadAnswer, Sent, Finished
    <2> QED BY <1>4, <2>2, <2>3, <2>4 DEF ReadAnswer, poolVars, workerVars
  <1>5. CASE ClientLeaves(r)
    <2>1. fd' \in [Fds -> Ends \union {Nothing}]
      BY <1>5, ClosedTypes DEF ClientLeaves
    <2> QED BY <1>5, <2>1 DEF ClientLeaves, poolVars, workerVars, Sent, Finished
  <1> QED BY <1>1, <1>2, <1>3, <1>4, <1>5 DEF RequestStep

LEMMA WorkerTypes ==
  ASSUME PoolInv, NEW w \in Workers, WorkerStep(w) \/ WorkerDies(w)
  PROVE  Types'
PROOF
  <1> USE DEF PoolInv, Types
  <1> USE DEF Goto
  <1>1. CASE TakeWork(w)
    <2>1. Head(inbox[w]) \in Requests /\ Tail(inbox[w]) \in Seq(Requests)
      BY <1>1, TailElements DEF TakeWork
    <2>2. 0 \in 0..MaxFds /\ <<>> \in Seq({"body"})
      BY RequestPoolAssumption
    <2>3. /\ work' \in [Workers -> Requests \union {Nothing}] /\ inbox' \in [Workers -> Seq(Requests)]
          /\ at' \in [Workers -> Uses \union {"idle", "failed", "signal", "dead"}]
      BY <1>1, <2>1 DEF TakeWork, Uses
    <2>4. /\ dup' \in [Workers -> [in : 0..MaxFds, out : 0..MaxFds]]
          /\ body' \in [Workers -> Seq({"body"})]
      BY <1>1, <2>2 DEF TakeWork
    <2> QED BY <1>1, <2>3, <2>4 DEF TakeWork, rustVars, pipeVars
  <1>2. CASE OpenStream(w)
    <2>0. /\ work[w] \in Requests
          /\ UNCHANGED <<nums, inpipe, outpipe, work, body, rustVars, poolVars>>
      BY <1>2, StreamOpens DEF OpenStream
    <2>1. CASE SetupFails(w)
      BY <2>0, <2>1 DEF SetupFails, rustVars, poolVars
    <2>2. ASSUME NEW m \in Unused, InOpens(w, m) \/ OutOpens(w, m) PROVE Types'
      <3>1. m \in Fds /\ m \in 0..MaxFds
        BY RequestPoolAssumption DEF Unused, Fds
      <3>2. /\ fd' \in [Fds -> Ends \union {Nothing}] /\ starved' = starved
            /\ dup' \in [Workers -> [in : 0..MaxFds, out : 0..MaxFds]]
            /\ at' \in [Workers -> Uses \union {"idle", "failed", "signal", "dead"}]
        <4>1. /\ \E e \in Ends : fd' = [fd EXCEPT ![m] = e]
              /\ starved' = starved
              /\ dup' = [dup EXCEPT ![w].in = m] \/ dup' = [dup EXCEPT ![w].out = m]
              /\ \E l \in Uses : at' = [at EXCEPT ![w] = l]
          BY <2>0, <2>2, EndsAreEnds DEF InOpens, OutOpens, Uses
        <4>2. dup' \in [Workers -> [in : 0..MaxFds, out : 0..MaxFds]]
          <5>1. dup[w] \in [in : 0..MaxFds, out : 0..MaxFds]
            OBVIOUS
          <5>2. PICK d : /\ d = [dup[w] EXCEPT !.in = m] \/ d = [dup[w] EXCEPT !.out = m]
                         /\ dup' = [dup EXCEPT ![w] = d]
            BY <4>1
          <5>3. d \in [in : 0..MaxFds, out : 0..MaxFds]
            BY <3>1, <5>1, <5>2
          <5> QED BY <5>2, <5>3
        <4>3. fd' \in [Fds -> Ends \union {Nothing}]
          BY <3>1, <4>1
        <4>4. at' \in [Workers -> Uses \union {"idle", "failed", "signal", "dead"}]
          BY <4>1
        <4> QED BY <4>1, <4>2, <4>3, <4>4
      <3> QED BY <2>0, <3>2 DEF rustVars, poolVars
    <2> QED BY <1>2, <2>1, <2>2, StreamOpens
  <1>3. CASE DrainBody(w)
    <2>0. work[w] \in Requests
      BY <1>3 DEF DrainBody, Placed, Uses
    <2>1. body' \in [Workers -> Seq({"body"})]
      <3>1. CASE Len(body[w]) < Len(inpipe[work[w]])
        <4>1. inpipe[work[w]] \in Seq({"body"}) /\ body[w] \in Seq({"body"})
          BY <2>0
        <4>2. Len(body[w]) + 1 \in 1..Len(inpipe[work[w]])
          BY <3>1, <4>1
        <4>3. inpipe[work[w]][Len(body[w]) + 1] = "body"
          BY <4>1, <4>2
        <4>4. body' = [body EXCEPT ![w] = Append(@, "body")]
          BY <1>3, <3>1, <4>3 DEF DrainBody
        <4> QED BY <4>4
      <3>2. CASE ~(Len(body[w]) < Len(inpipe[work[w]]))
        BY <1>3, <3>2 DEF DrainBody
      <3> QED BY <3>1, <3>2
    <2>2. at' \in [Workers -> Uses \union {"idle", "failed", "signal", "dead"}]
      BY <1>3, ZenonT(30) DEF DrainBody, Uses
    <2> QED BY <1>3, <2>1, <2>2 DEF DrainBody, rustVars, pipeVars, poolVars
  <1>4. CASE RunHandler(w)
    <2>0. work[w] \in Requests /\ HasDupOut(w)
      BY <1>4 DEF RunHandler, Placed, Uses, HasDupOut
    <2>1. PICK last \in BOOLEAN :
            /\ outpipe' = Written(dup[w].out, [by |-> work[w], last |-> last, error |-> FALSE])
            /\ Goto(w, "close") \/ Goto(w, "more")
      BY <1>4 DEF RunHandler
    <2>2. outpipe' \in [Requests -> Seq(Items)]
      <3>1. [by |-> work[w], last |-> last, error |-> FALSE] \in Items /\ dup[w].out \in Fds
        BY <2>0 DEF Items, Claims, Names
      <3> QED BY <2>1, <3>1, WrittenAppends
    <2>3. at' \in [Workers -> Uses \union {"idle", "failed", "signal", "dead"}]
      BY <2>1 DEF Uses
    <2> QED BY <1>4, <2>2, <2>3 DEF RunHandler, rustVars, poolVars
  <1>5. CASE CloseStreams(w)
    <2>1. fd' \in [Fds -> Ends \union {Nothing}]
      BY <1>5, ClosedTypes DEF CloseStreams
    <2> QED BY <1>5, <2>1 DEF CloseStreams, rustVars, poolVars, Uses
  <1>6. CASE CloseFds(w)
    <2>1. fd' \in [Fds -> Ends \union {Nothing}]
      BY <1>6, ClosedTypes DEF CloseFds
    <2> QED BY <1>6, <2>1 DEF CloseFds, rustVars, poolVars
  <1>7. CASE WriteError(w)
    <2>0. work[w] \in Requests /\ Output(w) \in Fds
      BY <1>7 DEF WriteError, Placed, Claims, Output
    <2>1. outpipe' \in [Requests -> Seq(Items)]
      <3>1. [by |-> work[w], last |-> FALSE, error |-> TRUE] \in Items
        BY <2>0 DEF Items
      <3> QED BY <1>7, <2>0, <3>1, WrittenAppends DEF WriteError
    <2> QED BY <1>7, <2>1 DEF WriteError, rustVars, poolVars
  <1>8. CASE SignalReady(w)
    <2>1. ready' \in Seq(Workers)
      BY <1>8 DEF SignalReady
    <2> QED BY <1>8, <2>1 DEF SignalReady, rustVars, pipeVars
  <1>9. CASE WorkerDies(w)
    BY <1>9 DEF WorkerDies, rustVars, pipeVars
  <1> QED BY <1>1, <1>2, <1>3, <1>4, <1>5, <1>6, <1>7, <1>8, <1>9 DEF WorkerStep

LEMMA OtherTypes ==
  ASSUME PoolInv, Dispatch \/ Watchdog
  PROVE  Types'
PROOF
  <1> USE DEF PoolInv, Types
  <1>1. CASE Dispatch
    <2>1. Head(queue) \in Requests /\ queue' \in Seq(Requests)
      BY <1>1, TailElements DEF Dispatch
    <2>2. order # <<>>
      <3>1. ToSet(<<>>) = {}
        BY DEF ToSet
      <3> QED BY <3>1, RequestPoolAssumption DEF Rotates
    <2>3. Head(order) \in Workers /\ Tail(order) \in Seq(Workers)
      BY <2>2, TailElements
    <2>4. order' \in Seq(Workers) /\ busy' \subseteq Workers /\ inbox' \in [Workers -> Seq(Requests)]
          /\ halted' \in BOOLEAN
      <3> DEFINE v == Head(order)
                 r == Head(queue)
      <3>1. /\ order' = Append(Tail(order), v)
            /\ \/ halted' = TRUE /\ UNCHANGED <<busy, inbox>>
               \/ /\ busy' = busy \union {v} /\ inbox' = [inbox EXCEPT ![v] = Append(@, r)]
                  /\ UNCHANGED halted
        BY <1>1 DEF Dispatch, DispatchRequest
      <3> HIDE DEF v, r
      <3>2. v \in Workers /\ r \in Requests
        BY <2>1, <2>3 DEF v, r
      <3>3. order' \in Seq(Workers)
        BY <2>3, <3>1, <3>2, AppendElements
      <3>4. Append(inbox[v], r) \in Seq(Requests)
        BY <3>2, AppendElements
      <3> QED BY <3>1, <3>2, <3>3, <3>4, ZenonT(30)
    <2> QED BY <1>1, <2>1, <2>4 DEF Dispatch, pipeVars, workerVars
  <1>2. CASE Watchdog
    <2>1. ready' \in Seq(Workers)
      BY <1>2, TailElements DEF Watchdog
    <2> QED BY <1>2, <2>1 DEF Watchdog, rustVars, workerVars, pipeVars
  <1> QED BY <1>1, <1>2

-------------------------------------------------------------------------------
(* Places *)

LEMMA PlacedStays ==
  ASSUME Types, Placed, UNCHANGED <<queue, inbox, work>>,
         \A r \in Requests : req[r] \in Sent => req'[r] \in Sent,
         \A v \in Workers : \/ at'[v] = at[v] \/ at'[v] = "dead"
                            \/ /\ work[v] \in Requests /\ at'[v] # "idle"
                               /\ at'[v] \in {"open_in", "drain"} => work[v] \in WithBody
  PROVE  Placed'
PROOF
  <1>1. \A w \in Workers, r \in Requests : Serves(w, r)' <=> Serves(w, r)
    BY DEF Serves
  <1>2. ToSet(queue) \subseteq Requests /\ ToSet(queue') = ToSet(queue)
    BY DEF Types, ToSet
  <1>3. \A w \in Workers : /\ at'[w] \in Uses \union {"failed", "signal"} => work'[w] \in Requests
                           /\ at'[w] = "idle" => work'[w] = Nothing
                           /\ at'[w] \in {"open_in", "drain"} => work'[w] \in WithBody
    BY DEF Placed, Uses
  <1> QED BY <1>1, <1>2, <1>3 DEF Placed

LEMMA PlacedStep ==
  ASSUME PoolInv, Next
  PROVE  Placed'
PROOF
  <1> USE DEF PoolInv
  <1>0. /\ queue \in Seq(Requests) /\ inbox \in [Workers -> Seq(Requests)]
        /\ work \in [Workers -> Requests \union {Nothing}]
        /\ req \in [Requests -> {"new", "sending", "dropped"} \union Sent]
        /\ DOMAIN at = Workers /\ Nothing \notin Requests
    BY NothingAssumption DEF Types
  <1>1. ASSUME NEW r \in Requests, RequestStep(r) \/ ClientLeaves(r) PROVE Placed'
    <2>1. CASE QueueRequest(r)
      <3>1. /\ req[r] = "sending" /\ queue' = Append(queue, r) /\ req' = [req EXCEPT ![r] = "headers"]
            /\ UNCHANGED <<inbox, work, at>>
        BY <2>1 DEF QueueRequest, poolVars, workerVars
      <3>2. "sending" \notin Sent /\ "headers" \in Sent
        BY DEF Sent, Finished
      <3>3. r \notin ToSet(queue) /\ \A w \in Workers : ~Serves(w, r)
        BY <3>1, <3>2 DEF Placed
      <3>4. ToSet(queue') = ToSet(queue) \union {r} /\ IsInjective(queue')
        BY <1>0, <3>1, <3>3, AppendElements DEF Placed
      <3>5. \A w \in Workers, q \in Requests : Serves(w, q)' <=> Serves(w, q)
        BY <3>1 DEF Serves
      <3>6. \A q \in Requests : req[q] \in Sent => req'[q] \in Sent
        BY <1>0, <3>1, <3>2
      <3>7. req'[r] \in Sent
        BY <1>0, <3>1, <3>2
      <3>8. \A q \in ToSet(queue') : req'[q] \in Sent
        <4>1. ToSet(queue) \subseteq Requests
          BY <1>0 DEF ToSet
        <4> QED BY <3>4, <3>6, <3>7, <4>1 DEF Placed
      <3>9. \A w \in Workers, q \in Requests : Serves(w, q) => q # r
        BY <3>3
      <3> QED BY <3>1, <3>4, <3>5, <3>6, <3>8, <3>9 DEF Placed
    <2>2. CASE OpenPipes(r)
      <3>1. req[r] = "new" /\ \E l : req' = [req EXCEPT ![r] = l]
        BY <2>2 DEF OpenPipes
      <3>2. \A q \in Requests : req[q] \in Sent => req'[q] \in Sent
        BY <1>0, <3>1 DEF Sent, Finished
      <3> QED BY <2>2, <3>2, PlacedStays DEF OpenPipes, rustVars, poolVars, workerVars
    <2>3. CASE WriteBody(r)
      BY <2>3, PlacedStays DEF WriteBody, poolVars, workerVars
    <2>4. CASE ReadAnswer(r)
      <3>1. \E l \in Sent : req' = [req EXCEPT ![r] = l]
        BY <2>4 DEF ReadAnswer, Sent, Finished
      <3>2. \A q \in Requests : req[q] \in Sent => req'[q] \in Sent
        BY <1>0, <3>1
      <3> QED BY <2>4, <3>2, PlacedStays DEF ReadAnswer, poolVars, workerVars
    <2>5. CASE ClientLeaves(r)
      <3>1. /\ req' = [req EXCEPT ![r] = IF req[r] = "sending" THEN "dropped" ELSE "left"]
            /\ "left" \in Sent /\ "sending" \notin Sent
        BY <2>5 DEF ClientLeaves, Sent, Finished
      <3>2. \A q \in Requests : req[q] \in Sent => req'[q] \in Sent
        BY <1>0, <3>1
      <3> QED BY <2>5, <3>2, PlacedStays DEF ClientLeaves, poolVars, workerVars
    <2> QED BY <1>1, <2>1, <2>2, <2>3, <2>4, <2>5 DEF RequestStep
  <1>2. CASE Dispatch
    <2> DEFINE r == Head(queue)
               v == Head(order)
    <2>1. /\ queue # <<>> /\ queue' = Tail(queue) /\ UNCHANGED <<req, work, at>>
          /\ \/ UNCHANGED inbox
             \/ inbox' = [inbox EXCEPT ![v] = Append(@, r)]
      BY <1>2 DEF Dispatch, DispatchRequest, workerVars
    <2>2. /\ r \in Requests /\ ToSet(queue) = ToSet(queue') \union {r} /\ IsInjective(queue')
          /\ r \notin ToSet(queue')
      BY <1>0, <2>1, TailElements DEF Placed
    <2>3. v \in Workers
      <3>1. ToSet(<<>>) = {} /\ order \in Seq(Workers)
        BY DEF ToSet, Types
      <3>2. order # <<>>
        BY <3>1, RequestPoolAssumption DEF Rotates
      <3> QED BY <3>1, <3>2, TailElements
    <2>4. r \in ToSet(queue) /\ req[r] \in Sent /\ \A w \in Workers : ~Serves(w, r)
      BY <2>2 DEF Placed
    <2> HIDE DEF r, v
    <2>5. CASE UNCHANGED inbox
      <3>1. \A w \in Workers, q \in Requests : Serves(w, q)' <=> Serves(w, q)
        BY <2>1, <2>5 DEF Serves
      <3> QED BY <2>1, <2>2, <2>5, <3>1 DEF Placed
    <2>6. CASE inbox' = [inbox EXCEPT ![v] = Append(@, r)]
      <3>1. /\ ToSet(inbox'[v]) = ToSet(inbox[v]) \union {r} /\ IsInjective(inbox'[v])
            /\ \A w \in Workers : w # v => inbox'[w] = inbox[w]
        <4>1. inbox[v] \in Seq(Requests) /\ r \notin ToSet(inbox[v]) /\ IsInjective(inbox[v])
          BY <1>0, <2>3, <2>4 DEF Placed, Serves
        <4>2. inbox'[v] = Append(inbox[v], r)
          BY <1>0, <2>3, <2>6
        <4> QED BY <1>0, <2>2, <2>6, <4>1, <4>2, AppendElements
      <3>2. \A w \in Workers, q \in Requests : Serves(w, q)' <=> Serves(w, q) \/ (w = v /\ q = r)
        BY <1>0, <2>1, <2>3, <3>1 DEF Serves
      <3>3. \A w \in Workers : IsInjective(inbox'[w])
        BY <3>1 DEF Placed
      <3>4. ASSUME NEW w \in Workers, NEW q \in Requests, Serves(w, q)'
            PROVE  /\ req'[q] \in Sent /\ q \notin ToSet(queue')
                   /\ ~(work'[w] = q /\ q \in ToSet(inbox'[w]))
                   /\ \A u \in Workers : Serves(u, q)' => u = w
        <4>1. CASE q = r
          BY <1>0, <2>1, <2>2, <2>4, <3>1, <3>2, <3>4, <4>1 DEF Serves
        <4>2. CASE q # r
          BY <2>1, <2>2, <3>1, <3>2, <3>4, <4>2 DEF Placed
        <4> QED BY <4>1, <4>2
      <3> QED BY <2>1, <2>2, <3>3, <3>4 DEF Placed
    <2> QED BY <2>1, <2>5, <2>6
  <1>3. CASE Watchdog
    BY <1>3, PlacedStays DEF Watchdog, rustVars, workerVars
  <1>4. ASSUME NEW w \in Workers, WorkerStep(w) \/ WorkerDies(w) PROVE Placed'
    <2>1. CASE TakeWork(w)
      <3> DEFINE r == Head(inbox[w])
      <3>1. /\ at[w] = "idle" /\ inbox[w] # <<>> /\ UNCHANGED <<queue, req>>
            /\ work' = [work EXCEPT ![w] = r] /\ inbox' = [inbox EXCEPT ![w] = Tail(@)]
            /\ at' = [at EXCEPT ![w] = IF r \in WithBody THEN "open_in" ELSE "open_out"]
        BY <2>1 DEF TakeWork, Goto, rustVars
      <3>2. /\ r \in Requests /\ ToSet(inbox[w]) = ToSet(Tail(inbox[w])) \union {r}
            /\ IsInjective(Tail(inbox[w])) /\ r \notin ToSet(Tail(inbox[w]))
        BY <1>0, <3>1, TailElements DEF Placed
      <3> HIDE DEF r
      <3>3. /\ inbox'[w] = Tail(inbox[w]) /\ work'[w] = r /\ work[w] = Nothing
            /\ \A v \in Workers : v # w => inbox'[v] = inbox[v] /\ work'[v] = work[v] /\ at'[v] = at[v]
            /\ at'[w] = (IF r \in WithBody THEN "open_in" ELSE "open_out")
        BY <1>0, <3>1 DEF Placed
      <3>4. \A v \in Workers, q \in Requests : Serves(v, q)' <=> Serves(v, q)
        BY <1>0, <3>2, <3>3 DEF Serves
      <3>5. \A v \in Workers : IsInjective(inbox'[v])
        BY <3>2, <3>3 DEF Placed
      <3>6. \A v \in Workers, q \in Requests : Serves(v, q)' =>
              ~(work'[v] = q /\ q \in ToSet(inbox'[v]))
        BY <3>2, <3>3, <3>4 DEF Placed
      <3>7. \A v \in Workers :
              /\ at'[v] \in Uses \union {"failed", "signal"} => work'[v] \in Requests
              /\ at'[v] = "idle" => work'[v] = Nothing
              /\ at'[v] \in {"open_in", "drain"} => work'[v] \in WithBody
        BY <3>2, <3>3 DEF Placed
      <3> QED BY <3>1, <3>4, <3>5, <3>6, <3>7 DEF Placed
    <2>2. CASE SignalReady(w)
      <3>1. /\ UNCHANGED <<queue, req, inbox>> /\ work' = [work EXCEPT ![w] = Nothing]
            /\ at' = [at EXCEPT ![w] = "idle"]
        BY <2>2 DEF SignalReady, Goto, rustVars
      <3>2. \A v \in Workers, q \in Requests : Serves(v, q)' => Serves(v, q)
        BY <1>0, <3>1 DEF Serves
      <3>3. \A v \in Workers : /\ v # w => work'[v] = work[v] /\ at'[v] = at[v]
                               /\ v = w => work'[v] = Nothing /\ at'[v] = "idle"
        BY <1>0, <3>1
      <3>4. \A v \in Workers, q \in Requests : Serves(v, q)' =>
              ~(work'[v] = q /\ q \in ToSet(inbox'[v]))
        BY <1>0, <3>1, <3>2, <3>3 DEF Placed
      <3>5. \A v \in Workers :
              /\ at'[v] \in Uses \union {"failed", "signal"} => work'[v] \in Requests
              /\ at'[v] = "idle" => work'[v] = Nothing
              /\ at'[v] \in {"open_in", "drain"} => work'[v] \in WithBody
        BY <3>3 DEF Placed, Uses
      <3> QED BY <3>1, <3>2, <3>4, <3>5 DEF Placed
    <2>3. CASE OpenStream(w)
      <3>1. UNCHANGED <<queue, inbox, work, req>>
        BY <2>3 DEF OpenStream, rustVars, poolVars
      <3>2. work[w] \in Requests
        BY <2>3, StreamOpens
      <3>3. \E l : at' = [at EXCEPT ![w] = l] /\ l # "idle" /\ l # "open_in"
                     /\ (l = "drain" => work[w] \in WithBody)
        BY <2>3, StreamOpens DEF SetupFails, InOpens, OutOpens
      <3> QED BY <1>0, <3>1, <3>2, <3>3, PlacedStays
    <2>4. CASE DrainBody(w) \/ RunHandler(w) \/ CloseStreams(w) \/ CloseFds(w) \/ WriteError(w)
      <3>1. UNCHANGED <<queue, inbox, work, req>>
        BY <2>4 DEF DrainBody, RunHandler, CloseStreams, CloseFds, WriteError, rustVars, poolVars
      <3>2. work[w] \in Requests
        BY <2>4 DEF DrainBody, RunHandler, CloseStreams, CloseFds, WriteError, Placed, Uses
      <3>3. at' = at \/ \E l : at' = [at EXCEPT ![w] = l] /\ l \notin {"idle", "open_in", "drain"}
        BY <2>4 DEF DrainBody, RunHandler, CloseStreams, CloseFds, WriteError, Goto
      <3> QED BY <1>0, <3>1, <3>2, <3>3, PlacedStays
    <2>5. CASE WorkerDies(w)
      <3>1. \A v \in Workers : at'[v] = at[v] \/ at'[v] = "dead"
        BY <1>0, <2>5 DEF WorkerDies, Goto
      <3> QED BY <2>5, <3>1, PlacedStays DEF WorkerDies, rustVars
    <2> QED BY <1>4, <2>1, <2>2, <2>3, <2>4, <2>5 DEF WorkerStep
  <1> QED BY <1>1, <1>2, <1>3, <1>4 DEF Next

-------------------------------------------------------------------------------
(* Claims *)

\* The numbers of S are closed, and whose claims end are those whose numbers are in S, or
\* who leave them behind.
LEMMA HeldStays ==
  ASSUME Types, Claims, Accounted, ~halted, NEW S, fd' = Closed(S), nums' = nums,
         starved \subseteq starved',
         \A r \in Requests :
           /\ req[r] = "dropped" => req'[r] = "dropped"
           /\ Waits(r)' => Waits(r) /\ nums[r].outr \notin S
           /\ Waits(r) => Waits(r)' \/ nums[r].outr \in S
           /\ HasPair(r)' => /\ HasPair(r) /\ nums[r].outw \notin S
                             /\ r \in WithBody => nums[r].inr \notin S
           /\ HasPair(r) => HasPair(r)' \/ {nums[r].outw, nums[r].inr} \subseteq S \/ Left(r)' \/ halted'
           /\ HasInW(r)' => HasInW(r) /\ nums[r].inw \notin S
           /\ HasInW(r) => HasInW(r)' \/ nums[r].inw \in S,
         \A w \in Workers :
           /\ HasDupIn(w)' => /\ HasDupIn(w) /\ dup'[w] = dup[w] /\ work'[w] = work[w]
                              /\ dup[w].in \notin S
           /\ HasDupIn(w) => \/ HasDupIn(w)' /\ dup'[w] = dup[w] /\ work'[w] = work[w]
                             \/ dup[w].in \in S \/ (work'[w] = work[w] /\ Left(work[w])')
           /\ HasDupOut(w)' => /\ HasDupOut(w) /\ dup'[w] = dup[w] /\ work'[w] = work[w]
                               /\ dup[w].out \notin S
           /\ HasDupOut(w) => \/ HasDupOut(w)' /\ dup'[w] = dup[w] /\ work'[w] = work[w]
                              \/ dup[w].out \in S
           /\ at'[w] \in Uses /\ work'[w] \notin WithBody => dup'[w].in = 0
           /\ at'[w] = "failed" => nums[work'[w]].outw \in Fds
  PROVE  Claims' /\ Accounted'
PROOF
  <1>1. \A n \in Fds : fd'[n] = (IF n \in S THEN Nothing ELSE fd[n])
    BY DEF Closed
  <1>2. Claims'
    <2>1. ASSUME NEW r \in Requests
          PROVE  /\ Waits(r)' => nums[r].outr \in Fds /\ fd'[nums[r].outr] = End(r, "out", "read")
                 /\ HasPair(r)' => nums[r].outw \in Fds /\ fd'[nums[r].outw] = End(r, "out", "write")
                 /\ HasPair(r)' /\ r \in WithBody =>
                      nums[r].inr \in Fds /\ fd'[nums[r].inr] = End(r, "in", "read")
                 /\ HasInW(r)' => nums[r].inw \in Fds /\ fd'[nums[r].inw] = End(r, "in", "write")
                 /\ r \notin WithBody => nums[r].inr = 0 /\ nums[r].inw = 0
      BY <1>1, <2>1 DEF Claims, Names
    <2>2. ASSUME NEW w \in Workers
          PROVE  /\ HasDupIn(w)' => /\ dup'[w].in \in Fds /\ fd'[dup'[w].in] = End(work'[w], "in", "read")
                                    /\ dup'[w].in # nums[work'[w]].inr
                 /\ HasDupOut(w)' => /\ dup'[w].out \in Fds
                                     /\ fd'[dup'[w].out] = End(work'[w], "out", "write")
                                     /\ dup'[w].out # nums[work'[w]].outw
                 /\ at'[w] \in Uses /\ work'[w] \notin WithBody => dup'[w].in = 0
                 /\ at'[w] = "failed" => nums[work'[w]].outw \in Fds
      BY <1>1, <2>2 DEF Claims, Names
    <2> QED BY <2>1, <2>2 DEF Claims, Names
  <1>3. ASSUME ~halted', NEW n \in Fds, fd'[n] # Nothing
        PROVE  ClaimedBy(n, fd[n].of)' /\ fd'[n] = fd[n]
    <2>1. n \notin S /\ fd'[n] = fd[n] /\ fd[n] # Nothing
      BY <1>1, <1>3
    <2>2. PICK r \in Requests : r = fd[n].of
      BY <2>1 DEF Types, Ends
    <2>3. ClaimedBy(n, r)
      BY <2>1, <2>2 DEF Accounted
    <2>4. CASE Left(r)
      BY <2>1, <2>2, <2>4 DEF ClaimedBy, Left
    <2>5. CASE n = nums[r].outr /\ Waits(r)
      BY <2>1, <2>2, <2>5 DEF ClaimedBy
    <2>6. CASE n \in {nums[r].outw, nums[r].inr} /\ HasPair(r)
      BY <1>3, <2>1, <2>2, <2>6 DEF ClaimedBy
    <2>7. CASE n = nums[r].inw /\ HasInW(r)
      BY <2>1, <2>2, <2>7 DEF ClaimedBy
    <2>8. ASSUME NEW w \in Workers, work[w] = r,
                 (n = dup[w].in /\ HasDupIn(w)) \/ (n = dup[w].out /\ HasDupOut(w))
          PROVE  ClaimedBy(n, r)'
      BY <2>1, <2>8 DEF ClaimedBy
    <2> QED BY <2>1, <2>2, <2>3, <2>4, <2>5, <2>6, <2>7, <2>8 DEF ClaimedBy
  <1> QED BY <1>2, <1>3 DEF Accounted

LEMMA EndsDiffer ==
  ASSUME NEW r \in Requests, NEW q \in Requests,
         NEW p \in {"in", "out"}, NEW c \in {"in", "out"},
         NEW d \in {"read", "write"}, NEW e \in {"read", "write"},
         End(r, p, d) = End(q, c, e)
  PROVE  r = q /\ p = c /\ d = e
PROOF BY EndsAreEnds

LEMMA WorkersStay ==
  ASSUME UNCHANGED workerVars, Claims, nums' = nums
  PROVE  /\ \A w \in Workers : /\ HasDupIn(w)' <=> HasDupIn(w)
                               /\ HasDupOut(w)' <=> HasDupOut(w)
                               /\ InUse(w)' <=> InUse(w)
                               /\ at'[w] \in Uses /\ work'[w] \notin WithBody => dup'[w].in = 0
                               /\ at'[w] = "failed" => nums[work'[w]].outw \in Fds
         /\ at' = at /\ work' = work /\ dup' = dup /\ starved' = starved
PROOF BY DEF workerVars, HasDupIn, HasDupOut, InUse, Claims

\* A request that was not sent is at no place of the pool.
LEMMA NotSentNotPlaced ==
  ASSUME Placed, NEW r \in Requests, req[r] \notin Sent
  PROVE  r \notin ToSet(queue) /\ \A w \in Workers : r \notin ToSet(inbox[w]) /\ work[w] # r
PROOF BY DEF Placed, Serves

LEMMA RequestClaims ==
  ASSUME PoolInv, ~halted, NEW r \in Requests,
         QueueRequest(r) \/ WriteBody(r) \/ ReadAnswer(r) \/ ClientLeaves(r)
  PROVE  Claims' /\ Accounted'
PROOF
  <1> USE DEF PoolInv
  <1>0. /\ req \in [Requests -> {"new", "sending", "dropped"} \union Sent]
        /\ writer \in [Requests -> {"none", "writing", "done"}]
        /\ queue \in Seq(Requests) /\ fd \in [Fds -> Ends \union {Nothing}]
        /\ Closed({}) = fd
    BY DEF Types, Closed
  <1>1. /\ nums' = nums /\ UNCHANGED workerVars /\ UNCHANGED inbox
    BY DEF QueueRequest, WriteBody, ReadAnswer, ClientLeaves, pipeVars, poolVars
  <1>2. /\ \A w \in Workers : /\ HasDupIn(w)' <=> HasDupIn(w)
                              /\ HasDupOut(w)' <=> HasDupOut(w)
                              /\ InUse(w)' <=> InUse(w)
                              /\ at'[w] \in Uses /\ work'[w] \notin WithBody => dup'[w].in = 0
                              /\ at'[w] = "failed" => nums[work'[w]].outw \in Fds
        /\ at' = at /\ work' = work /\ dup' = dup /\ starved' = starved
    BY <1>1, WorkersStay
  <1>3. \A w \in Workers : HasDupIn(w) \/ HasDupOut(w) => work[w] \in Requests
    BY DEF HasDupIn, HasDupOut, Placed, Uses
  <1>4. CASE QueueRequest(r)
    <2>1. /\ req[r] = "sending" /\ req' = [req EXCEPT ![r] = "headers"] /\ queue' = Append(queue, r)
          /\ writer' = [writer EXCEPT ![r] = IF r \in WithBody THEN "writing" ELSE "none"]
          /\ fd' = fd
      BY <1>4 DEF QueueRequest, pipeVars
    <2>2. ToSet(queue') = ToSet(queue) \union {r}
      BY <1>0, <2>1, AppendElements
    <2>3. \A q \in Requests : /\ Waits(q)' <=> Waits(q)
                              /\ HasPair(q)' <=> HasPair(q)
                              /\ HasInW(q)' <=> HasInW(q)
                              /\ req[q] = "dropped" => req'[q] = "dropped"
      BY <1>0, <1>1, <1>2, <2>1, <2>2 DEF Waits, HasPair, HasInW
    <2> QED BY <1>0, <1>1, <1>2, <2>1, <2>3, HeldStays, SMTT(30)
  <1>5. CASE WriteBody(r)
    <2>1. UNCHANGED <<req, queue>> /\ writer[r] = "writing"
      BY <1>5 DEF WriteBody
    <2>2. \A q \in Requests : /\ Waits(q)' <=> Waits(q)
                              /\ HasPair(q)' <=> HasPair(q)
                              /\ req[q] = "dropped" => req'[q] = "dropped"
      BY <1>1, <1>2, <2>1 DEF Waits, HasPair
    <2>3. CASE writer' = writer /\ fd' = fd
      <3>1. \A q \in Requests : HasInW(q)' <=> HasInW(q)
        BY <2>1, <2>3 DEF HasInW
      <3> QED BY <1>0, <1>1, <1>2, <2>2, <2>3, <3>1, HeldStays
    <2>4. CASE writer' = [writer EXCEPT ![r] = "done"] /\ fd' = Closed({nums[r].inw})
      <3> DEFINE n == nums[r].inw
      <3>1. HasInW(r) /\ ~HasInW(r)'
        BY <1>0, <2>1, <2>4 DEF Bodies, WrittenBody, HasInW
      <3>2. Names(n, End(r, "in", "write"))
        BY <3>1 DEF Claims
      <3>3. \A q \in Requests : q # r => (HasInW(q)' <=> HasInW(q))
        BY <1>0, <2>1, <2>4 DEF HasInW
      <3> HIDE DEF n
      <3>4. \A q \in Requests : /\ Waits(q) => nums[q].outr # n
                                /\ HasPair(q) => nums[q].outw # n
                                /\ HasPair(q) /\ q \in WithBody => nums[q].inr # n
                                /\ HasInW(q) /\ q # r => nums[q].inw # n
        BY <3>2, EndsDiffer DEF Claims, Names
      <3>5. \A w \in Workers : /\ HasDupIn(w) => dup[w].in # n
                               /\ HasDupOut(w) => dup[w].out # n
        BY <1>3, <3>2, EndsDiffer DEF Claims, Names
      <3>6. \A q \in Requests : /\ HasInW(q)' => HasInW(q) /\ nums[q].inw \notin {n}
                                /\ HasInW(q) => HasInW(q)' \/ nums[q].inw \in {n}
        BY <3>1, <3>3, <3>4 DEF n
      <3>7. fd' = Closed({n})
        BY <2>4 DEF n
      <3> QED BY <1>1, <1>2, <2>2, <3>4, <3>5, <3>6, <3>7, HeldStays
    <2> QED BY <1>5, <2>3, <2>4 DEF WriteBody
  <1>6. ASSUME Waits(r), NEW S, fd' = Closed(S), UNCHANGED <<writer, queue>>,
               NEW l, req' = [req EXCEPT ![r] = l], l # "sending",
               Waits(r)' <=> nums[r].outr \notin S,
               S \subseteq {nums[r].outr, nums[r].inw},
               req[r] = "sending" => /\ l = "dropped" /\ S = {nums[r].outr, nums[r].inw}
                                     /\ writer[r] = "none",
               req[r] # "sending" => S \subseteq {nums[r].outr}
        PROVE  Claims' /\ Accounted'
    <2>1. /\ Names(nums[r].outr, End(r, "out", "read"))
          /\ HasInW(r) => Names(nums[r].inw, End(r, "in", "write"))
          /\ r \notin WithBody => nums[r].inw = 0
      BY <1>6 DEF Claims
    <2>2. 0 \notin Fds
      BY DEF Fds
    <2>3. \A n \in S : \/ Names(n, End(r, "out", "read")) /\ n = nums[r].outr
                       \/ Names(n, End(r, "in", "write")) /\ n = nums[r].inw
                       \/ n \notin Fds
      BY <1>6, <2>1, <2>2 DEF HasInW
    <2>4. \A q \in Requests : /\ Waits(q) /\ q # r => nums[q].outr \notin S
                              /\ HasPair(q) => nums[q].outw \notin S
                              /\ HasPair(q) /\ q \in WithBody => nums[q].inr \notin S
                              /\ HasInW(q) /\ q # r => nums[q].inw \notin S
      BY <2>3, EndsDiffer DEF Claims, Names
    <2>5. \A w \in Workers : /\ HasDupIn(w) => dup[w].in \notin S
                             /\ HasDupOut(w) => dup[w].out \notin S
      BY <1>3, <2>3, EndsDiffer DEF Claims, Names
    <2>6. \A q \in Requests : q # r => /\ Waits(q)' <=> Waits(q)
                                       /\ HasPair(q)' <=> HasPair(q)
                                       /\ HasInW(q)' <=> HasInW(q)
                                       /\ req'[q] = req[q]
      BY <1>0, <1>1, <1>2, <1>6 DEF Waits, HasPair, HasInW
    <2>7. CASE req[r] = "sending"
      <3>1. req'[r] = "dropped" /\ req[r] \notin Sent
        BY <1>0, <1>6, <2>7 DEF Sent, Finished
      <3>2. ~HasPair(r)' /\ ~HasInW(r)' /\ Left(r)'
        BY <1>1, <1>2, <1>6, <2>7, <3>1, NotSentNotPlaced DEF HasPair, HasInW, Left
      <3>3. \A q \in Requests :
              /\ req[q] = "dropped" => req'[q] = "dropped"
              /\ Waits(q)' => Waits(q) /\ nums[q].outr \notin S
              /\ Waits(q) => Waits(q)' \/ nums[q].outr \in S
              /\ HasPair(q)' => /\ HasPair(q) /\ nums[q].outw \notin S
                                /\ q \in WithBody => nums[q].inr \notin S
              /\ HasPair(q) => HasPair(q)' \/ Left(q)'
              /\ HasInW(q)' => HasInW(q) /\ nums[q].inw \notin S
              /\ HasInW(q) => HasInW(q)' \/ nums[q].inw \in S
        BY <1>6, <2>4, <2>6, <2>7, <3>1, <3>2
      <3> QED BY <1>1, <1>2, <1>6, <2>5, <3>3, HeldStays
    <2>8. CASE req[r] # "sending"
      <3>1. nums[r].inw \notin S \/ ~HasInW(r)
        BY <1>6, <2>1, <2>8, EndsDiffer DEF Names
      <3>2. /\ HasPair(r)' <=> HasPair(r)
            /\ HasInW(r)' <=> HasInW(r)
            /\ req[r] # "dropped"
        BY <1>0, <1>1, <1>2, <1>6, <2>8 DEF HasPair, HasInW, Waits
      <3>3. \A q \in Requests :
              /\ req[q] = "dropped" => req'[q] = "dropped"
              /\ Waits(q)' => Waits(q) /\ nums[q].outr \notin S
              /\ Waits(q) => Waits(q)' \/ nums[q].outr \in S
              /\ HasPair(q)' => /\ HasPair(q) /\ nums[q].outw \notin S
                                /\ q \in WithBody => nums[q].inr \notin S
              /\ HasPair(q) => HasPair(q)'
              /\ HasInW(q)' => HasInW(q) /\ nums[q].inw \notin S
              /\ HasInW(q) => HasInW(q)'
        BY <1>6, <2>4, <2>6, <3>1, <3>2
      <3> QED BY <1>1, <1>2, <1>6, <2>5, <3>3, HeldStays
    <2> QED BY <2>7, <2>8
  <1>7. CASE ReadAnswer(r)
    <2>1. req[r] \in {"headers", "body"} /\ Waits(r) /\ UNCHANGED <<writer, queue>>
      BY <1>7 DEF ReadAnswer, Waits
    <2>2. CASE BodyEnds(r)
      <3>1. /\ fd' = Closed({nums[r].outr})
            /\ \E l \in {"answered", "failed"} : req' = [req EXCEPT ![r] = l]
        BY <1>7, <2>2 DEF ReadAnswer
      <3>2. ~Waits(r)'
        BY <1>0, <3>1 DEF Waits
      <3>3. PICK l \in {"answered", "failed"} : req' = [req EXCEPT ![r] = l]
        BY <3>1
      <3>4. l # "sending" /\ req[r] # "sending" /\ nums[r].outr \in {nums[r].outr}
        BY <2>1
      <3> QED BY <1>6, <2>1, <3>1, <3>2, <3>3, <3>4
    <2>3. CASE ~BodyEnds(r)
      <3>1. fd' = Closed({}) /\ req' = [req EXCEPT ![r] = "body"]
        BY <1>0, <1>7, <2>3 DEF ReadAnswer
      <3>2. Waits(r)'
        BY <1>0, <3>1 DEF Waits
      <3>3. PICK S, l : S = {} /\ l = "body" /\ fd' = Closed(S) /\ req' = [req EXCEPT ![r] = l]
        BY <3>1
      <3>4. l # "sending" /\ req[r] # "sending" /\ nums[r].outr \notin S
        BY <2>1, <3>3
      <3> QED BY <1>6, <2>1, <3>2, <3>3, <3>4
    <2> QED BY <2>2, <2>3
  <1>8. CASE ClientLeaves(r)
    <2>1. /\ req[r] \in {"sending", "headers", "body"} /\ Waits(r) /\ UNCHANGED <<writer, queue>>
          /\ req' = [req EXCEPT ![r] = IF req[r] = "sending" THEN "dropped" ELSE "left"]
          /\ fd' = Closed({nums[r].outr} \union IF req[r] = "sending" THEN {nums[r].inw} ELSE {})
      BY <1>8 DEF ClientLeaves, Waits
    <2>2. ~Waits(r)'
      BY <1>0, <2>1 DEF Waits
    <2>3. req[r] = "sending" => writer[r] = "none"
      BY DEF Bodies, WrittenBody
    <2>4. CASE req[r] = "sending"
      <3>1. fd' = Closed({nums[r].outr, nums[r].inw}) /\ req' = [req EXCEPT ![r] = "dropped"]
        <4>1. {nums[r].outr} \union {nums[r].inw} = {nums[r].outr, nums[r].inw}
          OBVIOUS
        <4> QED BY <2>1, <2>4, <4>1
      <3> DEFINE S == {nums[r].outr, nums[r].inw}
      <3>2. /\ nums[r].outr \in S /\ S \subseteq {nums[r].outr, nums[r].inw}
            /\ S = {nums[r].outr, nums[r].inw} /\ fd' = Closed(S)
        BY <3>1
      <3> HIDE DEF S
      <3> QED BY <1>6, <2>1, <2>2, <2>3, <2>4, <3>1, <3>2
    <2>5. CASE req[r] # "sending"
      <3>1. fd' = Closed({nums[r].outr}) /\ req' = [req EXCEPT ![r] = "left"]
        <4>1. {nums[r].outr} \union {} = {nums[r].outr}
          OBVIOUS
        <4> QED BY <2>1, <2>5, <4>1
      <3> QED BY <1>6, <2>1, <2>2, <2>5, <3>1
    <2> QED BY <2>4, <2>5
  <1> QED BY <1>4, <1>5, <1>7, <1>8

LEMMA OpenClaims ==
  ASSUME PoolInv, ~halted, NEW r \in Requests, OpenPipes(r)
  PROVE  Claims' /\ Accounted'
PROOF
  <1> USE DEF PoolInv
  <1>0. /\ req \in [Requests -> {"new", "sending", "dropped"} \union Sent]
        /\ fd \in [Fds -> Ends \union {Nothing}] /\ DOMAIN nums = Requests
        /\ Closed({}) = fd /\ req[r] = "new" /\ req[r] \notin Sent
        /\ UNCHANGED workerVars /\ UNCHANGED <<inbox, queue, writer, halted>>
    BY DEF Types, Closed, OpenPipes, Sent, Finished, poolVars
  <1>1. r \notin ToSet(queue) /\ \A w \in Workers : r \notin ToSet(inbox[w]) /\ work[w] # r
    BY <1>0, NotSentNotPlaced
  <1>2. ~Waits(r) /\ ~HasPair(r) /\ ~HasInW(r)
    BY <1>0, <1>1 DEF Waits, HasPair, HasInW, Bodies, WrittenBody
  <1>3. /\ at' = at /\ work' = work /\ dup' = dup /\ starved' = starved
        /\ \A w \in Workers : /\ HasDupIn(w)' <=> HasDupIn(w)
                              /\ HasDupOut(w)' <=> HasDupOut(w)
                              /\ InUse(w)' <=> InUse(w)
    BY <1>0 DEF workerVars, HasDupIn, HasDupOut, InUse
  <1>4. ASSUME NEW l, req' = [req EXCEPT ![r] = l]
        PROVE  \A q \in Requests : q # r => /\ Waits(q)' <=> Waits(q)
                                            /\ HasPair(q)' <=> HasPair(q)
                                            /\ HasInW(q)' <=> HasInW(q)
                                            /\ req'[q] = req[q]
    BY <1>0, <1>3, <1>4 DEF Waits, HasPair, HasInW
  <1>5. CASE req' = [req EXCEPT ![r] = "failed"] /\ UNCHANGED <<fd, nums>>
    <2>1. ~Waits(r)' /\ ~HasPair(r)' /\ ~HasInW(r)'
      BY <1>0, <1>1, <1>3, <1>5 DEF Waits, HasPair, HasInW, Bodies, WrittenBody
    <2>2. /\ \A w \in Workers : /\ at'[w] \in Uses /\ work'[w] \notin WithBody => dup'[w].in = 0
                                /\ at'[w] = "failed" => nums[work'[w]].outw \in Fds
      BY <1>3 DEF Claims
    <2>3. \A q \in Requests : /\ Waits(q)' <=> Waits(q)
                              /\ HasPair(q)' <=> HasPair(q)
                              /\ HasInW(q)' <=> HasInW(q)
                              /\ req[q] = "dropped" => req'[q] = "dropped"
      BY <1>0, <1>2, <1>4, <1>5, <2>1
    <2> QED BY <1>0, <1>3, <1>5, <2>2, <2>3, HeldStays
  <1>6. ASSUME NEW outr, NEW outw, NEW inr, NEW inw, Opened(r, outr, outw, inr, inw)
        PROVE  Claims' /\ Accounted'
    <2>1. /\ outr \in Unused /\ outw \in Unused \ {outr}
          /\ r \in WithBody => inr \in Unused \ {outr, outw} /\ inw \in Unused \ {outr, outw, inr}
          /\ r \notin WithBody => inr = 0 /\ inw = 0
          /\ nums' = [nums EXCEPT ![r] = [outr |-> outr, outw |-> outw, inr |-> inr, inw |-> inw]]
          /\ req' = [req EXCEPT ![r] = "sending"]
      BY <1>6 DEF Opened
    <2>2. /\ nums'[r].outr = outr /\ nums'[r].outw = outw /\ nums'[r].inr = inr /\ nums'[r].inw = inw
          /\ \A q \in Requests : q # r => nums'[q] = nums[q]
      BY <1>0, <2>1
    <2>3. 0 \notin Fds /\ \A n \in Unused : n \in Fds /\ fd[n] = Nothing
      BY DEF Fds, Unused
    <2>4. /\ \A n \in Fds : fd[n] # Nothing => fd'[n] = fd[n]
          /\ \A n \in Fds : n \notin {outr, outw, inr, inw} => fd'[n] = fd[n]
          /\ fd'[outr] = End(r, "out", "read") /\ fd'[outw] = End(r, "out", "write")
          /\ r \in WithBody => fd'[inr] = End(r, "in", "read") /\ fd'[inw] = End(r, "in", "write")
      <3>1. fd' = [k \in Fds |->
               CASE k = outr -> End(r, "out", "read")
                 [] k = outw -> End(r, "out", "write")
                 [] k = inr -> End(r, "in", "read")
                 [] k = inw -> End(r, "in", "write")
                 [] OTHER -> fd[k]]
        BY <1>6 DEF Opened
      <3>2. ASSUME NEW n \in Fds, n \notin {outr, outw, inr, inw} PROVE fd'[n] = fd[n]
        BY <3>1, <3>2
      <3>3. ASSUME NEW n \in Fds, fd[n] # Nothing PROVE fd'[n] = fd[n]
        <4>1. n \notin {outr, outw, inr, inw}
          BY <2>1, <2>3, <3>3
        <4> QED BY <3>2, <4>1
      <3>4. fd'[outr] = End(r, "out", "read") /\ fd'[outw] = End(r, "out", "write")
        BY <2>1, <2>3, <3>1
      <3>5. ASSUME r \in WithBody
            PROVE fd'[inr] = End(r, "in", "read") /\ fd'[inw] = End(r, "in", "write")
        <4>1. inr \in Fds /\ inr \notin {outr, outw} /\ inw \in Fds /\ inw \notin {outr, outw, inr}
          BY <2>1, <2>3, <3>5
        <4> QED BY <3>1, <4>1
      <3> QED BY <3>2, <3>3, <3>4, <3>5
    <2>5. \A q \in Requests : q # r => /\ Waits(q)' <=> Waits(q)
                                       /\ HasPair(q)' <=> HasPair(q)
                                       /\ HasInW(q)' <=> HasInW(q)
                                       /\ req'[q] = req[q]
      BY <1>4, <2>1
    <2>6. Waits(r)' /\ HasPair(r)' /\ (r \in WithBody => HasInW(r)')
      BY <1>0, <2>1 DEF Waits, HasPair, HasInW
    <2>7. \A q \in Requests, p \in {"in", "out"}, d \in {"read", "write"} : End(q, p, d) # Nothing
      BY EndsAreEnds
    <2>8. Claims'
      <3>1. ASSUME NEW q \in Requests
            PROVE  /\ Waits(q)' => nums'[q].outr \in Fds /\ fd'[nums'[q].outr] = End(q, "out", "read")
                   /\ HasPair(q)' => nums'[q].outw \in Fds /\ fd'[nums'[q].outw] = End(q, "out", "write")
                   /\ HasPair(q)' /\ q \in WithBody =>
                        nums'[q].inr \in Fds /\ fd'[nums'[q].inr] = End(q, "in", "read")
                   /\ HasInW(q)' => nums'[q].inw \in Fds /\ fd'[nums'[q].inw] = End(q, "in", "write")
                   /\ q \notin WithBody => nums'[q].inr = 0 /\ nums'[q].inw = 0
        <4>1. CASE q = r
          BY <2>1, <2>2, <2>3, <2>4, <4>1 DEF HasInW
        <4>2. CASE q # r
          BY <2>2, <2>4, <2>5, <2>7, <4>2 DEF Claims, Names
        <4> QED BY <4>1, <4>2
      <3>2. ASSUME NEW w \in Workers
            PROVE  /\ HasDupIn(w)' => /\ dup[w].in \in Fds /\ fd'[dup[w].in] = End(work[w], "in", "read")
                                      /\ dup[w].in # nums'[work[w]].inr
                   /\ HasDupOut(w)' => /\ dup[w].out \in Fds
                                       /\ fd'[dup[w].out] = End(work[w], "out", "write")
                                       /\ dup[w].out # nums'[work[w]].outw
                   /\ at[w] \in Uses /\ work[w] \notin WithBody => dup[w].in = 0
                   /\ at[w] = "failed" => nums'[work[w]].outw \in Fds
        <4>1. HasDupIn(w) \/ HasDupOut(w) \/ at[w] = "failed" => work[w] \in Requests
          BY DEF HasDupIn, HasDupOut, Placed, Uses
        <4> QED BY <1>1, <1>3, <2>2, <2>4, <2>7, <4>1 DEF Claims, Names
      <3> QED BY <1>3, <3>1, <3>2 DEF Claims, Names
    <2>9. ASSUME NEW n \in Fds, fd'[n] # Nothing PROVE ClaimedBy(n, fd[n].of)'
      <3>1. CASE n \in {outr, outw, inr, inw}
        <4>1. fd'[n].of = r
          BY <2>1, <2>3, <2>4, <2>9, <3>1, EndsAreEnds
        <4> QED BY <2>1, <2>2, <2>3, <2>6, <2>9, <3>1, <4>1 DEF ClaimedBy
      <3>2. CASE n \notin {outr, outw, inr, inw}
        <4>1. fd'[n] = fd[n] /\ fd[n] # Nothing
          BY <2>4, <2>9, <3>2
        <4>2. PICK q \in Requests : q = fd[n].of
          BY <1>0, <4>1 DEF Ends
        <4>3. ClaimedBy(n, q)
          BY <4>1, <4>2 DEF Accounted
        <4>4. ClaimedBy(n, q)'
          <5>1. CASE q = r
            <6>1. Left(r)
              BY <1>1, <1>2, <4>3, <5>1 DEF ClaimedBy
            <6>2. r \in starved
              BY <1>0, <6>1 DEF Left
            <6> QED BY <1>3, <5>1, <6>2 DEF ClaimedBy, Left
          <5>2. CASE q # r
            BY <1>3, <2>2, <2>5, <4>3, <5>2 DEF ClaimedBy, Left
          <5> QED BY <5>1, <5>2
        <4> QED BY <4>1, <4>2, <4>4
      <3> QED BY <3>1, <3>2
    <2> QED BY <2>8, <2>9 DEF Accounted
  <1> QED BY <1>5, <1>6, OpenNumbers

\* A worker goes to another place and closes numbers of its own request.
LEMMA WorkerMoves ==
  ASSUME PoolInv, ~halted, NEW w \in Workers, work[w] \in Requests, NEW S, NEW l,
         at' = [at EXCEPT ![w] = l], fd' = Closed(S), starved \subseteq starved',
         UNCHANGED <<nums, work, dup, inbox, queue, req, writer, halted>>,
         \A n \in S : n \in Fds =>
           fd[n] \in {End(work[w], "in", "read"), End(work[w], "out", "write")},
         InUse(w)' => /\ InUse(w) /\ nums[work[w]].outw \notin S
                      /\ work[w] \in WithBody => nums[work[w]].inr \notin S,
         InUse(w) => \/ InUse(w)' \/ {nums[work[w]].outw, nums[work[w]].inr} \subseteq S
                     \/ work[w] \in starved',
         HasDupIn(w)' => HasDupIn(w) /\ dup[w].in \notin S,
         HasDupIn(w) => HasDupIn(w)' \/ dup[w].in \in S \/ work[w] \in starved',
         HasDupOut(w)' => HasDupOut(w) /\ dup[w].out \notin S,
         HasDupOut(w) => HasDupOut(w)' \/ dup[w].out \in S,
         l \in Uses /\ work[w] \notin WithBody => dup[w].in = 0,
         l = "failed" => nums[work[w]].outw \in Fds
  PROVE  Claims' /\ Accounted'
PROOF
  <1> USE DEF PoolInv
  <1>0. DOMAIN at = Workers /\ at'[w] = l /\ \A v \in Workers : v # w => at'[v] = at[v]
    BY DEF Types
  <1> DEFINE r == work[w]
  <1>1. /\ req[r] \in Sent /\ r \notin ToSet(queue) /\ \A v \in Workers : r \notin ToSet(inbox[v])
        /\ \A v \in Workers : v # w => work[v] # r
    BY DEF Placed, Serves
  <1> HIDE DEF r
  <1>2. \A q \in Requests : /\ Waits(q)' <=> Waits(q)
                            /\ HasInW(q)' <=> HasInW(q)
                            /\ Left(q) => Left(q)'
    BY DEF Waits, HasInW, Left
  <1>3. \A v \in Workers : v # w => /\ InUse(v)' <=> InUse(v)
                                    /\ HasDupIn(v)' <=> HasDupIn(v)
                                    /\ HasDupOut(v)' <=> HasDupOut(v)
    BY <1>0 DEF InUse, HasDupIn, HasDupOut
  <1>4. \A q \in Requests : q # r => (HasPair(q)' <=> HasPair(q))
    BY <1>3 DEF HasPair, r
  <1>5. (HasPair(r)' <=> InUse(w)') /\ (HasPair(r) <=> InUse(w))
    <2>1. "sending" \notin Sent
      BY DEF Sent, Finished
    <2> QED BY <1>1, <2>1 DEF HasPair, r
  <1>6. ASSUME NEW q \in Requests
        PROVE  /\ Waits(q) => nums[q].outr \notin S
               /\ HasInW(q) => nums[q].inw \notin S
               /\ HasPair(q) /\ q # r => nums[q].outw \notin S
               /\ HasPair(q) /\ q # r /\ q \in WithBody => nums[q].inr \notin S
    BY EndsDiffer DEF Claims, Names, r
  <1>7. ASSUME NEW v \in Workers, v # w
        PROVE  /\ HasDupIn(v) => dup[v].in \notin S
               /\ HasDupOut(v) => dup[v].out \notin S
    <2>1. HasDupIn(v) \/ HasDupOut(v) => work[v] \in Requests
      BY DEF HasDupIn, HasDupOut, Placed, Uses
    <2> QED BY <1>1, <1>7, <2>1, EndsDiffer DEF Claims, Names, r
  <1>8. \A q \in Requests :
           /\ req[q] = "dropped" => req'[q] = "dropped"
           /\ Waits(q)' => Waits(q) /\ nums[q].outr \notin S
           /\ Waits(q) => Waits(q)'
           /\ HasPair(q)' => /\ HasPair(q) /\ nums[q].outw \notin S
                             /\ q \in WithBody => nums[q].inr \notin S
           /\ HasPair(q) => HasPair(q)' \/ {nums[q].outw, nums[q].inr} \subseteq S \/ Left(q)'
           /\ HasInW(q)' => HasInW(q) /\ nums[q].inw \notin S
           /\ HasInW(q) => HasInW(q)'
    BY <1>2, <1>4, <1>5, <1>6 DEF r, Left
  <1>9. \A v \in Workers :
           /\ HasDupIn(v)' => HasDupIn(v) /\ dup[v].in \notin S
           /\ HasDupIn(v) => HasDupIn(v)' \/ dup[v].in \in S \/ Left(work[v])'
           /\ HasDupOut(v)' => HasDupOut(v) /\ dup[v].out \notin S
           /\ HasDupOut(v) => HasDupOut(v)' \/ dup[v].out \in S
           /\ at'[v] \in Uses /\ work[v] \notin WithBody => dup[v].in = 0
           /\ at'[v] = "failed" => nums[work[v]].outw \in Fds
    BY <1>0, <1>3, <1>7 DEF Left, Claims
  <1> QED BY <1>8, <1>9, HeldStays

LEMMA MoveClaims ==
  ASSUME PoolInv, ~halted, NEW w \in Workers,
         \/ SetupFails(w) /\ OpenStream(w)
         \/ DrainBody(w) \/ RunHandler(w) \/ CloseStreams(w) \/ CloseFds(w) \/ WriteError(w)
  PROVE  Claims' /\ Accounted'
PROOF
  <1> USE DEF PoolInv
  <1> DEFINE r == work[w]
  <1>0. /\ r \in Requests /\ fd = Closed({})
        /\ DOMAIN at = Workers /\ at = [at EXCEPT ![w] = at[w]] /\ starved \subseteq starved'
        /\ UNCHANGED <<nums, work, dup, inbox, queue, req, writer, halted>>
    <2>1. r \in Requests
      BY StreamOpens DEF DrainBody, RunHandler, CloseStreams, CloseFds, WriteError, Placed, Uses
    <2>2. DOMAIN at = Workers /\ at = [at EXCEPT ![w] = at[w]] /\ fd = Closed({})
      BY DEF Types, Closed
    <2>3. starved \subseteq starved' /\ UNCHANGED <<nums, work, dup, inbox, queue, req, writer, halted>>
      BY DEF SetupFails, OpenStream, DrainBody, RunHandler, CloseStreams, CloseFds, WriteError,
             rustVars, poolVars, pipeVars
    <2> QED BY <2>1, <2>2, <2>3
  <1>1. 0 \notin Fds
    BY DEF Fds
  <1>2. InUse(w) => /\ Names(nums[r].outw, End(r, "out", "write"))
                    /\ r \in WithBody => Names(nums[r].inr, End(r, "in", "read"))
    BY <1>0 DEF Claims, HasPair
  <1>3. r \notin WithBody => nums[r].inr = 0
    BY <1>0 DEF Claims
  <1>4. at[w] \in Uses => InUse(w)
    BY DEF InUse
  <1> HIDE DEF r
  <1>E. ASSUME NEW l, at' = [at EXCEPT ![w] = l], fd' = Closed({}),
               InUse(w)' => InUse(w), InUse(w) => InUse(w)' \/ r \in starved',
               HasDupIn(w)' => HasDupIn(w), HasDupIn(w) => HasDupIn(w)' \/ r \in starved',
               HasDupOut(w)' <=> HasDupOut(w),
               l \in Uses /\ r \notin WithBody => dup[w].in = 0,
               l = "failed" => nums[r].outw \in Fds
        PROVE  Claims' /\ Accounted'
    <2>1. PICK S : S = {} /\ fd' = Closed(S)
      BY <1>E
    <2>2. \A n : n \notin S
      BY <2>1
    <2> QED BY <1>0, <1>E, <2>1, <2>2, WorkerMoves DEF r
  <1>5. CASE SetupFails(w) /\ OpenStream(w)
    <2>1. /\ at[w] \in {"open_in", "open_out"} /\ at' = [at EXCEPT ![w] = "failed"]
          /\ r \in starved' /\ fd' = Closed({})
      BY <1>0, <1>5 DEF SetupFails, OpenStream, r
    <2>2. /\ InUse(w) /\ ~HasDupOut(w) /\ ~HasDupIn(w)' /\ ~HasDupOut(w)'
          /\ "failed" \notin Uses
      BY <1>0, <2>1 DEF InUse, Uses, HasDupIn, HasDupOut
    <2>3. nums[r].outw \in Fds
      BY <1>2, <2>2 DEF Names
    <2> QED BY <1>E, <2>1, <2>2, <2>3
  <1>6. CASE DrainBody(w)
    <2>1. /\ at[w] = "drain" /\ fd' = Closed({}) /\ r \in WithBody
          /\ \E l \in {"drain", "open_out"} : at' = [at EXCEPT ![w] = l]
      <3>1. fd' = fd /\ at[w] = "drain" /\ r \in WithBody
        BY <1>6 DEF DrainBody, pipeVars, Placed, r
      <3>2. at' = at \/ at' = [at EXCEPT ![w] = "open_out"]
        BY <1>6 DEF DrainBody, Goto
      <3>3. at = [at EXCEPT ![w] = "drain"]
        BY <1>0, <3>1
      <3> QED BY <1>0, <3>1, <3>2, <3>3
    <2>2. PICK l \in {"drain", "open_out"} : at' = [at EXCEPT ![w] = l]
      BY <2>1
    <2>3. /\ InUse(w) /\ InUse(w)' /\ HasDupIn(w) /\ HasDupIn(w)' /\ ~HasDupOut(w) /\ ~HasDupOut(w)'
          /\ l # "failed"
      BY <1>0, <2>1, <2>2 DEF InUse, Uses, HasDupIn, HasDupOut, r
    <2> QED BY <1>E, <2>1, <2>2, <2>3
  <1>7. CASE RunHandler(w)
    <2>1. at[w] \in {"run", "more"} /\ fd' = Closed({})
      BY <1>0, <1>7 DEF RunHandler
    <2>2. PICK l \in {"close", "more"} : at' = [at EXCEPT ![w] = l]
      BY <1>7 DEF RunHandler, Goto
    <2>3. /\ InUse(w) /\ InUse(w)' /\ (HasDupIn(w) <=> HasDupIn(w)') /\ HasDupOut(w) /\ HasDupOut(w)'
          /\ l # "failed"
      BY <1>0, <2>1, <2>2 DEF InUse, Uses, HasDupIn, HasDupOut, r
    <2>4. r \notin WithBody => dup[w].in = 0
      BY <2>1 DEF Claims, Uses, r
    <2> QED BY <1>E, <2>1, <2>2, <2>3, <2>4
  <1>8. CASE CloseStreams(w)
    <2>1. at[w] \in {"close", "raised"} /\ fd' = Closed({dup[w].in, dup[w].out})
      BY <1>8 DEF CloseStreams
    <2>2. PICK l \in {"close_fds", "raised_fds"} : at' = [at EXCEPT ![w] = l]
      BY <1>8 DEF CloseStreams, Goto
    <2>3. /\ InUse(w) /\ InUse(w)' /\ ~HasDupIn(w)' /\ HasDupOut(w) /\ ~HasDupOut(w)'
          /\ l # "failed" /\ at[w] \in Uses
      BY <1>0, <2>1, <2>2 DEF InUse, Uses, HasDupIn, HasDupOut, r
    <2>4. /\ r \notin WithBody => dup[w].in = 0
          /\ Names(dup[w].out, End(r, "out", "write")) /\ dup[w].out # nums[r].outw
      BY <2>3 DEF Claims, r
    <2>5. r \in WithBody => Names(dup[w].in, End(r, "in", "read")) /\ dup[w].in # nums[r].inr
      BY <2>1 DEF Claims, HasDupIn, r
    <2> DEFINE S == {dup[w].in, dup[w].out}
    <2>6. nums[r].outw \notin S /\ (r \in WithBody => nums[r].inr \notin S)
      BY <1>0, <1>1, <1>2, <2>3, <2>4, <2>5, EndsDiffer DEF Names
    <2>7. \A n \in S : n \in Fds => fd[n] \in {End(r, "in", "read"), End(r, "out", "write")}
      BY <1>1, <2>4, <2>5 DEF Names
    <2>8. fd' = Closed(S) /\ dup[w].in \in S /\ dup[w].out \in S
      BY <2>1
    <2> HIDE DEF S
    <2> QED BY <1>0, <2>2, <2>3, <2>4, <2>6, <2>7, <2>8, WorkerMoves DEF r
  <1>9. CASE CloseFds(w)
    <2>1. at[w] \in {"close_fds", "raised_fds"} /\ fd' = Closed({nums[r].outw, nums[r].inr})
      BY <1>9 DEF CloseFds, Input, Output, r
    <2>2. PICK l \in {"signal", "failed"} : /\ at' = [at EXCEPT ![w] = l]
                                            /\ l = "failed" => r \in BadQuery
      BY <1>9 DEF CloseFds, Goto, Answers, Refused, r
    <2>3. /\ InUse(w) /\ ~InUse(w)' /\ ~HasDupIn(w) /\ ~HasDupIn(w)' /\ ~HasDupOut(w)
          /\ ~HasDupOut(w)' /\ l \notin Uses
      BY <1>0, <2>1, <2>2 DEF InUse, Uses, HasDupIn, HasDupOut, r
    <2>4. nums[r].outw \in Fds
      BY <1>2, <2>3 DEF Names
    <2> DEFINE S == {nums[r].outw, nums[r].inr}
    <2>5. \A n \in S : n \in Fds => fd[n] \in {End(r, "in", "read"), End(r, "out", "write")}
      BY <1>1, <1>2, <1>3, <2>3 DEF Names
    <2>6. fd' = Closed(S) /\ {nums[r].outw, nums[r].inr} \subseteq S
      BY <2>1
    <2> HIDE DEF S
    <2> QED BY <1>0, <2>2, <2>3, <2>4, <2>5, <2>6, WorkerMoves DEF r
  <1>10. CASE WriteError(w)
    <2>1. at[w] = "failed" /\ fd' = Closed({}) /\ at' = [at EXCEPT ![w] = "signal"]
      BY <1>0, <1>10 DEF WriteError, Goto
    <2>2. /\ ~InUse(w)' /\ ~HasDupIn(w) /\ ~HasDupIn(w)' /\ ~HasDupOut(w) /\ ~HasDupOut(w)'
          /\ "signal" \notin Uses
      BY <1>0, <2>1 DEF InUse, Uses, HasDupIn, HasDupOut
    <2>3. InUse(w) => r \in starved'
      BY <1>0, <2>1 DEF InUse, Uses, Answers, Refused, r
    <2> QED BY <1>E, <2>1, <2>2, <2>3
  <1> QED BY <1>5, <1>6, <1>7, <1>8, <1>9, <1>10

\* A worker opens a stream: one number more is in use, and it is claimed.
LEMMA StreamClaims ==
  ASSUME PoolInv, ~halted, NEW w \in Workers, OpenStream(w)
  PROVE  Claims' /\ Accounted'
PROOF
  <1> USE DEF PoolInv
  <1>1. CASE SetupFails(w)
    BY <1>1, MoveClaims
  <1>2. ASSUME NEW m \in Unused, InOpens(w, m) \/ OutOpens(w, m)
        PROVE  Claims' /\ Accounted'
    <2> DEFINE r == work[w]
    <2>1. /\ r \in Requests /\ m \in Fds /\ fd[m] = Nothing
          /\ UNCHANGED <<nums, work, inbox, queue, req, writer, halted, starved>>
          /\ at \in [Workers -> Uses \union {"idle", "failed", "signal", "dead"}]
          /\ dup \in [Workers -> [in : 0..MaxFds, out : 0..MaxFds]]
          /\ fd \in [Fds -> Ends \union {Nothing}]
      BY <1>2, StreamOpens DEF OpenStream, InOpens, OutOpens, rustVars, poolVars, Unused, Types
    <2> HIDE DEF r
    <2>2. PICK l, p, d, e :
            /\ at[w] \in {"open_in", "open_out"} /\ at' = [at EXCEPT ![w] = l]
            /\ fd' = [fd EXCEPT ![m] = End(r, p, d)] /\ dup' = [dup EXCEPT ![w] = e]
            /\ \/ /\ at[w] = "open_in" /\ l = "drain" /\ p = "in" /\ d = "read" /\ r \in WithBody
                  /\ e.in = m /\ m # nums[r].inr
               \/ /\ at[w] = "open_out" /\ l \in {"run", "raised"} /\ p = "out" /\ d = "write"
                  /\ e.out = m /\ m # nums[r].outw /\ e.in = dup[w].in
      <3>1. CASE InOpens(w, m)
        <4>1. PICK e : e = [dup[w] EXCEPT !.in = m] /\ dup' = [dup EXCEPT ![w] = e]
          BY <3>1 DEF InOpens
        <4>2. dup[w] \in [in : 0..MaxFds, out : 0..MaxFds]
          BY <2>1
        <4>3. e.in = m
          BY <4>1, <4>2
        <4> QED BY <3>1, <4>1, <4>3 DEF InOpens, r
      <3>2. CASE OutOpens(w, m)
        <4>1. PICK e : e = [dup[w] EXCEPT !.out = m] /\ dup' = [dup EXCEPT ![w] = e]
          BY <3>2 DEF OutOpens
        <4>2. dup[w] \in [in : 0..MaxFds, out : 0..MaxFds]
          BY <2>1
        <4>3. e.out = m /\ e.in = dup[w].in
          BY <4>1, <4>2
        <4>4. PICK l \in {"run", "raised"} : at' = [at EXCEPT ![w] = l]
          BY <3>2 DEF OutOpens
        <4>5. /\ at[w] = "open_out" /\ fd' = [fd EXCEPT ![m] = End(r, "out", "write")]
              /\ m # nums[r].outw
          BY <3>2 DEF OutOpens, r
        <4> QED BY <4>1, <4>3, <4>4, <4>5
      <3> QED BY <1>2, <3>1, <3>2
    <2>3. /\ at'[w] = l /\ fd'[m] = End(r, p, d) /\ dup'[w] = e
          /\ \A v \in Workers : v # w => at'[v] = at[v] /\ dup'[v] = dup[v]
          /\ \A n \in Fds : n # m => fd'[n] = fd[n]
      BY <2>1, <2>2
    <2>4. InUse(w) /\ InUse(w)' /\ l \in Uses
      BY <2>2, <2>3 DEF InUse, Uses
    <2>5. \A q \in Requests : /\ Waits(q)' <=> Waits(q)
                              /\ HasPair(q)' <=> HasPair(q)
                              /\ HasInW(q)' <=> HasInW(q)
      BY <2>1, <2>3, <2>4 DEF Waits, HasPair, HasInW, InUse
    <2>6. \A v \in Workers : v # w => /\ HasDupIn(v)' <=> HasDupIn(v)
                                      /\ HasDupOut(v)' <=> HasDupOut(v)
      BY <2>1, <2>3 DEF HasDupIn, HasDupOut
    <2>7. \A q \in Requests, c \in {"in", "out"}, x \in {"read", "write"} : End(q, c, x) # Nothing
      BY EndsAreEnds
    <2>8. Claims'
      <3>1. ASSUME NEW q \in Requests
            PROVE  /\ Waits(q)' => nums[q].outr \in Fds /\ fd'[nums[q].outr] = End(q, "out", "read")
                   /\ HasPair(q)' => nums[q].outw \in Fds /\ fd'[nums[q].outw] = End(q, "out", "write")
                   /\ HasPair(q)' /\ q \in WithBody =>
                        nums[q].inr \in Fds /\ fd'[nums[q].inr] = End(q, "in", "read")
                   /\ HasInW(q)' => nums[q].inw \in Fds /\ fd'[nums[q].inw] = End(q, "in", "write")
                   /\ q \notin WithBody => nums[q].inr = 0 /\ nums[q].inw = 0
        BY <2>1, <2>3, <2>5, <2>7 DEF Claims, Names
      <3>2. ASSUME NEW v \in Workers, v # w
            PROVE  /\ HasDupIn(v)' => /\ dup'[v].in \in Fds /\ fd'[dup'[v].in] = End(work[v], "in", "read")
                                      /\ dup'[v].in # nums[work[v]].inr
                   /\ HasDupOut(v)' => /\ dup'[v].out \in Fds
                                       /\ fd'[dup'[v].out] = End(work[v], "out", "write")
                                       /\ dup'[v].out # nums[work[v]].outw
                   /\ at'[v] \in Uses /\ work[v] \notin WithBody => dup'[v].in = 0
                   /\ at'[v] = "failed" => nums[work[v]].outw \in Fds
        <4>1. HasDupIn(v) \/ HasDupOut(v) => work[v] \in Requests
          BY DEF HasDupIn, HasDupOut, Placed, Uses
        <4> QED BY <2>1, <2>3, <2>6, <2>7, <3>2, <4>1 DEF Claims, Names
      <3>3. /\ HasDupIn(w)' => /\ e.in \in Fds /\ fd'[e.in] = End(r, "in", "read")
                               /\ e.in # nums[r].inr
            /\ HasDupOut(w)' => /\ e.out \in Fds /\ fd'[e.out] = End(r, "out", "write")
                                /\ e.out # nums[r].outw
            /\ r \notin WithBody => e.in = 0
        <4>1. CASE at[w] = "open_in"
          <5>1. ~HasDupOut(w)'
            BY <2>2, <2>3, <4>1 DEF HasDupOut
          <5> QED BY <2>1, <2>2, <2>3, <4>1, <5>1
        <4>2. CASE at[w] = "open_out"
          <5>1. /\ r \notin WithBody => dup[w].in = 0
                /\ r \in WithBody => /\ Names(dup[w].in, End(r, "in", "read"))
                                     /\ dup[w].in # nums[r].inr
            BY <4>1, <4>2 DEF Claims, HasDupIn, Uses, r
          <5>2. HasDupIn(w)' => r \in WithBody
            BY <2>1 DEF HasDupIn, r
          <5> QED BY <2>1, <2>2, <2>3, <2>7, <4>2, <5>1, <5>2 DEF Names
        <4> QED BY <2>2, <4>1, <4>2
      <3>4. l # "failed"
        BY <2>2
      <3> QED BY <2>1, <2>3, <3>1, <3>2, <3>3, <3>4 DEF Claims, Names, r
    <2>9. ASSUME ~halted', NEW n \in Fds, fd'[n] # Nothing PROVE ClaimedBy(n, fd[n].of)'
      <3>1. CASE n = m
        <4>1. fd'[n].of = r
          BY <2>1, <2>2, <2>3, <3>1, EndsAreEnds
        <4>2. (n = dup'[w].in /\ HasDupIn(w)') \/ (n = dup'[w].out /\ HasDupOut(w)')
          BY <2>1, <2>2, <2>3, <3>1 DEF HasDupIn, HasDupOut, r
        <4>3. work'[w] = r
          BY <2>1 DEF r
        <4> QED BY <4>1, <4>2, <4>3 DEF ClaimedBy
      <3>2. CASE n # m
        <4>1. fd'[n] = fd[n] /\ fd[n] # Nothing
          BY <2>3, <2>9, <3>2
        <4>2. PICK q \in Requests : q = fd[n].of
          BY <2>1, <4>1 DEF Ends
        <4>3. ClaimedBy(n, q)
          BY <4>1, <4>2 DEF Accounted
        <4>4. HasDupIn(w) /\ n = dup[w].in => n = dup'[w].in /\ HasDupIn(w)'
          BY <2>1, <2>2, <2>3 DEF HasDupIn
        <4>5. ~HasDupOut(w)
          BY <2>2 DEF HasDupOut
        <4>6. ASSUME NEW v \in Workers, work[v] = q,
                     (n = dup[v].in /\ HasDupIn(v)) \/ (n = dup[v].out /\ HasDupOut(v))
              PROVE  (n = dup'[v].in /\ HasDupIn(v)') \/ (n = dup'[v].out /\ HasDupOut(v)')
          BY <2>3, <2>6, <4>4, <4>5, <4>6
        <4>7. ClaimedBy(n, q)'
          BY <2>1, <2>5, <4>3, <4>6 DEF ClaimedBy, Left
        <4> QED BY <4>1, <4>2, <4>7
      <3> QED BY <3>1, <3>2
    <2> QED BY <2>8, <2>9 DEF Accounted
  <1> QED BY <1>1, <1>2, StreamOpens

\* Requests and workers go from place to place, and nothing is opened or closed.
LEMMA PlaceClaims ==
  ASSUME PoolInv, ~halted, NEW w \in Workers,
         TakeWork(w) \/ SignalReady(w) \/ WorkerDies(w) \/ Dispatch \/ Watchdog
  PROVE  Claims' /\ Accounted'
PROOF
  <1> USE DEF PoolInv
  <1>0. /\ queue \in Seq(Requests) /\ inbox \in [Workers -> Seq(Requests)]
        /\ order \in Seq(Workers) /\ work \in [Workers -> Requests \union {Nothing}]
        /\ at \in [Workers -> Uses \union {"idle", "failed", "signal", "dead"}]
        /\ dup \in [Workers -> [in : 0..MaxFds, out : 0..MaxFds]] /\ Nothing \notin Requests
    BY NothingAssumption DEF Types
  <1>1. /\ fd' = Closed({}) /\ UNCHANGED <<nums, req, writer, starved>>
    <2>1. fd' = fd /\ UNCHANGED <<nums, req, writer, starved>>
      BY DEF TakeWork, SignalReady, WorkerDies, Dispatch, Watchdog, rustVars, workerVars, pipeVars
    <2> QED BY <2>1 DEF Types, Closed
  <1>2. \A q \in Requests : (Waits(q)' <=> Waits(q)) /\ (HasInW(q)' <=> HasInW(q))
    BY <1>1 DEF Waits, HasInW
  <1>3. ASSUME \A q \in Requests : /\ HasPair(q)' => HasPair(q)
                                   /\ HasPair(q) => HasPair(q)' \/ halted',
               \A v \in Workers :
                 /\ HasDupIn(v)' => HasDupIn(v) /\ dup'[v] = dup[v] /\ work'[v] = work[v]
                 /\ HasDupIn(v) => HasDupIn(v)' /\ dup'[v] = dup[v] /\ work'[v] = work[v]
                 /\ HasDupOut(v)' => HasDupOut(v) /\ dup'[v] = dup[v] /\ work'[v] = work[v]
                 /\ HasDupOut(v) => HasDupOut(v)' /\ dup'[v] = dup[v] /\ work'[v] = work[v]
                 /\ at'[v] \in Uses /\ work'[v] \notin WithBody => dup'[v].in = 0
                 /\ at'[v] = "failed" => nums[work'[v]].outw \in Fds
        PROVE  Claims' /\ Accounted'
    <2>1. PICK S : S = {} /\ fd' = Closed(S)
      BY <1>1
    <2>2. \A n : n \notin S
      BY <2>1
    <2>3. \A q \in Requests :
            /\ req[q] = "dropped" => req'[q] = "dropped"
            /\ Waits(q)' => Waits(q) /\ nums[q].outr \notin S
            /\ Waits(q) => Waits(q)'
            /\ HasPair(q)' => /\ HasPair(q) /\ nums[q].outw \notin S
                              /\ q \in WithBody => nums[q].inr \notin S
            /\ HasPair(q) => HasPair(q)' \/ halted'
            /\ HasInW(q)' => HasInW(q) /\ nums[q].inw \notin S
            /\ HasInW(q) => HasInW(q)'
      BY <1>1, <1>2, <1>3, <2>2
    <2> QED BY <1>1, <1>3, <2>1, <2>2, <2>3, HeldStays
  <1>4. CASE TakeWork(w)
    <2> DEFINE r == Head(inbox[w])
    <2>1. /\ at[w] = "idle" /\ inbox[w] # <<>> /\ UNCHANGED <<queue, halted>>
          /\ work' = [work EXCEPT ![w] = r] /\ inbox' = [inbox EXCEPT ![w] = Tail(@)]
          /\ dup' = [dup EXCEPT ![w] = [in |-> 0, out |-> 0]]
          /\ at' = [at EXCEPT ![w] = IF r \in WithBody THEN "open_in" ELSE "open_out"]
      BY <1>4 DEF TakeWork, Goto, rustVars
    <2>2. r \in Requests /\ ToSet(inbox[w]) = ToSet(Tail(inbox[w])) \union {r}
      BY <1>0, <2>1, TailElements
    <2> HIDE DEF r
    <2>3. /\ inbox'[w] = Tail(inbox[w]) /\ work'[w] = r /\ work[w] = Nothing /\ dup'[w].in = 0
          /\ at'[w] = (IF r \in WithBody THEN "open_in" ELSE "open_out")
          /\ \A v \in Workers : v # w => /\ inbox'[v] = inbox[v] /\ work'[v] = work[v]
                                         /\ at'[v] = at[v] /\ dup'[v] = dup[v]
      BY <1>0, <2>1 DEF Placed
    <2>4. \A v \in Workers : v # w => /\ InUse(v)' <=> InUse(v)
                                      /\ HasDupIn(v)' <=> HasDupIn(v)
                                      /\ HasDupOut(v)' <=> HasDupOut(v)
      BY <2>3 DEF InUse, HasDupIn, HasDupOut
    <2>5. /\ ~HasDupIn(w) /\ ~HasDupIn(w)' /\ ~HasDupOut(w) /\ ~HasDupOut(w)'
          /\ InUse(w)' /\ at'[w] # "failed"
      BY <2>1, <2>3 DEF InUse, Uses, HasDupIn, HasDupOut
    <2>6. ASSUME NEW q \in Requests
          PROVE  HasPair(q)' <=> HasPair(q)
      <3>1. /\ q \in ToSet(inbox[w]) \/ (work[w] = q /\ InUse(w)) <=> q \in ToSet(inbox[w])
            /\ q \in ToSet(inbox'[w]) \/ (work'[w] = q /\ InUse(w)') <=> q \in ToSet(inbox[w])
        BY <1>0, <2>2, <2>3, <2>5
      <3>2. \A v \in Workers :
              (q \in ToSet(inbox[v]) \/ (work[v] = q /\ InUse(v)))
              <=> (q \in ToSet(inbox'[v]) \/ (work'[v] = q /\ InUse(v)'))
        BY <2>3, <2>4, <3>1
      <3> QED BY <1>1, <2>1, <3>2 DEF HasPair
    <2>7. \A v \in Workers :
            /\ at'[v] \in Uses /\ work'[v] \notin WithBody => dup'[v].in = 0
            /\ at'[v] = "failed" => nums[work'[v]].outw \in Fds
      BY <2>3, <2>5 DEF Claims
    <2> QED BY <1>3, <2>3, <2>4, <2>5, <2>6, <2>7
  <1>5. CASE SignalReady(w) \/ WorkerDies(w)
    <2>1. PICK l \in {"idle", "dead"} : at' = [at EXCEPT ![w] = l]
      BY <1>5 DEF SignalReady, WorkerDies, Goto
    <2>2. /\ at[w] \in {"idle", "signal"} /\ UNCHANGED <<queue, halted, inbox, dup>>
          /\ \A v \in Workers : v # w => work'[v] = work[v] /\ at'[v] = at[v]
          /\ at'[w] = l
      BY <1>0, <1>5, <2>1 DEF SignalReady, WorkerDies, rustVars
    <2>3. /\ \A v \in Workers : v # w => /\ InUse(v)' <=> InUse(v)
                                         /\ HasDupIn(v)' <=> HasDupIn(v)
                                         /\ HasDupOut(v)' <=> HasDupOut(v)
          /\ ~HasDupIn(w) /\ ~HasDupIn(w)' /\ ~HasDupOut(w) /\ ~HasDupOut(w)'
          /\ ~InUse(w) /\ ~InUse(w)' /\ at'[w] \notin Uses /\ at'[w] # "failed"
      BY <2>1, <2>2 DEF InUse, Uses, HasDupIn, HasDupOut
    <2>4. \A q \in Requests : HasPair(q)' <=> HasPair(q)
      BY <1>1, <2>2, <2>3 DEF HasPair
    <2>5. \A v \in Workers :
            /\ at'[v] \in Uses /\ work'[v] \notin WithBody => dup'[v].in = 0
            /\ at'[v] = "failed" => nums[work'[v]].outw \in Fds
      BY <2>2, <2>3 DEF Claims
    <2> QED BY <1>3, <2>2, <2>3, <2>4, <2>5
  <1>6. CASE Dispatch \/ Watchdog
    <2>1. UNCHANGED <<at, work, dup>>
      BY <1>6 DEF Dispatch, Watchdog, workerVars
    <2>2. \A v \in Workers : /\ InUse(v)' <=> InUse(v)
                             /\ HasDupIn(v)' <=> HasDupIn(v)
                             /\ HasDupOut(v)' <=> HasDupOut(v)
                             /\ at'[v] \in Uses /\ work'[v] \notin WithBody => dup'[v].in = 0
                             /\ at'[v] = "failed" => nums[work'[v]].outw \in Fds
      BY <2>1 DEF InUse, HasDupIn, HasDupOut, Claims
    <2>3. \A q \in Requests : /\ HasPair(q)' => HasPair(q)
                              /\ HasPair(q) => HasPair(q)' \/ halted'
      <3>1. CASE Watchdog
        <4>1. UNCHANGED <<queue, inbox>>
          BY <3>1 DEF Watchdog, rustVars
        <4> QED BY <1>1, <2>1, <2>2, <4>1 DEF HasPair
      <3>2. CASE Dispatch
        <4> DEFINE r == Head(queue)
                   v == Head(order)
        <4>1. /\ queue # <<>> /\ queue' = Tail(queue)
              /\ \/ halted' /\ UNCHANGED inbox
                 \/ inbox' = [inbox EXCEPT ![v] = Append(@, r)]
          BY <3>2 DEF Dispatch, DispatchRequest
        <4>2. r \in Requests /\ ToSet(queue) = ToSet(queue') \union {r}
          BY <1>0, <4>1, TailElements
        <4>3. v \in Workers
          <5>1. ToSet(<<>>) = {}
            BY DEF ToSet
          <5>2. order # <<>>
            BY <5>1, RequestPoolAssumption DEF Rotates
          <5> QED BY <1>0, <5>2, TailElements
        <4> HIDE DEF r, v
        <4>4. CASE halted' /\ UNCHANGED inbox
          BY <1>1, <2>1, <2>2, <4>2, <4>4 DEF HasPair
        <4>5. CASE inbox' = [inbox EXCEPT ![v] = Append(@, r)]
          <5>1. inbox'[v] = Append(inbox[v], r) /\ inbox[v] \in Seq(Requests)
            BY <1>0, <4>3, <4>5
          <5>2. /\ ToSet(inbox'[v]) = ToSet(inbox[v]) \union {r}
                /\ \A u \in Workers : u # v => inbox'[u] = inbox[u]
            BY <1>0, <4>2, <4>5, <5>1, AppendElements
          <5>3. \A q \in Requests, u \in Workers :
                  q \in ToSet(inbox'[u]) <=> (q \in ToSet(inbox[u]) \/ (u = v /\ q = r))
            BY <5>2
          <5> QED BY <1>1, <2>1, <2>2, <4>2, <4>3, <5>3 DEF HasPair
        <4> QED BY <4>1, <4>4, <4>5
      <3> QED BY <1>6, <3>1, <3>2
    <2> QED BY <1>3, <2>1, <2>2, <2>3
  <1> QED BY <1>4, <1>5, <1>6

LEMMA ClaimsStep ==
  ASSUME PoolInv, Next
  PROVE  Claims' /\ Accounted'
PROOF
  <1>1. ~halted /\ \E w : w \in Workers
    BY RequestPoolAssumption DEF Next
  <1>2. PICK w \in Workers : TRUE
    BY <1>1
  <1>3. ASSUME NEW r \in Requests, RequestStep(r) \/ ClientLeaves(r)
        PROVE  Claims' /\ Accounted'
    BY <1>1, <1>3, OpenClaims, RequestClaims DEF RequestStep
  <1>4. ASSUME NEW v \in Workers, WorkerStep(v) \/ WorkerDies(v)
        PROVE  Claims' /\ Accounted'
    BY <1>1, <1>4, StreamClaims, MoveClaims, PlaceClaims DEF WorkerStep
  <1>5. ASSUME Dispatch \/ Watchdog
        PROVE  Claims' /\ Accounted'
    BY <1>1, <1>2, <1>5, PlaceClaims
  <1> QED BY <1>3, <1>4, <1>5 DEF Next

-------------------------------------------------------------------------------
(* Bodies and answers *)

\* Only the future of a request opens pipes for it; later it only loses its claim to them.
LEMMA PairStays ==
  ASSUME PoolInv, Next, NEW q \in Requests, HasPair(q)'
  PROVE  HasPair(q) \/ (req[q] = "new" /\ req'[q] = "sending")
PROOF
  <1> USE DEF PoolInv
  <1>0. /\ queue \in Seq(Requests) /\ inbox \in [Workers -> Seq(Requests)]
        /\ order \in Seq(Workers) /\ work \in [Workers -> Requests \union {Nothing}]
        /\ at \in [Workers -> Uses \union {"idle", "failed", "signal", "dead"}]
        /\ req \in [Requests -> {"new", "sending", "dropped"} \union Sent]
        /\ Nothing \notin Requests
    BY NothingAssumption DEF Types
  <1>1. ASSUME NEW r \in Requests, RequestStep(r) \/ ClientLeaves(r)
        PROVE  HasPair(q) \/ (req[q] = "new" /\ req'[q] = "sending")
    <2>1. /\ UNCHANGED <<at, work, inbox>>
          /\ \A w \in Workers : InUse(w)' <=> InUse(w)
      BY <1>1 DEF RequestStep, OpenPipes, QueueRequest, WriteBody, ReadAnswer, ClientLeaves,
                  workerVars, poolVars, InUse
    <2>2. CASE QueueRequest(r)
      <3>1. req[r] = "sending" /\ req' = [req EXCEPT ![r] = "headers"] /\ queue' = Append(queue, r)
        BY <2>2 DEF QueueRequest
      <3>2. ToSet(queue') = ToSet(queue) \union {r}
        BY <1>0, <3>1, AppendElements
      <3> QED BY <1>0, <2>1, <3>1, <3>2 DEF HasPair
    <2>3. CASE ~QueueRequest(r)
      <3>1. /\ queue' = queue
            /\ \A p \in Requests : req'[p] = "sending" => req[p] = "sending" \/ req[p] = "new"
        BY <1>0, <1>1, <2>3 DEF RequestStep, OpenPipes, WriteBody, ReadAnswer, ClientLeaves
      <3> QED BY <1>0, <2>1, <3>1 DEF HasPair
    <2> QED BY <2>2, <2>3
  <1>2. ASSUME NEW w \in Workers, WorkerStep(w) \/ WorkerDies(w), ~TakeWork(w)
        PROVE  HasPair(q)
    <2>1. UNCHANGED <<queue, inbox, req>> /\ \E l : at' = [at EXCEPT ![w] = l]
      <3>1. UNCHANGED <<queue, inbox, req>>
        BY <1>2 DEF WorkerStep, OpenStream, DrainBody, RunHandler, CloseStreams, CloseFds,
                    WriteError, SignalReady, WorkerDies, rustVars, poolVars
      <3>2. at' = at => at' = [at EXCEPT ![w] = at[w]]
        BY <1>0
      <3> QED BY <1>2, <3>1, <3>2 DEF WorkerStep, OpenStream, DrainBody, RunHandler,
                  CloseStreams, CloseFds, WriteError, SignalReady, WorkerDies, Goto
    <2>2. \A v \in Workers : v # w => at'[v] = at[v] /\ work'[v] = work[v]
      BY <1>0, <1>2, <2>1 DEF WorkerStep, OpenStream, DrainBody, RunHandler, CloseStreams, CloseFds,
                    WriteError, SignalReady, WorkerDies
    <2>3. InUse(w)' /\ work'[w] \in Requests => InUse(w) /\ work'[w] = work[w]
      <3>1. CASE SignalReady(w) \/ WorkerDies(w)
        BY <1>0, <3>1 DEF SignalReady, WorkerDies, Goto, InUse, Uses
      <3>2. CASE WriteError(w)
        BY <1>0, <3>2 DEF WriteError, Goto, InUse, Uses
      <3>3. CASE OpenStream(w) \/ DrainBody(w) \/ RunHandler(w) \/ CloseStreams(w) \/ CloseFds(w)
        <4>1. at[w] \in Uses /\ work' = work
          BY <3>3 DEF OpenStream, DrainBody, RunHandler, CloseStreams, CloseFds, Uses
        <4> QED BY <4>1 DEF InUse
      <3> QED BY <1>2, <3>1, <3>2, <3>3 DEF WorkerStep
    <2>4. \A v \in Workers : v # w => (InUse(v)' <=> InUse(v))
      BY <2>2 DEF InUse
    <2> QED BY <2>1, <2>2, <2>3, <2>4 DEF HasPair
  <1>3. ASSUME NEW w \in Workers, TakeWork(w)
        PROVE  HasPair(q)
    <2> DEFINE r == Head(inbox[w])
    <2>1. /\ inbox[w] # <<>> /\ UNCHANGED <<queue, req>>
          /\ work' = [work EXCEPT ![w] = r] /\ inbox' = [inbox EXCEPT ![w] = Tail(@)]
          /\ \A v \in Workers : v # w => at'[v] = at[v]
      BY <1>0, <1>3 DEF TakeWork, Goto, rustVars
    <2>2. r \in ToSet(inbox[w]) /\ ToSet(Tail(inbox[w])) \subseteq ToSet(inbox[w])
      BY <1>0, <2>1, TailElements
    <2> HIDE DEF r
    <2>3. /\ work'[w] = r /\ ToSet(inbox'[w]) \subseteq ToSet(inbox[w])
          /\ \A v \in Workers : v # w => inbox'[v] = inbox[v] /\ work'[v] = work[v]
      BY <1>0, <2>1, <2>2
    <2>4. \A v \in Workers : v # w => (InUse(v)' <=> InUse(v))
      BY <2>1, <2>3 DEF InUse
    <2> QED BY <2>1, <2>2, <2>3, <2>4 DEF HasPair
  <1>4. CASE Watchdog
    BY <1>4 DEF Watchdog, rustVars, workerVars, HasPair, InUse
  <1>5. CASE Dispatch
    <2> DEFINE r == Head(queue)
               v == Head(order)
    <2>1. /\ queue # <<>> /\ queue' = Tail(queue) /\ UNCHANGED <<at, work, req>>
          /\ inbox' = inbox \/ inbox' = [inbox EXCEPT ![v] = Append(@, r)]
      BY <1>5 DEF Dispatch, DispatchRequest, workerVars
    <2>2. r \in Requests /\ ToSet(queue) = ToSet(queue') \union {r}
      BY <1>0, <2>1, TailElements
    <2> HIDE DEF r, v
    <2>3. \A u \in Workers : ToSet(inbox'[u]) \subseteq ToSet(inbox[u]) \union {r}
      <3>1. ASSUME NEW u \in Workers, u = v, inbox' = [inbox EXCEPT ![v] = Append(@, r)]
            PROVE  ToSet(inbox'[u]) \subseteq ToSet(inbox[u]) \union {r}
        <4>1. inbox'[u] = Append(inbox[u], r) /\ inbox[u] \in Seq(Requests)
          BY <1>0, <3>1
        <4> QED BY <2>2, <4>1, AppendElements
      <3>2. ASSUME NEW u \in Workers, u # v \/ inbox' = inbox
            PROVE  ToSet(inbox'[u]) \subseteq ToSet(inbox[u]) \union {r}
        <4>1. inbox'[u] = inbox[u]
          BY <1>0, <2>1, <3>2
        <4> QED BY <4>1
      <3> QED BY <2>1, <3>1, <3>2
    <2>4. \A u \in Workers : InUse(u)' <=> InUse(u)
      BY <2>1 DEF InUse
    <2> QED BY <2>1, <2>2, <2>3, <2>4 DEF HasPair
  <1> QED BY <1>1, <1>2, <1>3, <1>4, <1>5 DEF Next, WorkerStep

LEMMA WrittenStep ==
  ASSUME PoolInv, Next, NEW q \in Requests
  PROVE  /\ WrittenBody(q)'
         /\ Len(inpipe[q]) <= Len(inpipe'[q])
         /\ \A i \in 1..Len(inpipe[q]) : inpipe'[q][i] = inpipe[q][i]
PROOF
  <1> USE DEF PoolInv
  <1>0. /\ req \in [Requests -> {"new", "sending", "dropped"} \union Sent]
        /\ writer \in [Requests -> {"none", "writing", "done"}]
        /\ inpipe \in [Requests -> Seq({"body"})] /\ Len(Chunks) = 1 /\ Chunks[1] = "body"
        /\ {"new", "sending", "dropped"} \cap Sent = {}
    BY DEF Types, Chunks, Sent, Finished
  <1>1. ASSUME inpipe'[q] = inpipe[q], writer'[q] = writer[q], req'[q] = req[q]
        PROVE  WrittenBody(q)' /\ inpipe'[q] = inpipe[q]
    BY <1>1, PairStays DEF Bodies, WrittenBody
  <1>2. CASE UNCHANGED <<inpipe, writer, req>>
    BY <1>0, <1>1, <1>2
  <1>3. ASSUME NEW r \in Requests, r # q, RequestStep(r) \/ ClientLeaves(r)
        PROVE  WrittenBody(q)' /\ inpipe'[q] = inpipe[q]
    <2>1. /\ inpipe' = inpipe \/ \E s : inpipe' = [inpipe EXCEPT ![r] = s]
          /\ writer' = writer \/ \E s : writer' = [writer EXCEPT ![r] = s]
          /\ req' = req \/ \E s : req' = [req EXCEPT ![r] = s]
      <3>1. CASE OpenPipes(r)
        BY <3>1 DEF OpenPipes
      <3>2. CASE QueueRequest(r)
        BY <3>2 DEF QueueRequest, pipeVars
      <3>3. CASE WriteBody(r)
        BY <3>3 DEF WriteBody
      <3>4. CASE ReadAnswer(r)
        BY <3>4 DEF ReadAnswer
      <3>5. CASE ClientLeaves(r)
        BY <3>5 DEF ClientLeaves
      <3> QED BY <1>3, <3>1, <3>2, <3>3, <3>4, <3>5 DEF RequestStep
    <2>2. inpipe'[q] = inpipe[q] /\ writer'[q] = writer[q] /\ req'[q] = req[q]
      BY <1>0, <1>3, <2>1
    <2> QED BY <1>1, <2>2
  <1>4. CASE OpenPipes(q)
    <2>1. /\ req[q] = "new" /\ UNCHANGED <<inpipe, writer>>
          /\ req'[q] = "sending" \/ req'[q] = "failed"
      BY <1>0, <1>4 DEF OpenPipes
    <2>2. ~HasPair(q) /\ writer[q] = "none"
      BY <1>0, <2>1, NotSentNotPlaced DEF HasPair, Bodies, WrittenBody
    <2> QED BY <1>0, <2>1, <2>2, PairStays DEF Bodies, WrittenBody
  <1>5. CASE QueueRequest(q)
    <2>1. /\ req[q] = "sending" /\ req'[q] = "headers" /\ inpipe' = inpipe
          /\ writer'[q] = (IF q \in WithBody THEN "writing" ELSE "none")
      BY <1>0, <1>5 DEF QueueRequest, pipeVars
    <2> QED BY <1>0, <2>1 DEF Bodies, WrittenBody
  <1>6. CASE WriteBody(q)
    <2>1. writer[q] = "writing" /\ req' = req /\ q \in WithBody
      BY <1>6 DEF WriteBody, Bodies, WrittenBody
    <2>2. HasPair(q)' => HasPair(q)
      BY <2>1, PairStays
    <2>3. CASE Len(inpipe[q]) < Len(Chunks) /\ IsOpen(End(q, "in", "read"))
      <3>1. Len(inpipe[q]) = 0 /\ inpipe'[q] = Append(inpipe[q], "body") /\ writer' = writer
        BY <1>0, <1>6, <2>3 DEF WriteBody
      <3>2. Len(inpipe'[q]) = 1 /\ inpipe'[q][1] = "body"
        BY <1>0, <3>1
      <3> QED BY <1>0, <2>1, <2>2, <3>1, <3>2 DEF Bodies, WrittenBody
    <2>4. CASE ~(Len(inpipe[q]) < Len(Chunks) /\ IsOpen(End(q, "in", "read")))
      <3>1. inpipe' = inpipe /\ writer'[q] = "done"
        BY <1>0, <1>6, <2>4 DEF WriteBody
      <3>2. HasPair(q) => IsOpen(End(q, "in", "read"))
        BY <2>1 DEF Claims, Names, IsOpen
      <3>3. Len(inpipe[q]) <= 1 /\ (HasPair(q) => Len(inpipe[q]) = 1)
        <4>1. Len(inpipe[q]) \in Nat /\ Len(inpipe[q]) <= 1
          BY <1>0 DEF Bodies, WrittenBody
        <4>2. HasPair(q) => ~(Len(inpipe[q]) < 1)
          BY <1>0, <2>4, <3>2
        <4>3. \A k \in Nat : ~(k < 1) /\ k <= 1 => k = 1
          OBVIOUS
        <4> QED BY <4>1, <4>2, <4>3
      <3> QED BY <1>0, <2>1, <2>2, <3>1, <3>3 DEF Bodies, WrittenBody
    <2> QED BY <2>3, <2>4
  <1>7. CASE ReadAnswer(q)
    <2>1. /\ req[q] \in {"headers", "body"} /\ req'[q] \in Sent /\ UNCHANGED <<inpipe, writer>>
      BY <1>0, <1>7 DEF ReadAnswer, Sent, Finished
    <2>2. HasPair(q)' => HasPair(q)
      BY <2>1, PairStays
    <2> QED BY <1>0, <2>1, <2>2 DEF Bodies, WrittenBody
  <1>8. CASE ClientLeaves(q)
    <2>1. /\ UNCHANGED <<inpipe, writer>> /\ req'[q] \notin {"new", "sending"}
          /\ req[q] \in {"sending", "headers", "body"}
          /\ UNCHANGED <<queue, inbox, work>>
      BY <1>0, <1>8 DEF ClientLeaves, poolVars, workerVars
    <2>2. HasPair(q)' => HasPair(q) /\ req[q] # "sending"
      BY <1>0, <2>1, PairStays, NotSentNotPlaced DEF HasPair
    <2> QED BY <1>0, <2>1, <2>2 DEF Bodies, WrittenBody
  <1>9. \/ UNCHANGED <<inpipe, writer, req>>
        \/ \E r \in Requests : RequestStep(r) \/ ClientLeaves(r)
    BY ZenonT(30) DEF Next, WorkerStep, WorkerDies, TakeWork, OpenStream, DrainBody, RunHandler, CloseStreams,
           CloseFds, WriteError, SignalReady, Dispatch, Watchdog, rustVars, pipeVars
  <1>10. CASE inpipe'[q] = inpipe[q] /\ WrittenBody(q)'
    BY <1>0, <1>10
  <1>11. CASE UNCHANGED <<inpipe, writer, req>>
    BY <1>2, <1>10, <1>11
  <1> QED BY <1>3, <1>4, <1>5, <1>6, <1>7, <1>8, <1>9, <1>10, <1>11 DEF RequestStep

LEMMA DrainedStep ==
  ASSUME PoolInv, Next, NEW v \in Workers
  PROVE  DrainedBody(v)'
PROOF
  <1> USE DEF PoolInv
  <1>0. /\ at \in [Workers -> Uses \union {"idle", "failed", "signal", "dead"}]
        /\ body \in [Workers -> Seq({"body"})] /\ Len(Chunks) = 1
        /\ work \in [Workers -> Requests \union {Nothing}]
        /\ inpipe \in [Requests -> Seq({"body"})] /\ WithBody \subseteq Requests
        /\ inbox \in [Workers -> Seq(Requests)]
    BY RequestPoolAssumption DEF Types, Chunks
  <1>A. \A a, b \in Nat : /\ b <= 1 /\ a < b => a = 0 /\ b = 1
                          /\ a <= b /\ ~(a < b) => a = b
    OBVIOUS
  <1>1. \A r \in Requests : /\ Len(inpipe[r]) <= Len(inpipe'[r])
                            /\ \A i \in 1..Len(inpipe[r]) : inpipe'[r][i] = inpipe[r][i]
    BY WrittenStep
  <1>2. ASSUME NEW r \in Requests, NEW b \in Seq({"body"}), Len(b) <= Len(inpipe[r]),
               \A i \in 1..Len(b) : b[i] = inpipe[r][i]
        PROVE  Len(b) <= Len(inpipe'[r]) /\ \A i \in 1..Len(b) : b[i] = inpipe'[r][i]
    <2>1. Len(b) \in Nat /\ Len(inpipe[r]) \in Nat /\ Len(inpipe'[r]) \in Nat
      BY <1>0, WrittenStep DEF WrittenBody
    <2>2. 1..Len(b) \subseteq 1..Len(inpipe[r])
      BY <1>2, <2>1
    <2> QED BY <1>1, <1>2, <2>1, <2>2
  <1>3. ASSUME work'[v] = work[v], body'[v] = body[v],
               \/ at'[v] = at[v]
               \/ at'[v] \notin {"open_in", "drain", "open_out", "run"}
               \/ (at[v] = "open_in" /\ at'[v] = "drain")
               \/ (at[v] = "open_out" /\ at'[v] = "run")
        PROVE  DrainedBody(v)'
    BY <1>0, <1>2, <1>3 DEF Bodies, DrainedBody
  <1>4. CASE UNCHANGED <<at, work, body>>
    BY <1>3, <1>4
  <1>5. ASSUME NEW w \in Workers, w # v, WorkerStep(w) \/ WorkerDies(w)
        PROVE  DrainedBody(v)'
    <2>1. work'[v] = work[v] /\ body'[v] = body[v] /\ at'[v] = at[v]
      BY <1>0, <1>5 DEF WorkerStep, WorkerDies, TakeWork, OpenStream, DrainBody, RunHandler,
           CloseStreams, CloseFds, WriteError, SignalReady, Goto
    <2> QED BY <1>3, <2>1
  <1>6. CASE TakeWork(v)
    <2>1. /\ inbox[v] # <<>> /\ body'[v] = <<>> /\ work'[v] = Head(inbox[v])
          /\ work'[v] \in WithBody => at'[v] = "open_in"
      BY <1>0, <1>6 DEF TakeWork, Goto
    <2>2. work'[v] \in Requests
      BY <1>0, <2>1, TailElements
    <2> QED BY <1>0, <1>2, <2>1, <2>2 DEF DrainedBody
  <1>7. CASE OpenStream(v)
    <2>1. work' = work /\ body' = body
      BY <1>7 DEF OpenStream
    <2>2. \/ at'[v] \notin {"open_in", "drain", "open_out", "run"}
          \/ (at[v] = "open_in" /\ at'[v] = "drain")
          \/ (at[v] = "open_out" /\ at'[v] = "run")
      BY <1>0, <1>7, StreamOpens DEF SetupFails, InOpens, OutOpens
    <2> QED BY <1>3, <2>1, <2>2
  <1>8. CASE DrainBody(v)
    <2> DEFINE r == work[v]
    <2>1. at[v] = "drain" /\ r \in WithBody /\ UNCHANGED <<work, inpipe>>
      BY <1>8 DEF DrainBody, Placed, pipeVars
    <2>2. HasPair(r)
      BY <1>0, <2>1 DEF HasPair, InUse, Uses
    <2>3. /\ Len(inpipe[r]) <= 1 /\ Len(inpipe[r]) \in Nat /\ Len(body[v]) \in Nat
          /\ Len(body[v]) <= Len(inpipe[r])
      BY <1>0, <2>1 DEF Bodies, WrittenBody, DrainedBody
    <2>6. \A i \in 1..Len(body[v]) : body[v][i] = inpipe[r][i]
      BY <1>0, <2>1 DEF Bodies, DrainedBody
    <2>4. CASE Len(body[v]) < Len(inpipe[r])
      <3>1. /\ Len(body[v]) = 0 /\ Len(inpipe[r]) = 1 /\ at' = at
            /\ body'[v] = Append(body[v], inpipe[r][1])
        <4>1. Len(body[v]) = 0 /\ Len(inpipe[r]) = 1
          BY <1>A, <2>3, <2>4
        <4>2. at' = at /\ body' = [body EXCEPT ![v] = Append(@, inpipe[r][Len(@) + 1])]
          BY <1>8, <2>4 DEF DrainBody
        <4>3. body'[v] = Append(body[v], inpipe[r][Len(body[v]) + 1]) /\ 0 + 1 = 1
          BY <1>0, <4>2
        <4> QED BY <4>1, <4>2, <4>3
      <3>2. Len(body'[v]) = 1 /\ body'[v][1] = inpipe[r][1]
        BY <1>0, <3>1
      <3> QED BY <1>0, <2>1, <3>1, <3>2 DEF DrainedBody
    <2>5. CASE ~(Len(body[v]) < Len(inpipe[r]))
      <3>1. at'[v] = "open_out" /\ body' = body /\ ~IsOpen(End(r, "in", "write"))
        BY <1>0, <1>8, <2>5 DEF DrainBody, Goto
      <3>2. writer[r] = "done" \/ req[r] = "sending"
        <4>1. writer[r] # "writing"
          BY <1>0, <2>1, <3>1 DEF Claims, HasInW, Names, IsOpen
        <4> QED BY <1>0, <2>1, <2>2, <4>1 DEF Bodies, WrittenBody, Types
      <3>3. req[r] # "sending"
        <4>1. "sending" \notin Sent
          BY DEF Sent, Finished
        <4> QED BY <1>0, <2>1, <4>1 DEF Placed, Serves
      <3>4. Len(inpipe[r]) = 1
        BY <1>0, <2>1, <2>2, <3>2, <3>3 DEF Bodies, WrittenBody
      <3>5. Len(body[v]) = 1
        BY <1>A, <2>3, <2>5, <3>4
      <3> QED BY <1>0, <2>1, <2>3, <2>6, <3>1, <3>5 DEF DrainedBody
    <2> QED BY <2>4, <2>5
  <1>9. CASE RunHandler(v) \/ CloseStreams(v) \/ CloseFds(v) \/ WriteError(v) \/ SignalReady(v)
             \/ WorkerDies(v)
    <2>1. at'[v] \notin {"open_in", "drain", "open_out", "run"}
      BY <1>0, <1>9 DEF RunHandler, CloseStreams, CloseFds, WriteError, SignalReady, WorkerDies, Goto
    <2> QED BY <2>1 DEF DrainedBody
  <1>10. \/ UNCHANGED <<at, work, body>>
         \/ \E w \in Workers : WorkerStep(w) \/ WorkerDies(w)
    BY DEF Next, RequestStep, OpenPipes, QueueRequest, WriteBody, ReadAnswer, ClientLeaves,
           Dispatch, Watchdog, workerVars
  <1> QED BY <1>4, <1>5, <1>6, <1>7, <1>8, <1>9, <1>10 DEF WorkerStep

LEMMA AnsweredStep ==
  ASSUME PoolInv, Next, NEW q \in Requests
  PROVE  Answered(q)'
PROOF
  <1> USE DEF PoolInv
  <1>0. /\ outpipe \in [Requests -> Seq(Items)] /\ got \in [Requests -> Seq(Items)]
        /\ Answered(q)
    BY DEF Types, Answers
  <1>1. ASSUME got' = got, NEW p \in Requests, NEW item \in Items, ItsOwn(p, item),
               outpipe' = [outpipe EXCEPT ![p] = Append(@, item)]
        PROVE  Answered(q)'
    <2>1. CASE q # p
      BY <1>0, <1>1, <2>1 DEF Answered, ItsOwn
    <2>2. CASE q = p
      <3>1. /\ outpipe'[q] = Append(outpipe[q], item)
            /\ Len(outpipe'[q]) = Len(outpipe[q]) + 1 /\ Len(outpipe[q]) \in Nat
            /\ outpipe'[q][Len(outpipe[q]) + 1] = item
            /\ \A i \in 1..Len(outpipe[q]) : outpipe'[q][i] = outpipe[q][i]
        BY <1>0, <1>1, <2>2
      <3>2. \A i \in 1..Len(outpipe'[q]) : i \in 1..Len(outpipe[q]) \/ i = Len(outpipe[q]) + 1
        BY <3>1
      <3>3. \A i \in 1..Len(outpipe'[q]) : ItsOwn(q, outpipe'[q][i])
        BY <1>0, <1>1, <2>2, <3>1, <3>2 DEF Answered
      <3>4. /\ Len(got[q]) \in Nat /\ Len(got[q]) <= Len(outpipe[q])
            /\ \A i \in 1..Len(got[q]) : i \in 1..Len(outpipe[q]) /\ got[q][i] = outpipe[q][i]
        BY <1>0, <3>1 DEF Answered
      <3>5. Len(got[q]) <= Len(outpipe'[q])
        BY <3>1, <3>4
      <3> QED BY <1>1, <3>1, <3>3, <3>4, <3>5 DEF Answered, ItsOwn
    <2> QED BY <2>1, <2>2
  <1>2. CASE UNCHANGED <<got, outpipe>>
    BY <1>0, <1>2 DEF Answered, ItsOwn
  <1>3. ASSUME NEW r \in Requests, ReadAnswer(r)
        PROVE  Answered(q)'
    <2>1. /\ outpipe' = outpipe
          /\ got' = [got EXCEPT ![r] = IF Unread(r) THEN Append(@, NextPiece(r)) ELSE @]
      BY <1>3 DEF ReadAnswer
    <2>2. CASE q # r \/ ~Unread(q)
      <3>1. got'[q] = got[q]
        BY <1>0, <2>1, <2>2
      <3> QED BY <1>0, <2>1, <3>1 DEF Answered, ItsOwn
    <2>3. CASE q = r /\ Unread(q)
      <3>1. /\ Len(got[q]) \in Nat /\ Len(outpipe[q]) \in Nat /\ Len(got[q]) < Len(outpipe[q])
            /\ Len(got[q]) + 1 \in 1..Len(outpipe[q])
        BY <1>0, <2>3 DEF Unread
      <3>2. got'[q] = Append(got[q], NextPiece(q)) /\ NextPiece(q) \in Items
        BY <1>0, <2>1, <2>3, <3>1 DEF NextPiece
      <3>3. /\ Len(got'[q]) = Len(got[q]) + 1 /\ got'[q][Len(got[q]) + 1] = NextPiece(q)
            /\ \A i \in 1..Len(got[q]) : got'[q][i] = got[q][i]
        BY <1>0, <3>2
      <3>4. \A i \in 1..Len(got'[q]) : i \in 1..Len(got[q]) \/ i = Len(got[q]) + 1
        BY <3>1, <3>3
      <3>5. \A i \in 1..Len(got'[q]) : got'[q][i] = outpipe[q][i]
        BY <1>0, <3>3, <3>4 DEF Answered, NextPiece
      <3>6. Len(got'[q]) <= Len(outpipe[q])
        BY <3>1, <3>3
      <3> QED BY <1>0, <2>1, <3>5, <3>6 DEF Answered, ItsOwn
    <2> QED BY <2>2, <2>3
  <1>4. ASSUME NEW w \in Workers, RunHandler(w)
        PROVE  Answered(q)'
    <2>1. work[w] \in Requests /\ HasDupOut(w) /\ got' = got
      BY <1>4 DEF RunHandler, Placed, Uses, HasDupOut, rustVars
    <2>2. Names(dup[w].out, End(work[w], "out", "write"))
      BY <2>1 DEF Claims
    <2>3. PICK item : /\ outpipe' = Written(dup[w].out, item)
                      /\ item \in Items /\ item.by = work[w]
      <3>1. PICK last \in BOOLEAN :
              outpipe' = Written(dup[w].out, [by |-> work[w], last |-> last, error |-> FALSE])
        BY <1>4 DEF RunHandler
      <3>2. [by |-> work[w], last |-> last, error |-> FALSE] \in Items
        BY <2>1 DEF Items
      <3> QED BY <3>1, <3>2
    <2>4. outpipe' = outpipe \/ outpipe' = [outpipe EXCEPT ![work[w]] = Append(@, item)]
      <3>1. dup[w].out \in Fds
        BY <2>2 DEF Names
      <3>2. \/ outpipe' = outpipe
            \/ \E p \in Requests : /\ fd[dup[w].out] = End(p, "out", "write")
                                   /\ outpipe' = [outpipe EXCEPT ![p] = Append(@, item)]
        BY <2>3, <3>1, WrittenAppends
      <3> QED BY <2>1, <2>2, <3>2, EndsDiffer DEF Names
    <2> QED BY <1>1, <1>2, <2>1, <2>3, <2>4 DEF ItsOwn
  <1>5. ASSUME NEW w \in Workers, WriteError(w)
        PROVE  Answered(q)'
    <2>1. /\ work[w] \in Requests /\ at[w] = "failed" /\ got' = got
          /\ nums[work[w]].outw \in Fds
      BY <1>5 DEF WriteError, Placed, rustVars, Claims
    <2>2. work[w] \notin BadQuery => Names(nums[work[w]].outw, End(work[w], "out", "write"))
      BY <2>1 DEF Claims, HasPair, InUse
    <2>3. PICK item : /\ outpipe' = outpipe \/ outpipe' = Written(nums[work[w]].outw, item)
                      /\ item \in Items /\ item.by = work[w] /\ item.error
      <3> DEFINE item == [by |-> work[w], last |-> FALSE, error |-> TRUE]
      <3>1. outpipe' = outpipe \/ outpipe' = Written(nums[work[w]].outw, item)
        BY <1>5 DEF WriteError, Output
      <3>2. item \in Items /\ item.by = work[w] /\ item.error
        BY <2>1 DEF Items
      <3> HIDE DEF item
      <3> QED BY <3>1, <3>2
    <2>4. \/ outpipe' = outpipe
          \/ \E p \in Requests : /\ outpipe' = [outpipe EXCEPT ![p] = Append(@, item)]
                                 /\ fd[nums[work[w]].outw] = End(p, "out", "write")
      <3>1. PICK n \in Fds : n = nums[work[w]].outw
        BY <2>1
      <3>2. \/ Written(n, item) = outpipe
            \/ \E p \in Requests : /\ fd[n] = End(p, "out", "write")
                                   /\ Written(n, item) = [outpipe EXCEPT ![p] = Append(@, item)]
        BY <2>3, WrittenAppends
      <3> QED BY <2>3, <3>1, <3>2
    <2>5. \A p \in Requests : fd[nums[work[w]].outw] = End(p, "out", "write") => ItsOwn(p, item)
      BY <2>1, <2>2, <2>3, EndsDiffer DEF Names, ItsOwn
    <2> QED BY <1>1, <1>2, <2>1, <2>3, <2>4, <2>5
  <1>6. \/ UNCHANGED <<got, outpipe>>
        \/ \E r \in Requests : ReadAnswer(r)
        \/ \E w \in Workers : RunHandler(w) \/ WriteError(w)
    BY DEF Next, RequestStep, OpenPipes, QueueRequest, WriteBody, ClientLeaves, WorkerStep,
           WorkerDies, TakeWork, OpenStream, DrainBody, CloseStreams, CloseFds, SignalReady,
           Dispatch, Watchdog, rustVars, pipeVars
  <1> QED BY <1>2, <1>3, <1>4, <1>5, <1>6

LEMMA RefusedStep ==
  ASSUME PoolInv, Next, NEW v \in Workers
  PROVE  Refused(v)'
PROOF
  <1> USE DEF PoolInv
  <1>0. /\ at \in [Workers -> Uses \union {"idle", "failed", "signal", "dead"}]
        /\ work \in [Workers -> Requests \union {Nothing}] /\ Refused(v)
    BY DEF Types, Answers
  <1>1. starved \subseteq starved'
    BY DEF Next, RequestStep, OpenPipes, QueueRequest, WriteBody, ReadAnswer, ClientLeaves,
           WorkerStep, WorkerDies, TakeWork, OpenStream, DrainBody, RunHandler, CloseStreams,
           CloseFds, WriteError, SignalReady, Dispatch, Watchdog, workerVars
  <1>2. ASSUME at'[v] = at[v], work'[v] = work[v]
        PROVE  Refused(v)'
    BY <1>0, <1>1, <1>2 DEF Refused
  <1>3. ASSUME NEW w \in Workers, w # v, WorkerStep(w) \/ WorkerDies(w)
        PROVE  Refused(v)'
    <2>1. /\ work' = work \/ \E x : work' = [work EXCEPT ![w] = x]
          /\ at' = at \/ \E l : at' = [at EXCEPT ![w] = l]
      <3>1. CASE TakeWork(w) \/ SignalReady(w) \/ WorkerDies(w)
        BY <3>1 DEF TakeWork, SignalReady, WorkerDies, Goto
      <3>2. CASE OpenStream(w)
        BY <3>2 DEF OpenStream, Goto
      <3>3. CASE DrainBody(w) \/ RunHandler(w) \/ CloseStreams(w) \/ CloseFds(w) \/ WriteError(w)
        BY <3>3 DEF DrainBody, RunHandler, CloseStreams, CloseFds, WriteError, Goto
      <3> QED BY <1>3, <3>1, <3>2, <3>3 DEF WorkerStep
    <2>2. at'[v] = at[v] /\ work'[v] = work[v]
      BY <1>0, <1>3, <2>1
    <2> QED BY <1>2, <2>2
  <1>4. CASE TakeWork(v) \/ SignalReady(v) \/ WorkerDies(v) \/ DrainBody(v) \/ RunHandler(v)
             \/ WriteError(v)
    <2>1. at'[v] \notin {"raised", "raised_fds", "failed"}
      BY <1>0, <1>4 DEF TakeWork, SignalReady, WorkerDies, DrainBody, RunHandler, WriteError, Goto
    <2> QED BY <2>1 DEF Refused
  <1>5. CASE OpenStream(v)
    <2>1. work' = work
      BY <1>5 DEF OpenStream
    <2>2. CASE SetupFails(v)
      BY <1>0, <2>1, <2>2 DEF SetupFails, Refused
    <2>3. ASSUME NEW m \in Unused, InOpens(v, m) \/ OutOpens(v, m)
          PROVE  Refused(v)'
      BY <1>0, <2>1, <2>3 DEF InOpens, OutOpens, Refused
    <2> QED BY <1>5, <2>2, <2>3, StreamOpens
  <1>6. CASE CloseStreams(v) \/ CloseFds(v)
    BY <1>0, <1>6 DEF CloseStreams, CloseFds, Goto, Refused
  <1>7. CASE UNCHANGED <<at, work>>
    BY <1>2, <1>7
  <1>8. \/ UNCHANGED <<at, work>>
        \/ \E w \in Workers : WorkerStep(w) \/ WorkerDies(w)
    BY DEF Next, RequestStep, OpenPipes, QueueRequest, WriteBody, ReadAnswer, ClientLeaves,
           Dispatch, Watchdog, workerVars
  <1> QED BY <1>3, <1>4, <1>5, <1>6, <1>7, <1>8 DEF WorkerStep

\* The round robin: the worker whose turn it was is the last one now.
LEMMA RotatesStep ==
  ASSUME PoolInv, Next
  PROVE  Rotates'
PROOF
  <1> USE DEF PoolInv
  <1>1. CASE Dispatch
    <2> DEFINE v == Head(order)
               t == Tail(order)
    <2>1. order' = Append(t, v)
      BY <1>1 DEF Dispatch, DispatchRequest
    <2>2. order # <<>> /\ order \in Seq(Workers)
      <3>1. ToSet(<<>>) = {}
        BY DEF ToSet
      <3> QED BY <3>1, RequestPoolAssumption DEF Rotates, Types
    <2>3. /\ v \in Workers /\ t \in Seq(Workers) /\ ToSet(order) = ToSet(t) \union {v}
          /\ Len(t) = Len(order) - 1
      BY <2>2, TailElements
    <2> HIDE DEF v, t
    <2>4. ToSet(order') = ToSet(t) \union {v} /\ Len(order') = Len(t) + 1
      BY <2>1, <2>3, AppendElements
    <2>5. Len(order) \in Nat /\ \A k \in Nat : (k - 1) + 1 = k
      BY <2>2
    <2>6. Len(order') = Len(order)
      BY <2>3, <2>4, <2>5
    <2> QED BY <2>3, <2>4, <2>6 DEF Rotates
  <1>2. CASE ~Dispatch
    <2>1. order' = order
      BY <1>2 DEF Next, RequestStep, OpenPipes, QueueRequest, WriteBody, ReadAnswer, ClientLeaves,
             WorkerStep, WorkerDies, TakeWork, OpenStream, DrainBody, RunHandler, CloseStreams,
             CloseFds, WriteError, SignalReady, Watchdog, poolVars
    <2> QED BY <2>1 DEF Rotates
  <1> QED BY <1>1, <1>2

-------------------------------------------------------------------------------
(* The invariant and what follows from it *)

LEMMA PoolInit == Init => PoolInv
PROOF
  <1> SUFFICES ASSUME Init PROVE PoolInv
    OBVIOUS
  <1>1. Types /\ Rotates
    BY TypesInit
  <1>2. /\ \A r \in Requests : /\ req[r] = "new" /\ writer[r] = "none" /\ nums[r] = NoNums
                               /\ inpipe[r] = <<>> /\ outpipe[r] = <<>> /\ got[r] = <<>>
        /\ \A w \in Workers : at[w] = "idle" /\ work[w] = Nothing /\ inbox[w] = <<>>
        /\ queue = <<>> /\ \A n \in Fds : fd[n] = Nothing
    BY DEF Init
  <1>3. /\ ToSet(<<>>) = {} /\ IsInjective(<<>>) /\ Nothing \notin Requests
        /\ NoNums.inr = 0 /\ NoNums.inw = 0
    BY NothingAssumption DEF ToSet, IsInjective, NoNums
  <1>4. \A w \in Workers : /\ ~InUse(w) /\ ~HasDupIn(w) /\ ~HasDupOut(w)
                           /\ at[w] \notin Uses \union {"failed", "signal", "raised", "raised_fds"}
                           /\ at[w] \notin {"open_in", "drain", "open_out", "run"}
    BY <1>2 DEF InUse, Uses, HasDupIn, HasDupOut
  <1>5. \A r \in Requests : ~Waits(r) /\ ~HasPair(r) /\ ~HasInW(r)
    BY <1>2, <1>3, <1>4 DEF Waits, HasPair, HasInW
  <1>6. Placed
    BY <1>2, <1>3, <1>4 DEF Placed, Serves
  <1>7. Claims /\ Accounted
    BY <1>2, <1>3, <1>4, <1>5 DEF Claims, Accounted
  <1>8. Bodies
    <2>1. Len(<<>>) = 0 /\ 1..0 = {} /\ Len(Chunks) = 1
      BY DEF Chunks
    <2> QED BY <1>2, <1>4, <1>5, <2>1 DEF Bodies, WrittenBody, DrainedBody
  <1>9. Answers
    <2>1. Len(<<>>) = 0 /\ 1..0 = {}
      OBVIOUS
    <2> QED BY <1>2, <1>4, <2>1 DEF Answers, Answered, Refused
  <1> QED BY <1>1, <1>6, <1>7, <1>8, <1>9 DEF PoolInv

LEMMA PoolStep == PoolInv /\ [Next]_vars => PoolInv'
PROOF
  <1> SUFFICES ASSUME PoolInv, [Next]_vars PROVE PoolInv'
    OBVIOUS
  <1>1. CASE Next
    <2>1. Types'
      BY <1>1, RequestTypes, WorkerTypes, OtherTypes DEF Next
    <2>2. Bodies' /\ Answers'
      BY <1>1, WrittenStep, DrainedStep, AnsweredStep, RefusedStep DEF Bodies, Answers
    <2> QED BY <1>1, <2>1, <2>2, RotatesStep, PlacedStep, ClaimsStep DEF PoolInv
  <1>2. CASE UNCHANGED vars
    <2> USE <1>2 DEF PoolInv, vars, rustVars, poolVars, workerVars, pipeVars
    <2>1. Types' /\ Rotates'
      BY DEF Types, Rotates
    <2>2. Placed'
      BY DEF Placed, Serves
    <2>3. /\ \A r \in Requests : /\ Waits(r)' <=> Waits(r)
                                 /\ HasPair(r)' <=> HasPair(r)
                                 /\ HasInW(r)' <=> HasInW(r)
          /\ \A w \in Workers : /\ HasDupIn(w)' <=> HasDupIn(w)
                                /\ HasDupOut(w)' <=> HasDupOut(w)
      BY DEF Waits, HasPair, HasInW, InUse, HasDupIn, HasDupOut
    <2>4. Claims'
      BY <2>3 DEF Claims, Names
    <2>5. Accounted'
      <3>1. ASSUME NEW n \in Fds, fd[n] # Nothing, ClaimedBy(n, fd[n].of)
            PROVE  ClaimedBy(n, fd[n].of)'
        <4>1. fd[n].of \in Requests
          BY <3>1 DEF Types, Ends
        <4> QED BY <2>3, <3>1, <4>1 DEF ClaimedBy, Left
      <3> QED BY <3>1 DEF Accounted
    <2>6. Bodies'
      BY <2>3 DEF Bodies, WrittenBody, DrainedBody
    <2>7. Answers'
      BY DEF Answers, Answered, Refused, ItsOwn
    <2> QED BY <2>1, <2>2, <2>4, <2>5, <2>6, <2>7
  <1> QED BY <1>1, <1>2

\* The invariant: places, claims, bodies and answers.
THEOREM AlwaysPool == Spec => []PoolInv
PROOF BY PoolInit, PoolStep, PTL DEF Spec

\* Requests in flight stay apart: every number stands for a pipe of a request, what a
\* client is given was written for its own request, or is the error of a refused query,
\* and a handler is given the whole body (dispatch_request_via_pipe, handle_pipe_work).
THEOREM RequestsStayApart == Spec => []RequestsAreApart
PROOF
  <1>1. PoolInv => RequestsAreApart
    <2> SUFFICES ASSUME PoolInv PROVE RequestsAreApart
      OBVIOUS
    <2> USE DEF PoolInv
    <2>1. TypeOK
      <3>1. \A r \in Requests : \A f \in DOMAIN NoNums : nums[r][f] \in 0..MaxFds
        <4>1. DOMAIN NoNums = {"outr", "outw", "inr", "inw"}
          BY DEF NoNums
        <4>2. \A r \in Requests : nums[r] \in
                [outr : 0..MaxFds, outw : 0..MaxFds, inr : 0..MaxFds, inw : 0..MaxFds]
          BY DEF Types
        <4> QED BY <4>1, <4>2
      <3>2. \A r \in Requests : \A i \in DOMAIN outpipe[r] : outpipe[r][i] \in Items
        <4>1. \A r \in Requests : outpipe[r] \in Seq(Items)
          BY DEF Types
        <4> QED BY <4>1
      <3> QED BY <3>1, <3>2 DEF TypeOK, Types, Rotates, Items
    <2>2. AnswersAreTheirOwn
      <3>1. ASSUME NEW r \in Requests, NEW i \in DOMAIN got[r]
            PROVE  got[r][i].by = r \/ (got[r][i].error /\ got[r][i].by \in BadQuery)
        <4>1. got[r] \in Seq(Items) /\ outpipe[r] \in Seq(Items)
          BY DEF Types
        <4>2. i \in 1..Len(got[r]) /\ Len(got[r]) \in Nat /\ Len(outpipe[r]) \in Nat
          BY <3>1, <4>1
        <4>3. i \in 1..Len(outpipe[r])
          BY <4>2 DEF Answers, Answered
        <4> QED BY <4>2, <4>3 DEF Answers, Answered, ItsOwn
      <3> QED BY <3>1 DEF AnswersAreTheirOwn
    <2>3. BodiesAreWhole
      <3>1. ASSUME NEW w \in Workers, at[w] = "run", work[w] \in WithBody
            PROVE  body[w] = Chunks
        <4>1. body[w] \in Seq({"body"}) /\ Len(body[w]) = Len(Chunks)
          BY <3>1 DEF Types, Bodies, DrainedBody
        <4>2. Len(Chunks) = 1 /\ Chunks \in Seq({"body"})
          BY DEF Chunks
        <4>3. \A i \in 1..1 : body[w][i] = "body" /\ Chunks[i] = "body"
          BY <4>1, <4>2
        <4> QED BY <4>1, <4>2, <4>3, SeqEqual
      <3> QED BY <3>1 DEF BodiesAreWhole
    <2> QED BY <2>1, <2>2, <2>3 DEF RequestsAreApart
  <1> QED BY <1>1, AlwaysPool, PTL

\* Descriptors come back: whoever has a claim gives it up with the close that frees the
\* number, so that nothing stays open for a request nobody works for (call_cleanup of
\* handle_pipe_work, the Drop of the ends that the future and the writer own).
THEOREM DescriptorsReturn == Spec => []DescriptorsComeBack
PROOF
  <1>1. PoolInv => DescriptorsComeBack
    <2> SUFFICES ASSUME PoolInv, ~halted, NEW r \in Requests, req[r] \in Finished,
                        r \notin starved, writer[r] # "writing", r \notin ToSet(queue),
                        \A w \in Workers : ~Serves(w, r),
                        NEW n \in Fds, fd[n] # Nothing, fd[n].of = r
                 PROVE  FALSE
      BY DEF DescriptorsComeBack
    <2>1. ClaimedBy(n, r)
      BY DEF PoolInv, Accounted
    <2>2. ~Left(r) /\ ~Waits(r) /\ ~HasPair(r) /\ ~HasInW(r)
      BY DEF Finished, Left, Waits, HasPair, HasInW, Serves
    <2> QED BY <2>1, <2>2 DEF ClaimedBy, Serves
  <1> QED BY <1>1, AlwaysPool, PTL
==============================================================================
