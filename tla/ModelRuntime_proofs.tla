------------------------ MODULE ModelRuntime_proofs ------------------------
(***************************************************************************)
(* For any pipeline, any budgets and any backoff: retries are paced and    *)
(* bounded, a run outlasts its deadline by a bounded time, conversations   *)
(* alternate, and the types.  Four invariants carry it.  CallInv says what *)
(* the log of the latest call looks like where the call is: its last       *)
(* attempt is open while the agent asks, failed while it sleeps, final     *)
(* once it is idle again.  RunInv says that an agent can only run rounds   *)
(* that were granted when the clock was last looked at.  TimeInv weighs    *)
(* the time that has passed, with what is pending in the round, against    *)
(* what the rounds that were started paid in advance.  HistInv says that a *)
(* conversation is the agent's last exchanges.                             *)
(***************************************************************************)
EXTENDS ModelRuntime, NaturalSets, SequenceTheorems, TLAPS

Attempts == [at : Nat, end : Ends]

CallTypes ==
    /\ now \in Nat /\ made \in Nat
    /\ log \in Seq(Attempts)
    /\ turn \in {"new", "out", "idle", "asking", "sleeping"}

\* The attempts of the log follow each other as they should.
Paced ==
    /\ Len(log) <= MaxRetries + 1
    /\ \A i \in 1..(Len(log) - 1) :
          /\ log[i].end = "transient"
          /\ log[i + 1].at - log[i].at \in Backoff(i)..(Backoff(i) + Timeout)

Latest == log[Len(log)]
LogOfTurn ==
    /\ turn = "asking" => log # <<>> /\ Latest.end = "asked" /\ now = Latest.at
    /\ turn = "sleeping" =>
          /\ log # <<>> /\ Len(log) <= MaxRetries
          /\ Latest.end = "transient" /\ now \in Latest.at..(Latest.at + Timeout)
    /\ turn = "idle" /\ made > 0 =>
          log # <<>> /\ (Latest.end = "transient" => Len(log) = MaxRetries + 1)

CallInv == CallTypes /\ Paced /\ LogOfTurn

-----------------------------------------------------------------------------
(* Arithmetic *)

LEMMA MinOfTwo ==
    ASSUME NEW a \in Nat, NEW b \in Nat
    PROVE  /\ Min({a, b}) \in {a, b} /\ Min({a, b}) \in Nat
           /\ Min({a, b}) <= a /\ Min({a, b}) <= b
<1>1. \E x \in {a, b} : \A y \in {a, b} : x <= y
  OBVIOUS
<1> QED
  BY <1>1 DEF Min

LEMMA BackoffType == \A n \in 1..(MaxRetries + 1) : Backoff(n) \in Nat
<1> SUFFICES ASSUME NEW n \in 1..(MaxRetries + 1) PROVE Backoff(n) \in Nat
  OBVIOUS
<1>1. MaxRetries \in Nat /\ Base \in Nat /\ Cap \in Nat
  BY ModelAssumption
<1>2. n - 1 \in 0..MaxRetries
  BY <1>1
<1>3. 2^(n - 1) \in Nat
  BY <1>2, ModelAssumption
<1>4. Base * 2^(n - 1) \in Nat
  BY <1>1, <1>3
<1> QED
  BY <1>1, <1>4, MinOfTwo DEF Backoff

LEMMA DelayIsBackoff ==
    ASSUME CallTypes, log # <<>>, Len(log) <= MaxRetries
    PROVE  Delay = Backoff(Len(log)) /\ Delay \in Nat
<1>1. Len(log) \in 1..(MaxRetries + 1)
  BY ModelAssumption DEF CallTypes
<1> QED
  BY <1>1, BackoffType DEF Delay, Backoff, Attempt

-----------------------------------------------------------------------------
(* Each step keeps the invariant *)

\* Between calls the log and the clock stay, and a new round has made no call.
LEMMA BetweenCalls ==
    ASSUME CallInv, UNCHANGED timeVars,
           \/ turn' = turn /\ made' = made
           \/ turn' \in {"new", "out"} /\ made' = made
           \/ turn' = "idle" /\ made' = 0
    PROVE  CallInv'
<1>1. CallTypes' /\ log' = log /\ now' = now
  BY DEF CallInv, CallTypes, timeVars
<1>2. Paced'
  BY <1>1 DEF CallInv, Paced, Backoff
<1>3. LogOfTurn'
  BY <1>1 DEF CallInv, LogOfTurn, Latest
<1> QED
  BY <1>1, <1>2, <1>3 DEF CallInv

LEMMA AskKeeps == CallInv /\ Ask => CallInv'
<1> SUFFICES ASSUME CallInv, Ask PROVE CallInv'
  OBVIOUS
<1>1. /\ log' = <<[at |-> now, end |-> "asked"]>> /\ now' = now /\ turn' = "asking"
      /\ made' = made + 1 /\ now \in Nat /\ made \in Nat
  BY DEF Ask, CallInv, CallTypes
<1>2. Len(log') = 1 /\ log'[1] = [at |-> now, end |-> "asked"] /\ log' \in Seq(Attempts)
  BY <1>1 DEF Attempts, Ends
<1> QED
  BY <1>1, <1>2, ModelAssumption DEF CallInv, CallTypes, Paced, LogOfTurn, Latest

\* A request that ends closes the last attempt and leaves the earlier ones alone.
LEMMA RequestEnds ==
    ASSUME CallInv, NEW end \in Ends, Request(end)
    PROVE  /\ log # <<>> /\ log' \in Seq(Attempts) /\ Len(log') = Len(log)
           /\ log'[Len(log)] = [Latest EXCEPT !.end = end]
           /\ \A i \in 1..(Len(log) - 1) : log'[i] = log[i]
           /\ now' \in Nat /\ now' \in Latest.at..(Latest.at + Timeout)
           /\ Paced'
<1>1. log # <<>> /\ now = Latest.at /\ now \in Nat /\ log \in Seq(Attempts)
  BY DEF CallInv, LogOfTurn, CallTypes, Request
<1>2. Len(log) \in Nat \ {0} /\ Len(log) \in DOMAIN log /\ Latest \in Attempts
  BY <1>1 DEF Latest
<1>3. log' = [log EXCEPT ![Len(log)] = [Latest EXCEPT !.end = end]]
  BY DEF Request, Latest
<1>4. [Latest EXCEPT !.end = end] \in Attempts
  BY <1>2 DEF Attempts
<1>5. log' \in Seq(Attempts) /\ Len(log') = Len(log)
  BY <1>1, <1>2, <1>3, <1>4
<1>6. /\ log'[Len(log)] = [Latest EXCEPT !.end = end]
      /\ \A i \in 1..(Len(log) - 1) : log'[i] = log[i]
  BY <1>1, <1>2, <1>3
<1>7. now' \in Nat /\ now' \in Latest.at..(Latest.at + Timeout)
  BY <1>1, ModelAssumption DEF Request
<1>8. \A i \in 1..Len(log) : log'[i].at = log[i].at
  BY <1>2, <1>6 DEF Latest, Attempts
<1>9. Paced'
  <2>1. Len(log') <= MaxRetries + 1
    BY <1>5 DEF CallInv, Paced
  <2>2. ASSUME NEW i \in 1..(Len(log') - 1)
        PROVE  /\ log'[i].end = "transient"
               /\ log'[i + 1].at - log'[i].at \in Backoff(i)..(Backoff(i) + Timeout)
    <3>1. i \in 1..(Len(log) - 1) /\ i \in 1..Len(log) /\ i + 1 \in 1..Len(log)
      BY <1>2, <1>5
    <3>2. log'[i].at = log[i].at /\ log'[i + 1].at = log[i + 1].at /\ log'[i] = log[i]
      BY <1>6, <1>8, <3>1
    <3> QED
      BY <3>1, <3>2 DEF CallInv, Paced
  <2> QED
    BY <2>1, <2>2 DEF Paced, Backoff
<1> QED
  BY <1>1, <1>5, <1>6, <1>7, <1>9

LEMMA TransientKeeps == CallInv /\ Transient => CallInv'
<1> SUFFICES ASSUME CallInv, Transient PROVE CallInv'
  OBVIOUS
<1>1. Request("transient") /\ "transient" \in Ends /\ made' = made
  BY DEF Transient, Ends
<1>2. /\ log # <<>> /\ log' \in Seq(Attempts) /\ Len(log') = Len(log)
      /\ log'[Len(log)] = [Latest EXCEPT !.end = "transient"]
      /\ now' \in Nat /\ now' \in Latest.at..(Latest.at + Timeout)
      /\ Paced'
  BY <1>1, RequestEnds
<1>3. made \in Nat /\ Latest \in Attempts /\ Len(log) \in Nat /\ Len(log) <= MaxRetries + 1
  BY <1>2 DEF CallInv, CallTypes, Latest, Paced
<1>4. Latest'.end = "transient" /\ Latest'.at = Latest.at /\ log' # <<>>
  BY <1>2, <1>3 DEF Latest, Attempts
<1>5. CASE Len(log) - 1 >= MaxRetries
  <2>1. turn' = "idle" /\ Len(log') = MaxRetries + 1
    BY <1>2, <1>3, <1>5, ModelAssumption DEF Transient, Exhausted, Attempt
  <2> QED
    BY <1>1, <1>2, <1>3, <1>4, <2>1 DEF CallInv, CallTypes, LogOfTurn
<1>6. CASE ~(Len(log) - 1 >= MaxRetries)
  <2>1. turn' = "sleeping" /\ Len(log') <= MaxRetries
    BY <1>2, <1>3, <1>6, ModelAssumption DEF Transient, Exhausted, Attempt
  <2> QED
    BY <1>1, <1>2, <1>3, <1>4, <2>1 DEF CallInv, CallTypes, LogOfTurn
<1> QED
  BY <1>5, <1>6

LEMMA EndKeeps ==
    ASSUME CallInv, NEW end \in {"permanent", "answered"}, Request(end), turn' = "idle",
           made' = made
    PROVE  CallInv'
<1>1. end \in Ends
  BY DEF Ends
<1>2. /\ log # <<>> /\ log' \in Seq(Attempts) /\ Len(log') = Len(log)
      /\ log'[Len(log)] = [Latest EXCEPT !.end = end]
      /\ now' \in Nat /\ Paced'
  BY <1>1, RequestEnds
<1>3. made \in Nat /\ Latest \in Attempts
  BY <1>2 DEF CallInv, CallTypes, Latest
<1>4. Latest'.end # "transient" /\ log' # <<>>
  BY <1>2, <1>3 DEF Latest, Attempts
<1> QED
  BY <1>2, <1>3, <1>4 DEF CallInv, CallTypes, LogOfTurn

LEMMA WakeKeeps == CallInv /\ Wake => CallInv'
<1> SUFFICES ASSUME CallInv, Wake PROVE CallInv'
  OBVIOUS
<1> DEFINE n == Len(log)
<1>1. /\ log # <<>> /\ n <= MaxRetries /\ Latest.end = "transient"
      /\ now \in Latest.at..(Latest.at + Timeout) /\ now \in Nat /\ made \in Nat
      /\ log \in Seq(Attempts) /\ n \in Nat \ {0}
  BY DEF CallInv, LogOfTurn, CallTypes, Wake
<1>2. /\ now' = now + Delay /\ turn' = "asking" /\ made' = made
      /\ log' = Append(log, [at |-> now', end |-> "asked"])
  BY DEF Wake
<1>3. Delay = Backoff(n) /\ Delay \in Nat
  BY <1>1, DelayIsBackoff DEF CallInv
<1>4. [at |-> now', end |-> "asked"] \in Attempts /\ now' \in Nat
  BY <1>1, <1>2, <1>3 DEF Attempts, Ends
<1>5. /\ log' \in Seq(Attempts) /\ Len(log') = n + 1
      /\ log'[n + 1] = [at |-> now', end |-> "asked"]
      /\ \A i \in 1..n : log'[i] = log[i]
  BY <1>1, <1>2, <1>4
<1>6. Latest \in Attempts /\ Latest = log'[n]
  BY <1>1, <1>5 DEF Latest
<1>7. Paced'
  <2>1. Len(log') <= MaxRetries + 1
    BY <1>1, <1>5, ModelAssumption
  <2>2. ASSUME NEW i \in 1..(Len(log') - 1)
        PROVE  /\ log'[i].end = "transient"
               /\ log'[i + 1].at - log'[i].at \in Backoff(i)..(Backoff(i) + Timeout)
    <3>1. CASE i = n
      <4>1. log'[i].end = "transient"
        BY <1>1, <1>6, <3>1
      <4>2. log'[i + 1].at = now + Backoff(n) /\ log'[i].at = Latest.at
        BY <1>2, <1>3, <1>5, <1>6, <3>1
      <4>3. Latest.at \in Int /\ Backoff(n) \in Int /\ Timeout \in Int
        BY <1>3, <1>6, ModelAssumption DEF Attempts
      <4> QED
        BY <1>1, <3>1, <4>1, <4>2, <4>3
    <3>2. CASE i # n
      <4>1. i \in 1..(n - 1) /\ i \in 1..n /\ i + 1 \in 1..n
        BY <1>1, <1>5, <3>2
      <4> QED
        BY <1>5, <4>1 DEF CallInv, Paced
    <3> QED
      BY <3>1, <3>2
  <2> QED
    BY <2>1, <2>2 DEF Paced, Backoff
<1>8. Latest' = [at |-> now', end |-> "asked"] /\ log' # <<>>
  BY <1>5 DEF Latest
<1> QED
  BY <1>1, <1>2, <1>4, <1>5, <1>7, <1>8 DEF CallInv, CallTypes, LogOfTurn

-----------------------------------------------------------------------------
(* The theorem *)

LEMMA CallInvStep == CallInv /\ [Next]_vars => CallInv'
<1> SUFFICES ASSUME CallInv, [Next]_vars PROVE CallInv'
  OBVIOUS
<1>1. CASE Boundary \/ Iterate \/ InvocationEnds \/ StartRound \/ RoundEnds
  <2>1. UNCHANGED timeVars
    BY <1>1 DEF Boundary, Iterate, InvocationEnds, StartRound, RoundEnds
  <2>2. \/ turn' = turn /\ made' = made
        \/ turn' \in {"new", "out"} /\ made' = made
        \/ turn' = "idle" /\ made' = 0
    <3>1. CASE Boundary
      BY <3>1 DEF Boundary
    <3>2. CASE Iterate
      BY <3>2 DEF Iterate
    <3>3. CASE InvocationEnds \/ StartRound \/ RoundEnds
      BY <3>3 DEF InvocationEnds, StartRound, RoundEnds
    <3> QED
      BY <1>1, <3>1, <3>2, <3>3
  <2> QED
    BY <2>1, <2>2, BetweenCalls
<1>2. CASE Ask
  BY <1>2, AskKeeps
<1>3. CASE Transient
  BY <1>3, TransientKeeps
<1>4. CASE Permanent
  BY <1>4, EndKeeps DEF Permanent
<1>5. CASE Succeeds
  BY <1>5, EndKeeps DEF Succeeds
<1>6. CASE Wake
  BY <1>6, WakeKeeps
<1>7. CASE UNCHANGED vars
  <2>1. UNCHANGED timeVars /\ turn' = turn /\ made' = made
    BY <1>7 DEF vars
  <2> QED
    BY <2>1, BetweenCalls
<1> QED
  BY <1>1, <1>2, <1>3, <1>4, <1>5, <1>6, <1>7 DEF Next

LEMMA CallInvAlways == Spec => []CallInv
<1>1. Init => CallInv
  BY ModelAssumption DEF Init, CallInv, CallTypes, Paced, LogOfTurn
<1> QED
  BY <1>1, CallInvStep, PTL DEF Spec

\* Whatever the provider answers and whoever asks: only transient failures are tried
\* again, each after its backoff, at most MaxRetries times, and a call that gives up
\* on one has tried that often.
THEOREM RetriesArePaced == Spec => []RetriesPaced
<1>1. CallInv => RetriesPaced
  BY DEF CallInv, Paced, LogOfTurn, Latest, RetriesPaced, Last
<1> QED
  BY <1>1, CallInvAlways, PTL

-----------------------------------------------------------------------------
(* Sums *)

Sums(f, n, sum) == sum = [i \in 0..n |-> IF i = 0 THEN 0 ELSE sum[i - 1] + f[i]]

\* The recursion has a solution: that for the longest prefix extends to the next.
LEMMA SumsExist ==
    ASSUME NEW f, NEW n \in Nat
    PROVE  \E sum : Sums(f, n, sum)
<1> DEFINE Bad == {k \in 0..n : ~\E sum : Sums(f, k, sum)}
<1>1. SUFFICES ASSUME Bad # {} PROVE FALSE
  <2>1. n \in Bad \/ \E sum : Sums(f, n, sum)
    OBVIOUS
  <2> QED
    BY <1>1, <2>1
<1>2. PICK k \in Bad : \A l \in Bad : k <= l
  <2>1. Bad \in SUBSET Nat
    OBVIOUS
  <2> HIDE DEF Bad
  <2> QED
    BY <1>1, <2>1, Smallest
<1>3. k # 0
  <2>1. Sums(f, 0, [i \in 0..0 |-> 0])
    BY DEF Sums
  <2> QED
    BY <1>2, <2>1
<1>4. k \in Nat /\ k - 1 \in 0..n /\ k - 1 \in Nat /\ ~(k <= k - 1)
  BY <1>2, <1>3
<1>5. PICK sum : Sums(f, k - 1, sum)
  BY <1>2, <1>4
<1> DEFINE next == [i \in 0..k |-> IF i = k THEN sum[k - 1] + f[k] ELSE sum[i]]
<1>6. Sums(f, k, next)
  <2>1. \A i \in 0..k : i = k \/ i \in 0..(k - 1)
    BY <1>4
  <2>2. \A i \in 0..(k - 1) : next[i] = IF i = 0 THEN 0 ELSE next[i - 1] + f[i]
    BY <1>3, <1>4, <1>5 DEF Sums
  <2>3. next[k] = next[k - 1] + f[k]
    BY <1>3, <1>4
  <2> QED
    BY <1>3, <2>1, <2>2, <2>3 DEF Sums
<1> QED
  BY <1>2, <1>6

LEMMA SumToIs ==
    ASSUME NEW f, NEW n \in Nat
    PROVE  \E sum : Sums(f, n, sum) /\ SumTo(f, n) = sum[n]
<1> DEFINE Sum == CHOOSE sum : sum = [i \in 0..n |-> IF i = 0 THEN 0 ELSE sum[i - 1] + f[i]]
<1>1. SumTo(f, n) = Sum[n]
  BY DEF SumTo
<1>2. Sums(f, n, Sum)
  BY SumsExist DEF Sums
<1> QED
  BY <1>1, <1>2

\* A sum is no greater than another one, term by term, and less by as much as one term is.
LEMMA SumGrows ==
    ASSUME NEW n \in Nat, NEW f \in [1..n -> Int], NEW g \in [1..n -> Int],
           \A i \in 1..n : f[i] <= g[i],
           NEW m \in Nat, NEW gain \in Nat, m \in 1..n => f[m] + gain <= g[m]
    PROVE  /\ SumTo(f, n) \in Int /\ SumTo(g, n) \in Int
           /\ SumTo(f, n) <= SumTo(g, n)
           /\ m \in 1..n => SumTo(f, n) + gain <= SumTo(g, n)
<1>1. PICK sf : Sums(f, n, sf) /\ SumTo(f, n) = sf[n]
  BY SumToIs
<1>2. PICK sg : Sums(g, n, sg) /\ SumTo(g, n) = sg[n]
  BY SumToIs
<1>3. /\ sf[0] = 0 /\ \A i \in 1..n : sf[i] = sf[i - 1] + f[i]
      /\ sg[0] = 0 /\ \A i \in 1..n : sg[i] = sg[i - 1] + g[i]
  BY <1>1, <1>2 DEF Sums
<1> DEFINE Good(k) == /\ sf[k] \in Int /\ sg[k] \in Int /\ sf[k] <= sg[k]
                      /\ m \in 1..k => sf[k] + gain <= sg[k]
           Bad == {k \in 0..n : ~Good(k)}
<1>4. SUFFICES ASSUME Bad # {} PROVE FALSE
  <2>1. n \in Bad \/ Good(n)
    OBVIOUS
  <2> QED
    BY <1>1, <1>2, <1>4, <2>1
<1>5. PICK k \in Bad : \A l \in Bad : k <= l
  <2>1. Bad \in SUBSET Nat
    OBVIOUS
  <2> HIDE DEF Bad
  <2> QED
    BY <1>4, <2>1, Smallest
<1>6. k # 0
  BY <1>3, <1>5
<1>7. k \in 1..n /\ k - 1 \in 0..n /\ ~(k <= k - 1)
  BY <1>5, <1>6
<1>8. Good(k - 1)
  BY <1>5, <1>7
<1>9. /\ sf[k] = sf[k - 1] + f[k] /\ sg[k] = sg[k - 1] + g[k]
      /\ f[k] \in Int /\ g[k] \in Int /\ f[k] <= g[k]
      /\ m \in 1..k => m \in 1..(k - 1) \/ (m = k /\ f[k] + gain <= g[k])
  BY <1>3, <1>7
<1>10. sf[k] \in Int /\ sg[k] \in Int /\ sf[k] <= sg[k]
  BY <1>8, <1>9
<1>11. ASSUME m \in 1..k PROVE sf[k] + gain <= sg[k]
  <2>1. sf[k - 1] \in Int /\ sg[k - 1] \in Int /\ sf[k - 1] <= sg[k - 1]
    BY <1>8
  <2>2. CASE m \in 1..(k - 1)
    <3>1. sf[k - 1] + gain <= sg[k - 1]
      BY <1>8, <2>2
    <3> QED
      BY <1>9, <2>1, <3>1
  <2>3. CASE m = k /\ f[k] + gain <= g[k]
    BY <1>9, <2>1, <2>3
  <2> QED
    BY <1>9, <1>11, <2>2, <2>3
<1>12. Good(k)
  BY <1>10, <1>11
<1> QED
  BY <1>5, <1>12

\* Sums of natural numbers, and how they go on.
LEMMA SumOfNaturals ==
    ASSUME NEW n \in Nat, NEW f \in [1..n -> Nat]
    PROVE  SumTo(f, n) \in Nat
<1> DEFINE zero == [i \in 1..n |-> 0]
<1>1. PICK sum : Sums(zero, n, sum) /\ SumTo(zero, n) = sum[n]
  BY SumToIs
<1>2. SumTo(zero, n) \in Int /\ SumTo(f, n) \in Int /\ SumTo(zero, n) <= SumTo(f, n)
  <2>1. zero \in [1..n -> Int] /\ f \in [1..n -> Int] /\ \A i \in 1..n : zero[i] <= f[i]
    OBVIOUS
  <2> HIDE DEF zero
  <2>2. 0 \in Nat /\ (0 \in 1..n => zero[0] + 0 <= f[0])
    OBVIOUS
  <2> QED
    BY <2>1, <2>2, SumGrows
<1>3. SumTo(zero, n) = 0
  <2> DEFINE Bad == {k \in 0..n : sum[k] # 0}
  <2>1. sum[0] = 0 /\ \A k \in 1..n : sum[k] = sum[k - 1] + 0
    BY <1>1 DEF Sums
  <2>2. Bad = {}
    <3> SUFFICES ASSUME Bad # {} PROVE FALSE
      OBVIOUS
    <3>1. PICK k \in Bad : \A l \in Bad : k <= l
      <4>1. Bad \in SUBSET Nat
        OBVIOUS
      <4> HIDE DEF Bad
      <4> QED
        BY <4>1, Smallest
    <3>2. k \in 1..n /\ k - 1 \in 0..n /\ ~(k <= k - 1)
      BY <2>1, <3>1
    <3>3. sum[k - 1] = 0
      BY <3>1, <3>2
    <3> QED
      BY <2>1, <3>1, <3>2, <3>3
  <2> QED
    BY <1>1, <2>2
<1> QED
  BY <1>2, <1>3

LEMMA SumGoesOn ==
    ASSUME NEW n \in Nat, NEW f
    PROVE  SumTo(f, 0) = 0 /\ SumTo(f, n + 1) = SumTo(f, n) + f[n + 1]
<1>1. PICK s0 : Sums(f, 0, s0) /\ SumTo(f, 0) = s0[0]
  BY SumToIs
<1>2. PICK s : Sums(f, n, s) /\ SumTo(f, n) = s[n]
  BY SumToIs
<1>3. PICK t : Sums(f, n + 1, t) /\ SumTo(f, n + 1) = t[n + 1]
  BY SumToIs
<1>4. s0[0] = 0
  BY <1>1 DEF Sums
<1>5. /\ s[0] = 0 /\ \A k \in 1..n : s[k] = s[k - 1] + f[k]
      /\ t[0] = 0 /\ \A k \in 1..n : t[k] = t[k - 1] + f[k]
      /\ t[n + 1] = t[n] + f[n + 1]
  BY <1>2, <1>3 DEF Sums
<1> DEFINE Bad == {k \in 0..n : s[k] # t[k]}
<1>6. Bad = {}
  <2> SUFFICES ASSUME Bad # {} PROVE FALSE
    OBVIOUS
  <2>1. PICK k \in Bad : \A l \in Bad : k <= l
    <3>1. Bad \in SUBSET Nat
      OBVIOUS
    <3> HIDE DEF Bad
    <3> QED
      BY <3>1, Smallest
  <2>2. k \in 1..n /\ k - 1 \in 0..n /\ ~(k <= k - 1)
    BY <1>5, <2>1
  <2>3. s[k - 1] = t[k - 1]
    BY <2>1, <2>2
  <2> QED
    BY <1>5, <2>1, <2>2, <2>3
<1>7. s[n] = t[n]
  BY <1>6
<1> QED
  BY <1>1, <1>2, <1>3, <1>4, <1>5, <1>7

-----------------------------------------------------------------------------
(* Where a run is *)

\* What an agent may still run, it was granted when the clock was last looked at.
Granted(a) == MaxRounds[a] - rounds[a] <= stretch[a]

RunInv ==
    /\ stage \in {"boundary", "invoked", "loop", "route", "done"}
    /\ agents \in Seq(Agents) /\ Len(agents) <= Len(Pipeline)
    /\ left \in 0..MaxRework
    /\ rounds \in [Agents -> Nat] /\ \A a \in Agents : rounds[a] <= MaxRounds[a]
    /\ stretch \in [Agents -> Nat] /\ \A a \in Agents : stretch[a] <= MaxRounds[a]
    /\ turn \in {"new", "out", "idle", "asking", "sleeping"} /\ made \in Nat
    /\ stage \in {"invoked", "route"} => agents # <<>>
    /\ stage \notin {"invoked", "route"} => turn = "new"
    /\ turn \in {"idle", "asking", "sleeping"} => made <= Calls[Agent]
    /\ \A a \in Agents : stretch[a] # 0 => Granted(a)
    /\ stage = "invoked" => Granted(Agent)
    /\ stage = "route" => \A i \in DOMAIN agents : Granted(agents[i])

LEMMA PipelineFacts ==
    /\ Pipeline \in Seq(Agents) /\ Len(Pipeline) \in Nat
    /\ DOMAIN Pipeline = 1..Len(Pipeline)
    /\ \A a \in Agents : MaxRounds[a] \in Nat \ {0} /\ Calls[a] \in Nat \ {0}
    /\ \A a \in Agents : \E m \in 1..Len(Pipeline) : Pipeline[m] = a
<1>1. /\ Pipeline \in Seq(Agents)
      /\ MaxRounds \in [Agents -> Nat \ {0}] /\ Calls \in [Agents -> Nat \ {0}]
  BY ModelAssumption
<1>2. \A a \in Agents : \E m \in DOMAIN Pipeline : Pipeline[m] = a
  BY DEF Agents, Range
<1> HIDE DEF Agents
<1> QED
  BY <1>1, <1>2

LEMMA HeadFacts ==
    ASSUME RunInv, agents # <<>>
    PROVE  /\ Agent \in Agents /\ Agent = agents[1] /\ 1 \in DOMAIN agents
           /\ Tail(agents) \in Seq(Agents) /\ Len(Tail(agents)) <= Len(Pipeline)
           /\ \A i \in DOMAIN Tail(agents) :
                  i + 1 \in DOMAIN agents /\ Tail(agents)[i] = agents[i + 1]
<1>1. agents \in Seq(Agents) /\ Len(agents) <= Len(Pipeline) /\ Len(Pipeline) \in Nat
  BY PipelineFacts DEF RunInv
<1> HIDE DEF Agents
<1> QED
  BY <1>1 DEF Agent

LEMMA InRound ==
    ASSUME RunInv, turn # "new"
    PROVE  stage \in {"invoked", "route"} /\ agents # <<>> /\ Agent \in Agents
<1>1. stage \in {"invoked", "route"} /\ agents # <<>>
  BY DEF RunInv
<1> QED
  BY <1>1, HeadFacts

\* What is granted when the clock is looked at.
LEMMA GrantFacts ==
    ASSUME RunInv, NEW S \in SUBSET Agents,
           stretch' = [a \in Agents |-> IF a \in S THEN MaxRounds[a] - rounds[a] ELSE 0],
           UNCHANGED rounds
    PROVE  /\ stretch' \in [Agents -> Nat] /\ \A a \in Agents : stretch'[a] <= MaxRounds[a]
           /\ \A a \in Agents : stretch'[a] # 0 => Granted(a)'
           /\ \A a \in S : Granted(a)'
<1>1. \A a \in Agents :
          /\ MaxRounds[a] \in Nat /\ rounds[a] \in Nat /\ rounds[a] <= MaxRounds[a]
          /\ MaxRounds[a] - rounds[a] \in Nat /\ MaxRounds[a] - rounds[a] <= MaxRounds[a]
  <2> SUFFICES ASSUME NEW a \in Agents
               PROVE  /\ MaxRounds[a] \in Nat /\ rounds[a] \in Nat
                      /\ rounds[a] <= MaxRounds[a] /\ MaxRounds[a] - rounds[a] \in Nat
                      /\ MaxRounds[a] - rounds[a] <= MaxRounds[a]
    OBVIOUS
  <2>1. MaxRounds[a] \in Nat
    BY PipelineFacts
  <2>2. rounds[a] \in Nat /\ rounds[a] <= MaxRounds[a]
    BY DEF RunInv
  <2> QED
    BY <2>1, <2>2
<1> QED
  BY <1>1 DEF Granted

LEMMA RunsIs ==
    ASSUME NEW a \in Agents
    PROVE  Runs(a) = [b \in Agents |-> IF b \in {a} THEN MaxRounds[b] - rounds[b] ELSE 0]
BY DEF Runs, NoStretch

LEMMA BoundaryRuns == ASSUME RunInv, Boundary PROVE RunInv'
<1>1. UNCHANGED <<agents, left, rounds, made>>
  BY DEF Boundary
<1>2. CASE Due \/ agents = <<>>
  <2>1. stage' = "done" /\ UNCHANGED <<turn, stretch>> /\ turn = "new"
    BY <1>2 DEF Boundary, RunInv
  <2> QED
    BY <1>1, <2>1 DEF RunInv, Granted
<1>3. CASE ~(Due \/ agents = <<>>)
  <2>1. stage' = "invoked" /\ turn' = "new" /\ stretch' = Runs(Agent) /\ agents # <<>>
    BY <1>3 DEF Boundary
  <2>2. Agent \in Agents
    BY <2>1, HeadFacts
  <2>3. stretch' = [b \in Agents |-> IF b \in {Agent} THEN MaxRounds[b] - rounds[b] ELSE 0]
    BY <2>1, <2>2, RunsIs
  <2>4. /\ stretch' \in [Agents -> Nat] /\ \A a \in Agents : stretch'[a] <= MaxRounds[a]
        /\ \A a \in Agents : stretch'[a] # 0 => Granted(a)'
        /\ \A a \in {Agent} : Granted(a)'
    <3>1. PICK S : S = {Agent} /\ S \in SUBSET Agents
      BY <2>2
    <3> QED
      BY <1>1, <2>3, <3>1, GrantFacts
  <2>5. Agent' = Agent
    BY <1>1 DEF Agent
  <2>6. Granted(Agent)'
    BY <2>4, <2>5 DEF Granted
  <2> QED
    BY <1>1, <2>1, <2>4, <2>6 DEF RunInv
<1> QED
  BY <1>2, <1>3

LEMMA IterateRuns == ASSUME RunInv, Iterate PROVE RunInv'
<1>1. UNCHANGED <<rounds, made>> /\ turn = "new"
  BY DEF Iterate, RunInv
<1>2. CASE stage' = "done" /\ UNCHANGED <<agents, left, turn, stretch>>
  BY <1>1, <1>2 DEF RunInv, Granted
<1>3. CASE stage' = "route"
  <2>1. PICK k \in DOMAIN Pipeline :
            /\ agents' = SubSeq(Pipeline, k, Len(Pipeline))
            /\ stretch' = [a \in Agents |-> IF a \in Range(agents') THEN Runs(a)[a] ELSE 0]
    BY <1>3 DEF Iterate
  <2>2. left' = left - 1 /\ left > 0 /\ turn' = "new"
    BY <1>3 DEF Iterate
  <2>3. left' \in 0..MaxRework
    BY <2>2, ModelAssumption DEF RunInv
  <2> DEFINE n == Len(Pipeline)
  <2>4. agents' \in Seq(Agents) /\ Len(agents') <= n /\ agents' # <<>>
    <3>1. Pipeline \in Seq(Agents) /\ n \in Nat /\ k \in 1..n
      BY PipelineFacts
    <3> HIDE DEF Agents, n
    <3>2. SubSeq(Pipeline, k, n) \in Seq(Agents) /\ Len(SubSeq(Pipeline, k, n)) = n - k + 1
      BY <3>1 DEF n
    <3>3. agents' = SubSeq(Pipeline, k, n)
      BY <2>1 DEF n
    <3>4. n - k + 1 <= n /\ n - k + 1 # 0
      BY <3>1
    <3> QED
      BY <3>2, <3>3, <3>4
  <2> DEFINE S == Range(agents')
  <2>5. S \in SUBSET Agents /\ \A i \in DOMAIN agents' : agents'[i] \in S
    <3> HIDE DEF Agents
    <3> QED
      BY <2>4 DEF Range
  <2>6. stretch' = [a \in Agents |-> IF a \in S THEN MaxRounds[a] - rounds[a] ELSE 0]
    BY <2>1 DEF Runs, NoStretch
  <2>7. /\ stretch' \in [Agents -> Nat] /\ \A a \in Agents : stretch'[a] <= MaxRounds[a]
        /\ \A a \in Agents : stretch'[a] # 0 => Granted(a)'
        /\ \A a \in S : Granted(a)'
    <3>1. PICK s : s = S
      OBVIOUS
    <3> HIDE DEF S
    <3> QED
      BY <1>1, <2>5, <2>6, <3>1, GrantFacts
  <2>8. \A i \in DOMAIN agents' : Granted(agents[i])'
    BY <2>5, <2>7 DEF Granted
  <2> QED
    BY <1>1, <1>3, <2>2, <2>3, <2>4, <2>7, <2>8 DEF RunInv
<1> QED
  BY <1>2, <1>3 DEF Iterate

LEMMA InvocationEndsRuns == ASSUME RunInv, InvocationEnds PROVE RunInv'
<1>1. /\ agents' = Tail(agents) /\ turn' = "new"
      /\ UNCHANGED <<left, rounds, made, stretch>>
  BY DEF InvocationEnds
<1>2. stage \in {"invoked", "route"} /\ agents # <<>>
  <2>1. stage \in {"invoked", "route"}
    BY DEF InvocationEnds
  <2> QED
    BY <2>1 DEF RunInv
<1>3. /\ agents' \in Seq(Agents) /\ Len(agents') <= Len(Pipeline)
      /\ \A i \in DOMAIN agents' : i + 1 \in DOMAIN agents /\ agents'[i] = agents[i + 1]
  BY <1>1, <1>2, HeadFacts
<1>4. \/ stage' \in {"boundary", "loop", "done"}
      \/ stage = "route" /\ stage' = "route" /\ agents' # <<>>
  BY DEF InvocationEnds
<1>5. \A a \in Agents : Granted(a)' <=> Granted(a)
  BY <1>1 DEF Granted
<1>6. stage' = "route" => \A i \in DOMAIN agents' : Granted(agents[i])'
  BY <1>1, <1>3, <1>4 DEF RunInv, Granted
<1> QED
  BY <1>1, <1>3, <1>4, <1>5, <1>6 DEF RunInv

LEMMA StartRoundRuns == ASSUME RunInv, StartRound PROVE RunInv'
<1>1. /\ stage \in {"invoked", "route"} /\ rounds[Agent] < MaxRounds[Agent]
      /\ rounds' = [rounds EXCEPT ![Agent] = @ + 1] /\ turn' = "idle" /\ made' = 0
      /\ UNCHANGED <<stage, agents, left, stretch>>
  BY DEF StartRound, runVars
<1>2. Agent \in Agents /\ Agent' = Agent
  BY <1>1, HeadFacts DEF RunInv, Agent
<1>3. /\ rounds' \in [Agents -> Nat]
      /\ \A a \in Agents : rounds[a] <= rounds'[a] /\ rounds'[a] <= MaxRounds[a]
      /\ \A a \in Agents : rounds[a] \in Nat /\ rounds'[a] \in Nat /\ MaxRounds[a] \in Nat
                           /\ stretch[a] \in Nat
  <2>1. \A a \in Agents : /\ rounds[a] \in Nat /\ rounds[a] <= MaxRounds[a]
                          /\ stretch[a] \in Nat
    BY DEF RunInv
  <2>2. rounds \in [Agents -> Nat] /\ \A a \in Agents : MaxRounds[a] \in Nat
    BY PipelineFacts DEF RunInv
  <2> HIDE DEF Agents
  <2>3. /\ rounds'[Agent] = rounds[Agent] + 1 /\ rounds' \in [Agents -> Nat]
        /\ \A a \in Agents : a # Agent => rounds'[a] = rounds[a]
    BY <1>1, <1>2, <2>2
  <2>4. rounds[Agent] <= rounds'[Agent] /\ rounds'[Agent] <= MaxRounds[Agent]
    BY <1>1, <1>2, <2>1, <2>2, <2>3
  <2>5. \A a \in Agents : rounds[a] <= rounds'[a] /\ rounds'[a] <= MaxRounds[a]
    BY <2>1, <2>3, <2>4
  <2> QED
    BY <2>1, <2>2, <2>3, <2>5
<1>4. \A a \in Agents : Granted(a) => Granted(a)'
  BY <1>1, <1>3 DEF Granted
<1>5. Calls[Agent] \in Nat
  BY <1>2, PipelineFacts
<1>6. stage' = "route" => \A i \in DOMAIN agents' : Granted(agents[i])'
  <2> SUFFICES ASSUME stage' = "route", NEW i \in DOMAIN agents' PROVE Granted(agents[i])'
    OBVIOUS
  <2>1. agents[i] \in Agents /\ Granted(agents[i])
    <3> HIDE DEF Agents
    <3> QED
      BY <1>1 DEF RunInv
  <2>2. Granted(agents[i])' <=> MaxRounds[agents[i]] - rounds'[agents[i]] <= stretch'[agents[i]]
    BY <1>1 DEF Granted
  <2>3. PICK a \in Agents : a = agents[i]
    BY <2>1
  <2> QED
    BY <1>4, <2>1, <2>2, <2>3 DEF Granted
<1>7. stage' = "invoked" => Granted(Agent)'
  BY <1>1, <1>2, <1>4 DEF RunInv, Granted
<1>8. made' <= Calls[Agent]'
  BY <1>1, <1>2, <1>5
<1> QED
  BY <1>1, <1>2, <1>3, <1>4, <1>6, <1>7, <1>8 DEF RunInv

\* Inside of a round.
LEMMA RoundRuns ==
    ASSUME RunInv, turn \in {"idle", "asking", "sleeping"},
           turn' \in {"out", "idle", "asking", "sleeping"},
           made' = made \/ (made < Calls[Agent] /\ made' = made + 1),
           UNCHANGED <<stage, agents, left, stretch, rounds>>
    PROVE  RunInv'
<1>1. Agent \in Agents /\ Agent' = Agent /\ stage \in {"invoked", "route"}
  BY InRound DEF Agent
<1>2. Calls[Agent] \in Nat /\ made \in Nat /\ made <= Calls[Agent]
  BY <1>1, PipelineFacts DEF RunInv
<1>3. made' \in Nat /\ made' <= Calls[Agent]
  BY <1>2
<1> QED
  BY <1>1, <1>3 DEF RunInv, Granted

LEMMA RunInvStep == ASSUME RunInv, [Next]_vars PROVE RunInv'
<1>1. CASE RoundEnds \/ Ask \/ Transient \/ Permanent \/ Wake \/ Succeeds
  <2>1. /\ turn \in {"idle", "asking", "sleeping"}
        /\ turn' \in {"out", "idle", "asking", "sleeping"}
        /\ made' = made \/ (made < Calls[Agent] /\ made' = made + 1)
        /\ UNCHANGED <<stage, agents, left, stretch, rounds>>
    BY <1>1 DEF RoundEnds, Ask, Transient, Permanent, Wake, Succeeds, Request, runVars
  <2> QED
    BY <2>1, RoundRuns
<1>2. CASE UNCHANGED vars
  BY <1>2 DEF vars, runVars, RunInv, Granted, Agent
<1> QED
  BY <1>1, <1>2, BoundaryRuns, IterateRuns, InvocationEndsRuns, StartRoundRuns DEF Next

LEMMA RunInvAlways == Spec => []RunInv
<1>1. Init => RunInv
  BY PipelineFacts, ModelAssumption DEF Init, RunInv, NoStretch, Granted
<1> QED
  BY <1>1, RunInvStep, PTL DEF Spec

-----------------------------------------------------------------------------
(* How long a call can take *)

LEMMA BackoffsGoOn ==
    /\ Backoffs(0) = 0
    /\ \A n \in 1..MaxRetries : Backoffs(n) = Backoffs(n - 1) + Backoff(n)
<1> DEFINE f == [i \in 1..MaxRetries |-> Backoff(i)]
<1>1. \A n : Backoffs(n) = SumTo(f, n)
  BY DEF Backoffs
<1>2. \A n \in 1..MaxRetries : n - 1 \in Nat /\ (n - 1) + 1 = n /\ f[n] = Backoff(n)
  BY ModelAssumption
<1> HIDE DEF f
<1>3. SumTo(f, 0) = 0 /\ \A k \in Nat : SumTo(f, k + 1) = SumTo(f, k) + f[k + 1]
  BY SumGoesOn
<1>4. ASSUME NEW n \in 1..MaxRetries PROVE Backoffs(n) = Backoffs(n - 1) + Backoff(n)
  <2>1. PICK k \in Nat : k = n - 1 /\ k + 1 = n
    BY <1>2
  <2>2. SumTo(f, k + 1) = SumTo(f, k) + f[k + 1]
    BY <1>3
  <2> QED
    BY <1>1, <1>2, <2>1, <2>2
<1> QED
  BY <1>1, <1>3, <1>4

\* All the backoffs of a call are no less than the first of them.
LEMMA BackoffsGrow ==
    \A n \in 0..MaxRetries : Backoffs(n) \in Nat /\ Backoffs(n) <= Backoffs(MaxRetries)
<1>1. MaxRetries \in Nat
  BY ModelAssumption
<1>2. /\ Backoffs(0) = 0
      /\ \A n \in 1..MaxRetries :
             Backoffs(n) = Backoffs(n - 1) + Backoff(n) /\ Backoff(n) \in Nat
  BY <1>1, BackoffsGoOn, BackoffType
<1>3. \A n \in 0..MaxRetries : Backoffs(n) \in Nat
  <2> DEFINE Bad == {n \in 0..MaxRetries : Backoffs(n) \notin Nat}
  <2> SUFFICES ASSUME Bad # {} PROVE FALSE
    OBVIOUS
  <2>1. PICK n \in Bad : \A k \in Bad : n <= k
    <3>1. Bad \in SUBSET Nat
      OBVIOUS
    <3> HIDE DEF Bad
    <3> QED
      BY <3>1, Smallest
  <2>2. n \in 1..MaxRetries /\ n - 1 \in 0..MaxRetries /\ ~(n <= n - 1)
    BY <1>1, <1>2, <2>1
  <2>3. Backoffs(n - 1) \in Nat
    BY <2>1, <2>2
  <2> QED
    BY <1>2, <2>1, <2>2, <2>3
<1>4. \A n \in 0..MaxRetries : Backoffs(n) <= Backoffs(MaxRetries)
  <2> DEFINE Bad == {n \in 0..MaxRetries : ~(Backoffs(n) <= Backoffs(MaxRetries))}
  <2> SUFFICES ASSUME Bad # {} PROVE FALSE
    OBVIOUS
  <2>1. PICK n \in Bad : \A k \in Bad : k <= n
    <3>1. Bad \in SUBSET Nat /\ \A k \in Bad : k <= MaxRetries
      BY <1>1
    <3> HIDE DEF Bad
    <3> QED
      BY <1>1, <3>1, Greatest
  <2>2. Backoffs(MaxRetries) \in Nat
    BY <1>1, <1>3
  <2>3. n # MaxRetries
    BY <2>1, <2>2
  <2>4. n + 1 \in 1..MaxRetries /\ n + 1 \in 0..MaxRetries /\ (n + 1) - 1 = n /\ ~(n + 1 <= n)
    BY <1>1, <2>1, <2>3
  <2>5. Backoffs(n + 1) = Backoffs(n) + Backoff(n + 1) /\ Backoff(n + 1) \in Nat
    BY <1>2, <2>4
  <2>6. Backoffs(n + 1) <= Backoffs(MaxRetries)
    BY <2>1, <2>4
  <2>7. Backoffs(n) \in Nat
    BY <1>3, <2>1
  <2> QED
    BY <2>1, <2>2, <2>5, <2>6, <2>7
<1> QED
  BY <1>3, <1>4

\* What a call may still take that has made n attempts and slept after each of them.
RestOfCall(n) == (MaxRetries + 1 - n) * Timeout + (Backoffs(MaxRetries) - Backoffs(n))

LEMMA RestFacts ==
    /\ WorstCall \in Nat /\ RestOfCall(0) = WorstCall
    /\ \A n \in 0..MaxRetries : RestOfCall(n) \in Nat /\ RestOfCall(n) >= Timeout
    /\ \A n \in 1..MaxRetries : RestOfCall(n - 1) = RestOfCall(n) + Backoff(n) + Timeout
<1>1. MaxRetries \in Nat /\ Timeout \in Nat
  BY ModelAssumption
<1>2. \A k \in Nat : k * Timeout \in Nat /\ (k + 1) * Timeout = k * Timeout + Timeout
  BY <1>1
<1>3. ASSUME NEW n \in 0..MaxRetries PROVE RestOfCall(n) \in Nat /\ RestOfCall(n) >= Timeout
  <2>1. PICK k \in Nat : k = MaxRetries - n /\ MaxRetries + 1 - n = k + 1
    BY <1>1
  <2>2. RestOfCall(n) = (k * Timeout + Timeout) + (Backoffs(MaxRetries) - Backoffs(n))
    BY <1>2, <2>1 DEF RestOfCall
  <2>3. Backoffs(n) \in Nat /\ Backoffs(MaxRetries) \in Nat /\ Backoffs(n) <= Backoffs(MaxRetries)
    BY <1>1, BackoffsGrow
  <2>4. k * Timeout \in Nat
    BY <1>2
  <2> DEFINE x == k * Timeout
  <2>5. x \in Nat /\ RestOfCall(n) = (x + Timeout) + (Backoffs(MaxRetries) - Backoffs(n))
    BY <2>2, <2>4
  <2> HIDE DEF x
  <2> QED
    BY <1>1, <2>3, <2>5
<1>4. ASSUME NEW n \in 1..MaxRetries
      PROVE  RestOfCall(n - 1) = RestOfCall(n) + Backoff(n) + Timeout
  <2>1. PICK k \in Nat : MaxRetries + 1 - n = k /\ MaxRetries + 1 - (n - 1) = k + 1
    BY <1>1
  <2>2. n - 1 \in 0..MaxRetries /\ n \in 0..MaxRetries /\ n \in 1..(MaxRetries + 1)
    BY <1>1
  <2>3. /\ Backoffs(n) \in Nat /\ Backoffs(MaxRetries) \in Nat /\ Backoffs(n - 1) \in Nat
        /\ Backoff(n) \in Nat /\ Backoffs(n) = Backoffs(n - 1) + Backoff(n)
    BY <1>1, <2>2, BackoffsGrow, BackoffsGoOn, BackoffType
  <2> DEFINE x == k * Timeout
             top == Backoffs(MaxRetries)
             low == Backoffs(n - 1)
  <2>4. x \in Nat /\ (k + 1) * Timeout = x + Timeout
    BY <1>2
  <2>5. /\ RestOfCall(n) = x + (top - Backoffs(n))
        /\ RestOfCall(n - 1) = (x + Timeout) + (top - low)
    BY <2>1, <2>4 DEF RestOfCall
  <2>6. top \in Nat /\ low \in Nat /\ Backoffs(n) = low + Backoff(n)
    BY <2>3
  <2> HIDE DEF x, top, low
  <2> QED
    BY <1>1, <2>3, <2>4, <2>5, <2>6
<1>5. RestOfCall(0) = WorstCall
  <2>1. Backoffs(0) = 0 /\ Backoffs(MaxRetries) \in Nat
    BY <1>1, BackoffsGoOn, BackoffsGrow
  <2> QED
    BY <1>1, <2>1 DEF RestOfCall, WorstCall
<1>6. WorstCall \in Nat
  <2>1. RestOfCall(0) \in Nat
    BY <1>1, <1>3
  <2> QED
    BY <1>5, <2>1
<1> QED
  BY <1>3, <1>4, <1>5, <1>6

-----------------------------------------------------------------------------
(* Where the time goes: every round of a stretch pays for its calls in advance *)

RoundCost(a) == Calls[a] * WorstCall

\* Rounds of the stretch that were started.
Begun(a) == IF stretch[a] = 0 THEN 0 ELSE stretch[a] - (MaxRounds[a] - rounds[a])
Paid(a)  == Begun(a) * RoundCost(a)

\* What the round may still take.
Pending ==
    CASE turn \in {"new", "out"} -> 0
      [] turn = "idle"     -> (Calls[Agent] - made) * WorstCall
      [] turn = "asking"   -> (Calls[Agent] - made) * WorstCall + RestOfCall(Len(log) - 1)
      [] turn = "sleeping" -> (Calls[Agent] - made) * WorstCall + RestOfCall(Len(log))
                                  + Backoff(Len(log))

PaidInAll == SumTo([k \in DOMAIN Pipeline |-> Paid(Pipeline[k])], Len(Pipeline))

TimeInv == now + Pending < MaxWallTime + PaidInAll

LEMMA Products ==
    /\ \A a, b, c \in Nat : a <= b => a * c <= b * c
    /\ \A a, b \in Nat : a * b \in Nat /\ (a + 1) * b = a * b + b /\ 0 * b = 0
OBVIOUS

LEMMA PaidFacts ==
    ASSUME RunInv, NEW a \in Agents
    PROVE  /\ RoundCost(a) \in Nat /\ Begun(a) \in Nat /\ Begun(a) <= stretch[a]
           /\ Paid(a) \in Nat /\ Worst(a) \in Nat /\ Paid(a) <= Worst(a)
<1>1. Calls[a] \in Nat /\ MaxRounds[a] \in Nat /\ WorstCall \in Nat
  BY PipelineFacts, RestFacts
<1>2. RoundCost(a) \in Nat
  BY <1>1, Products DEF RoundCost
<1>3. /\ rounds[a] \in Nat /\ stretch[a] \in Nat /\ rounds[a] <= MaxRounds[a]
      /\ stretch[a] # 0 => MaxRounds[a] - rounds[a] <= stretch[a]
  BY DEF RunInv, Granted
<1>4. Begun(a) \in Nat /\ Begun(a) <= stretch[a]
  BY <1>1, <1>3 DEF Begun
<1>5. Worst(a) = stretch[a] * RoundCost(a)
  BY DEF Worst, RoundCost
<1> QED
  BY <1>2, <1>3, <1>4, <1>5, Products DEF Paid

LEMMA PaidInAllFacts ==
    ASSUME RunInv
    PROVE  /\ PaidInAll \in Nat
           /\ PaidInAll <= SumTo([k \in DOMAIN Pipeline |-> Worst(Pipeline[k])], Len(Pipeline))
           /\ SumTo([k \in DOMAIN Pipeline |-> Worst(Pipeline[k])], Len(Pipeline)) \in Nat
<1> DEFINE n == Len(Pipeline)
           f == [k \in 1..n |-> Paid(Pipeline[k])]
           g == [k \in 1..n |-> Worst(Pipeline[k])]
<1>1. n \in Nat /\ DOMAIN Pipeline = 1..n /\ \A k \in 1..n : Pipeline[k] \in Agents
  <2> HIDE DEF Agents
  <2> QED
    BY PipelineFacts
<1>2. f \in [1..n -> Nat] /\ g \in [1..n -> Nat] /\ \A k \in 1..n : f[k] <= g[k]
  BY <1>1, PaidFacts
<1>3. PaidInAll = SumTo(f, n)
  BY <1>1 DEF PaidInAll
<1>4. SumTo([k \in DOMAIN Pipeline |-> Worst(Pipeline[k])], n) = SumTo(g, n)
  BY <1>1
<1> HIDE DEF f, g, n
<1>5. SumTo(f, n) \in Nat /\ SumTo(g, n) \in Nat
  BY <1>1, <1>2, SumOfNaturals
<1>6. SumTo(f, n) <= SumTo(g, n)
  <2>1. f \in [1..n -> Int] /\ g \in [1..n -> Int]
    BY <1>2
  <2>2. 0 \in Nat /\ ~(0 \in 1..n)
    BY <1>1
  <2> QED
    BY <1>1, <1>2, <2>1, <2>2, SumGrows
<1> QED
  BY <1>3, <1>4, <1>5, <1>6 DEF n

PaidIsNatural == PaidInAll \in Nat

LEMMA PaidInAllNext == RunInv' => PaidInAll' \in Nat
<1>1. RunInv => PaidIsNatural
  BY PaidInAllFacts DEF PaidIsNatural
<1>2. RunInv' => PaidIsNatural'
  BY <1>1, PTL
<1> QED
  BY <1>2 DEF PaidIsNatural

LEMMA PaidStays == UNCHANGED <<stretch, rounds>> => PaidInAll' = PaidInAll
BY DEF PaidInAll, Paid, Begun

\* Starting a round pays for it.
LEMMA StartPays ==
    ASSUME RunInv, StartRound
    PROVE  /\ PaidInAll \in Nat /\ PaidInAll' \in Nat /\ RoundCost(Agent) \in Nat
           /\ PaidInAll + RoundCost(Agent) <= PaidInAll'
<1>1. /\ stage \in {"invoked", "route"} /\ rounds[Agent] < MaxRounds[Agent]
      /\ rounds' = [rounds EXCEPT ![Agent] = @ + 1]
      /\ UNCHANGED <<stage, agents, left, stretch>>
  BY DEF StartRound, runVars
<1>2. Agent \in Agents /\ agents # <<>>
  BY <1>1, HeadFacts DEF RunInv
<1>3. Granted(Agent)
  <2>1. Agent = agents[1] /\ 1 \in DOMAIN agents
    BY <1>2, HeadFacts
  <2> QED
    BY <1>1, <2>1 DEF RunInv
<1>4. /\ MaxRounds[Agent] \in Nat /\ rounds[Agent] \in Nat /\ stretch[Agent] \in Nat
      /\ rounds \in [Agents -> Nat]
  BY <1>2, PipelineFacts DEF RunInv
<1>5. Begun(Agent)' = Begun(Agent) + 1
  <2>1. stretch[Agent] # 0 /\ Agent' = Agent
    BY <1>1, <1>3, <1>4 DEF Granted, Agent
  <2>2. rounds'[Agent] = rounds[Agent] + 1
    BY <1>1, <1>2, <1>4
  <2>3. /\ Begun(Agent) = stretch[Agent] - (MaxRounds[Agent] - rounds[Agent])
        /\ Begun(Agent)' = stretch[Agent] - (MaxRounds[Agent] - rounds'[Agent])
    BY <1>1, <2>1 DEF Begun
  <2> QED
    BY <1>4, <2>2, <2>3
<1>6. \A a \in Agents : a # Agent => Paid(a)' = Paid(a)
  BY <1>1, <1>4 DEF Paid, Begun
<1>7. /\ RoundCost(Agent) \in Nat /\ Paid(Agent)' = Paid(Agent) + RoundCost(Agent)
      /\ \A a \in Agents : Paid(a) \in Nat
  <2>1. RoundCost(Agent) \in Nat /\ Begun(Agent) \in Nat
    BY <1>2, PaidFacts
  <2>2. Agent' = Agent
    BY <1>1 DEF Agent
  <2>3. Paid(Agent)' = (Begun(Agent) + 1) * RoundCost(Agent)
    BY <1>5, <2>2 DEF Paid, RoundCost
  <2> QED
    BY <2>1, <2>3, Products, PaidFacts DEF Paid
<1> DEFINE n == Len(Pipeline)
           f == [k \in 1..n |-> Paid(Pipeline[k])]
           g == [k \in 1..n |-> Paid(Pipeline[k])']
<1>8. n \in Nat /\ DOMAIN Pipeline = 1..n /\ \A k \in 1..n : Pipeline[k] \in Agents
  <2> HIDE DEF Agents
  <2> QED
    BY PipelineFacts
<1>9. PaidInAll = SumTo(f, n) /\ PaidInAll' = SumTo(g, n)
  BY <1>8 DEF PaidInAll
<1>10. PICK m \in 1..n : Pipeline[m] = Agent
  BY <1>2, PipelineFacts
<1> DEFINE cost == RoundCost(Agent)
<1>11. ASSUME NEW k \in 1..n
       PROVE  /\ f[k] \in Nat /\ g[k] \in Nat /\ f[k] <= g[k]
              /\ k = m => f[k] + cost <= g[k]
  <2>1. Pipeline[k] \in Agents /\ Paid(Pipeline[k]) \in Nat
    BY <1>7, <1>8
  <2>2. CASE Pipeline[k] = Agent
    <3>1. Paid(Pipeline[k])' = Paid(Pipeline[k]) + cost
      BY <1>1, <1>7, <2>2 DEF Paid, Begun, RoundCost, Agent
    <3> HIDE DEF cost
    <3> QED
      BY <1>7, <2>1, <3>1 DEF cost
  <2>3. CASE Pipeline[k] # Agent
    <3>1. Paid(Pipeline[k])' = Paid(Pipeline[k])
      BY <1>6, <2>1, <2>3 DEF Paid, Begun, RoundCost
    <3> QED
      BY <1>10, <2>1, <2>3, <3>1
  <2> QED
    BY <2>2, <2>3
<1>12. f \in [1..n -> Nat] /\ g \in [1..n -> Nat] /\ cost \in Nat /\ m \in 1..n
  BY <1>7, <1>10, <1>11
<1> HIDE DEF f, g, n, cost
<1>13. SumTo(f, n) \in Nat /\ SumTo(g, n) \in Nat
  BY <1>8, <1>12, SumOfNaturals
<1>14. SumTo(f, n) + cost <= SumTo(g, n)
  <2>1. /\ f \in [1..n -> Int] /\ g \in [1..n -> Int] /\ m \in Nat
        /\ \A k \in 1..n : f[k] <= g[k]
        /\ f[m] + cost <= g[m]
    BY <1>8, <1>11, <1>12
  <2> QED
    BY <1>8, <1>12, <2>1, SumGrows
<1> QED
  BY <1>9, <1>12, <1>13, <1>14 DEF cost

\* What is pending in each turn, and that it is a natural number.
LEMMA PendingFacts ==
    ASSUME CallInv, RunInv
    PROVE  /\ Pending \in Nat /\ now \in Nat /\ WorstCall \in Nat
           /\ turn \notin {"new", "out"} =>
                  /\ Agent \in Agents /\ made \in Nat /\ Calls[Agent] \in Nat
                  /\ made <= Calls[Agent]
                  /\ (Calls[Agent] - made) * WorstCall \in Nat
           /\ turn \in {"asking", "sleeping"} =>
                  Len(log) \in 1..(MaxRetries + 1) /\ Len(log) - 1 \in 0..MaxRetries
           /\ turn = "sleeping" => Len(log) \in 1..MaxRetries
<1>1. now \in Nat /\ turn \in {"new", "out", "idle", "asking", "sleeping"} /\ log \in Seq(Attempts)
  BY DEF CallInv, CallTypes
<1>2. MaxRetries \in Nat /\ WorstCall \in Nat
  BY ModelAssumption, RestFacts
<1>3. turn \notin {"new", "out"} =>
          /\ Agent \in Agents /\ made \in Nat /\ Calls[Agent] \in Nat /\ made <= Calls[Agent]
          /\ (Calls[Agent] - made) * WorstCall \in Nat
  <2> SUFFICES ASSUME turn \in {"idle", "asking", "sleeping"}
               PROVE  /\ Agent \in Agents /\ made \in Nat /\ Calls[Agent] \in Nat
                      /\ made <= Calls[Agent] /\ (Calls[Agent] - made) * WorstCall \in Nat
    BY <1>1
  <2>1. Agent \in Agents /\ made \in Nat /\ made <= Calls[Agent]
    BY InRound DEF RunInv
  <2>2. Calls[Agent] \in Nat
    BY <2>1, PipelineFacts
  <2>3. Calls[Agent] - made \in Nat
    BY <2>1, <2>2
  <2> QED
    BY <1>2, <2>1, <2>2, <2>3, Products
<1>4. turn \in {"asking", "sleeping"} =>
          Len(log) \in 1..(MaxRetries + 1) /\ Len(log) - 1 \in 0..MaxRetries
  <2>1. turn \in {"asking", "sleeping"} => log # <<>> /\ Len(log) <= MaxRetries + 1
    BY DEF CallInv, LogOfTurn, Paced
  <2> QED
    BY <1>1, <1>2, <2>1
<1>5. turn = "sleeping" => Len(log) \in 1..MaxRetries
  <2>1. turn = "sleeping" => Len(log) <= MaxRetries
    BY DEF CallInv, LogOfTurn
  <2> QED
    BY <1>2, <1>4, <2>1
<1>6. Pending \in Nat
  <2> DEFINE c == (Calls[Agent] - made) * WorstCall
  <2>1. CASE turn \in {"new", "out"}
    BY <2>1 DEF Pending
  <2>2. CASE turn = "idle"
    BY <1>3, <2>2 DEF Pending
  <2>3. CASE turn = "asking"
    <3>1. c \in Nat /\ RestOfCall(Len(log) - 1) \in Nat
      BY <1>3, <1>4, <2>3, RestFacts
    <3>2. Pending = c + RestOfCall(Len(log) - 1)
      BY <2>3 DEF Pending
    <3> HIDE DEF c
    <3> QED
      BY <3>1, <3>2
  <2>4. CASE turn = "sleeping"
    <3>1. c \in Nat /\ RestOfCall(Len(log)) \in Nat /\ Backoff(Len(log)) \in Nat
      BY <1>2, <1>3, <1>4, <1>5, <2>4, RestFacts, BackoffType
    <3>2. Pending = c + RestOfCall(Len(log)) + Backoff(Len(log))
      BY <2>4 DEF Pending
    <3> HIDE DEF c
    <3> QED
      BY <3>1, <3>2
  <2> QED
    BY <1>1, <2>1, <2>2, <2>3, <2>4
<1> QED
  BY <1>1, <1>2, <1>3, <1>4, <1>5, <1>6

\* Time that passes in a round, and what it asks for, was pending before.
LEMMA AskTakes ==
    ASSUME CallInv, RunInv, Ask
    PROVE  now' \in Nat /\ Pending' \in Nat /\ now' + Pending' <= now + Pending
<1> DEFINE m == Calls[Agent] - (made + 1)
<1>1. /\ turn = "idle" /\ made < Calls[Agent] /\ made' = made + 1 /\ turn' = "asking"
      /\ now' = now /\ agents' = agents /\ Len(log') = 1
  BY DEF Ask, runVars
<1>2. /\ now \in Nat /\ WorstCall \in Nat /\ made \in Nat /\ Calls[Agent] \in Nat
      /\ RestOfCall(0) = WorstCall
  BY <1>1, PendingFacts, RestFacts
<1>3. m \in Nat /\ Calls[Agent] - made = m + 1
  BY <1>1, <1>2
<1>4. Pending = (m + 1) * WorstCall
  BY <1>1, <1>3 DEF Pending
<1>5. Pending' = m * WorstCall + RestOfCall(Len(log') - 1)
  BY <1>1 DEF Pending, Agent
<1>6. RestOfCall(Len(log') - 1) = WorstCall
  BY <1>1, <1>2
<1> HIDE DEF m
<1>7. Pending = m * WorstCall + WorstCall /\ m * WorstCall \in Nat
  BY <1>2, <1>3, <1>4, Products
<1> DEFINE c == m * WorstCall
<1>8. c \in Nat /\ Pending = c + WorstCall /\ Pending' = c + WorstCall
  BY <1>5, <1>6, <1>7
<1> HIDE DEF c
<1> QED
  BY <1>1, <1>2, <1>8

LEMMA RequestTakes ==
    ASSUME CallInv, RunInv, NEW end \in Ends, Request(end),
           UNCHANGED <<agents, made>>,
           turn' = "idle" \/ (turn' = "sleeping" /\ Len(log) <= MaxRetries)
    PROVE  now' \in Nat /\ Pending' \in Nat /\ now' + Pending' <= now + Pending
<1> DEFINE c == (Calls[Agent] - made) * WorstCall
           n == Len(log)
<1>1. turn = "asking" /\ Len(log') = n
  BY RequestEnds DEF Request
<1>2. /\ now \in Nat /\ c \in Nat /\ n - 1 \in 0..MaxRetries /\ n \in 1..(MaxRetries + 1)
      /\ MaxRetries \in Nat /\ Timeout \in Nat
  BY <1>1, PendingFacts, ModelAssumption
<1>3. now' \in Nat /\ now' <= now + Timeout
  BY <1>2 DEF Request
<1>4. Pending = c + RestOfCall(n - 1)
  BY <1>1 DEF Pending
<1>5. RestOfCall(n - 1) \in Nat /\ RestOfCall(n - 1) >= Timeout
  BY <1>2, RestFacts
<1>6. CASE turn' = "idle"
  <2>1. Pending' = c
    BY <1>6 DEF Pending, Agent
  <2> HIDE DEF c, n
  <2> QED
    BY <1>2, <1>3, <1>4, <1>5, <2>1
<1>7. CASE turn' = "sleeping" /\ n <= MaxRetries
  <2>1. Pending' = c + RestOfCall(n) + Backoff(n)
    BY <1>1, <1>7 DEF Pending, Agent
  <2>2. n \in 1..MaxRetries /\ n \in 0..MaxRetries
    BY <1>2, <1>7
  <2>3. RestOfCall(n - 1) = RestOfCall(n) + Backoff(n) + Timeout /\ RestOfCall(n) \in Nat
    BY <2>2, RestFacts
  <2>4. Backoff(n) \in Nat
    BY <1>2, BackoffType
  <2> HIDE DEF c, n
  <2> QED
    BY <1>2, <1>3, <1>4, <2>1, <2>3, <2>4
<1> QED
  BY <1>6, <1>7

LEMMA WakeTakes ==
    ASSUME CallInv, RunInv, Wake
    PROVE  now' \in Nat /\ Pending' \in Nat /\ now' + Pending' <= now + Pending
<1> DEFINE c == (Calls[Agent] - made) * WorstCall
           n == Len(log)
<1>1. /\ turn = "sleeping" /\ turn' = "asking" /\ now' = now + Delay
      /\ made' = made /\ agents' = agents
      /\ log' = Append(log, [at |-> now', end |-> "asked"])
  BY DEF Wake, runVars
<1>2. /\ now \in Nat /\ c \in Nat /\ n \in 1..MaxRetries /\ MaxRetries \in Nat
      /\ log \in Seq(Attempts)
  BY <1>1, PendingFacts, ModelAssumption DEF CallInv, CallTypes
<1>3. n \in 0..MaxRetries /\ n \in 1..(MaxRetries + 1) /\ n <= MaxRetries /\ log # <<>>
  BY <1>2
<1>4. Delay = Backoff(n) /\ Backoff(n) \in Nat /\ RestOfCall(n) \in Nat
  BY <1>3, DelayIsBackoff, BackoffType, RestFacts DEF CallInv
<1>5. Len(log') - 1 = n
  BY <1>1, <1>2
<1>6. Pending = c + RestOfCall(n) + Backoff(n)
  BY <1>1 DEF Pending
<1>7. Pending' = c + RestOfCall(Len(log') - 1)
  BY <1>1 DEF Pending, Agent
<1>8. Pending' = c + RestOfCall(n)
  BY <1>5, <1>7
<1> HIDE DEF c, n
<1> QED
  BY <1>1, <1>2, <1>4, <1>6, <1>8

LEMMA Earlier ==
    /\ \A a, b, c \in Int : a <= b /\ b < c => a < c
    /\ \A a, b, c \in Int : a < b /\ b <= c => a < c
    /\ \A a, b \in Nat : a + b \in Int /\ a <= a + b /\ a + 0 = a
    /\ \A a, b, c, d, e \in Nat : a < b + c /\ c + d <= e => a + d < b + e
OBVIOUS

LEMMA TimeInvStep == ASSUME CallInv, RunInv, TimeInv, [Next]_vars PROVE TimeInv'
<1>1. /\ now \in Nat /\ Pending \in Nat /\ PaidInAll \in Nat /\ MaxWallTime \in Nat
      /\ now + Pending < MaxWallTime + PaidInAll
  BY PendingFacts, PaidInAllFacts, ModelAssumption DEF TimeInv
<1>2. ASSUME /\ now' \in Nat /\ Pending' \in Nat /\ now' + Pending' <= now + Pending,
             UNCHANGED <<stretch, rounds>>
      PROVE  TimeInv'
  <2>1. PaidInAll' = PaidInAll
    BY <1>2, PaidStays
  <2>2. now' + Pending' \in Int /\ now + Pending \in Int /\ MaxWallTime + PaidInAll \in Int
    BY <1>1, <1>2
  <2>3. now' + Pending' < MaxWallTime + PaidInAll
    BY <1>1, <1>2, <2>2, Earlier
  <2> QED
    BY <2>1, <2>3 DEF TimeInv
<1>3. ASSUME now' = now, turn' \in {"new", "out"}, UNCHANGED <<stretch, rounds>> PROVE TimeInv'
  <2>1. Pending' = 0
    BY <1>3 DEF Pending
  <2> QED
    BY <1>1, <1>2, <1>3, <2>1
<1>4. ASSUME RunInv', now' = now, now < MaxWallTime, turn' \in {"new", "out"} PROVE TimeInv'
  <2>1. Pending' = 0
    BY <1>4 DEF Pending
  <2>2. PaidInAll' \in Nat
    BY <1>4, PaidInAllNext
  <2>3. now' + Pending' = now /\ MaxWallTime + PaidInAll' \in Int
        /\ MaxWallTime <= MaxWallTime + PaidInAll'
    BY <1>1, <1>4, <2>1, <2>2, Earlier
  <2>4. now' + Pending' < MaxWallTime + PaidInAll'
    BY <1>1, <1>4, <2>3, Earlier
  <2> QED
    BY <2>4 DEF TimeInv
<1>5. CASE Boundary
  <2>1. RunInv' /\ now' = now /\ rounds' = rounds
    BY <1>5, BoundaryRuns DEF Boundary, timeVars
  <2>2. CASE Due \/ agents = <<>>
    <3>1. UNCHANGED <<turn, stretch>> /\ turn = "new"
      BY <1>5, <2>2 DEF Boundary, RunInv
    <3> QED
      BY <1>3, <2>1, <3>1
  <2>3. CASE ~(Due \/ agents = <<>>)
    <3>1. turn' = "new" /\ now < MaxWallTime
      BY <1>1, <1>5, <2>3 DEF Boundary, Due
    <3> QED
      BY <1>4, <2>1, <3>1
  <2> QED
    BY <2>2, <2>3
<1>6. CASE Iterate
  <2>1. RunInv' /\ now' = now /\ rounds' = rounds
    BY <1>6, IterateRuns DEF Iterate, timeVars
  <2>2. CASE stage' = "done" /\ UNCHANGED <<agents, left, turn, stretch>>
    <3>1. turn' = "new"
      BY <1>6, <2>2 DEF Iterate, RunInv
    <3> QED
      BY <1>3, <2>1, <2>2, <3>1
  <2>3. CASE ~Due /\ turn' = "new"
    BY <1>1, <1>4, <2>1, <2>3 DEF Due
  <2> QED
    BY <1>6, <2>2, <2>3 DEF Iterate
<1>7. CASE InvocationEnds \/ RoundEnds
  BY <1>3, <1>7 DEF InvocationEnds, RoundEnds, timeVars, runVars
<1>8. CASE StartRound
  <2> DEFINE cost == RoundCost(Agent)
  <2>1. PaidInAll' \in Nat /\ cost \in Nat /\ PaidInAll + cost <= PaidInAll'
    BY <1>8, StartPays
  <2>2. turn \in {"new", "out"} /\ turn' = "idle" /\ made' = 0 /\ now' = now /\ agents' = agents
    BY <1>8 DEF StartRound, timeVars, runVars
  <2>3. Pending = 0
    BY <2>2 DEF Pending
  <2>4. Pending' = (Calls[Agent] - 0) * WorstCall
    BY <2>2 DEF Pending, Agent
  <2>5. Calls[Agent] \in Nat
    <3>1. agents # <<>>
      BY <1>8 DEF StartRound, RunInv
    <3> QED
      BY <3>1, HeadFacts, PipelineFacts
  <2>6. Pending' = cost
    BY <2>4, <2>5 DEF RoundCost
  <2> HIDE DEF cost
  <2>7. now < MaxWallTime + PaidInAll
    BY <1>1, <2>3
  <2>8. now + cost < MaxWallTime + PaidInAll'
    BY <1>1, <2>1, <2>7, Earlier
  <2> QED
    BY <2>2, <2>6, <2>8 DEF TimeInv
<1>9. CASE Ask \/ Transient \/ Permanent \/ Wake \/ Succeeds
  <2>1. UNCHANGED <<stretch, rounds, agents>>
    BY <1>9 DEF Ask, Transient, Permanent, Wake, Succeeds, runVars
  <2>2. now' \in Nat /\ Pending' \in Nat /\ now' + Pending' <= now + Pending
    <3>1. CASE Ask
      BY <3>1, AskTakes
    <3>2. CASE Transient
      <4>1. Request("transient") /\ "transient" \in Ends /\ made' = made
        BY <3>2 DEF Transient, Ends
      <4>2. turn' = "idle" \/ (turn' = "sleeping" /\ Len(log) <= MaxRetries)
        <5>1. Len(log) - 1 \in 0..MaxRetries /\ MaxRetries \in Nat
          BY <4>1, PendingFacts, ModelAssumption DEF Request
        <5> QED
          BY <3>2, <5>1 DEF Transient, Exhausted, Attempt
      <4> QED
        BY <2>1, <4>1, <4>2, RequestTakes
    <3>3. CASE Permanent
      BY <2>1, <3>3, RequestTakes DEF Permanent, Ends
    <3>4. CASE Succeeds
      BY <2>1, <3>4, RequestTakes DEF Succeeds, Ends
    <3>5. CASE Wake
      BY <3>5, WakeTakes
    <3> QED
      BY <1>9, <3>1, <3>2, <3>3, <3>4, <3>5
  <2> QED
    BY <1>2, <2>1, <2>2
<1>10. CASE UNCHANGED vars
  <2>1. now' = now /\ UNCHANGED <<stretch, rounds>> /\ Pending' = Pending
    BY <1>10 DEF vars, timeVars, runVars, Pending, Agent
  <2> QED
    BY <1>1, <1>2, <2>1
<1> QED
  BY <1>5, <1>6, <1>7, <1>8, <1>9, <1>10 DEF Next

\* Whatever the provider does and whichever agents a rework route runs: a run outlasts
\* its deadline by less than the calls of the rounds granted when the clock was last
\* looked at can take, retries and backoffs included.
THEOREM OvershootIsBounded == Spec => []OvershootBounded
<1>1. Init => TimeInv
  <2> SUFFICES ASSUME Init PROVE TimeInv
    OBVIOUS
  <2>1. RunInv /\ now = 0 /\ Pending = 0
    BY PipelineFacts, ModelAssumption DEF Init, RunInv, NoStretch, Granted, Pending
  <2>2. PaidInAll \in Nat /\ MaxWallTime \in Nat \ {0}
    BY <2>1, PaidInAllFacts, ModelAssumption
  <2> QED
    BY <2>1, <2>2 DEF TimeInv
<1>2. ASSUME CallInv, RunInv, TimeInv PROVE OvershootBounded
  <2>1. now \in Nat /\ Pending \in Nat /\ PaidInAll \in Nat /\ MaxWallTime \in Nat
    BY <1>2, PendingFacts, PaidInAllFacts, ModelAssumption
  <2> DEFINE worst == SumTo([k \in DOMAIN Pipeline |-> Worst(Pipeline[k])], Len(Pipeline))
  <2>2. PaidInAll <= worst /\ worst \in Nat
    BY <1>2, PaidInAllFacts
  <2>3. now < MaxWallTime + worst
    <3> HIDE DEF worst
    <3> QED
      BY <1>2, <2>1, <2>2 DEF TimeInv
  <2> QED
    BY <2>3 DEF OvershootBounded
<1> QED
  BY <1>1, <1>2, TimeInvStep, CallInvAlways, RunInvAlways, PTL DEF Spec

-----------------------------------------------------------------------------
(* What the conversation of an agent holds *)

Messages == [role : {"user", "assistant"}, exchange : Nat]

\* The last exchanges of n, as many as the window has room for.
Shows(h, n, w) ==
    /\ Len(h) = 2 * w
    /\ \A i \in 1..w : /\ h[2 * i - 1] = Exchange(n - w + i)[1]
                       /\ h[2 * i] = Exchange(n - w + i)[2]

Recent(h, n) == Shows(h, n, Min({n, MaxTurns}))

HistInv ==
    /\ told \in [Agents -> Nat] /\ history \in [Agents -> Seq(Messages)]
    /\ \A a \in Agents : Recent(history[a], told[a])

LEMMA ExchangeFacts ==
    \A n \in Nat : Exchange(n) \in Seq(Messages) /\ Len(Exchange(n)) = 2
BY DEF Exchange, Messages

LEMMA Joined ==
    ASSUME NEW M, NEW s \in Seq(M), NEW two \in Seq(M), Len(two) = 2
    PROVE  /\ s \o two \in Seq(M) /\ Len(s \o two) = Len(s) + 2 /\ Len(s) \in Nat
           /\ \A i \in 1..Len(s) : (s \o two)[i] = s[i]
           /\ (s \o two)[Len(s) + 1] = two[1] /\ (s \o two)[Len(s) + 2] = two[2]
<1>1. /\ s \o two \in Seq(M) /\ Len(s \o two) = Len(s) + Len(two) /\ Len(s) \in Nat
      /\ \A i \in 1..(Len(s) + Len(two)) :
             (s \o two)[i] = IF i <= Len(s) THEN s[i] ELSE two[i - Len(s)]
  <2>1. Len(s) \in Nat
    OBVIOUS
  <2> QED
    BY <2>1, ConcatProperties, Zenon
<1>2. /\ Len(s) + 1 \in 1..(Len(s) + Len(two)) /\ Len(s) + 2 \in 1..(Len(s) + Len(two))
      /\ ~(Len(s) + 1 <= Len(s)) /\ ~(Len(s) + 2 <= Len(s))
      /\ Len(s) + 1 - Len(s) = 1 /\ Len(s) + 2 - Len(s) = 2
      /\ \A i \in 1..Len(s) : i \in 1..(Len(s) + Len(two)) /\ i <= Len(s)
  BY <1>1
<1> QED
  BY <1>1, <1>2

\* One exchange more: the window is not full yet, or its oldest exchange is cut off.
LEMMA OneMore ==
    ASSUME NEW h \in Seq(Messages), NEW n \in Nat, Recent(h, n)
    PROVE  /\ Truncated(h \o Exchange(n + 1)) \in Seq(Messages)
           /\ Recent(Truncated(h \o Exchange(n + 1)), n + 1)
<1> DEFINE e == Exchange(n + 1)
           g == h \o e
<1>1. MaxTurns \in Nat /\ MaxTurns # 0
  BY ModelAssumption
<1>2. e \in Seq(Messages) /\ Len(e) = 2
  BY ExchangeFacts
<1> HIDE DEF e
<1>3. /\ g \in Seq(Messages) /\ Len(g) = Len(h) + 2 /\ Len(h) \in Nat
      /\ \A i \in 1..Len(h) : g[i] = h[i]
      /\ g[Len(h) + 1] = e[1] /\ g[Len(h) + 2] = e[2]
  BY <1>2, Joined
<1> HIDE DEF g
<1>4. CASE n < MaxTurns
  <2>1. Min({n, MaxTurns}) = n /\ Min({n + 1, MaxTurns}) = n + 1
    <3>1. /\ Min({n, MaxTurns}) \in {n, MaxTurns} /\ Min({n, MaxTurns}) <= n
          /\ Min({n + 1, MaxTurns}) \in {n + 1, MaxTurns}
          /\ Min({n + 1, MaxTurns}) <= n + 1 /\ Min({n + 1, MaxTurns}) <= MaxTurns
      BY <1>1, MinOfTwo
    <3> QED
      BY <1>1, <1>4, <3>1
  <2>2. /\ Len(h) = 2 * n
        /\ \A i \in 1..n : /\ h[2 * i - 1] = Exchange(i)[1]
                           /\ h[2 * i] = Exchange(i)[2]
    <3>1. \A i \in 1..n : n - n + i = i
      OBVIOUS
    <3> QED
      BY <2>1, <3>1 DEF Recent, Shows
  <2>3. Truncated(g) = g
    BY <1>1, <1>3, <1>4, <2>2 DEF Truncated
  <2>4. ASSUME NEW i \in 1..(n + 1)
        PROVE  g[2 * i - 1] = Exchange(i)[1] /\ g[2 * i] = Exchange(i)[2]
    <3>1. CASE i = n + 1
      <4>1. 2 * i - 1 = Len(h) + 1 /\ 2 * i = Len(h) + 2
        BY <2>2, <3>1
      <4> QED
        BY <1>3, <3>1, <4>1 DEF e
    <3>2. CASE i # n + 1
      <4>1. i \in 1..n /\ 2 * i - 1 \in 1..Len(h) /\ 2 * i \in 1..Len(h)
        BY <2>2, <3>2
      <4> QED
        BY <1>3, <2>2, <4>1
    <3> QED
      BY <3>1, <3>2
  <2>5. Recent(g, n + 1)
    <3>1. \A i \in 1..(n + 1) : (n + 1) - (n + 1) + i = i
      OBVIOUS
    <3>2. Len(g) = 2 * (n + 1)
      BY <1>3, <2>2
    <3>3. Shows(g, n + 1, n + 1)
      BY <2>4, <3>1, <3>2 DEF Shows
    <3> QED
      BY <2>1, <3>3 DEF Recent
  <2> QED
    BY <1>3, <2>3, <2>5 DEF g, e
<1>5. CASE n >= MaxTurns
  <2> DEFINE t == MaxTurns
             cut == Truncated(g)
  <2>1. Min({n, t}) = t /\ Min({n + 1, t}) = t
    <3>1. /\ Min({n, t}) \in {n, t} /\ Min({n, t}) <= t
          /\ Min({n + 1, t}) \in {n + 1, t} /\ Min({n + 1, t}) <= t
      BY <1>1, MinOfTwo
    <3> QED
      BY <1>1, <1>5, <3>1
  <2>2. /\ Len(h) = 2 * t
        /\ \A i \in 1..t : /\ h[2 * i - 1] = Exchange(n - t + i)[1]
                           /\ h[2 * i] = Exchange(n - t + i)[2]
    BY <2>1 DEF Recent, Shows
  <2>3. cut = SubSeq(g, 3, 2 * t + 2)
    <3>1. Len(g) = 2 * t + 2 /\ Len(g) > 2 * t /\ Len(g) - 2 * t + 1 = 3
      BY <1>1, <1>3, <2>2
    <3> QED
      BY <3>1 DEF Truncated
  <2>4. /\ cut \in Seq(Messages) /\ Len(cut) = 2 * t
        /\ \A i \in 1..(2 * t) : cut[i] = g[i + 2]
    <3> DEFINE l == 2 * t + 2
    <3>1. l \in Nat /\ l = Len(g) /\ 3 <= l /\ l - 3 + 1 = 2 * t
      BY <1>1, <1>3, <2>2
    <3>2. cut = SubSeq(g, 3, l)
      BY <2>3
    <3> HIDE DEF cut, l
    <3>3. /\ SubSeq(g, 3, l) \in Seq(Messages) /\ Len(SubSeq(g, 3, l)) = l - 3 + 1
          /\ \A i \in 1..(l - 3 + 1) : SubSeq(g, 3, l)[i] = g[i + 2]
      BY <1>3, <3>1
    <3> QED
      BY <3>1, <3>2, <3>3
  <2> HIDE DEF cut
  <2>5. ASSUME NEW i \in 1..t
        PROVE  /\ cut[2 * i - 1] = Exchange((n + 1) - t + i)[1]
               /\ cut[2 * i] = Exchange((n + 1) - t + i)[2]
    <3>1. 2 * i - 1 \in 1..(2 * t) /\ 2 * i \in 1..(2 * t)
      BY <1>1
    <3>2. cut[2 * i - 1] = g[2 * i - 1 + 2] /\ cut[2 * i] = g[2 * i + 2]
      BY <2>4, <3>1
    <3>3. CASE i = t
      <4>1. /\ 2 * i - 1 + 2 = Len(h) + 1 /\ 2 * i + 2 = Len(h) + 2
            /\ (n + 1) - t + i = n + 1
        BY <1>1, <2>2, <3>3
      <4> QED
        BY <1>3, <3>2, <4>1 DEF e
    <3>4. CASE i # t
      <4>1. /\ i + 1 \in 1..t /\ 2 * i - 1 + 2 = 2 * (i + 1) - 1 /\ 2 * i + 2 = 2 * (i + 1)
            /\ 2 * (i + 1) - 1 \in 1..Len(h) /\ 2 * (i + 1) \in 1..Len(h)
            /\ (n + 1) - t + i = n - t + (i + 1)
        BY <1>1, <2>2, <3>4
      <4>2. /\ g[2 * (i + 1) - 1] = h[2 * (i + 1) - 1] /\ g[2 * (i + 1)] = h[2 * (i + 1)]
            /\ h[2 * (i + 1) - 1] = Exchange(n - t + (i + 1))[1]
            /\ h[2 * (i + 1)] = Exchange(n - t + (i + 1))[2]
        BY <1>3, <2>2, <4>1
      <4> QED
        BY <3>2, <4>1, <4>2
    <3> QED
      BY <3>3, <3>4
  <2>6. Recent(cut, n + 1)
    <3>1. Len(cut) = 2 * t
      BY <2>4
    <3>2. \A i \in 1..t : /\ cut[2 * i - 1] = Exchange((n + 1) - t + i)[1]
                          /\ cut[2 * i] = Exchange((n + 1) - t + i)[2]
      BY <2>5
    <3>3. Shows(cut, n + 1, t)
      BY <3>1, <3>2 DEF Shows
    <3> QED
      BY <2>1, <3>3 DEF Recent
  <2> QED
    BY <2>4, <2>6 DEF cut, g, e
<1> QED
  BY <1>1, <1>4, <1>5

LEMMA HistInvStep == ASSUME RunInv, HistInv, [Next]_vars PROVE HistInv'
<1>1. CASE UNCHANGED talkVars
  BY <1>1 DEF HistInv, talkVars, Recent, Shows, Exchange
<1>2. CASE Succeeds /\ AppendExchange(Agent)
  <2> DEFINE n == told[Agent]
             longer == Truncated(history[Agent] \o Exchange(n + 1))
  <2>1. Agent \in Agents
    BY <1>2, InRound DEF Succeeds, Request
  <2>2. /\ told' = [told EXCEPT ![Agent] = n + 1]
        /\ history' = [history EXCEPT ![Agent] = longer]
        /\ told \in [Agents -> Nat] /\ history \in [Agents -> Seq(Messages)]
    BY <1>2 DEF AppendExchange, HistInv
  <2>3. longer \in Seq(Messages) /\ Recent(longer, n + 1) /\ n \in Nat
    BY <2>1, <2>2, OneMore DEF HistInv
  <2> HIDE DEF n, longer, Agents, Agent
  <2>4. told' \in [Agents -> Nat] /\ history' \in [Agents -> Seq(Messages)]
    BY <2>1, <2>2, <2>3
  <2>5. \A a \in Agents : Recent(history'[a], told'[a])
    <3> SUFFICES ASSUME NEW a \in Agents PROVE Recent(history'[a], told'[a])
      OBVIOUS
    <3>1. CASE a = Agent
      <4>1. told'[a] = n + 1 /\ history'[a] = longer
        BY <2>1, <2>2, <3>1
      <4> QED
        BY <2>3, <4>1
    <3>2. CASE a # Agent
      <4>1. told'[a] = told[a] /\ history'[a] = history[a]
        BY <2>2, <3>2
      <4> QED
        BY <4>1 DEF HistInv
    <3> QED
      BY <3>1, <3>2
  <2> QED
    BY <2>4, <2>5 DEF HistInv, Recent, Shows, Exchange
<1>3. UNCHANGED talkVars \/ (Succeeds /\ AppendExchange(Agent))
  BY DEF Next, Boundary, Iterate, InvocationEnds, StartRound, RoundEnds, Ask, Transient,
         Permanent, Wake, Succeeds, vars, talkVars
<1> QED
  BY <1>1, <1>2, <1>3

LEMMA HistInvAlways == Spec => []HistInv
<1>1. Init => HistInv
  <2> SUFFICES ASSUME Init PROVE HistInv
    OBVIOUS
  <2>1. told = [a \in Agents |-> 0] /\ history = [a \in Agents |-> <<>>]
    BY DEF Init
  <2>2. Min({0, MaxTurns}) = 0
    <3>1. /\ Min({0, MaxTurns}) <= 0 /\ Min({0, MaxTurns}) \in Nat
      BY ModelAssumption, MinOfTwo
    <3> QED
      BY <3>1
  <2>3. Recent(<<>>, 0)
    <3>1. Shows(<<>>, 0, 0)
      BY DEF Shows
    <3> QED
      BY <2>2, <3>1 DEF Recent
  <2> QED
    BY <2>1, <2>3 DEF HistInv
<1> QED
  BY <1>1, HistInvStep, RunInvAlways, PTL DEF Spec

\* Whatever failed, was retried, could not be used or was reworked in between: the
\* conversation an agent's next request repeats is its last exchanges, whole and in order.
THEOREM HistoryDoesAlternate == Spec => []HistoryAlternates
<1>1. HistInv => HistoryAlternates
  BY DEF HistInv, Recent, Shows, HistoryAlternates, Window
<1> QED
  BY <1>1, HistInvAlways, PTL

\* The types, with the budgets that bound rounds, calls and the conversation.
THEOREM TypeCorrect == Spec => []TypeOK
<1>1. ASSUME CallInv, RunInv, HistInv PROVE TypeOK
  <2>1. now \in Nat /\ log \in Seq(Attempts) /\ made \in Nat
    BY <1>1 DEF CallInv, CallTypes
  <2>2. agents \in UNION {[1..n -> Agents] : n \in 0..Len(Pipeline)}
    <3>1. agents \in [1..Len(agents) -> Agents] /\ Len(agents) \in 0..Len(Pipeline)
      <4>1. agents \in Seq(Agents) /\ Len(agents) <= Len(Pipeline) /\ Len(Pipeline) \in Nat
        BY <1>1, PipelineFacts DEF RunInv
      <4> HIDE DEF Agents
      <4> QED
        BY <4>1
    <3> QED
      BY <3>1
  <2>3. \A a \in Agents : rounds[a] \in 0..MaxRounds[a] /\ stretch[a] \in 0..MaxRounds[a]
    <3> SUFFICES ASSUME NEW a \in Agents
                 PROVE  rounds[a] \in 0..MaxRounds[a] /\ stretch[a] \in 0..MaxRounds[a]
      OBVIOUS
    <3>1. /\ rounds[a] \in Nat /\ rounds[a] <= MaxRounds[a] /\ MaxRounds[a] \in Nat
          /\ stretch[a] \in Nat /\ stretch[a] <= MaxRounds[a]
      BY <1>1, PipelineFacts DEF RunInv
    <3> QED
      BY <3>1
  <2>4. turn \in {"idle", "asking", "sleeping"} => agents # <<>> /\ made \in 0..Calls[Agent]
    <3> SUFFICES ASSUME turn \in {"idle", "asking", "sleeping"}
                 PROVE  agents # <<>> /\ made \in 0..Calls[Agent]
      OBVIOUS
    <3>1. agents # <<>> /\ made <= Calls[Agent] /\ Calls[Agent] \in Nat
      BY <1>1, InRound, PipelineFacts DEF RunInv
    <3> QED
      BY <2>1, <3>1
  <2>5. \A i \in DOMAIN log : log[i].at \in Nat /\ log[i].end \in Ends
    <3> SUFFICES ASSUME NEW i \in DOMAIN log PROVE log[i].at \in Nat /\ log[i].end \in Ends
      OBVIOUS
    <3>1. log[i] \in Attempts
      BY <2>1
    <3> QED
      BY <3>1 DEF Attempts
  <2>6. \A a \in Agents : Len(history[a]) <= 2 * MaxTurns /\ told[a] \in Nat
    <3> SUFFICES ASSUME NEW a \in Agents
                 PROVE  Len(history[a]) <= 2 * MaxTurns /\ told[a] \in Nat
      OBVIOUS
    <3>1. told[a] \in Nat /\ Len(history[a]) = 2 * Min({told[a], MaxTurns})
      BY <1>1 DEF HistInv, Recent, Shows
    <3>2. Min({told[a], MaxTurns}) \in Nat /\ Min({told[a], MaxTurns}) <= MaxTurns
      BY <3>1, MinOfTwo, ModelAssumption
    <3> QED
      BY <3>1, <3>2, ModelAssumption
  <2> QED
    BY <1>1, <2>1, <2>2, <2>3, <2>4, <2>5, <2>6 DEF RunInv, TypeOK
<1> QED
  BY <1>1, CallInvAlways, RunInvAlways, HistInvAlways, PTL
=============================================================================
