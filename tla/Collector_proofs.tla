-------------------------- MODULE Collector_proofs --------------------------
(***************************************************************************)
(* What the rounds of the collector keep, for any entities, queries, urls, *)
(* answers of the tools, choices of the model, budgets and limits: no page *)
(* is saved twice, no selected url is lost, the collection never starts    *)
(* over, gaps are filled first and reported.                               *)
(***************************************************************************)
EXTENDS Collector, NaturalSets, FiniteSetTheorems, SequenceTheorems, TLAPS

Slot  == [entity : Entities, dimension : Terms, rival : Entities \cup {None}]
Place == [url : Urls, entity : Entities \cup {None}]
Page  == [url : Urls, outcome : Outcomes, entity : Entities \cup {None}]
Saved == [url : Urls \cup {Placeholder}, entity : Entities \cup {None}]

IsAgent(ag) ==
    ag \in [searched : BOOLEAN, queried : SUBSET (Urls \cup {Placeholder}),
            pending : Seq(Place), attempted : SUBSET Slot, baseline : SUBSET Slot]
IsMemory(m) ==
    /\ m \in [kind : {"none", "search", "fetch"}, hits : SUBSET Place, ok : BOOLEAN,
              pages : Seq(Page)]
    /\ IsFiniteSet(m.hits)
CountTypes ==
    /\ round \in 0..MaxRounds /\ invocations \in 1..MaxInvocations
    /\ sigCounts \in [Signatures -> Nat] /\ retryCounts \in [{"error", "stall"} -> Nat]
Signals == {"none", "sources_ready", "sources_saved", "coverage_partial", "search_exhausted",
            "no_new_sources"}
Types ==
    /\ IsAgent(agent) /\ IsMemory(memory) /\ CountTypes
    /\ sources \in Seq(Saved) /\ target \in Nat /\ plan \in Entities \cup {None}
    /\ signal \in Signals
    /\ answer \in {"none", "stop", "abort", "retry"} /\ chosen \subseteq Urls

\* A collector that has searched has results to go on, slots to attempt, and attempted
\* all of them; one that has not has chosen nothing.
Begun ==
    IF agent.searched
    THEN memory.kind # "none" /\ agent.baseline # {} /\ agent.baseline \subseteq agent.attempted
    ELSE memory.kind = "none" /\ chosen = {}

\* A url it selected it has asked for or will ask for.
Kept ==
    /\ chosen \subseteq agent.queried \cup UrlsOf(agent.pending)
    /\ memory.kind = "search" => chosen \subseteq agent.queried
    /\ memory.hits # {} => memory.kind = "search"

Open == round < MaxRounds /\ Len(sources) < target /\ Begun /\ Kept

CollInv == Types /\ OneSourcePerPage /\ PartialSignalled /\ (answer = "none" => Open)

-----------------------------------------------------------------------------
(* Sequences that are put together, and sequences that are filtered *)

LEMMA FlattenedRange ==
    ASSUME NEW S, NEW m \in Nat, NEW ss \in [1..m -> Seq(S)]
    PROVE  /\ FlattenSeq(ss) \in Seq(S)
           /\ Range(FlattenSeq(ss)) = UNION {Range(ss[k]) : k \in 1..m}
<1>1. ss \in Seq(Seq(S)) /\ Len(ss) = m
  BY IsASeq
<1>2. CASE m = 0
  <2>1. ss = <<>>
    BY <1>1, <1>2, EmptySeq
  <2>2. FlattenSeq(ss) = <<>>
    BY <1>1, <1>2, <2>1 DEF FlattenSeq
  <2> QED
    BY <1>2, <2>2 DEF Range
<1>3. CASE m # 0
  <2> DEFINE T == [i \in 0..m |-> {s \in Seq(S) : Range(s) = UNION {Range(ss[k]) : k \in 1..i}}]
             step == [i \in 1..m |-> [s \in Seq(S) |-> s \o ss[i]]]
             Flat(f) == f = [i \in 1..m |-> IF i = 1 THEN ss[i] ELSE f[i - 1] \o ss[i]]
             F == CHOOSE f : Flat(f)
  <2>1. ASSUME NEW i \in 1..m, NEW s \in T[i - 1] PROVE s \o ss[i] \in T[i]
    <3>1. i - 1 \in 0..m /\ i \in 0..m /\ ss[i] \in Seq(S)
      OBVIOUS
    <3>2. s \in Seq(S) /\ Range(s) = UNION {Range(ss[k]) : k \in 1..(i - 1)}
      BY <2>1, <3>1
    <3>3. s \o ss[i] \in Seq(S) /\ Range(s \o ss[i]) = Range(s) \cup Range(ss[i])
      BY <3>1, <3>2, RangeConcatenation, ConcatProperties
    <3>4. 1..i = 1..(i - 1) \cup {i}
      OBVIOUS
    <3> QED
      BY <3>1, <3>2, <3>3, <3>4
  <2>2. \E f : Flat(f)
    <3>1. PICK g : Iterated(m, <<>>, step, g)
      BY IterationExists
    <3>2. g[0] \in T[0] /\ g[0] = <<>>
      <4>1. g[0] = <<>>
        BY <3>1, IterationSteps
      <4>2. <<>> \in Seq(S) /\ Range(<<>>) = {}
        BY DEF Range
      <4> QED
        BY <4>1, <4>2
    <3>3. ASSUME NEW i \in 1..m, g[i - 1] \in T[i - 1] 
          PROVE  g[i] \in T[i] /\ g[i] = g[i - 1] \o ss[i]
      <4>1. g[i] = step[i][g[i - 1]] /\ i - 1 \in 0..m
        <5> HIDE DEF step
        <5> QED
          BY <3>1, IterationSteps
      <4>2. g[i - 1] \in Seq(S)
        BY <3>3, <4>1
      <4>3. g[i] = g[i - 1] \o ss[i]
        BY <4>1, <4>2
      <4> QED
        BY <2>1, <3>3, <4>3
    <3>4. \A i \in 0..m : g[i] \in T[i]
      <4> HIDE DEF T
      <4> QED
        BY <3>2, <3>3, Inductively
    <3>5. \A i \in 1..m : g[i] = g[i - 1] \o ss[i]
      <4>1. \A i \in 1..m : i - 1 \in 0..m
        OBVIOUS
      <4> QED
        BY <3>3, <3>4, <4>1
    <3> DEFINE h == [i \in 1..m |-> g[i]]
    <3>6. \A i \in 1..m : h[i] = IF i = 1 THEN ss[i] ELSE h[i - 1] \o ss[i]
      <4>1. ss[1] \in Seq(S) /\ 1 \in 1..m
        BY <1>3
      <4>2. g[1] = ss[1]
        <5>1. g[1] = g[0] \o ss[1]
          BY <3>5, <4>1
        <5> HIDE DEF step, T
        <5> QED
          BY <3>2, <4>1, <5>1, ConcatEmptySeq
      <4>3. \A i \in 1..m : i # 1 => i - 1 \in 1..m
        OBVIOUS
      <4> QED
        BY <3>5, <4>2, <4>3
    <3> HIDE DEF T, step
    <3> WITNESS h
    <3>7. h = [i \in 1..m |-> h[i]]
      OBVIOUS
    <3> HIDE DEF h
    <3> QED
      BY <3>6, <3>7, Zenon
  <2>3. Flat(F)
    <3> HIDE DEF Flat
    <3> QED
      BY <2>2
  <2>4. FlattenSeq(ss) = F[m]
    BY <1>1, <1>3 DEF FlattenSeq
  <2> DEFINE G == [i \in 0..m |-> IF i = 0 THEN <<>> ELSE F[i]]
  <2>5. G[0] \in T[0]
    BY DEF Range
  <2>6. ASSUME NEW i \in 1..m, G[i - 1] \in T[i - 1] PROVE G[i] \in T[i]
    <3>1. G[i] = F[i] /\ F[i] = IF i = 1 THEN ss[i] ELSE F[i - 1] \o ss[i]
      <4> HIDE DEF F
      <4>1. F[i] = IF i = 1 THEN ss[i] ELSE F[i - 1] \o ss[i]
        BY <2>3
      <4>2. G[i] = F[i]
        OBVIOUS
      <4> QED
        BY <4>1, <4>2
    <3>2. G[i - 1] = IF i = 1 THEN <<>> ELSE F[i - 1]
      OBVIOUS
    <3>3. ss[i] \in Seq(S)
      OBVIOUS
    <3>4. G[i] = G[i - 1] \o ss[i]
      BY <3>1, <3>2, <3>3, ConcatEmptySeq
    <3> QED
      BY <2>1, <2>6, <3>4
  <2>7. \A i \in 0..m : G[i] \in T[i]
    <3> HIDE DEF T, G
    <3> QED
      BY <2>5, <2>6, Inductively
  <2>8. G[m] = F[m] /\ m \in 0..m
    BY <1>3
  <2>9. F[m] \in T[m]
    BY <2>7, <2>8
  <2> HIDE DEF F
  <2> QED
    BY <2>4, <2>8, <2>9
<1> QED
  BY <1>2, <1>3

LEMMA SetAsSequence ==
    ASSUME NEW S, IsFiniteSet(S)
    PROVE  SetToSeq(S) \in Seq(S)
<1> DEFINE n == Cardinality(S)
<1>1. n \in Nat /\ ExistsBijection(1..n, S)
  BY FS_CardinalityType
<1>2. \E f \in [1..n -> S] : IsInjective(f)
  BY <1>1 DEF ExistsBijection, Bijection, Injection, IsInjective
<1>3. SetToSeq(S) \in [1..n -> S]
  BY <1>2 DEF SetToSeq
<1> QED
  BY <1>1, <1>3

\* What is left of urls without those that were asked for, in their order.
LEMMA UnqueriedKeeps ==
    ASSUME NEW S, NEW urls \in Seq(S), NEW ag
    PROVE  /\ Unqueried(ag, urls) \in Seq(S)
           /\ Range(Unqueried(ag, urls)) = {u \in Range(urls) : u.url \notin ag.queried}
<1> DEFINE n == Len(urls)
           Old(i) == urls[i].url \in ag.queried
           T == [i \in 0..n |->
                    {s \in Seq(S) : Range(s) = {urls[k] : k \in {k \in 1..i : ~Old(k)}}}]
           step == [i \in 1..n |-> [s \in Seq(S) |-> IF Old(i) THEN s ELSE Append(s, urls[i])]]
           New(f) == f = [i \in 0..n |-> IF i = 0 THEN <<>>
                                         ELSE IF urls[i].url \in ag.queried THEN f[i - 1]
                                         ELSE Append(f[i - 1], urls[i])]
           F == CHOOSE f : New(f)
<1>1. n \in Nat /\ \A i \in 1..n : urls[i] \in S
  OBVIOUS
<1>2. ASSUME NEW i \in 1..n, NEW s \in T[i - 1]
      PROVE  (IF Old(i) THEN s ELSE Append(s, urls[i])) \in T[i]
  <2>1. i - 1 \in 0..n /\ i \in 0..n /\ 1..i = 1..(i - 1) \cup {i} /\ urls[i] \in S
    BY <1>1
  <2>2. s \in Seq(S) /\ Range(s) = {urls[k] : k \in {k \in 1..(i - 1) : ~Old(k)}}
    BY <1>2, <2>1
  <2>3. CASE Old(i)
    BY <2>1, <2>2, <2>3
  <2>4. CASE ~Old(i)
    <3>1. Append(s, urls[i]) \in Seq(S) /\ Range(Append(s, urls[i])) = Range(s) \cup {urls[i]}
      <4>1. <<urls[i]>> \in Seq(S) /\ Range(<<urls[i]>>) = {urls[i]}
        BY <2>1 DEF Range
      <4>2. Append(s, urls[i]) = s \o <<urls[i]>>
        BY <2>1, <2>2, AppendIsConcat
      <4>3. \A t \in Seq(S) : s \o t \in Seq(S) /\ Range(s \o t) = Range(s) \cup Range(t)
        BY <2>2, RangeConcatenation, ConcatProperties
      <4> QED
        BY <4>1, <4>2, <4>3, Zenon
    <3> QED
      BY <2>1, <2>2, <2>4, <3>1
  <2> QED
    BY <2>3, <2>4
<1>3. <<>> \in T[0]
  <2>1. <<>> \in Seq(S) /\ Range(<<>>) = {}
    BY DEF Range
  <2> QED
    BY <1>1, <2>1
<1>4. \E f : New(f)
  <2>1. PICK g : Iterated(n, <<>>, step, g)
    BY <1>1, IterationExists
  <2>2. g[0] \in T[0]
    <3>1. g[0] = <<>>
      <4> HIDE DEF step
      <4> QED
        BY <1>1, <2>1, IterationSteps
    <3> QED
      BY <1>3, <3>1
  <2>3. ASSUME NEW i \in 1..n, g[i - 1] \in T[i - 1]
        PROVE  g[i] \in T[i] /\ g[i] = IF Old(i) THEN g[i - 1] ELSE Append(g[i - 1], urls[i])
    <3>1. g[i] = step[i][g[i - 1]] /\ i - 1 \in 0..n
      <4> HIDE DEF step, n
      <4> QED
        BY <1>1, <2>1, IterationSteps
    <3>2. g[i - 1] \in Seq(S)
      BY <2>3, <3>1
    <3>3. g[i] = IF Old(i) THEN g[i - 1] ELSE Append(g[i - 1], urls[i])
      BY <3>1, <3>2
    <3> QED
      BY <1>2, <2>3, <3>3
  <2>4. \A i \in 0..n : g[i] \in T[i]
    <3> HIDE DEF T, n
    <3> QED
      BY <1>1, <2>2, <2>3, Inductively
  <2>5. \A i \in 1..n : g[i] = IF Old(i) THEN g[i - 1] ELSE Append(g[i - 1], urls[i])
    <3>1. \A i \in 1..n : i - 1 \in 0..n
      BY <1>1
    <3> QED
      BY <2>3, <2>4, <3>1
  <2>6. g = [i \in 0..n |-> g[i]] /\ g[0] = <<>>
    BY <1>1, <2>1, IterationSteps
  <2>7. \A i \in 0..n : i = 0 \/ i \in 1..n
    BY <1>1
  <2> HIDE DEF T, step, n
  <2> WITNESS g
  <2> QED
    BY <2>5, <2>6, <2>7, Zenon
<1>5. New(F)
  <2> HIDE DEF New
  <2> QED
    BY <1>4
<1>6. PICK f : New(f) /\ Unqueried(ag, urls) = f[n]
  <2>1. Unqueried(ag, urls) = F[n]
    BY DEF Unqueried
  <2> HIDE DEF F, New
  <2> QED
    BY <1>5, <2>1
<1> HIDE DEF F
<1>7. \A i \in 0..n : f[i] \in T[i]
  <2> HIDE DEF n
  <2>1. f[0] = <<>>
    BY <1>1, <1>6
  <2>2. \A i \in 1..n : f[i] = IF Old(i) THEN f[i - 1] ELSE Append(f[i - 1], urls[i])
    <3>1. \A i \in 1..n : i \in 0..n /\ i # 0
      BY <1>1
    <3> QED
      BY <1>6, <3>1
  <2>3. ASSUME NEW i \in 1..n, f[i - 1] \in T[i - 1] PROVE f[i] \in T[i]
    BY <1>2, <2>2, <2>3
  <2>4. f[0] \in T[0]
    BY <1>3, <2>1
  <2> HIDE DEF T
  <2> QED
    BY <1>1, <2>3, <2>4, Inductively
<1>8. f[n] \in Seq(S) /\ Range(f[n]) = {urls[k] : k \in {k \in 1..n : ~Old(k)}}
  BY <1>1, <1>7
<1>9. Range(urls) = {urls[k] : k \in 1..n}
  BY RangeEquality
<1> QED
  BY <1>6, <1>8, <1>9

-----------------------------------------------------------------------------
(* The pages that are saved *)

LEMMA RequiredFacts ==
    /\ Len(Required) \in Nat \ {0} /\ DOMAIN Required = 1..Len(Required)
    /\ \A k \in 1..Len(Required) : Required[k] \in Entities
    /\ \A e \in Entities : \E k \in 1..Len(Required) : Required[k] = e
    /\ Company \in Entities /\ Entities # {} /\ IsFiniteSet(Entities)
<1>1. Len(Required) \in Nat \ {0} /\ DOMAIN Required = 1..Len(Required)
  BY RequiredAssumption, EmptySeq
<1>2. Entities = {Required[k] : k \in 1..Len(Required)}
  BY <1>1 DEF Entities, Range
<1>3. IsFiniteSet(Entities)
  <2>1. IsFiniteSet(1..Len(Required))
    BY <1>1, FS_Interval
  <2> DEFINE f == [k \in 1..Len(Required) |-> Required[k]]
  <2>2. f \in Surjection(1..Len(Required), Entities)
    BY <1>2 DEF Surjection
  <2> QED
    BY <2>1, <2>2, FS_Surjection
<1>4. Company = Required[1] /\ 1 \in 1..Len(Required)
  BY <1>1 DEF Company
<1> QED
  BY <1>1, <1>2, <1>3, <1>4

LEMMA GreaterOfTwo ==
    ASSUME NEW a \in Int, NEW b \in Int
    PROVE  Max({a, b}) \in {a, b} /\ Max({a, b}) >= a /\ Max({a, b}) >= b
<1>1. \E x \in {a, b} : \A y \in {a, b} : x >= y
  <2>1. a >= b \/ b >= a
    OBVIOUS
  <2> QED
    BY <2>1
<1>2. Max({a, b}) \in {a, b} /\ \A y \in {a, b} : Max({a, b}) >= y
  BY <1>1 DEF Max
<1> QED
  BY <1>2

LEMMA GreatestOfThree ==
    ASSUME NEW a \in Int, NEW b \in Int, NEW c \in Int
    PROVE  Max({a, b, c}) \in Int
<1>1. \E x \in {a, b, c} : \A y \in {a, b, c} : x >= y
  <2>1. (a >= b \/ b >= a) /\ (a >= c \/ c >= a) /\ (b >= c \/ c >= b)
    OBVIOUS
  <2>2. (a >= b /\ a >= c) \/ (b >= a /\ b >= c) \/ (c >= a /\ c >= b)
    BY <2>1
  <2> QED
    BY <2>2
<1>2. Max({a, b, c}) \in {a, b, c}
  BY <1>1 DEF Max
<1> QED
  BY <1>2

LEMMA SlotsAreCounted ==
    ASSUME NEW srcs \in Seq(Saved), target \in Nat
    PROVE  SourceSlots(srcs) \in Int
<1> DEFINE gap == Max({target, Len(Required)}) - Len(srcs)
           missing == Cardinality(Missing(srcs))
<1>1. gap \in Int
  <2>1. target \in Int /\ Len(Required) \in Int /\ Len(srcs) \in Int
    BY RequiredFacts
  <2>2. Max({target, Len(Required)}) \in {target, Len(Required)}
    BY <2>1, GreaterOfTwo, Zenon
  <2> QED
    BY <2>1, <2>2
<1>2. missing \in Int
  <2>1. IsFiniteSet(Missing(srcs))
    BY RequiredFacts, FS_Subset DEF Missing
  <2> QED
    BY <2>1, FS_CardinalityType
<1>3. SourceSlots(srcs) \in {Max({0, gap}), Max({0, gap, missing})}
  <2>1. SourceSlots(srcs) = Max({0, gap} \cup (IF Covered(srcs) = {} THEN {} ELSE {missing}))
    BY DEF SourceSlots
  <2>2. {0, gap} \cup {} = {0, gap} /\ {0, gap} \cup {missing} = {0, gap, missing}
    OBVIOUS
  <2> HIDE DEF gap, missing
  <2> QED
    BY <2>1, <2>2
<1> HIDE DEF gap, missing
<1>4. Max({0, gap}) \in Int
  <2>1. 0 \in Int
    OBVIOUS
  <2>2. Max({0, gap}) \in {0, gap}
    BY <1>1, <2>1, GreaterOfTwo, Zenon
  <2> QED
    BY <1>1, <2>1, <2>2
<1>5. Max({0, gap, missing}) \in Int
  BY <1>1, <1>2, GreatestOfThree
<1> QED
  BY <1>3, <1>4, <1>5

\* Every page once.
Once(srcs) ==
    \A i, j \in DOMAIN srcs : srcs[i].url = srcs[j].url => i = j \/ srcs[i].url = Placeholder

\* What was covered before the source at i, and the rule that gaps come first.
Before(srcs, i) == {srcs[j].entity : j \in 1..(i - 1)} \ {None}
GapsFirst(srcs, later) ==
    \A i \in DOMAIN later \ DOMAIN srcs :
        Entities \ Before(later, i) # {} /\ later[i].entity # None
        => later[i].entity \notin Before(later, i)

Goes(srcs, later) ==
    /\ later \in Seq(Saved) /\ Once(later)
    /\ Len(srcs) <= Len(later) /\ \A i \in DOMAIN srcs : later[i] = srcs[i]
    /\ Covered(srcs) # {} => GapsFirst(srcs, later)

Savings == [sources : Seq(Saved), left : Int, known : SUBSET (Urls \cup {Placeholder}),
            missing : SUBSET Entities]

\* Where the loop over the pages is.
Saves(srcs, acc) ==
    /\ acc \in Savings /\ Goes(srcs, acc.sources)
    /\ acc.known = UrlsOf(acc.sources)
    /\ Covered(srcs) # {} => acc.missing = Missing(acc.sources)

LEMMA CoveredByMore ==
    ASSUME NEW srcs \in Seq(Saved), NEW s \in Saved
    PROVE  /\ Append(srcs, s) \in Seq(Saved) /\ Len(Append(srcs, s)) = Len(srcs) + 1
           /\ DOMAIN srcs = 1..Len(srcs) /\ DOMAIN Append(srcs, s) = 1..(Len(srcs) + 1)
           /\ \A i \in 1..Len(srcs) : Append(srcs, s)[i] = srcs[i]
           /\ Append(srcs, s)[Len(srcs) + 1] = s
           /\ UrlsOf(Append(srcs, s)) = UrlsOf(srcs) \cup {s.url}
           /\ Covered(Append(srcs, s)) = Covered(srcs) \cup ({s.entity} \ {None})
<1> DEFINE t == Append(srcs, s)
           n == Len(srcs)
<1>1. /\ t \in Seq(Saved) /\ Len(t) = n + 1 /\ n \in Nat
      /\ DOMAIN srcs = 1..n /\ DOMAIN t = 1..(n + 1)
      /\ \A i \in 1..n : t[i] = srcs[i]
      /\ t[n + 1] = s
  BY AppendProperties
<1>2. 1..(n + 1) = 1..n \cup {n + 1}
  BY <1>1
<1> HIDE DEF t, n
<1>3. UrlsOf(t) = UrlsOf(srcs) \cup {s.url}
  BY <1>1, <1>2 DEF UrlsOf
<1>4. Covered(t) = Covered(srcs) \cup ({s.entity} \ {None})
  BY <1>1, <1>2 DEF Covered
<1> QED
  BY <1>1, <1>3, <1>4 DEF t, n

LEMMA SaveOneKeeps ==
    ASSUME NEW srcs \in Seq(Saved), NEW acc, Saves(srcs, acc), NEW page \in Page
    PROVE  Saves(srcs, SaveOne(acc, page))
<1> DEFINE s == [url |-> page.url, entity |-> page.entity]
           more == Append(acc.sources, s)
           n == Len(acc.sources)
<1>1. CASE SaveOne(acc, page) = acc
  BY <1>1
<1>2. CASE SaveOne(acc, page) # acc
  <2>1. /\ acc.left > 0 /\ page.url \notin acc.known
        /\ acc.missing # {} /\ page.entity # None => page.entity \in acc.missing
        /\ SaveOne(acc, page) =
               [acc EXCEPT !.sources = Append(@, [url |-> page.url, entity |-> page.entity]),
                           !.left = @ - 1, !.known = @ \cup {page.url},
                           !.missing = @ \ {page.entity}]
    BY <1>2 DEF SaveOne
  <2>2. acc \in Savings /\ acc.sources \in Seq(Saved) /\ s \in Saved
    BY DEF Saves, Savings, Saved, Page
  <2>3. /\ more \in Seq(Saved) /\ Len(more) = n + 1 /\ n \in Nat
        /\ DOMAIN acc.sources = 1..n /\ DOMAIN more = 1..(n + 1)
        /\ \A i \in 1..n : more[i] = acc.sources[i]
        /\ more[n + 1] = s
        /\ UrlsOf(more) = UrlsOf(acc.sources) \cup {page.url}
        /\ Covered(more) = Covered(acc.sources) \cup ({page.entity} \ {None})
    BY <2>2, CoveredByMore
  <2> DEFINE next == SaveOne(acc, page)
  <2>4. /\ next.sources = more /\ next.known = acc.known \cup {page.url}
        /\ next.missing = acc.missing \ {page.entity}
    BY <2>1, <2>2 DEF Savings
  <2>5. next \in Savings
    <3>1. acc.left - 1 \in Int /\ acc.known \cup {page.url} \in SUBSET (Urls \cup {Placeholder})
      BY <2>2 DEF Savings, Page
    <3>2. acc.missing \ {page.entity} \in SUBSET Entities
      BY <2>2 DEF Savings
    <3> QED
      BY <2>1, <2>2, <2>3, <3>1, <3>2 DEF Savings
  <2>6. next.known = UrlsOf(more) /\ (Covered(srcs) # {} => next.missing = Missing(more))
    <3>1. Covered(srcs) # {} => acc.missing = Entities \ Covered(acc.sources)
      BY DEF Saves, Missing
    <3>2. None \notin Entities
      BY RequiredAssumption
    <3> QED
      BY <2>3, <2>4, <3>1, <3>2 DEF Saves, Missing
  <2> HIDE DEF s, more, n, next
  <2>7. Once(more)
    <3>1. \A i \in 1..n : more[i].url # page.url
      BY <2>1, <2>3 DEF Saves, UrlsOf
    <3>2. more[n + 1].url = page.url
      BY <2>3 DEF s
    <3>3. \A i, j \in 1..n :
             more[i].url = more[j].url => i = j \/ more[i].url = Placeholder
      BY <2>3 DEF Saves, Goes, Once
    <3>4. \A i \in 1..(n + 1) : i \in 1..n \/ i = n + 1
      BY <2>3
    <3> QED
      BY <2>3, <3>1, <3>2, <3>3, <3>4 DEF Once
  <2>8. Len(srcs) <= n /\ Len(srcs) \in Nat /\ DOMAIN srcs = 1..Len(srcs)
    BY DEF Saves, Goes, n
  <2>9. ASSUME Covered(srcs) # {} PROVE GapsFirst(srcs, more)
    <3> SUFFICES ASSUME NEW i \in DOMAIN more \ DOMAIN srcs, Entities \ Before(more, i) # {},
                        more[i].entity # None
                 PROVE  more[i].entity \notin Before(more, i)
      BY DEF GapsFirst
    <3>1. CASE i \in 1..n
      <4>1. \A j \in 1..(i - 1) : j \in 1..n
        BY <2>3, <3>1
      <4>2. Before(more, i) = Before(acc.sources, i) /\ more[i] = acc.sources[i]
        BY <2>3, <3>1, <4>1 DEF Before
      <4>3. GapsFirst(srcs, acc.sources) /\ i \in DOMAIN acc.sources \ DOMAIN srcs
        BY <2>3, <2>9, <3>1 DEF Saves, Goes
      <4> QED
        BY <4>2, <4>3 DEF GapsFirst
    <3>2. CASE i = n + 1
      <4>1. i - 1 = n
        BY <2>3, <3>2
      <4>2. Before(more, i) = {acc.sources[j].entity : j \in 1..n} \ {None}
        BY <2>3, <4>1 DEF Before
      <4>5. Covered(acc.sources) = {acc.sources[j].entity : j \in 1..n} \ {None}
        BY <2>3 DEF Covered
      <4>6. Before(more, i) = Covered(acc.sources)
        BY <4>2, <4>5
      <4>3. acc.missing = Entities \ Covered(acc.sources)
        BY <2>9 DEF Saves, Missing
      <4>4. more[i].entity = page.entity
        BY <2>3, <3>2 DEF s
      <4> QED
        BY <2>1, <4>3, <4>4, <4>6
    <3>3. i \in 1..n \/ i = n + 1
      <4>1. i \in 1..(n + 1)
        BY <2>3
      <4> QED
        BY <2>3, <4>1
    <3> QED
      BY <3>1, <3>2, <3>3
  <2>10. \A i \in DOMAIN srcs : more[i] = srcs[i]
    <3>1. \A i \in DOMAIN srcs : acc.sources[i] = srcs[i]
      BY DEF Saves, Goes
    <3>2. \A i \in DOMAIN srcs : i \in 1..n
      BY <2>3, <2>8
    <3> QED
      BY <2>3, <3>1, <3>2
  <2>11. Goes(srcs, more)
    BY <2>3, <2>7, <2>8, <2>9, <2>10 DEF Goes
  <2> QED
    BY <2>4, <2>5, <2>6, <2>11 DEF Saves, next
<1> QED
  BY <1>1, <1>2

LEMMA FilteredPages ==
    ASSUME NEW srcs \in Seq(Saved), Once(srcs), target \in Nat, NEW pages \in Seq(Page)
    PROVE  Goes(srcs, FilterAndSave(srcs, pages))
<1> DEFINE n == Len(pages)
           base == BeforeSaving(srcs)
           step == [i \in 1..n |-> [acc \in Savings |-> SaveOne(acc, pages[i])]]
           Loop(f) == f = [i \in 0..n |-> IF i = 0 THEN BeforeSaving(srcs)
                                          ELSE SaveOne(f[i - 1], pages[i])]
           F == CHOOSE f : Loop(f)
<1>1. n \in Nat /\ \A i \in 1..n : pages[i] \in Page
  OBVIOUS
<1>2. Saves(srcs, base)
  <2>1. SourceSlots(srcs) \in Int
    BY SlotsAreCounted, Zenon
  <2>2. UrlsOf(srcs) \in SUBSET (Urls \cup {Placeholder})
    <3>1. \A i \in DOMAIN srcs : srcs[i] \in Saved
      OBVIOUS
    <3> QED
      BY <3>1 DEF UrlsOf, Saved
  <2>3. (IF Covered(srcs) = {} THEN {} ELSE Missing(srcs)) \in SUBSET Entities
    BY DEF Missing
  <2>4. Goes(srcs, srcs)
    BY DEF Goes, GapsFirst
  <2> QED
    BY <2>1, <2>2, <2>3, <2>4 DEF Saves, Savings, BeforeSaving
<1> HIDE DEF n, base
<1>3. \E f : Loop(f)
  <2>1. PICK g : Iterated(n, base, step, g)
    BY <1>1, IterationExists
  <2>2. g = [i \in 0..n |-> g[i]] /\ g[0] = base /\ \A i \in 1..n : g[i] = step[i][g[i - 1]]
    <3> HIDE DEF step
    <3> QED
      BY <1>1, <2>1, IterationSteps
  <2> DEFINE Good == [i \in 0..n |-> {acc \in Savings : Saves(srcs, acc)}]
  <2>3. g[0] \in Good[0]
    BY <1>1, <1>2, <2>2 DEF Saves
  <2>4. ASSUME NEW i \in 1..n, g[i - 1] \in Good[i - 1]
        PROVE  g[i] \in Good[i] /\ g[i] = SaveOne(g[i - 1], pages[i])
    <3>1. i - 1 \in 0..n /\ i \in 0..n
      BY <1>1
    <3>2. g[i - 1] \in Savings /\ Saves(srcs, g[i - 1])
      BY <2>4, <3>1
    <3>3. g[i] = SaveOne(g[i - 1], pages[i])
      BY <2>2, <3>2
    <3>4. Saves(srcs, g[i])
      BY <1>1, <3>2, <3>3, SaveOneKeeps
    <3> QED
      BY <3>1, <3>3, <3>4 DEF Saves
  <2>5. \A i \in 0..n : g[i] \in Good[i]
    <3> HIDE DEF Good, step
    <3> QED
      BY <1>1, <2>3, <2>4, Inductively
  <2>6. \A i \in 1..n : g[i] = SaveOne(g[i - 1], pages[i])
    <3>1. \A i \in 1..n : i - 1 \in 0..n
      BY <1>1
    <3> HIDE DEF Good
    <3> QED
      BY <2>4, <2>5, <3>1
  <2>7. \A i \in 0..n : i = 0 \/ i \in 1..n
    BY <1>1
  <2> HIDE DEF step, Good
  <2> WITNESS g
  <2> QED
    BY <2>2, <2>6, <2>7, Zenon DEF base
<1>4. PICK f : Loop(f) /\ FilterAndSave(srcs, pages) = f[n].sources
  <2>1. FilterAndSave(srcs, pages) = F[n].sources
    BY DEF FilterAndSave, n
  <2>2. Loop(F)
    <3> HIDE DEF Loop
    <3> QED
      BY <1>3
  <2> HIDE DEF F, Loop
  <2> QED
    BY <2>1, <2>2
<1> HIDE DEF F
<1>5. f[0] = base /\ \A i \in 1..n : f[i] = SaveOne(f[i - 1], pages[i])
  <2>1. 0 \in 0..n /\ \A i \in 1..n : i \in 0..n /\ i # 0
    BY <1>1
  <2> QED
    BY <1>4, <2>1 DEF base
<1> DEFINE Good == [i \in 0..n |-> {acc \in Savings : Saves(srcs, acc)}]
<1>6. f[0] \in Good[0]
  BY <1>1, <1>2, <1>5 DEF Saves
<1>7. ASSUME NEW i \in 1..n, f[i - 1] \in Good[i - 1] PROVE f[i] \in Good[i]
  <2>1. i - 1 \in 0..n /\ i \in 0..n
    BY <1>1
  <2>2. Saves(srcs, f[i - 1])
    BY <1>7, <2>1
  <2>3. Saves(srcs, f[i])
    BY <1>1, <1>5, <2>2, SaveOneKeeps
  <2> QED
    BY <2>1, <2>3 DEF Saves
<1>8. \A i \in 0..n : f[i] \in Good[i]
  <2> HIDE DEF Good, Loop, step
  <2> QED
    BY <1>1, <1>6, <1>7, Inductively
<1>9. Saves(srcs, f[n])
  BY <1>1, <1>8
<1> QED
  BY <1>4, <1>9 DEF Saves

-----------------------------------------------------------------------------
(* The plans of queries *)

\* A query whose metadata names an entity, and an answered one: it may name none.
Asked == [entity : Entities, term : Terms, rival : Entities \cup {None}]
Named(queries) ==
    queries \in Seq(Range(queries)) /\ \A q \in Range(queries) : q.entity \in Entities \cup {None}

LEMMA ImageIsFinite ==
    ASSUME NEW S, IsFiniteSet(S), NEW f, DOMAIN f = S
    PROVE  IsFiniteSet({f[x] : x \in S})
<1> DEFINE g == [x \in S |-> f[x]]
<1>1. g \in Surjection(S, {f[x] : x \in S})
  BY DEF Surjection
<1> QED
  BY <1>1, FS_Surjection

LEMMA QueryIsAsked ==
    ASSUME NEW e \in Entities, NEW term \in Terms
    PROVE  Query(e, term) \in Asked
BY DEF Query, Asked

LEMMA AttemptedSlots ==
    ASSUME NEW queries \in SUBSET Asked
    PROVE  Slots(queries) \in SUBSET Slot /\ (queries # {} => Slots(queries) # {})
<1>1. ASSUME NEW q \in queries
      PROVE  /\ q.entity # None /\ q.entity \in Entities
             /\ Dimension(q.term) \in Terms /\ q.rival \in Entities \cup {None}
  <2>1. q \in Asked /\ q.term \in Terms
    BY DEF Asked
  <2>2. Dimension(q.term) \in {"features", q.term}
    BY DEF Dimension
  <2>3. "features" \in Terms
    BY DEF Terms
  <2>4. Dimension(q.term) \in Terms
    BY <2>1, <2>2, <2>3
  <2> QED
    BY <2>1, <2>4, RequiredAssumption DEF Asked
<1>2. {q \in queries : q.entity # None} = queries
  BY <1>1
<1>3. Slots(queries) =
        {[entity |-> q.entity, dimension |-> Dimension(q.term), rival |-> q.rival] : q \in queries}
  BY <1>2 DEF Slots
<1>4. Slots(queries) \in SUBSET Slot
  BY <1>1, <1>3 DEF Slot
<1> QED
  BY <1>3, <1>4

LEMMA AskedIsNamed ==
    ASSUME NEW queries \in Seq(Asked)
    PROVE  Named(queries) /\ Range(queries) \in SUBSET Asked
<1>1. Range(queries) = {queries[i] : i \in 1..Len(queries)} /\ Len(queries) \in Nat
  BY RangeEquality
<1>2. \A i \in 1..Len(queries) : queries[i] \in Asked
  OBVIOUS
<1>3. queries \in Seq(Range(queries))
  BY <1>1
<1> QED
  BY <1>1, <1>2, <1>3 DEF Named, Asked

LEMMA PlansOfEntities ==
    ASSUME NEW e \in Entities
    PROVE  PlanOf(e) \in Seq(Asked) /\ Range(PlanOf(e)) # {}
<1> DEFINE first == <<Query(e, "official"), Query(e, "features")>>
           others == {Query(e, d) : d \in Dimensions}
<1>1. first \in Seq(Asked) /\ first[1] \in Range(first)
  <2>1. Query(e, "official") \in Asked /\ Query(e, "features") \in Asked
    BY DEF Query, Asked, Terms
  <2>2. first \in Seq(Asked)
    BY <2>1
  <2> QED
    BY <2>2 DEF Range
<1>2. SetToSeq(others) \in Seq(Asked)
  <2>1. others \subseteq Asked
    BY QueryIsAsked DEF Terms
  <2>2. IsFiniteSet(others)
    <3> DEFINE f == [d \in Dimensions |-> Query(e, d)]
    <3>1. IsFiniteSet({f[d] : d \in Dimensions})
      <4>1. IsFiniteSet(Dimensions) /\ DOMAIN f = Dimensions
        BY QueriesAssumption
      <4> HIDE DEF f
      <4> QED
        BY <4>1, ImageIsFinite
    <3>2. {f[d] : d \in Dimensions} = others
      OBVIOUS
    <3> QED
      BY <3>1, <3>2
  <2>3. SetToSeq(others) \in Seq(others)
    BY <2>2, SetAsSequence
  <2> QED
    BY <2>1, <2>3, SeqMonotonic
<1>3. PlanOf(e) = first \o SetToSeq(others)
  BY DEF PlanOf
<1> HIDE DEF first, others
<1>4. PlanOf(e) \in Seq(Asked)
  BY <1>1, <1>2, <1>3, ConcatProperties
<1>5. Range(PlanOf(e)) = Range(first) \cup Range(SetToSeq(others))
  BY <1>1, <1>2, <1>3, RangeConcatenation
<1> QED
  BY <1>1, <1>4, <1>5

LEMMA ComparisonsAreAsked ==
    Comparisons \in Seq(Asked)
<1> DEFINE m == Len(Required) - 1
           c(k) == [Query(Company, "comparison") EXCEPT !.rival = Required[k + 1]]
<1>1. m \in Nat /\ \A k \in 1..m : k + 1 \in 1..Len(Required)
  BY RequiredFacts
<1>2. \A k \in 1..m : Required[k + 1] \in Entities
  BY <1>1, RequiredFacts
<1>3. Query(Company, "comparison") \in Asked
  BY RequiredFacts DEF Query, Asked, Terms
<1>4. \A k \in 1..m : c(k) \in Asked
  BY <1>2, <1>3 DEF Asked
<1>5. Comparisons = [k \in 1..m |-> c(k)]
  BY DEF Comparisons
<1> HIDE DEF m, c
<1>6. [k \in 1..m |-> c(k)] \in Seq(Asked)
  BY <1>1, <1>4, IsASeq
<1> QED
  BY <1>5, <1>6

LEMMA CoveragePlanIsAsked ==
    CoveragePlan \in Seq(Asked) /\ Range(CoveragePlan) # {}
<1> DEFINE m == Len(Required)
           plans == [k \in DOMAIN Required |-> PlanOf(Required[k])]
<1>1. m \in Nat \ {0} /\ DOMAIN Required = 1..m /\ \A k \in 1..m : Required[k] \in Entities
  BY RequiredFacts
<1>2. plans \in [1..m -> Seq(Asked)] /\ \A k \in 1..m : Range(plans[k]) # {}
  BY <1>1, PlansOfEntities
<1>3. CoveragePlan = FlattenSeq(plans) \o Comparisons
  BY DEF CoveragePlan
<1> HIDE DEF plans, m
<1>4. /\ FlattenSeq(plans) \in Seq(Asked)
      /\ Range(FlattenSeq(plans)) = UNION {Range(plans[k]) : k \in 1..m}
  BY <1>1, <1>2, FlattenedRange
<1>5. Range(FlattenSeq(plans)) # {}
  <2>1. 1 \in 1..m
    BY <1>1
  <2> QED
    BY <1>2, <1>4, <2>1
<1>6. /\ CoveragePlan \in Seq(Asked)
      /\ Range(CoveragePlan) = Range(FlattenSeq(plans)) \cup Range(Comparisons)
  BY <1>3, <1>4, ComparisonsAreAsked, ConcatProperties, RangeConcatenation
<1> QED
  BY <1>5, <1>6

LEMMA GapPlanIsAsked ==
    ASSUME NEW srcs
    PROVE  GapPlan(srcs) \in Seq(Asked) /\ (GapPlan(srcs) = <<>> => Missing(srcs) = {})
<1> DEFINE m == Len(Required)
           gaps == [k \in DOMAIN Required |-> GapsOf(Required[k], srcs)]
<1>1. /\ m \in Nat \ {0} /\ DOMAIN Required = 1..m /\ \A k \in 1..m : Required[k] \in Entities
      /\ \A e \in Entities : \E k \in 1..m : Required[k] = e
  BY RequiredFacts
<1>2. ASSUME NEW e \in Entities
      PROVE  /\ GapsOf(e, srcs) \in Seq(Asked)
             /\ e \in Missing(srcs) => Range(GapsOf(e, srcs)) # {}
  <2> DEFINE q1 == Query(e, "official")
             q2 == Query(e, "pricing features")
             two == <<q1, q2>>
  <2>1. q1 \in Asked /\ q2 \in Asked
    BY DEF Query, Asked, Terms
  <2> HIDE DEF q1, q2
  <2>2. two \in Seq(Asked)
    BY <2>1
  <2>4. two[1] \in Range(two)
    BY <2>2 DEF Range
  <2>3. GapsOf(e, srcs) = IF e \in Missing(srcs) THEN two ELSE <<>>
    BY DEF GapsOf, q1, q2
  <2> HIDE DEF two
  <2> QED
    BY <2>2, <2>3, <2>4, EmptySeq
<1>3. gaps \in [1..m -> Seq(Asked)] /\ \A k \in 1..m : gaps[k] = GapsOf(Required[k], srcs)
  BY <1>1, <1>2
<1>4. GapPlan(srcs) = FlattenSeq(gaps)
  BY DEF GapPlan
<1> HIDE DEF gaps, m
<1>5. GapPlan(srcs) \in Seq(Asked) /\ Range(GapPlan(srcs)) = UNION {Range(gaps[k]) : k \in 1..m}
  BY <1>1, <1>3, <1>4, FlattenedRange
<1>6. ASSUME GapPlan(srcs) = <<>>, NEW e \in Missing(srcs) PROVE FALSE
  <2>1. Range(GapPlan(srcs)) = {}
    BY <1>6 DEF Range
  <2>2. e \in Entities
    BY DEF Missing
  <2>3. PICK k \in 1..m : Required[k] = e
    BY <1>1, <2>2
  <2>4. Range(gaps[k]) # {}
    BY <1>2, <1>3, <2>2, <2>3
  <2> QED
    BY <1>5, <2>1, <2>4
<1> QED
  BY <1>5, <1>6

LEMMA MenuIsAsked ==
    Menu \in SUBSET Asked
<1>1. \A e \in Entities : Range(PlanOf(e)) \in SUBSET Asked
  BY PlansOfEntities, AskedIsNamed
<1>2. Query(Company, "free_search") \in Asked /\ Query(Company, "comparison") \in Asked
  BY RequiredFacts DEF Query, Asked, Terms
<1> DEFINE plans == UNION {Range(PlanOf(e)) : e \in Entities}
<1>3. plans \in SUBSET Asked
  BY <1>1
<1>4. \A q \in Menu : \/ q \in plans
                      \/ q \in {Query(Company, "free_search"), Query(Company, "comparison")}
  <2>1. Menu = plans \cup {Query(Company, "free_search")}
                   \cup (IF Comparisons = <<>> THEN {} ELSE {Query(Company, "comparison")})
    BY Zenon DEF Menu
  <2> HIDE DEF plans
  <2> QED
    BY <2>1
<1> HIDE DEF plans
<1> QED
  BY <1>2, <1>3, <1>4

\* Every plan a collection begins with is asked for entities, and has slots to attempt.
LEMMA InitialPlansAreAsked ==
    ASSUME plan \in Entities \cup {None}, NEW queries \in InitialPlans
    PROVE  queries \in Seq(Asked) /\ Range(queries) # {}
<1>1. CASE plan # None
  <2>1. queries = <<Query(plan, "targeted")>>
    BY <1>1 DEF InitialPlans, TargetedPlan
  <2>2. Query(plan, "targeted") \in Asked
    BY <1>1 DEF Query, Asked, Terms
  <2>3. queries \in Seq(Asked) /\ queries[1] \in Range(queries)
    BY <2>1, <2>2 DEF Range
  <2> QED
    BY <2>3
<1>2. CASE queries = CoveragePlan
  BY <1>2, CoveragePlanIsAsked
<1>3. CASE plan = None /\ queries # CoveragePlan
  <2>1. PICK k \in 1..MaxPicks : queries \in [1..k -> Menu]
    BY <1>3 DEF InitialPlans, ModelPlans
  <2>2. k \in Nat /\ 1 \in 1..k
    BY QueriesAssumption
  <2>3. queries \in Seq(Menu) /\ queries[1] \in Range(queries)
    BY <2>1, <2>2 DEF Range
  <2> QED
    BY <2>3, MenuIsAsked, SeqMonotonic
<1> QED
  BY <1>1, <1>2, <1>3

\* A refinement names entities or none at all.
LEMMA RefinementsAreNamed ==
    ASSUME NEW srcs, NEW queries \in Refinements(srcs)
    PROVE  Named(queries) /\ Slots(Range(queries)) \in SUBSET Slot
<1>1. CASE queries = GapPlan(srcs)
  BY <1>1, GapPlanIsAsked, AskedIsNamed, AttemptedSlots
<1>2. CASE queries # GapPlan(srcs)
  <2>1. PICK i \in Inventions : queries = <<Query(None, i)>>
    BY <1>2 DEF Refinements
  <2>2. Range(queries) = {Query(None, i)} /\ queries \in Seq({Query(None, i)})
    BY <2>1 DEF Range
  <2>3. Query(None, i).entity = None
    BY DEF Query
  <2>4. Slots({Query(None, i)}) = {}
    BY <2>3 DEF Slots
  <2> QED
    BY <2>2, <2>3, <2>4 DEF Named
<1> QED
  BY <1>1, <1>2

-----------------------------------------------------------------------------
(* The batches of urls *)

LEMMA UrlsOfPlaces ==
    ASSUME NEW urls \in Seq(Place)
    PROVE  /\ UrlsOf(urls) \in SUBSET Urls
           /\ UrlsOf(urls) = {u.url : u \in Range(urls)}
<1>1. \A i \in DOMAIN urls : urls[i] \in Place
  OBVIOUS
<1>2. UrlsOf(urls) = {u.url : u \in Range(urls)}
  BY DEF UrlsOf, Range
<1>3. UrlsOf(urls) \in SUBSET Urls
  BY <1>1 DEF UrlsOf, Place
<1> QED
  BY <1>2, <1>3

\* A batch and what is left of the urls are all of them.
LEMMA BatchAndRest ==
    ASSUME NEW urls \in Seq(Place)
    PROVE  /\ FirstOf(urls) \in Seq(Place) /\ RestOf(urls) \in Seq(Place)
           /\ UrlsOf(urls) \subseteq UrlsOf(FirstOf(urls)) \cup UrlsOf(RestOf(urls))
<1> DEFINE n == Len(urls)
           k == IF n < MaxBatch THEN n ELSE MaxBatch
           first == SubSeq(urls, 1, k)
           rest == SubSeq(urls, MaxBatch + 1, n)
<1>1. n \in Nat /\ MaxBatch \in Nat \ {0} /\ \A i \in 1..n : urls[i] \in Place
  BY CollectorBounds
<1>2. FirstOf(urls) = first /\ RestOf(urls) = rest
  BY DEF FirstOf, RestOf
<1>3. k \in Nat /\ k <= n /\ (k < n => k = MaxBatch)
  BY <1>1
<1> HIDE DEF k, n
<1>4. /\ first \in Seq(Place) /\ Len(first) = k
      /\ \A i \in 1..k : first[i] = urls[i]
  BY <1>1, <1>3, SubSeqProperties
<1>5. /\ rest \in Seq(Place)
      /\ MaxBatch < n => /\ Len(rest) = n - MaxBatch
                         /\ \A i \in 1..(n - MaxBatch) : rest[i] = urls[MaxBatch + i]
  <2>1. \A i \in (MaxBatch + 1)..n : urls[i] \in Place
    BY <1>1
  <2>2. MaxBatch + 1 \in Int /\ n \in Int
    BY <1>1
  <2>3. /\ rest \in Seq(Place)
        /\ Len(rest) = IF MaxBatch + 1 <= n THEN n - (MaxBatch + 1) + 1 ELSE 0
        /\ \A i \in 1..(n - (MaxBatch + 1) + 1) : rest[i] = urls[MaxBatch + 1 + i - 1]
    BY <2>1, <2>2, SubSeqProperties
  <2>4. MaxBatch < n => MaxBatch + 1 <= n /\ n - (MaxBatch + 1) + 1 = n - MaxBatch
    BY <1>1
  <2>5. \A i \in 1..(n - MaxBatch) : MaxBatch + 1 + i - 1 = MaxBatch + i
    BY <1>1
  <2> HIDE DEF rest
  <2>6. MaxBatch < n => Len(rest) = n - MaxBatch
    BY <2>3, <2>4
  <2>7. ASSUME MaxBatch < n, NEW i \in 1..(n - MaxBatch) PROVE rest[i] = urls[MaxBatch + i]
    BY <2>3, <2>4, <2>5, <2>7
  <2> QED
    BY <2>3, <2>6, <2>7
<1> HIDE DEF first, rest
<1>6. ASSUME NEW i \in 1..n
      PROVE  \/ \E j \in DOMAIN first : first[j] = urls[i]
             \/ \E j \in DOMAIN rest : rest[j] = urls[i]
  <2>1. CASE i <= k
    <3>1. i \in 1..k /\ DOMAIN first = 1..k
      BY <1>1, <1>3, <1>4, <2>1
    <3> QED
      BY <1>4, <3>1
  <2>2. CASE ~(i <= k)
    <3>1. k = MaxBatch /\ MaxBatch < n /\ i - MaxBatch \in 1..(n - MaxBatch)
          /\ MaxBatch + (i - MaxBatch) = i
      BY <1>1, <1>3, <2>2
    <3>2. DOMAIN rest = 1..(n - MaxBatch)
      BY <1>5, <3>1
    <3>3. rest[i - MaxBatch] = urls[MaxBatch + (i - MaxBatch)]
      BY <1>5, <3>1
    <3> QED
      BY <3>1, <3>2, <3>3
  <2> QED
    BY <2>1, <2>2
<1>7. DOMAIN urls = 1..n
  BY DEF n
<1>8. UrlsOf(urls) \subseteq UrlsOf(first) \cup UrlsOf(rest)
  BY <1>6, <1>7 DEF UrlsOf
<1> QED
  BY <1>2, <1>4, <1>5, <1>8

\* What is asked for and what is still pending are all the urls there were.
LEMMA UnqueriedUrls ==
    ASSUME NEW urls \in Seq(Place), NEW ag
    PROVE  /\ Unqueried(ag, urls) \in Seq(Place)
           /\ UrlsOf(urls) \subseteq ag.queried \cup UrlsOf(Unqueried(ag, urls))
<1>1. /\ Unqueried(ag, urls) \in Seq(Place)
      /\ Range(Unqueried(ag, urls)) = {u \in Range(urls) : u.url \notin ag.queried}
  BY UnqueriedKeeps
<1>2. /\ UrlsOf(urls) = {u.url : u \in Range(urls)}
      /\ UrlsOf(Unqueried(ag, urls)) = {u.url : u \in Range(Unqueried(ag, urls))}
  BY <1>1, UrlsOfPlaces
<1> QED
  BY <1>1, <1>2

LEMMA SelectionsArePlaces ==
    ASSUME NEW ag, NEW hits \in SUBSET Place, IsFiniteSet(hits), NEW urls \in Selections(ag, hits)
    PROVE  urls \in Seq(Place)
<1> DEFINE fresh == {h \in hits : h.url \notin ag.queried}
           bare  == {[url |-> h.url, entity |-> None] : h \in fresh}
<1>1. MaxSelected \in Nat
  BY CollectorBounds
<1>2. fresh \subseteq Place /\ bare \subseteq Place
  BY DEF Place
<1>3. Cardinality(fresh) \in Nat
  <2>1. IsFiniteSet(fresh)
    BY FS_Subset
  <2> QED
    BY <2>1, FS_CardinalityType
<1>4. urls \in Ranked(fresh) \/ \E k \in 0..MaxSelected : urls \in [1..k -> bare]
  BY DEF Selections
<1> HIDE DEF fresh, bare
<1>5. \E k \in Nat : urls \in [1..k -> Place]
  <2>1. CASE urls \in Ranked(fresh)
    <3>1. \E k \in {Cardinality(fresh), MaxSelected} : urls \in [1..k -> fresh]
      BY <2>1 DEF Ranked
    <3> QED
      BY <1>1, <1>2, <1>3, <3>1
  <2>2. CASE \E k \in 0..MaxSelected : urls \in [1..k -> bare]
    BY <1>1, <1>2, <2>2
  <2> QED
    BY <1>4, <2>1, <2>2
<1> QED
  BY <1>5

LEMMA CandidateFacts ==
    /\ \A e \in Entities : Candidates[e] \in Seq(Urls)
    /\ Max({Len(Candidates[e]) : e \in Entities}) \in Nat
<1>1. ASSUME NEW e \in Entities PROVE Candidates[e] \in Seq(Urls)
  <2>1. Candidates[e] \in Seq(Range(Candidates[e])) /\ Range(Candidates[e]) \subseteq Urls
    BY UrlsAssumption DEF Urls
  <2> QED
    BY <2>1, SeqMonotonic
<1> DEFINE m == Len(Required)
           f == [k \in 1..m |-> Len(Candidates[Required[k]])]
           T == {Len(Candidates[e]) : e \in Entities}
<1>2. \A e \in Entities : Len(Candidates[e]) \in Nat
  BY <1>1
<1>3. m \in Nat /\ f \in [1..m -> Nat]
  BY <1>2, RequiredFacts
<1>4. T \in SUBSET Nat /\ T # {}
  BY <1>2, RequiredFacts
<1>5. PICK b \in Nat : \A k \in 1..m : f[k] <= b
  <2> HIDE DEF m, f
  <2> QED
    BY <1>3, BoundOfSequence
<1>6. \A x \in T : x <= b
  BY <1>3, <1>5, RequiredFacts
<1> HIDE DEF T
<1>7. \E x \in T : \A y \in T : y <= x
  BY <1>4, <1>6, Greatest
<1>8. \E x \in T : \A y \in T : x >= y
  BY <1>4, <1>7
<1>9. Max(T) \in T
  BY <1>8 DEF Max
<1> QED
  BY <1>1, <1>4, <1>9 DEF T

LEMMA FallbacksArePlaces ==
    ASSUME NEW ag
    PROVE  Fallbacks(ag) \in Seq(Place)
<1> DEFINE most == Max({Len(Candidates[e]) : e \in Entities})
           m == Len(Required)
           Nth(i, e) == IF i <= Len(Candidates[e]) THEN <<[url |-> Candidates[e][i], entity |-> e]>>
                        ELSE <<>>
           turn(i) == [k \in DOMAIN Required |-> Nth(i, Required[k])]
           turns == [i \in 1..most |-> FlattenSeq(turn(i))]
<1>1. most \in Nat /\ \A e \in Entities : Candidates[e] \in Seq(Urls)
  BY CandidateFacts
<1>2. m \in Nat /\ DOMAIN Required = 1..m /\ \A k \in 1..m : Required[k] \in Entities
  BY RequiredFacts
<1>3. Fallbacks(ag) = Unqueried(ag, FlattenSeq(turns))
  BY DEF Fallbacks
<1> HIDE DEF most, m
<1>4. ASSUME NEW i \in 1..most, NEW e \in Entities PROVE Nth(i, e) \in Seq(Place)
  <2>1. CASE i <= Len(Candidates[e])
    <3>1. i \in 1..Len(Candidates[e])
      BY <1>1, <2>1
    <3>2. Candidates[e][i] \in Urls
      BY <1>1, <3>1
    <3> DEFINE p == [url |-> Candidates[e][i], entity |-> e]
    <3>3. p \in Place
      BY <3>2 DEF Place
    <3> HIDE DEF p
    <3>4. <<p>> \in Seq(Place)
      BY <3>3
    <3> QED
      BY <2>1, <3>4 DEF p
  <2>2. CASE ~(i <= Len(Candidates[e]))
    BY <2>2
  <2> QED
    BY <2>1, <2>2
<1> HIDE DEF Nth
<1>5. ASSUME NEW i \in 1..most PROVE FlattenSeq(turn(i)) \in Seq(Place)
  <2>1. turn(i) \in [1..m -> Seq(Place)]
    BY <1>2, <1>4
  <2> HIDE DEF turn
  <2> QED
    BY <1>2, <2>1, FlattenedRange
<1>6. turns \in [1..most -> Seq(Place)]
  <2> HIDE DEF turn
  <2> QED
    BY <1>5
<1> HIDE DEF turns
<1>7. FlattenSeq(turns) \in Seq(Place)
  BY <1>1, <1>6, FlattenedRange
<1> QED
  BY <1>3, <1>7, UnqueriedKeeps

-----------------------------------------------------------------------------
(* A round *)

LEMMA FreshTypes ==
    /\ IsAgent(FreshAgent) /\ FreshAgent.searched = FALSE
    /\ IsMemory(NoResults) /\ NoResults.kind = "none" /\ NoResults.hits = {}
<1>1. <<>> \in Seq(Place) /\ <<>> \in Seq(Page)
  BY EmptySeq
<1>2. IsFiniteSet({})
  BY FS_EmptySet
<1> QED
  BY <1>1, <1>2 DEF FreshAgent, NoResults, IsAgent, IsMemory

Counting ==
    /\ round' \in 0..MaxRounds
    /\ sigCounts' \in [Signatures -> Nat] /\ retryCounts' \in [{"error", "stall"} -> Nat]
    /\ answer' \in {"none", "stop", "abort", "retry"}
    /\ answer' = "none" => round' < MaxRounds

\* The counts go up, and run_agent goes on only while rounds are left.
LEMMA RoundCounts ==
    ASSUME CountTypes, round < MaxRounds,
           NEW completed \in BOOLEAN, NEW calls, calls \in Seq(Range(calls)),
           NEW outputs \in BOOLEAN, NEW alternate \in BOOLEAN, NEW failed \in BOOLEAN,
           RunRound(RoundResult(completed, calls, outputs, alternate, failed))
    PROVE  Counting /\ (completed => answer' = "stop")
<1> DEFINE r == RoundResult(completed, calls, outputs, alternate, failed)
           final == round + 1 = MaxRounds
           decision == Harness!Decide(Self, r, final)
<1>1. /\ round' = round + 1
      /\ sigCounts' = IF Harness!ReachesBreaker(r)
                      THEN [s \in Signatures |-> sigCounts[s] +
                              Cardinality({k \in Harness!Counted(Self, r.calls) : r.calls[k] = s})]
                      ELSE sigCounts
      /\ retryCounts' = IF Harness!ConsumesRetry(Self, r, final)
                        THEN [retryCounts EXCEPT ![Harness!RetryReason(r)] = @ + 1]
                        ELSE retryCounts
      /\ answer' = Answer(decision, final)
  BY DEF RunRound
<1>2. /\ r.completed = completed /\ r.rework = FALSE /\ r.nonRetryable = FALSE
      /\ r.calls = calls
  BY DEF RoundResult
<1> HIDE DEF r
<1>3. round \in 0..MaxRounds /\ MaxRounds \in Nat
  BY CollectorBounds DEF CountTypes
<1>4. round' \in 0..MaxRounds /\ (~final => round' < MaxRounds)
  BY <1>1, <1>3
<1>5. sigCounts' \in [Signatures -> Nat]
  <2>1. ASSUME NEW s \in Signatures
        PROVE  Cardinality({k \in Harness!Counted(Self, r.calls) : r.calls[k] = s}) \in Nat
    <3>1. DOMAIN calls = 1..Len(calls) /\ Len(calls) \in Nat
      OBVIOUS
    <3>2. {k \in Harness!Counted(Self, r.calls) : r.calls[k] = s} \in SUBSET (1..Len(calls))
      BY <1>2, <3>1 DEF Harness!Counted
    <3>3. IsFiniteSet(1..Len(calls))
      BY <3>1, FS_Interval
    <3>4. IsFiniteSet({k \in Harness!Counted(Self, r.calls) : r.calls[k] = s})
      BY <3>2, <3>3, FS_Subset
    <3> QED
      BY <3>4, FS_CardinalityType
  <2>2. sigCounts \in [Signatures -> Nat]
    BY DEF CountTypes
  <2> QED
    BY <1>1, <2>1, <2>2
<1>6. retryCounts' \in [{"error", "stall"} -> Nat]
  <2>1. Harness!RetryReason(r) \in {"error", "stall"}
    BY DEF Harness!RetryReason
  <2>2. retryCounts \in [{"error", "stall"} -> Nat]
    BY DEF CountTypes
  <2> QED
    BY <1>1, <2>1, <2>2
<1>7. /\ decision \in {"stop", "abort", "retry", "continue"}
      /\ final => decision # "continue"
      /\ completed => decision = "stop"
  BY <1>2 DEF Harness!Decide, Harness!Repeated, Harness!ReachesBreaker, Harness!Exhausted,
              Harness!ConsumesRetry
<1>8. /\ answer' = IF decision \in {"stop", "rework", "abort"} \/ final THEN decision ELSE "none"
  BY <1>1 DEF Answer, Harness!Terminal
<1> HIDE DEF decision, final
<1> QED
  BY <1>4, <1>5, <1>6, <1>7, <1>8 DEF Counting

LEMMA CallsAreSequences ==
    ASSUME NEW n \in Nat, NEW calls, DOMAIN calls = 1..n, calls = [i \in DOMAIN calls |-> calls[i]]
    PROVE  calls \in Seq(Range(calls))
<1>1. \A i \in 1..n : calls[i] \in Range(calls)
  BY DEF Range
<1>2. calls \in [1..n -> Range(calls)]
  BY <1>1
<1> QED
  BY <1>2

LEMMA SearchBrings ==
    ASSUME CountTypes, round < MaxRounds, NEW queries, Named(queries), NEW outputs \in BOOLEAN,
           SearchFor(queries, outputs)
    PROVE  IsMemory(memory') /\ memory'.kind = "search" /\ Counting
<1> DEFINE n == Len(queries)
<1>1. /\ n \in Nat /\ DOMAIN queries = 1..n
      /\ \A i \in 1..n : queries[i].entity \in Entities \cup {None}
  <2>1. n \in Nat /\ DOMAIN queries = 1..n
    BY DEF Named
  <2>2. \A i \in 1..n : queries[i] \in Range(queries)
    BY <2>1 DEF Range
  <2> QED
    BY <2>1, <2>2 DEF Named
<1> HIDE DEF n
<1>2. PICK a \in SearchAnswers(queries) :
        /\ memory' = a.results
        /\ RunRound(RoundResult(FALSE, Searches(queries), outputs, FALSE, a.failed))
  BY DEF SearchFor
<1>3. a.results \in SearchResults(queries) /\ a.failed \in BOOLEAN
  BY DEF SearchAnswers
<1> DEFINE asked == {queries[i].entity : i \in DOMAIN queries}
<1>4. PICK of \in Finds(queries), ok \in BOOLEAN : a.results = Brought(of, ok)
  BY <1>3 DEF SearchResults
<1>5. PICK U \in SUBSET Found : of \in [U -> asked]
  BY <1>4 DEF Finds
<1> DEFINE hits == {[url |-> u, entity |-> of[u]] : u \in DOMAIN of}
<1>6. hits \in SUBSET Place
  <2>1. asked \subseteq Entities \cup {None} /\ Found \subseteq Urls
    BY <1>1 DEF Urls
  <2>2. \A u \in DOMAIN of : u \in Found /\ of[u] \in asked
    BY <1>5
  <2> HIDE DEF asked
  <2> QED
    BY <2>1, <2>2 DEF Place
<1>7. IsFiniteSet(hits)
  <2> DEFINE f == [u \in U |-> [url |-> u, entity |-> of[u]]]
  <2>1. IsFiniteSet(U) /\ DOMAIN f = U
    BY UrlsAssumption, FS_Subset
  <2>2. {f[u] : u \in U} = hits
    BY <1>5
  <2> HIDE DEF f, hits
  <2>3. IsFiniteSet({f[u] : u \in U})
    BY <2>1, ImageIsFinite
  <2> QED
    BY <2>2, <2>3
<1> HIDE DEF asked, hits
<1>8. a.results = [kind |-> "search", hits |-> hits, ok |-> ok, pages |-> <<>>]
  BY <1>4 DEF hits, Brought
<1>9. IsMemory(memory') /\ memory'.kind = "search"
  <2>1. <<>> \in Seq(Page)
    OBVIOUS
  <2> QED
    BY <1>2, <1>6, <1>7, <1>8, <2>1 DEF IsMemory
<1>10. Searches(queries) \in Seq(Range(Searches(queries)))
  <2> DEFINE calls == Searches(queries)
  <2>1. DOMAIN calls = 1..n /\ calls = [i \in DOMAIN calls |-> calls[i]]
    BY <1>1 DEF Searches
  <2> HIDE DEF calls
  <2> QED
    BY <1>1, <2>1, CallsAreSequences DEF calls
<1>11. Counting
  BY <1>2, <1>3, <1>10, RoundCounts
<1> QED
  BY <1>9, <1>11

LEMMA FetchBrings ==
    ASSUME CountTypes, round < MaxRounds, NEW batch \in Seq(Place), NEW outputs \in BOOLEAN,
           NEW alternate \in BOOLEAN, FetchAll(batch, outputs, alternate)
    PROVE  IsMemory(memory') /\ memory'.kind = "fetch" /\ memory'.hits = {} /\ Counting
<1> DEFINE n == Len(batch)
<1>1. n \in Nat /\ DOMAIN batch = 1..n /\ \A i \in 1..n : batch[i] \in Place
  OBVIOUS
<1> HIDE DEF n
<1>2. PICK a \in FetchAnswers(batch) :
        /\ memory' = a.results
        /\ RunRound(RoundResult(FALSE, Fetches(batch), outputs, alternate, a.failed))
  BY DEF FetchAll
<1>3. PICK o \in [DOMAIN batch -> Outcomes] :
        a = [results |-> [kind |-> "fetch", hits |-> {}, ok |-> FALSE,
                          pages |-> [i \in DOMAIN batch |-> [url |-> batch[i].url, outcome |-> o[i],
                                                             entity |-> batch[i].entity]]],
             failed |-> "failed" \in Range(o)]
  BY DEF FetchAnswers
<1> DEFINE pages == [i \in DOMAIN batch |-> [url |-> batch[i].url, outcome |-> o[i],
                                             entity |-> batch[i].entity]]
<1>4. pages \in Seq(Page)
  <2>1. \A i \in 1..n :
            [url |-> batch[i].url, outcome |-> o[i], entity |-> batch[i].entity] \in Page
    BY <1>1 DEF Place, Page
  <2>2. pages \in [1..n -> Page]
    BY <1>1, <2>1
  <2> QED
    BY <1>1, <2>2
<1> HIDE DEF pages
<1>5. a.results = [kind |-> "fetch", hits |-> {}, ok |-> FALSE, pages |-> pages]
      /\ a.failed \in BOOLEAN
  BY <1>3 DEF pages
<1>6. IsMemory(memory') /\ memory'.kind = "fetch" /\ memory'.hits = {}
  <2>1. IsFiniteSet({})
    BY FS_EmptySet
  <2> QED
    BY <1>2, <1>4, <1>5, <2>1 DEF IsMemory
<1>7. Fetches(batch) \in Seq(Range(Fetches(batch)))
  <2> DEFINE calls == Fetches(batch)
  <2>1. DOMAIN calls = 1..n /\ calls = [i \in DOMAIN calls |-> calls[i]]
    BY <1>1 DEF Fetches
  <2> HIDE DEF calls
  <2> QED
    BY <1>1, <2>1, CallsAreSequences DEF calls
<1>8. Counting
  BY <1>2, <1>5, <1>7, RoundCounts
<1> QED
  BY <1>6, <1>8

LEMMA StopBrings ==
    ASSUME CountTypes, round < MaxRounds, NEW outputs \in BOOLEAN, Stop(outputs)
    PROVE  memory' = NoResults /\ Counting /\ answer' = "stop"
<1>1. /\ memory' = NoResults
      /\ RunRound(RoundResult(TRUE, <<>>, outputs, FALSE, FALSE))
  BY DEF Stop
<1>2. <<>> \in Seq(Range(<<>>))
  OBVIOUS
<1> QED
  BY <1>1, <1>2, RoundCounts

LEMMA NowGoes ==
    ASSUME Types, OneSourcePerPage
    PROVE  Goes(sources, Now)
<1>1. sources \in Seq(Saved) /\ target \in Nat /\ memory.pages \in Seq(Page)
  BY DEF Types, IsMemory
<1>2. Once(sources)
  BY DEF OneSourcePerPage, Once
<1> QED
  BY <1>1, <1>2, FilteredPages DEF Now

-----------------------------------------------------------------------------
(* The actions *)

\* What an action of the agent has to establish.
LEMMA RoundKeeps ==
    ASSUME CollInv, answer = "none", UNCHANGED context, Counting,
           IsMemory(memory'), IsAgent(agent'), sources' \in Seq(Saved), Once(sources'),
           signal' \in Signals, chosen' \in SUBSET Urls, PartialSignalled',
           answer' = "none" => Len(sources') < target /\ Begun' /\ Kept'
    PROVE  CollInv'
<1>1. Types'
  BY DEF CollInv, Types, CountTypes, Counting, context
<1>2. OneSourcePerPage'
  BY DEF Once, OneSourcePerPage
<1>3. answer' = "none" => Open'
  BY DEF Counting, Open, context
<1> QED
  BY <1>1, <1>2, <1>3 DEF CollInv

LEMMA RunningFacts ==
    ASSUME CollInv, answer = "none"
    PROVE  /\ Types /\ CountTypes /\ Open /\ Once(sources) /\ round < MaxRounds
           /\ Len(sources) < target /\ Begun /\ Kept
           /\ IsAgent(agent) /\ IsMemory(memory) /\ sources \in Seq(Saved) /\ target \in Nat
           /\ plan \in Entities \cup {None} /\ chosen \in SUBSET Urls
BY DEF CollInv, Types, Open, Once, OneSourcePerPage

\* A signal that says nothing of coverage.
LEMMA SaysNothing ==
    ASSUME signal' \in {"none", "coverage_partial", "search_exhausted", "no_new_sources"}
    PROVE  PartialSignalled'
BY DEF PartialSignalled

LEMMA CoveredByNone ==
    ASSUME sources \in Seq(Saved), target \in Nat, Len(sources) < target,
           Complete(agent, sources)
    PROVE  Missing(sources) = {}
<1>1. ~(Len(sources) >= target)
  <2>1. Len(sources) \in Nat
    OBVIOUS
  <2> QED
    BY <2>1
<1> QED
  BY <1>1 DEF Complete, CoversAll

LEMMA DoneKeeps ==
    ASSUME CollInv, Done
    PROVE  CollInv' /\ sources' = sources
<1>1. /\ answer = "none" /\ Complete(agent, sources)
      /\ agent' = FreshAgent /\ signal' = "sources_ready" /\ Stop(TRUE)
      /\ UNCHANGED context /\ sources' = sources /\ chosen' = chosen
  BY DEF Done
<1>2. /\ CountTypes /\ Once(sources) /\ round < MaxRounds /\ Len(sources) < target
      /\ sources \in Seq(Saved) /\ target \in Nat /\ chosen \in SUBSET Urls
  BY <1>1, RunningFacts
<1>3. memory' = NoResults /\ Counting /\ answer' = "stop"
  BY <1>1, <1>2, StopBrings
<1>4. PartialSignalled'
  <2>1. Missing(sources) = {}
    BY <1>1, <1>2, CoveredByNone
  <2> QED
    BY <1>1, <2>1 DEF PartialSignalled
<1>5. signal' \in Signals /\ answer' # "none"
  BY <1>1, <1>3 DEF Signals
<1>6. IsMemory(memory') /\ IsAgent(agent')
  BY <1>1, <1>3, FreshTypes
<1> QED
  BY <1>1, <1>2, <1>3, <1>4, <1>5, <1>6, RoundKeeps

LEMMA GenerateKeeps ==
    ASSUME CollInv, Generate
    PROVE  CollInv' /\ sources' = sources
<1>1. /\ answer = "none" /\ memory.kind = "none"
      /\ UNCHANGED context /\ sources' = sources /\ chosen' = chosen
  BY DEF Generate, Running
<1>2. /\ CountTypes /\ Once(sources) /\ round < MaxRounds /\ Len(sources) < target
      /\ sources \in Seq(Saved) /\ target \in Nat /\ chosen \in SUBSET Urls
      /\ Begun /\ IsAgent(agent) /\ plan \in Entities \cup {None}
  BY <1>1, RunningFacts
<1>3. agent.searched = FALSE /\ chosen = {}
  BY <1>1, <1>2 DEF Begun, IsAgent
<1>4. PICK queries \in InitialPlans :
        /\ agent' = [agent EXCEPT !.searched = TRUE, !.queried = UrlsOf(sources),
                                  !.baseline = Slots(Range(queries)),
                                  !.attempted = @ \cup Slots(Range(queries))]
        /\ signal' = "none"
        /\ SearchFor(queries, FALSE)
  BY <1>3 DEF Generate
<1>5. /\ Named(queries) /\ Range(queries) \in SUBSET Asked
      /\ Slots(Range(queries)) \in SUBSET Slot /\ Slots(Range(queries)) # {}
  BY <1>2, InitialPlansAreAsked, AskedIsNamed, AttemptedSlots
<1>6. IsMemory(memory') /\ memory'.kind = "search" /\ Counting
  BY <1>2, <1>4, <1>5, SearchBrings
<1>7. UrlsOf(sources) \in SUBSET (Urls \cup {Placeholder})
  <2>1. \A i \in DOMAIN sources : sources[i] \in Saved
    BY <1>2
  <2> QED
    BY <2>1 DEF UrlsOf, Saved
<1> DEFINE S == Slots(Range(queries))
           Q == UrlsOf(sources)
<1>8. agent' = [agent EXCEPT !.searched = TRUE, !.queried = Q, !.baseline = S,
                             !.attempted = @ \cup S]
  BY <1>4
<1>9. S \in SUBSET Slot /\ S # {} /\ Q \in SUBSET (Urls \cup {Placeholder})
  BY <1>5, <1>7
<1> HIDE DEF S, Q
<1>10. /\ IsAgent(agent') /\ agent'.searched = TRUE
       /\ agent'.baseline = S /\ agent'.attempted = agent.attempted \cup S
  BY <1>2, <1>8, <1>9 DEF IsAgent
<1>11. Begun' /\ Kept'
  BY <1>1, <1>3, <1>6, <1>9, <1>10 DEF Begun, Kept
<1>12. PartialSignalled' /\ signal' \in Signals
  BY <1>4, SaysNothing DEF Signals
<1> QED
  BY <1>1, <1>2, <1>6, <1>10, <1>11, <1>12, RoundKeeps

LEMMA FetchSelectedKeeps ==
    ASSUME CollInv, FetchSelected
    PROVE  CollInv' /\ sources' = sources
<1>1. PICK urls \in Selections(agent, memory.hits) \ {<<>>} :
        LET batch == FirstOf(Unqueried(agent, urls))
        IN  /\ agent' = [agent EXCEPT !.pending = urls, !.queried = @ \cup UrlsOf(batch)]
            /\ chosen' = chosen \cup UrlsOf(urls)
            /\ FetchAll(batch, FALSE, FALSE)
  BY DEF FetchSelected
<1>2. /\ answer = "none" /\ memory.kind = "search" /\ signal' = "none"
      /\ UNCHANGED context /\ sources' = sources
  BY DEF FetchSelected, Running
<1>3. /\ CountTypes /\ Once(sources) /\ round < MaxRounds /\ Len(sources) < target
      /\ sources \in Seq(Saved) /\ target \in Nat /\ chosen \in SUBSET Urls
      /\ Begun /\ Kept /\ IsAgent(agent) /\ IsMemory(memory)
  BY <1>2, RunningFacts
<1>4. urls \in Seq(Place)
  BY <1>3, SelectionsArePlaces DEF IsMemory
<1> DEFINE batch == FirstOf(Unqueried(agent, urls))
           B == UrlsOf(batch)
           U == UrlsOf(urls)
<1>5. /\ agent' = [agent EXCEPT !.pending = urls, !.queried = @ \cup B]
      /\ chosen' = chosen \cup U
      /\ FetchAll(batch, FALSE, FALSE)
  BY <1>1
<1>6. batch \in Seq(Place) /\ B \in SUBSET Urls /\ U \in SUBSET Urls
  BY <1>4, UnqueriedUrls, BatchAndRest, UrlsOfPlaces
<1> HIDE DEF batch, B
<1>7. IsMemory(memory') /\ memory'.kind = "fetch" /\ memory'.hits = {} /\ Counting
  BY <1>3, <1>5, <1>6, FetchBrings
<1>8. /\ IsAgent(agent') /\ agent'.searched = agent.searched /\ agent'.pending = urls
      /\ agent'.queried = agent.queried \cup B
      /\ agent'.baseline = agent.baseline /\ agent'.attempted = agent.attempted
  BY <1>3, <1>4, <1>5, <1>6 DEF IsAgent
<1>9. Begun'
  BY <1>2, <1>3, <1>7, <1>8 DEF Begun
<1>10. Kept'
  <2>1. chosen \subseteq agent.queried
    BY <1>2, <1>3 DEF Kept
  <2> QED
    BY <1>5, <1>7, <1>8, <2>1 DEF Kept
<1>11. PartialSignalled' /\ signal' \in Signals
  BY <1>2, SaysNothing DEF Signals
<1>12. chosen' \in SUBSET Urls
  BY <1>3, <1>5, <1>6
<1> QED
  BY <1>2, <1>3, <1>7, <1>8, <1>9, <1>10, <1>11, <1>12, RoundKeeps

LEMMA OfficialSlots ==
    ASSUME NEW batch \in Seq(Place)
    PROVE  Slots({Query(batch[i].entity, "official") : i \in DOMAIN batch}) \in SUBSET Slot
<1>1. \A i \in DOMAIN batch : batch[i] \in Place
  OBVIOUS
<1> DEFINE queries == {Query(batch[i].entity, "official") : i \in DOMAIN batch}
<1>2. ASSUME NEW q \in queries, q.entity # None
      PROVE  [entity |-> q.entity, dimension |-> Dimension(q.term), rival |-> q.rival] \in Slot
  <2>1. PICK i \in DOMAIN batch : q = Query(batch[i].entity, "official")
    BY <1>2
  <2>2. q.entity = batch[i].entity /\ q.term = "official" /\ q.rival = None
    BY <2>1 DEF Query
  <2>3. Dimension(q.term) = "official"
    BY <2>2 DEF Dimension
  <2> HIDE DEF queries
  <2> QED
    BY <1>1, <1>2, <2>2, <2>3 DEF Place, Slot, Terms
<1> HIDE DEF queries
<1>3. Slots(queries) \in SUBSET Slot
  BY <1>2 DEF Slots
<1> QED
  BY <1>3 DEF queries

LEMMA FetchDirectlyKeeps ==
    ASSUME CollInv, FetchDirectly
    PROVE  CollInv' /\ sources' = sources
<1> DEFINE urls  == Fallbacks(agent)
           batch == FirstOf(urls)
           B == UrlsOf(batch)
           S == Slots({Query(batch[i].entity, "official") : i \in DOMAIN batch})
<1>1. /\ answer = "none" /\ memory.kind = "search" /\ signal' = "none"
      /\ UNCHANGED context /\ sources' = sources
  BY DEF FetchDirectly, Running, FoundNothing
<1>2. /\ agent' = [agent EXCEPT !.pending = RestOf(urls), !.queried = @ \cup B,
                                !.attempted = @ \cup S]
      /\ chosen' = chosen \cup UrlsOf(urls)
      /\ FetchAll(batch, FALSE, FALSE)
  BY DEF FetchDirectly
<1>3. /\ CountTypes /\ Once(sources) /\ round < MaxRounds /\ Len(sources) < target
      /\ sources \in Seq(Saved) /\ target \in Nat /\ chosen \in SUBSET Urls
      /\ Begun /\ Kept /\ IsAgent(agent) /\ IsMemory(memory)
  BY <1>1, RunningFacts
<1>4. urls \in Seq(Place)
  BY FallbacksArePlaces
<1> HIDE DEF urls
<1>5. /\ batch \in Seq(Place) /\ RestOf(urls) \in Seq(Place)
      /\ UrlsOf(urls) \subseteq B \cup UrlsOf(RestOf(urls))
  BY <1>4, BatchAndRest
<1>6. UrlsOf(urls) \in SUBSET Urls
  BY <1>4, UrlsOfPlaces
<1> HIDE DEF batch
<1>7. B \in SUBSET Urls /\ S \in SUBSET Slot
  BY <1>5, UrlsOfPlaces, OfficialSlots
<1> HIDE DEF B, S
<1>8. IsMemory(memory') /\ memory'.kind = "fetch" /\ memory'.hits = {} /\ Counting
  BY <1>2, <1>3, <1>5, FetchBrings
<1>9. /\ IsAgent(agent') /\ agent'.searched = agent.searched /\ agent'.pending = RestOf(urls)
      /\ agent'.queried = agent.queried \cup B
      /\ agent'.baseline = agent.baseline /\ agent'.attempted = agent.attempted \cup S
  BY <1>2, <1>3, <1>5, <1>7 DEF IsAgent
<1>10. Begun'
  BY <1>1, <1>3, <1>8, <1>9 DEF Begun
<1>11. Kept'
  <2>1. chosen \subseteq agent.queried
    BY <1>1, <1>3 DEF Kept
  <2> QED
    BY <1>2, <1>5, <1>8, <1>9, <2>1 DEF Kept
<1>12. PartialSignalled' /\ signal' \in Signals
  BY <1>1, SaysNothing DEF Signals
<1>13. chosen' \in SUBSET Urls
  BY <1>2, <1>3, <1>6
<1> QED
  BY <1>1, <1>3, <1>8, <1>9, <1>10, <1>11, <1>12, <1>13, RoundKeeps

LEMMA SearchExhaustedKeeps ==
    ASSUME CollInv, SearchExhausted
    PROVE  CollInv' /\ sources' = sources
<1>1. /\ answer = "none" /\ signal' = "search_exhausted" /\ Stop(sources # <<>>)
      /\ UNCHANGED context /\ sources' = sources /\ chosen' = chosen /\ agent' = agent
  BY DEF SearchExhausted, Running
<1>2. /\ CountTypes /\ Once(sources) /\ round < MaxRounds /\ IsAgent(agent)
      /\ sources \in Seq(Saved) /\ target \in Nat /\ chosen \in SUBSET Urls
  BY <1>1, RunningFacts
<1>3. memory' = NoResults /\ Counting /\ answer' = "stop"
  <2>1. (sources # <<>>) \in BOOLEAN
    OBVIOUS
  <2> QED
    BY <1>1, <1>2, <2>1, StopBrings
<1>4. PartialSignalled' /\ signal' \in Signals
  BY <1>1, SaysNothing DEF Signals
<1>5. IsMemory(memory')
  BY <1>3, FreshTypes
<1>6. answer' # "none"
  BY <1>3
<1> QED
  BY <1>1, <1>2, <1>3, <1>4, <1>5, <1>6, RoundKeeps

LEMMA FetchPendingKeeps ==
    ASSUME CollInv, FetchPending
    PROVE  CollInv' /\ Goes(sources, sources')
<1> DEFINE batch == FirstOf(Pending)
           B == UrlsOf(batch)
           rest == RestOf(Pending)
<1>1. /\ answer = "none" /\ memory.kind \in {"fetch", "search"} /\ signal' = "none"
      /\ Pending # <<>> /\ Len(Now) < target
      /\ UNCHANGED context /\ sources' = Now /\ chosen' = chosen
      /\ agent' = [agent EXCEPT !.pending = rest, !.queried = @ \cup B]
      /\ FetchAll(batch, Now # sources, Errors)
  BY DEF FetchPending, Running, ToFilter
<1>2. /\ Types /\ CountTypes /\ round < MaxRounds /\ chosen \in SUBSET Urls
      /\ Begun /\ Kept /\ IsAgent(agent) /\ OneSourcePerPage
  BY <1>1, RunningFacts DEF CollInv
<1>3. Goes(sources, Now)
  BY <1>2, NowGoes
<1>4. Pending = Unqueried(agent, agent.pending) /\ memory.hits = {}
  BY <1>1 DEF Pending
<1>5. /\ Pending \in Seq(Place)
      /\ UrlsOf(agent.pending) \subseteq agent.queried \cup UrlsOf(Pending)
  <2>1. agent.pending \in Seq(Place)
    BY <1>2 DEF IsAgent
  <2> QED
    BY <1>4, <2>1, UnqueriedUrls
<1>6. /\ batch \in Seq(Place) /\ rest \in Seq(Place)
      /\ UrlsOf(Pending) \subseteq B \cup UrlsOf(rest)
  BY <1>5, BatchAndRest
<1> HIDE DEF batch, rest
<1>7. B \in SUBSET Urls
  BY <1>6, UrlsOfPlaces
<1> HIDE DEF B
<1>8. IsMemory(memory') /\ memory'.kind = "fetch" /\ memory'.hits = {} /\ Counting
  <2>1. (Now # sources) \in BOOLEAN /\ Errors \in BOOLEAN
    BY DEF Errors
  <2> QED
    BY <1>1, <1>2, <1>6, <2>1, FetchBrings
<1>9. /\ IsAgent(agent') /\ agent'.searched = agent.searched /\ agent'.pending = rest
      /\ agent'.queried = agent.queried \cup B
      /\ agent'.baseline = agent.baseline /\ agent'.attempted = agent.attempted
  BY <1>1, <1>2, <1>6, <1>7 DEF IsAgent
<1>10. Begun'
  BY <1>1, <1>2, <1>8, <1>9 DEF Begun
<1>11. Kept'
  <2>1. chosen \subseteq agent.queried \cup UrlsOf(agent.pending)
    BY <1>2 DEF Kept
  <2> QED
    BY <1>1, <1>5, <1>6, <1>8, <1>9, <2>1 DEF Kept
<1>12. PartialSignalled' /\ signal' \in Signals
  BY <1>1, SaysNothing DEF Signals
<1>13. /\ sources' \in Seq(Saved) /\ Once(sources') /\ Len(sources') < target
       /\ chosen' \in SUBSET Urls
  BY <1>1, <1>2, <1>3 DEF Goes
<1> QED
  BY <1>1, <1>3, <1>8, <1>9, <1>10, <1>11, <1>12, <1>13, RoundKeeps

\* What is still to be asked for when a collection that is incomplete has nothing pending.
LEMMA NothingIsLeft ==
    ASSUME Types, Kept, memory.kind \in {"search", "fetch"}, Pending = <<>>
    PROVE  chosen \subseteq agent.queried
<1>1. CASE memory.kind = "search"
  BY <1>1 DEF Kept
<1>2. CASE memory.kind = "fetch"
  <2>1. memory.hits = {}
    BY <1>2 DEF Kept
  <2>2. Unqueried(agent, agent.pending) = <<>>
    BY <2>1 DEF Pending
  <2>3. agent.pending \in Seq(Place)
    BY DEF Types, IsAgent
  <2>4. UrlsOf(agent.pending) \subseteq agent.queried \cup UrlsOf(<<>>)
    BY <2>2, <2>3, UnqueriedUrls
  <2>5. UrlsOf(<<>>) = {}
    BY DEF UrlsOf
  <2> QED
    BY <2>4, <2>5 DEF Kept
<1> QED
  BY <1>1, <1>2

LEMMA Incomplete ==
    ASSUME Types, OneSourcePerPage, ~Complete(agent, Now)
    PROVE  Len(Now) < target
<1>1. Now \in Seq(Saved)
  BY NowGoes DEF Goes
<1>2. Len(Now) \in Nat /\ target \in Nat /\ ~(Len(Now) >= target)
  BY <1>1 DEF Types, Complete
<1> QED
  BY <1>2

LEMMA RefineKeeps ==
    ASSUME CollInv, Refine
    PROVE  CollInv' /\ Goes(sources, sources')
<1>1. PICK queries \in Refinements(Now) \ {<<>>} :
        /\ agent' = [agent EXCEPT !.pending = IF memory.hits # {} THEN <<>> ELSE @,
                                  !.baseline = @ \cup Slots(Range(queries)),
                                  !.attempted = @ \cup Slots(Range(queries))]
        /\ SearchFor(queries, Now # sources)
  BY DEF Refine
<1>2. /\ answer = "none" /\ memory.kind \in {"search", "fetch"} /\ signal' = "none"
      /\ NothingPending /\ ~Complete(agent, Now) /\ agent.searched
      /\ UNCHANGED context /\ sources' = Now /\ chosen' = chosen
  BY DEF Refine, Running, ToFilter
<1>3. /\ Types /\ CountTypes /\ round < MaxRounds /\ chosen \in SUBSET Urls /\ target \in Nat
      /\ Begun /\ Kept /\ IsAgent(agent) /\ OneSourcePerPage
  BY <1>2, RunningFacts DEF CollInv
<1>4. Goes(sources, Now) /\ Len(Now) < target
  BY <1>2, <1>3, NowGoes, Incomplete
<1>5. chosen \subseteq agent.queried
  <2>1. ~(Len(Now) >= target)
    <3>1. Len(Now) \in Nat
      BY <1>4 DEF Goes
    <3> QED
      BY <1>3, <1>4, <3>1
  <2>2. Pending = <<>>
    BY <1>2, <2>1 DEF NothingPending
  <2> QED
    BY <1>2, <1>3, <2>2, NothingIsLeft
<1> DEFINE S == Slots(Range(queries))
           pending == IF memory.hits # {} THEN <<>> ELSE agent.pending
<1>6. Named(queries) /\ S \in SUBSET Slot
  BY <1>1, RefinementsAreNamed
<1>7. agent' = [agent EXCEPT !.pending = pending, !.baseline = @ \cup S, !.attempted = @ \cup S]
  BY <1>1, <1>3 DEF IsAgent
<1>8. pending \in Seq(Place)
  BY <1>3 DEF IsAgent
<1> HIDE DEF S, pending
<1>9. IsMemory(memory') /\ memory'.kind = "search" /\ Counting
  <2>1. (Now # sources) \in BOOLEAN
    OBVIOUS
  <2> QED
    BY <1>1, <1>3, <1>6, <2>1, SearchBrings
<1>10. /\ IsAgent(agent') /\ agent'.searched = agent.searched
       /\ agent'.queried = agent.queried
       /\ agent'.baseline = agent.baseline \cup S /\ agent'.attempted = agent.attempted \cup S
  BY <1>3, <1>6, <1>7, <1>8 DEF IsAgent
<1>11. Begun'
  BY <1>2, <1>3, <1>9, <1>10 DEF Begun
<1>12. Kept'
  BY <1>2, <1>5, <1>9, <1>10 DEF Kept
<1>13. PartialSignalled' /\ signal' \in Signals
  BY <1>2, SaysNothing DEF Signals
<1>14. /\ sources' \in Seq(Saved) /\ Once(sources') /\ Len(sources') < target
       /\ chosen' \in SUBSET Urls
  BY <1>2, <1>3, <1>4 DEF Goes
<1> QED
  BY <1>2, <1>4, <1>9, <1>10, <1>11, <1>12, <1>13, <1>14, RoundKeeps

\* A round that asks for nothing more ends the collection.
LEMMA FinishedIsComplete ==
    ASSUME CollInv, FinishRound
    PROVE  Complete(agent, Now)
<1>1. SUFFICES ASSUME ~Complete(agent, Now) PROVE FALSE
  OBVIOUS
<1>2. /\ answer = "none" /\ memory.kind \in {"search", "fetch"}
      /\ ~agent.searched \/ GapPlan(Now) = <<>>
  BY <1>1 DEF FinishRound, Running, ToFilter
<1>3. Begun
  BY <1>2, RunningFacts
<1>4. agent.searched /\ agent.baseline # {} /\ agent.baseline \subseteq agent.attempted
  BY <1>2, <1>3 DEF Begun
<1>5. Missing(Now) = {}
  BY <1>2, <1>4, GapPlanIsAsked
<1>6. Covered(Now) # {}
  BY <1>5, RequiredFacts DEF Missing
<1> QED
  BY <1>1, <1>4, <1>5, <1>6 DEF Complete, AttemptsComplete, CoversAll

LEMMA FinishRoundKeeps ==
    ASSUME CollInv, FinishRound
    PROVE  CollInv' /\ Goes(sources, sources')
<1>1. Complete(agent, Now)
  BY FinishedIsComplete
<1>2. /\ answer = "none" /\ UNCHANGED context /\ sources' = Now /\ chosen' = chosen
      /\ agent' = FreshAgent /\ memory' = NoResults
      /\ signal' = IF Partial(Now) THEN "coverage_partial" ELSE "sources_saved"
      /\ RunRound(RoundResult(TRUE, <<>>, Now # sources, FALSE, FALSE))
  BY <1>1 DEF FinishRound, Running
<1>3. /\ Types /\ CountTypes /\ round < MaxRounds /\ chosen \in SUBSET Urls /\ OneSourcePerPage
  BY <1>2, RunningFacts DEF CollInv
<1>4. Goes(sources, Now)
  BY <1>3, NowGoes
<1>5. Counting /\ answer' = "stop"
  <2>1. (Now # sources) \in BOOLEAN /\ <<>> \in Seq(Range(<<>>))
    OBVIOUS
  <2> QED
    BY <1>2, <1>3, <2>1, RoundCounts
<1>6. PartialSignalled'
  <2>1. ~Partial(Now) /\ Len(Required) > 1 => Missing(Now) = {}
    BY DEF Partial
  <2> QED
    BY <1>2, <2>1 DEF PartialSignalled
<1>7. signal' \in Signals /\ answer' # "none" /\ IsMemory(memory') /\ IsAgent(agent')
  BY <1>2, <1>5, FreshTypes DEF Signals
<1>8. sources' \in Seq(Saved) /\ Once(sources') /\ chosen' \in SUBSET Urls
  BY <1>2, <1>3, <1>4 DEF Goes
<1> QED
  BY <1>2, <1>4, <1>5, <1>6, <1>7, <1>8, RoundKeeps

LEMMA ReinvokeKeeps ==
    ASSUME CollInv, Reinvoke
    PROVE  CollInv' /\ answer # "none"
<1> DEFINE p == [url |-> Placeholder, entity |-> None]
<1>1. /\ answer # "none" /\ invocations < MaxInvocations /\ round < MaxRounds
      /\ invocations' = invocations + 1 /\ plan' \in Entities \cup {None}
      /\ sources' \in {sources, Append(sources, p)}
      /\ target' = Max({2, Len(sources') + 2})
      /\ agent' = FreshAgent /\ memory' = NoResults
      /\ retryCounts' = [k \in {"error", "stall"} |-> 0]
      /\ signal' = "none" /\ answer' = "none" /\ chosen' = {}
      /\ round' = round /\ sigCounts' = sigCounts
  BY DEF Reinvoke, Rework
<1>2. Types /\ OneSourcePerPage
  BY DEF CollInv
<1>3. sources' \in Seq(Saved) /\ Once(sources')
  <2>1. sources \in Seq(Saved) /\ Once(sources)
    BY <1>2 DEF Types, OneSourcePerPage, Once
  <2>2. CASE sources' = sources
    BY <2>1, <2>2
  <2>3. CASE sources' = Append(sources, p)
    <3> DEFINE n == Len(sources)
    <3>1. p \in Saved /\ p.url = Placeholder
      BY DEF Saved
    <3> HIDE DEF p
    <3>2. /\ sources' \in Seq(Saved) /\ n \in Nat /\ DOMAIN sources = 1..n
          /\ DOMAIN sources' = 1..(n + 1)
          /\ \A i \in 1..n : sources'[i] = sources[i]
          /\ sources'[n + 1] = p
      BY <2>1, <2>3, <3>1, CoveredByMore
    <3> HIDE DEF n
    <3>3. \A i, j \in 1..n :
             sources'[i].url = sources'[j].url => i = j \/ sources'[i].url = Placeholder
      BY <2>1, <3>2 DEF Once
    <3>4. \A i \in 1..(n + 1) : i \in 1..n \/ i = n + 1
      BY <3>2
    <3> QED
      BY <3>1, <3>2, <3>3, <3>4 DEF Once
  <2> QED
    BY <1>1, <2>2, <2>3
<1>4. target' \in Nat /\ Len(sources') < target'
  <2>1. Len(sources') \in Nat
    BY <1>3
  <2>2. 2 \in Int /\ Len(sources') + 2 \in Int
    BY <2>1
  <2>3. Max({2, Len(sources') + 2}) \in {2, Len(sources') + 2}
        /\ Max({2, Len(sources') + 2}) >= Len(sources') + 2
    BY <2>2, GreaterOfTwo, Zenon
  <2> QED
    BY <1>1, <2>1, <2>3
<1>5. Types'
  <2>1. invocations' \in 1..MaxInvocations
    BY <1>1, <1>2, CollectorBounds DEF Types, CountTypes
  <2>2. CountTypes'
    BY <1>1, <1>2, <2>1 DEF Types, CountTypes
  <2>3. signal' \in Signals /\ chosen' \subseteq Urls
    BY <1>1 DEF Signals
  <2> QED
    BY <1>1, <1>3, <1>4, <2>2, <2>3, FreshTypes DEF Types
<1>6. OneSourcePerPage' /\ PartialSignalled'
  BY <1>1, <1>3 DEF Once, OneSourcePerPage, PartialSignalled
<1>7. Begun' /\ Kept'
  BY <1>1, FreshTypes DEF Begun, Kept
<1> QED
  BY <1>1, <1>4, <1>5, <1>6, <1>7 DEF CollInv, Open

LEMMA InitKeeps ==
    ASSUME Init
    PROVE  CollInv
<1>1. /\ agent = FreshAgent /\ memory = NoResults
      /\ sources = <<>> /\ target = FirstTarget /\ plan = None /\ round = 0
      /\ sigCounts = [s \in Signatures |-> 0] /\ retryCounts = [k \in {"error", "stall"} |-> 0]
      /\ signal = "none" /\ answer = "none" /\ invocations = 1 /\ chosen = {}
  BY DEF Init
<1>2. FirstTarget \in Nat \ {0} /\ MaxRounds \in Nat \ {0} /\ MaxInvocations \in Nat \ {0}
  BY CollectorBounds
<1>3. Types
  <2>1. CountTypes
    BY <1>1, <1>2 DEF CountTypes
  <2> QED
    BY <1>1, <1>2, <2>1, FreshTypes DEF Types, Signals
<1>4. OneSourcePerPage /\ PartialSignalled
  BY <1>1 DEF OneSourcePerPage, PartialSignalled
<1>5. Open
  BY <1>1, <1>2, FreshTypes DEF Open, Begun, Kept
<1> QED
  BY <1>3, <1>4, <1>5 DEF CollInv

LEMMA NextKeeps ==
    ASSUME CollInv, [Next]_vars
    PROVE  CollInv'
<1>1. CASE Done
  BY <1>1, DoneKeeps
<1>2. CASE Generate
  BY <1>2, GenerateKeeps
<1>3. CASE FetchSelected
  BY <1>3, FetchSelectedKeeps
<1>4. CASE FetchDirectly
  BY <1>4, FetchDirectlyKeeps
<1>5. CASE SearchExhausted
  BY <1>5, SearchExhaustedKeeps
<1>6. CASE FetchPending
  BY <1>6, FetchPendingKeeps
<1>7. CASE Refine
  BY <1>7, RefineKeeps
<1>8. CASE FinishRound
  BY <1>8, FinishRoundKeeps
<1>9. CASE Reinvoke
  BY <1>9, ReinvokeKeeps
<1>10. CASE UNCHANGED vars
  BY <1>10 DEF vars, CollInv, Types, CountTypes, OneSourcePerPage, PartialSignalled, Open, Begun,
               Kept, Missing, Covered, UrlsOf
<1> QED
  BY <1>1, <1>2, <1>3, <1>4, <1>5, <1>6, <1>7, <1>8, <1>9, <1>10 DEF Next, Round

LEMMA CollectionKeeps == Spec => []CollInv
<1> QED
  BY InitKeeps, NextKeeps, PTL DEF Spec

-----------------------------------------------------------------------------
(* The theorems *)

\* The state keeps its types: what is pending, found, fetched or saved is a url that can
\* be found or guessed, for an entity of the brief or for none.
THEOREM TypeCorrect == Spec => []TypeOK
<1>1. ASSUME CollInv PROVE TypeOK
  <2>1. /\ IsAgent(agent) /\ IsMemory(memory) /\ CountTypes
        /\ sources \in Seq(Saved) /\ target \in Nat /\ plan \in Entities \cup {None}
        /\ signal \in Signals
        /\ answer \in {"none", "stop", "abort", "retry"} /\ chosen \subseteq Urls
    BY <1>1 DEF CollInv, Types
  <2>2. /\ agent.searched \in BOOLEAN /\ agent.queried \subseteq Urls \cup {Placeholder}
        /\ \A s \in agent.baseline \cup agent.attempted :
            s.entity \in Entities /\ s.dimension \in Terms /\ s.rival \in Entities \cup {None}
    BY <2>1 DEF IsAgent, Slot
  <2>3. \A i \in DOMAIN agent.pending : IsPlaced(agent.pending[i])
    <3>1. agent.pending \in Seq(Place)
      BY <2>1 DEF IsAgent
    <3>2. \A i \in DOMAIN agent.pending : agent.pending[i] \in Place
      BY <3>1
    <3> QED
      BY <3>2 DEF Place, IsPlaced
  <2>4. /\ memory.kind \in {"none", "search", "fetch"} /\ memory.ok \in BOOLEAN
        /\ \A h \in memory.hits : IsPlaced(h)
    BY <2>1 DEF IsMemory, Place, IsPlaced
  <2>5. \A i \in DOMAIN memory.pages : memory.pages[i].outcome \in Outcomes
    <3>1. memory.pages \in Seq(Page)
      BY <2>1 DEF IsMemory
    <3>2. \A i \in DOMAIN memory.pages : memory.pages[i] \in Page
      BY <3>1
    <3> QED
      BY <3>2 DEF Page
  <2>6. \A i \in DOMAIN sources : IsPlaced(sources[i])
    <3>1. \A i \in DOMAIN sources : sources[i] \in Saved
      BY <2>1
    <3> QED
      BY <3>1 DEF Saved, IsPlaced
  <2> QED
    BY <2>1, <2>2, <2>3, <2>4, <2>5, <2>6 DEF TypeOK, CountTypes, Signals
<1> QED
  BY <1>1, CollectionKeeps, PTL

\* A page is one source, whatever was searched, selected or fetched twice, and however
\* often the collector was invoked again: _filter_and_save looks every url up among the
\* sources of the run and those it has just saved.
THEOREM PagesSavedOnce == Spec => []OneSourcePerPage
<1>1. CollInv => OneSourcePerPage
  BY DEF CollInv
<1> QED
  BY <1>1, CollectionKeeps, PTL

\* A collector that ends on its own terms, with sources it calls ready or saved, covers
\* every entity of a brief that has competitors: otherwise its event signals that the
\* coverage is partial.
THEOREM PartialIsSignalled == Spec => []PartialSignalled
<1>1. CollInv => PartialSignalled
  BY DEF CollInv
<1> QED
  BY <1>1, CollectionKeeps, PTL

\* When the collector searches again it has asked for every url it selected before, those
\* that waited in later batches too.
THEOREM NothingDropped == Spec => []NothingSelectedDropped
<1>1. CollInv => NothingSelectedDropped
  BY DEF CollInv, Open, Kept, NothingSelectedDropped
<1> QED
  BY <1>1, CollectionKeeps, PTL

\* The reset at the end of run_round is never reached: a round that leaves the collection
\* incomplete has asked the tools for something, so the next one has results to go on.
THEOREM NeverOver == Spec => []NeverStartsOver
<1>1. CollInv => NeverStartsOver
  BY DEF CollInv, Open, Begun, NeverStartsOver
<1> QED
  BY <1>1, CollectionKeeps, PTL

\* What is covered before a source is what the sequence up to it covers.
LEMMA CoveredBefore ==
    ASSUME NEW srcs \in Seq(Saved), NEW i \in DOMAIN srcs
    PROVE  Covered(SubSeq(srcs, 1, i - 1)) = Before(srcs, i)
<1> DEFINE part == SubSeq(srcs, 1, i - 1)
<1>1. /\ i \in 1..Len(srcs) /\ Len(srcs) \in Nat /\ 1 \in Int /\ i - 1 \in Int
      /\ \A j \in 1..Len(srcs) : srcs[j] \in Saved
  OBVIOUS
<1>2. \A j \in 1..(i - 1) : srcs[j] \in Saved
  BY <1>1
<1>3. /\ part \in Seq(Saved) /\ Len(part) = i - 1
      /\ \A j \in 1..(i - 1) : part[j] = srcs[j]
  BY <1>1, <1>2, SubSeqProperties
<1> HIDE DEF part
<1>4. DOMAIN part = 1..(i - 1)
  BY <1>3
<1>5. Covered(part) = Before(srcs, i)
  BY <1>3, <1>4 DEF Covered, Before
<1> QED
  BY <1>5 DEF part

\* Once an entity is covered, no place is spent on an entity that has a source while
\* another has none, in any round: the pages of one batch are told apart as well.
THEOREM GapsComeFirst == Spec => CoverageFirst
<1> DEFINE Step ==
        answer = "none" /\ Covered(sources) # {} =>
            \A i \in DOMAIN sources' \ DOMAIN sources :
                LET before == SubSeq(sources', 1, i - 1)
                IN  Missing(before) # {} /\ sources'[i].entity # None
                    => sources'[i].entity \notin Covered(before)
<1>1. ASSUME CollInv, [Next]_vars PROVE [Step]_vars
  <2>1. CASE sources' = sources
    BY <2>1
  <2>2. CASE Goes(sources, sources')
    <3> SUFFICES ASSUME Covered(sources) # {}, NEW i \in DOMAIN sources' \ DOMAIN sources,
                        Missing(SubSeq(sources', 1, i - 1)) # {}, sources'[i].entity # None
                 PROVE  sources'[i].entity \notin Covered(SubSeq(sources', 1, i - 1))
      OBVIOUS
    <3>1. sources' \in Seq(Saved) /\ GapsFirst(sources, sources')
      BY <2>2 DEF Goes
    <3>2. Covered(SubSeq(sources', 1, i - 1)) = Before(sources', i)
      BY <3>1, CoveredBefore
    <3>3. Entities \ Before(sources', i) # {}
      BY <3>2 DEF Missing
    <3> QED
      BY <3>1, <3>2, <3>3 DEF GapsFirst
  <2>3. CASE answer # "none"
    BY <2>3
  <2>4. sources' = sources \/ Goes(sources, sources') \/ answer # "none"
    <3>1. CASE Done \/ Generate \/ FetchSelected \/ FetchDirectly \/ SearchExhausted
      BY <1>1, <3>1, DoneKeeps, GenerateKeeps, FetchSelectedKeeps, FetchDirectlyKeeps,
         SearchExhaustedKeeps
    <3>2. CASE FetchPending \/ Refine \/ FinishRound
      BY <1>1, <3>2, FetchPendingKeeps, RefineKeeps, FinishRoundKeeps
    <3>3. CASE Reinvoke
      BY <1>1, <3>3, ReinvokeKeeps
    <3>4. CASE UNCHANGED vars
      BY <3>4 DEF vars
    <3> QED
      BY <1>1, <3>1, <3>2, <3>3, <3>4 DEF Next, Round
  <2> QED
    BY <2>1, <2>2, <2>3, <2>4
<1>2. [][Step]_vars => CoverageFirst
  BY DEF CoverageFirst
<1> QED
  BY <1>1, <1>2, CollectionKeeps, PTL DEF Spec
=============================================================================
