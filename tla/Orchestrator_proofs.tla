------------------------- MODULE Orchestrator_proofs -------------------------
(***************************************************************************)
(* What a run may ship, for any bounds on what its agents save and say,    *)
(* any number of rework attempts, with and without a model or a deadline.  *)
(***************************************************************************)
EXTENDS Orchestrator, NaturalSets, FiniteSetTheorems, SequenceTheorems, TLAPS

-----------------------------------------------------------------------------
(* What becomes a caveat *)

Sound(result) ==
    /\ result.error # "max_attempts_exceeded"
    /\ result.status = "approved_with_caveats" /\ result.error # "global_timeout" =>
           \A fb \in Blocking(result.caveats) : ~MissingSource(fb) /\ left = 0

\* Each iteration of the rework loop has made one attempt.
AttemptsCounted ==
    /\ left \in 0..MaxRework
    /\ \E S : applied \in Seq(S)
    /\ Len(applied) = MaxRework - left

CaveatInv ==
    /\ AttemptsCounted
    /\ phase # "done" => outcome = NoResult
    /\ Sound(outcome)

LEMMA AttemptsAreApplied ==
    ASSUME NEW S, applied \in Seq(S), NEW fb
    PROVE  Attempts(fb) \in Nat /\ Attempts(fb) <= Len(applied)
<1>1. Len(applied) \in Nat /\ DOMAIN applied = 1..Len(applied)
  OBVIOUS
<1>2. IsFiniteSet(1..Len(applied)) /\ Cardinality(1..Len(applied)) = Len(applied)
  BY <1>1, FS_Interval
<1>3. {i \in DOMAIN applied : applied[i].key = Key(fb)} \subseteq 1..Len(applied)
  BY <1>1
<1> QED
  BY <1>1, <1>2, <1>3, FS_Subset, FS_CardinalityType DEF Attempts

LEMMA TimeoutIsSound == Sound(TimeoutResult)
BY DEF Sound, TimeoutResult, RunResult

LEMMA ReviewedIsSound == ASSUME NEW fbs PROVE Sound(ReviewedResult(fbs))
BY DEF Sound, ReviewedResult, RunResult, Advisories, Blocking

LEMMA UnresolvedIsSound ==
    ASSUME NEW fbs, left = 0
    PROVE  Sound(UnresolvedResult(fbs, "max_rework_attempts_exceeded"))
BY DEF Sound, UnresolvedResult, UnresolvedStatus, RunResult, Blocking

\* Whatever ends the run ends it with a sound result.
LEMMA CaveatInvFinish ==
    ASSUME CaveatInv, NEW result, Sound(result), Finish(result), UNCHANGED <<left, applied>>
    PROVE  CaveatInv'
BY DEF CaveatInv, AttemptsCounted, Sound, Finish

LEMMA CaveatInvEnterRework ==
    ASSUME CaveatInv, phase = "pipeline", NEW fbs, EnterRework(fbs)
    PROVE  CaveatInv'
<1>1. CASE EnableRework
  BY <1>1 DEF EnterRework, CaveatInv, AttemptsCounted, Sound
<1>2. CASE ~EnableRework
  <2>1. Sound(RunResult("needs_rework", fbs, {}, "none"))
    BY DEF Sound, RunResult
  <2> QED
    BY <1>2, <2>1, CaveatInvFinish DEF EnterRework, Finish
<1> QED
  BY <1>1, <1>2

\* An attempt is refused only when the loop has no iteration left for it either.
LEMMA CaveatInvApply ==
    ASSUME CaveatInv, NEW fb, Apply(fb)
    PROVE  CaveatInv'
<1>1. PICK S : applied \in Seq(S)
  BY DEF CaveatInv, AttemptsCounted
<1>2. /\ left \in 0..MaxRework /\ left > 0 /\ Len(applied) = MaxRework - left
      /\ MaxRework \in Nat
  BY ReworkAssumption DEF CaveatInv, AttemptsCounted, Apply
<1>3. ~(Attempts(fb) >= MaxRework)
  BY <1>1, <1>2, AttemptsAreApplied
<1>4. CASE Collides(store, fb)
  <2>1. Sound(Raised("duplicate_artifact"))
    BY DEF Sound, Raised, NoResult
  <2> QED
    BY <1>3, <1>4, <2>1, CaveatInvFinish DEF Apply
<1>5. CASE ~Collides(store, fb)
  <2> DEFINE attempt == [key |-> Key(fb), at |-> Len(store')]
  <2>1. /\ applied' = Append(applied, attempt) /\ left' = left - 1
        /\ phase' = "route" /\ phase = "rework" /\ UNCHANGED outcome
    BY <1>3, <1>5 DEF Apply
  <2> HIDE DEF attempt
  <2>2. applied \in Seq(S \cup {attempt})
    BY <1>1
  <2>3. applied' \in Seq(S \cup {attempt}) /\ Len(applied') = Len(applied) + 1
    BY <2>1, <2>2
  <2>4. AttemptsCounted'
    <3>1. left' \in 0..MaxRework /\ Len(applied') = MaxRework - left'
      BY <1>2, <2>1, <2>3
    <3> QED
      BY <2>3, <3>1 DEF AttemptsCounted
  <2>5. outcome = NoResult
    BY <2>1 DEF CaveatInv
  <2> QED
    BY <2>1, <2>4, <2>5 DEF CaveatInv, Sound, NoResult
<1> QED
  BY <1>4, <1>5

LEMMA CaveatInvStep == CaveatInv /\ [Next]_vars => CaveatInv'
<1> SUFFICES ASSUME CaveatInv, [Next]_vars PROVE CaveatInv'
  OBVIOUS
<1>1. CASE UNCHANGED <<left, applied, phase, outcome>>
  BY <1>1 DEF CaveatInv, AttemptsCounted, Sound
<1>2. CASE DeadlinePasses \/ RunCollector \/ RunWriter \/ RerunCollector \/ RerunAnalyst
           \/ RerunWriter \/ UNCHANGED vars
  BY <1>1, <1>2 DEF DeadlinePasses, RunCollector, RunWriter, RerunCollector, RerunAnalyst,
                    RerunWriter, vars
<1>3. CASE TimeOut \/ ReworkTimesOut
  BY <1>3, CaveatInvFinish, TimeoutIsSound DEF TimeOut, ReworkTimesOut
<1>4. CASE Approve
  BY <1>4, CaveatInvFinish, ReviewedIsSound DEF Approve
<1>5. CASE AgentRaises
  <2>1. Sound(Raised("agent"))
    BY DEF Sound, Raised, NoResult
  <2> QED
    BY <1>5, <2>1, CaveatInvFinish DEF AgentRaises
<1>6. ASSUME NEW agent, NEW stores, AgentAborts(agent, stores) PROVE CaveatInv'
  <2>1. Sound(RunResult("aborted", {}, {}, "agent_aborted"))
    BY DEF Sound, RunResult
  <2> QED
    BY <1>6, <2>1, CaveatInvFinish DEF AgentAborts
<1>7. CASE ReworkGivesUp
  BY <1>7, CaveatInvFinish, UnresolvedIsSound DEF ReworkGivesUp
<1>8. CASE RunAnalyst
  <2>1. phase = "pipeline"
    BY <1>8 DEF RunAnalyst, AtBoundary
  <2>2. EnterRework(CoverageFeedback) \/ UNCHANGED <<left, applied, phase, outcome>>
    BY <1>8 DEF RunAnalyst
  <2> QED
    BY <1>1, <2>1, <2>2, CaveatInvEnterRework
<1>9. CASE RunReviewer
  <2>1. phase = "pipeline"
    BY <1>9 DEF RunReviewer, AtBoundary
  <2>2. EnterRework(review'.feedback) \/ UNCHANGED <<left, applied, phase, outcome>>
    BY <1>9 DEF RunReviewer
  <2> QED
    BY <1>1, <2>1, <2>2, CaveatInvEnterRework
<1>10. CASE RerunReviewer
  <2>1. phase = "route" /\ UNCHANGED <<left, applied>>
    BY <1>10 DEF RerunReviewer, InRoute
  <2>2. \/ Finish(ReviewedResult(review'.feedback))
        \/ phase' = "rework" /\ UNCHANGED outcome
    BY <1>10 DEF RerunReviewer
  <2>3. CASE phase' = "rework" /\ UNCHANGED outcome
    BY <2>1, <2>3 DEF CaveatInv, AttemptsCounted, Sound
  <2>4. CASE Finish(ReviewedResult(review'.feedback))
    <3>1. PICK fbs : Finish(ReviewedResult(fbs))
      BY <2>4
    <3> QED
      BY <2>1, <3>1, CaveatInvFinish, ReviewedIsSound
  <2> QED
    BY <2>2, <2>3, <2>4
<1> QED
  BY <1>2, <1>3, <1>4, <1>5, <1>6, <1>7, <1>8, <1>9, <1>10, CaveatInvApply DEF Next, Proceeds

LEMMA CaveatInvAlways == Spec => []CaveatInv
<1>1. Init => CaveatInv
  <2> SUFFICES ASSUME Init PROVE CaveatInv
    OBVIOUS
  <2>1. applied \in Seq({}) /\ Len(applied) = 0
    BY DEF Init
  <2>2. AttemptsCounted
    BY <2>1, ReworkAssumption DEF Init, AttemptsCounted
  <2> QED
    BY <2>2 DEF Init, CaveatInv, Sound, NoResult
<1> QED
  BY <1>1, CaveatInvStep, PTL DEF Spec

\* Blocking feedback ships as a caveat only when the rework loop is exhausted, and a
\* blocking lack of sources never does.
THEOREM CaveatsAreEarned == Spec => []MissingSourceNeverCaveat
<1>1. CaveatInv => MissingSourceNeverCaveat
  BY DEF CaveatInv, Sound, MissingSourceNeverCaveat, TimedOut
<1> QED
  BY <1>1, CaveatInvAlways, PTL

\* A feedback triple never uses up its attempts in ReworkLoop.apply: the loop around
\* it makes as many iterations as a triple has attempts, and so ends first.
THEOREM TriplesNeverRunOut == Spec => [](outcome.error # "max_attempts_exceeded")
<1>1. CaveatInv => outcome.error # "max_attempts_exceeded"
  BY DEF CaveatInv, Sound
<1> QED
  BY <1>1, CaveatInvAlways, PTL

-----------------------------------------------------------------------------
(* The store of a run *)

IdSuffixes == [version : Nat, verified : BOOLEAN]
Ids == [kind : Types \cup {"none", "coverage", "question", "missing_report", "deadline"},
        n : Nat, tail : Seq(IdSuffixes)]
SourceArtifacts ==
    [id : Ids, run : {Run}, type : {"source"}, version : Nat \ {0}, sup : Ids,
     status : Statuses]
ClaimArtifacts ==
    [id : Ids, run : {Run}, type : {"claim"}, version : Nat \ {0}, sup : Ids,
     status : Statuses, cites : SUBSET Ids, accuracy : {"unverified", "partial", "unsupported"}]
ReportArtifacts ==
    [id : Ids, run : {Run}, type : {"report"}, version : Nat \ {0}, sup : Ids,
     status : Statuses, claims : (SUBSET Ids) \ {{}}, sources : SUBSET Ids, complete : BOOLEAN]
Artifacts == SourceArtifacts \cup ClaimArtifacts \cup ReportArtifacts

All(st, type) == Listed(st, Run, type, Statuses)

\* Ids that the agents count are not ahead of the count; those the rework loop and the
\* reviewer derive have a tail.
Numbered(a, st) ==
    a.id.tail = <<>> => a.id.kind = a.type /\ a.id.n <= Cardinality(All(st, a.type))
ReportNamed(a) == a.type = "report" => a.id.kind = "report"

StoreInv(st) ==
    /\ st \in Seq(Artifacts)
    /\ IdsUniqueIn(st) /\ SuccessorsKept(st)
    /\ \A i \in DOMAIN st : Numbered(st[i], st) /\ ReportNamed(st[i])

LEMMA ArtifactFacts ==
    ASSUME NEW a \in Artifacts
    PROVE  /\ a.id \in Ids /\ a.run = Run /\ a.type \in Types /\ a.version \in Nat \ {0}
           /\ a.sup \in Ids /\ a.status \in Statuses
           /\ a.type = "source" => a \in SourceArtifacts
           /\ a.type = "claim" => a \in ClaimArtifacts
           /\ a.type = "report" => a \in ReportArtifacts
BY DEF Artifacts, SourceArtifacts, ClaimArtifacts, ReportArtifacts, Types

LEMMA RestatusFacts ==
    ASSUME NEW a \in Artifacts, NEW s \in Statuses
    PROVE  LET b == [a EXCEPT !.status = s]
           IN  /\ b \in Artifacts /\ b.status = s
               /\ b.id = a.id /\ b.run = a.run /\ b.type = a.type /\ b.version = a.version
               /\ b.sup = a.sup
               /\ a.type = "claim" => b.cites = a.cites /\ b.accuracy = a.accuracy
               /\ a.type = "report" => b.claims = a.claims /\ b.sources = a.sources
<1>1. CASE a \in SourceArtifacts
  BY <1>1 DEF Artifacts, SourceArtifacts
<1>2. CASE a \in ClaimArtifacts
  BY <1>2 DEF Artifacts, ClaimArtifacts
<1>3. CASE a \in ReportArtifacts
  BY <1>3 DEF Artifacts, ReportArtifacts
<1> QED
  BY <1>1, <1>2, <1>3 DEF Artifacts

LEMMA StoreFacts ==
    ASSUME NEW st \in Seq(Artifacts)
    PROVE  /\ Len(st) \in Nat /\ DOMAIN st = 1..Len(st)
           /\ \A i \in DOMAIN st : st[i] \in Artifacts
           /\ \A run, type, statuses :
                  /\ Listed(st, run, type, statuses) \subseteq 1..Len(st)
                  /\ IsFiniteSet(Listed(st, run, type, statuses))
                  /\ Cardinality(Listed(st, run, type, statuses)) \in Nat
<1>1. /\ Len(st) \in Nat /\ DOMAIN st = 1..Len(st)
      /\ \A i \in DOMAIN st : st[i] \in Artifacts
  OBVIOUS
<1>2. IsFiniteSet(1..Len(st))
  BY <1>1, FS_Interval
<1>3. ASSUME NEW run, NEW type, NEW statuses
      PROVE  Listed(st, run, type, statuses) \subseteq 1..Len(st)
  BY <1>1 DEF Listed
<1> QED
  BY <1>1, <1>2, <1>3, FS_Subset, FS_CardinalityType

\* A later store holds what an earlier one held, in its place; only statuses differ.
Continues(st, later) ==
    /\ later \in Seq(Artifacts) /\ Len(st) <= Len(later)
    /\ \A i \in 1..Len(st) : later[i] = [st[i] EXCEPT !.status = later[i].status]

LEMMA ContinuesFacts ==
    ASSUME NEW st \in Seq(Artifacts), NEW later, Continues(st, later)
    PROVE  /\ DOMAIN st \subseteq DOMAIN later
           /\ \A i \in DOMAIN st :
                  /\ later[i].id = st[i].id /\ later[i].run = st[i].run
                  /\ later[i].type = st[i].type /\ later[i].version = st[i].version
                  /\ later[i].sup = st[i].sup
                  /\ st[i].type = "claim" => later[i].cites = st[i].cites
                                             /\ later[i].accuracy = st[i].accuracy
                  /\ st[i].type = "report" => later[i].claims = st[i].claims
                                              /\ later[i].sources = st[i].sources
           /\ \A type : Cardinality(All(st, type)) <= Cardinality(All(later, type))
<1>1. later \in Seq(Artifacts) /\ Len(st) <= Len(later)
  BY DEF Continues
<1>2. /\ Len(st) \in Nat /\ DOMAIN st = 1..Len(st) /\ Len(later) \in Nat
      /\ DOMAIN later = 1..Len(later) /\ DOMAIN st \subseteq DOMAIN later
  BY <1>1, StoreFacts
<1>3. ASSUME NEW i \in DOMAIN st
      PROVE  /\ later[i].id = st[i].id /\ later[i].run = st[i].run
             /\ later[i].type = st[i].type /\ later[i].version = st[i].version
             /\ later[i].sup = st[i].sup
             /\ st[i].type = "claim" => later[i].cites = st[i].cites
                                        /\ later[i].accuracy = st[i].accuracy
             /\ st[i].type = "report" => later[i].claims = st[i].claims
                                         /\ later[i].sources = st[i].sources
  <2>1. st[i] \in Artifacts /\ later[i].status \in Statuses
    BY <1>1, <1>2, ArtifactFacts, StoreFacts
  <2>2. later[i] = [st[i] EXCEPT !.status = later[i].status]
    BY <1>2 DEF Continues
  <2> DEFINE s == later[i].status
  <2>3. s \in Statuses /\ later[i] = [st[i] EXCEPT !.status = s]
    BY <2>1, <2>2
  <2> HIDE DEF s
  <2> QED
    BY <2>1, <2>3, RestatusFacts
<1>4. ASSUME NEW type
      PROVE  Cardinality(All(st, type)) <= Cardinality(All(later, type))
  <2>1. All(st, type) \subseteq All(later, type)
    <3>1. \A i \in DOMAIN later : later[i].status \in Statuses
      BY <1>1, <1>2, StoreFacts, ArtifactFacts
    <3> QED
      BY <1>2, <1>3, <3>1 DEF All, Listed
  <2> QED
    BY <1>1, <2>1, StoreFacts, FS_Subset DEF All
<1> QED
  BY <1>2, <1>3, <1>4

\* What a step on the store has to show: ids of its own for what it saves, and a
\* successor for what it supersedes.
LEMMA StoreInvKept ==
    ASSUME NEW st, StoreInv(st), NEW later, Continues(st, later),
           \A i \in DOMAIN later \ DOMAIN st :
               /\ \A j \in DOMAIN later : later[i].id = later[j].id => i = j
               /\ Numbered(later[i], later) /\ ReportNamed(later[i]),
           \A i \in DOMAIN later : later[i].status = "superseded" =>
               \/ i \in DOMAIN st /\ st[i].status = "superseded"
               \/ \E j \in DOMAIN later : Succeeds(later[j], later[i])
    PROVE  StoreInv(later)
<1>1. /\ st \in Seq(Artifacts) /\ IdsUniqueIn(st) /\ SuccessorsKept(st)
      /\ \A i \in DOMAIN st : Numbered(st[i], st) /\ ReportNamed(st[i])
  BY DEF StoreInv
<1>2. /\ DOMAIN st \subseteq DOMAIN later
      /\ \A i \in DOMAIN st :
             /\ later[i].id = st[i].id /\ later[i].run = st[i].run
             /\ later[i].type = st[i].type /\ later[i].version = st[i].version
             /\ later[i].sup = st[i].sup
      /\ \A type : Cardinality(All(st, type)) <= Cardinality(All(later, type))
  BY <1>1, ContinuesFacts
<1>3. IdsUniqueIn(later)
  BY <1>1, <1>2 DEF IdsUniqueIn
<1>4. SuccessorsKept(later)
  <2> SUFFICES ASSUME NEW i \in DOMAIN later, later[i].status = "superseded"
               PROVE  \E j \in DOMAIN later : Succeeds(later[j], later[i])
    BY DEF SuccessorsKept
  <2>1. CASE i \in DOMAIN st /\ st[i].status = "superseded"
    <3>1. PICK j \in DOMAIN st : Succeeds(st[j], st[i])
      BY <1>1, <2>1 DEF SuccessorsKept
    <3>2. Succeeds(later[j], later[i]) /\ j \in DOMAIN later
      BY <1>2, <2>1, <3>1 DEF Succeeds
    <3> QED
      BY <3>2
  <2> QED
    BY <2>1
<1>5. ASSUME NEW i \in DOMAIN st PROVE Numbered(later[i], later) /\ ReportNamed(later[i])
  <2>1. ReportNamed(later[i])
    BY <1>1, <1>2 DEF ReportNamed
  <2>2. ASSUME later[i].id.tail = <<>>
        PROVE  /\ later[i].id.kind = later[i].type
               /\ later[i].id.n <= Cardinality(All(later, later[i].type))
    <3>1. st[i].id.kind = st[i].type /\ st[i].id.n <= Cardinality(All(st, st[i].type))
      BY <1>1, <1>2, <2>2 DEF Numbered
    <3>2. /\ Cardinality(All(st, st[i].type)) <= Cardinality(All(later, st[i].type))
          /\ Cardinality(All(st, st[i].type)) \in Nat
          /\ Cardinality(All(later, st[i].type)) \in Nat /\ st[i].id.n \in Nat
      BY <1>1, <1>2, StoreFacts, ArtifactFacts DEF All, Ids, Continues
    <3>3. st[i].id.n <= Cardinality(All(later, st[i].type))
      BY <3>1, <3>2
    <3> QED
      BY <1>2, <3>1, <3>3
  <2> QED
    BY <2>1, <2>2 DEF Numbered
<1> QED
  BY <1>3, <1>4, <1>5 DEF StoreInv, Continues

-----------------------------------------------------------------------------
(* Collector and analyst: artifacts of one type, numbered on from the count *)

LEMMA PlacesAfter ==
    ASSUME NEW m \in Nat, NEW n \in Nat
    PROVE  /\ IsFiniteSet((m + 1)..(m + n)) /\ Cardinality((m + 1)..(m + n)) = n
           /\ \A S : S \subseteq 1..m => S \cap (m + 1)..(m + n) = {}
<1>1. m + 1 \in Int /\ m + n \in Int /\ (m + 1 > m + n => n = 0)
      /\ (m + n) - (m + 1) + 1 = n
  OBVIOUS
<1>2. \A S : S \subseteq 1..m => S \cap (m + 1)..(m + n) = {}
  OBVIOUS
<1> QED
  BY <1>1, <1>2, FS_Interval

LEMMA CountAppended ==
    ASSUME NEW st \in Seq(Artifacts), NEW new \in Seq(Artifacts), NEW type,
           \A k \in DOMAIN new : new[k].type = type
    PROVE  Cardinality(All(st \o new, type)) = Cardinality(All(st, type)) + Len(new)
<1>1. /\ Len(st) \in Nat /\ DOMAIN st = 1..Len(st) /\ Len(new) \in Nat
      /\ DOMAIN new = 1..Len(new)
      /\ st \o new \in Seq(Artifacts) /\ DOMAIN (st \o new) = 1..(Len(st) + Len(new))
      /\ \A i \in 1..Len(st) : (st \o new)[i] = st[i]
      /\ \A i \in (Len(st) + 1)..(Len(st) + Len(new)) : (st \o new)[i] = new[i - Len(st)]
  OBVIOUS
<1>2. All(st \o new, type) = All(st, type) \cup (Len(st) + 1)..(Len(st) + Len(new))
  <2>1. ASSUME NEW i \in (Len(st) + 1)..(Len(st) + Len(new))
        PROVE  (st \o new)[i].run = Run /\ (st \o new)[i].type = type
               /\ (st \o new)[i].status \in Statuses
    <3>1. i - Len(st) \in DOMAIN new /\ (st \o new)[i] = new[i - Len(st)]
      BY <1>1
    <3> QED
      BY <3>1, StoreFacts, ArtifactFacts
  <2>2. \A i \in 1..(Len(st) + Len(new)) :
            i \in 1..Len(st) \/ i \in (Len(st) + 1)..(Len(st) + Len(new))
    BY <1>1
  <2>3. /\ 1..Len(st) \subseteq 1..(Len(st) + Len(new))
        /\ (Len(st) + 1)..(Len(st) + Len(new)) \subseteq 1..(Len(st) + Len(new))
    BY <1>1
  <2> DEFINE both == st \o new
  <2>4. All(both, type) \subseteq All(st, type) \cup (Len(st) + 1)..(Len(st) + Len(new))
    BY <1>1, <2>2 DEF All, Listed
  <2>5. All(st, type) \cup (Len(st) + 1)..(Len(st) + Len(new)) \subseteq All(both, type)
    BY <1>1, <2>1, <2>3 DEF All, Listed
  <2> QED
    BY <2>4, <2>5
<1>3. /\ IsFiniteSet(All(st, type)) /\ Cardinality(All(st, type)) \in Nat
      /\ All(st, type) \subseteq 1..Len(st)
  BY StoreFacts DEF All
<1> DEFINE added == (Len(st) + 1)..(Len(st) + Len(new))
<1>4. IsFiniteSet(added) /\ Cardinality(added) = Len(new) /\ All(st, type) \cap added = {}
  BY <1>1, <1>3, PlacesAfter
<1>5. Cardinality({}) = 0
  BY FS_EmptySet
<1> HIDE DEF added
<1>6. Cardinality(All(st, type) \cup added)
          = Cardinality(All(st, type)) + Cardinality(added)
  <2>1. Cardinality(All(st, type) \cup added)
            = Cardinality(All(st, type)) + Cardinality(added)
              - Cardinality(All(st, type) \cap added)
    BY <1>3, <1>4, FS_Union
  <2>2. Cardinality(All(st, type) \cap added) = 0
    BY <1>4, <1>5
  <2>3. Cardinality(added) \in Nat
    BY <1>1, <1>4
  <2> QED
    BY <1>3, <2>1, <2>2, <2>3
<1> QED
  BY <1>2, <1>4, <1>6 DEF added

LEMMA BaseIdFacts ==
    \A kind, n : BaseId(kind, n).kind = kind /\ BaseId(kind, n).n = n
                 /\ BaseId(kind, n).tail = <<>>
BY DEF BaseId

LEMMA NumberedAppended ==
    ASSUME NEW st, StoreInv(st), NEW new \in Seq(Artifacts), NEW type \in Types,
           \A k \in DOMAIN new :
               new[k].type = type /\ new[k].status = "active" /\ new[k].id = NextId(st, type, k)
    PROVE  StoreInv(st \o new)
<1> DEFINE later == st \o new
           m == Len(st)
<1>1. /\ st \in Seq(Artifacts) /\ IdsUniqueIn(st)
      /\ \A i \in DOMAIN st : Numbered(st[i], st) /\ ReportNamed(st[i])
  BY DEF StoreInv
<1>2. /\ m \in Nat /\ DOMAIN st = 1..m /\ Len(new) \in Nat /\ DOMAIN new = 1..Len(new)
      /\ later \in Seq(Artifacts) /\ DOMAIN later = 1..(m + Len(new))
      /\ Len(later) = m + Len(new)
      /\ \A i \in 1..m : later[i] = st[i]
      /\ \A i \in DOMAIN later \ DOMAIN st : i - m \in DOMAIN new /\ later[i] = new[i - m]
  BY <1>1
<1>3. Continues(st, later)
  <2>1. \A i \in 1..m : later[i] = [st[i] EXCEPT !.status = later[i].status]
    <3>1. \A a \in Artifacts : a = [a EXCEPT !.status = a.status]
      BY DEF Artifacts, SourceArtifacts, ClaimArtifacts, ReportArtifacts
    <3> QED
      BY <1>2, <3>1, <1>1, StoreFacts
  <2> QED
    BY <1>2, <2>1 DEF Continues
<1>4. Cardinality(All(later, type)) = Cardinality(All(st, type)) + Len(new)
  BY <1>1, CountAppended
<1>5. Cardinality(All(st, type)) \in Nat
  BY <1>1, StoreFacts DEF All
<1>6. ASSUME NEW i \in DOMAIN later \ DOMAIN st
      PROVE  /\ later[i].type = type /\ later[i].status = "active"
             /\ later[i].id = BaseId(type, Cardinality(All(st, type)) + (i - m))
             /\ i - m \in 1..Len(new)
  BY <1>2, <1>6 DEF NextId, All
<1>7. ASSUME NEW i \in DOMAIN later \ DOMAIN st
      PROVE  Numbered(later[i], later) /\ ReportNamed(later[i])
  <2> DEFINE k == i - m
             c == Cardinality(All(st, type))
  <2>1. /\ later[i].type = type /\ later[i].id = BaseId(type, c + k) /\ k \in 1..Len(new)
        /\ c \in Nat /\ Len(new) \in Nat /\ Cardinality(All(later, type)) = c + Len(new)
    BY <1>2, <1>4, <1>5, <1>6, <1>7
  <2> HIDE DEF k, c, later
  <2>2. c + k <= Cardinality(All(later, type))
    BY <2>1
  <2>3. later[i].id.kind = type /\ later[i].id.n = c + k
    BY <2>1, BaseIdFacts
  <2> QED
    BY <2>1, <2>2, <2>3 DEF Numbered, ReportNamed
<1>8. ASSUME NEW i \in DOMAIN later \ DOMAIN st, NEW j \in DOMAIN later,
             later[i].id = later[j].id
      PROVE  i = j
  <2>1. CASE j \in DOMAIN st
    <3>1. /\ st[j].id.tail = <<>> /\ st[j].id.kind = type
          /\ st[j].id.n = Cardinality(All(st, type)) + (i - m)
      <4>1. later[j] = st[j]
        BY <1>2, <2>1
      <4> HIDE DEF later, m
      <4> QED
        BY <1>6, <1>8, <4>1, BaseIdFacts
    <3>2. st[j].id.n <= Cardinality(All(st, type))
      BY <1>1, <2>1, <3>1 DEF Numbered
    <3> QED
      BY <1>2, <1>5, <1>6, <3>1, <3>2
  <2>2. CASE j \notin DOMAIN st
    <3>1. later[j].id = BaseId(type, Cardinality(All(st, type)) + (j - m)) /\ j - m \in 1..Len(new)
      BY <1>6, <2>2
    <3>2. Cardinality(All(st, type)) + (i - m) = Cardinality(All(st, type)) + (j - m)
      <4> HIDE DEF later, m
      <4> QED
        BY <1>6, <1>8, <3>1, BaseIdFacts
    <3> QED
      BY <1>2, <1>5, <1>6, <3>1, <3>2
  <2> QED
    BY <2>1, <2>2
<1>9. \A i \in DOMAIN later : later[i].status = "superseded" =>
          i \in DOMAIN st /\ st[i].status = "superseded"
  BY <1>2, <1>6
<1> HIDE DEF later
<1>10. StoreInv(later)
  BY <1>3, <1>7, <1>8, <1>9, StoreInvKept
<1> QED
  BY <1>10 DEF later

LEMMA NextIdType ==
    ASSUME NEW st \in Seq(Artifacts), NEW type \in Types, NEW k \in Nat
    PROVE  NextId(st, type, k) \in Ids
<1>1. Cardinality(All(st, type)) + k \in Nat
  <2>1. Cardinality(All(st, type)) \in Nat
    BY StoreFacts DEF All
  <2> QED
    BY <2>1
<1>2. <<>> \in Seq(IdSuffixes)
  OBVIOUS
<1> QED
  BY <1>1, <1>2 DEF NextId, BaseId, Ids, All

LEMMA NoIdType == NoId \in Ids /\ "active" \in Statuses
<1>1. <<>> \in Seq(IdSuffixes)
  OBVIOUS
<1> QED
  BY <1>1 DEF NoId, BaseId, Ids, Statuses

LEMMA CollectedKeeps ==
    ASSUME NEW st, StoreInv(st), NEW later \in Collected(st)
    PROVE  StoreInv(later)
<1>1. PICK n \in 0..MaxNewSources : later = st \o NewSources(st, n)
  BY DEF Collected
<1>2. n \in Nat /\ st \in Seq(Artifacts) /\ "source" \in Types
  BY <1>1, BoundsAssumption DEF StoreInv, Types
<1> DEFINE new == NewSources(st, n)
<1>3. /\ DOMAIN new = 1..n
      /\ \A k \in 1..n : new[k] = NewSource(NextId(st, "source", k))
  BY DEF NewSources
<1>4. ASSUME NEW k \in 1..n
      PROVE  /\ new[k] \in Artifacts /\ new[k].type = "source" /\ new[k].status = "active"
             /\ new[k].id = NextId(st, "source", k)
  <2>1. NextId(st, "source", k) \in Ids
    BY <1>2, <1>4, NextIdType
  <2> QED
    BY <1>3, <1>4, <2>1, NoIdType DEF NewSource, Artifacts, SourceArtifacts
<1>5. new \in Seq(Artifacts)
  <2>1. new \in [1..n -> Artifacts]
    BY <1>3, <1>4 DEF NewSources
  <2> HIDE DEF new
  <2> QED
    BY <1>2, <2>1
<1> HIDE DEF new
<1>6. StoreInv(st \o new)
  BY <1>2, <1>3, <1>4, <1>5, NumberedAppended
<1> QED
  BY <1>1, <1>6 DEF new

LEMMA AtMostFacts ==
    ASSUME NEW k \in Nat, NEW S, NEW C \in AtMost(k, S)
    PROVE  C \subseteq S /\ IsFiniteSet(C)
<1>1. CASE C = {}
  BY <1>1, FS_EmptySet
<1>2. CASE \E f \in [1..k -> S] : C = {f[i] : i \in 1..k}
  <2>1. PICK f \in [1..k -> S] : C = {f[i] : i \in 1..k}
    BY <1>2
  <2>2. f \in Surjection(1..k, C)
    BY <2>1 DEF Surjection
  <2>3. ExistsSurjection(1..k, C)
    BY <2>2 DEF ExistsSurjection
  <2> QED
    BY <2>1, <2>3, FS_NatSurjection
<1> QED
  BY <1>1, <1>2 DEF AtMost

\* SetToSeq lists each element of a finite set once.
LEMMA SetToSeqFacts ==
    ASSUME NEW S, IsFiniteSet(S)
    PROVE  /\ Cardinality(S) \in Nat
           /\ SetToSeq(S) \in [1..Cardinality(S) -> S]
           /\ \A i, j \in 1..Cardinality(S) : SetToSeq(S)[i] = SetToSeq(S)[j] => i = j
           /\ \A x \in S : \E i \in 1..Cardinality(S) : SetToSeq(S)[i] = x
<1> DEFINE n == Cardinality(S)
<1>1. n \in Nat /\ ExistsBijection(1..n, S)
  BY FS_CardinalityType
<1> HIDE DEF n
<1>2. \E f \in [1..n -> S] : IsInjective(f)
  BY <1>1 DEF ExistsBijection, Bijection, Injection
<1> DEFINE s == CHOOSE f \in [1..n -> S] : IsInjective(f)
<1>3. s \in [1..n -> S] /\ IsInjective(s)
  BY <1>2
<1>4. SetToSeq(S) = s
  BY DEF SetToSeq, n
<1> HIDE DEF s
<1>5. s \in Injection(1..n, S)
  BY <1>3 DEF Injection
<1>6. Cardinality(1..n) = n /\ n = Cardinality(S)
  BY <1>1, FS_Interval DEF n
<1>7. s \in Surjection(1..n, S)
  BY <1>5, <1>6, FS_Injection
<1> QED
  BY <1>1, <1>3, <1>4, <1>7 DEF Surjection, IsInjective, n

LEMMA ActiveIdsType ==
    ASSUME NEW st \in Seq(Artifacts), NEW type
    PROVE  ActiveIds(st, type) \subseteq Ids
BY StoreFacts, ArtifactFacts DEF ActiveIds, Active, Listed

LEMMA AnalysedKeeps ==
    ASSUME NEW st, StoreInv(st), NEW later \in Analysed(st)
    PROVE  StoreInv(later)
<1>1. PICK C \in AtMost(MaxNewClaims, Citable(st)) : later = st \o NewClaims(st, SetToSeq(C))
  BY DEF Analysed
<1>2. st \in Seq(Artifacts) /\ "claim" \in Types /\ MaxNewClaims \in Nat
  BY BoundsAssumption DEF StoreInv, Types
<1>3. C \subseteq SUBSET Ids /\ IsFiniteSet(C)
  <2>1. Citable(st) \subseteq SUBSET Ids
    BY <1>2, ActiveIdsType DEF Citable
  <2> QED
    BY <1>1, <1>2, <2>1, AtMostFacts
<1> DEFINE n == Cardinality(C)
           new == NewClaims(st, SetToSeq(C))
<1>4. n \in Nat /\ SetToSeq(C) \in [1..n -> C]
  BY <1>3, SetToSeqFacts
<1> HIDE DEF n
<1>5. /\ new \in [1..n -> {NewClaim(NextId(st, "claim", k), SetToSeq(C)[k]) : k \in 1..n}]
      /\ \A k \in 1..n : new[k] = NewClaim(NextId(st, "claim", k), SetToSeq(C)[k])
  BY <1>4 DEF NewClaims
<1>6. ASSUME NEW k \in 1..n
      PROVE  /\ new[k] \in Artifacts /\ new[k].type = "claim" /\ new[k].status = "active"
             /\ new[k].id = NextId(st, "claim", k)
  <2>1. NextId(st, "claim", k) \in Ids /\ SetToSeq(C)[k] \in SUBSET Ids
    BY <1>2, <1>3, <1>4, <1>6, NextIdType
  <2> HIDE DEF new
  <2> QED
    BY <1>5, <1>6, <2>1, NoIdType DEF NewClaim, Artifacts, ClaimArtifacts
<1> HIDE DEF new
<1>7. new \in Seq(Artifacts) /\ DOMAIN new = 1..n
  <2>1. new \in [1..n -> Artifacts]
    BY <1>5, <1>6
  <2> QED
    BY <1>4, <2>1
<1>8. StoreInv(st \o new)
  BY <1>2, <1>6, <1>7, NumberedAppended
<1> QED
  BY <1>1, <1>8 DEF new

-----------------------------------------------------------------------------
(* Writer: the latest report *)

\* The place get_latest_report chooses; there is only one.
Top(st, i) ==
    /\ i \in Active(st, Run, "report")
    /\ \A j \in Active(st, Run, "report") :
           st[j].version < st[i].version \/ (st[j].version = st[i].version /\ i <= j)

LEMMA TopExists ==
    ASSUME NEW st \in Seq(Artifacts), HasReport(st, Run)
    PROVE  \E i : Top(st, i)
<1> DEFINE R == Active(st, Run, "report")
           V == {st[i].version : i \in R}
           f == [i \in 1..Len(st) |-> st[i].version]
<1>1. /\ R # {} /\ R \subseteq 1..Len(st) /\ Len(st) \in Nat
      /\ \A i \in 1..Len(st) : st[i].version \in Nat
  BY StoreFacts, ArtifactFacts DEF HasReport, Active
<1>2. f \in [1..Len(st) -> Nat]
  BY <1>1
<1> HIDE DEF R
<1>3. PICK b \in Nat : \A i \in 1..Len(st) : f[i] <= b
  <2> HIDE DEF f
  <2> QED
    BY <1>1, <1>2, BoundOfSequence
<1>4. V \in SUBSET Nat /\ V # {} /\ \A v \in V : v <= b
  BY <1>1, <1>3
<1>5. PICK v \in V : \A w \in V : w <= v
  <2> HIDE DEF V, f
  <2> QED
    BY <1>4, Greatest
<1> DEFINE T == {i \in R : st[i].version = v}
<1>6. T \in SUBSET Nat /\ T # {}
  <2>1. \E i \in R : st[i].version = v
    BY <1>5
  <2>2. \A i \in R : i \in Nat
    BY <1>1
  <2> QED
    BY <2>1, <2>2
<1>7. PICK i \in T : \A j \in T : i <= j
  <2> HIDE DEF T
  <2> QED
    BY <1>6, Smallest
<1>8. ASSUME NEW j \in R PROVE st[j].version < v \/ st[j].version = v
  <2>1. st[j].version \in V /\ v \in V
    BY <1>5, <1>8
  <2> HIDE DEF V, T, f
  <2>2. v \in Nat /\ st[j].version \in Nat /\ st[j].version <= v
    BY <1>4, <1>5, <2>1
  <2> QED
    BY <2>2
<1>9. \A j \in R : st[j].version = v => i <= j
  BY <1>7
<1>10. i \in R /\ st[i].version = v
  BY <1>7
<1> QED
  BY <1>8, <1>9, <1>10 DEF Top, R

LEMMA TopUnique ==
    ASSUME NEW st \in Seq(Artifacts), NEW i, NEW j, Top(st, i), Top(st, j)
    PROVE  i = j
<1>1. i \in 1..Len(st) /\ j \in 1..Len(st) /\ Len(st) \in Nat
  BY StoreFacts DEF Top, Active
<1>2. st[i].version \in Nat /\ st[j].version \in Nat
  BY <1>1, StoreFacts, ArtifactFacts
<1> QED
  BY <1>1, <1>2 DEF Top

LEMMA LatestFacts ==
    ASSUME NEW st \in Seq(Artifacts), HasReport(st, Run)
    PROVE  \E i : Top(st, i) /\ LatestReport(st, Run) = st[i]
<1> DEFINE R == Active(st, Run, "report")
<1>1. \E i \in R : \A j \in R :
          st[j].version < st[i].version \/ (st[j].version = st[i].version /\ i <= j)
  BY TopExists DEF Top
<1> DEFINE c == CHOOSE i \in R : \A j \in R :
                    st[j].version < st[i].version \/ (st[j].version = st[i].version /\ i <= j)
<1>2. c \in R /\ \A j \in R :
          st[j].version < st[c].version \/ (st[j].version = st[c].version /\ c <= j)
  BY <1>1
<1>3. LatestReport(st, Run) = st[c]
  BY DEF LatestReport
<1> HIDE DEF c
<1> QED
  BY <1>2, <1>3 DEF Top

LEMMA TopFacts ==
    ASSUME NEW st \in Seq(Artifacts), NEW i, Top(st, i)
    PROVE  /\ i \in DOMAIN st /\ st[i] \in ReportArtifacts /\ st[i].status = "active"
           /\ LatestReport(st, Run) = st[i] /\ HasReport(st, Run)
<1>1. i \in DOMAIN st /\ st[i].status = "active" /\ st[i].type = "report" /\ HasReport(st, Run)
  BY DEF Top, Active, Listed, HasReport
<1>2. st[i] \in ReportArtifacts
  BY <1>1, StoreFacts, ArtifactFacts
<1>3. PICK j : Top(st, j) /\ LatestReport(st, Run) = st[j]
  BY <1>1, LatestFacts
<1> QED
  BY <1>1, <1>2, <1>3, TopUnique

LEMMA PlaceFacts ==
    ASSUME NEW st, NEW id, Stored(st, id)
    PROVE  Place(st, id) \in DOMAIN st /\ st[Place(st, id)].id = id /\ Get(st, id).id = id
BY DEF Stored, Place, Get

\* The place of an artifact whose place is known.
LEMMA PlaceIs ==
    ASSUME NEW st, IdsUniqueIn(st), NEW i \in DOMAIN st
    PROVE  Place(st, st[i].id) = i /\ Get(st, st[i].id) = st[i] /\ Stored(st, st[i].id)
<1>1. Stored(st, st[i].id)
  BY DEF Stored
<1> QED
  BY <1>1, PlaceFacts DEF IdsUniqueIn, Get

LEMMA WithStatusFacts ==
    ASSUME NEW st \in Seq(Artifacts), NEW id, Stored(st, id), NEW s \in Statuses
    PROVE  /\ Continues(st, WithStatus(st, id, s)) /\ Len(WithStatus(st, id, s)) = Len(st)
           /\ WithStatus(st, id, s) \in Seq(Artifacts)
           /\ DOMAIN WithStatus(st, id, s) = DOMAIN st
           /\ \A i \in DOMAIN st : WithStatus(st, id, s)[i].status =
                  IF i = Place(st, id) THEN s ELSE st[i].status
<1> DEFINE p == Place(st, id)
           later == WithStatus(st, id, s)
<1>1. p \in DOMAIN st /\ st[p] \in Artifacts /\ DOMAIN st = 1..Len(st) /\ Len(st) \in Nat
      /\ \A i \in DOMAIN st : st[i] \in Artifacts
  BY PlaceFacts, StoreFacts
<1>2. later = [st EXCEPT ![p] = [st[p] EXCEPT !.status = s]]
  BY DEF WithStatus
<1>3. [st[p] EXCEPT !.status = s] \in Artifacts /\ [st[p] EXCEPT !.status = s].status = s
  BY <1>1, RestatusFacts
<1> HIDE DEF p, later
<1>4. /\ later \in Seq(Artifacts) /\ Len(later) = Len(st) /\ DOMAIN later = DOMAIN st
      /\ \A i \in DOMAIN st : later[i] = IF i = p THEN [st[p] EXCEPT !.status = s] ELSE st[i]
  BY <1>1, <1>2, <1>3
<1>5. \A a \in Artifacts : a = [a EXCEPT !.status = a.status]
  BY DEF Artifacts, SourceArtifacts, ClaimArtifacts, ReportArtifacts
<1>6. \A i \in DOMAIN st : later[i].status = IF i = p THEN s ELSE st[i].status
  BY <1>3, <1>4
<1>7. \A i \in DOMAIN st : later[i] = [st[i] EXCEPT !.status = later[i].status]
  BY <1>1, <1>3, <1>4, <1>5
<1> QED
  BY <1>1, <1>4, <1>6, <1>7 DEF Continues, p, later

\* A step that saves nothing and supersedes nothing.
LEMMA RetiredKeeps ==
    ASSUME NEW st, StoreInv(st), NEW later, Continues(st, later), DOMAIN later = DOMAIN st,
           \A i \in DOMAIN st : later[i].status = "superseded" => st[i].status = "superseded"
    PROVE  StoreInv(later)
BY StoreInvKept

LEMMA RejectLatestFacts ==
    ASSUME NEW st, StoreInv(st)
    PROVE  /\ StoreInv(RejectLatest(st))
           /\ \A type, k : NextId(RejectLatest(st), type, k) = NextId(st, type, k)
<1>1. st \in Seq(Artifacts) /\ IdsUniqueIn(st)
  BY DEF StoreInv
<1>2. CASE ~HasReport(st, Run)
  BY <1>2 DEF RejectLatest
<1>3. CASE HasReport(st, Run)
  <2>1. PICK i : Top(st, i) /\ LatestReport(st, Run) = st[i]
    BY <1>1, <1>3, LatestFacts
  <2> DEFINE later == WithStatus(st, st[i].id, "rejected")
  <2>2. i \in DOMAIN st /\ Stored(st, st[i].id) /\ "rejected" \in Statuses
    BY <1>1, <2>1, TopFacts, PlaceIs DEF Statuses
  <2>3. /\ Continues(st, later) /\ later \in Seq(Artifacts) /\ DOMAIN later = DOMAIN st
        /\ \A j \in DOMAIN st : later[j].status = "rejected" \/ later[j].status = st[j].status
    BY <1>1, <2>2, WithStatusFacts
  <2>4. RejectLatest(st) = later
    BY <1>3, <2>1 DEF RejectLatest
  <2> HIDE DEF later
  <2>5. StoreInv(later)
    BY <2>3, RetiredKeeps
  <2>6. ASSUME NEW type PROVE All(later, type) = All(st, type)
    <3>1. \A j \in DOMAIN st : /\ later[j].run = st[j].run /\ later[j].type = st[j].type
                               /\ later[j].status \in Statuses /\ st[j].status \in Statuses
      BY <1>1, <2>3, ContinuesFacts, StoreFacts, ArtifactFacts
    <3> QED
      BY <2>3, <3>1 DEF All, Listed
  <2> QED
    BY <2>4, <2>5, <2>6 DEF NextId, All
<1> QED
  BY <1>2, <1>3

LEMMA WrittenKeeps ==
    ASSUME NEW st, StoreInv(st), NEW rework, NEW later \in Written(st, rework)
    PROVE  StoreInv(later)
<1> DEFINE claims  == ActiveIds(st, "claim")
           sources == UNION {c.cites : c \in ActiveClaims(st)}
           cleared == RejectLatest(st)
           id      == NextId(st, "report", 1)
<1>1. st \in Seq(Artifacts) /\ "report" \in Types
  BY DEF StoreInv, Types
<1>2. StoreInv(cleared) /\ cleared \in Seq(Artifacts)
  BY RejectLatestFacts DEF StoreInv
<1>3. CASE HasReport(st, Run) /\ ~rework
  BY <1>3 DEF Written
<1>4. CASE ~(HasReport(st, Run) /\ ~rework) /\ claims = {}
  <2>1. StoreInv(RejectLatest(RejectLatest(cleared)))
    BY <1>2, RejectLatestFacts
  <2> QED
    BY <1>4, <2>1 DEF Written
<1>5. CASE ~(HasReport(st, Run) /\ ~rework) /\ claims # {}
  <2>1. PICK complete \in BOOLEAN :
            later = Saved(cleared, NewReport(id, claims, sources, complete))
    BY <1>5 DEF Written
  <2> DEFINE report == NewReport(id, claims, sources, complete)
             new    == <<report>>
  <2>2. claims \in (SUBSET Ids) \ {{}} /\ sources \in SUBSET Ids /\ id \in Ids
    <3>1. \A c \in ActiveClaims(st) : c.cites \in SUBSET Ids
      BY <1>1, StoreFacts, ArtifactFacts DEF ActiveClaims, Active, Listed, ClaimArtifacts
    <3>2. sources \subseteq Ids
      BY <3>1
    <3> QED
      <4>1. claims \subseteq Ids /\ 1 \in Nat
        BY <1>1, ActiveIdsType
      <4>2. id \in Ids
        BY <1>1, <4>1, NextIdType
      <4> HIDE DEF claims, sources, id
      <4> QED
        BY <1>5, <3>2, <4>1, <4>2
  <2> HIDE DEF claims, sources, id, cleared
  <2>3. report \in Artifacts /\ report.type = "report" /\ report.status = "active"
        /\ report.id = id
    BY <2>2, NoIdType DEF NewReport, Artifacts, ReportArtifacts
  <2> HIDE DEF report
  <2>4. new \in Seq(Artifacts) /\ DOMAIN new = {1} /\ new[1] = report
    BY <2>3
  <2>5. id = NextId(cleared, "report", 1)
    BY RejectLatestFacts DEF cleared, id
  <2>6. StoreInv(cleared \o new)
    BY <1>1, <1>2, <2>3, <2>4, <2>5, NumberedAppended
  <2>7. Saved(cleared, report) = cleared \o new
    BY <1>2, <2>3 DEF Saved
  <2> QED
    BY <2>1, <2>6, <2>7 DEF report
<1> QED
  BY <1>3, <1>4, <1>5

-----------------------------------------------------------------------------
(* Reviewer: verdicts *)

Derived(id, s) == [id EXCEPT !.tail = Append(@, s)]

LEMMA DerivedFacts ==
    ASSUME NEW a \in Ids, NEW s \in IdSuffixes
    PROVE  /\ Derived(a, s) \in Ids /\ Derived(a, s).kind = a.kind
           /\ Derived(a, s).tail = Append(a.tail, s) /\ Derived(a, s).tail # <<>>
           /\ Derived(a, s).n = a.n
<1>1. a.tail \in Seq(IdSuffixes)
  BY DEF Ids
<1>2. /\ Append(a.tail, s) \in Seq(IdSuffixes)
      /\ Append(a.tail, s) # <<>>
  BY <1>1
<1> QED
  BY <1>2 DEF Derived, Ids

\* What a suffix is appended to can be read off the result.
LEMMA DerivedFromOne ==
    ASSUME NEW a \in Ids, NEW b \in Ids, NEW s \in IdSuffixes,
           NEW r \in IdSuffixes, Derived(a, s) = Derived(b, r)
    PROVE  a = b /\ s = r
<1>1. a.kind = b.kind /\ a.n = b.n /\ Append(a.tail, s) = Append(b.tail, r)
  <2>1. /\ Derived(a, s).kind = a.kind /\ Derived(a, s).n = a.n
        /\ Derived(a, s).tail = Append(a.tail, s)
    BY DerivedFacts
  <2>2. /\ Derived(b, r).kind = b.kind /\ Derived(b, r).n = b.n
        /\ Derived(b, r).tail = Append(b.tail, r)
    BY DerivedFacts
  <2> QED
    BY <2>1, <2>2
<1>2. /\ a.tail \in Seq(IdSuffixes)
      /\ b.tail \in Seq(IdSuffixes)
  BY DEF Ids
<1>3. a.tail = b.tail /\ s = r
  <2>1. Append(a.tail, s) = Append(b.tail, r) <=> a.tail = b.tail /\ s = r
    <3> DEFINE S == IdSuffixes
               x == a.tail
               y == b.tail
    <3>1. x \in Seq(S) /\ y \in Seq(S) /\ s \in S /\ r \in S
      BY <1>2
    <3> HIDE DEF S, x, y
    <3>2. Append(x, s) = Append(y, r) <=> x = y /\ s = r
      BY <3>1, AppendInjective
    <3> QED
      BY <3>2 DEF x, y
  <2> QED
    BY <1>1, <2>1
<1> QED
  BY <1>1, <1>3 DEF Ids

LEMMA VersionedSuffix ==
    ASSUME NEW n \in Nat, NEW v \in BOOLEAN
    PROVE  [version |-> n, verified |-> v] \in IdSuffixes
BY DEF IdSuffixes

\* The verdicts a review keeps: on active claims, one for a claim, with free ids.
Keepable(st, W) ==
    /\ IsFiniteSet(W)
    /\ \A w \in W : /\ w.claim \in ActiveClaims(st) /\ w.verdict \in {"partial", "unsupported"}
                    /\ ~Stored(st, Verified(w).id)
                    /\ \A v \in W : v.claim = w.claim => v = w

LEMMA KeptIsKeepable ==
    ASSUME NEW st, NEW V \in Verdicts(st), NEW W \in FirstOnes(Kept(st, V))
    PROVE  Keepable(st, W)
<1>1. IsFiniteSet(V) /\ V \subseteq [claim : ActiveClaims(st), verdict : {"partial", "unsupported"}]
  <2>1. CASE V = {}
    BY <2>1, FS_EmptySet
  <2>2. CASE V \in AtMost(MaxVerdicts, [claim : ActiveClaims(st),
                                        verdict : {"partial", "unsupported"}])
    BY <2>2, AtMostFacts, BoundsAssumption
  <2> QED
    BY <2>1, <2>2 DEF Verdicts
<1>2. W \in SUBSET V
  BY DEF FirstOnes, Kept
<1>3. \A w \in W : ~Stored(st, Verified(w).id) /\ \A v \in W : v.claim = w.claim => v = w
  BY DEF FirstOnes, Kept
<1> QED
  BY <1>1, <1>2, <1>3, FS_Subset DEF Keepable

LEMMA VerifiedFacts ==
    ASSUME NEW a \in ClaimArtifacts, NEW w, w.claim = a, w.verdict \in {"partial", "unsupported"}
    PROVE  /\ Verified(w) \in ClaimArtifacts
           /\ Verified(w).id = VerifiedId(a.id, a.version + 1)
           /\ Verified(w).id = Derived(a.id, [version |-> a.version + 1, verified |-> TRUE])
           /\ Verified(w).version = a.version + 1 /\ Verified(w).sup = a.id
           /\ Verified(w).status = a.status
<1>1. a.id \in Ids /\ a.version + 1 \in Nat \ {0}
  BY DEF ClaimArtifacts
<1> DEFINE s == [version |-> a.version + 1, verified |-> TRUE]
<1>2. VerifiedId(a.id, a.version + 1) = Derived(a.id, s)
  BY DEF VerifiedId, Derived
<1>3. Derived(a.id, s) \in Ids
  <2>1. s \in IdSuffixes
    BY <1>1, VersionedSuffix
  <2> QED
    BY <1>1, <2>1, DerivedFacts
<1> DEFINE d == VerifiedId(a.id, a.version + 1)
           v == a.version + 1
           o == a.id
<1>4. Verified(w) = [a EXCEPT !.id = d, !.version = v, !.sup = o, !.accuracy = w.verdict]
  BY DEF Verified
<1>5. d = Derived(a.id, s) /\ d \in Ids /\ v \in Nat \ {0} /\ o \in Ids
  BY <1>1, <1>2, <1>3
<1> HIDE DEF d, v, o
<1>6. /\ Verified(w) \in ClaimArtifacts /\ Verified(w).id = d
      /\ Verified(w).version = v /\ Verified(w).sup = o /\ Verified(w).status = a.status
  BY <1>4, <1>5 DEF ClaimArtifacts
<1> QED
  BY <1>5, <1>6 DEF d, v, o

\* What a review does to the store: reports and sources stay as they are, and a claim
\* stays active or has its verified version.
Judged(st, later) ==
    /\ Continues(st, later)
    /\ \A i \in DOMAIN st : st[i].type # "claim" => later[i] = st[i]
    /\ \A i \in DOMAIN later \ DOMAIN st : later[i].type = "claim"
    /\ \A i \in DOMAIN st : st[i].type = "claim" /\ later[i] # st[i] =>
           \E j \in DOMAIN later :
               /\ later[j].run = Run /\ later[j].type = "claim" /\ later[j].status = "active"
               /\ later[j].sup = st[i].id /\ later[j].version = st[i].version + 1
               /\ later[j].id = VerifiedId(st[i].id, st[i].version + 1)

LEMMA WithVerdictsKeeps ==
    ASSUME NEW st, StoreInv(st), NEW W, Keepable(st, W)
    PROVE  StoreInv(WithVerdicts(st, W)) /\ Judged(st, WithVerdicts(st, W))
<1> DEFINE m      == Len(st)
           n      == Cardinality(W)
           saved  == SetToSeq(W)
           judged == {w.claim.id : w \in W}
           old    == [i \in DOMAIN st |-> IF st[i].id \in judged
                                          THEN [st[i] EXCEPT !.status = "superseded"] ELSE st[i]]
           new    == [k \in DOMAIN saved |-> Verified(saved[k])]
           later  == old \o new
<1>1. /\ st \in Seq(Artifacts) /\ IdsUniqueIn(st)
      /\ m \in Nat /\ DOMAIN st = 1..m /\ \A i \in DOMAIN st : st[i] \in Artifacts
  BY StoreFacts DEF StoreInv
<1>2. /\ n \in Nat /\ saved \in [1..n -> W]
      /\ \A i, j \in 1..n : saved[i] = saved[j] => i = j
      /\ \A w \in W : \E k \in 1..n : saved[k] = w
  BY SetToSeqFacts DEF Keepable
<1>3. WithVerdicts(st, W) = later
  BY DEF WithVerdicts
<1>4. ASSUME NEW w \in W
      PROVE  /\ w.verdict \in {"partial", "unsupported"} /\ ~Stored(st, Verified(w).id)
             /\ \E i \in DOMAIN st : /\ st[i] = w.claim /\ st[i].type = "claim"
                                     /\ st[i] \in ClaimArtifacts /\ st[i].status = "active"
  <2>1. PICK i \in DOMAIN st : st[i] = w.claim /\ st[i].type = "claim" /\ st[i].status = "active"
    BY DEF Keepable, ActiveClaims, Active, Listed
  <2> QED
    BY <1>1, <2>1, ArtifactFacts DEF Keepable
<1>5. ASSUME NEW w \in W
      PROVE  /\ Verified(w) \in ClaimArtifacts /\ w.claim \in ClaimArtifacts
             /\ Verified(w).id = VerifiedId(w.claim.id, w.claim.version + 1)
             /\ Verified(w).id = Derived(w.claim.id, [version |-> w.claim.version + 1,
                                                      verified |-> TRUE])
             /\ Verified(w).version = w.claim.version + 1 /\ Verified(w).sup = w.claim.id
             /\ Verified(w).status = "active"
  BY <1>4, VerifiedFacts
<1>6. /\ old \in [1..m -> Artifacts]
      /\ \A i \in DOMAIN st : old[i] = IF st[i].id \in judged
                                       THEN [st[i] EXCEPT !.status = "superseded"] ELSE st[i]
  <2>1. "superseded" \in Statuses
    BY DEF Statuses
  <2> HIDE DEF judged
  <2> QED
    BY <1>1, <2>1, RestatusFacts
<1>7. new \in [1..n -> Artifacts] /\ \A k \in 1..n : new[k] = Verified(saved[k])
  BY <1>2, <1>5 DEF Artifacts
<1> HIDE DEF old, new
<1>8. /\ later \in Seq(Artifacts) /\ Len(later) = m + n /\ DOMAIN later = 1..(m + n)
      /\ \A i \in DOMAIN st : i \in DOMAIN later /\ later[i] = old[i]
      /\ \A i \in DOMAIN later \ DOMAIN st : i - m \in 1..n /\ later[i] = Verified(saved[i - m])
      /\ \A k \in 1..n : m + k \in DOMAIN later /\ later[m + k] = Verified(saved[k])
  <2> HIDE DEF saved, m, n
  <2>1. /\ old \in Seq(Artifacts) /\ Len(old) = m /\ DOMAIN old = 1..m
        /\ new \in Seq(Artifacts) /\ Len(new) = n /\ DOMAIN new = 1..n
    BY <1>1, <1>2, <1>6, <1>7
  <2>2. /\ later \in Seq(Artifacts) /\ Len(later) = m + n /\ DOMAIN later = 1..(m + n)
        /\ \A i \in 1..(m + n) : later[i] = IF i <= m THEN old[i] ELSE new[i - m]
    BY <1>1, <1>2, <2>1
  <2> HIDE DEF later
  <2>3. \A i \in 1..m : i \in 1..(m + n) /\ i <= m
    BY <1>1, <1>2
  <2>4. \A i \in 1..(m + n) \ 1..m : i - m \in 1..n /\ ~(i <= m)
    BY <1>1, <1>2
  <2>5. \A k \in 1..n : m + k \in 1..(m + n) /\ ~(m + k <= m) /\ (m + k) - m = k
    BY <1>1, <1>2
  <2> QED
    BY <1>1, <1>7, <2>2, <2>3, <2>4, <2>5
<1> HIDE DEF saved, n, m, later
<1>9. Continues(st, later)
  <2>1. \A a \in Artifacts : a = [a EXCEPT !.status = a.status]
    BY DEF Artifacts, SourceArtifacts, ClaimArtifacts, ReportArtifacts
  <2>2. \A a \in Artifacts : [a EXCEPT !.status = "superseded"].status = "superseded"
    BY DEF Artifacts, SourceArtifacts, ClaimArtifacts, ReportArtifacts
  <2> HIDE DEF judged
  <2>3. \A i \in 1..Len(st) : later[i] = [st[i] EXCEPT !.status = later[i].status]
    BY <1>1, <1>6, <1>8, <2>1, <2>2 DEF m
  <2> QED
    BY <1>1, <1>2, <1>8, <2>3 DEF Continues, m
\* An artifact whose id is judged is the claim itself.
<1>10. ASSUME NEW i \in DOMAIN st, st[i].id \in judged
       PROVE  \E w \in W : w.claim = st[i]
  <2>1. PICK w \in W : st[i].id = w.claim.id
    BY <1>10
  <2>2. PICK j \in DOMAIN st : st[j] = w.claim
    BY <1>4
  <2> QED
    BY <1>1, <2>1, <2>2 DEF IdsUniqueIn
<1> HIDE DEF judged
<1>11. ASSUME NEW i \in DOMAIN st, later[i] # st[i]
       PROVE  \E j \in DOMAIN later :
                  /\ later[j].run = Run /\ later[j].type = "claim" /\ later[j].status = "active"
                  /\ later[j].sup = st[i].id /\ later[j].version = st[i].version + 1
                  /\ later[j].id = VerifiedId(st[i].id, st[i].version + 1)
                  /\ st[i].type = "claim"
  <2>1. st[i].id \in judged
    BY <1>6, <1>8, <1>11
  <2>2. PICK w \in W : w.claim = st[i]
    BY <1>10, <2>1
  <2>3. PICK k \in 1..n : saved[k] = w
    BY <1>2
  <2>4. m + k \in DOMAIN later /\ later[m + k] = Verified(w)
    BY <1>8, <2>3
  <2>5. Verified(w).run = Run /\ Verified(w).type = "claim" /\ st[i].type = "claim"
    BY <1>5, <2>2 DEF ClaimArtifacts
  <2> QED
    BY <1>5, <2>2, <2>4, <2>5
<1>12. ASSUME NEW i \in DOMAIN later \ DOMAIN st
       PROVE  /\ later[i].type = "claim" /\ later[i].status = "active"
              /\ Numbered(later[i], later) /\ ReportNamed(later[i])
  <2>1. PICK w \in W : later[i] = Verified(w)
    BY <1>2, <1>8
  <2>2. later[i].type = "claim" /\ later[i].status = "active"
    BY <1>5, <2>1 DEF ClaimArtifacts
  <2>3. later[i].id.tail # <<>>
    <3>1. w.claim.id \in Ids /\ w.claim.version + 1 \in Nat
      BY <1>5 DEF ClaimArtifacts
    <3> DEFINE s == [version |-> w.claim.version + 1, verified |-> TRUE]
    <3>2. s \in IdSuffixes /\ later[i].id = Derived(w.claim.id, s)
      BY <1>5, <2>1, <3>1, VersionedSuffix
    <3> HIDE DEF s
    <3> QED
      BY <3>1, <3>2, DerivedFacts
  <2> QED
    BY <2>2, <2>3 DEF Numbered, ReportNamed
<1>13. ASSUME NEW i \in DOMAIN later \ DOMAIN st, NEW j \in DOMAIN later,
              later[i].id = later[j].id
       PROVE  i = j
  <2>1. i - m \in 1..n /\ later[i] = Verified(saved[i - m]) /\ saved[i - m] \in W
    BY <1>2, <1>8
  <2>2. CASE j \in DOMAIN st
    <3>1. later[j].id = st[j].id
      BY <1>1, <1>9, <2>2, ContinuesFacts
    <3> QED
      BY <1>4, <1>13, <2>1, <2>2, <3>1 DEF Stored
  <2>3. CASE j \notin DOMAIN st
    <3>1. j - m \in 1..n /\ later[j] = Verified(saved[j - m]) /\ saved[j - m] \in W
      BY <1>2, <1>8, <2>3
    <3> DEFINE v == saved[i - m]
               w == saved[j - m]
    <3>2. v \in W /\ w \in W /\ Verified(v).id = Verified(w).id
      BY <1>13, <2>1, <3>1
    <3> HIDE DEF v, w
    <3>3. v.claim.id = w.claim.id
      <4>1. /\ v.claim.id \in Ids /\ v.claim.version + 1 \in Nat
            /\ w.claim.id \in Ids /\ w.claim.version + 1 \in Nat
        BY <1>5, <3>2 DEF ClaimArtifacts
      <4> DEFINE r == [version |-> v.claim.version + 1, verified |-> TRUE]
                 s == [version |-> w.claim.version + 1, verified |-> TRUE]
      <4>2. r \in IdSuffixes /\ s \in IdSuffixes
        BY <4>1, VersionedSuffix
      <4>3. Derived(v.claim.id, r) = Derived(w.claim.id, s)
        BY <1>5, <3>2
      <4> HIDE DEF r, s
      <4> QED
        BY <4>1, <4>2, <4>3, DerivedFromOne
    <3>4. v.claim = w.claim
      <4>1. PICK k, l \in DOMAIN st : st[k] = v.claim /\ st[l] = w.claim
        BY <1>4, <3>2
      <4> QED
        BY <1>1, <3>3, <4>1 DEF IdsUniqueIn
    <3>5. v = w
      BY <3>2, <3>4 DEF Keepable
    <3>6. i - m = j - m
      BY <1>2, <2>1, <3>1, <3>5 DEF v, w
    <3> QED
      BY <1>1, <1>2, <1>8, <3>6
  <2> QED
    BY <2>2, <2>3
<1>14. ASSUME NEW i \in DOMAIN later, later[i].status = "superseded"
       PROVE  \/ i \in DOMAIN st /\ st[i].status = "superseded"
              \/ \E j \in DOMAIN later : Succeeds(later[j], later[i])
  <2>1. i \in DOMAIN st
    BY <1>12, <1>14
  <2>2. SUFFICES ASSUME later[i] # st[i]
                 PROVE  \E j \in DOMAIN later : Succeeds(later[j], later[i])
    BY <1>14, <2>1
  <2>3. /\ later[i].run = Run /\ later[i].type = st[i].type /\ later[i].id = st[i].id
        /\ later[i].version = st[i].version /\ st[i].version \in Nat
    BY <1>1, <1>9, <2>1, ContinuesFacts, ArtifactFacts
  <2>4. PICK j \in DOMAIN later :
            /\ later[j].run = Run /\ later[j].type = "claim" /\ st[i].type = "claim"
            /\ later[j].sup = st[i].id /\ later[j].version = st[i].version + 1
    BY <1>11, <2>1, <2>2
  <2> QED
    BY <2>3, <2>4 DEF Succeeds
<1>15. StoreInv(later)
  BY <1>9, <1>12, <1>13, <1>14, StoreInvKept
<1>16. Judged(st, later)
  BY <1>9, <1>11, <1>12 DEF Judged
<1> QED
  BY <1>3, <1>15, <1>16

-----------------------------------------------------------------------------
(* Rework: replacements, placeholders and what is rejected behind them *)

\* An artifact with a derived id that is not taken yet.
LEMMA DerivedSaved ==
    ASSUME NEW st, StoreInv(st), NEW a \in Artifacts, a.status = "active", a.id.tail # <<>>,
           ReportNamed(a), ~Stored(st, a.id)
    PROVE  /\ StoreInv(Saved(st, a)) /\ Continues(st, Saved(st, a))
           /\ Len(Saved(st, a)) = Len(st) + 1 /\ Saved(st, a)[Len(st) + 1] = a
<1> DEFINE later == Saved(st, a)
           m == Len(st)
<1>1. st \in Seq(Artifacts) /\ m \in Nat /\ DOMAIN st = 1..m
      /\ \A i \in DOMAIN st : st[i] \in Artifacts
  BY StoreFacts DEF StoreInv
<1>2. /\ later \in Seq(Artifacts) /\ Len(later) = m + 1 /\ DOMAIN later = 1..(m + 1)
      /\ \A i \in DOMAIN st : i \in DOMAIN later /\ later[i] = st[i]
      /\ later[m + 1] = a
      /\ \A i \in DOMAIN later : i \in DOMAIN st \/ i = m + 1
  BY <1>1 DEF Saved
<1> HIDE DEF later
<1>3. Continues(st, later)
  <2>1. \A b \in Artifacts : b = [b EXCEPT !.status = b.status]
    BY DEF Artifacts, SourceArtifacts, ClaimArtifacts, ReportArtifacts
  <2> QED
    BY <1>1, <1>2, <2>1 DEF Continues
<1>4. \A j \in DOMAIN later : later[j].id = a.id => j = m + 1
  BY <1>2 DEF Stored
<1>5. \A i \in DOMAIN later \ DOMAIN st :
          /\ \A j \in DOMAIN later : later[i].id = later[j].id => i = j
          /\ Numbered(later[i], later) /\ ReportNamed(later[i])
  BY <1>2, <1>4 DEF Numbered
<1>6. \A i \in DOMAIN later : later[i].status = "superseded" =>
          i \in DOMAIN st /\ st[i].status = "superseded"
  BY <1>2
<1>7. StoreInv(later)
  BY <1>3, <1>5, <1>6, StoreInvKept
<1> QED
  BY <1>2, <1>3, <1>7 DEF later

LEMMA ReplacementFacts ==
    ASSUME NEW st, StoreInv(st), NEW id, Stored(st, id)
    PROVE  LET r == Replacement(st, id)
               a == st[Place(st, id)]
           IN  /\ r \in Artifacts /\ r.status = "active" /\ r.id.tail # <<>> /\ ReportNamed(r)
               /\ r.run = a.run /\ r.type = a.type /\ r.sup = id /\ r.version = a.version + 1
<1> DEFINE a == st[Place(st, id)]
           s == [version |-> a.version + 1, verified |-> FALSE]
           d == Derived(id, s)
           v == a.version + 1
<1>1. /\ a \in Artifacts /\ a.id = id /\ ReportNamed(a)
  BY PlaceFacts, StoreFacts DEF StoreInv
<1>2. id \in Ids /\ v \in Nat \ {0} /\ s \in IdSuffixes
  <2> HIDE DEF a
  <2>1. id \in Ids /\ a.version \in Nat
    BY <1>1, ArtifactFacts
  <2>2. v \in Nat \ {0} /\ v \in Nat
    BY <2>1
  <2> HIDE DEF v
  <2>3. [version |-> v, verified |-> FALSE] \in IdSuffixes
    BY <2>2, VersionedSuffix
  <2> QED
    BY <2>1, <2>2, <2>3 DEF v
<1> HIDE DEF s
<1>3. d \in Ids /\ d.tail # <<>> /\ d.kind = id.kind
  BY <1>2, DerivedFacts
<1>4. Replacement(st, id) = [a EXCEPT !.id = d, !.version = v, !.sup = id, !.status = "active"]
  BY DEF Replacement, Get, ReplacementId, Derived, s
<1> DEFINE r == [a EXCEPT !.id = d, !.version = v, !.sup = id, !.status = "active"]
<1>5. "active" \in Statuses
  BY DEF Statuses
<1> HIDE DEF a, d, v
<1>6. /\ r \in Artifacts /\ r.status = "active" /\ r.id = d /\ r.run = a.run /\ r.type = a.type
      /\ r.sup = id /\ r.version = v
  <2>1. CASE a \in SourceArtifacts
    BY <1>2, <1>3, <1>5, <2>1 DEF Artifacts, SourceArtifacts
  <2>2. CASE a \in ClaimArtifacts
    BY <1>2, <1>3, <1>5, <2>2 DEF Artifacts, ClaimArtifacts
  <2>3. CASE a \in ReportArtifacts
    BY <1>2, <1>3, <1>5, <2>3 DEF Artifacts, ReportArtifacts
  <2> QED
    BY <1>1, <2>1, <2>2, <2>3 DEF Artifacts
<1> HIDE DEF r
<1>7. ReportNamed(r) /\ r.id.tail # <<>>
  BY <1>1, <1>3, <1>6 DEF ReportNamed
<1>8. Replacement(st, id) = r
  BY <1>4 DEF r
<1> QED
  BY <1>6, <1>7, <1>8 DEF a, v

LEMMA ReplacedKeeps ==
    ASSUME NEW st, StoreInv(st), NEW id, Stored(st, id),
           ~Stored(st, Replacement(st, id).id)
    PROVE  StoreInv(WithStatus(Saved(st, Replacement(st, id)), id, "superseded"))
<1> DEFINE r     == Replacement(st, id)
           p     == Place(st, id)
           mid   == Saved(st, r)
           later == WithStatus(mid, id, "superseded")
           m     == Len(st)
<1>1. /\ r \in Artifacts /\ r.status = "active" /\ r.id.tail # <<>> /\ ReportNamed(r)
      /\ r.run = st[p].run /\ r.type = st[p].type /\ r.sup = id /\ r.version = st[p].version + 1
  BY ReplacementFacts
<1>2. st \in Seq(Artifacts) /\ p \in DOMAIN st /\ st[p].id = id /\ st[p] \in Artifacts
      /\ DOMAIN st = 1..m /\ m \in Nat
  BY PlaceFacts, StoreFacts DEF StoreInv
<1> HIDE DEF r
<1>3. /\ StoreInv(mid) /\ Continues(st, mid) /\ Len(mid) = m + 1 /\ mid[m + 1] = r
  BY <1>1, DerivedSaved DEF r
<1> HIDE DEF mid, p
<1>4. mid \in Seq(Artifacts) /\ IdsUniqueIn(mid) /\ DOMAIN mid = 1..(m + 1)
      /\ m + 1 \in DOMAIN mid
  BY <1>2, <1>3, StoreFacts DEF StoreInv
<1>5. /\ p \in DOMAIN mid /\ mid[p].id = id /\ mid[p].run = st[p].run
      /\ mid[p].type = st[p].type /\ mid[p].version = st[p].version
  BY <1>2, <1>3, ContinuesFacts
<1>6. Stored(mid, id) /\ Place(mid, id) = p /\ "superseded" \in Statuses
  BY <1>4, <1>5, PlaceIs DEF Statuses
<1>7. /\ Continues(mid, later) /\ DOMAIN later = DOMAIN mid /\ later \in Seq(Artifacts)
      /\ \A i \in DOMAIN mid : later[i].status = IF i = p THEN "superseded" ELSE mid[i].status
  BY <1>4, <1>6, WithStatusFacts
<1> HIDE DEF later
<1>8. Succeeds(later[m + 1], later[p])
  <2>1. /\ later[m + 1].run = r.run /\ later[m + 1].type = r.type /\ later[m + 1].sup = r.sup
        /\ later[m + 1].version = r.version
    BY <1>3, <1>4, <1>7, ContinuesFacts
  <2>2. /\ later[p].run = st[p].run /\ later[p].type = st[p].type /\ later[p].id = id
        /\ later[p].version = st[p].version /\ st[p].version \in Nat
    BY <1>2, <1>4, <1>5, <1>7, ContinuesFacts, ArtifactFacts
  <2> QED
    BY <1>1, <2>1, <2>2 DEF Succeeds
<1>9. \A i \in DOMAIN later : later[i].status = "superseded" =>
          \/ i \in DOMAIN mid /\ mid[i].status = "superseded"
          \/ \E j \in DOMAIN later : Succeeds(later[j], later[i])
  BY <1>4, <1>7, <1>8
<1>10. StoreInv(later)
  BY <1>3, <1>7, <1>9, StoreInvKept
<1> QED
  BY <1>10 DEF later, mid, r

LEMMA UpToFacts ==
    \A n \in Nat : /\ IsFiniteSet(1..n) /\ Cardinality(1..n) = n
                   /\ IsFiniteSet(1..(n + 1)) /\ Cardinality(1..(n + 1)) = n + 1
<1>1. \A n \in Nat : n \in Int /\ 1 \in Int /\ ~(1 > n + 1) /\ n - 1 + 1 = n
                    /\ n + 1 \in Int /\ n + 1 - 1 + 1 = n + 1 /\ (1 > n => n = 0)
  OBVIOUS
<1> QED
  BY <1>1, FS_Interval

\* Among one more numbers than artifacts one is free.
LEMMA PlaceholderFacts ==
    ASSUME NEW st, StoreInv(st), NEW id \in Ids
    PROVE  LET d == PlaceholderId(st, id)
           IN  d \in Ids /\ d.tail # <<>> /\ ~Stored(st, d)
<1> DEFINE m == Len(st)
           d(n) == ReplacementId(id, n)
           free == {n \in 1..(m + 1) : ~Stored(st, d(n))}
           f == [n \in 1..(m + 1) |-> CHOOSE i \in 1..m : st[i].id = d(n)]
<1>1. m \in Nat /\ DOMAIN st = 1..m
  BY StoreFacts DEF StoreInv
<1>2. ASSUME NEW n \in 1..(m + 1)
      PROVE  /\ [version |-> n, verified |-> FALSE] \in IdSuffixes
             /\ d(n) = Derived(id, [version |-> n, verified |-> FALSE])
  <2>1. n \in Nat
    BY <1>1, <1>2
  <2>2. d(n) = Derived(id, [version |-> n, verified |-> FALSE])
    BY DEF ReplacementId, Derived
  <2> QED
    BY <2>1, <2>2, VersionedSuffix
<1>3. ASSUME NEW x \in 1..(m + 1), NEW y \in 1..(m + 1), d(x) = d(y)
      PROVE  x = y
  <2> DEFINE s == [version |-> x, verified |-> FALSE]
             r == [version |-> y, verified |-> FALSE]
  <2>1. s \in IdSuffixes /\ r \in IdSuffixes /\ Derived(id, s) = Derived(id, r)
    BY <1>2, <1>3
  <2> HIDE DEF s, r
  <2>2. s = r
    BY <2>1, DerivedFromOne
  <2> QED
    BY <2>2 DEF s, r
<1>4. free # {}
  <2>1. SUFFICES ASSUME free = {} PROVE FALSE
    OBVIOUS
  <2>2. \A n \in 1..(m + 1) : \E i \in 1..m : st[i].id = d(n)
    BY <1>1, <2>1 DEF Stored
  <2>3. \A n \in 1..(m + 1) : f[n] \in 1..m /\ st[f[n]].id = d(n)
    BY <2>2
  <2>4. f \in [1..(m + 1) -> 1..m]
    BY <2>3
  <2>5. /\ IsFiniteSet(1..m) /\ IsFiniteSet(1..(m + 1))
        /\ Cardinality(1..m) < Cardinality(1..(m + 1))
    <3> HIDE DEF m
    <3>1. /\ IsFiniteSet(1..m) /\ Cardinality(1..m) = m
          /\ IsFiniteSet(1..(m + 1)) /\ Cardinality(1..(m + 1)) = m + 1
      BY <1>1, UpToFacts
    <3> QED
      BY <1>1, <3>1
  <2> HIDE DEF f, d
  <2>6. PICK x, y \in 1..(m + 1) : x # y /\ f[x] = f[y]
    BY <2>4, <2>5, FS_PigeonHole
  <2> QED
    BY <1>3, <2>3, <2>6
<1>5. Min(free) \in free
  <2>1. free \in SUBSET Nat
    BY <1>1
  <2> HIDE DEF free
  <2>2. \E x \in free : \A y \in free : x <= y
    BY <1>4, <2>1, Smallest
  <2> QED
    BY <2>2 DEF Min
<1> DEFINE n == Min(free)
<1>6. PlaceholderId(st, id) = d(n)
  BY DEF PlaceholderId
<1>7. n \in 1..(m + 1) /\ ~Stored(st, d(n))
  BY <1>5
<1> DEFINE s == [version |-> n, verified |-> FALSE]
<1> HIDE DEF n, free
<1>8. s \in IdSuffixes /\ d(n) = Derived(id, s)
  BY <1>2, <1>7
<1> HIDE DEF s, d
<1>9. d(n) \in Ids /\ d(n).tail # <<>>
  BY <1>8, DerivedFacts
<1> QED
  BY <1>6, <1>7, <1>9

LEMMA DownstreamRejectedKeeps ==
    ASSUME NEW st, StoreInv(st), NEW agent
    PROVE  StoreInv(DownstreamRejected(st, agent))
<1> DEFINE later == DownstreamRejected(st, agent)
<1>1. st \in Seq(Artifacts) /\ DOMAIN st = 1..Len(st) /\ Len(st) \in Nat
      /\ \A i \in DOMAIN st : st[i] \in Artifacts
  BY StoreFacts DEF StoreInv
<1>2. "rejected" \in Statuses
  BY DEF Statuses
<1>3. /\ DOMAIN later = DOMAIN st
      /\ \A i \in DOMAIN st : \/ later[i] = st[i]
                              \/ later[i] = [st[i] EXCEPT !.status = "rejected"]
  BY DEF DownstreamRejected
<1>4. later \in [1..Len(st) -> Artifacts]
  <2>1. \A i \in DOMAIN st : [st[i] EXCEPT !.status = "rejected"] \in Artifacts
    BY <1>1, <1>2, RestatusFacts
  <2> QED
    BY <1>1, <2>1 DEF DownstreamRejected
<1> HIDE DEF later
<1>5. later \in Seq(Artifacts) /\ Len(later) = Len(st)
  BY <1>1, <1>4
<1>6. \A a \in Artifacts : /\ a = [a EXCEPT !.status = a.status]
                           /\ [a EXCEPT !.status = "rejected"].status = "rejected"
  BY DEF Artifacts, SourceArtifacts, ClaimArtifacts, ReportArtifacts
<1>7. Continues(st, later)
  BY <1>1, <1>3, <1>5, <1>6 DEF Continues
<1>8. \A i \in DOMAIN st : later[i].status = "superseded" => st[i].status = "superseded"
  BY <1>1, <1>3, <1>6
<1>9. StoreInv(later)
  BY <1>3, <1>7, <1>8, RetiredKeeps
<1> QED
  BY <1>9 DEF later

LEMMA PreparedKeeps ==
    ASSUME NEW st, StoreInv(st), NEW fb, fb.target \in Ids, ~Collides(st, fb)
    PROVE  StoreInv(Prepared(st, fb))
<1> DEFINE changed ==
            IF Stored(st, fb.target)
            THEN WithStatus(Saved(st, Replacement(st, fb.target)), fb.target, "superseded")
            ELSE IF fb.agent = "collector"
            THEN Saved(st, NewSource(PlaceholderId(st, fb.target)))
            ELSE st
<1>1. CASE Stored(st, fb.target)
  BY <1>1, ReplacedKeeps, DownstreamRejectedKeeps DEF Prepared, Collides
<1>2. CASE ~Stored(st, fb.target) /\ fb.agent = "collector"
  <2> DEFINE d == PlaceholderId(st, fb.target)
  <2>1. d \in Ids /\ d.tail # <<>> /\ ~Stored(st, d)
    BY PlaceholderFacts
  <2> HIDE DEF d
  <2>2. /\ NewSource(d) \in Artifacts /\ NewSource(d).status = "active"
        /\ NewSource(d).id = d /\ ReportNamed(NewSource(d))
    BY <2>1, NoIdType DEF NewSource, Artifacts, SourceArtifacts, ReportNamed
  <2>3. StoreInv(Saved(st, NewSource(d)))
    BY <2>1, <2>2, DerivedSaved
  <2> QED
    BY <1>2, <2>3, DownstreamRejectedKeeps DEF Prepared, d
<1>3. CASE ~Stored(st, fb.target) /\ fb.agent # "collector"
  BY <1>3, DownstreamRejectedKeeps DEF Prepared
<1> QED
  BY <1>1, <1>2, <1>3

-----------------------------------------------------------------------------
(* A review: what it says and what it leaves of the report it looked at *)

Agents    == {"collector", "analyst", "writer", "reviewer"}
Issues    == {"missing_source", "unsupported_claim", "missing_section", "unclear_writing",
              "format_violation"}
Feedbacks == [issue : Issues, agent : Agents, target : Ids, blocking : BOOLEAN]

LEMMA FeedbackType ==
    \A issue \in Issues, agent \in Agents, target \in Ids, blocking \in BOOLEAN :
        Feedback(issue, agent, target, blocking) \in Feedbacks
BY DEF Feedback, Feedbacks

LEMMA FixedIds ==
    {NoId, CoverageId, QuestionId, MissingReportId, DeadlineId} \subseteq Ids
<1>1. <<>> \in Seq(IdSuffixes)
  OBVIOUS
<1> QED
  BY <1>1 DEF NoId, CoverageId, QuestionId, MissingReportId, DeadlineId, BaseId, Ids

LEMMA ReviewedFacts ==
    ASSUME NEW st, StoreInv(st), NEW V \in Verdicts(st), NEW later \in Reviewed(st, V)
    PROVE  StoreInv(later) /\ Judged(st, later)
<1>1. CASE HasReport(st, Run)
  <2>1. PICK W \in FirstOnes(Kept(st, V)) : later = WithVerdicts(st, W)
    BY <1>1 DEF Reviewed
  <2> QED
    BY <2>1, KeptIsKeepable, WithVerdictsKeeps
<1>2. CASE ~HasReport(st, Run)
  <2>1. later = st
    BY <1>2 DEF Reviewed
  <2>2. st \in Seq(Artifacts) /\ DOMAIN st = 1..Len(st) /\ Len(st) \in Nat
        /\ \A i \in DOMAIN st : st[i] \in Artifacts
    BY StoreFacts DEF StoreInv
  <2>3. \A a \in Artifacts : a = [a EXCEPT !.status = a.status]
    BY DEF Artifacts, SourceArtifacts, ClaimArtifacts, ReportArtifacts
  <2>4. Continues(st, st)
    BY <2>2, <2>3 DEF Continues
  <2> QED
    BY <2>1, <2>4 DEF Judged
<1> QED
  BY <1>1, <1>2

\* A report that was looked at is of type.
LEMMA ReportFacts ==
    ASSUME NEW st, StoreInv(st), HasReport(st, Run)
    PROVE  LET r == LatestReport(st, Run)
           IN  /\ r \in ReportArtifacts /\ r.id \in Ids /\ r.id # NoId
               /\ r.claims # {} /\ r.claims \subseteq Ids /\ r.sources \subseteq Ids
               /\ Get(st, r.id) = r
<1>1. st \in Seq(Artifacts) /\ IdsUniqueIn(st) /\ \A i \in DOMAIN st : ReportNamed(st[i])
  BY DEF StoreInv
<1>2. PICK i : Top(st, i) /\ LatestReport(st, Run) = st[i]
  BY <1>1, LatestFacts
<1>3. i \in DOMAIN st /\ st[i] \in ReportArtifacts
  BY <1>1, <1>2, TopFacts
<1>4. st[i].id \in Ids /\ st[i].claims # {} /\ st[i].claims \subseteq Ids
      /\ st[i].sources \subseteq Ids /\ st[i].type = "report"
  BY <1>3 DEF ReportArtifacts
<1>5. st[i].id # NoId
  BY <1>1, <1>3, <1>4, BaseIdFacts DEF ReportNamed, NoId
<1> QED
  BY <1>1, <1>2, <1>3, <1>4, <1>5, PlaceIs

LEMMA RuleFeedbackType ==
    ASSUME NEW st, StoreInv(st), HasReport(st, Run)
    PROVE  RuleFeedback(st, LatestReport(st, Run)) \subseteq Feedbacks
<1> DEFINE r == LatestReport(st, Run)
<1>1. /\ r.id \in Ids /\ r.claims \subseteq Ids /\ r.sources \subseteq Ids
      /\ {TRUE, FALSE} \subseteq BOOLEAN
  BY ReportFacts
<1> HIDE DEF r
<1>2. MissingSection(r) \subseteq Feedbacks
  BY <1>1, FeedbackType DEF MissingSection, Issues, Agents
<1>3. UnknownClaims(st, r) \subseteq Feedbacks
  BY <1>1, FeedbackType DEF UnknownClaims, Issues, Agents
<1>4. UncoveredSources(st, r) \subseteq Feedbacks
  BY <1>1, FeedbackType DEF UncoveredSources, Issues, Agents
<1>5. MissingSources(st, r) \subseteq Feedbacks
  <2>1. st \in Seq(Artifacts)
    BY DEF StoreInv
  <2>2. \A c \in ActiveClaims(st) : c.cites \subseteq Ids
    BY <2>1, StoreFacts, ArtifactFacts DEF ActiveClaims, Active, Listed, ClaimArtifacts
  <2>3. r.sources \cup UNION {c.cites : c \in KnownClaims(st, r)} \subseteq Ids
    BY <1>1, <2>2 DEF KnownClaims
  <2> QED
    BY <1>1, <2>3, FeedbackType DEF MissingSources, Issues, Agents
<1>6. RuleFeedback(st, r) \subseteq Feedbacks
  BY <1>2, <1>3, <1>4, <1>5 DEF RuleFeedback
<1> QED
  BY <1>6 DEF r

LEMMA OpinionsType ==
    ASSUME NEW st, StoreInv(st), NEW prior, prior \subseteq Feedbacks,
           NEW O \in Opinions(st, prior)
    PROVE  O \subseteq Feedbacks
<1>1. CASE ~HasReport(st, Run)
  BY <1>1 DEF Opinions
<1>2. CASE HasReport(st, Run)
  <2> DEFINE r == LatestReport(st, Run)
  <2>1. r.id \in Ids /\ {TRUE, FALSE} \subseteq BOOLEAN
    BY <1>2, ReportFacts
  <2>2. CoverageOpinions(r, prior) \subseteq Feedbacks
    <3> HIDE DEF r
    <3> DEFINE F1 == Feedback("missing_source", "collector", CoverageId, TRUE)
               F2 == Feedback("missing_source", "collector", QuestionId, TRUE)
               F3 == Feedback("unsupported_claim", "analyst", r.id, TRUE)
               F4 == Feedback("missing_section", "writer", r.id, TRUE)
    <3>1. F1 \in Feedbacks /\ F2 \in Feedbacks /\ F3 \in Feedbacks /\ F4 \in Feedbacks
      BY <2>1, FeedbackType, FixedIds DEF Issues, Agents
    <3>2. CoverageOpinions(r, prior) \subseteq {F1, F2, F3, F4} \cup prior
      BY DEF CoverageOpinions, Blocking
    <3> HIDE DEF F1, F2, F3, F4
    <3> QED
      BY <3>1, <3>2
  <2>3. ModelOpinions(st) \subseteq Feedbacks
    <3>1. {st[i].id : i \in DOMAIN st} \cup {QuestionId} \subseteq Ids
      BY StoreFacts, ArtifactFacts, FixedIds DEF StoreInv
    <3> QED
      BY <3>1 DEF ModelOpinions, Feedbacks, Issues, Agents
  <2>4. O \in AtMost(MaxOpinions, CoverageOpinions(r, prior) \cup ModelOpinions(st))
    BY <1>2 DEF Opinions
  <2> HIDE DEF r
  <2>5. O \subseteq CoverageOpinions(r, prior) \cup ModelOpinions(st)
    BY <2>4, AtMostFacts, BoundsAssumption
  <2> QED
    BY <2>2, <2>3, <2>5
<1> QED
  BY <1>1, <1>2

LEMMA ReviewFeedbackType ==
    ASSUME NEW st, StoreInv(st), NEW prior, prior \subseteq Feedbacks,
           NEW O \in Opinions(st, prior), NEW V \in Verdicts(st)
    PROVE  ReviewFeedback(st, O, V) \subseteq Feedbacks
<1>1. CASE ~HasReport(st, Run)
  BY <1>1, FeedbackType, FixedIds DEF ReviewFeedback, NoReportFeedback, Issues, Agents
<1>2. CASE HasReport(st, Run)
  <2>1. VerdictFeedback(V) \subseteq Feedbacks
    <3>1. \A v \in V : v.claim \in ActiveClaims(st)
      <4>1. V = {} \/ V \subseteq [claim : ActiveClaims(st), verdict : {"partial", "unsupported"}]
        BY AtMostFacts, BoundsAssumption DEF Verdicts
      <4> QED
        BY <4>1
    <3>2. \A c \in ActiveClaims(st) : c.id \in Ids
      BY StoreFacts, ArtifactFacts DEF ActiveClaims, Active, Listed, StoreInv
    <3> QED
      BY <3>1, <3>2, FeedbackType DEF VerdictFeedback, Issues, Agents
  <2>2. RuleFeedback(st, LatestReport(st, Run)) \subseteq Feedbacks /\ O \subseteq Feedbacks
    BY <1>2, RuleFeedbackType, OpinionsType
  <2> QED
    BY <1>2, <2>1, <2>2 DEF ReviewFeedback, Unique
<1> QED
  BY <1>1, <1>2

\* The verdicts touch no report.
LEMMA JudgedReport ==
    ASSUME NEW st, StoreInv(st), NEW later, StoreInv(later), Judged(st, later)
    PROVE  /\ HasReport(later, Run) = HasReport(st, Run)
           /\ HasReport(st, Run) => LatestReport(later, Run) = LatestReport(st, Run)
<1>1. st \in Seq(Artifacts) /\ later \in Seq(Artifacts)
  BY DEF StoreInv
<1>2. /\ DOMAIN st \subseteq DOMAIN later
      /\ \A i \in DOMAIN st : later[i].type = st[i].type
      /\ \A i \in DOMAIN st : st[i].type # "claim" => later[i] = st[i]
      /\ \A i \in DOMAIN later \ DOMAIN st : later[i].type = "claim"
  BY <1>1, ContinuesFacts DEF Judged
<1>3. Active(later, Run, "report") = Active(st, Run, "report")
      /\ \A i \in Active(st, Run, "report") : later[i] = st[i]
  BY <1>2 DEF Active, Listed
<1>4. ASSUME HasReport(st, Run)
      PROVE  LatestReport(later, Run) = LatestReport(st, Run)
  <2>1. PICK i : Top(st, i) /\ LatestReport(st, Run) = st[i]
    BY <1>1, <1>4, LatestFacts
  <2>2. Top(later, i) /\ later[i] = st[i]
    BY <1>3, <2>1 DEF Top
  <2> QED
    BY <1>1, <2>1, <2>2, TopFacts
<1> QED
  BY <1>3, <1>4 DEF HasReport

\* What a report rests on, in the words of ApprovedRestsOnEvidence.
Evidenced(st, report) ==
    /\ report.claims # {}
    /\ \A c \in report.claims :
           \/ c \in ActiveIds(st, "claim")
           \/ \E d \in ActiveClaims(st) : d.sup = c /\ d.id = VerifiedId(c, Get(st, c).version + 1)
    /\ report.sources \subseteq ActiveIds(st, "source")

LEMMA RulesLeaveEvidence ==
    ASSUME NEW st, StoreInv(st), HasReport(st, Run), RuleFeedback(st, LatestReport(st, Run)) = {},
           NEW later, StoreInv(later), Judged(st, later)
    PROVE  Evidenced(later, LatestReport(st, Run))
<1> DEFINE r == LatestReport(st, Run)
<1>1. r.claims # {}
  BY ReportFacts
<1> HIDE DEF r
<1>2. r.claims \subseteq ActiveIds(st, "claim") /\ r.sources \subseteq ActiveIds(st, "source")
  <2>1. UnknownClaims(st, r) = {} /\ MissingSources(st, r) = {}
    BY DEF RuleFeedback, r
  <2>2. r.claims \ ActiveIds(st, "claim") = {}
    BY <2>1 DEF UnknownClaims
  <2>3. r.sources \ ActiveIds(st, "source") = {}
    BY <2>1 DEF MissingSources
  <2> QED
    BY <2>2, <2>3
<1>3. st \in Seq(Artifacts) /\ later \in Seq(Artifacts) /\ IdsUniqueIn(later)
  BY DEF StoreInv
<1>4. /\ DOMAIN st \subseteq DOMAIN later
      /\ \A i \in DOMAIN st : later[i].id = st[i].id /\ later[i].version = st[i].version
  BY <1>3, ContinuesFacts DEF Judged
<1>5. r.sources \subseteq ActiveIds(later, "source")
  <2>1. \A i \in DOMAIN st : st[i].type = "source" => later[i] = st[i]
    BY DEF Judged
  <2>2. ActiveIds(st, "source") \subseteq ActiveIds(later, "source")
    BY <1>4, <2>1 DEF ActiveIds, Active, Listed
  <2> QED
    BY <1>2, <2>2
<1>6. ASSUME NEW c \in r.claims
      PROVE  \/ c \in ActiveIds(later, "claim")
             \/ \E d \in ActiveClaims(later) :
                    d.sup = c /\ d.id = VerifiedId(c, Get(later, c).version + 1)
  <2>1. PICK i \in DOMAIN st : st[i].run = Run /\ st[i].type = "claim" /\ st[i].status = "active"
                               /\ c = st[i].id
    BY <1>2, <1>6 DEF ActiveIds, Active, Listed
  <2>2. CASE later[i] = st[i]
    BY <1>4, <2>1, <2>2 DEF ActiveIds, Active, Listed
  <2>3. CASE later[i] # st[i]
    <3>1. PICK j \in DOMAIN later :
              /\ later[j].run = Run /\ later[j].type = "claim" /\ later[j].status = "active"
              /\ later[j].sup = st[i].id
              /\ later[j].id = VerifiedId(st[i].id, st[i].version + 1)
      BY <2>1, <2>3 DEF Judged
    <3>2. Get(later, later[i].id) = later[i]
      BY <1>3, <1>4, PlaceIs
    <3>3. Get(later, c).version = st[i].version
      BY <1>4, <2>1, <3>2
    <3>4. later[j] \in ActiveClaims(later)
      BY <3>1 DEF ActiveClaims, Active, Listed
    <3>5. later[j].sup = c /\ later[j].id = VerifiedId(c, Get(later, c).version + 1)
      BY <2>1, <3>1, <3>3
    <3> QED
      BY <3>4, <3>5
  <2> QED
    BY <2>2, <2>3
<1> QED
  BY <1>1, <1>5, <1>6 DEF Evidenced, r

\* The review r is of the latest report of the store st.
Looked(st, r) ==
    /\ HasReport(st, Run) => r.report = LatestReport(st, Run).id
    /\ r.decision = "stop" => HasReport(st, Run) /\ Blocking(r.feedback) = {}
    /\ r.feedback = {} => HasReport(st, Run) /\ Evidenced(st, LatestReport(st, Run))

Reviews == [decision : {"none", "rework", "stop"}, feedback : SUBSET Feedbacks, report : Ids]

LEMMA ReviewRoundFacts ==
    ASSUME StoreInv(store), NEW prior, prior \subseteq Feedbacks, ReviewRound(prior)
    PROVE  /\ StoreInv(store') /\ review' \in Reviews /\ Looked(store', review')
           /\ review'.decision \in {"rework", "stop"}
           /\ HasReport(store', Run) = HasReport(store, Run)
           /\ HasReport(store, Run) => LatestReport(store', Run) = LatestReport(store, Run)
<1>1. PICK O \in Opinions(store, prior), V \in Verdicts(store) :
          /\ store' \in Reviewed(store, V)
          /\ review' = Review(store, ReviewFeedback(store, O, V))
  BY DEF ReviewRound
<1> DEFINE later == store'
           fbs   == ReviewFeedback(store, O, V)
           r     == Review(store, fbs)
<1>2. StoreInv(later) /\ Judged(store, later)
  BY <1>1, ReviewedFacts
<1> HIDE DEF later
<1>3. /\ HasReport(later, Run) = HasReport(store, Run)
      /\ HasReport(store, Run) => LatestReport(later, Run) = LatestReport(store, Run)
  BY <1>2, JudgedReport
<1>4. fbs \subseteq Feedbacks
  BY ReviewFeedbackType
<1>5. HasReport(store, Run) => RuleFeedback(store, LatestReport(store, Run)) \subseteq fbs
  BY DEF ReviewFeedback, Unique
<1>6. ~HasReport(store, Run) => Blocking(fbs) # {} /\ fbs # {}
  <2> DEFINE fb == Feedback("missing_section", "writer", MissingReportId, TRUE)
  <2>1. fb.blocking
    BY DEF Feedback
  <2>2. ~HasReport(store, Run) => fbs = {fb}
    BY DEF ReviewFeedback, NoReportFeedback
  <2> HIDE DEF fb, fbs
  <2> QED
    BY <2>1, <2>2 DEF Blocking
<1> HIDE DEF fbs
<1>7. /\ r.feedback = fbs
      /\ r.report = IF HasReport(store, Run) THEN LatestReport(store, Run).id ELSE NoId
      /\ r.decision = IF Blocking(fbs) # {} THEN "rework" ELSE "stop"
      /\ r = [feedback |-> r.feedback, report |-> r.report, decision |-> r.decision]
  BY DEF Review
<1> HIDE DEF r
<1>8. r.report \in Ids
  <2>1. CASE HasReport(store, Run)
    BY <1>7, <2>1, ReportFacts
  <2>2. CASE ~HasReport(store, Run)
    BY <1>7, <2>2, FixedIds
  <2> QED
    BY <2>1, <2>2
<1>9. r \in Reviews /\ r.decision \in {"rework", "stop"}
  BY <1>4, <1>7, <1>8 DEF Reviews
<1>10. Looked(later, r)
  <2>1. r.feedback = {} => Evidenced(later, LatestReport(store, Run))
    BY <1>2, <1>5, <1>6, <1>7, RulesLeaveEvidence
  <2> QED
    BY <1>3, <1>6, <1>7, <2>1 DEF Looked
<1> QED
  BY <1>1, <1>2, <1>3, <1>9, <1>10 DEF later, r, fbs

-----------------------------------------------------------------------------
(* The invariant of a run *)

Routes == {<<"collector", "analyst", "writer", "reviewer">>, <<"analyst", "writer", "reviewer">>,
           <<"writer", "reviewer">>, <<"reviewer">>, <<>>}
Outcomes == {"running", "approved", "approved_with_caveats", "aborted", "needs_rework",
             "needs_more_evidence", "rework_failed", "raised"}

LEMMA RouteFacts ==
    /\ Pipeline \in Routes
    /\ \A agent \in Agents : REWORK_ROUTES(agent) \in Routes \ {<<>>}
    /\ \A r \in Routes \ {<<>>} :
           Tail(r) \in Routes /\ Head(r) \in Agents /\ (Head(r) # "reviewer" => Tail(r) # <<>>)
<1>1. \A agent \in Agents : REWORK_ROUTES(agent) \in Routes \ {<<>>}
  BY DEF REWORK_ROUTES, Agents, Routes
<1>2. /\ Tail(<<"collector", "analyst", "writer", "reviewer">>)
             = <<"analyst", "writer", "reviewer">>
      /\ Tail(<<"analyst", "writer", "reviewer">>) = <<"writer", "reviewer">>
      /\ Tail(<<"writer", "reviewer">>) = <<"reviewer">>
      /\ Tail(<<"reviewer">>) = <<>>
  OBVIOUS
<1>3. /\ Head(<<"collector", "analyst", "writer", "reviewer">>) = "collector"
      /\ Head(<<"analyst", "writer", "reviewer">>) = "analyst"
      /\ Head(<<"writer", "reviewer">>) = "writer"
      /\ Head(<<"reviewer">>) = "reviewer"
  OBVIOUS
<1>4. /\ <<"analyst", "writer", "reviewer">> # <<>> /\ <<"writer", "reviewer">> # <<>>
      /\ <<"reviewer">> # <<>>
  OBVIOUS
<1> QED
  BY <1>1, <1>2, <1>3, <1>4 DEF Pipeline, Routes, Agents

\* What a result may ship, given the store and the latest review.
Backed(st, r, result) ==
    /\ result.status \in {"approved", "approved_with_caveats"} /\ result.error # "global_timeout" =>
           result.report # NoId /\ r.report = result.report
    /\ result.status = "approved" => r.feedback = {} /\ Evidenced(st, Get(st, result.report))

\* The variables beside the store, each of its type.
ControlTypes ==
    /\ review \in Reviews /\ remaining \subseteq Feedbacks
    /\ partial \in BOOLEAN /\ late \in BOOLEAN /\ writerFed \in BOOLEAN
    /\ answer \in {"none", "stop", "rework", "abort"}
    /\ phase \in {"pipeline", "rework", "route", "done"}
    /\ agents \in Routes /\ (phase = "route" => agents # <<>>)
    /\ outcome.status \in Outcomes
    /\ (outcome.status = "running") <=> (phase # "done")

\* The review that a run is about to ship, or to give up on, is of the report as it is
\* now: in a route it is out of date, and partial coverage comes before any review.
ReviewUpToDate ==
    /\ phase = "pipeline" /\ agents = <<>> => Looked(store, review) /\ review.decision = "stop"
    /\ phase = "rework" => remaining = CoverageFeedback \/ Looked(store, review)

RunInv ==
    /\ StoreInv(store) /\ ControlTypes
    /\ ReviewUpToDate
    /\ Backed(store, review, outcome)

\* A step to the end of the run.
LEMMA FinishKeeps ==
    ASSUME RunInv, NEW result, Finish(result), result.status \in Outcomes \ {"running"},
           StoreInv(store'), review' \in Reviews, agents' \in Routes,
           partial' \in BOOLEAN, late' \in BOOLEAN, writerFed' \in BOOLEAN,
           answer' \in {"none", "stop", "rework", "abort"}, remaining' \subseteq Feedbacks,
           Backed(store', review', result)
    PROVE  RunInv'
<1>1. phase' = "done" /\ outcome' = result
  BY DEF Finish
<1>2. ControlTypes'
  BY <1>1 DEF ControlTypes
<1>3. ReviewUpToDate'
  BY <1>1 DEF ReviewUpToDate
<1> QED
  BY <1>1, <1>2, <1>3 DEF RunInv

\* A step that leaves the review as it is and goes on with the next agent.
LEMMA AgentKeeps ==
    ASSUME RunInv, phase \in {"pipeline", "route"}, agents # <<>>, Head(agents) # "reviewer",
           StoreInv(store'), agents' = Tail(agents),
           partial' \in BOOLEAN, late' \in BOOLEAN, answer' \in {"stop", "abort"},
           UNCHANGED <<review, remaining, phase, writerFed, outcome>>
    PROVE  RunInv'
<1>1. agents' \in Routes /\ agents' # <<>>
  BY RouteFacts DEF RunInv, ControlTypes
<1>2. ControlTypes'
  BY <1>1 DEF RunInv, ControlTypes
<1>3. ReviewUpToDate'
  BY <1>1 DEF RunInv, ReviewUpToDate
<1>4. outcome.status = "running"
  BY DEF RunInv, ControlTypes
<1>5. Backed(store', review', outcome')
  BY <1>4 DEF Backed
<1> QED
  BY <1>2, <1>3, <1>5 DEF RunInv

\* A result that ships nothing, or ships late.
LEMMA UnshippedIsBacked ==
    ASSUME NEW st, NEW r, NEW result, result.status # "approved",
           result.status = "approved_with_caveats" => result.error = "global_timeout"
    PROVE  Backed(st, r, result)
BY DEF Backed

LEMMA TimeoutIsBacked ==
    /\ TimeoutResult.status \in Outcomes \ {"running"}
    /\ \A st, r : Backed(st, r, TimeoutResult)
BY DEF TimeoutResult, RunResult, Backed, Outcomes

\* The reviewer's stop: with no caveats there was no feedback at all.
LEMMA ReviewedIsBacked ==
    ASSUME StoreInv(store), NEW st, StoreInv(st), NEW r \in Reviews, Looked(st, r),
           r.decision = "stop",
           HasReport(st, Run) = HasReport(store, Run),
           HasReport(store, Run) => LatestReport(st, Run) = LatestReport(store, Run)
    PROVE  /\ ReviewedResult(r.feedback).status \in Outcomes \ {"running"}
           /\ Backed(st, r, ReviewedResult(r.feedback))
<1> DEFINE result == ReviewedResult(r.feedback)
           report == LatestReport(store, Run)
<1>1. /\ HasReport(store, Run) /\ LatestReport(st, Run) = report /\ r.report = report.id
      /\ Blocking(r.feedback) = {} /\ HasReport(st, Run)
  BY DEF Looked
<1>2. report.id # NoId /\ Get(st, report.id) = report
  BY <1>1, ReportFacts
<1>3. /\ result.status \in Outcomes \ {"running"} /\ result.report = report.id
      /\ result.status = "approved" => Advisories(r.feedback) = {}
  BY <1>1 DEF ReviewedResult, RunResult, Outcomes
<1>4. ASSUME Advisories(r.feedback) = {} PROVE r.feedback = {} /\ Evidenced(st, report)
  <2>1. \A fb \in r.feedback : fb.blocking \in BOOLEAN
    BY DEF Reviews, Feedbacks
  <2>2. r.feedback = {}
    BY <1>1, <1>4, <2>1 DEF Advisories, Blocking
  <2> QED
    BY <1>1, <2>2 DEF Looked
<1> HIDE DEF result, report
<1>5. Backed(st, r, result)
  BY <1>1, <1>2, <1>3, <1>4 DEF Backed
<1> QED
  BY <1>3, <1>5 DEF result

\* What is given up on ships only with the report the reviewer looked at: the lack of
\* sources that precedes the review is no caveat.
LEMMA UnresolvedIsBacked ==
    ASSUME RunInv, phase = "rework", NEW error
    PROVE  /\ UnresolvedResult(remaining, error).status \in Outcomes \ {"running"}
           /\ Backed(store, review, UnresolvedResult(remaining, error))
<1> DEFINE result == UnresolvedResult(remaining, error)
<1>1. /\ result.status = UnresolvedStatus(remaining)
      /\ result.report = IF HasReport(store, Run) THEN LatestReport(store, Run).id ELSE NoId
  BY DEF UnresolvedResult, RunResult
<1>2. /\ UnresolvedStatus(remaining) \in Outcomes \ {"running", "approved"}
      /\ UnresolvedStatus(remaining) = "approved_with_caveats" =>
             HasReport(store, Run) /\ ~\E fb \in remaining : MissingSource(fb)
  BY DEF UnresolvedStatus, Outcomes
<1>3. \E fb \in CoverageFeedback : MissingSource(fb)
  BY DEF CoverageFeedback, Feedback, MissingSource
<1>4. ASSUME result.status = "approved_with_caveats"
      PROVE  result.report # NoId /\ review.report = result.report
  <2>1. HasReport(store, Run) /\ remaining # CoverageFeedback
    BY <1>1, <1>2, <1>3, <1>4
  <2>2. Looked(store, review) /\ StoreInv(store)
    BY <2>1 DEF RunInv, ReviewUpToDate
  <2>3. LatestReport(store, Run).id # NoId
    BY <2>1, <2>2, ReportFacts
  <2> QED
    BY <1>1, <2>1, <2>2, <2>3 DEF Looked
<1> HIDE DEF result
<1> QED
  BY <1>1, <1>2, <1>4 DEF Backed, result

LEMMA EnterReworkKeeps ==
    ASSUME RunInv, phase = "pipeline", NEW fbs, EnterRework(fbs), fbs \subseteq Feedbacks,
           StoreInv(store'), review' \in Reviews, agents' \in Routes,
           answer' \in {"none", "stop", "rework", "abort"}, UNCHANGED <<partial, late>>,
           fbs = CoverageFeedback \/ Looked(store', review')
    PROVE  RunInv'
<1>1. CASE EnableRework
  <2>1. phase' = "rework" /\ remaining' = fbs /\ UNCHANGED <<outcome, writerFed>>
    BY <1>1 DEF EnterRework
  <2>2. outcome.status = "running"
    BY DEF RunInv, ControlTypes
  <2>3. ControlTypes'
    BY <2>1, <2>2 DEF RunInv, ControlTypes
  <2>4. ReviewUpToDate'
    BY <2>1 DEF ReviewUpToDate
  <2>5. Backed(store', review', outcome')
    BY <2>1, <2>2 DEF Backed
  <2> QED
    BY <2>3, <2>4, <2>5 DEF RunInv
<1>2. CASE ~EnableRework
  <2> DEFINE result == RunResult("needs_rework", fbs, {}, "none")
  <2>1. result.status = "needs_rework"
    BY DEF RunResult
  <2>2. Finish(result) /\ UNCHANGED <<remaining, writerFed>>
    BY <1>2 DEF EnterRework, Finish
  <2> HIDE DEF result
  <2>3. Backed(store', review', result) /\ result.status \in Outcomes \ {"running"}
    BY <2>1 DEF Backed, Outcomes
  <2> QED
    BY <2>2, <2>3, FinishKeeps DEF RunInv, ControlTypes
<1> QED
  BY <1>1, <1>2

LEMMA CollectorKeeps == ASSUME RunInv, RunCollector \/ RerunCollector PROVE RunInv'
<1>1. /\ phase \in {"pipeline", "route"} /\ agents # <<>> /\ Head(agents) = "collector"
      /\ store' \in Collected(store) /\ partial' \in BOOLEAN /\ agents' = Tail(agents)
      /\ answer' \in {"stop", "abort"}
      /\ UNCHANGED <<review, late, remaining, phase, writerFed, outcome>>
  BY DEF RunCollector, RerunCollector, AtBoundary, InRoute, RunInv, ControlTypes
<1>2. StoreInv(store') /\ late' \in BOOLEAN
  BY <1>1, CollectedKeeps DEF RunInv, ControlTypes
<1> QED
  BY <1>1, <1>2, AgentKeeps

LEMMA WriterKeeps == ASSUME RunInv, RunWriter \/ RerunWriter PROVE RunInv'
<1>1. /\ phase \in {"pipeline", "route"} /\ agents # <<>> /\ Head(agents) = "writer"
      /\ store' \in Written(store, FALSE) \cup Written(store, writerFed)
      /\ agents' = Tail(agents) /\ answer' \in {"stop", "abort"}
      /\ UNCHANGED <<review, partial, late, remaining, phase, writerFed, outcome>>
  BY DEF RunWriter, RerunWriter, AtBoundary, InRoute, RunInv, ControlTypes
<1>2. StoreInv(store') /\ partial' \in BOOLEAN /\ late' \in BOOLEAN
  BY <1>1, WrittenKeeps DEF RunInv, ControlTypes
<1> QED
  BY <1>1, <1>2, AgentKeeps

LEMMA CoverageFeedbackType == CoverageFeedback \subseteq Feedbacks
BY FeedbackType, FixedIds DEF CoverageFeedback, Issues, Agents

LEMMA AnalystKeeps == ASSUME RunInv, RunAnalyst \/ RerunAnalyst PROVE RunInv'
<1>1. /\ phase \in {"pipeline", "route"} /\ agents # <<>> /\ Head(agents) = "analyst"
      /\ store' \in Analysed(store) \/ UNCHANGED store
      /\ agents' = Tail(agents) /\ answer' \in {"stop", "abort"}
      /\ UNCHANGED <<review, partial, late>>
  BY DEF RunAnalyst, RerunAnalyst, AtBoundary, InRoute, RunInv, ControlTypes
<1>2. StoreInv(store') /\ partial' \in BOOLEAN /\ late' \in BOOLEAN
  BY <1>1, AnalysedKeeps DEF RunInv, ControlTypes
<1>3. CASE UNCHANGED <<remaining, phase, writerFed, outcome>>
  BY <1>1, <1>2, <1>3, AgentKeeps
<1>4. CASE RunAnalyst /\ partial
  <2>1. phase = "pipeline" /\ EnterRework(CoverageFeedback)
    BY <1>4 DEF RunAnalyst, AtBoundary
  <2>2. agents' \in Routes /\ review' \in Reviews
    BY <1>1, RouteFacts DEF RunInv, ControlTypes
  <2> QED
    BY <1>1, <1>2, <2>1, <2>2, CoverageFeedbackType, EnterReworkKeeps
<1> QED
  BY <1>3, <1>4 DEF RunAnalyst, RerunAnalyst

LEMMA ReviewerKeeps == ASSUME RunInv, RunReviewer \/ RerunReviewer PROVE RunInv'
<1>1. /\ phase \in {"pipeline", "route"} /\ agents # <<>> /\ Head(agents) = "reviewer"
      /\ ReviewRound({}) \/ ReviewRound(review.feedback)
      /\ agents' = Tail(agents) /\ answer' = review'.decision
      /\ UNCHANGED <<partial, late>>
  BY DEF RunReviewer, RerunReviewer, AtBoundary, InRoute, RunInv, ControlTypes
<1>2. StoreInv(store) /\ review.feedback \subseteq Feedbacks /\ {} \subseteq Feedbacks
  BY DEF RunInv, ControlTypes, Reviews
<1>3. /\ StoreInv(store') /\ review' \in Reviews /\ Looked(store', review')
      /\ review'.decision \in {"rework", "stop"}
      /\ HasReport(store', Run) = HasReport(store, Run)
      /\ HasReport(store, Run) => LatestReport(store', Run) = LatestReport(store, Run)
  BY <1>1, <1>2, ReviewRoundFacts
<1>4. /\ agents' \in Routes /\ answer' \in {"none", "stop", "rework", "abort"}
      /\ partial' \in BOOLEAN /\ late' \in BOOLEAN /\ review'.feedback \subseteq Feedbacks
      /\ remaining \subseteq Feedbacks /\ writerFed \in BOOLEAN
  BY <1>1, <1>3, RouteFacts DEF RunInv, ControlTypes, Reviews
<1>5. CASE RunReviewer /\ review'.decision = "rework"
  <2>1. phase = "pipeline" /\ EnterRework(review'.feedback)
    BY <1>5 DEF RunReviewer, AtBoundary
  <2>2. PICK fbs : fbs = review'.feedback
    OBVIOUS
  <2> QED
    BY <1>1, <1>3, <1>4, <2>1, <2>2, EnterReworkKeeps
<1>6. CASE RunReviewer /\ review'.decision = "stop"
  <2>1. phase = "pipeline" /\ UNCHANGED <<phase, remaining, writerFed, outcome>>
    BY <1>6 DEF RunReviewer, AtBoundary
  <2>2. outcome.status = "running"
    BY <2>1 DEF RunInv, ControlTypes
  <2>3. ControlTypes'
    BY <1>3, <1>4, <2>1, <2>2 DEF RunInv, ControlTypes
  <2>4. ReviewUpToDate'
    BY <1>3, <1>6, <2>1 DEF ReviewUpToDate
  <2>5. Backed(store', review', outcome')
    BY <2>1, <2>2 DEF Backed
  <2> QED
    BY <1>3, <2>3, <2>4, <2>5 DEF RunInv
<1>7. CASE RerunReviewer /\ review'.decision = "stop"
  <2>1. Finish(ReviewedResult(review'.feedback)) /\ UNCHANGED <<remaining, writerFed>>
    BY <1>7 DEF RerunReviewer
  <2>2. PICK st, r : st = store' /\ r = review'
    OBVIOUS
  <2>3. /\ ReviewedResult(r.feedback).status \in Outcomes \ {"running"}
        /\ Backed(st, r, ReviewedResult(r.feedback))
    BY <1>2, <1>3, <1>7, <2>2, ReviewedIsBacked
  <2>4. PICK result : result = ReviewedResult(r.feedback)
    OBVIOUS
  <2>5. /\ Finish(result) /\ result.status \in Outcomes \ {"running"}
        /\ Backed(store', review', result)
    BY <2>1, <2>2, <2>3, <2>4
  <2>6. remaining' \subseteq Feedbacks /\ writerFed' \in BOOLEAN
    BY <1>4, <2>1
  <2> QED
    BY <1>3, <1>4, <2>5, <2>6, FinishKeeps
<1>8. CASE RerunReviewer /\ review'.decision # "stop"
  <2>1. phase = "route" /\ phase' = "rework" /\ remaining' = review'.feedback
        /\ UNCHANGED <<writerFed, outcome>>
    BY <1>8 DEF RerunReviewer, InRoute
  <2>2. outcome.status = "running"
    BY <2>1 DEF RunInv, ControlTypes
  <2>3. ControlTypes'
    BY <1>3, <1>4, <2>1, <2>2 DEF RunInv, ControlTypes
  <2>4. ReviewUpToDate'
    BY <1>3, <2>1 DEF ReviewUpToDate
  <2>5. Backed(store', review', outcome')
    BY <2>1, <2>2 DEF Backed
  <2> QED
    BY <1>3, <2>3, <2>4, <2>5 DEF RunInv
<1> QED
  BY <1>3, <1>5, <1>6, <1>7, <1>8

\* The steps that end a run where it stands.
LEMMA EndKeeps ==
    ASSUME RunInv,
           \/ TimeOut \/ ReworkTimesOut \/ Approve \/ AgentRaises \/ ReworkGivesUp
           \/ AgentAborts("collector", Collected(store)) \/ AgentAborts("analyst", Analysed(store))
    PROVE  RunInv'
<1>1. StoreInv(store) /\ ControlTypes /\ ReviewUpToDate
  BY DEF RunInv
<1>2. CASE TimeOut \/ ReworkTimesOut
  BY <1>1, <1>2, TimeoutIsBacked, FinishKeeps DEF TimeOut, ReworkTimesOut, ControlTypes
<1>3. CASE Approve
  <2>1. review \in Reviews /\ review.decision = "stop" /\ Looked(store, review)
    BY <1>1, <1>3 DEF Approve, ControlTypes, ReviewUpToDate
  <2>2. /\ ReviewedResult(review.feedback).status \in Outcomes \ {"running"}
        /\ Backed(store, review, ReviewedResult(review.feedback))
    BY <1>1, <2>1, ReviewedIsBacked
  <2> QED
    BY <1>1, <1>3, <2>2, FinishKeeps DEF Approve, ControlTypes
<1>4. CASE AgentRaises
  <2>1. /\ Raised("agent").status \in Outcomes \ {"running"}
        /\ Backed(store, review, Raised("agent"))
    BY DEF Raised, NoResult, Backed, Outcomes
  <2> QED
    BY <1>1, <1>4, <2>1, FinishKeeps DEF AgentRaises, ControlTypes
<1>5. CASE ReworkGivesUp
  BY <1>1, <1>5, UnresolvedIsBacked, FinishKeeps DEF ReworkGivesUp, ControlTypes
<1>6. CASE AgentAborts("collector", Collected(store)) \/ AgentAborts("analyst", Analysed(store))
  <2> DEFINE result == RunResult("aborted", {}, {}, "agent_aborted")
  <2>1. result.status = "aborted"
    BY DEF RunResult
  <2>2. /\ store' \in Collected(store) \cup Analysed(store) /\ answer' = "abort"
        /\ Finish(result)
        /\ UNCHANGED <<review, partial, late, agents, remaining, left, writerFed, applied>>
    BY <1>6 DEF AgentAborts
  <2>3. StoreInv(store')
    BY <1>1, <2>2, CollectedKeeps, AnalysedKeeps
  <2> HIDE DEF result
  <2>4. result.status \in Outcomes \ {"running"} /\ Backed(store', review', result)
    BY <2>1 DEF Backed, Outcomes
  <2> QED
    BY <1>1, <2>2, <2>3, <2>4, FinishKeeps DEF ControlTypes
<1> QED
  BY <1>2, <1>3, <1>4, <1>5, <1>6

\* An iteration of the rework loop changes the artifacts behind one item of feedback.
LEMMA ApplyKeeps == ASSUME RunInv, NEW fb \in remaining, Apply(fb) PROVE RunInv'
<1>1. /\ StoreInv(store) /\ ControlTypes /\ phase = "rework"
      /\ fb.target \in Ids /\ fb.agent \in Agents
      /\ UNCHANGED <<review, partial, late, remaining, answer>>
  BY DEF RunInv, Apply, ControlTypes, Feedbacks
<1>2. CASE Attempts(fb) >= MaxRework
  <2>1. /\ Finish(UnresolvedResult(remaining, "max_attempts_exceeded"))
        /\ UNCHANGED <<store, agents, writerFed>>
    BY <1>2 DEF Apply
  <2> QED
    BY <1>1, <2>1, UnresolvedIsBacked, FinishKeeps DEF ControlTypes
<1>3. CASE ~(Attempts(fb) >= MaxRework) /\ Collides(store, fb)
  <2>1. /\ Finish(Raised("duplicate_artifact")) /\ UNCHANGED <<store, agents, writerFed>>
    BY <1>3 DEF Apply
  <2>2. /\ Raised("duplicate_artifact").status \in Outcomes \ {"running"}
        /\ Backed(store, review, Raised("duplicate_artifact"))
    BY DEF Raised, NoResult, Backed, Outcomes
  <2> QED
    BY <1>1, <2>1, <2>2, FinishKeeps DEF ControlTypes
<1>4. CASE ~(Attempts(fb) >= MaxRework) /\ ~Collides(store, fb)
  <2>1. /\ store' = Prepared(store, fb) /\ agents' = REWORK_ROUTES(fb.agent)
        /\ writerFed' = (\E g \in remaining : g.agent = "writer")
        /\ phase' = "route" /\ UNCHANGED outcome
    BY <1>4 DEF Apply
  <2>2. StoreInv(store')
    BY <1>1, <1>4, <2>1, PreparedKeeps
  <2>3. agents' \in Routes /\ agents' # <<>> /\ writerFed' \in BOOLEAN
    BY <1>1, <2>1, RouteFacts
  <2>4. outcome.status = "running"
    BY <1>1 DEF ControlTypes
  <2>5. ControlTypes'
    BY <1>1, <2>1, <2>3, <2>4 DEF ControlTypes
  <2>6. ReviewUpToDate'
    BY <2>1 DEF ReviewUpToDate
  <2>7. Backed(store', review', outcome')
    BY <2>1, <2>4 DEF Backed
  <2> QED
    BY <2>2, <2>5, <2>6, <2>7 DEF RunInv
<1> QED
  BY <1>2, <1>3, <1>4

LEMMA RunInvStep == RunInv /\ [Next]_vars => RunInv'
<1> SUFFICES ASSUME RunInv, [Next]_vars PROVE RunInv'
  OBVIOUS
<1>1. CASE DeadlinePasses \/ UNCHANGED vars
  <2>1. /\ UNCHANGED <<store, review, partial, phase, agents, remaining, writerFed, answer,
                       outcome>>
        /\ late' \in BOOLEAN
    BY <1>1 DEF DeadlinePasses, vars, RunInv, ControlTypes
  <2>2. StoreInv(store') /\ Backed(store', review', outcome')
    BY <2>1 DEF RunInv
  <2> QED
    BY <2>1, <2>2 DEF RunInv, ControlTypes, ReviewUpToDate
<1>2. CASE Proceeds
  BY <1>2, EndKeeps, ApplyKeeps, CollectorKeeps, AnalystKeeps, WriterKeeps, ReviewerKeeps
     DEF Proceeds
<1> QED
  BY <1>1, <1>2 DEF Next

LEMMA RunInvAlways == Spec => []RunInv
<1>1. Init => RunInv
  <2> SUFFICES ASSUME Init PROVE RunInv
    OBVIOUS
  <2>1. StoreInv(<<>>)
    BY DEF StoreInv, IdsUniqueIn, SuccessorsKept
  <2>2. NoReview \in Reviews
    BY FixedIds DEF NoReview, Reviews
  <2>3. agents # <<>> /\ agents \in Routes
    BY RouteFacts DEF Init, Pipeline
  <2>4. ControlTypes
    BY <2>2, <2>3 DEF Init, ControlTypes, NoResult, Outcomes
  <2>5. ReviewUpToDate /\ Backed(store, review, outcome)
    BY <2>3 DEF Init, ReviewUpToDate, Backed, NoResult
  <2> QED
    BY <2>1, <2>4, <2>5 DEF RunInv, Init
<1> QED
  BY <1>1, RunInvStep, PTL DEF Spec

-----------------------------------------------------------------------------
(* Theorems *)

LEMMA TypesImplied == RunInv /\ AttemptsCounted => TypeOK
<1> SUFFICES ASSUME RunInv, AttemptsCounted PROVE TypeOK
  OBVIOUS
<1>1. StoreInv(store) /\ ControlTypes
  BY DEF RunInv
<1>2. \A id \in Ids : IsId(id)
  BY DEF Ids, IdSuffixes, IsId
<1>3. \A i \in DOMAIN store : IsArtifact(store[i])
  <2> SUFFICES ASSUME NEW a \in Artifacts PROVE IsArtifact(a)
    BY <1>1, StoreFacts DEF StoreInv
  <2>1. CASE a \in SourceArtifacts
    BY <1>2, <2>1, ArtifactFacts DEF IsArtifact, SourceArtifacts
  <2>2. CASE a \in ClaimArtifacts
    BY <1>2, <2>2, ArtifactFacts DEF IsArtifact, ClaimArtifacts
  <2>3. CASE a \in ReportArtifacts
    BY <1>2, <2>3, ArtifactFacts DEF IsArtifact, ReportArtifacts
  <2> QED
    BY <2>1, <2>2, <2>3 DEF Artifacts
<1>4. \A fb \in review.feedback : IsFeedback(fb)
  BY <1>1, <1>2 DEF ControlTypes, Reviews, Feedbacks, Issues, Agents, IsFeedback
<1> QED
  BY <1>1, <1>3, <1>4 DEF TypeOK, ControlTypes, Reviews, Outcomes, AttemptsCounted

\* Every variable of a run stays of its type, each attempt of the rework loop uses up
\* an iteration, and a run has a result exactly when it is over.
THEOREM TypeCorrect == Spec => []TypeOK
BY RunInvAlways, CaveatInvAlways, TypesImplied, PTL DEF CaveatInv

\* However many artifacts an agent saves, the reviewer judges and the rework loop
\* replaces, no id is given twice and what is superseded keeps its successor.
THEOREM LineageAlwaysKept == Spec => []LineageKept
<1>1. RunInv => LineageKept
  BY DEF RunInv, StoreInv, LineageKept
<1> QED
  BY <1>1, RunInvAlways, PTL

\* Whatever the rework loop did in between, what ships on the reviewer's word is the
\* report that its latest review looked at.
THEOREM ReviewedShips == Spec => []ShippedWasReviewed
<1>1. RunInv => ShippedWasReviewed
  BY DEF RunInv, Backed, ShippedWasReviewed, Shipped, TimedOut
<1> QED
  BY <1>1, RunInvAlways, PTL

\* A report that is approved outright rests on active sources, and on claims that are
\* active or were cross-checked in the review that approved it.
THEOREM ApprovalRestsOnEvidence == Spec => []ApprovedRestsOnEvidence
<1>1. RunInv => ApprovedRestsOnEvidence
  <2> SUFFICES ASSUME RunInv PROVE ApprovedRestsOnEvidence
    OBVIOUS
  <2>1. Backed(store, review, outcome)
    BY DEF RunInv
  <2> QED
    BY <2>1 DEF Backed, Evidenced, ApprovedRestsOnEvidence, Stands, Report
<1> QED
  BY <1>1, RunInvAlways, PTL

-----------------------------------------------------------------------------
(* How long a run can take *)

\* A bound on the steps a run has left: its agents, and for each iteration left of the
\* rework loop the iteration, the agents of the longest route and the look at the end.
StepsLeft ==
    CASE phase = "pipeline" -> 6 * left + Len(agents) + 2
      [] phase = "route"    -> 6 * left + Len(agents) + 1
      [] phase = "rework"   -> 6 * left + 1
      [] OTHER              -> 0

LEMMA RouteLengths ==
    \A r \in Routes : /\ Len(r) \in 0..4
                      /\ r # <<>> => Len(r) >= 1 /\ Len(Tail(r)) = Len(r) - 1
<1>1. ASSUME NEW r \in {<<"collector", "analyst", "writer", "reviewer">>,
                          <<"analyst", "writer", "reviewer">>, <<"writer", "reviewer">>,
                          <<"reviewer">>}
      PROVE  Len(r) \in 1..4 /\ Len(Tail(r)) = Len(r) - 1
  <2>1. /\ Len(<<"collector", "analyst", "writer", "reviewer">>) = 4
        /\ Len(<<"analyst", "writer", "reviewer">>) = 3
        /\ Len(<<"writer", "reviewer">>) = 2 /\ Len(<<"reviewer">>) = 1 /\ Len(<<>>) = 0
    OBVIOUS
  <2>2. /\ Tail(<<"collector", "analyst", "writer", "reviewer">>)
               = <<"analyst", "writer", "reviewer">>
        /\ Tail(<<"analyst", "writer", "reviewer">>) = <<"writer", "reviewer">>
        /\ Tail(<<"writer", "reviewer">>) = <<"reviewer">> /\ Tail(<<"reviewer">>) = <<>>
    OBVIOUS
  <2> QED
    BY <2>1, <2>2
<1>2. Len(<<>>) = 0
  OBVIOUS
<1> QED
  BY <1>1, <1>2 DEF Routes

LEMMA StepShrinks ==
    ASSUME RunInv, AttemptsCounted, Proceeds
    PROVE  StepsLeft \in Nat /\ StepsLeft' \in Nat /\ StepsLeft' < StepsLeft
<1>1. left \in Nat /\ Len(agents) \in 0..4
  BY ReworkAssumption, RouteLengths DEF AttemptsCounted, RunInv, ControlTypes
<1>2. StepsLeft \in Nat /\ (phase # "done" => StepsLeft >= 1)
  BY <1>1 DEF StepsLeft, RunInv, ControlTypes
<1>3. ASSUME phase # "done", phase' = "done" PROVE StepsLeft' \in Nat /\ StepsLeft' < StepsLeft
  <2>1. StepsLeft' = 0
    BY <1>3 DEF StepsLeft
  <2> QED
    BY <1>2, <1>3, <2>1
<1>4. ASSUME phase \in {"pipeline", "route"}, agents # <<>>, agents' = Tail(agents),
             phase' = phase \/ phase' = "rework", UNCHANGED left
      PROVE  StepsLeft' \in Nat /\ StepsLeft' < StepsLeft
  <2>1. Len(agents) \in 1..4 /\ Len(agents') = Len(agents) - 1
    BY <1>1, <1>4, RouteLengths DEF RunInv, ControlTypes
  <2> QED
    BY <1>1, <1>4, <2>1 DEF StepsLeft
<1>5. CASE \/ TimeOut \/ Approve \/ AgentRaises \/ ReworkTimesOut \/ ReworkGivesUp
           \/ AgentAborts("collector", Collected(store)) \/ AgentAborts("analyst", Analysed(store))
  <2>1. phase # "done" /\ phase' = "done"
    BY <1>5 DEF TimeOut, Approve, AgentRaises, ReworkTimesOut, ReworkGivesUp, AgentAborts,
                AtBoundary, Finish
  <2> QED
    BY <1>2, <1>3, <2>1
<1>6. CASE RunCollector \/ RunAnalyst \/ RunWriter \/ RunReviewer
  <2>1. /\ phase = "pipeline" /\ agents # <<>> /\ agents' = Tail(agents) /\ UNCHANGED left
        /\ phase' = phase \/ phase' = "rework" \/ phase' = "done"
    BY <1>6 DEF RunCollector, RunAnalyst, RunWriter, RunReviewer, AtBoundary, EnterRework
  <2> QED
    BY <1>2, <1>3, <1>4, <2>1
<1>7. CASE RerunCollector \/ RerunAnalyst \/ RerunWriter \/ RerunReviewer
  <2>1. /\ phase = "route" /\ agents' = Tail(agents) /\ UNCHANGED left
        /\ phase' = phase \/ phase' = "rework" \/ phase' = "done"
    BY <1>7 DEF RerunCollector, RerunAnalyst, RerunWriter, RerunReviewer, InRoute, Finish
  <2>2. agents # <<>>
    BY <2>1 DEF RunInv, ControlTypes
  <2> QED
    BY <1>2, <1>3, <1>4, <2>1, <2>2
<1>8. ASSUME NEW fb \in remaining, Apply(fb)
      PROVE  StepsLeft' \in Nat /\ StepsLeft' < StepsLeft
  <2>1. /\ phase = "rework" /\ left > 0
        /\ \/ phase' = "done"
           \/ phase' = "route" /\ left' = left - 1 /\ agents' = REWORK_ROUTES(fb.agent)
    BY <1>8 DEF Apply, Finish
  <2>2. Len(REWORK_ROUTES(fb.agent)) \in 0..4
    <3>1. fb.agent \in Agents
      BY DEF RunInv, ControlTypes, Feedbacks
    <3>2. REWORK_ROUTES(fb.agent) \in Routes
      BY <3>1, RouteFacts
    <3> QED
      BY <3>2, RouteLengths
  <2>3. CASE phase' = "route" /\ left' = left - 1 /\ agents' = REWORK_ROUTES(fb.agent)
    <3>1. StepsLeft = 6 * left + 1
      BY <2>1 DEF StepsLeft
    <3> DEFINE n == Len(REWORK_ROUTES(fb.agent))
    <3>2. StepsLeft' = 6 * (left - 1) + n + 1
      BY <2>3 DEF StepsLeft
    <3>3. n \in 0..4
      BY <2>2
    <3> HIDE DEF n
    <3>4. 6 * (left - 1) + n + 1 \in Nat /\ 6 * (left - 1) + n + 1 < 6 * left + 1
      BY <1>1, <2>1, <3>3
    <3> QED
      BY <3>1, <3>2, <3>4
  <2> QED
    BY <1>2, <1>3, <2>1, <2>3
<1> QED
  BY <1>2, <1>5, <1>6, <1>7, <1>8 DEF Proceeds

\* Every step of run, whatever agents, model and reviewer answer, brings its end nearer:
\* a run takes no more than 6 (MaxRework + 1) steps.  The safety half of RunEnds.
THEOREM EveryStepCounts == Spec => [][Proceeds => StepsLeft' < StepsLeft]_vars
<1>1. RunInv /\ AttemptsCounted /\ [Next]_vars => [Proceeds => StepsLeft' < StepsLeft]_vars
  BY StepShrinks
<1> QED
  BY <1>1, RunInvAlways, CaveatInvAlways, PTL DEF Spec, CaveatInv
-----------------------------------------------------------------------------
(* Runs without a model: what the feedback names, and what is active at once *)

\* The evidence of what is active is active, and one report is: nothing retires a source
\* or a claim without the reports, and a source not without the claims.
Standing(st) ==
    /\ \A i, j \in Active(st, Run, "report") : i = j
    /\ \A i \in Active(st, Run, "claim") : st[i].cites \subseteq ActiveIds(st, "source")
    /\ \A i \in Active(st, Run, "report") :
           /\ st[i].claims \subseteq ActiveIds(st, "claim")
           /\ st[i].sources \subseteq ActiveIds(st, "source")

\* A report with a derived id is the replacement of a report that was retired for it.
ReportsDerive(st) ==
    \A i \in DOMAIN st :
        st[i].id.kind = "report" /\ st[i].id.tail # <<>> =>
            \E j \in DOMAIN st :
                st[j].status # "active" /\ st[i].id = ReplacementId(st[j].id, st[j].version + 1)

\* The coverage checks name no artifact, the others the report or none.
NamesCoverage(fbs) ==
    \A fb \in fbs : fb.agent = "collector" => fb.target \in {CoverageId, QuestionId}
NamesReport(st, fbs) ==
    \A fb \in fbs : /\ fb.agent \in {"collector", "analyst", "writer"}
                    /\ fb.agent # "collector" =>
                           fb.target \in {MissingReportId} \cup ActiveIds(st, "report")

\* What was written since the artifacts behind it were changed: claims always, a report
\* unless a route is on its way to the writer, who then writes one in its place.
AwaitsWriter == phase = "route" /\ agents # <<"reviewer">>
FreshInv ==
    /\ \A k \in DOMAIN applied : applied[k].at \in 0..Len(store)
    /\ \A i \in Active(store, Run, "claim") : After(i, {"collector"})
    /\ phase # "done" /\ ~AwaitsWriter =>
           \A i \in Active(store, Run, "report") : After(i, {"collector", "analyst", "writer"})
    /\ AwaitsWriter => writerFed \/ ~HasReport(store, Run)

\* What ships is the active report, and fresh.
ShipsFresh ==
    Shipped => \E i \in Active(store, Run, "report") :
                   /\ outcome.report = store[i].id
                   /\ After(i, {"collector", "analyst", "writer"})

PlainInv ==
    /\ Standing(store) /\ ReportsDerive(store)
    /\ NamesCoverage(review.feedback) /\ NamesCoverage(remaining)
    /\ phase = "rework" => NamesReport(store, remaining)
    /\ FreshInv /\ ShipsFresh
    /\ ReworkNeverCollides

\* A later store where nothing retired became active again: what is active there and
\* was there is as it was.
Retires(st, later) ==
    /\ Continues(st, later)
    /\ \A i \in DOMAIN st : later[i].status = "active" => st[i].status = "active"

LEMMA RetiresFacts ==
    ASSUME NEW st \in Seq(Artifacts), NEW later, Retires(st, later)
    PROVE  /\ later \in Seq(Artifacts) /\ DOMAIN st \subseteq DOMAIN later
           /\ Len(st) \in Nat /\ \A i \in DOMAIN later \ DOMAIN st : i \in Nat /\ i > Len(st)
           /\ \A i \in DOMAIN st :
                  later[i].id = st[i].id /\ later[i].version = st[i].version
           /\ \A i \in DOMAIN st : \A type :
                  i \in Active(later, Run, type) => i \in Active(st, Run, type) /\ later[i] = st[i]
<1>1. /\ later \in Seq(Artifacts) /\ Len(st) \in Nat /\ DOMAIN st = 1..Len(st)
      /\ Len(later) \in Nat /\ DOMAIN later = 1..Len(later) /\ DOMAIN st \subseteq DOMAIN later
  BY StoreFacts, ContinuesFacts DEF Retires, Continues
<1>2. \A i \in DOMAIN later \ DOMAIN st : i \in Nat /\ i > Len(st)
  BY <1>1
<1>3. \A i \in DOMAIN st :
          /\ later[i].id = st[i].id /\ later[i].version = st[i].version
          /\ later[i].run = st[i].run /\ later[i].type = st[i].type
  BY ContinuesFacts DEF Retires
<1>4. ASSUME NEW i \in DOMAIN st, NEW type, i \in Active(later, Run, type)
      PROVE  i \in Active(st, Run, type) /\ later[i] = st[i]
  <2>1. later[i].status = "active" /\ st[i].status = "active"
    BY <1>4 DEF Retires, Active, Listed
  <2>2. i \in Active(st, Run, type)
    BY <1>3, <1>4, <2>1 DEF Active, Listed
  <2>3. st[i] \in Artifacts /\ later[i] = [st[i] EXCEPT !.status = "active"]
    BY <1>1, <2>1, StoreFacts DEF Retires, Continues
  <2>4. \A a \in Artifacts : a.status = "active" => a = [a EXCEPT !.status = "active"]
    BY DEF Artifacts, SourceArtifacts, ClaimArtifacts, ReportArtifacts
  <2> QED
    BY <2>1, <2>2, <2>3, <2>4
<1> QED
  BY <1>1, <1>2, <1>3, <1>4

\* Nothing is lost by the way: what is active stays, or what rests on it does not.
LEMMA StandingKept ==
    ASSUME NEW st \in Seq(Artifacts), Standing(st), NEW later, Retires(st, later),
           ActiveIds(st, "source") \subseteq ActiveIds(later, "source"),
           ~HasReport(later, Run) \/ ActiveIds(st, "claim") \subseteq ActiveIds(later, "claim"),
           \A i, j \in Active(later, Run, "report") : i = j,
           \A i \in Active(later, Run, "claim") \ DOMAIN st :
               later[i].cites \subseteq ActiveIds(later, "source"),
           \A i \in Active(later, Run, "report") \ DOMAIN st :
               /\ later[i].claims \subseteq ActiveIds(later, "claim")
               /\ later[i].sources \subseteq ActiveIds(later, "source")
    PROVE  Standing(later)
<1>1. \A i \in DOMAIN st : \A type :
          i \in Active(later, Run, type) => i \in Active(st, Run, type) /\ later[i] = st[i]
  BY RetiresFacts
<1>2. \A i \in Active(later, Run, "claim") : later[i].cites \subseteq ActiveIds(later, "source")
  BY <1>1 DEF Standing
<1>3. \A i \in Active(later, Run, "report") :
          /\ later[i].claims \subseteq ActiveIds(later, "claim")
          /\ later[i].sources \subseteq ActiveIds(later, "source")
  <2> SUFFICES ASSUME NEW i \in Active(later, Run, "report")
               PROVE  /\ later[i].claims \subseteq ActiveIds(later, "claim")
                      /\ later[i].sources \subseteq ActiveIds(later, "source")
    OBVIOUS
  <2>1. CASE i \in DOMAIN st
    <3>1. HasReport(later, Run)
      BY DEF HasReport
    <3> QED
      BY <1>1, <2>1, <3>1 DEF Standing
  <2> QED
    BY <2>1
<1> QED
  BY <1>2, <1>3 DEF Standing

LEMMA ReportsDeriveKept ==
    ASSUME NEW st \in Seq(Artifacts), ReportsDerive(st), NEW later, Retires(st, later),
           \A i \in DOMAIN later \ DOMAIN st :
               later[i].id.kind = "report" /\ later[i].id.tail # <<>> =>
                   \E j \in DOMAIN st :
                       /\ later[j].status # "active"
                       /\ later[i].id = ReplacementId(st[j].id, st[j].version + 1)
    PROVE  ReportsDerive(later)
<1>1. /\ DOMAIN st \subseteq DOMAIN later
      /\ \A i \in DOMAIN st : later[i].id = st[i].id /\ later[i].version = st[i].version
  BY RetiresFacts
<1> SUFFICES ASSUME NEW i \in DOMAIN later,
                    later[i].id.kind = "report", later[i].id.tail # <<>>
             PROVE  \E j \in DOMAIN later :
                        /\ later[j].status # "active"
                        /\ later[i].id = ReplacementId(later[j].id, later[j].version + 1)
  BY DEF ReportsDerive
<1>2. CASE i \in DOMAIN st
  <2>1. PICK j \in DOMAIN st :
            st[j].status # "active" /\ st[i].id = ReplacementId(st[j].id, st[j].version + 1)
    BY <1>1, <1>2 DEF ReportsDerive
  <2>2. later[j].status # "active"
    BY <2>1 DEF Retires
  <2> QED
    BY <1>1, <1>2, <2>1, <2>2
<1> QED
  BY <1>1, <1>2

-----------------------------------------------------------------------------
(* Runs without a model: what the agents add *)

\* An agent that only adds: what it adds is active, and rests on what is.
Adds(st, later, type) ==
    /\ Retires(st, later)
    /\ \A i \in DOMAIN st : later[i] = st[i]
    /\ \A i \in DOMAIN later \ DOMAIN st :
           /\ later[i].type = type /\ later[i].sup = NoId /\ later[i].id.tail = <<>>
           /\ type = "claim" => later[i].cites \subseteq ActiveIds(st, "source")

LEMMA AppendedAdds ==
    ASSUME NEW st \in Seq(Artifacts), NEW new \in Seq(Artifacts), NEW type,
           \A k \in DOMAIN new :
               /\ new[k].type = type /\ new[k].sup = NoId /\ new[k].id.tail = <<>>
               /\ type = "claim" => new[k].cites \subseteq ActiveIds(st, "source")
    PROVE  Adds(st, st \o new, type)
<1> DEFINE later == st \o new
           m == Len(st)
<1>1. /\ m \in Nat /\ DOMAIN st = 1..m /\ later \in Seq(Artifacts) /\ m <= Len(later)
      /\ \A i \in 1..m : later[i] = st[i]
      /\ \A i \in DOMAIN later \ DOMAIN st : i - m \in DOMAIN new /\ later[i] = new[i - m]
      /\ \A i \in 1..m : st[i] \in Artifacts
  OBVIOUS
<1>2. \A a \in Artifacts : a = [a EXCEPT !.status = a.status]
  BY DEF Artifacts, SourceArtifacts, ClaimArtifacts, ReportArtifacts
<1> HIDE DEF later, m
<1>3. Retires(st, later)
  BY <1>1, <1>2 DEF Retires, Continues, m
<1>4. Adds(st, later, type)
  BY <1>1, <1>3 DEF Adds
<1> QED
  BY <1>4 DEF later

LEMMA CollectedAdds ==
    ASSUME NEW st, StoreInv(st), NEW later \in Collected(st)
    PROVE  Adds(st, later, "source")
<1>1. PICK n \in 0..MaxNewSources : later = st \o NewSources(st, n)
  BY DEF Collected
<1>2. n \in Nat /\ st \in Seq(Artifacts) /\ "source" \in Types
  BY <1>1, BoundsAssumption DEF StoreInv, Types
<1> DEFINE new == NewSources(st, n)
<1>3. /\ DOMAIN new = 1..n
      /\ \A k \in 1..n : new[k] = NewSource(NextId(st, "source", k))
  BY DEF NewSources
<1>4. ASSUME NEW k \in 1..n
      PROVE  /\ new[k] \in Artifacts /\ new[k].type = "source"
             /\ new[k].sup = NoId /\ new[k].id.tail = <<>>
  <2>1. NextId(st, "source", k) \in Ids /\ NextId(st, "source", k).tail = <<>>
    BY <1>2, <1>4, NextIdType, BaseIdFacts DEF NextId
  <2> QED
    BY <1>3, <1>4, <2>1, NoIdType DEF NewSource, Artifacts, SourceArtifacts
<1>5. new \in Seq(Artifacts)
  <2>1. new \in [1..n -> Artifacts]
    BY <1>3, <1>4 DEF NewSources
  <2> HIDE DEF new
  <2> QED
    BY <1>2, <2>1
<1> HIDE DEF new
<1>6. Adds(st, st \o new, "source")
  BY <1>2, <1>3, <1>4, <1>5, AppendedAdds
<1> QED
  BY <1>1, <1>6 DEF new

LEMMA AnalysedAdds ==
    ASSUME NEW st, StoreInv(st), NEW later \in Analysed(st)
    PROVE  Adds(st, later, "claim")
<1>1. PICK C \in AtMost(MaxNewClaims, Citable(st)) : later = st \o NewClaims(st, SetToSeq(C))
  BY DEF Analysed
<1>2. st \in Seq(Artifacts) /\ "claim" \in Types /\ MaxNewClaims \in Nat
  BY BoundsAssumption DEF StoreInv, Types
<1>3. C \subseteq SUBSET ActiveIds(st, "source") /\ IsFiniteSet(C)
  <2>1. Citable(st) \subseteq SUBSET ActiveIds(st, "source")
    BY DEF Citable
  <2> QED
    BY <1>1, <1>2, <2>1, AtMostFacts
<1> DEFINE n == Cardinality(C)
           new == NewClaims(st, SetToSeq(C))
<1>4. n \in Nat /\ SetToSeq(C) \in [1..n -> C]
  BY <1>3, SetToSeqFacts
<1> HIDE DEF n
<1>5. /\ new \in [1..n -> {NewClaim(NextId(st, "claim", k), SetToSeq(C)[k]) : k \in 1..n}]
      /\ \A k \in 1..n : new[k] = NewClaim(NextId(st, "claim", k), SetToSeq(C)[k])
  BY <1>4 DEF NewClaims
<1>6. ASSUME NEW k \in 1..n
      PROVE  /\ new[k] \in Artifacts /\ new[k].type = "claim"
             /\ new[k].sup = NoId /\ new[k].id.tail = <<>>
             /\ new[k].cites \subseteq ActiveIds(st, "source")
  <2>1. NextId(st, "claim", k) \in Ids /\ NextId(st, "claim", k).tail = <<>>
    BY <1>2, <1>4, <1>6, NextIdType, BaseIdFacts DEF NextId
  <2>2. SetToSeq(C)[k] \subseteq ActiveIds(st, "source") /\ SetToSeq(C)[k] \in SUBSET Ids
    BY <1>2, <1>3, <1>4, <1>6, ActiveIdsType
  <2> HIDE DEF new
  <2> QED
    BY <1>5, <1>6, <2>1, <2>2, NoIdType DEF NewClaim, Artifacts, ClaimArtifacts
<1> HIDE DEF new
<1>7. new \in Seq(Artifacts) /\ DOMAIN new = 1..n
  <2>1. new \in [1..n -> Artifacts]
    BY <1>5, <1>6
  <2> QED
    BY <1>4, <2>1
<1>8. Adds(st, st \o new, "claim")
  BY <1>2, <1>6, <1>7, AppendedAdds
<1> QED
  BY <1>1, <1>8 DEF new

LEMMA AddsFacts ==
    ASSUME NEW st, StoreInv(st), Standing(st), ReportsDerive(st), NEW type \in {"source", "claim"},
           NEW later, Adds(st, later, type)
    PROVE  /\ Standing(later) /\ ReportsDerive(later)
           /\ Active(later, Run, "report") = Active(st, Run, "report")
           /\ ActiveIds(later, "report") = ActiveIds(st, "report")
           /\ HasReport(later, Run) = HasReport(st, Run)
<1>1. st \in Seq(Artifacts) /\ Retires(st, later)
  BY DEF StoreInv, Adds
<1>2. /\ DOMAIN st \subseteq DOMAIN later /\ \A i \in DOMAIN st : later[i] = st[i]
      /\ \A i \in DOMAIN later \ DOMAIN st :
             /\ later[i].type = type /\ later[i].id.tail = <<>>
             /\ type = "claim" => later[i].cites \subseteq ActiveIds(st, "source")
  BY <1>1, RetiresFacts DEF Adds
<1>3. /\ Active(later, Run, "report") = Active(st, Run, "report")
      /\ ActiveIds(st, "source") \subseteq ActiveIds(later, "source")
      /\ ActiveIds(st, "claim") \subseteq ActiveIds(later, "claim")
  BY <1>2 DEF Active, ActiveIds, Listed
<1>4. \A i \in Active(later, Run, "claim") \ DOMAIN st :
          later[i].cites \subseteq ActiveIds(later, "source")
  BY <1>2, <1>3 DEF Active, Listed
<1>5. Active(later, Run, "report") \subseteq DOMAIN st
  BY <1>3 DEF Active, Listed
<1>6. \A i, j \in Active(later, Run, "report") : i = j
  BY <1>3 DEF Standing
<1>7. Standing(later)
  BY <1>1, <1>3, <1>4, <1>5, <1>6, StandingKept
<1>8. ReportsDerive(later)
  BY <1>1, <1>2, ReportsDeriveKept
<1>9. /\ ActiveIds(later, "report") = ActiveIds(st, "report")
      /\ HasReport(later, Run) = HasReport(st, Run)
  BY <1>2, <1>3, <1>5 DEF ActiveIds, HasReport
<1> QED
  BY <1>3, <1>7, <1>8, <1>9

\* No artifact has the id NoId, nor one of those that only feedback names.
LEMMA NotStored ==
    ASSUME NEW st, StoreInv(st)
    PROVE  \A id \in {NoId, CoverageId, QuestionId, MissingReportId} : ~Stored(st, id)
<1>1. st \in Seq(Artifacts) /\ \A i \in DOMAIN st : Numbered(st[i], st)
  BY DEF StoreInv
<1>2. \A i \in DOMAIN st : st[i].type \in Types
  BY <1>1, StoreFacts, ArtifactFacts
<1>3. \A id \in {NoId, CoverageId, QuestionId, MissingReportId} :
          id.tail = <<>> /\ id.kind \notin Types
  BY BaseIdFacts DEF NoId, CoverageId, QuestionId, MissingReportId, Types
<1> QED
  BY <1>1, <1>2, <1>3 DEF Stored, Numbered

LEMMA ActiveIsActive ==
    ASSUME NEW st, StoreInv(st), NEW type, NEW id \in ActiveIds(st, type)
    PROVE  /\ Stored(st, id) /\ Place(st, id) \in Active(st, Run, type)
           /\ Get(st, id) = st[Place(st, id)] /\ Get(st, id).status = "active"
<1>1. PICK i \in Active(st, Run, type) : id = st[i].id
  BY DEF ActiveIds
<1>2. i \in DOMAIN st /\ st[i].status = "active" /\ IdsUniqueIn(st)
  BY <1>1 DEF Active, Listed, StoreInv
<1>3. Place(st, id) = i /\ Get(st, id) = st[i] /\ Stored(st, id)
  BY <1>1, <1>2, PlaceIs
<1> QED
  BY <1>1, <1>2, <1>3

\* What is new copies and cites nothing that is rejected.
UsesStanding(st, later) ==
    \A i \in DOMAIN later \ DOMAIN st : \A id \in Uses(later[i]) :
        Stored(st, id) => Get(st, id).status # "rejected"

LEMMA AddsUses ==
    ASSUME NEW st, StoreInv(st), NEW type \in {"source", "claim"}, NEW later, Adds(st, later, type)
    PROVE  UsesStanding(st, later)
<1> SUFFICES ASSUME NEW i \in DOMAIN later \ DOMAIN st, NEW id \in Uses(later[i]), Stored(st, id)
             PROVE  Get(st, id).status # "rejected"
  BY DEF UsesStanding
<1>1. id # NoId
  BY NotStored
<1>2. type = "claim" /\ id \in ActiveIds(st, "source")
  <2>1. /\ later[i].type = type /\ later[i].sup = NoId
        /\ type = "claim" => later[i].cites \subseteq ActiveIds(st, "source")
    BY DEF Adds
  <2> QED
    BY <1>1, <2>1 DEF Uses
<1> QED
  BY <1>2, ActiveIsActive

-----------------------------------------------------------------------------
(* Runs without a model: the writer *)

\* The one report is rejected, and nothing else.
LEMMA ClearedFacts ==
    ASSUME NEW st, StoreInv(st), Standing(st)
    PROVE  LET cleared == RejectLatest(st)
           IN  /\ StoreInv(cleared) /\ Retires(st, cleared) /\ DOMAIN cleared = DOMAIN st
               /\ Len(cleared) = Len(st)
               /\ \A i \in DOMAIN st : st[i].type # "report" => cleared[i] = st[i]
               /\ ~HasReport(cleared, Run)
<1> DEFINE cleared == RejectLatest(st)
<1>1. st \in Seq(Artifacts) /\ IdsUniqueIn(st) /\ StoreInv(cleared)
      /\ \A i \in DOMAIN st : st[i] \in Artifacts
  BY StoreFacts, RejectLatestFacts DEF StoreInv
<1>2. CASE ~HasReport(st, Run)
  <2>1. cleared = st
    BY <1>2 DEF RejectLatest
  <2>2. \A a \in Artifacts : a = [a EXCEPT !.status = a.status]
    BY DEF Artifacts, SourceArtifacts, ClaimArtifacts, ReportArtifacts
  <2>3. DOMAIN st = 1..Len(st) /\ Len(st) \in Nat
    BY <1>1
  <2>4. Retires(st, st)
    BY <1>1, <2>2, <2>3 DEF Retires, Continues
  <2> QED
    BY <1>1, <1>2, <2>1, <2>4
<1>3. CASE HasReport(st, Run)
  <2>1. PICK i : Top(st, i) /\ LatestReport(st, Run) = st[i]
    BY <1>1, <1>3, LatestFacts
  <2>2. i \in DOMAIN st /\ st[i].type = "report" /\ Active(st, Run, "report") = {i}
    BY <2>1 DEF Top, Active, Listed, Standing
  <2>3. Stored(st, st[i].id) /\ Place(st, st[i].id) = i /\ "rejected" \in Statuses
    BY <1>1, <2>2, PlaceIs DEF Statuses
  <2> DEFINE later == WithStatus(st, st[i].id, "rejected")
  <2>4. cleared = later
    BY <1>3, <2>1 DEF RejectLatest
  <2>5. /\ Continues(st, later) /\ later \in Seq(Artifacts) /\ DOMAIN later = DOMAIN st
        /\ Len(later) = Len(st)
        /\ \A j \in DOMAIN st : later[j].status = IF j = i THEN "rejected" ELSE st[j].status
    BY <1>1, <2>3, WithStatusFacts
  <2>6. \A j \in DOMAIN st : st[j].type # "report" => later[j] = st[j]
    BY <2>2, <2>3 DEF WithStatus
  <2> HIDE DEF later
  <2>7. Retires(st, later)
    BY <2>5 DEF Retires
  <2>8. Active(later, Run, "report") = {}
    <3>1. \A j \in Active(later, Run, "report") : j \in Active(st, Run, "report")
      BY <1>1, <2>5, <2>7, RetiresFacts DEF Active, Listed
    <3>2. i \notin Active(later, Run, "report")
      BY <2>2, <2>5 DEF Active, Listed
    <3> QED
      BY <2>2, <3>1, <3>2
  <2> QED
    BY <1>1, <2>4, <2>5, <2>6, <2>7, <2>8 DEF HasReport
<1> QED
  BY <1>2, <1>3

LEMMA RetiresNothing ==
    ASSUME NEW st \in Seq(Artifacts)
    PROVE  Retires(st, st)
<1>1. /\ DOMAIN st = 1..Len(st) /\ Len(st) \in Nat /\ \A i \in DOMAIN st : st[i] \in Artifacts
  BY StoreFacts
<1>2. \A a \in Artifacts : a = [a EXCEPT !.status = a.status]
  BY DEF Artifacts, SourceArtifacts, ClaimArtifacts, ReportArtifacts
<1> QED
  BY <1>1, <1>2 DEF Retires, Continues

\* An artifact that is saved after others were retired.
LEMMA SavedAfter ==
    ASSUME NEW st \in Seq(Artifacts), NEW mid, Retires(st, mid), DOMAIN mid = DOMAIN st,
           NEW a, NEW later, later = Saved(mid, a), later \in Seq(Artifacts)
    PROVE  /\ Retires(st, later) /\ Len(later) = Len(st) + 1
           /\ \A i : i \in DOMAIN later <=> i \in DOMAIN st \/ i = Len(st) + 1
           /\ Len(st) + 1 \notin DOMAIN st
           /\ later[Len(st) + 1] = a /\ \A i \in DOMAIN st : later[i] = mid[i]
<1>1. /\ mid \in Seq(Artifacts) /\ DOMAIN st = 1..Len(st) /\ Len(st) \in Nat
      /\ DOMAIN mid = 1..Len(mid) /\ Len(mid) \in Nat
  BY DEF Retires, Continues
<1>2. Len(mid) = Len(st)
  <2> DEFINE m == Len(st)
             n == Len(mid)
  <2>1. m \in Nat /\ n \in Nat /\ 1..m = 1..n
    BY <1>1
  <2> HIDE DEF m, n
  <2>2. m = n
    BY <2>1
  <2> QED
    BY <2>2 DEF m, n
<1>3. /\ later = Append(mid, a) /\ Len(later) = Len(st) + 1
      /\ DOMAIN later = DOMAIN st \cup {Len(st) + 1} /\ Len(st) + 1 \notin DOMAIN st
      /\ later[Len(st) + 1] = a /\ \A i \in DOMAIN st : later[i] = mid[i]
  BY <1>1, <1>2 DEF Saved
<1>4. Retires(st, later)
  BY <1>1, <1>3 DEF Retires, Continues
<1> QED
  BY <1>3, <1>4

LEMMA EvidenceKept ==
    ASSUME NEW st \in Seq(Artifacts), NEW later, Retires(st, later),
           \A i \in DOMAIN st : st[i].type # "report" => later[i] = st[i]
    PROVE  /\ ActiveIds(st, "source") \subseteq ActiveIds(later, "source")
           /\ ActiveIds(st, "claim") \subseteq ActiveIds(later, "claim")
           /\ (\A i \in DOMAIN later \ DOMAIN st : later[i].type # "claim") =>
                  Active(later, Run, "claim") = Active(st, Run, "claim")
<1>1. DOMAIN st \subseteq DOMAIN later
  BY RetiresFacts
<1>2. \A type \in {"source", "claim"} :
          \A i \in Active(st, Run, type) : i \in Active(later, Run, type) /\ later[i] = st[i]
  BY <1>1 DEF Active, Listed
<1>3. (\A i \in DOMAIN later \ DOMAIN st : later[i].type # "claim") =>
          Active(later, Run, "claim") \subseteq DOMAIN st
  BY DEF Active, Listed
<1>4. /\ ActiveIds(st, "source") \subseteq ActiveIds(later, "source")
      /\ ActiveIds(st, "claim") \subseteq ActiveIds(later, "claim")
  BY <1>2 DEF ActiveIds
<1>5. ASSUME \A i \in DOMAIN later \ DOMAIN st : later[i].type # "claim"
      PROVE  Active(later, Run, "claim") = Active(st, Run, "claim")
  <2>1. Active(st, Run, "claim") \subseteq Active(later, Run, "claim")
    BY <1>2
  <2>2. \A i \in Active(later, Run, "claim") : i \in Active(st, Run, "claim")
    BY <1>3, <1>5, RetiresFacts
  <2> QED
    BY <2>1, <2>2
<1> QED
  BY <1>4, <1>5

\* The writer leaves one report at most, and in rework none that was there before.
LEMMA WrittenFacts ==
    ASSUME NEW st, StoreInv(st), Standing(st), ReportsDerive(st),
           NEW rework \in BOOLEAN, NEW later \in Written(st, rework)
    PROVE  /\ Standing(later) /\ ReportsDerive(later) /\ Retires(st, later)
           /\ UsesStanding(st, later)
           /\ Active(later, Run, "claim") = Active(st, Run, "claim")
           /\ rework \/ ~HasReport(st, Run) =>
                  Active(later, Run, "report") \cap DOMAIN st = {}
<1> DEFINE claims  == ActiveIds(st, "claim")
           sources == UNION {c.cites : c \in ActiveClaims(st)}
           cleared == RejectLatest(st)
           id      == NextId(st, "report", 1)
<1>1. st \in Seq(Artifacts) /\ StoreInv(later) /\ later \in Seq(Artifacts)
  BY WrittenKeeps DEF StoreInv
<1>2. /\ StoreInv(cleared) /\ Retires(st, cleared) /\ DOMAIN cleared = DOMAIN st
      /\ \A i \in DOMAIN st : st[i].type # "report" => cleared[i] = st[i]
      /\ ~HasReport(cleared, Run)
  BY ClearedFacts
<1>3. CASE later = st /\ (~rework \/ ~HasReport(st, Run))
  <2>1. UsesStanding(st, st)
    BY DEF UsesStanding
  <2>2. ~HasReport(st, Run) => Active(st, Run, "report") = {}
    BY DEF HasReport
  <2>3. rework \/ ~HasReport(st, Run) => ~HasReport(st, Run)
    BY <1>3
  <2> QED
    BY <1>1, <1>3, <2>1, <2>2, <2>3, RetiresNothing
<1>4. CASE rework /\ claims = {}
  <2>1. later = RejectLatest(RejectLatest(cleared))
    BY <1>4 DEF Written
  <2>2. RejectLatest(cleared) = cleared
    BY <1>2 DEF RejectLatest
  <2>3. later = cleared
    BY <2>1, <2>2
  <2>4. /\ ActiveIds(st, "source") \subseteq ActiveIds(later, "source")
        /\ ActiveIds(st, "claim") \subseteq ActiveIds(later, "claim")
        /\ Active(later, Run, "claim") = Active(st, Run, "claim")
    BY <1>1, <1>2, <2>3, EvidenceKept
  <2>5. Active(later, Run, "report") = {}
    BY <1>2, <2>3 DEF HasReport
  <2>6. Active(later, Run, "claim") \subseteq DOMAIN st
    BY <2>4 DEF Active, Listed
  <2>7. Standing(later)
    BY <1>1, <1>2, <2>3, <2>4, <2>5, <2>6, StandingKept
  <2>8. ReportsDerive(later)
    BY <1>1, <1>2, <2>3, ReportsDeriveKept
  <2>9. UsesStanding(st, later)
    BY <1>2, <2>3 DEF UsesStanding
  <2> QED
    BY <1>2, <2>3, <2>4, <2>5, <2>7, <2>8, <2>9
<1>5. CASE (rework \/ ~HasReport(st, Run)) /\ claims # {}
  <2>1. PICK complete \in BOOLEAN :
            later = Saved(cleared, NewReport(id, claims, sources, complete))
    BY <1>5 DEF Written
  <2> DEFINE report == NewReport(id, claims, sources, complete)
             m == Len(st)
  <2>2. /\ report.type = "report" /\ report.status = "active" /\ report.id.tail = <<>>
        /\ report.claims = claims /\ report.sources = sources /\ report.sup = NoId
        /\ later = Saved(cleared, report)
    BY <2>1, BaseIdFacts DEF NewReport, NextId
  <2> HIDE DEF report, cleared
  <2>3. /\ Retires(st, later)
        /\ \A i : i \in DOMAIN later <=> i \in DOMAIN st \/ i = m + 1
        /\ later[m + 1] = report /\ \A i \in DOMAIN st : later[i] = cleared[i]
    BY <1>1, <1>2, <2>2, SavedAfter
  <2>4. /\ ActiveIds(st, "source") \subseteq ActiveIds(later, "source")
        /\ claims \subseteq ActiveIds(later, "claim")
        /\ Active(later, Run, "claim") = Active(st, Run, "claim")
    BY <1>1, <1>2, <2>2, <2>3, EvidenceKept
  <2>5. Active(later, Run, "report") \subseteq {m + 1}
    <3>1. \A i \in DOMAIN st : i \notin Active(later, Run, "report")
      BY <1>2, <2>3 DEF Active, Listed, HasReport
    <3> QED
      BY <2>3, <3>1 DEF Active, Listed
  <2>6. Active(later, Run, "claim") \subseteq DOMAIN st
    BY <2>4 DEF Active, Listed
  <2>7. sources \subseteq ActiveIds(st, "source")
    BY DEF ActiveClaims, Standing
  <2>8. /\ later[m + 1].claims \subseteq ActiveIds(later, "claim")
        /\ later[m + 1].sources \subseteq ActiveIds(later, "source")
    BY <2>2, <2>3, <2>4, <2>7
  <2>9. \A i, j \in Active(later, Run, "report") : i = j
    BY <2>5
  <2> HIDE DEF claims, sources
  <2>10. Standing(later)
    BY <1>1, <2>3, <2>4, <2>5, <2>6, <2>8, <2>9, StandingKept DEF claims
  <2>11. ReportsDerive(later)
    BY <1>1, <2>2, <2>3, ReportsDeriveKept
  <2>12. UsesStanding(st, later)
    <3> SUFFICES ASSUME NEW x \in Uses(report), Stored(st, x)
                 PROVE  Get(st, x).status # "rejected"
      BY <2>3 DEF UsesStanding
    <3>1. x \in {NoId} \cup claims \cup sources
      BY <2>2 DEF Uses
    <3>2. x # NoId
      BY NotStored
    <3>3. x \in ActiveIds(st, "claim") \/ x \in ActiveIds(st, "source")
      BY <2>7, <3>1, <3>2 DEF claims
    <3> QED
      BY <3>3, ActiveIsActive
  <2> QED
    BY <2>3, <2>4, <2>5, <2>10, <2>11, <2>12
<1>6. CASE ~rework /\ HasReport(st, Run)
  <2>1. later = st
    BY <1>6 DEF Written
  <2> QED
    BY <1>3, <1>6, <2>1
<1>7. CASE ~rework /\ claims = {}
  <2>1. later = st
    BY <1>7 DEF Written
  <2> QED
    BY <1>3, <1>7, <2>1
<1> QED
  BY <1>4, <1>5, <1>6, <1>7

-----------------------------------------------------------------------------
(* Runs without a model: the rework loop *)

LEMMA RetiresTwice ==
    ASSUME NEW st \in Seq(Artifacts), NEW mid, Retires(st, mid), NEW later, Retires(mid, later)
    PROVE  Retires(st, later)
<1>1. /\ mid \in Seq(Artifacts) /\ later \in Seq(Artifacts)
      /\ Len(st) <= Len(mid) /\ Len(mid) <= Len(later)
  BY DEF Retires, Continues
<1>2. /\ DOMAIN st = 1..Len(st) /\ Len(st) \in Nat /\ Len(mid) \in Nat /\ Len(later) \in Nat
      /\ DOMAIN mid = 1..Len(mid) /\ DOMAIN later = 1..Len(later)
      /\ DOMAIN st \subseteq DOMAIN mid /\ Len(st) <= Len(later)
  BY <1>1
<1>3. ASSUME NEW i \in DOMAIN st
      PROVE  later[i] = [st[i] EXCEPT !.status = later[i].status]
  <2>1. PICK s : s = mid[i].status
    OBVIOUS
  <2>2. PICK t : t = later[i].status
    OBVIOUS
  <2>3. st[i] \in Artifacts /\ mid[i] = [st[i] EXCEPT !.status = s]
        /\ later[i] = [mid[i] EXCEPT !.status = t]
    BY <1>1, <1>2, <2>1, <2>2, StoreFacts DEF Retires, Continues
  <2>4. \A a \in Artifacts :
            [[a EXCEPT !.status = s] EXCEPT !.status = t] = [a EXCEPT !.status = t]
    BY DEF Artifacts, SourceArtifacts, ClaimArtifacts, ReportArtifacts
  <2> QED
    BY <2>2, <2>3, <2>4
<1>4. \A i \in DOMAIN st : later[i].status = "active" => st[i].status = "active"
  BY <1>2 DEF Retires
<1> QED
  BY <1>1, <1>2, <1>3, <1>4 DEF Retires, Continues

LEMMA DownstreamFacts ==
    ASSUME NEW st, StoreInv(st), NEW agent, NEW later, later = DownstreamRejected(st, agent)
    PROVE  /\ Retires(st, later) /\ DOMAIN later = DOMAIN st
           /\ \A i \in DOMAIN st : st[i].type \notin DownstreamOf(agent) => later[i] = st[i]
           /\ \A type \in DownstreamOf(agent) : Active(later, Run, type) = {}
<1>1. /\ st \in Seq(Artifacts) /\ DOMAIN st = 1..Len(st) /\ Len(st) \in Nat
      /\ \A i \in DOMAIN st : st[i] \in Artifacts
  BY StoreFacts DEF StoreInv
<1>2. /\ DOMAIN later = DOMAIN st
      /\ \A i \in DOMAIN st :
             later[i] = IF st[i].type \in DownstreamOf(agent) /\ st[i].status = "active"
                        THEN [st[i] EXCEPT !.status = "rejected"] ELSE st[i]
      /\ later \in Seq(Artifacts)
  BY DownstreamRejectedKeeps DEF DownstreamRejected, StoreInv
<1>3. \A a \in Artifacts :
          LET b == [a EXCEPT !.status = "rejected"]
          IN  b.status = "rejected" /\ b.type = a.type /\ b = [a EXCEPT !.status = b.status]
  BY RestatusFacts DEF Statuses
<1>4. \A a \in Artifacts : a = [a EXCEPT !.status = a.status]
  BY DEF Artifacts, SourceArtifacts, ClaimArtifacts, ReportArtifacts
<1>5. /\ \A i \in DOMAIN st : later[i] = [st[i] EXCEPT !.status = later[i].status]
      /\ \A i \in DOMAIN st : later[i].status = "active" => later[i] = st[i]
  BY <1>1, <1>2, <1>3, <1>4
<1>6. Len(later) = Len(st)
  <2> DEFINE m == Len(st)
             n == Len(later)
  <2>1. m \in Nat /\ n \in Nat /\ 1..m = 1..n
    BY <1>1, <1>2
  <2> HIDE DEF m, n
  <2>2. m = n
    BY <2>1
  <2> QED
    BY <2>2 DEF m, n
<1>7. Retires(st, later)
  BY <1>1, <1>2, <1>5, <1>6 DEF Retires, Continues
<1>8. ASSUME NEW type \in DownstreamOf(agent), NEW i \in Active(later, Run, type)
      PROVE  FALSE
  <2>1. i \in DOMAIN st /\ later[i].type = type /\ later[i].status = "active"
    BY <1>2, <1>8 DEF Active, Listed
  <2>2. st[i].type \in DownstreamOf(agent) /\ st[i].status = "active"
    BY <1>5, <1>8, <2>1
  <2> QED
    BY <1>1, <1>2, <1>3, <2>1, <2>2
<1> QED
  BY <1>2, <1>7, <1>8

\* The replacement of a report copies what it says.
LEMMA ReplacedReport ==
    ASSUME NEW st, StoreInv(st), NEW i \in DOMAIN st, st[i].type = "report", NEW r,
           r = Replacement(st, st[i].id)
    PROVE  /\ r.id = ReplacementId(st[i].id, st[i].version + 1) /\ r.sup = st[i].id
           /\ r.claims = st[i].claims /\ r.sources = st[i].sources
           /\ r.type = "report" /\ r.status = "active" /\ r \in Artifacts
           /\ r.id.kind = "report" /\ r.id.tail # <<>>
<1>1. st[i] \in ReportArtifacts /\ IdsUniqueIn(st) /\ ReportNamed(st[i])
  BY StoreFacts, ArtifactFacts DEF StoreInv
<1>2. /\ Place(st, st[i].id) = i /\ Get(st, st[i].id) = st[i] /\ Stored(st, st[i].id)
  BY <1>1, PlaceIs
<1>3. PICK a \in ReportArtifacts : a = st[i]
  BY <1>1
<1>4. r = [a EXCEPT !.id = ReplacementId(a.id, a.version + 1), !.version = @ + 1,
                    !.sup = a.id, !.status = "active"]
  BY <1>2, <1>3 DEF Replacement
<1>5. /\ r.id = ReplacementId(a.id, a.version + 1) /\ r.sup = a.id
      /\ r.claims = a.claims /\ r.sources = a.sources
  BY <1>4 DEF ReportArtifacts
<1>6. /\ r \in Artifacts /\ r.status = "active" /\ r.id.tail # <<>> /\ ReportNamed(r)
      /\ r.type = st[i].type
  BY <1>2, ReplacementFacts
<1> QED
  BY <1>3, <1>5, <1>6 DEF ReportNamed

\* A report that is active has no replacement yet.
LEMMA NotReplacedYet ==
    ASSUME NEW st, StoreInv(st), ReportsDerive(st), NEW i \in Active(st, Run, "report")
    PROVE  ~Stored(st, Replacement(st, st[i].id).id)
<1> DEFINE r == Replacement(st, st[i].id)
           s == [version |-> st[i].version + 1, verified |-> FALSE]
<1>1. /\ i \in DOMAIN st /\ st[i].type = "report" /\ st[i].status = "active"
      /\ st \in Seq(Artifacts) /\ IdsUniqueIn(st) /\ \A j \in DOMAIN st : st[j] \in Artifacts
  BY StoreFacts DEF Active, Listed, StoreInv
<1>2. /\ r.id = ReplacementId(st[i].id, st[i].version + 1)
      /\ r.id.kind = "report" /\ r.id.tail # <<>>
  BY <1>1, ReplacedReport
<1> HIDE DEF r
<1>3. SUFFICES ASSUME NEW k \in DOMAIN st, st[k].id = r.id PROVE FALSE
  BY DEF Stored, r
<1>4. PICK j \in DOMAIN st :
          st[j].status # "active" /\ st[k].id = ReplacementId(st[j].id, st[j].version + 1)
  BY <1>2, <1>3 DEF ReportsDerive
<1>5. \A n \in DOMAIN st : st[n].id \in Ids /\ st[n].version + 1 \in Nat
  <2> SUFFICES ASSUME NEW n \in DOMAIN st PROVE st[n].id \in Ids /\ st[n].version + 1 \in Nat
    OBVIOUS
  <2>1. PICK a \in Artifacts : a = st[n]
    BY <1>1
  <2>2. a.id \in Ids /\ a.version \in Nat
    BY ArtifactFacts
  <2> QED
    BY <2>1, <2>2
<1> DEFINE t == [version |-> st[j].version + 1, verified |-> FALSE]
<1>6. s \in IdSuffixes /\ t \in IdSuffixes
  BY <1>1, <1>5, VersionedSuffix
<1>7. Derived(st[i].id, s) = Derived(st[j].id, t)
  BY <1>2, <1>3, <1>4 DEF ReplacementId, Derived
<1> HIDE DEF s, t
<1>8. st[i].id = st[j].id
  BY <1>1, <1>5, <1>6, <1>7, DerivedFromOne
<1> QED
  BY <1>1, <1>4, <1>8 DEF IdsUniqueIn

LEMMA ReplacedFacts ==
    ASSUME NEW st, StoreInv(st), ReportsDerive(st), NEW i \in Active(st, Run, "report"),
           NEW r, r = Replacement(st, st[i].id),
           NEW later, later = WithStatus(Saved(st, r), st[i].id, "superseded")
    PROVE  /\ Retires(st, later) /\ StoreInv(later)
           /\ \A k : k \in DOMAIN later <=> k \in DOMAIN st \/ k = Len(st) + 1
           /\ Len(st) + 1 \notin DOMAIN st /\ later[Len(st) + 1] = r
           /\ \A j \in DOMAIN st : j # i => later[j] = st[j]
           /\ later[i].status = "superseded"
<1> DEFINE mid == Saved(st, r)
           id  == st[i].id
<1>1. /\ i \in DOMAIN st /\ st[i].type = "report" /\ st[i].status = "active"
      /\ st \in Seq(Artifacts) /\ IdsUniqueIn(st)
  BY DEF Active, Listed, StoreInv
<1>2. /\ r \in Artifacts /\ r.status = "active" /\ r.id.tail # <<>> /\ r.id.kind = "report"
      /\ r.type = "report" /\ ~Stored(st, r.id)
  BY <1>1, ReplacedReport, NotReplacedYet
<1>3. StoreInv(mid) /\ mid \in Seq(Artifacts) /\ IdsUniqueIn(mid)
  BY <1>2, DerivedSaved DEF StoreInv, ReportNamed
<1>4. PICK n : n = Len(st) + 1
  OBVIOUS
<1> HIDE DEF mid
<1>5. /\ Retires(st, mid) /\ n \notin DOMAIN st /\ mid[n] = r
      /\ \A k : k \in DOMAIN mid <=> k \in DOMAIN st \/ k = n
      /\ \A k \in DOMAIN st : mid[k] = st[k]
  BY <1>1, <1>3, <1>4, RetiresNothing, SavedAfter DEF mid
<1>6. mid[i].id = id /\ i \in DOMAIN mid
  BY <1>1, <1>5
<1> HIDE DEF id
<1>7. Place(mid, id) = i /\ Stored(mid, id) /\ "superseded" \in Statuses
  BY <1>3, <1>6, PlaceIs DEF Statuses
<1>8. /\ Continues(mid, later) /\ DOMAIN later = DOMAIN mid
      /\ \A k \in DOMAIN mid : later[k].status = IF k = i THEN "superseded" ELSE mid[k].status
  BY <1>3, <1>7, WithStatusFacts DEF id, mid
<1>9. \A k \in DOMAIN mid : k # i => later[k] = mid[k]
  BY <1>7 DEF WithStatus, id, mid
<1>10. Retires(mid, later)
  BY <1>8 DEF Retires
<1>11. Retires(st, later)
  BY <1>1, <1>5, <1>10, RetiresTwice
<1>12. i # n
  BY <1>1, <1>5
<1>13. StoreInv(later)
  <2>1. Stored(st, id)
    BY <1>1, PlaceIs DEF id
  <2> QED
    BY <1>2, <2>1, ReplacedKeeps DEF id
<1> QED
  BY <1>1, <1>4, <1>5, <1>6, <1>8, <1>9, <1>11, <1>12, <1>13

\* The artifacts that the feedback names, before what is behind them is rejected.
Changed(st, fb) ==
    IF Stored(st, fb.target)
    THEN WithStatus(Saved(st, Replacement(st, fb.target)), fb.target, "superseded")
    ELSE IF fb.agent = "collector"
    THEN Saved(st, NewSource(PlaceholderId(st, fb.target)))
    ELSE st

LEMMA ChangedFacts ==
    ASSUME NEW st, StoreInv(st), Standing(st), ReportsDerive(st), NEW fb,
           fb.agent = "collector" => fb.target \in {CoverageId, QuestionId},
           fb.agent # "collector" =>
               fb.target \in {MissingReportId} \cup ActiveIds(st, "report"),
           NEW mid, mid = Changed(st, fb)
    PROVE  /\ StoreInv(mid) /\ Retires(st, mid) /\ Standing(mid) /\ ReportsDerive(mid)
           /\ UsesStanding(st, mid) /\ ~Collides(st, fb)
           /\ \A j \in DOMAIN st : st[j].type # "report" => mid[j] = st[j]
           /\ \A j \in DOMAIN mid \ DOMAIN st : mid[j].type # "claim"
<1>1. st \in Seq(Artifacts) /\ IdsUniqueIn(st)
  BY DEF StoreInv
<1>2. CASE ~Stored(st, fb.target) /\ fb.agent # "collector"
  <2>1. mid = st /\ ~Collides(st, fb) /\ UsesStanding(st, st)
    BY <1>2 DEF Changed, Collides, UsesStanding
  <2> QED
    BY <1>1, <2>1, RetiresNothing
<1>3. CASE ~Stored(st, fb.target) /\ fb.agent = "collector"
  <2> DEFINE d == PlaceholderId(st, fb.target)
             a == NewSource(d)
             m == Len(st)
  <2>1. d \in Ids /\ d.tail # <<>> /\ ~Stored(st, d)
    BY <1>3, FixedIds, PlaceholderFacts
  <2>2. fb.target.kind # "report" /\ d.kind = fb.target.kind
    <3>1. fb.target.kind # "report"
      BY <1>3, BaseIdFacts DEF CoverageId, QuestionId
    <3> QED
      BY <3>1 DEF PlaceholderId, ReplacementId
  <2> HIDE DEF d
  <2>3. /\ a \in Artifacts /\ a.status = "active" /\ a.id = d /\ a.type = "source"
        /\ a.sup = NoId /\ ReportNamed(a)
    BY <2>1, NoIdType DEF NewSource, Artifacts, SourceArtifacts, ReportNamed
  <2> HIDE DEF a
  <2>4. mid = Saved(st, a)
    BY <1>3 DEF Changed, a, d
  <2>5. StoreInv(mid) /\ mid \in Seq(Artifacts)
    BY <2>1, <2>3, <2>4, DerivedSaved DEF StoreInv
  <2>6. /\ Retires(st, mid) /\ mid[m + 1] = a
        /\ \A i : i \in DOMAIN mid <=> i \in DOMAIN st \/ i = m + 1
        /\ \A i \in DOMAIN st : mid[i] = st[i]
    BY <1>1, <2>4, <2>5, RetiresNothing, SavedAfter
  <2> HIDE DEF m
  <2>7. /\ \A i \in Active(mid, Run, "report") \cup Active(mid, Run, "claim") : i \in DOMAIN st
        /\ Active(mid, Run, "report") \subseteq Active(st, Run, "report")
    BY <2>3, <2>6 DEF Active, Listed
  <2>8. /\ ActiveIds(st, "source") \subseteq ActiveIds(mid, "source")
        /\ ActiveIds(st, "claim") \subseteq ActiveIds(mid, "claim")
    BY <1>1, <2>6, EvidenceKept
  <2>9. \A i, j \in Active(mid, Run, "report") : i = j
    BY <2>7 DEF Standing
  <2>10. Standing(mid)
    BY <1>1, <2>6, <2>7, <2>8, <2>9, StandingKept
  <2>11. ReportsDerive(mid)
    BY <1>1, <2>2, <2>3, <2>6, ReportsDeriveKept
  <2>12. UsesStanding(st, mid)
    <3>1. Uses(a) = {NoId}
      BY <2>3 DEF Uses
    <3> QED
      BY <2>6, <3>1, NotStored DEF UsesStanding
  <2> QED
    BY <1>3, <2>3, <2>5, <2>6, <2>10, <2>11, <2>12 DEF Collides
<1>4. CASE Stored(st, fb.target)
  <2>1. fb.target \in ActiveIds(st, "report")
    BY <1>4, NotStored
  <2>2. PICK i \in Active(st, Run, "report") : fb.target = st[i].id
    BY <2>1 DEF ActiveIds
  <2>3. i \in DOMAIN st /\ st[i].type = "report" /\ st[i].status = "active"
    BY <2>2 DEF Active, Listed
  <2>4. PICK r : r = Replacement(st, st[i].id)
    OBVIOUS
  <2>5. PICK n : n = Len(st) + 1
    OBVIOUS
  <2>6. mid = WithStatus(Saved(st, r), st[i].id, "superseded")
    BY <1>4, <2>2, <2>4 DEF Changed
  <2>7. /\ Retires(st, mid) /\ StoreInv(mid)
        /\ \A k : k \in DOMAIN mid <=> k \in DOMAIN st \/ k = n
        /\ n \notin DOMAIN st /\ mid[n] = r
        /\ \A j \in DOMAIN st : j # i => mid[j] = st[j]
        /\ mid[i].status = "superseded"
    BY <2>4, <2>5, <2>6, ReplacedFacts
  <2>8. /\ r.id = ReplacementId(st[i].id, st[i].version + 1) /\ r.sup = st[i].id
        /\ r.claims = st[i].claims /\ r.sources = st[i].sources /\ r.type = "report"
    BY <2>3, <2>4, ReplacedReport
  <2>9. ~Collides(st, fb)
    BY <2>2, NotReplacedYet DEF Collides
  <2>10. \A j \in DOMAIN st : st[j].type # "report" => mid[j] = st[j]
    BY <2>3, <2>7
  <2>11. /\ ActiveIds(st, "source") \subseteq ActiveIds(mid, "source")
         /\ ActiveIds(st, "claim") \subseteq ActiveIds(mid, "claim")
    BY <1>1, <2>7, <2>10, EvidenceKept
  <2>12. Active(mid, Run, "report") \subseteq {n}
    <3>1. ASSUME NEW k \in Active(mid, Run, "report"), k # n PROVE FALSE
      <4>1. k \in DOMAIN st /\ mid[k].status = "active"
        BY <2>7, <3>1 DEF Active, Listed
      <4>2. k \in Active(st, Run, "report")
        BY <1>1, <2>7, <3>1, <4>1, RetiresFacts
      <4>3. k = i
        BY <2>2, <4>2 DEF Standing
      <4> QED
        BY <2>7, <4>1, <4>3
    <3> QED
      BY <3>1
  <2>13. Active(mid, Run, "claim") \subseteq DOMAIN st
    BY <2>7, <2>8 DEF Active, Listed
  <2>14. /\ mid[n].claims \subseteq ActiveIds(st, "claim")
         /\ mid[n].sources \subseteq ActiveIds(st, "source")
    BY <2>2, <2>7, <2>8 DEF Standing
  <2>15. \A k, j \in Active(mid, Run, "report") : k = j
    BY <2>12
  <2>16. Standing(mid)
    BY <1>1, <2>7, <2>11, <2>12, <2>13, <2>14, <2>15, StandingKept
  <2>17. ReportsDerive(mid)
    BY <1>1, <2>3, <2>7, <2>8, ReportsDeriveKept
  <2>18. UsesStanding(st, mid)
    <3> SUFFICES ASSUME NEW x \in Uses(r), Stored(st, x)
                 PROVE  Get(st, x).status # "rejected"
      BY <2>7 DEF UsesStanding
    <3>1. x \in {st[i].id} \cup ActiveIds(st, "claim") \cup ActiveIds(st, "source")
      BY <2>7, <2>8, <2>14 DEF Uses
    <3>2. \E type : x \in ActiveIds(st, type)
      BY <2>1, <2>2, <3>1
    <3> QED
      BY <3>2, ActiveIsActive
  <2> QED
    BY <2>7, <2>8, <2>9, <2>10, <2>16, <2>17, <2>18
<1> QED
  BY <1>2, <1>3, <1>4

\* What is behind the agent that works again goes, the evidence of what stays does not.
LEMMA PreparedFacts ==
    ASSUME NEW st, StoreInv(st), Standing(st), ReportsDerive(st), NEW fb,
           fb.agent \in {"collector", "analyst", "writer"},
           fb.agent = "collector" => fb.target \in {CoverageId, QuestionId},
           fb.agent # "collector" =>
               fb.target \in {MissingReportId} \cup ActiveIds(st, "report"),
           NEW later, later = Prepared(st, fb)
    PROVE  /\ Retires(st, later) /\ Standing(later) /\ ReportsDerive(later)
           /\ UsesStanding(st, later) /\ ~Collides(st, fb)
           /\ fb.agent # "writer" => ~HasReport(later, Run)
           /\ IF fb.agent = "collector" THEN Active(later, Run, "claim") = {}
              ELSE Active(later, Run, "claim") \subseteq Active(st, Run, "claim")
<1>1. PICK mid : mid = Changed(st, fb)
  OBVIOUS
<1>2. st \in Seq(Artifacts)
  BY DEF StoreInv
<1>3. /\ StoreInv(mid) /\ Retires(st, mid) /\ Standing(mid) /\ ReportsDerive(mid)
      /\ UsesStanding(st, mid) /\ ~Collides(st, fb)
      /\ \A j \in DOMAIN st : st[j].type # "report" => mid[j] = st[j]
      /\ \A j \in DOMAIN mid \ DOMAIN st : mid[j].type # "claim"
  BY <1>1, ChangedFacts
<1>4. later = DownstreamRejected(mid, fb.agent)
  BY <1>1 DEF Prepared, Changed
<1>5. /\ Retires(mid, later) /\ DOMAIN later = DOMAIN mid
      /\ \A i \in DOMAIN mid : mid[i].type \notin DownstreamOf(fb.agent) => later[i] = mid[i]
      /\ \A type \in DownstreamOf(fb.agent) : Active(later, Run, type) = {}
  BY <1>3, <1>4, DownstreamFacts
<1>6. /\ "source" \notin DownstreamOf(fb.agent)
      /\ fb.agent # "writer" => "report" \in DownstreamOf(fb.agent)
      /\ fb.agent = "writer" => DownstreamOf(fb.agent) = {}
      /\ fb.agent = "collector" <=> "claim" \in DownstreamOf(fb.agent)
  BY DEF DownstreamOf
<1>7. mid \in Seq(Artifacts) /\ Retires(st, later)
  BY <1>2, <1>3, <1>5, RetiresTwice DEF StoreInv
<1>8. fb.agent # "writer" => ~HasReport(later, Run)
  BY <1>5, <1>6 DEF HasReport
<1>9. ActiveIds(mid, "source") \subseteq ActiveIds(later, "source")
  BY <1>5, <1>6 DEF ActiveIds, Active, Listed
<1>10. ~HasReport(later, Run) \/ ActiveIds(mid, "claim") \subseteq ActiveIds(later, "claim")
  BY <1>5, <1>6, <1>8 DEF ActiveIds, Active, Listed
<1>11. \A type : Active(later, Run, type) \subseteq Active(mid, Run, type)
  BY <1>5, <1>7, RetiresFacts DEF Active, Listed
<1>12. \A i, j \in Active(later, Run, "report") : i = j
  BY <1>3, <1>11 DEF Standing
<1>13. Standing(later)
  BY <1>3, <1>5, <1>7, <1>9, <1>10, <1>11, <1>12, StandingKept DEF Active, Listed
<1>14. ReportsDerive(later)
  BY <1>3, <1>5, <1>7, ReportsDeriveKept
<1>15. UsesStanding(st, later)
  <2> SUFFICES ASSUME NEW i \in DOMAIN later \ DOMAIN st
               PROVE  Uses(later[i]) = Uses(mid[i])
    BY <1>3, <1>5 DEF UsesStanding
  <2>1. /\ later[i].sup = mid[i].sup /\ later[i].type = mid[i].type
        /\ mid[i].type = "claim" => later[i].cites = mid[i].cites
        /\ mid[i].type = "report" => later[i].claims = mid[i].claims
                                     /\ later[i].sources = mid[i].sources
    BY <1>5, <1>7, ContinuesFacts DEF Retires
  <2> QED
    BY <2>1 DEF Uses
<1>16. IF fb.agent = "collector" THEN Active(later, Run, "claim") = {}
       ELSE Active(later, Run, "claim") \subseteq Active(st, Run, "claim")
  <2>1. Active(mid, Run, "claim") = Active(st, Run, "claim")
    BY <1>2, <1>3, EvidenceKept
  <2> QED
    BY <1>5, <1>6, <1>11, <2>1
<1> QED
  BY <1>3, <1>7, <1>8, <1>13, <1>14, <1>15, <1>16

-----------------------------------------------------------------------------
(* Runs without a model: the reviewer *)

LEMMA NoVerdictsNoChange ==
    ASSUME ~HasModel, NEW st \in Seq(Artifacts), NEW V \in Verdicts(st),
           NEW later \in Reviewed(st, V)
    PROVE  V = {} /\ later = st
<1>1. V = {}
  BY DEF Verdicts
<1>2. CASE ~HasReport(st, Run)
  BY <1>1, <1>2 DEF Reviewed
<1>3. CASE HasReport(st, Run)
  <2>1. PICK W \in FirstOnes(Kept(st, V)) : later = WithVerdicts(st, W)
    BY <1>3 DEF Reviewed
  <2>2. W = {}
    BY <1>1, <2>1 DEF FirstOnes, Kept
  <2>3. SetToSeq(W) = <<>>
    <3>1. IsFiniteSet(W) /\ Cardinality(W) = 0
      BY <2>2, FS_EmptySet
    <3>2. SetToSeq(W) \in [1..Cardinality(W) -> W]
      BY <3>1, SetToSeqFacts
    <3>3. 1..0 = {}
      OBVIOUS
    <3>4. SetToSeq(W) \in [{} -> W]
      BY <3>1, <3>2, <3>3
    <3> QED
      BY <3>4
  <2> DEFINE new == [k \in DOMAIN SetToSeq(W) |-> Verified(SetToSeq(W)[k])]
             old == [i \in DOMAIN st |-> IF st[i].id \in {w.claim.id : w \in W}
                                         THEN [st[i] EXCEPT !.status = "superseded"] ELSE st[i]]
  <2>4. new = <<>>
    BY <2>3
  <2>5. old = st
    BY <2>2
  <2>6. later = old \o new
    BY <2>1 DEF WithVerdicts
  <2> HIDE DEF old, new
  <2> QED
    BY <1>1, <2>4, <2>5, <2>6
<1> QED
  BY <1>1, <1>2, <1>3

\* The rules find nothing that is missing, and so name the report; the coverage checks
\* name ids that no artifact has.
LEMMA PlainFeedback ==
    ASSUME ~HasModel, NEW st, StoreInv(st), Standing(st), NEW prior, NamesCoverage(prior),
           NEW O \in Opinions(st, prior), NEW V \in Verdicts(st)
    PROVE  LET fbs == ReviewFeedback(st, O, V)
           IN  NamesCoverage(fbs) /\ NamesReport(st, fbs)
<1> DEFINE fbs == ReviewFeedback(st, O, V)
           Named(fb) == /\ fb.agent \in {"collector", "analyst", "writer"}
                        /\ fb.agent = "collector" => fb.target \in {CoverageId, QuestionId}
                        /\ fb.agent # "collector" =>
                               fb.target \in {MissingReportId} \cup ActiveIds(st, "report")
<1>1. SUFFICES \A fb \in fbs : Named(fb)
  BY DEF NamesCoverage, NamesReport
<1> HIDE DEF fbs
<1>2. CASE ~HasReport(st, Run)
  <2> DEFINE F == Feedback("missing_section", "writer", MissingReportId, TRUE)
  <2>1. fbs = {F}
    BY <1>2 DEF fbs, ReviewFeedback, NoReportFeedback
  <2>2. F.agent = "writer" /\ F.target = MissingReportId
    BY DEF Feedback
  <2> HIDE DEF F
  <2> QED
    BY <2>1, <2>2
<1>3. CASE HasReport(st, Run)
  <2>1. PICK i : Top(st, i) /\ LatestReport(st, Run) = st[i]
    BY <1>3, LatestFacts DEF StoreInv
  <2>2. i \in Active(st, Run, "report") /\ st[i].id \in ActiveIds(st, "report")
    BY <2>1 DEF Top, ActiveIds
  <2> DEFINE r == st[i]
  <2>3. V = {}
    BY DEF Verdicts
  <2>4. VerdictFeedback(V) = {}
    BY <2>3 DEF VerdictFeedback
  <2>5. fbs \subseteq RuleFeedback(st, r) \cup O
    BY <1>3, <2>1, <2>4 DEF fbs, ReviewFeedback, Unique
  <2>6. UnknownClaims(st, r) = {} /\ MissingSources(st, r) = {}
    <3>1. r.claims \subseteq ActiveIds(st, "claim") /\ r.sources \subseteq ActiveIds(st, "source")
      BY <2>2 DEF Standing
    <3>2. \A c \in KnownClaims(st, r) : c.cites \subseteq ActiveIds(st, "source")
      BY DEF KnownClaims, ActiveClaims, Standing
    <3> HIDE DEF r
    <3>3. r.claims \ ActiveIds(st, "claim") = {}
      BY <3>1
    <3>4. (r.sources \cup UNION {c.cites : c \in KnownClaims(st, r)})
              \ ActiveIds(st, "source") = {}
      BY <3>1, <3>2
    <3>5. UnknownClaims(st, r) = {}
      BY <3>3 DEF UnknownClaims
    <3>6. MissingSources(st, r) = {}
      BY <3>4 DEF MissingSources
    <3> QED
      BY <3>5, <3>6
  <2> DEFINE F1 == Feedback("missing_source", "collector", CoverageId, TRUE)
             F2 == Feedback("missing_source", "collector", QuestionId, TRUE)
             F3 == Feedback("unsupported_claim", "analyst", r.id, TRUE)
             F4 == Feedback("missing_section", "writer", r.id, TRUE)
  <2>7. RuleFeedback(st, r) \subseteq {F3, F4}
    <3>1. MissingSection(r) \subseteq {F4} /\ UncoveredSources(st, r) \subseteq {F3}
      BY DEF MissingSection, UncoveredSources
    <3> HIDE DEF F3, F4, r
    <3> QED
      BY <2>6, <3>1 DEF RuleFeedback
  <2>8. O \subseteq CoverageOpinions(r, prior)
    <3>1. O \in AtMost(MaxOpinions, CoverageOpinions(r, prior) \cup ModelOpinions(st))
      BY <1>3, <2>1 DEF Opinions
    <3>2. ModelOpinions(st) = {} /\ MaxOpinions \in Nat
      BY BoundsAssumption DEF ModelOpinions
    <3> HIDE DEF r
    <3> QED
      BY <3>1, <3>2, AtMostFacts
  <2>9. /\ Named(F1) /\ Named(F2) /\ Named(F3) /\ Named(F4)
    <3>1. /\ F1.agent = "collector" /\ F1.target = CoverageId
          /\ F2.agent = "collector" /\ F2.target = QuestionId
          /\ F3.agent = "analyst" /\ F3.target = r.id
          /\ F4.agent = "writer" /\ F4.target = r.id
      BY DEF Feedback
    <3>2. r.id \in ActiveIds(st, "report")
      BY <2>2
    <3> HIDE DEF F1, F2, F3, F4, r
    <3> QED
      BY <3>1, <3>2
  <2>10. \A fb \in CoverageOpinions(r, prior) :
             fb \in {F1, F2, F3, F4} \/ (fb \in prior /\ fb.agent = "collector")
    <3> HIDE DEF r
    <3>1. CoverageOpinions(r, prior)
              \subseteq {F1, F2, F3, F4} \cup {fb \in prior : fb.agent = "collector"}
      <4>1. CoverageOpinions(r, prior)
                \subseteq {F1, F2, F3, F4} \cup {fb \in Blocking(prior) :
                               fb.issue = "missing_source" /\ fb.agent = "collector"}
        BY DEF CoverageOpinions
      <4> HIDE DEF F1, F2, F3, F4
      <4> QED
        BY <4>1 DEF Blocking
    <3> HIDE DEF F1, F2, F3, F4
    <3> QED
      BY <3>1
  <2>11. \A fb \in prior : fb.agent = "collector" => Named(fb)
    BY DEF NamesCoverage
  <2> HIDE DEF F1, F2, F3, F4, Named, r
  <2> QED
    BY <2>5, <2>7, <2>8, <2>9, <2>10, <2>11
<1> QED
  BY <1>2, <1>3

LEMMA PlainReviewRound ==
    ASSUME ~HasModel, StoreInv(store), Standing(store), NEW prior, NamesCoverage(prior),
           ReviewRound(prior)
    PROVE  /\ UNCHANGED store
           /\ NamesCoverage(review'.feedback) /\ NamesReport(store, review'.feedback)
<1>1. PICK O \in Opinions(store, prior), V \in Verdicts(store) :
          /\ store' \in Reviewed(store, V)
          /\ review' = Review(store, ReviewFeedback(store, O, V))
  BY DEF ReviewRound
<1>2. UNCHANGED store
  <2>1. store \in Seq(Artifacts)
    BY DEF StoreInv
  <2>2. PICK later : later = store'
    OBVIOUS
  <2> QED
    BY <1>1, <2>1, <2>2, NoVerdictsNoChange
<1>3. review'.feedback = ReviewFeedback(store, O, V)
  BY <1>1 DEF Review
<1> QED
  BY <1>2, <1>3, PlainFeedback

-----------------------------------------------------------------------------
(* Runs without a model: the invariant *)

LEMMA AfterFacts ==
    ASSUME NEW S
    PROVE  /\ UNCHANGED applied => \A i : After(i, S)' <=> After(i, S)
           /\ StoreInv(store) /\ FreshInv =>
                  \A i \in Nat : i > Len(store) => After(i, S)
<1>1. UNCHANGED applied => \A i : After(i, S)' <=> After(i, S)
  BY DEF After
<1>2. ASSUME StoreInv(store), FreshInv, NEW i \in Nat, i > Len(store)
      PROVE  After(i, S)
  <2>1. Len(store) \in Nat
    BY <1>2, StoreFacts DEF StoreInv
  <2>2. \A k \in DOMAIN applied : applied[k].at \in 0..Len(store)
    BY <1>2 DEF FreshInv
  <2> DEFINE m == Len(store)
  <2> HIDE DEF m
  <2>3. \A n \in 0..m : m \in Nat => (i > m => i > n)
    BY <1>2
  <2>4. \A k \in DOMAIN applied : i > applied[k].at
    BY <1>2, <2>1, <2>2, <2>3 DEF m
  <2> QED
    BY <2>4 DEF After
<1> QED
  BY <1>1, <1>2

Reworkers == {"collector", "analyst", "writer"}

\* Any step but an attempt of the rework loop: what is new is fresh.
LEMMA PlainKept ==
    ASSUME RunInv, PlainInv, UNCHANGED applied,
           Retires(store, store'), Standing(store'), ReportsDerive(store'),
           NamesCoverage(review'.feedback), NamesCoverage(remaining'),
           phase' = "rework" => NamesReport(store', remaining'),
           phase' # "done" /\ ~AwaitsWriter' =>
               \A i \in Active(store', Run, "report") \cap DOMAIN store : After(i, Reworkers),
           AwaitsWriter' => writerFed' \/ ~HasReport(store', Run),
           ShipsFresh', ReworkNeverCollides'
    PROVE  PlainInv'
<1>1. StoreInv(store) /\ store \in Seq(Artifacts) /\ FreshInv
  BY DEF RunInv, StoreInv, PlainInv
<1>2. /\ DOMAIN store \subseteq DOMAIN store' /\ Len(store) \in Nat
      /\ \A i \in DOMAIN store' \ DOMAIN store : i \in Nat /\ i > Len(store)
      /\ \A i \in DOMAIN store : \A type :
             i \in Active(store', Run, type) => i \in Active(store, Run, type)
  <2>1. PICK later : later = store'
    OBVIOUS
  <2> QED
    BY <1>1, <2>1, RetiresFacts
<1>3. \A i \in DOMAIN store' \ DOMAIN store : \A S : After(i, S)'
  BY <1>1, <1>2, AfterFacts
<1>4. \A i \in Active(store', Run, "claim") : After(i, {"collector"})'
  <2> SUFFICES ASSUME NEW i \in Active(store', Run, "claim") PROVE After(i, {"collector"})'
    OBVIOUS
  <2>1. i \in DOMAIN store'
    BY DEF Active, Listed
  <2>2. CASE i \in DOMAIN store
    <3>1. After(i, {"collector"})
      BY <1>1, <1>2, <2>2 DEF FreshInv
    <3> QED
      BY <3>1, AfterFacts
  <2> QED
    BY <1>3, <2>1, <2>2
<1>5. phase' # "done" /\ ~AwaitsWriter' =>
          \A i \in Active(store', Run, "report") : After(i, Reworkers)'
  <2> SUFFICES ASSUME phase' # "done", ~AwaitsWriter', NEW i \in Active(store', Run, "report")
               PROVE  After(i, Reworkers)'
    OBVIOUS
  <2>1. i \in DOMAIN store'
    BY DEF Active, Listed
  <2>2. CASE i \in DOMAIN store
    <3>1. After(i, Reworkers)
      BY <2>2
    <3> QED
      BY <3>1, AfterFacts
  <2> QED
    BY <1>3, <2>1, <2>2
<1>6. \A k \in DOMAIN applied' : applied'[k].at \in 0..Len(store')
  <2>1. Len(store) <= Len(store') /\ Len(store') \in Nat
    BY <1>1 DEF Retires, Continues
  <2> DEFINE m == Len(store)
             n == Len(store')
  <2>2. \A k \in DOMAIN applied : applied[k].at \in 0..m
    BY <1>1 DEF FreshInv
  <2>3. m \in Nat /\ n \in Nat /\ m <= n
    BY <1>2, <2>1
  <2> HIDE DEF m, n
  <2>4. \A x \in 0..m : x \in 0..n
    BY <2>3
  <2> QED
    BY <2>2, <2>4 DEF n
<1>7. FreshInv'
  BY <1>4, <1>5, <1>6 DEF FreshInv, Reworkers
<1> QED
  BY <1>7 DEF PlainInv

\* A result that ships, ships the report that is active.
Ships(result) ==
    /\ result.status \in {"approved", "approved_with_caveats"} =>
           HasReport(store, Run) /\ result.report = LatestReport(store, Run).id
    /\ result.error # "duplicate_artifact"

LEMMA ResultsShip ==
    /\ Ships(TimeoutResult) /\ Ships(Raised("agent"))
    /\ Ships(RunResult("aborted", {}, {}, "agent_aborted"))
    /\ \A fbs : Ships(RunResult("needs_rework", fbs, {}, "none"))
    /\ \A fbs, error : error # "duplicate_artifact" => Ships(UnresolvedResult(fbs, error))
    /\ HasReport(store, Run) => \A fbs : Ships(ReviewedResult(fbs))
<1>1. Ships(TimeoutResult)
  BY DEF Ships, TimeoutResult, RunResult
<1>2. Ships(Raised("agent"))
  BY DEF Ships, Raised, NoResult
<1>3. Ships(RunResult("aborted", {}, {}, "agent_aborted"))
  BY DEF Ships, RunResult
<1>4. \A fbs : Ships(RunResult("needs_rework", fbs, {}, "none"))
  BY DEF Ships, RunResult
<1>5. ASSUME NEW fbs, NEW error, error # "duplicate_artifact"
      PROVE  Ships(UnresolvedResult(fbs, error))
  BY <1>5 DEF Ships, UnresolvedResult, UnresolvedStatus, RunResult
<1>6. ASSUME HasReport(store, Run), NEW fbs PROVE Ships(ReviewedResult(fbs))
  BY <1>6 DEF Ships, ReviewedResult, RunResult
<1> QED
  BY <1>1, <1>2, <1>3, <1>4, <1>5, <1>6

\* The end of a run where its report is fresh.
LEMMA PlainEnd ==
    ASSUME RunInv, PlainInv, phase # "done", ~AwaitsWriter, NEW result, Finish(result),
           Ships(result), UNCHANGED <<store, applied>>,
           NamesCoverage(review'.feedback), NamesCoverage(remaining')
    PROVE  PlainInv'
<1>1. StoreInv(store) /\ store \in Seq(Artifacts) /\ FreshInv
  BY DEF RunInv, StoreInv, PlainInv
<1>2. phase' = "done" /\ outcome' = result
  BY DEF Finish
<1>3. ~AwaitsWriter' /\ ReworkNeverCollides'
  BY <1>2 DEF AwaitsWriter, ReworkNeverCollides, Ships
<1>4. ShipsFresh'
  <2> SUFFICES ASSUME Shipped'
               PROVE  \E i \in Active(store, Run, "report") :
                          result.report = store[i].id /\ After(i, Reworkers)'
    BY <1>2 DEF ShipsFresh, Reworkers
  <2>1. HasReport(store, Run) /\ result.report = LatestReport(store, Run).id
    BY <1>2 DEF Shipped, Ships
  <2>2. PICK i : Top(store, i) /\ LatestReport(store, Run) = store[i]
    BY <1>1, <2>1, LatestFacts
  <2>3. i \in Active(store, Run, "report") /\ After(i, Reworkers)
    BY <1>1, <2>2 DEF Top, FreshInv, Reworkers
  <2> QED
    BY <2>1, <2>2, <2>3, AfterFacts
<1>5. Retires(store, store') /\ Standing(store') /\ ReportsDerive(store')
  BY <1>1, RetiresNothing DEF PlainInv
<1> QED
  BY <1>2, <1>3, <1>4, <1>5, PlainKept

-----------------------------------------------------------------------------
(* Runs without a model: the steps *)

LEMMA RouteTails ==
    /\ \A r \in Routes \ {<<>>} :
           /\ Head(r) = "reviewer" => r = <<"reviewer">>
           /\ Head(r) = "writer" => r # <<"reviewer">> /\ Tail(r) = <<"reviewer">>
           /\ Head(r) \in {"collector", "analyst"} =>
                  r # <<"reviewer">> /\ Tail(r) # <<"reviewer">>
    /\ \A agent \in Reworkers : REWORK_ROUTES(agent) # <<"reviewer">>
<1>1. /\ Tail(<<"collector", "analyst", "writer", "reviewer">>)
             = <<"analyst", "writer", "reviewer">>
      /\ Tail(<<"analyst", "writer", "reviewer">>) = <<"writer", "reviewer">>
      /\ Tail(<<"writer", "reviewer">>) = <<"reviewer">>
  OBVIOUS
<1>2. /\ Head(<<"collector", "analyst", "writer", "reviewer">>) = "collector"
      /\ Head(<<"analyst", "writer", "reviewer">>) = "analyst"
      /\ Head(<<"writer", "reviewer">>) = "writer"
      /\ Head(<<"reviewer">>) = "reviewer"
  OBVIOUS
<1>3. /\ <<"collector", "analyst", "writer", "reviewer">> # <<"reviewer">>
      /\ <<"analyst", "writer", "reviewer">> # <<"reviewer">>
      /\ <<"writer", "reviewer">> # <<"reviewer">>
  OBVIOUS
<1>4. \A agent \in Reworkers : REWORK_ROUTES(agent) # <<"reviewer">>
  BY <1>3 DEF REWORK_ROUTES, Reworkers
<1> QED
  BY <1>1, <1>2, <1>3, <1>4 DEF Routes

\* A run that goes on has shipped nothing.
LEMMA NothingShipped ==
    ASSUME RunInv, PlainInv, phase # "done", UNCHANGED outcome
    PROVE  ~Shipped' /\ ShipsFresh' /\ ReworkNeverCollides'
<1>1. outcome'.status = "running"
  BY DEF RunInv, ControlTypes
<1> QED
  BY <1>1 DEF Shipped, ShipsFresh, ReworkNeverCollides, PlainInv

\* The collector and the analyst leave the reports as they are.
LEMMA PlainAdds ==
    ASSUME RunInv, PlainInv, NEW type \in {"source", "claim"}, Adds(store, store', type),
           UNCHANGED <<applied, writerFed>>,
           NamesCoverage(review'.feedback), NamesCoverage(remaining'),
           phase' = "rework" => NamesReport(store', remaining'),
           phase' # "done" => phase # "done" /\ (AwaitsWriter' <=> AwaitsWriter),
           ShipsFresh', ReworkNeverCollides'
    PROVE  PlainInv'
<1>1. StoreInv(store) /\ Standing(store) /\ ReportsDerive(store) /\ FreshInv
  BY DEF RunInv, PlainInv
<1>2. PICK later : later = store'
  OBVIOUS
<1>3. /\ Retires(store, later) /\ Standing(later) /\ ReportsDerive(later)
      /\ Active(later, Run, "report") = Active(store, Run, "report")
      /\ HasReport(later, Run) = HasReport(store, Run)
  BY <1>1, <1>2, AddsFacts DEF Adds
<1>4. phase' # "done" /\ ~AwaitsWriter' =>
          \A i \in Active(later, Run, "report") \cap DOMAIN store : After(i, Reworkers)
  BY <1>1, <1>3 DEF FreshInv, Reworkers
<1>5. AwaitsWriter' => writerFed' \/ ~HasReport(later, Run)
  <2> SUFFICES ASSUME AwaitsWriter' PROVE writerFed' \/ ~HasReport(later, Run)
    OBVIOUS
  <2>1. phase' # "done"
    BY DEF AwaitsWriter
  <2> QED
    BY <1>1, <1>3, <2>1 DEF FreshInv
<1> QED
  BY <1>2, <1>3, <1>4, <1>5, PlainKept

LEMMA PlainCollector ==
    ASSUME RunInv, PlainInv, RunCollector \/ RerunCollector
    PROVE  PlainInv' /\ UsesStanding(store, store')
<1>1. StoreInv(store) /\ agents \in Routes /\ (phase = "route" => agents # <<>>)
  BY DEF RunInv, ControlTypes
<1>2. /\ store' \in Collected(store) /\ agents' = Tail(agents) /\ agents # <<>>
      /\ Head(agents) = "collector" /\ phase \in {"pipeline", "route"}
      /\ UNCHANGED <<review, phase, remaining, writerFed, applied, outcome>>
  BY <1>1 DEF RunCollector, RerunCollector, AtBoundary, InRoute
<1>3. Adds(store, store', "source") /\ UsesStanding(store, store')
  <2>1. PICK later : later = store'
    OBVIOUS
  <2> QED
    BY <1>1, <1>2, <2>1, CollectedAdds, AddsUses
<1>4. AwaitsWriter' <=> AwaitsWriter
  BY <1>1, <1>2, RouteTails DEF AwaitsWriter
<1>5. ShipsFresh' /\ ReworkNeverCollides'
  BY <1>2, NothingShipped
<1>6. NamesCoverage(review'.feedback) /\ NamesCoverage(remaining') /\ phase' # "rework"
  BY <1>2 DEF PlainInv
<1> QED
  BY <1>2, <1>3, <1>4, <1>5, <1>6, PlainAdds

LEMMA CoverageNamed ==
    NamesCoverage(CoverageFeedback) /\ \A st : NamesReport(st, CoverageFeedback)
<1> DEFINE F == Feedback("missing_source", "collector", CoverageId, TRUE)
<1>1. F.agent = "collector" /\ F.target = CoverageId
  BY DEF Feedback
<1>2. CoverageFeedback = {F}
  BY DEF CoverageFeedback
<1> HIDE DEF F
<1> QED
  BY <1>1, <1>2 DEF NamesCoverage, NamesReport

LEMMA PlainAnalyst ==
    ASSUME RunInv, PlainInv, RunAnalyst \/ RerunAnalyst
    PROVE  PlainInv' /\ UsesStanding(store, store')
<1>1. /\ StoreInv(store) /\ store \in Seq(Artifacts)
      /\ agents \in Routes /\ (phase = "route" => agents # <<>>)
  BY DEF RunInv, ControlTypes, StoreInv
<1>2. /\ store' \in Analysed(store) \/ UNCHANGED store
      /\ agents' = Tail(agents) /\ agents # <<>>
      /\ Head(agents) = "analyst" /\ phase \in {"pipeline", "route"}
      /\ UNCHANGED <<review, writerFed, applied>>
      /\ \/ UNCHANGED <<phase, remaining, outcome>>
         \/ phase = "pipeline" /\ EnterRework(CoverageFeedback)
  <2>1. \/ UNCHANGED <<phase, remaining, left, writerFed, applied, outcome>>
        \/ phase = "pipeline" /\ EnterRework(CoverageFeedback)
    BY DEF RunAnalyst, RerunAnalyst, AtBoundary
  <2>2. UNCHANGED <<writerFed, applied>>
    BY <2>1 DEF EnterRework
  <2> QED
    BY <1>1, <2>1, <2>2 DEF RunAnalyst, RerunAnalyst, AtBoundary, InRoute
<1>3. Adds(store, store', "claim") /\ UsesStanding(store, store')
  <2>1. PICK later : later = store'
    OBVIOUS
  <2>2. CASE later \in Analysed(store)
    BY <1>1, <2>1, <2>2, AnalysedAdds, AddsUses
  <2>3. CASE later = store
    <3>1. Retires(store, store)
      BY <1>1, RetiresNothing
    <3> QED
      BY <2>1, <2>3, <3>1 DEF Adds, UsesStanding
  <2> QED
    BY <1>2, <2>1, <2>2, <2>3
<1>4. NamesCoverage(review'.feedback) /\ NamesCoverage(remaining)
  BY <1>2 DEF PlainInv
<1>5. CASE UNCHANGED <<phase, remaining, outcome>>
  <2>1. AwaitsWriter' <=> AwaitsWriter
    BY <1>1, <1>2, <1>5, RouteTails DEF AwaitsWriter
  <2>2. ShipsFresh' /\ ReworkNeverCollides' /\ phase' # "rework" /\ phase # "done"
    BY <1>2, <1>5, NothingShipped
  <2> QED
    BY <1>2, <1>3, <1>4, <1>5, <2>1, <2>2, PlainAdds
<1>6. CASE phase = "pipeline" /\ EnterRework(CoverageFeedback)
  <2>1. CASE phase' = "rework" /\ remaining' = CoverageFeedback /\ UNCHANGED outcome
    <3>1. ~AwaitsWriter' /\ ~AwaitsWriter
      BY <1>6, <2>1 DEF AwaitsWriter
    <3>2. ShipsFresh' /\ ReworkNeverCollides'
      BY <1>6, <2>1, NothingShipped
    <3>3. NamesCoverage(remaining') /\ NamesReport(store', remaining')
      BY <2>1, CoverageNamed
    <3> QED
      BY <1>2, <1>3, <1>4, <1>6, <3>1, <3>2, <3>3, PlainAdds
  <2>2. CASE /\ phase' = "done" /\ UNCHANGED remaining
             /\ outcome' = RunResult("needs_rework", CoverageFeedback, {}, "none")
    <3>1. outcome'.status = "needs_rework" /\ outcome'.error = "none"
      BY <2>2 DEF RunResult
    <3>2. ShipsFresh' /\ ReworkNeverCollides'
      BY <3>1 DEF ShipsFresh, Shipped, ReworkNeverCollides
    <3> QED
      BY <1>2, <1>3, <1>4, <2>2, <3>2, PlainAdds
  <2> QED
    BY <1>6, <2>1, <2>2 DEF EnterRework
<1> QED
  BY <1>2, <1>3, <1>5, <1>6

\* The writer answers feedback with a report in place of the one there was.
LEMMA PlainWriter ==
    ASSUME RunInv, PlainInv, RunWriter \/ RerunWriter
    PROVE  PlainInv' /\ UsesStanding(store, store')
<1>1. /\ StoreInv(store) /\ Standing(store) /\ ReportsDerive(store) /\ FreshInv
      /\ agents \in Routes /\ (phase = "route" => agents # <<>>) /\ writerFed \in BOOLEAN
  BY DEF RunInv, ControlTypes, PlainInv
<1>2. PICK rework \in BOOLEAN :
          /\ store' \in Written(store, rework)
          /\ phase = "route" => rework = writerFed
  BY <1>1 DEF RunWriter, RerunWriter, AtBoundary
<1>3. /\ agents' = Tail(agents) /\ agents # <<>>
      /\ Head(agents) = "writer" /\ phase \in {"pipeline", "route"}
      /\ UNCHANGED <<review, phase, remaining, writerFed, applied, outcome>>
  BY <1>1 DEF RunWriter, RerunWriter, AtBoundary, InRoute
<1>4. PICK later : later = store'
  OBVIOUS
<1>5. /\ Standing(later) /\ ReportsDerive(later) /\ Retires(store, later)
      /\ UsesStanding(store, later)
      /\ rework \/ ~HasReport(store, Run) => Active(later, Run, "report") \cap DOMAIN store = {}
  BY <1>1, <1>2, <1>4, WrittenFacts
<1>6. ~AwaitsWriter'
  BY <1>1, <1>3, RouteTails DEF AwaitsWriter
<1>7. \A i \in Active(later, Run, "report") \cap DOMAIN store : After(i, Reworkers)
  <2>1. CASE phase = "route"
    <3>1. AwaitsWriter
      BY <1>1, <1>3, <2>1, RouteTails DEF AwaitsWriter
    <3> QED
      BY <1>1, <1>2, <1>5, <2>1, <3>1 DEF FreshInv
  <2>2. CASE phase = "pipeline"
    <3>1. \A i \in Active(store, Run, "report") : After(i, Reworkers)
      BY <1>1, <2>2 DEF FreshInv, AwaitsWriter, Reworkers
    <3>2. \A i \in Active(later, Run, "report") \cap DOMAIN store :
              i \in Active(store, Run, "report")
      <4>1. store \in Seq(Artifacts)
        BY <1>1 DEF StoreInv
      <4> QED
        BY <1>5, <4>1, RetiresFacts
    <3> QED
      BY <3>1, <3>2
  <2> QED
    BY <1>3, <2>1, <2>2
<1>8. ShipsFresh' /\ ReworkNeverCollides' /\ phase' # "rework"
  BY <1>3, NothingShipped
<1>9. NamesCoverage(review'.feedback) /\ NamesCoverage(remaining')
  BY <1>3 DEF PlainInv
<1> QED
  BY <1>3, <1>4, <1>5, <1>6, <1>7, <1>8, <1>9, PlainKept

LEMMA PlainReviewer ==
    ASSUME ~HasModel, RunInv, PlainInv, RunReviewer \/ RerunReviewer
    PROVE  PlainInv' /\ UNCHANGED store
<1>1. /\ StoreInv(store) /\ store \in Seq(Artifacts) /\ Standing(store) /\ FreshInv
      /\ ReportsDerive(store) /\ review \in Reviews /\ review.feedback \subseteq Feedbacks
      /\ NamesCoverage(review.feedback) /\ NamesCoverage(remaining)
      /\ agents \in Routes /\ (phase = "route" => agents # <<>>)
  BY DEF RunInv, ControlTypes, PlainInv, StoreInv, Reviews
<1>2. PICK prior : /\ ReviewRound(prior) /\ NamesCoverage(prior) /\ prior \subseteq Feedbacks
  <2>1. CASE RunReviewer
    BY <2>1 DEF RunReviewer, NamesCoverage
  <2>2. CASE RerunReviewer
    BY <1>1, <2>2 DEF RerunReviewer
  <2> QED
    BY <2>1, <2>2
<1>3. /\ UNCHANGED store
      /\ NamesCoverage(review'.feedback) /\ NamesReport(store, review'.feedback)
  BY <1>1, <1>2, PlainReviewRound
<1>4. Looked(store', review') /\ review'.decision \in {"rework", "stop"}
  BY <1>1, <1>2, ReviewRoundFacts
<1>5. /\ agents # <<>> /\ Head(agents) = "reviewer" /\ phase \in {"pipeline", "route"}
      /\ UNCHANGED applied /\ ~AwaitsWriter
  <2>1. /\ agents # <<>> /\ Head(agents) = "reviewer" /\ phase \in {"pipeline", "route"}
        /\ UNCHANGED applied
    BY <1>1 DEF RunReviewer, RerunReviewer, AtBoundary, InRoute, EnterRework
  <2> QED
    BY <1>1, <2>1, RouteTails DEF AwaitsWriter
<1>6. Retires(store, store') /\ Standing(store') /\ ReportsDerive(store')
  BY <1>1, <1>3, RetiresNothing
<1>7. \A i \in Active(store, Run, "report") : After(i, Reworkers)
  BY <1>1, <1>5 DEF FreshInv, Reworkers
\* Another look: the rework loop, or the boundary after the last agent.
<1>8. CASE /\ UNCHANGED outcome /\ phase' \in {"pipeline", "rework"}
           /\ remaining' \in {remaining, review'.feedback}
           /\ phase' = "rework" => remaining' = review'.feedback
  <2>1. ~AwaitsWriter'
    BY <1>8 DEF AwaitsWriter
  <2>2. ShipsFresh' /\ ReworkNeverCollides'
    BY <1>5, <1>8, NothingShipped
  <2>3. NamesCoverage(remaining')
    BY <1>1, <1>3, <1>8
  <2>4. phase' = "rework" => NamesReport(store', remaining')
    BY <1>3, <1>8
  <2>5. \A i \in Active(store', Run, "report") \cap DOMAIN store : After(i, Reworkers)
    BY <1>3, <1>7
  <2> QED
    BY <1>3, <1>5, <1>6, <2>1, <2>2, <2>3, <2>4, <2>5, PlainKept
<1>9. ASSUME NEW result, Finish(result), Ships(result), UNCHANGED remaining
      PROVE  PlainInv'
  BY <1>1, <1>3, <1>5, <1>9, PlainEnd
<1>10. CASE RunReviewer
  <2>1. CASE EnterRework(review'.feedback)
    <3>1. PICK fbs : fbs = review'.feedback
      OBVIOUS
    <3>2. Ships(RunResult("needs_rework", fbs, {}, "none"))
      BY ResultsShip
    <3>3. CASE EnableRework
      BY <1>8, <2>1, <3>3 DEF EnterRework
    <3>4. CASE ~EnableRework
      <4>1. Finish(RunResult("needs_rework", fbs, {}, "none")) /\ UNCHANGED remaining
        BY <2>1, <3>1, <3>4 DEF EnterRework, Finish
      <4> QED
        BY <1>3, <1>9, <3>2, <4>1
    <3> QED
      BY <1>3, <3>3, <3>4
  <2>2. CASE UNCHANGED <<phase, remaining, outcome>>
    <3>1. phase = "pipeline"
      BY <1>10 DEF RunReviewer, AtBoundary
    <3> QED
      BY <1>3, <1>8, <2>2, <3>1
  <2> QED
    BY <1>10, <2>1, <2>2 DEF RunReviewer
<1>11. CASE RerunReviewer
  <2>1. CASE review'.decision = "stop"
    <3>1. PICK fbs : fbs = review'.feedback
      OBVIOUS
    <3>2. HasReport(store, Run)
      BY <1>3, <1>4, <2>1 DEF Looked
    <3>3. Finish(ReviewedResult(fbs)) /\ UNCHANGED remaining
      BY <1>11, <2>1, <3>1 DEF RerunReviewer
    <3>4. Ships(ReviewedResult(fbs))
      BY <3>2, ResultsShip
    <3> QED
      BY <1>3, <1>9, <3>3, <3>4
  <2>2. CASE review'.decision # "stop"
    BY <1>3, <1>8, <1>11, <2>2 DEF RerunReviewer
  <2> QED
    BY <2>1, <2>2
<1> QED
  BY <1>10, <1>11

\* The ends of a run at a boundary or in the rework loop.
LEMMA PlainStops ==
    ASSUME RunInv, PlainInv, TimeOut \/ ReworkTimesOut \/ Approve \/ ReworkGivesUp
    PROVE  PlainInv' /\ UNCHANGED store
<1>1. /\ phase \in {"pipeline", "rework"}
      /\ UNCHANGED <<store, review, remaining, applied>>
  BY DEF TimeOut, ReworkTimesOut, Approve, ReworkGivesUp
<1>2. NamesCoverage(review'.feedback) /\ NamesCoverage(remaining') /\ ~AwaitsWriter
  BY <1>1 DEF PlainInv, AwaitsWriter
<1>3. ASSUME NEW result, Finish(result), Ships(result) PROVE PlainInv'
  BY <1>1, <1>2, <1>3, PlainEnd
<1>4. CASE TimeOut \/ ReworkTimesOut
  BY <1>1, <1>3, <1>4, ResultsShip DEF TimeOut, ReworkTimesOut
<1>5. CASE Approve
  <2>1. HasReport(store, Run)
    BY <1>5 DEF RunInv, ReviewUpToDate, Looked, Approve
  <2> QED
    BY <1>1, <1>3, <1>5, <2>1, ResultsShip DEF Approve
<1>6. CASE ReworkGivesUp
  <2>1. Finish(UnresolvedResult(remaining, "max_rework_attempts_exceeded"))
    BY <1>6 DEF ReworkGivesUp
  <2>2. Ships(UnresolvedResult(remaining, "max_rework_attempts_exceeded"))
    BY ResultsShip
  <2> QED
    BY <1>1, <1>3, <2>1, <2>2
<1> QED
  BY <1>4, <1>5, <1>6

\* A run that fails ships nothing, wherever its agents stood.
LEMMA PlainFails ==
    ASSUME RunInv, PlainInv,
           \/ AgentRaises
           \/ AgentAborts("collector", Collected(store)) \/ AgentAborts("analyst", Analysed(store))
    PROVE  PlainInv' /\ UsesStanding(store, store')
<1>1. StoreInv(store) /\ store \in Seq(Artifacts)
  BY DEF RunInv, StoreInv
<1>2. PICK result : /\ Finish(result)
                    /\ result.status \notin {"approved", "approved_with_caveats"}
                    /\ result.error # "duplicate_artifact"
  <2>1. CASE AgentRaises
    <3>1. /\ Raised("agent").status = "raised" /\ Raised("agent").error = "agent"
          /\ Finish(Raised("agent"))
      BY <2>1 DEF AgentRaises, Raised, NoResult
    <3> QED
      BY <3>1
  <2>2. CASE \E agent, stores : AgentAborts(agent, stores)
    <3> DEFINE result == RunResult("aborted", {}, {}, "agent_aborted")
    <3>1. /\ result.status = "aborted" /\ result.error = "agent_aborted" /\ Finish(result)
      BY <2>2 DEF AgentAborts, RunResult
    <3> HIDE DEF result
    <3> QED
      BY <3>1
  <2> QED
    BY <2>1, <2>2
<1>3. UNCHANGED <<review, remaining, writerFed, applied>>
  BY DEF AgentRaises, AgentAborts
<1>4. PICK later : later = store'
  OBVIOUS
<1>5. PICK type \in {"source", "claim"} : Adds(store, later, type) /\ UsesStanding(store, later)
  <2>1. CASE later = store
    <3>1. Retires(store, store)
      BY <1>1, RetiresNothing
    <3> QED
      BY <2>1, <3>1 DEF Adds, UsesStanding
  <2>2. CASE later \in Collected(store)
    BY <1>1, <2>2, CollectedAdds, AddsUses
  <2>3. CASE later \in Analysed(store)
    BY <1>1, <2>3, AnalysedAdds, AddsUses
  <2> QED
    BY <1>4, <2>1, <2>2, <2>3 DEF AgentRaises, AgentAborts
<1>6. phase' = "done" /\ ShipsFresh' /\ ReworkNeverCollides'
  BY <1>2 DEF Finish, ShipsFresh, Shipped, ReworkNeverCollides
<1>7. NamesCoverage(review'.feedback) /\ NamesCoverage(remaining')
  BY <1>3 DEF PlainInv
<1> QED
  BY <1>3, <1>4, <1>5, <1>6, <1>7, PlainAdds

\* An attempt of the rework loop: what rests on what it changes goes, or is about to be
\* written again.
LEMMA PlainApply ==
    ASSUME RunInv, CaveatInv, PlainInv, NEW fb \in remaining, Apply(fb)
    PROVE  PlainInv' /\ UsesStanding(store, store')
<1>1. /\ StoreInv(store) /\ store \in Seq(Artifacts) /\ Standing(store) /\ FreshInv
      /\ ReportsDerive(store) /\ ReworkNeverCollides
      /\ NamesCoverage(review.feedback) /\ NamesCoverage(remaining)
      /\ phase = "rework" /\ NamesReport(store, remaining) /\ ~AwaitsWriter
  BY DEF RunInv, PlainInv, StoreInv, Apply, AwaitsWriter
<1>2. UNCHANGED <<review, remaining>>
  BY DEF Apply
<1>3. /\ fb.agent \in Reworkers
      /\ fb.agent = "collector" => fb.target \in {CoverageId, QuestionId}
      /\ fb.agent # "collector" => fb.target \in {MissingReportId} \cup ActiveIds(store, "report")
  BY <1>1 DEF NamesCoverage, NamesReport, Reworkers
<1>4. PICK later : later = Prepared(store, fb)
  OBVIOUS
<1>5. /\ Retires(store, later) /\ Standing(later) /\ ReportsDerive(later)
      /\ UsesStanding(store, later) /\ ~Collides(store, fb)
      /\ fb.agent # "writer" => ~HasReport(later, Run)
      /\ IF fb.agent = "collector" THEN Active(later, Run, "claim") = {}
         ELSE Active(later, Run, "claim") \subseteq Active(store, Run, "claim")
  BY <1>1, <1>3, <1>4, PreparedFacts DEF Reworkers
<1>6. CASE Attempts(fb) >= MaxRework
  <2>1. /\ Finish(UnresolvedResult(remaining, "max_attempts_exceeded"))
        /\ UNCHANGED <<store, applied>>
    BY <1>6 DEF Apply
  <2>2. Ships(UnresolvedResult(remaining, "max_attempts_exceeded"))
    BY ResultsShip
  <2>3. PICK result : result = UnresolvedResult(remaining, "max_attempts_exceeded")
    OBVIOUS
  <2>4. Finish(result) /\ Ships(result)
    BY <2>1, <2>2, <2>3
  <2>5. NamesCoverage(review'.feedback) /\ NamesCoverage(remaining')
    BY <1>1, <1>2
  <2>6. PlainInv'
    BY <1>1, <2>1, <2>4, <2>5, PlainEnd
  <2> QED
    BY <2>1, <2>6 DEF UsesStanding
<1>7. CASE ~(Attempts(fb) >= MaxRework)
  <2> DEFINE attempt == [key |-> Key(fb), at |-> Len(store')]
  <2>1. /\ store' = later /\ agents' = REWORK_ROUTES(fb.agent)
        /\ writerFed' = (\E g \in remaining : g.agent = "writer")
        /\ applied' = Append(applied, attempt) /\ phase' = "route" /\ UNCHANGED outcome
    BY <1>4, <1>5, <1>7 DEF Apply
  <2>2. attempt.key.agent = fb.agent /\ attempt.at = Len(later)
    BY <2>1 DEF Key
  <2> HIDE DEF attempt
  <2>3. AwaitsWriter'
    BY <1>3, <2>1, RouteTails DEF AwaitsWriter
  <2>4. writerFed' \/ ~HasReport(later, Run)
    BY <1>3, <1>5, <2>1
  <2>5. \A k \in DOMAIN applied' : \/ k \in DOMAIN applied /\ applied'[k] = applied[k]
                                   \/ applied'[k] = attempt
    <3>1. PICK S : applied \in Seq(S)
      BY DEF CaveatInv, AttemptsCounted
    <3> DEFINE n == Len(applied)
    <3>2. /\ n \in Nat /\ DOMAIN applied = 1..n /\ DOMAIN applied' = 1..(n + 1)
          /\ applied'[n + 1] = attempt /\ \A k \in 1..n : applied'[k] = applied[k]
      BY <2>1, <3>1
    <3> HIDE DEF n
    <3> QED
      BY <3>2
  <2>6. /\ Len(store) \in Nat /\ Len(later) \in Nat /\ Len(store) <= Len(later)
        /\ \A k \in DOMAIN applied : applied[k].at \in 0..Len(store)
    BY <1>1, <1>5, StoreFacts DEF Retires, Continues, FreshInv
  <2>7. \A k \in DOMAIN applied' : applied'[k].at \in 0..Len(later)
    <3> DEFINE m == Len(store)
               n == Len(later)
    <3>1. m \in Nat /\ n \in Nat /\ m <= n
      BY <2>6
    <3> HIDE DEF m, n
    <3>2. (\A x \in 0..m : x \in 0..n) /\ n \in 0..n
      BY <3>1
    <3> QED
      BY <2>2, <2>5, <2>6, <3>2 DEF m, n
  <2>8. \A i \in Active(later, Run, "claim") : After(i, {"collector"})'
    <3> SUFFICES ASSUME NEW i \in Active(later, Run, "claim"), NEW k \in DOMAIN applied',
                        applied'[k].key.agent = "collector"
                 PROVE  i > applied'[k].at
      BY DEF After
    <3>1. fb.agent # "collector" /\ i \in Active(store, Run, "claim")
      BY <1>5
    <3>2. k \in DOMAIN applied /\ applied'[k] = applied[k]
      BY <2>2, <2>5, <3>1
    <3>3. After(i, {"collector"})
      BY <1>1, <3>1 DEF FreshInv
    <3> QED
      BY <3>2, <3>3 DEF After
  <2>9. FreshInv'
    BY <2>1, <2>3, <2>4, <2>7, <2>8 DEF FreshInv
  <2>10. ShipsFresh' /\ ReworkNeverCollides'
    BY <1>1, <2>1, NothingShipped
  <2>11. /\ NamesCoverage(review'.feedback) /\ NamesCoverage(remaining')
         /\ phase' # "rework"
    BY <1>1, <1>2, <2>1
  <2>12. Standing(store') /\ ReportsDerive(store')
    BY <1>5, <2>1
  <2> QED
    BY <1>5, <2>1, <2>9, <2>10, <2>11, <2>12 DEF PlainInv
<1> QED
  BY <1>6, <1>7

LEMMA PlainStep ==
    ASSUME ~HasModel, RunInv, CaveatInv, PlainInv, [Next]_vars
    PROVE  PlainInv' /\ UsesStanding(store, store')
<1>1. CASE DeadlinePasses \/ UNCHANGED vars
  <2>1. UNCHANGED <<store, review, phase, agents, remaining, writerFed, applied, outcome>>
    BY <1>1 DEF DeadlinePasses, vars
  <2>2. Shipped' <=> Shipped
    BY <2>1 DEF Shipped
  <2>3. AwaitsWriter' <=> AwaitsWriter
    BY <2>1 DEF AwaitsWriter
  <2>4. FreshInv' /\ ShipsFresh'
    BY <2>1, <2>2, <2>3, AfterFacts DEF PlainInv, FreshInv, ShipsFresh
  <2>5. PlainInv'
    BY <2>1, <2>4 DEF PlainInv, ReworkNeverCollides
  <2> QED
    BY <2>1, <2>5 DEF UsesStanding
<1>2. CASE Proceeds
  <2>1. UNCHANGED store => UsesStanding(store, store')
    BY DEF UsesStanding
  <2> QED
    BY <1>2, <2>1, PlainCollector, PlainAnalyst, PlainWriter, PlainReviewer, PlainStops,
       PlainFails, PlainApply DEF Proceeds
<1> QED
  BY <1>1, <1>2 DEF Next

-----------------------------------------------------------------------------
(* Theorems on runs without a model *)

PlainRun == RunInv /\ CaveatInv /\ PlainInv

LEMMA PlainRunAlways == ASSUME ~HasModel PROVE Spec => []PlainRun
<1>1. Init => PlainInv
  <2> SUFFICES ASSUME Init PROVE PlainInv
    OBVIOUS
  <2>1. /\ store = <<>> /\ applied = <<>> /\ phase = "pipeline" /\ outcome = NoResult
        /\ remaining = {} /\ review.feedback = {}
    BY DEF Init, NoReview
  <2>2. DOMAIN store = {} /\ DOMAIN applied = {} /\ \A type : Active(store, Run, type) = {}
    BY <2>1 DEF Active, Listed
  <2>3. Standing(store) /\ ReportsDerive(store)
    BY <2>2 DEF Standing, ReportsDerive
  <2>4. FreshInv /\ ~AwaitsWriter
    BY <2>1, <2>2 DEF FreshInv, AwaitsWriter
  <2>5. ShipsFresh /\ ReworkNeverCollides
    BY <2>1 DEF ShipsFresh, Shipped, NoResult, ReworkNeverCollides
  <2> QED
    BY <2>1, <2>3, <2>4, <2>5 DEF PlainInv, NamesCoverage
<1>2. RunInv /\ CaveatInv /\ PlainInv /\ [Next]_vars => PlainInv'
  BY PlainStep
<1> QED
  BY <1>1, <1>2, RunInvAlways, CaveatInvAlways, PTL DEF Spec, PlainRun

\* Without a model, get_latest_report never has two drafts to choose from, whatever the
\* rework loop replaced, rejected and had written again.
THEOREM OneReportAtATime == ASSUME ~HasModel PROVE Spec => []OneReport
<1>1. PlainRun => OneReport
  <2> SUFFICES ASSUME PlainRun PROVE OneReport
    OBVIOUS
  <2> DEFINE R == Active(store, Run, "report")
  <2>1. \A i, j \in R : i = j
    BY DEF PlainRun, PlainInv, Standing
  <2>2. CASE R = {}
    BY <2>2, FS_EmptySet DEF OneReport
  <2>3. CASE R # {}
    <3>1. PICK i : R = {i}
      BY <2>1, <2>3
    <3> HIDE DEF R
    <3>2. Cardinality(R) = 1
      BY <3>1, FS_Singleton
    <3> QED
      BY <3>2 DEF OneReport, R
  <2> QED
    BY <2>2, <2>3
<1> QED
  BY <1>1, PlainRunAlways, PTL

\* Without a model, what ships after a rework, by approval, with caveats or at the
\* deadline, was written after every change to what it rests on.
THEOREM NoStaleWorkShips == ASSUME ~HasModel PROVE Spec => []FreshAfterRework
<1>1. PlainRun => FreshAfterRework
  <2> SUFFICES ASSUME PlainRun, Shipped
               PROVE  /\ After(Place(store, outcome.report), Reworkers)
                      /\ \A c \in Report.claims : After(Place(store, c), {"collector"})
    BY DEF FreshAfterRework, Reworkers
  <2>1. /\ StoreInv(store) /\ IdsUniqueIn(store) /\ Standing(store) /\ FreshInv
    BY DEF PlainRun, RunInv, PlainInv, StoreInv
  <2>2. PICK i \in Active(store, Run, "report") :
            outcome.report = store[i].id /\ After(i, Reworkers)
    BY DEF PlainRun, PlainInv, ShipsFresh, Reworkers
  <2>3. Place(store, outcome.report) = i /\ Report = store[i]
    BY <2>1, <2>2, PlaceIs DEF Active, Listed, Report
  <2>4. ASSUME NEW c \in Report.claims PROVE After(Place(store, c), {"collector"})
    <3>1. c \in ActiveIds(store, "claim")
      BY <2>1, <2>2, <2>3, <2>4 DEF Standing
    <3>2. Place(store, c) \in Active(store, Run, "claim")
      BY <2>1, <3>1, ActiveIsActive
    <3> QED
      BY <2>1, <3>2 DEF FreshInv
  <2> QED
    BY <2>2, <2>3, <2>4
<1> QED
  BY <1>1, PlainRunAlways, PTL

\* Without a model, no id that the rework loop derives for a save is in the store already:
\* the one artifact it derives an id for is the report, which is retired by it.
THEOREM ReworkSavesNeverCollide == ASSUME ~HasModel PROVE Spec => []ReworkNeverCollides
<1>1. PlainRun => ReworkNeverCollides
  BY DEF PlainRun, PlainInv
<1> QED
  BY <1>1, PlainRunAlways, PTL

\* docs/modules/05: without a model, nothing new copies or cites what was rejected.
THEOREM RejectedStaysUnused == ASSUME ~HasModel PROVE Spec => RejectedNotConsumed
<1> DEFINE UsesNoRejected ==
               \A i \in DOMAIN store' \ DOMAIN store : \A id \in Uses(store'[i]) :
                   Stored(store, id) => Get(store, id).status # "rejected"
<1>1. PlainRun /\ [Next]_vars => [UsesNoRejected]_store
  BY PlainStep DEF PlainRun, UsesStanding
<1> QED
  BY <1>1, PlainRunAlways, PTL DEF Spec, RejectedNotConsumed
=============================================================================
