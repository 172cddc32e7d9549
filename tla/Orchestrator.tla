---------------------------- MODULE Orchestrator ----------------------------
(***************************************************************************)
(* orchestrator/__init__.py with rework/__init__.py: one run of the        *)
(* pipeline collector, analyst, writer, reviewer, and the bounded rework   *)
(* loop that answers the reviewer's feedback.                              *)
(*                                                                         *)
(* An invocation of an agent is one step: the program is sequential and    *)
(* nothing looks at the store during an invocation.  What RuntimeHarness   *)
(* shows of an invocation is used here: it ends, in "stop", "rework",      *)
(* "abort" or, with the budget spent, "retry", which run treats as "stop". *)
(* The reviewer's budget (4 rounds) exceeds its invocations (1 + MaxRework *)
(* = 3), so it is never refused and its event is the latest of its events. *)
(***************************************************************************)
EXTENDS AgentRounds

CONSTANTS EnableRework,     \* enable_rework
          MaxRework,        \* max_rework_attempts, 2 in the code
          HasDeadline       \* whether max_wall_time is set

ASSUME ReworkAssumption ==
    EnableRework \in BOOLEAN /\ MaxRework \in Nat /\ HasDeadline \in BOOLEAN

VARIABLES store,        \* ArtifactStore of the run
          review,       \* the reviewer's latest journal event
          partial,      \* whether the collector's latest event signals partial coverage
          late,         \* whether the wall-clock deadline has passed
          phase,        \* where run is
          agents,       \* the agents it still has to run, in order
          remaining,    \* remaining_feedback
          left,         \* iterations left of the rework loop
          writerFed,    \* whether the route's context holds feedback for the writer
          applied,      \* ReworkLoop._attempts, with the store's length after each attempt
          answer,       \* the decision of the last invocation
          outcome       \* the RunResult, or the exception that left run

vars == <<store, review, partial, late, phase, agents, remaining, left, writerFed, applied,
          answer, outcome>>

Pipeline == <<"collector", "analyst", "writer", "reviewer">>

NoReview == [decision |-> "none", feedback |-> {}, report |-> NoId]

\* Wrong, for a mutant: the first report of the run, whatever became of it.
ResultOfFirstReport(status, feedback, caveats, error) ==
    LET reports == Listed(store, Run, "report", Statuses)
    IN  [status |-> status, report |-> IF reports = {} THEN NoId ELSE store[Min(reports)].id,
         feedback |-> feedback, caveats |-> caveats, error |-> error]

\* What run returns; report is _latest_report_id.
RunResult(status, feedback, caveats, error) ==
    [status |-> status, report |-> IF HasReport(store, Run) THEN LatestReport(store, Run).id
                                                            ELSE NoId,
     feedback |-> feedback, caveats |-> caveats, error |-> error]
NoResult == [status |-> "running", report |-> NoId, feedback |-> {}, caveats |-> {},
             error |-> "none"]

Init ==
    /\ store = <<>>
    /\ review = NoReview
    /\ partial = FALSE
    /\ late = FALSE
    /\ phase = "pipeline"
    /\ agents = Pipeline
    /\ remaining = {}
    /\ left = MaxRework
    /\ writerFed = FALSE
    /\ applied = <<>>
    /\ answer = "none"
    /\ outcome = NoResult

-----------------------------------------------------------------------------
(* Results *)

\* Wrong, for a mutant: a result is built and not returned.
FinishWithoutReturn(result) ==
    /\ UNCHANGED phase
    /\ outcome' = result

Finish(result) ==
    /\ phase' = "done"
    /\ outcome' = result

\* _timeout_result_if_due
DeadlineCaveat == Feedback("format_violation", "reviewer", DeadlineId, FALSE)
TimeoutResult ==
    IF HasReport(store, Run)
    THEN RunResult("approved_with_caveats", {}, {DeadlineCaveat}, "global_timeout")
    ELSE RunResult("aborted", {}, {}, "global_timeout")

\* The reviewer stopped: its advisories ship with the report.
ReviewedResult(fbs) ==
    IF Advisories(fbs) # {}
    THEN RunResult("approved_with_caveats", {}, Advisories(fbs), "none")
    ELSE RunResult("approved", {}, {}, "none")

\* _status_for_unresolved_feedback
MissingSource(fb) == fb.agent = "collector" /\ fb.issue = "missing_source"
\* Wrong, for a mutant: any report is good enough.
StatusByReport(fbs) == IF HasReport(store, Run) THEN "approved_with_caveats" ELSE "rework_failed"

UnresolvedStatus(fbs) ==
    IF fbs = {} THEN "rework_failed"
    ELSE IF \A fb \in fbs : MissingSource(fb) /\ fb.blocking THEN "needs_more_evidence"
    ELSE IF HasReport(store, Run) /\ ~\E fb \in fbs : MissingSource(fb)
         THEN "approved_with_caveats"
    ELSE "rework_failed"
UnresolvedResult(fbs, error) ==
    IF UnresolvedStatus(fbs) = "approved_with_caveats"
    THEN RunResult("approved_with_caveats", {}, fbs, error)
    ELSE RunResult(UnresolvedStatus(fbs), fbs, {}, error)

\* An exception leaves run: neither run nor the rework loop catches it.
Raised(error) == [NoResult EXCEPT !.status = "raised", !.error = error]

-----------------------------------------------------------------------------
(* run: the pipeline *)

\* time.monotonic reaches _deadline, at any moment.
DeadlinePasses ==
    /\ HasDeadline /\ phase # "done" /\ ~late
    /\ late' = TRUE
    /\ UNCHANGED <<store, review, partial, phase, agents, remaining, left, writerFed, applied,
                   answer, outcome>>

\* At each boundary, after the last agent too, the deadline is looked at first.
TimeOut ==
    /\ phase = "pipeline" /\ late
    /\ Finish(TimeoutResult)
    /\ UNCHANGED <<store, review, partial, late, agents, remaining, left, writerFed, applied,
                   answer>>

AtBoundary(agent) == phase = "pipeline" /\ ~late /\ agents # <<>> /\ Head(agents) = agent

\* Feedback ends the pipeline: with the rework loop or with the feedback.
EnterRework(fbs) ==
    /\ IF EnableRework
       THEN phase' = "rework" /\ remaining' = fbs /\ UNCHANGED outcome
       ELSE phase' = "done" /\ UNCHANGED remaining
            /\ outcome' = RunResult("needs_rework", fbs, {}, "none")
    /\ UNCHANGED <<left, writerFed, applied>>

RunCollector ==
    /\ AtBoundary("collector")
    /\ store' \in Collected(store)
    /\ partial' \in BOOLEAN
    /\ agents' = Tail(agents)
    /\ answer' = "stop"
    /\ UNCHANGED <<review, late, phase, remaining, left, writerFed, applied, outcome>>

\* After the analyst, partial coverage counts as the collector's feedback.
CoverageFeedback == {Feedback("missing_source", "collector", CoverageId, TRUE)}
RunAnalyst ==
    /\ AtBoundary("analyst")
    /\ store' \in Analysed(store)
    /\ agents' = Tail(agents)
    /\ IF partial
       THEN EnterRework(CoverageFeedback)
       ELSE UNCHANGED <<phase, remaining, left, writerFed, applied, outcome>>
    /\ answer' = "stop"
    /\ UNCHANGED <<review, partial, late>>

RunWriter ==
    /\ AtBoundary("writer")
    /\ store' \in Written(store, FALSE)
    /\ agents' = Tail(agents)
    /\ answer' = "stop"
    /\ UNCHANGED <<review, partial, late, phase, remaining, left, writerFed, applied, outcome>>

ReviewRound(prior) ==
    \E O \in Opinions(store, prior), V \in Verdicts(store) :
        /\ store' \in Reviewed(store, V)
        /\ review' = Review(store, ReviewFeedback(store, O, V))
RunReviewer ==
    /\ AtBoundary("reviewer")
    /\ ReviewRound({})
    /\ agents' = Tail(agents)
    /\ IF review'.decision = "rework"
       THEN EnterRework(review'.feedback)
       ELSE UNCHANGED <<phase, remaining, left, writerFed, applied, outcome>>
    /\ answer' = review'.decision
    /\ UNCHANGED <<partial, late>>

\* The collector and the analyst may be answered "abort", whatever they saved.
AgentAborts(agent, stores) ==
    /\ AtBoundary(agent)
    /\ store' \in stores
    /\ answer' = "abort"
    /\ Finish(RunResult("aborted", {}, {}, "agent_aborted"))
    /\ UNCHANGED <<review, partial, late, agents, remaining, left, writerFed, applied>>

\* Past the deadline check that follows the last agent.
Approve ==
    /\ phase = "pipeline" /\ ~late /\ agents = <<>>
    /\ Finish(ReviewedResult(review.feedback))
    /\ UNCHANGED <<store, review, partial, late, agents, remaining, left, writerFed, applied,
                   answer>>

\* An agent, a tool, a model or a store raises during an invocation.  What the
\* invocation had saved until then is left out: no agent looks at the store again.
AgentRaises ==
    /\ phase = "route" \/ (phase = "pipeline" /\ ~late /\ agents # <<>>)
    /\ Finish(Raised("agent"))
    /\ UNCHANGED <<store, review, partial, late, agents, remaining, left, writerFed, applied,
                   answer>>

-----------------------------------------------------------------------------
(* _apply_integrated_rework and ReworkLoop.apply *)

Priority == <<"collector", "analyst", "writer", "reviewer">>
REWORK_ROUTES(agent) ==
    CASE agent = "collector" -> <<"collector", "analyst", "writer", "reviewer">>
      [] agent = "analyst"   -> <<"analyst", "writer", "reviewer">>
      [] agent = "writer"    -> <<"writer", "reviewer">>
      [] agent = "reviewer"  -> <<"reviewer">>

\* _select_upstream_feedback: the first in the list, of those for the most upstream
\* agent that has any; its blocking items come before its advisories.
SelectedFrom(fbs) ==
    LET upstream == CHOOSE k \in 1..4 :
                        /\ \E fb \in fbs : fb.agent = Priority[k]
                        /\ \A j \in 1..(k - 1) : \A fb \in fbs : fb.agent # Priority[j]
        theirs   == {fb \in fbs : fb.agent = Priority[upstream]}
    IN  IF Blocking(theirs) # {} THEN Blocking(theirs) ELSE theirs

Attempts(fb) == Cardinality({i \in DOMAIN applied : applied[i].key = Key(fb)})

ReworkTimesOut ==
    /\ phase = "rework" /\ late /\ left > 0
    /\ Finish(TimeoutResult)
    /\ UNCHANGED <<store, review, partial, late, agents, remaining, left, writerFed, applied,
                   answer>>

\* Wrong, for a mutant: only `if not remaining_feedback` ends the loop.
GiveUpWhenAnswered ==
    /\ phase = "rework" /\ left = 0 /\ remaining = {}
    /\ Finish(UnresolvedResult(remaining, "max_rework_attempts_exceeded"))
    /\ UNCHANGED <<store, review, partial, late, agents, remaining, left, writerFed, applied,
                   answer>>

\* The loop is over; the deadline was only looked at at the top of its iterations.
ReworkGivesUp ==
    /\ phase = "rework" /\ left = 0
    /\ Finish(UnresolvedResult(remaining, "max_rework_attempts_exceeded"))
    /\ UNCHANGED <<store, review, partial, late, agents, remaining, left, writerFed, applied,
                   answer>>

\* One iteration up to the route: the artifacts are changed and the agents to run
\* again are chosen.
Apply(fb) ==
    /\ phase = "rework" /\ ~late /\ left > 0
    /\ fb \in SelectedFrom(remaining)
    /\ IF Attempts(fb) >= MaxRework
       THEN /\ Finish(UnresolvedResult(remaining, "max_attempts_exceeded"))
            /\ UNCHANGED <<store, agents, left, writerFed, applied>>
       ELSE IF Collides(store, fb)
       THEN /\ Finish(Raised("duplicate_artifact"))
            /\ UNCHANGED <<store, agents, left, writerFed, applied>>
       ELSE /\ store' = Prepared(store, fb)
            /\ agents' = REWORK_ROUTES(fb.agent)
            /\ writerFed' = \E g \in remaining : g.agent = "writer"
            /\ applied' = Append(applied, [key |-> Key(fb), at |-> Len(store')])
            /\ left' = left - 1
            /\ phase' = "route"
            /\ UNCHANGED outcome
    /\ UNCHANGED <<review, partial, late, remaining, answer>>

InRoute(agent) == phase = "route" /\ Head(agents) = agent

\* _run_route: the answers of the agents but the last are not looked at.
RerunCollector ==
    /\ InRoute("collector")
    /\ store' \in Collected(store)
    /\ partial' \in BOOLEAN
    /\ answer' \in {"stop", "abort"}
    /\ agents' = Tail(agents)
    /\ UNCHANGED <<review, late, phase, remaining, left, writerFed, applied, outcome>>

\* An analyst or a collector whose budget is spent aborts without a round.
RerunAnalyst ==
    /\ InRoute("analyst")
    /\ \/ store' \in Analysed(store) /\ answer' \in {"stop", "abort"}
       \/ UNCHANGED store /\ answer' = "abort"
    /\ agents' = Tail(agents)
    /\ UNCHANGED <<review, partial, late, phase, remaining, left, writerFed, applied, outcome>>

RerunWriter ==
    /\ InRoute("writer")
    /\ store' \in Written(store, writerFed)
    /\ agents' = Tail(agents)
    /\ answer' = "stop"
    /\ UNCHANGED <<review, partial, late, phase, remaining, left, writerFed, applied, outcome>>

\* The reviewer ends the route: its stop ends the run, its feedback is what the
\* next iteration works on.
RerunReviewer ==
    /\ InRoute("reviewer")
    /\ ReviewRound(review.feedback)
    /\ agents' = Tail(agents)
    /\ IF review'.decision = "stop"
       THEN Finish(ReviewedResult(review'.feedback)) /\ UNCHANGED remaining
       ELSE phase' = "rework" /\ remaining' = review'.feedback /\ UNCHANGED outcome
    /\ answer' = review'.decision
    /\ UNCHANGED <<partial, late, left, writerFed, applied>>

-----------------------------------------------------------------------------
Proceeds ==
    \/ TimeOut \/ Approve \/ AgentRaises
    \/ RunCollector \/ RunAnalyst \/ RunWriter \/ RunReviewer
    \/ AgentAborts("collector", Collected(store)) \/ AgentAborts("analyst", Analysed(store))
    \/ ReworkTimesOut \/ ReworkGivesUp \/ \E fb \in remaining : Apply(fb)
    \/ RerunCollector \/ RerunAnalyst \/ RerunWriter \/ RerunReviewer

Next == Proceeds \/ DeadlinePasses

\* run is one thread that never waits for anything but its own calls, and each of
\* those ends (RuntimeHarness); the deadline need never pass.
Fairness == WF_vars(Proceeds)

Spec == Init /\ [][Next]_vars /\ Fairness

-----------------------------------------------------------------------------
(* Properties *)

IsId(id) ==
    /\ id.kind \in Types \cup {"none", "coverage", "question", "missing_report", "deadline"}
    /\ id.n \in Nat /\ id.tail \in Seq([version : Nat, verified : BOOLEAN])
IsFeedback(fb) ==
    /\ fb.issue \in {"missing_source", "unsupported_claim", "missing_section", "unclear_writing",
                     "format_violation"}
    /\ fb.agent \in {"collector", "analyst", "writer", "reviewer"}
    /\ IsId(fb.target) /\ fb.blocking \in BOOLEAN
IsArtifact(a) ==
    /\ IsId(a.id) /\ a.type \in Types /\ a.version \in Nat \ {0} /\ IsId(a.sup)
    /\ a.status \in Statuses
    /\ a.type = "claim" => a.accuracy \in {"unverified", "partial", "unsupported"}
    /\ a.type = "report" => a.complete \in BOOLEAN

TypeOK ==
    /\ \A i \in DOMAIN store : IsArtifact(store[i])
    /\ review.decision \in {"none", "rework", "stop"} /\ \A fb \in review.feedback : IsFeedback(fb)
    /\ partial \in BOOLEAN /\ late \in BOOLEAN /\ writerFed \in BOOLEAN
    /\ answer \in {"none", "stop", "rework", "abort"}
    /\ phase \in {"pipeline", "rework", "route", "done"}
    /\ left \in 0..MaxRework /\ Len(applied) = MaxRework - left
    /\ outcome.status \in {"running", "approved", "approved_with_caveats", "aborted",
                           "needs_rework", "needs_more_evidence", "rework_failed", "raised"}
    /\ (outcome.status = "running") = (phase # "done")

Shipped  == outcome.status \in {"approved", "approved_with_caveats"}
TimedOut == outcome.error = "global_timeout"
Report   == Get(store, outcome.report)

\* What ships on the reviewer's word is the report the reviewer looked at last,
\* whatever was replaced, rejected or written in between.
ShippedWasReviewed ==
    Shipped /\ ~TimedOut => outcome.report # NoId /\ review.report = outcome.report

\* A plain approval rests on evidence that stands: the review had nothing to say, and
\* each claim of the report is active, or was replaced by its cross-checked version
\* in that very review; each cited source is active.
Stands(c) ==
    \/ c \in ActiveIds(store, "claim")
    \/ \E d \in ActiveClaims(store) : d.sup = c /\ d.id = VerifiedId(c, Get(store, c).version + 1)
ApprovedRestsOnEvidence ==
    outcome.status = "approved" =>
        /\ review.feedback = {}
        /\ Report.claims # {} /\ \A c \in Report.claims : Stands(c)
        /\ Report.sources \subseteq ActiveIds(store, "source")

\* Without a model, no stale work ships after a rework, not even by a timeout: the
\* report was written after the artifacts behind it were last changed, and its claims
\* after the sources were.
After(place, agentSet) ==
    \A k \in DOMAIN applied : applied[k].key.agent \in agentSet => place > applied[k].at
FreshAfterRework ==
    Shipped =>
        /\ After(Place(store, outcome.report), {"collector", "analyst", "writer"})
        /\ \A c \in Report.claims : After(Place(store, c), {"collector"})

\* docs/modules/31: missing evidence is not a caveat, and other blocking feedback
\* becomes one only when the rework loop is exhausted.  The deadline is left aside.
MissingSourceNeverCaveat ==
    outcome.status = "approved_with_caveats" /\ ~TimedOut =>
        \A fb \in Blocking(outcome.caveats) : ~MissingSource(fb) /\ left = 0

\* At most one report of the run is active when the reviewer looks, so that the
\* version decides nothing: get_latest_report cannot prefer an older draft.
OneReport == Cardinality(Active(store, Run, "report")) <= 1

\* The ids the agents count and the ids the rework loop derives never meet: no save
\* of the rework loop raises.
ReworkNeverCollides == outcome.error # "duplicate_artifact"

\* Whatever artifact the feedback names, active or retired, what it supersedes keeps
\* its successor in the store, and no id is given twice.
LineageKept == IdsUniqueIn(store) /\ SuccessorsKept(store)

\* docs/modules/15 "infinite rework loops are impossible": every run ends.
RunEnds == <>(phase = "done")

-----------------------------------------------------------------------------
(* What the docs say and the code does not do *)

\* docs/modules/33: "a deadline that trips during the reviewer round still returns a
\* timeout result instead of `approved`".  No run is approved past its deadline.
LateNeverApproved == outcome.status = "approved" => ~late

\* docs/modules/05: "Rejected artifacts stay available for audit but should not be
\* consumed": nothing new is a copy of a rejected artifact or cites one.  It holds
\* without a model, whose feedback may name any artifact.
Uses(a) ==
    {a.sup} \cup (CASE a.type = "claim"  -> a.cites
                    [] a.type = "report" -> a.claims \cup a.sources
                    [] OTHER             -> {})
RejectedNotConsumed ==
    [][\A i \in DOMAIN store' \ DOMAIN store : \A id \in Uses(store'[i]) :
           Stored(store, id) => Get(store, id).status # "rejected"]_store
=============================================================================
