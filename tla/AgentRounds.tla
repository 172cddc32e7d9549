----------------------------- MODULE AgentRounds -----------------------------
(***************************************************************************)
(* agents/*.py and the artifact changes of rework/__init__.py: what one    *)
(* invocation of an agent may do to the artifacts of a run.  Texts, urls   *)
(* and prompts are left out, so a check that reads them (does a source     *)
(* mention a competitor, does the text answer a question, what does the    *)
(* model think) may come out either way; the checks on ids, statuses and   *)
(* citations are exact.                                                    *)
(***************************************************************************)
EXTENDS ArtifactOps, FiniteSetsExt, SequencesExt

CONSTANTS HasModel,         \* whether the agents have a ModelRuntime
          MaxNewSources,    \* bound: sources saved by one collector invocation
          MaxNewClaims,     \* bound: claims saved by one analyst invocation
          MaxOpinions,      \* bound: feedback items of one review that depend on texts
          MaxVerdicts       \* bound: claims one cross-check finds fault with

ASSUME HasModelAssumption == HasModel \in BOOLEAN
ASSUME BoundsAssumption ==
    MaxNewSources \in Nat /\ MaxNewClaims \in Nat /\ MaxOpinions \in Nat /\ MaxVerdicts \in Nat

Run == "run"

\* The subsets of S of at most k elements.
AtMost(k, S) == {{}} \cup {{f[i] : i \in 1..k} : f \in [1..k -> S]}

-----------------------------------------------------------------------------
(* Artifact ids: a numbered id, and the suffixes replacements append to it *)

BaseId(kind, n) == [kind |-> kind, n |-> n, tail |-> <<>>]
NoId            == BaseId("none", 0)
\* Ids that feedback names but no agent saves: collector_coverage and
\* question_coverage:..., report_<run>, run_<run>_deadline.
CoverageId      == BaseId("coverage", 0)
QuestionId      == BaseId("question", 0)
MissingReportId == BaseId("missing_report", 0)
DeadlineId      == BaseId("deadline", 0)

\* ReworkLoop._replacement_id appends _v<n>, the cross-check _v<n>_verified.
ReplacementId(id, n) == [id EXCEPT !.tail = Append(@, [version |-> n, verified |-> FALSE])]
VerifiedId(id, n)    == [id EXCEPT !.tail = Append(@, [version |-> n, verified |-> TRUE])]

\* Wrong, for a mutant: retired artifacts are not counted.
NextIdOfActive(st, type, k) == BaseId(type, Cardinality(Active(st, Run, type)) + k)

\* _next_source_id, _next_claim_id, _next_report_id count every status: the id of the
\* k-th artifact of a type that is saved from here on.
NextId(st, type, k) == BaseId(type, Cardinality(Listed(st, Run, type, Statuses)) + k)

\* Wrong, for a mutant: list_* without its status filter.
IdsOfAnyStatus(st, type) == {st[i].id : i \in Listed(st, Run, type, Statuses)}

ActiveIds(st, type) == {st[i].id : i \in Active(st, Run, type)}
ActiveClaims(st)    == {st[i] : i \in Active(st, Run, "claim")}

NewSource(id) == [id |-> id, run |-> Run, type |-> "source", version |-> 1, sup |-> NoId,
                  status |-> "active"]
NewClaim(id, cites) == [id |-> id, run |-> Run, type |-> "claim", version |-> 1, sup |-> NoId,
                        status |-> "active", cites |-> cites, accuracy |-> "unverified"]
NewReport(id, claims, sources, complete) ==
    [id |-> id, run |-> Run, type |-> "report", version |-> 1, sup |-> NoId,
     status |-> "active", claims |-> claims, sources |-> sources, complete |-> complete]

-----------------------------------------------------------------------------
(* Collector, Analyst and Writer: the stores an invocation may leave behind *)

NewSources(st, n) == [k \in 1..n |-> NewSource(NextId(st, "source", k))]
Collected(st) == {st \o NewSources(st, n) : n \in 0..MaxNewSources}

\* Over its rounds the analyst saves claims on active sources: in the model's
\* words on any of them, from the template one for each unclaimed source.  It
\* does not finish without a claim when there is a source.
Citable(st) ==
    IF HasModel THEN (SUBSET ActiveIds(st, "source")) \ {{}}
    ELSE {{s} : s \in {s \in ActiveIds(st, "source") :
                          \A c \in ActiveClaims(st) : s \notin c.cites}}
NewClaims(st, cites) == [k \in DOMAIN cites |-> NewClaim(NextId(st, "claim", k), cites[k])]
Analysed(st) ==
    {st \o NewClaims(st, SetToSeq(C)) :
        C \in {C \in AtMost(MaxNewClaims, Citable(st)) :
                  C # {} \/ ActiveClaims(st) # {} \/ ActiveIds(st, "source") = {}}}

\* Wrong, for a mutant: the writer leaves the old report alone.
RejectNothing(st) == st

RejectLatest(st) ==
    IF HasReport(st, Run) THEN WithStatus(st, LatestReport(st, Run).id, "rejected") ELSE st

\* A writer that was given feedback rejects the latest report before it looks at
\* the claims; without claims it stalls, and does so in each of the three rounds
\* it is given.  The template fills every section, the model may leave one empty.
Written(st, rework) ==
    IF HasReport(st, Run) /\ ~rework THEN {st}
    ELSE LET claims  == ActiveIds(st, "claim")
             sources == UNION {c.cites : c \in ActiveClaims(st)}
             cleared == RejectLatest(st)
         IN  IF claims = {} THEN {IF rework THEN RejectLatest(RejectLatest(cleared)) ELSE st}
             ELSE {Saved(cleared, NewReport(NextId(st, "report", 1), claims, sources, complete)) :
                      complete \in (IF HasModel THEN BOOLEAN ELSE {TRUE})}

-----------------------------------------------------------------------------
(* Reviewer *)

Feedback(issue, agent, target, blocking) ==
    [issue |-> issue, agent |-> agent, target |-> target, blocking |-> blocking]
Key(fb) == [issue |-> fb.issue, agent |-> fb.agent, target |-> fb.target]
Blocking(fbs)   == {fb \in fbs : fb.blocking}
Advisories(fbs) == {fb \in fbs : ~fb.blocking}
\* _unique_feedback: of the items with one key the first is kept.
Unique(first, others) == first \cup {fb \in others : Key(fb) \notin {Key(g) : g \in first}}

NoReportFeedback == {Feedback("missing_section", "writer", MissingReportId, TRUE)}

MissingSection(report) ==
    IF report.complete THEN {} ELSE {Feedback("missing_section", "writer", report.id, TRUE)}
UnknownClaims(st, report) ==
    {Feedback("unsupported_claim", "analyst", c, TRUE) :
        c \in report.claims \ ActiveIds(st, "claim")}
KnownClaims(st, report) == {c \in ActiveClaims(st) : c.id \in report.claims}
MissingSources(st, report) ==
    LET cited == report.sources \cup UNION {c.cites : c \in KnownClaims(st, report)}
    IN  {Feedback("missing_source", "collector", s, TRUE) : s \in cited \ ActiveIds(st, "source")}
UncoveredSources(st, report) ==
    IF report.sources \subseteq UNION {c.cites : c \in KnownClaims(st, report)} THEN {}
    ELSE {Feedback("unsupported_claim", "analyst", report.id, TRUE)}

\* Wrong, for a mutant: the claims of a report are not looked up.
RulesOnSources(st, report) == MissingSection(report) \cup MissingSources(st, report)

RuleFeedback(st, report) ==
    MissingSection(report) \cup UnknownClaims(st, report)
        \cup MissingSources(st, report) \cup UncoveredSources(st, report)

\* What the coverage checks of _review_report may add (competitors, questions)
\* and the blocking collector feedback of earlier reviews that is still open.
\* With a model, run_round drops what asks for sources on a question.
CoverageOpinions(report, prior) ==
    LET found == {Feedback("missing_source", "collector", CoverageId, TRUE),
                  Feedback("missing_source", "collector", QuestionId, TRUE),
                  Feedback("unsupported_claim", "analyst", report.id, TRUE),
                  Feedback("missing_section", "writer", report.id, TRUE)}
                 \cup {fb \in Blocking(prior) :
                          fb.issue = "missing_source" /\ fb.agent = "collector"}
    IN  {fb \in found : HasModel => fb.target # QuestionId}

\* _model_review: any issue, agent and artifact id, of those the model was shown or
\* of none, blocking or not.  unclear_writing stands for the issues, and the pairs
\* of issue and agent, that the code treats alike; missing_section for the reviewer, whose
\* copy of the report may gain the section, is left out.
ModelOpinions(st) ==
    IF ~HasModel THEN {}
    ELSE [issue : {"unclear_writing"}, agent : {"collector", "analyst", "writer", "reviewer"},
          target : {st[i].id : i \in DOMAIN st} \cup {QuestionId}, blocking : BOOLEAN]
         \cup [issue : {"missing_source"}, agent : {"collector"}, blocking : BOOLEAN,
               target : {st[i].id : i \in DOMAIN st} \cup {QuestionId}]

\* _save_verified_claim: a partial or unsupported verdict is kept in a new version.
Verified(v) ==
    [v.claim EXCEPT !.id = VerifiedId(@, v.claim.version + 1), !.version = @ + 1,
                    !.sup = v.claim.id, !.accuracy = v.verdict]
\* A claim whose new version is there already is left alone, and so of two verdicts on
\* a claim either may be the one that counts.
Kept(st, V) == {v \in V : v.verdict # v.claim.accuracy /\ ~Stored(st, Verified(v).id)}
FirstOnes(V) ==
    {W \in SUBSET V : /\ {w.claim : w \in W} = {v.claim : v \in V}
                      /\ \A v, w \in W : v.claim = w.claim => v = w}
WithVerdicts(st, W) ==
    LET judged == {w.claim.id : w \in W}
        saved  == SetToSeq(W)
    IN  [i \in DOMAIN st |-> IF st[i].id \in judged THEN [st[i] EXCEPT !.status = "superseded"]
                                                    ELSE st[i]]
        \o [k \in DOMAIN saved |-> Verified(saved[k])]

\* The verdicts of _verify_claim_support that change something.  The model is asked
\* when some claim cites an active source, and may name any active claim.
Verdicts(st) ==
    IF HasModel /\ HasReport(st, Run)
       /\ \E c \in ActiveClaims(st) : c.cites \cap ActiveIds(st, "source") # {}
    THEN AtMost(MaxVerdicts, [claim : ActiveClaims(st), verdict : {"partial", "unsupported"}])
    ELSE {{}}
VerdictFeedback(V) ==
    {Feedback("unsupported_claim", "analyst", v.claim.id, FALSE) :
        v \in {v \in V : v.verdict = "unsupported"}}

\* run_round: one round, which ends the invocation.  Its feedback is computed on the
\* store the review found; the verdicts are saved before the round returns.
Opinions(st, prior) ==
    IF HasReport(st, Run)
    THEN AtMost(MaxOpinions, CoverageOpinions(LatestReport(st, Run), prior) \cup ModelOpinions(st))
    ELSE {{}}
ReviewFeedback(st, O, V) ==
    IF HasReport(st, Run)
    THEN Unique(Unique(RuleFeedback(st, LatestReport(st, Run)), O), VerdictFeedback(V))
    ELSE NoReportFeedback
Reviewed(st, V) ==
    IF HasReport(st, Run) THEN {WithVerdicts(st, W) : W \in FirstOnes(Kept(st, V))} ELSE {st}
Review(st, feedback) ==
    [feedback |-> feedback,
     report   |-> IF HasReport(st, Run) THEN LatestReport(st, Run).id ELSE NoId,
     decision |-> IF Blocking(feedback) # {} THEN "rework" ELSE "stop"]

-----------------------------------------------------------------------------
(* ReworkLoop._prepare_artifact_changes *)

\* _replacement_from_artifact: a copy of the artifact, whatever its status.
Replacement(st, id) ==
    LET old == Get(st, id)
    IN  [old EXCEPT !.id = ReplacementId(id, old.version + 1), !.version = @ + 1,
                    !.sup = id, !.status = "active"]

\* _next_available_replacement_id, for the placeholder of a source that is not stored.
PlaceholderId(st, id) ==
    LET free == {n \in 1..(Len(st) + 1) : ~Stored(st, ReplacementId(id, n))}
    IN  ReplacementId(id, Min(free))

\* Wrong, for a mutant: the claims on reworked sources are kept.
ReportsOnly(agent) == IF agent \in {"collector", "analyst"} THEN {"report"} ELSE {}

\* _reject_downstream: the active artifacts behind the reworked agent.
DownstreamOf(agent) ==
    CASE agent = "collector" -> {"claim", "report"}
      [] agent = "analyst"   -> {"report"}
      [] OTHER               -> {}
DownstreamRejected(st, agent) ==
    [i \in DOMAIN st |-> IF st[i].type \in DownstreamOf(agent) /\ st[i].status = "active"
                         THEN [st[i] EXCEPT !.status = "rejected"] ELSE st[i]]

\* A second replacement of the same artifact would have the id of the first one:
\* the save raises DuplicateArtifactError.
Collides(st, fb) == Stored(st, fb.target) /\ Stored(st, Replacement(st, fb.target).id)

\* Wrong, for a mutant: the artifact is superseded by nothing.
PreparedWithoutReplacement(st, fb) ==
    IF Stored(st, fb.target)
    THEN DownstreamRejected(WithStatus(st, fb.target, "superseded"), fb.agent)
    ELSE DownstreamRejected(st, fb.agent)

Prepared(st, fb) ==
    LET changed ==
            IF Stored(st, fb.target)
            THEN WithStatus(Saved(st, Replacement(st, fb.target)), fb.target, "superseded")
            ELSE IF fb.agent = "collector"
            THEN Saved(st, NewSource(PlaceholderId(st, fb.target)))
            ELSE st
    IN  DownstreamRejected(changed, fb.agent)
=============================================================================
