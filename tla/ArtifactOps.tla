----------------------------- MODULE ArtifactOps -----------------------------
(***************************************************************************)
(* artifacts/store.py: what the operations of the artifact store compute.  *)
(* A store is the sequence of the artifacts in the order they were saved   *)
(* (_run_order); an artifact is a record with at least the fields          *)
(*   id, run, type, version, sup (supersedes_id) and status.               *)
(* The in-memory and the SQLite store have the same semantics.             *)
(***************************************************************************)
EXTENDS Naturals, Sequences, FiniteSets

Types    == {"source", "claim", "report"}
Statuses == {"active", "superseded", "rejected"}

\* _artifact_exists, over all types and runs.
Stored(st, id) == \E i \in DOMAIN st : st[i].id = id

\* get_artifact: whatever its status, with its current status.
Place(st, id) == CHOOSE i \in DOMAIN st : st[i].id = id
Get(st, id)   == st[Place(st, id)]

\* save_source, save_claim, save_report, once _require_new_artifact let them.
Saved(st, a) == Append(st, a)

\* _update_status, of a stored artifact.
WithStatus(st, id, status) == [st EXCEPT ![Place(st, id)].status = status]

\* list_sources, list_claims and list_reports: by default the active ones, in
\* the order they were saved; the places of the artifacts in the store.
Listed(st, run, type, statuses) ==
    {i \in DOMAIN st : st[i].run = run /\ st[i].type = type /\ st[i].status \in statuses}
Active(st, run, type) == Listed(st, run, type, {"active"})

\* get_latest_report: max over the versions, the first saved among equals.
HasReport(st, run) == Active(st, run, "report") # {}
LatestReport(st, run) ==
    LET reports == Active(st, run, "report")
    IN  st[CHOOSE i \in reports : \A j \in reports :
               st[j].version < st[i].version \/ (st[j].version = st[i].version /\ i <= j)]

\* Wrong, for mutants: versions or runs are not compared.
ReplacementOfAnyVersion(st, old, new) ==
    /\ Stored(st, old) /\ Stored(st, new)
    /\ Get(st, new).run = Get(st, old).run /\ Get(st, new).type = Get(st, old).type
    /\ Get(st, new).sup = old
ReplacementOfAnyRun(st, old, new) ==
    /\ Stored(st, old) /\ Stored(st, new)
    /\ Get(st, new).type = Get(st, old).type
    /\ Get(st, new).sup = old /\ Get(st, new).version > Get(st, old).version

\* _validate_replacement; a call it refuses raises and changes nothing.
ValidReplacement(st, old, new) ==
    /\ Stored(st, old) /\ Stored(st, new)
    /\ LET a == Get(st, old)
           b == Get(st, new)
       IN  /\ b.run = a.run
           /\ b.type = a.type
           /\ b.sup = old
           /\ b.version > a.version

-----------------------------------------------------------------------------
(* What a store promises *)

IdsUniqueIn(st) == \A i, j \in DOMAIN st : st[i].id = st[j].id => i = j

\* b is a replacement of a that mark_superseded accepts.
Succeeds(b, a) ==
    b.run = a.run /\ b.type = a.type /\ b.sup = a.id /\ b.version > a.version

\* The history of a superseded artifact can be followed forward.
SuccessorsKept(st) ==
    \A i \in DOMAIN st : st[i].status = "superseded" => \E j \in DOMAIN st : Succeeds(st[j], st[i])

\* A later store still holds what an earlier one held, in the same places: it
\* is what lets list_*(status=None) mint fresh ids by counting.
Remembers(earlier, later) ==
    \A i \in DOMAIN earlier :
        /\ i \in DOMAIN later
        /\ later[i].id = earlier[i].id
        /\ later[i].version = earlier[i].version /\ later[i].sup = earlier[i].sup
        /\ earlier[i].status # "active" => later[i].status # "active"
=============================================================================
