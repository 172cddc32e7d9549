---------------------------- MODULE ArtifactStore ----------------------------
(***************************************************************************)
(* artifacts/store.py as a state machine: any agent may call any operation *)
(* with any arguments, so the store has to keep the lineage of artifacts   *)
(* sound by itself.  A call that raises changes nothing and is no step.    *)
(***************************************************************************)
EXTENDS ArtifactOps

CONSTANTS Ids,          \* artifact ids, global to the store
          NoId,         \* supersedes_id = None
          Runs,         \* run ids
          Versions,     \* the versions callers give their artifacts
          MetaKeys      \* keys of a source's metadata

ASSUME IdsAssumption      == NoId \notin Ids
ASSUME VersionsAssumption == Versions \subseteq Nat

VARIABLE store

\* Every caller saves its artifacts active.
Fresh == [id : Ids, run : Runs, type : Types, version : Versions, sup : Ids \cup {NoId},
          status : {"active"}, meta : {{}}]

Artifact == [id : Ids, run : Runs, type : Types, version : Versions, sup : Ids \cup {NoId},
             status : Statuses, meta : SUBSET MetaKeys]

Init == store = <<>>

\* save_source, save_claim and save_report: ids are unique over all types and
\* runs, supersedes_id is not checked.
Save(a) ==
    /\ ~Stored(store, a.id)
    /\ store' = Saved(store, a)

MarkSuperseded(old, new) ==
    /\ ValidReplacement(store, old, new)
    /\ store' = WithStatus(store, old, "superseded")

\* Wrong, for a mutant: reason and status are swapped.
RejectWithReason(id) ==
    /\ Stored(store, id)
    /\ store' = WithStatus(store, id, "Stale after upstream rework")

\* An artifact of any status, a superseded one included.
MarkRejected(id) ==
    /\ Stored(store, id)
    /\ store' = WithStatus(store, id, "rejected")

\* Wrong, for a mutant: the artifact is saved with the status it was created with.
MetadataResetsStatus(id, extra) ==
    /\ Stored(store, id) /\ Get(store, id).type = "source"
    /\ store' = [store EXCEPT ![Place(store, id)].meta = @ \cup extra,
                              ![Place(store, id)].status = "active"]

\* update_source_metadata merges in place, and ignores what is not a source.
UpdateSourceMetadata(id, extra) ==
    /\ Stored(store, id) /\ Get(store, id).type = "source"
    /\ store' = [store EXCEPT ![Place(store, id)].meta = @ \cup extra]

Next ==
    \/ \E a \in Fresh : Save(a)
    \/ \E old, new \in Ids : MarkSuperseded(old, new)
    \/ \E id \in Ids : MarkRejected(id)
    \/ \E id \in Ids, extra \in SUBSET MetaKeys : UpdateSourceMetadata(id, extra)

Spec == Init /\ [][Next]_store

-----------------------------------------------------------------------------
(* Properties *)

TypeOK == store \in Seq(Artifact)

\* docs/modules/05 "artifact ids are immutable": over every type and run.
IdsUnique == IdsUniqueIn(store)

\* docs/modules/05 "artifact lineage": what mark_superseded hides was replaced by
\* an artifact that is still there, of the same run and type, which points back
\* to it with a greater version, whatever was rejected or replaced since.
LineageAuditable == SuccessorsKept(store)

\* No artifacts hide each other: among superseded artifacts one was replaced by an
\* artifact outside of them, so following replacements always ends at an artifact
\* that is active, or that was rejected for itself.
LineageHasHead ==
    \A S \in SUBSET {i \in DOMAIN store : store[i].status = "superseded"} :
        S # {} => \E i \in S, j \in DOMAIN store \ S : Succeeds(store[j], store[i])

\* docs/modules/05 "rework never overwrites an artifact in place": nothing is lost or
\* renumbered, and what was superseded or rejected never becomes active again.
NothingForgotten == [][Remembers(store, store')]_store
=============================================================================
