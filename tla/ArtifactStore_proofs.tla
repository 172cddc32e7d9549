------------------------ MODULE ArtifactStore_proofs ------------------------
(***************************************************************************)
(* Proofs about ArtifactStore, for every set of ids, runs, versions and    *)
(* metadata keys: ids stay unique, a superseded artifact keeps a valid     *)
(* successor, nothing is lost and nothing retired comes back.              *)
(*                                                                         *)
(* The invariant is inductive because a status becomes superseded only in  *)
(* a step that has just read a valid successor, and because no step takes  *)
(* an artifact, its version or its supersedes_id away again.               *)
(***************************************************************************)
EXTENDS ArtifactStore, NaturalSets, TLAPS

StoreInv == TypeOK /\ IdsUnique /\ LineageAuditable

-----------------------------------------------------------------------------
(* What the operations do to a store *)

LEMMA SavedFacts ==
    ASSUME NEW st \in Seq(Artifact), NEW a \in Artifact
    PROVE  /\ Saved(st, a) \in Seq(Artifact)
           /\ Len(st) \in Nat /\ DOMAIN st = 1..Len(st)
           /\ DOMAIN Saved(st, a) = 1..(Len(st) + 1)
           /\ \A i \in DOMAIN st : i \in DOMAIN Saved(st, a) /\ Saved(st, a)[i] = st[i]
           /\ Saved(st, a)[Len(st) + 1] = a
           /\ \A i \in DOMAIN Saved(st, a) : i \in DOMAIN st \/ i = Len(st) + 1
  BY DEF Saved

\* The place of a stored artifact holds it.
LEMMA PlaceFacts ==
    ASSUME NEW st, NEW id, Stored(st, id)
    PROVE  Place(st, id) \in DOMAIN st /\ st[Place(st, id)].id = id
  BY DEF Stored, Place

\* Changing the status of a stored id leaves the other places and fields alone.
LEMMA WithStatusFacts ==
    ASSUME NEW st \in Seq(Artifact), NEW id, Stored(st, id), NEW s \in Statuses
    PROVE  /\ WithStatus(st, id, s) \in Seq(Artifact)
           /\ DOMAIN WithStatus(st, id, s) = DOMAIN st
           /\ \A i \in DOMAIN st :
                 LET a == st[i]
                     b == WithStatus(st, id, s)[i]
                 IN  /\ b.id = a.id /\ b.run = a.run /\ b.type = a.type
                     /\ b.version = a.version /\ b.sup = a.sup
                     /\ b.status = IF i = Place(st, id) THEN s ELSE a.status
<1> DEFINE new == WithStatus(st, id, s)
           p   == Place(st, id)
<1>1. p \in DOMAIN st
  BY PlaceFacts
<1>2. new = [st EXCEPT ![p] = [st[p] EXCEPT !.status = s]]
  BY DEF WithStatus
<1>3. Len(st) \in Nat /\ DOMAIN st = 1..Len(st) /\ \A i \in DOMAIN st : st[i] \in Artifact
  OBVIOUS
<1> HIDE DEF new, p
<1>4. [st[p] EXCEPT !.status = s] \in Artifact
  BY <1>1, <1>3 DEF Artifact
<1>5. DOMAIN new = DOMAIN st /\ new \in Seq(Artifact)
  BY <1>1, <1>2, <1>4
<1>6. \A i \in DOMAIN st :
          /\ new[i].id = st[i].id /\ new[i].run = st[i].run /\ new[i].type = st[i].type
          /\ new[i].version = st[i].version /\ new[i].sup = st[i].sup
          /\ new[i].status = IF i = p THEN s ELSE st[i].status
  BY <1>1, <1>2, <1>3 DEF Artifact
<1> QED
  BY <1>5, <1>6 DEF new, p

-----------------------------------------------------------------------------
(* Every operation preserves the invariant and forgets nothing *)

LEMMA SavePreserves ==
    ASSUME StoreInv, NEW a \in Fresh, Save(a)
    PROVE  StoreInv' /\ Remembers(store, store')
<1>1. a \in Artifact /\ a.status = "active"
  BY DEF Fresh, Artifact, Statuses
<1>2. store' = Saved(store, a) /\ \A i \in DOMAIN store : store[i].id # a.id
  BY DEF Save, Stored
<1>3. /\ store' \in Seq(Artifact)
      /\ \A i \in DOMAIN store : i \in DOMAIN store' /\ store'[i] = store[i]
      /\ store'[Len(store) + 1] = a
      /\ \A i \in DOMAIN store' : i \in DOMAIN store \/ i = Len(store) + 1
  BY <1>1, <1>2, SavedFacts DEF StoreInv, TypeOK
<1>4. IdsUnique'
  BY <1>2, <1>3 DEF StoreInv, IdsUnique, IdsUniqueIn
<1>5. LineageAuditable'
  <2>1. SUFFICES ASSUME NEW i \in DOMAIN store', store'[i].status = "superseded"
                 PROVE  \E j \in DOMAIN store' : Succeeds(store'[j], store'[i])
    BY DEF LineageAuditable, SuccessorsKept
  <2>2. i \in DOMAIN store /\ store'[i] = store[i]
    BY <1>1, <1>3, <2>1
  <2>3. PICK j \in DOMAIN store : Succeeds(store[j], store[i])
    BY <2>1, <2>2 DEF StoreInv, LineageAuditable, SuccessorsKept
  <2> QED
    BY <1>3, <2>2, <2>3
<1>6. Remembers(store, store')
  BY <1>3 DEF Remembers
<1> QED
  BY <1>3, <1>4, <1>5, <1>6 DEF StoreInv, TypeOK

\* Both status changes: the artifacts are the same but for one status, which is
\* no longer active, and superseded only if a successor is stored.
LEMMA StatusPreserves ==
    ASSUME StoreInv, NEW id, Stored(store, id), NEW s \in {"superseded", "rejected"},
           store' = WithStatus(store, id, s),
           s = "superseded" => \E j \in DOMAIN store : Succeeds(store[j], Get(store, id))
    PROVE  StoreInv' /\ Remembers(store, store')
<1>1. store \in Seq(Artifact) /\ s \in Statuses
  BY DEF StoreInv, TypeOK, Statuses
<1>2. /\ store' \in Seq(Artifact)
      /\ DOMAIN store' = DOMAIN store
      /\ \A i \in DOMAIN store :
            /\ store'[i].id = store[i].id /\ store'[i].run = store[i].run
            /\ store'[i].type = store[i].type /\ store'[i].version = store[i].version
            /\ store'[i].sup = store[i].sup
            /\ store'[i].status = IF i = Place(store, id) THEN s ELSE store[i].status
  BY <1>1, WithStatusFacts
<1>3. IdsUnique'
  BY <1>2 DEF StoreInv, IdsUnique, IdsUniqueIn
<1>4. LineageAuditable'
  <2>1. SUFFICES ASSUME NEW i \in DOMAIN store', store'[i].status = "superseded"
                 PROVE  \E j \in DOMAIN store' : Succeeds(store'[j], store'[i])
    BY DEF LineageAuditable, SuccessorsKept
  <2>2. i \in DOMAIN store /\ (store[i].status = "superseded"
                               \/ (store[i] = Get(store, id) /\ s = "superseded"))
    BY <1>2, <2>1 DEF Get
  <2>3. PICK j \in DOMAIN store : Succeeds(store[j], store[i])
    BY <2>2 DEF StoreInv, LineageAuditable, SuccessorsKept
  <2> QED
    BY <1>2, <2>2, <2>3 DEF Succeeds
<1>5. Remembers(store, store')
  BY <1>2 DEF Remembers
<1> QED
  BY <1>2, <1>3, <1>4, <1>5 DEF StoreInv, TypeOK

LEMMA SupersedePreserves ==
    ASSUME StoreInv, NEW old \in Ids, NEW new \in Ids, MarkSuperseded(old, new)
    PROVE  StoreInv' /\ Remembers(store, store')
<1>1. Stored(store, old) /\ Stored(store, new)
  BY DEF MarkSuperseded, ValidReplacement
<1>2. Get(store, old).id = old
  BY <1>1, PlaceFacts DEF Get
<1>3. Succeeds(Get(store, new), Get(store, old))
  BY <1>2 DEF MarkSuperseded, ValidReplacement, Succeeds
<1>4. \E j \in DOMAIN store : Succeeds(store[j], Get(store, old))
  BY <1>1, <1>3, PlaceFacts DEF Get
<1>5. store' = WithStatus(store, old, "superseded")
  BY DEF MarkSuperseded
<1> QED
  BY <1>1, <1>4, <1>5, StatusPreserves

LEMMA RejectPreserves ==
    ASSUME StoreInv, NEW id \in Ids, MarkRejected(id)
    PROVE  StoreInv' /\ Remembers(store, store')
<1>1. Stored(store, id) /\ store' = WithStatus(store, id, "rejected")
  BY DEF MarkRejected
<1> QED
  BY <1>1, StatusPreserves

LEMMA MetadataPreserves ==
    ASSUME StoreInv, NEW id \in Ids, NEW extra \in SUBSET MetaKeys,
           UpdateSourceMetadata(id, extra)
    PROVE  StoreInv' /\ Remembers(store, store')
<1> DEFINE p == Place(store, id)
           b == [store[p] EXCEPT !.meta = @ \cup extra]
<1>1. p \in DOMAIN store
  BY PlaceFacts DEF UpdateSourceMetadata
<1>2. /\ store \in Seq(Artifact) /\ Len(store) \in Nat /\ DOMAIN store = 1..Len(store)
      /\ \A i \in DOMAIN store : store[i] \in Artifact
  BY DEF StoreInv, TypeOK
<1>3. store' = [store EXCEPT ![p] = b]
  BY DEF UpdateSourceMetadata
<1> HIDE DEF p
<1>4. /\ b \in Artifact
      /\ b.id = store[p].id /\ b.run = store[p].run /\ b.type = store[p].type
      /\ b.version = store[p].version /\ b.sup = store[p].sup /\ b.status = store[p].status
  <2>1. SUFFICES ASSUME NEW a \in Artifact
                 PROVE  LET c == [a EXCEPT !.meta = @ \cup extra]
                        IN  /\ c \in Artifact
                            /\ c.id = a.id /\ c.run = a.run /\ c.type = a.type
                            /\ c.version = a.version /\ c.sup = a.sup /\ c.status = a.status
    BY <1>1, <1>2
  <2>2. a.meta \cup extra \in SUBSET MetaKeys
    BY DEF Artifact
  <2> QED
    BY <2>2 DEF Artifact
<1> HIDE DEF b
<1>5. store' \in Seq(Artifact) /\ DOMAIN store' = DOMAIN store
  BY <1>1, <1>2, <1>3, <1>4
<1>6. \A i \in DOMAIN store :
          /\ store'[i].id = store[i].id /\ store'[i].run = store[i].run
          /\ store'[i].type = store[i].type /\ store'[i].version = store[i].version
          /\ store'[i].sup = store[i].sup /\ store'[i].status = store[i].status
  BY <1>1, <1>2, <1>3, <1>4
<1>7. IdsUnique'
  BY <1>5, <1>6 DEF StoreInv, IdsUnique, IdsUniqueIn
<1>8. LineageAuditable'
  BY <1>5, <1>6 DEF StoreInv, LineageAuditable, SuccessorsKept, Succeeds
<1>9. Remembers(store, store')
  BY <1>5, <1>6 DEF Remembers
<1> QED
  BY <1>5, <1>7, <1>8, <1>9 DEF StoreInv, TypeOK

LEMMA StoreStep == StoreInv /\ Next => StoreInv' /\ Remembers(store, store')
  BY SavePreserves, SupersedePreserves, RejectPreserves, MetadataPreserves DEF Next

-----------------------------------------------------------------------------
(* Versions grow along a lineage, and a finite store has a greatest one, so *)
(* the latest of a set of superseded artifacts has its successor outside    *)

LEMMA VersionsAreNaturals ==
    ASSUME NEW st \in Seq(Artifact)
    PROVE  /\ Len(st) \in Nat /\ DOMAIN st = 1..Len(st)
           /\ \A i \in DOMAIN st : st[i].version \in Nat
<1>1. \A i \in DOMAIN st : st[i] \in Artifact
  OBVIOUS
<1>2. \A a \in Artifact : a.version \in Nat
  BY VersionsAssumption DEF Artifact
<1> QED
  BY <1>1, <1>2

LEMMA VersionsHaveABound ==
    ASSUME NEW st \in Seq(Artifact)
    PROVE  \E b \in Nat : \A i \in DOMAIN st : st[i].version <= b
<1> DEFINE f == [i \in 1..Len(st) |-> st[i].version]
<1>1. Len(st) \in Nat /\ DOMAIN st = 1..Len(st) /\ f \in [1..Len(st) -> Nat]
  BY VersionsAreNaturals
<1> HIDE DEF f
<1>2. \E b \in Nat : \A i \in 1..Len(st) : f[i] <= b
  BY <1>1, BoundOfSequence
<1> QED
  BY <1>1, <1>2 DEF f

-----------------------------------------------------------------------------
(* Theorems *)

\* Whatever its callers do, the store holds well-typed artifacts with unique ids,
\* and every superseded artifact has a stored successor (mark_superseded).
THEOREM StoreInvariant == Spec => []StoreInv
<1>1. Init => StoreInv
  BY DEF Init, StoreInv, TypeOK, IdsUnique, IdsUniqueIn, LineageAuditable, SuccessorsKept
<1>2. StoreInv /\ [Next]_store => StoreInv'
  <2>1. StoreInv /\ UNCHANGED store => StoreInv'
    BY DEF StoreInv, TypeOK, IdsUnique, IdsUniqueIn, LineageAuditable, SuccessorsKept
  <2> QED
    BY <2>1, StoreStep
<1> QED
  BY <1>1, <1>2, PTL DEF Spec

\* save_*, mark_* and update_source_metadata: whatever ids, runs and versions callers give,
\* the store holds artifacts with the statuses and fields the readers expect.
THEOREM TypeCorrect == Spec => []TypeOK
  BY StoreInvariant, PTL DEF StoreInv

\* The lineage of a superseded artifact can always be audited.
THEOREM LineageIsAuditable == Spec => []LineageAuditable
  BY StoreInvariant, PTL DEF StoreInv

\* Superseded artifacts never hide each other: following successors ends at one that
\* is active or was rejected, although mark_superseded only compares two versions.
THEOREM LineageEndsAtAHead == Spec => []LineageHasHead
<1>1. StoreInv => LineageHasHead
  <2> SUFFICES ASSUME StoreInv,
                      NEW S \in SUBSET {i \in DOMAIN store : store[i].status = "superseded"},
                      S # {}
               PROVE  \E i \in S, j \in DOMAIN store \ S : Succeeds(store[j], store[i])
    BY DEF LineageHasHead
  <2>1. /\ store \in Seq(Artifact)
        /\ \A i \in DOMAIN store : store[i].version \in Nat
    BY VersionsAreNaturals DEF StoreInv, TypeOK
  <2> DEFINE V == {store[i].version : i \in S}
  <2>2. V \in SUBSET Nat /\ V # {}
    BY <2>1
  <2>3. PICK b \in Nat : \A i \in DOMAIN store : store[i].version <= b
    BY <2>1, VersionsHaveABound
  <2>4. \A v \in V : v <= b
    BY <2>3
  <2> HIDE DEF V
  <2>5. PICK v \in V : \A w \in V : w <= v
    BY <2>2, <2>4, Greatest
  <2>6. PICK i \in S : store[i].version = v
    BY DEF V
  <2>7. PICK j \in DOMAIN store : Succeeds(store[j], store[i])
    BY DEF StoreInv, LineageAuditable, SuccessorsKept
  <2>8. store[j].version > v /\ v \in Nat
    BY <2>1, <2>6, <2>7 DEF Succeeds
  <2>9. j \notin S
    <3>1. SUFFICES ASSUME j \in S PROVE FALSE
      OBVIOUS
    <3>2. store[j].version \in V
      BY <3>1 DEF V
    <3> QED
      BY <2>1, <2>5, <2>8, <3>2
  <2> QED
    BY <2>7, <2>9
<1> QED
  BY <1>1, StoreInvariant, PTL

\* No operation loses or renumbers an artifact or revives a retired one.
THEOREM StoreNeverForgets == Spec => NothingForgotten
<1>1. StoreInv /\ [Next]_store => [Remembers(store, store')]_store
  BY StoreStep
<1> QED
  BY <1>1, StoreInvariant, PTL DEF Spec, NothingForgotten
=============================================================================
