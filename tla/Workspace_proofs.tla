-------------------------- MODULE Workspace_proofs --------------------------
(***************************************************************************)
(* What holds of a workspace at work for any number of runs, saves and     *)
(* rounds, and of the stores under it for any threads, files and           *)
(* connections.                                                            *)
(*                                                                         *)
(* The stores come first, on their own: what a call has written it finds   *)
(* again in the file or in the open transaction of its connection, and a   *)
(* lock belongs to a transaction with a writer in it, or one that a        *)
(* duplicate left open.  The steps of the workspace's runs, processes and  *)
(* clients are steps of SharedConnection or leave the stores alone, so     *)
(* that holds here too; and what an event lists was saved before it,       *)
(* because a call in progress belongs to a living run and to its own       *)
(* process.                                                                *)
(*                                                                         *)
(* Of runs.json it proves that it tells of every run what is so as long as *)
(* saves follow each other, and that no result gets nearer to the front of *)
(* the list, so that a client that pages over it passes none.              *)
(***************************************************************************)
EXTENDS Workspace, NaturalSets

-----------------------------------------------------------------------------
(* The stores: SharedConnection alone *)

Wrote(t) == call[t].at \in {"check", "commit"}

PendingIsOpen == \A c \in Connections : pending[c] # {} => open[c]

WrittenIsThere ==
    lost \/
    \A t \in Threads :
        Wrote(t) => call[t].row \in stored[File(t)] \cup pending[call[t].conn]

LockIsHeld ==
    \A f \in Files : \A c \in Connections :
        writer[f] = c =>
            /\ FileOf[c] = f
            /\ open[c]
            /\ refused[c] \/ \E t \in Threads : Wrote(t) /\ call[t].conn = c

StoreInv == StoreTypeOK /\ PendingIsOpen /\ WrittenIsThere /\ LockIsHeld /\ SavedSurvives

\* A thread's call in a state of the right types.
LEMMA CallTypes ==
    ASSUME StoreTypeOK, NEW t \in Threads
    PROVE  /\ call[t] \in [at : At, conn : Connections, row : Rows]
           /\ call[t].conn \in Connections /\ call[t].row \in Rows
           /\ File(t) \in Files /\ FileOf[call[t].conn] = File(t)
BY ConnectionsAssumption DEF StoreTypeOK, File

\* Going somewhere in a call changes nothing else of it, nor of the others.
LEMMA GotoKeeps ==
    ASSUME StoreTypeOK, NEW t \in Threads, NEW at \in At, Goto(t, at)
    PROVE  /\ call' \in [Threads -> [at : At, conn : Connections, row : Rows]]
           /\ call'[t].at = at
           /\ \A u \in Threads : call'[u].conn = call[u].conn /\ call'[u].row = call[u].row
           /\ \A u \in Threads : u # t => call'[u] = call[u]
BY DEF StoreTypeOK, Goto

\* An error ends the call, or is lost.
LEMMA RaiseOrLoseGoes ==
    ASSUME StoreTypeOK, NEW t \in Threads, NEW error \in {"raised", "duplicate", "locked"},
           RaiseOrLose(t, error)
    PROVE  /\ call' \in [Threads -> [at : At, conn : Connections, row : Rows]]
           /\ \A u \in Threads : call'[u].conn = call[u].conn /\ call'[u].row = call[u].row
           /\ \A u \in Threads : u # t => call'[u] = call[u]
           /\ lost' = TRUE \/ (lost' = lost /\ call'[t].at = "out")
           /\ lost' \in BOOLEAN
           /\ answer' \in [Threads -> {"saved", "raised", "duplicate", "locked"}]
<1>1. \/ Goto(t, "out") /\ lost' = lost
      \/ Goto(t, "check") /\ lost' = TRUE
  BY DEF RaiseOrLose, Raise
<1>2. answer' \in [Threads -> {"saved", "raised", "duplicate", "locked"}]
  BY DEF RaiseOrLose, Raise, StoreTypeOK
<1>3. lost \in BOOLEAN
  BY DEF StoreTypeOK
<1> QED
  BY <1>1, <1>2, <1>3, GotoKeeps DEF At

LEMMA InitEstablishes == StoreInit => StoreInv
<1> SUFFICES ASSUME NEW c0 \in Connections, NEW x0 \in Rows, InitStores(c0, x0)
             PROVE  StoreInv
  BY DEF StoreInit
<1>1. StoreTypeOK
  BY DEF InitStores, StoreTypeOK, At
<1>2. PendingIsOpen
  BY DEF InitStores, PendingIsOpen
<1>3. WrittenIsThere
  BY DEF InitStores, WrittenIsThere, Wrote
<1>4. LockIsHeld
  BY ConnectionsAssumption DEF InitStores, LockIsHeld
<1>5. SavedSurvives
  BY DEF InitStores, SavedSurvives
<1> QED
  BY <1>1, <1>2, <1>3, <1>4, <1>5 DEF StoreInv

-----------------------------------------------------------------------------
(* Each step keeps the invariant *)

LEMMA CallKeeps ==
    ASSUME StoreInv, NEW t \in Threads, NEW c \in Connections, NEW x \in Rows, Call(t, c, x)
    PROVE  StoreInv'
<1> USE DEF StoreInv
<1>1. /\ call' \in [Threads -> [at : At, conn : Connections, row : Rows]]
      /\ ~Wrote(t)'
      /\ \A u \in Threads : u # t => call'[u] = call[u]
  BY DEF Call, StoreTypeOK, At, Wrote
<1>2. ~Wrote(t)
  BY DEF Call, Wrote
<1>3. StoreTypeOK'
  BY <1>1 DEF Call, StoreTypeOK
<1>4. PendingIsOpen'
  BY DEF Call, PendingIsOpen
<1>5. WrittenIsThere'
  BY <1>1 DEF Call, WrittenIsThere, Wrote, File
<1>6. LockIsHeld'
  BY <1>1, <1>2 DEF Call, LockIsHeld, Wrote
<1>7. SavedSurvives'
  BY DEF Call, SavedSurvives
<1> QED
  BY <1>3, <1>4, <1>5, <1>6, <1>7

LEMMA BeginKeeps ==
    ASSUME StoreInv, NEW t \in Threads, Begin(t)
    PROVE  StoreInv'
<1> USE DEF StoreInv
<1> DEFINE c == call[t].conn
<1>0. c \in Connections /\ ~Wrote(t)
  BY CallTypes DEF Begin, Wrote
<1>1. CASE ~open[c]
  <2>1. Goto(t, "write")
    BY <1>1 DEF Begin
  <2>2. /\ call' \in [Threads -> [at : At, conn : Connections, row : Rows]]
        /\ call'[t].at = "write"
        /\ \A u \in Threads : call'[u].conn = call[u].conn /\ call'[u].row = call[u].row
        /\ \A u \in Threads : u # t => call'[u] = call[u]
    BY <2>1, GotoKeeps DEF At
  <2>3. /\ open' = [open EXCEPT ![c] = TRUE] /\ refused' = [refused EXCEPT ![c] = FALSE]
        /\ UNCHANGED <<answer, lost, stored, writer, pending, saved>>
    BY <1>1 DEF Begin
  <2>4. StoreTypeOK'
    BY <1>0, <2>2, <2>3 DEF StoreTypeOK
  <2>5. PendingIsOpen'
    BY <1>0, <2>3 DEF PendingIsOpen, StoreTypeOK
  <2>6. WrittenIsThere'
    BY <2>2, <2>3 DEF WrittenIsThere, Wrote, File
  <2>7. \A f \in Files : writer[f] # c
    BY <1>0, <1>1 DEF LockIsHeld
  <2>8. LockIsHeld'
    BY <1>0, <2>2, <2>3, <2>7 DEF LockIsHeld, Wrote, StoreTypeOK
  <2>9. SavedSurvives'
    BY <2>3 DEF SavedSurvives
  <2> QED
    BY <2>4, <2>5, <2>6, <2>8, <2>9
<1>2. CASE open[c]
  <2>1. RaiseOrLose(t, "raised") /\ UNCHANGED <<open, refused, stored, writer, pending, saved>>
    BY <1>2 DEF Begin
  <2>2. /\ call' \in [Threads -> [at : At, conn : Connections, row : Rows]]
        /\ \A u \in Threads : call'[u].conn = call[u].conn /\ call'[u].row = call[u].row
        /\ \A u \in Threads : u # t => call'[u] = call[u]
        /\ lost' = TRUE \/ (lost' = lost /\ call'[t].at = "out")
        /\ lost' \in BOOLEAN
        /\ answer' \in [Threads -> {"saved", "raised", "duplicate", "locked"}]
    BY <2>1, RaiseOrLoseGoes
  <2>4. StoreTypeOK'
    BY <2>1, <2>2 DEF StoreTypeOK
  <2>5. PendingIsOpen'
    BY <2>1 DEF PendingIsOpen
  <2>6. WrittenIsThere'
    BY <2>1, <2>2 DEF WrittenIsThere, Wrote, File
  <2>7. LockIsHeld'
    BY <1>0, <2>1, <2>2 DEF LockIsHeld, Wrote
  <2>8. SavedSurvives'
    BY <2>1, <2>2 DEF SavedSurvives
  <2> QED
    BY <2>4, <2>5, <2>6, <2>7, <2>8
<1> QED
  BY <1>1, <1>2

LEMMA WriteKeeps ==
    ASSUME StoreInv, NEW t \in Threads, Write(t)
    PROVE  StoreInv'
<1> USE DEF StoreInv
<1> DEFINE c == call[t].conn
           x == call[t].row
           f == File(t)
<1>1. c \in Connections /\ x \in Rows /\ f \in Files /\ FileOf[c] = f /\ ~Wrote(t)
  BY CallTypes DEF Write, Wrote
<1>2. /\ call' \in [Threads -> [at : At, conn : Connections, row : Rows]]
      /\ call'[t].at = "check"
      /\ \A u \in Threads : call'[u].conn = call[u].conn /\ call'[u].row = call[u].row
      /\ \A u \in Threads : u # t => call'[u] = call[u]
  BY GotoKeeps DEF Write, At
<1>3. UNCHANGED <<open, answer, saved, refused, lost>>
  BY DEF Write
<1>4. CASE open[c]
  <2>1. /\ pending' = [pending EXCEPT ![c] = @ \cup {x}]
        /\ writer' = [writer EXCEPT ![f] = c]
        /\ stored' = stored
    BY <1>4 DEF Write
  <2>2. StoreTypeOK'
    BY <1>1, <1>2, <1>3, <2>1 DEF StoreTypeOK
  <2>3. PendingIsOpen'
    BY <1>1, <1>3, <1>4, <2>1 DEF PendingIsOpen, StoreTypeOK
  <2>4. x \in pending'[c] /\ \A d \in Connections : pending[d] \subseteq pending'[d]
    BY <1>1, <2>1 DEF StoreTypeOK
  <2>5. ASSUME ~lost, NEW u \in Threads, Wrote(u)'
        PROVE  call'[u].row \in stored'[File(u)'] \cup pending'[call'[u].conn]
    <3>1. CASE u = t
      BY <1>2, <2>4, <3>1
    <3>2. CASE u # t
      <4>1. Wrote(u) /\ call'[u] = call[u] /\ File(u)' = File(u)
        BY <1>2, <2>5, <3>2 DEF Wrote, File
      <4>2. call[u].row \in stored[File(u)] \cup pending[call[u].conn]
        BY <2>5, <4>1 DEF WrittenIsThere
      <4> QED
        BY <2>1, <2>4, <4>1, <4>2, CallTypes
    <3> QED
      BY <3>1, <3>2
  <2>6. WrittenIsThere'
    BY <1>3, <2>5 DEF WrittenIsThere
  <2>7. LockIsHeld'
    BY <1>1, <1>2, <1>3, <1>4, <2>1 DEF LockIsHeld, Wrote, StoreTypeOK
  <2>8. SavedSurvives'
    BY <1>3, <2>1 DEF SavedSurvives
  <2> QED
    BY <2>2, <2>3, <2>6, <2>7, <2>8
<1>5. CASE ~open[c]
  <2>1. /\ stored' = [stored EXCEPT ![f] = @ \cup {x}]
        /\ UNCHANGED <<pending, writer>>
    BY <1>5 DEF Write
  <2>2. StoreTypeOK'
    BY <1>1, <1>2, <1>3, <2>1 DEF StoreTypeOK
  <2>3. PendingIsOpen'
    BY <1>3, <2>1 DEF PendingIsOpen
  <2>4. x \in stored'[f] /\ \A g \in Files : stored[g] \subseteq stored'[g]
    BY <1>1, <2>1 DEF StoreTypeOK
  <2>5. ASSUME ~lost, NEW u \in Threads, Wrote(u)'
        PROVE  call'[u].row \in stored'[File(u)'] \cup pending'[call'[u].conn]
    <3>0. File(u)' = File(u)
      BY <1>2 DEF File
    <3>1. CASE u = t
      BY <1>2, <2>4, <3>0, <3>1
    <3>2. CASE u # t
      <4>1. Wrote(u) /\ call'[u] = call[u]
        BY <1>2, <2>5, <3>2 DEF Wrote
      <4>2. call[u].row \in stored[File(u)] \cup pending[call[u].conn]
        BY <2>5, <4>1 DEF WrittenIsThere
      <4> QED
        BY <2>1, <2>4, <3>0, <4>1, <4>2, CallTypes
    <3> QED
      BY <3>1, <3>2
  <2>6. WrittenIsThere'
    BY <1>3, <2>5 DEF WrittenIsThere
  <2>7. LockIsHeld'
    BY <1>1, <1>2, <1>3, <2>1 DEF LockIsHeld, Wrote
  <2>8. SavedSurvives'
    BY <1>3, <2>4 DEF SavedSurvives
  <2> QED
    BY <2>2, <2>3, <2>6, <2>7, <2>8
<1> QED
  BY <1>4, <1>5

LEMMA WriteDuplicateKeeps ==
    ASSUME StoreInv, NEW t \in Threads, WriteDuplicate(t)
    PROVE  StoreInv'
<1> USE DEF StoreInv
<1> DEFINE c == call[t].conn
           f == File(t)
<1>1. c \in Connections /\ f \in Files /\ FileOf[c] = f /\ ~Wrote(t)
  BY CallTypes DEF WriteDuplicate, Wrote
<1>2. RaiseOrLose(t, "duplicate") /\ UNCHANGED <<stored, open, pending, saved>>
  BY DEF WriteDuplicate
<1>3. /\ call' \in [Threads -> [at : At, conn : Connections, row : Rows]]
      /\ \A u \in Threads : call'[u].conn = call[u].conn /\ call'[u].row = call[u].row
      /\ \A u \in Threads : u # t => call'[u] = call[u]
      /\ lost' = TRUE \/ (lost' = lost /\ call'[t].at = "out")
      /\ lost' \in BOOLEAN
      /\ answer' \in [Threads -> {"saved", "raised", "duplicate", "locked"}]
  BY <1>2, RaiseOrLoseGoes
<1>4. \/ /\ open[c]
         /\ writer' = [writer EXCEPT ![f] = c] /\ refused' = [refused EXCEPT ![c] = TRUE]
      \/ UNCHANGED <<writer, refused>>
  BY DEF WriteDuplicate
<1>5. StoreTypeOK'
  BY <1>1, <1>2, <1>3, <1>4 DEF StoreTypeOK
<1>6. PendingIsOpen'
  BY <1>2 DEF PendingIsOpen
<1>7. WrittenIsThere'
  BY <1>2, <1>3 DEF WrittenIsThere, Wrote, File
<1>8. ASSUME NEW g \in Files, NEW d \in Connections, writer'[g] = d
      PROVE  /\ FileOf[d] = g
             /\ open'[d]
             /\ refused'[d] \/ \E u \in Threads : Wrote(u)' /\ call'[u].conn = d
  <2>1. CASE writer[g] = d
    <3>1. /\ FileOf[d] = g /\ open'[d]
          /\ refused[d] \/ \E u \in Threads : Wrote(u) /\ call[u].conn = d
      BY <1>2, <2>1 DEF LockIsHeld
    <3>2. refused[d] => refused'[d]
      BY <1>1, <1>4 DEF StoreTypeOK
    <3>3. \A u \in Threads : Wrote(u) => Wrote(u)' /\ call'[u].conn = call[u].conn
      BY <1>1, <1>3 DEF Wrote
    <3> QED
      BY <3>1, <3>2, <3>3
  <2>2. CASE writer[g] # d
    <3>1. g = f /\ d = c /\ open[c] /\ refused' = [refused EXCEPT ![c] = TRUE]
      BY <1>1, <1>4, <1>8, <2>2 DEF StoreTypeOK
    <3> QED
      BY <1>1, <1>2, <3>1 DEF StoreTypeOK
  <2> QED
    BY <2>1, <2>2
<1>9. SavedSurvives'
  BY <1>2, <1>3 DEF SavedSurvives
<1> QED
  BY <1>5, <1>6, <1>7, <1>8, <1>9 DEF LockIsHeld

LEMMA WriteLockedKeeps ==
    ASSUME StoreInv, NEW t \in Threads, WriteLocked(t)
    PROVE  StoreInv'
<1> USE DEF StoreInv
<1>1. /\ RaiseOrLose(t, "locked")
      /\ UNCHANGED <<stored, writer, open, pending, saved, refused>>
      /\ ~Wrote(t)
  BY DEF WriteLocked, Wrote
<1>2. /\ call' \in [Threads -> [at : At, conn : Connections, row : Rows]]
      /\ \A u \in Threads : call'[u].conn = call[u].conn /\ call'[u].row = call[u].row
      /\ \A u \in Threads : u # t => call'[u] = call[u]
      /\ lost' = TRUE \/ (lost' = lost /\ call'[t].at = "out")
      /\ lost' \in BOOLEAN
      /\ answer' \in [Threads -> {"saved", "raised", "duplicate", "locked"}]
  BY <1>1, RaiseOrLoseGoes
<1>3. StoreTypeOK'
  BY <1>1, <1>2 DEF StoreTypeOK
<1>4. PendingIsOpen'
  BY <1>1 DEF PendingIsOpen
<1>5. WrittenIsThere'
  BY <1>1, <1>2 DEF WrittenIsThere, Wrote, File
<1>6. LockIsHeld'
  <2>1. \A u \in Threads : Wrote(u) => Wrote(u)' /\ call'[u].conn = call[u].conn
    BY <1>1, <1>2 DEF Wrote
  <2> QED
    BY <1>1, <2>1 DEF LockIsHeld
<1>7. SavedSurvives'
  BY <1>1, <1>2 DEF SavedSurvives
<1> QED
  BY <1>3, <1>4, <1>5, <1>6, <1>7

LEMMA CheckKeeps ==
    ASSUME StoreInv, NEW t \in Threads, Check(t)
    PROVE  StoreInv'
<1> USE DEF StoreInv
<1> DEFINE c == call[t].conn
           x == call[t].row
           f == File(t)
<1>1. c \in Connections /\ x \in Rows /\ f \in Files /\ FileOf[c] = f /\ Wrote(t)
  BY CallTypes DEF Check, Wrote
<1>2. UNCHANGED <<stored, writer, open, pending, refused, lost>>
  BY DEF Check
<1>3. CASE open[c]
  <2>1. Goto(t, "commit") /\ UNCHANGED <<answer, saved>>
    BY <1>3 DEF Check
  <2>2. /\ call' \in [Threads -> [at : At, conn : Connections, row : Rows]]
        /\ \A u \in Threads : call'[u].conn = call[u].conn /\ call'[u].row = call[u].row
        /\ \A u \in Threads : u # t => call'[u] = call[u]
        /\ call'[t].at = "commit"
    BY <2>1, GotoKeeps DEF At
  <2>3. \A u \in Threads : Wrote(u)' <=> Wrote(u)
    BY <1>1, <2>2 DEF Wrote
  <2>4. StoreTypeOK'
    BY <1>2, <2>1, <2>2 DEF StoreTypeOK
  <2>5. PendingIsOpen' /\ SavedSurvives'
    BY <1>2, <2>1 DEF PendingIsOpen, SavedSurvives
  <2>6. WrittenIsThere'
    BY <1>2, <2>2, <2>3 DEF WrittenIsThere, File
  <2>7. LockIsHeld'
    BY <1>2, <2>2, <2>3 DEF LockIsHeld
  <2> QED
    BY <2>4, <2>5, <2>6, <2>7
<1>4. CASE ~open[c]
  <2>1. /\ Goto(t, "out")
        /\ answer' = [answer EXCEPT ![t] = "saved"]
        /\ saved' = [saved EXCEPT ![f] = @ \cup {x}]
    BY <1>4 DEF Check, Return
  <2>2. /\ call' \in [Threads -> [at : At, conn : Connections, row : Rows]]
        /\ \A u \in Threads : call'[u].conn = call[u].conn /\ call'[u].row = call[u].row
        /\ \A u \in Threads : u # t => call'[u] = call[u]
        /\ call'[t].at = "out"
    BY <2>1, GotoKeeps DEF At
  <2>3. StoreTypeOK'
    BY <1>1, <1>2, <2>1, <2>2 DEF StoreTypeOK
  <2>4. PendingIsOpen'
    BY <1>2 DEF PendingIsOpen
  <2>5. WrittenIsThere'
    BY <1>2, <2>2 DEF WrittenIsThere, Wrote, File
  <2>6. \A g \in Files : writer[g] # c
    BY <1>1, <1>4 DEF LockIsHeld
  <2>7. LockIsHeld'
    BY <1>2, <2>2, <2>6 DEF LockIsHeld, Wrote
  <2>8. ~lost => x \in stored[f]
    BY <1>1, <1>4 DEF WrittenIsThere, PendingIsOpen
  <2>9. SavedSurvives'
    BY <1>1, <1>2, <2>1, <2>8 DEF SavedSurvives, StoreTypeOK
  <2> QED
    BY <2>3, <2>4, <2>5, <2>7, <2>9
<1> QED
  BY <1>3, <1>4

LEMMA CommitKeeps ==
    ASSUME StoreInv, NEW t \in Threads, Commit(t)
    PROVE  StoreInv'
<1> USE DEF StoreInv
<1> DEFINE c == call[t].conn
           x == call[t].row
           f == File(t)
<1>1. c \in Connections /\ x \in Rows /\ f \in Files /\ FileOf[c] = f /\ Wrote(t)
  BY CallTypes DEF Commit, Wrote
<1>2. Goto(t, "out") /\ lost' = lost
  BY DEF Commit, Return, Raise
<1>3. /\ call' \in [Threads -> [at : At, conn : Connections, row : Rows]]
      /\ \A u \in Threads : call'[u].conn = call[u].conn /\ call'[u].row = call[u].row
      /\ \A u \in Threads : u # t => call'[u] = call[u]
      /\ call'[t].at = "out"
  BY <1>2, GotoKeeps DEF At
<1>4. CASE open[c]
  <2>1. /\ stored' = [stored EXCEPT ![f] = @ \cup pending[c]]
        /\ writer' = [writer EXCEPT ![f] = IF @ = c THEN NoConnection ELSE @]
        /\ open' = [open EXCEPT ![c] = FALSE]
        /\ pending' = [pending EXCEPT ![c] = {}]
        /\ refused' = [refused EXCEPT ![c] = FALSE]
        /\ answer' = [answer EXCEPT ![t] = "saved"]
        /\ saved' = [saved EXCEPT ![f] = @ \cup {x}]
    BY <1>4 DEF Commit, Return
  <2>2. StoreTypeOK'
    BY <1>1, <1>2, <1>3, <2>1 DEF StoreTypeOK
  <2>3. PendingIsOpen'
    BY <1>1, <2>1 DEF PendingIsOpen, StoreTypeOK
  <2>4. ASSUME ~lost, NEW u \in Threads, Wrote(u)
        PROVE  call[u].row \in stored'[File(u)] \cup pending'[call[u].conn]
    <3>1. call[u].row \in stored[File(u)] \cup pending[call[u].conn]
      BY <2>4 DEF WrittenIsThere
    <3>2. CASE call[u].conn = c
      BY <1>1, <2>1, <3>1, <3>2 DEF File, StoreTypeOK
    <3>3. CASE call[u].conn # c
      BY <1>1, <2>1, <3>1, <3>3, CallTypes DEF StoreTypeOK
    <3> QED
      BY <3>2, <3>3
  <2>5. ASSUME ~lost, NEW u \in Threads, Wrote(u)'
        PROVE  call'[u].row \in stored'[File(u)'] \cup pending'[call'[u].conn]
    <3>1. Wrote(u) /\ File(u)' = File(u)
      BY <1>3, <2>5 DEF Wrote, File
    <3> QED
      BY <1>3, <2>4, <2>5, <3>1
  <2>6. WrittenIsThere'
    BY <1>2, <2>5 DEF WrittenIsThere
  <2>7. ASSUME NEW g \in Files, NEW d \in Connections, writer'[g] = d
        PROVE  /\ FileOf[d] = g
               /\ open'[d]
               /\ refused'[d] \/ \E u \in Threads : Wrote(u)' /\ call'[u].conn = d
    <3>1. d # NoConnection
      BY ConnectionsAssumption
    <3>2. writer[g] = d
      BY <1>1, <2>1, <2>7, <3>1 DEF StoreTypeOK
    <3>3. /\ FileOf[d] = g /\ open[d]
          /\ refused[d] \/ \E u \in Threads : Wrote(u) /\ call[u].conn = d
      BY <3>2 DEF LockIsHeld
    <3>4. d # c
      BY <1>1, <2>1, <2>7, <3>1, <3>2, <3>3 DEF StoreTypeOK
    <3>5. open'[d] /\ refused'[d] = refused[d]
      BY <1>1, <2>1, <3>3, <3>4 DEF StoreTypeOK
    <3>6. \A u \in Threads : Wrote(u) /\ call[u].conn = d => Wrote(u)' /\ call'[u].conn = d
      BY <1>3, <3>4 DEF Wrote
    <3> QED
      BY <3>3, <3>5, <3>6
  <2>8. LockIsHeld'
    BY <2>7 DEF LockIsHeld
  <2>9. ~lost => x \in stored'[f]
    <3>1. ~lost => x \in stored[f] \cup pending[c]
      BY <1>1 DEF WrittenIsThere
    <3> QED
      BY <1>1, <2>1, <3>1 DEF StoreTypeOK
  <2>10. SavedSurvives'
    BY <1>1, <1>2, <2>1, <2>9 DEF SavedSurvives, StoreTypeOK
  <2> QED
    BY <2>2, <2>3, <2>6, <2>8, <2>10
<1>5. CASE ~open[c]
  <2>1. /\ answer' = [answer EXCEPT ![t] = "raised"]
        /\ UNCHANGED <<stored, writer, open, pending, saved, refused>>
    BY <1>5 DEF Commit, Raise
  <2>2. StoreTypeOK'
    BY <1>2, <1>3, <2>1 DEF StoreTypeOK
  <2>3. PendingIsOpen' /\ SavedSurvives'
    BY <1>2, <2>1 DEF PendingIsOpen, SavedSurvives
  <2>4. WrittenIsThere'
    BY <1>2, <1>3, <2>1 DEF WrittenIsThere, Wrote, File
  <2>5. \A g \in Files : writer[g] # c
    BY <1>1, <1>5 DEF LockIsHeld
  <2>6. LockIsHeld'
    BY <1>3, <2>1, <2>5 DEF LockIsHeld, Wrote
  <2> QED
    BY <2>2, <2>3, <2>4, <2>6
<1> QED
  BY <1>4, <1>5

LEMMA DisconnectKeeps ==
    ASSUME StoreInv, NEW conns \in SUBSET Connections, Disconnect(conns)
    PROVE  StoreInv'
<1> USE DEF StoreInv
<1>1. /\ open' = [c \in Connections |-> open[c] /\ c \notin conns]
      /\ pending' = [c \in Connections |-> IF c \in conns THEN {} ELSE pending[c]]
      /\ refused' = [c \in Connections |-> refused[c] /\ c \notin conns]
      /\ writer' = [f \in Files |-> IF writer[f] \in conns THEN NoConnection ELSE writer[f]]
      /\ UNCHANGED <<stored, answer, saved, lost>>
  BY DEF Disconnect
<1>2. /\ call' \in [Threads -> [at : At, conn : Connections, row : Rows]]
      /\ \A u \in Threads : call'[u].conn = call[u].conn /\ call'[u].row = call[u].row
      /\ \A u \in Threads : call[u].conn \in conns => call'[u].at = "out"
      /\ \A u \in Threads : call[u].conn \notin conns => call'[u] = call[u]
  BY DEF Disconnect, StoreTypeOK, At
<1>3. StoreTypeOK'
  BY <1>1, <1>2 DEF StoreTypeOK
<1>4. PendingIsOpen' /\ SavedSurvives'
  BY <1>1 DEF PendingIsOpen, SavedSurvives
<1>5. ASSUME ~lost, NEW u \in Threads, Wrote(u)'
      PROVE  call'[u].row \in stored'[File(u)'] \cup pending'[call'[u].conn]
  <2>1. call[u].conn \notin conns /\ Wrote(u) /\ File(u)' = File(u)
    BY <1>2, <1>5 DEF Wrote, File
  <2>2. call[u].row \in stored[File(u)] \cup pending[call[u].conn]
    BY <1>5, <2>1 DEF WrittenIsThere
  <2> QED
    BY <1>1, <1>2, <2>1, <2>2, CallTypes
<1>6. WrittenIsThere'
  BY <1>1, <1>5 DEF WrittenIsThere
<1>7. ASSUME NEW g \in Files, NEW d \in Connections, writer'[g] = d
      PROVE  /\ FileOf[d] = g
             /\ open'[d]
             /\ refused'[d] \/ \E u \in Threads : Wrote(u)' /\ call'[u].conn = d
  <2>1. d # NoConnection
    BY ConnectionsAssumption
  <2>2. writer[g] = d /\ d \notin conns
    BY <1>1, <1>7, <2>1
  <2>3. /\ FileOf[d] = g /\ open[d]
        /\ refused[d] \/ \E u \in Threads : Wrote(u) /\ call[u].conn = d
    BY <2>2 DEF LockIsHeld
  <2>4. open'[d] /\ (refused[d] => refused'[d])
    BY <1>1, <2>2, <2>3
  <2>5. \A u \in Threads : Wrote(u) /\ call[u].conn = d => Wrote(u)' /\ call'[u].conn = d
    BY <1>2, <2>2 DEF Wrote
  <2> QED
    BY <2>3, <2>4, <2>5
<1>8. LockIsHeld'
  BY <1>7 DEF LockIsHeld
<1> QED
  BY <1>3, <1>4, <1>6, <1>8

-----------------------------------------------------------------------------
(* The theorems *)

LEMMA StoreInvStep == StoreInv /\ [StoreNext]_storeVars => StoreInv'
<1> SUFFICES ASSUME StoreInv, [StoreNext]_storeVars PROVE StoreInv'
  OBVIOUS
<1>1. CASE \E t \in Threads : StoreStep(t)
  BY <1>1, BeginKeeps, WriteKeeps, WriteDuplicateKeeps, WriteLockedKeeps, CheckKeeps,
     CommitKeeps DEF StoreStep
<1>2. CASE \E t \in Threads, c \in Connections, x \in Rows : Call(t, c, x)
  BY <1>2, CallKeeps
<1>3. CASE \E conns \in SUBSET Connections : Disconnect(conns)
  BY <1>3, DisconnectKeeps
<1>4. CASE UNCHANGED storeVars
  BY <1>4 DEF storeVars, StoreInv, StoreTypeOK, PendingIsOpen, WrittenIsThere, LockIsHeld,
     SavedSurvives, Wrote, File
<1> QED
  BY <1>1, <1>2, <1>3, <1>4 DEF StoreNext

\* StoreInv is inductive: whatever the threads do, in whatever order.
THEOREM StoreInvariant == StoreSpec => []StoreInv
<1> QED
  BY InitEstablishes, StoreInvStep, PTL DEF StoreSpec

\* What a store call of either store returned for is in its file, through interleaved
\* calls on shared connections and the end of any process, unless sqlite3 lost an error.
THEOREM SavedIsDurable == StoreSpec => []SavedSurvives
<1>1. StoreInv => SavedSurvives
  BY DEF StoreInv
<1> QED
  BY <1>1, StoreInvariant, PTL

LEMMA LocksExplained == StoreInv => LockExplained
<1> SUFFICES ASSUME StoreInv, NEW f \in Files, writer[f] # NoConnection
             PROVE  Used(writer[f]) \/ refused[writer[f]]
  BY DEF LockExplained
<1>1. writer[f] \in Connections
  BY DEF StoreInv, StoreTypeOK
<1>2. refused[writer[f]] \/ \E t \in Threads : Wrote(t) /\ call[t].conn = writer[f]
  BY <1>1 DEF StoreInv, LockIsHeld
<1> QED
  BY <1>2 DEF Used, InCall, Wrote

\* A write lock that outlives the calls is one that a refused duplicate left behind.
THEOREM OnlyDuplicatesKeepTheLock == StoreSpec => []LockExplained
<1> QED
  BY LocksExplained, StoreInvariant, PTL

-----------------------------------------------------------------------------
(* The runs of the workspace *)

Modes == {"none", "background", "inline", "cli"}

RunTypes ==
    /\ pc \in [Runs -> Steps]
    /\ mode \in [Runs -> Modes]
    /\ saves \in [Runs -> Nat]
    /\ doing \in [Runs -> {"begin", "save", "append"}]
    /\ outputs \in [Runs -> SUBSET Rows]

\* Only a run at work is in a call, and on a connection of its own process.
OwnCalls ==
    \A r \in Runs :
        call[r].at # "out" => pc[r] = "running" /\ call[r].conn \in ConnectionsOf(Process(r))

SavesArtifacts == \A r \in Runs : doing[r] = "save" => FileOf[call[r].conn] = "artifacts"

\* The artifact of a save that returned, unless the process of the run was killed.
SaveReturned(r) ==
    pc[r] # "died" /\ call[r].at = "out" /\ doing[r] = "save" /\ answer[r] = "saved"
OutputsSaved ==
    \A r \in Runs :
        /\ outputs[r] \subseteq saved["artifacts"]
        /\ SaveReturned(r) => call[r].row \in saved["artifacts"]

RoundInv == RunTypes /\ OwnCalls /\ SavesArtifacts /\ OutputsSaved

WorkspaceInv == StoreInv /\ RoundInv

LEMMA Own ==
    ASSUME NEW r \in Runs, NEW f \in Files
    PROVE  /\ On(r, f) \in Connections /\ On(r, f) \in ConnectionsOf(Process(r))
           /\ FileOf[On(r, f)] = f
BY WorkspaceAssumption DEF On, Process, ConnectionsOf, Processes

\* The connections of two processes have nothing in common.
LEMMA ProcessesApart ==
    ASSUME NEW p, NEW q, NEW c \in ConnectionsOf(p), c \in ConnectionsOf(q)
    PROVE  p = q
BY DEF ConnectionsOf

-----------------------------------------------------------------------------
(* Every step is one of the stores *)

LEMMA WorkspaceInitEstablishes == WorkspaceInit => StoreInit /\ RoundInv
<1> SUFFICES ASSUME WorkspaceInit PROVE StoreInit /\ RoundInv
  OBVIOUS
<1> DEFINE r0 == CHOOSE r \in Runs : TRUE
<1>1. r0 \in Runs
  BY WorkspaceAssumption
<1>2. InitStores(<<Server, "artifacts">>, <<r0, 1>>)
  BY DEF WorkspaceInit
<1>3. <<Server, "artifacts">> \in Connections
  BY WorkspaceAssumption DEF Processes
<1>4. <<r0, 1>> \in Rows
  BY <1>1, WorkspaceAssumption
<1>5. StoreInit
  BY <1>2, <1>3, <1>4 DEF StoreInit
<1>6. RunTypes
  BY DEF WorkspaceInit, Init, RunTypes, Steps, Modes
<1>7. \A r \in Runs : doing[r] = "begin" /\ outputs[r] = {}
  BY DEF WorkspaceInit
<1>8. \A r \in Runs : call[r].at = "out"
  <2>1. call = [t \in Runs |-> [at |-> "out", conn |-> <<Server, "artifacts">>, row |-> <<r0, 1>>]]
    BY <1>2, WorkspaceAssumption DEF InitStores
  <2> QED
    BY <2>1
<1> QED
  BY <1>5, <1>6, <1>7, <1>8 DEF RoundInv, OwnCalls, SavesArtifacts, OutputsSaved, SaveReturned

\* The rows a run saves are its own.
LEMMA RowsOfARun ==
    ASSUME NEW r \in Runs, NEW n \in 1..MaxSaves[r]
    PROVE  <<r, n>> \in Rows
BY WorkspaceAssumption

LEMMA SaveCalls ==
    ASSUME RunTypes, NEW r \in Runs, Save(r)
    PROVE  \E x \in Rows : Call(r, On(r, "artifacts"), x)
<1>1. PICK n \in 1..(saves[r] + 1) : Call(r, On(r, "artifacts"), <<r, n>>)
  BY DEF Save
<1>2. saves[r] \in Nat /\ MaxSaves[r] \in Nat /\ saves[r] < MaxSaves[r]
  BY WorkspaceAssumption DEF Save, RunTypes
<1>3. n \in 1..MaxSaves[r]
  BY <1>2
<1> QED
  BY <1>1, <1>3, RowsOfARun

LEMMA AppendCalls ==
    ASSUME NEW r \in Runs, AppendEvent(r)
    PROVE  \E x \in Rows : Call(r, On(r, "journal"), x)
<1>1. MaxSaves[r] \in Nat \ {0}
  BY WorkspaceAssumption
<1>2. <<r, 1>> \in Rows
  BY <1>1, RowsOfARun
<1> QED
  BY <1>2 DEF AppendEvent

LEMMA StepOfTheStores == RunTypes /\ [WorkspaceNext]_wsVars => [StoreNext]_storeVars
<1> SUFFICES ASSUME RunTypes, [WorkspaceNext]_wsVars PROVE [StoreNext]_storeVars
  OBVIOUS
<1>1. CASE UNCHANGED wsVars
  BY <1>1 DEF wsVars
<1>2. ASSUME NEW r \in Runs, RunStep(r) PROVE [StoreNext]_storeVars
  <2>1. CASE Save(r)
    BY <2>1, SaveCalls, Own, WorkspaceAssumption DEF StoreNext
  <2>2. CASE AppendEvent(r)
    BY <2>2, AppendCalls, Own, WorkspaceAssumption DEF StoreNext
  <2>3. CASE StoreStep(r)
    BY <2>3, WorkspaceAssumption DEF StoreNext
  <2> QED
    BY <1>2, <2>1, <2>2, <2>3 DEF RunStep
<1>3. CASE \E r \in Runs : Request(r)
  BY <1>3 DEF Request
<1>4. ASSUME NEW p \in Processes PROVE ConnectionsOf(p) \in SUBSET Connections
  BY WorkspaceAssumption DEF ConnectionsOf
<1>5. CASE \E r \in Runs : CliEnds(r)
  BY <1>4, <1>5 DEF CliEnds, StoreNext, Processes
<1>6. CASE ProcessDies
  BY <1>4, <1>6 DEF ProcessDies, StoreNext, Processes
<1>7. CASE Client
  BY <1>7 DEF Client
<1> QED
  BY <1>1, <1>2, <1>3, <1>5, <1>6, <1>7 DEF WorkspaceNext

LEMMA StoreInvKept == StoreInv /\ RunTypes /\ [WorkspaceNext]_wsVars => StoreInv'
<1>1. StoreInv /\ [StoreNext]_storeVars => StoreInv'
  BY StoreInvStep
<1> QED
  BY <1>1, StepOfTheStores

-----------------------------------------------------------------------------
(* What a step of the stores does to a call *)

\* It goes on, it raises, or it returns and what it wrote is saved.
LEMMA StepOfACall ==
    ASSUME StoreTypeOK, NEW t \in Threads, StoreStep(t)
    PROVE  /\ call[t].at # "out"
           /\ \A u \in Threads : call'[u].conn = call[u].conn /\ call'[u].row = call[u].row
           /\ \A u \in Threads : u # t => call'[u] = call[u] /\ answer'[u] = answer[u]
           /\ \A f \in Files : saved[f] \subseteq saved'[f]
           /\ call'[t].at = "out" /\ answer'[t] = "saved" => call[t].row \in saved'[File(t)]
<1>1. /\ File(t) \in Files /\ call \in [Threads -> [at : At, conn : Connections, row : Rows]]
      /\ answer \in [Threads -> {"saved", "raised", "duplicate", "locked"}]
      /\ saved \in [Files -> SUBSET Rows]
  BY CallTypes DEF StoreTypeOK
<1>2. \/ \E at \in At \ {"out"} : Goto(t, at) /\ UNCHANGED <<answer, saved>>
      \/ \E error \in {"raised", "duplicate", "locked"} : Raise(t, error) /\ UNCHANGED saved
      \/ Return(t)
  <2>1. CASE Begin(t)
    BY <2>1 DEF Begin, RaiseOrLose, At
  <2>2. CASE Write(t)
    BY <2>2 DEF Write, At
  <2>3. CASE WriteDuplicate(t)
    BY <2>3 DEF WriteDuplicate, RaiseOrLose, At
  <2>4. CASE WriteLocked(t)
    BY <2>4 DEF WriteLocked, RaiseOrLose, At
  <2>5. CASE Check(t)
    BY <2>5 DEF Check, At
  <2>6. CASE Commit(t)
    BY <2>6 DEF Commit
  <2> QED
    BY <2>1, <2>2, <2>3, <2>4, <2>5, <2>6 DEF StoreStep
<1>3. call[t].at # "out"
  BY DEF StoreStep, Begin, Write, WriteDuplicate, WriteLocked, Check, Commit
<1>4. \E at \in At : Goto(t, at)
  BY <1>2 DEF Raise, Return, At
<1>5. /\ \A u \in Threads : call'[u].conn = call[u].conn /\ call'[u].row = call[u].row
      /\ \A u \in Threads : u # t => call'[u] = call[u]
  BY <1>4, GotoKeeps
<1>6. /\ \A u \in Threads : u # t => answer'[u] = answer[u]
      /\ \A f \in Files : saved[f] \subseteq saved'[f]
  BY <1>1, <1>2 DEF Raise, Return
<1>7. ASSUME call'[t].at = "out", answer'[t] = "saved" PROVE call[t].row \in saved'[File(t)]
  <2>1. Return(t)
    BY <1>1, <1>2, <1>7, GotoKeeps DEF Raise, At
  <2> QED
    BY <1>1, <2>1 DEF Return
<1> QED
  BY <1>3, <1>5, <1>6, <1>7

\* The end of a process ends calls on its connections and does nothing else to a call.
LEMMA DisconnectedCalls ==
    ASSUME StoreTypeOK, NEW conns \in SUBSET Connections, Disconnect(conns)
    PROVE  \A t \in Threads :
               /\ call'[t].conn = call[t].conn /\ call'[t].row = call[t].row
               /\ call'[t].at # "out" => call[t].at # "out" /\ call[t].conn \notin conns
               /\ call'[t].at = "out" => call[t].at = "out" \/ call[t].conn \in conns
<1>1. call \in [Threads -> [at : At, conn : Connections, row : Rows]]
  BY DEF StoreTypeOK
<1> QED
  BY <1>1 DEF Disconnect

-----------------------------------------------------------------------------
(* Every step keeps the rounds in order *)

\* A step of the registry or of the orchestrator, of a run that is not in a call.
LEMMA RegistryKeeps ==
    ASSUME RoundInv, NEW r \in Runs, call[r].at = "out", pc[r] # "died",
           pc' \in [Runs -> Steps], mode' \in [Runs -> Modes],
           \A u \in Runs : u # r => pc'[u] = pc[u] /\ mode'[u] = mode[u],
           UNCHANGED <<storeVars, roundVars>>
    PROVE  RoundInv'
<1> USE DEF RoundInv, storeVars, roundVars
<1>1. RunTypes'
  BY DEF RunTypes
<1>2. OwnCalls'
  BY DEF OwnCalls, Process, ConnectionsOf
<1>3. SavesArtifacts'
  BY DEF SavesArtifacts
<1>4. OutputsSaved'
  BY DEF OutputsSaved, SaveReturned
<1> QED
  BY <1>1, <1>2, <1>3, <1>4

LEMMA RegistryStepKeeps ==
    ASSUME RoundInv, NEW r \in Runs, UNCHANGED <<storeVars, roundVars>>,
           Request(r) \/ RegistryStep(r) \/ RunReturns(r) \/ RunRaises(r)
    PROVE  RoundInv'
<1>1. pc \in [Runs -> Steps] /\ mode \in [Runs -> Modes]
  BY DEF RoundInv, RunTypes
<1>2. pc[r] # "died" /\ call[r].at = "out"
  <2>1. CASE Request(r)
    BY <2>1 DEF RoundInv, OwnCalls, Request, StartRun, CreateRun
  <2>2. CASE RegistryStep(r)
    BY <2>2 DEF RoundInv, OwnCalls, RegistryStep, ReadForPending, OpenForPending, WritePending,
       ReadForResult, OpenForResult, WriteResult
  <2>3. CASE RunReturns(r) \/ RunRaises(r)
    BY <2>3 DEF RunReturns, RunRaises, Running
  <2> QED
    BY <2>1, <2>2, <2>3
<1>3. /\ \E at \in Steps : pc' = [pc EXCEPT ![r] = at]
      /\ \E m \in Modes : mode' = [mode EXCEPT ![r] = m] \/ mode' = mode
  <2>1. CASE Request(r)
    BY <2>1 DEF Request, StartRun, CreateRun, Steps, Modes
  <2>2. CASE RegistryStep(r)
    BY <2>2 DEF RegistryStep, ReadForPending, OpenForPending, WritePending, ReadForResult,
       OpenForResult, WriteResult, ReadFile, OpenFile, WriteFile, Steps, Modes
  <2>3. CASE RunReturns(r) \/ RunRaises(r)
    BY <2>3 DEF RunReturns, RunRaises, OrchestratorReturns, OrchestratorRaises, Steps, Modes
  <2> QED
    BY <2>1, <2>2, <2>3
<1>4. /\ pc' \in [Runs -> Steps] /\ mode' \in [Runs -> Modes]
      /\ \A u \in Runs : u # r => pc'[u] = pc[u] /\ mode'[u] = mode[u]
  BY <1>1, <1>3
<1> QED
  BY <1>2, <1>4, RegistryKeeps

LEMMA StoreStepKeeps ==
    ASSUME StoreInv, RoundInv, NEW r \in Runs, StoreStep(r), UNCHANGED <<vars, roundVars>>
    PROVE  RoundInv'
<1> USE DEF RoundInv, vars, roundVars
<1>1. /\ StoreTypeOK /\ Threads = Runs /\ "artifacts" \in Files
  BY WorkspaceAssumption DEF StoreInv
<1>2. RunTypes'
  BY DEF RunTypes
<1>3. OwnCalls'
  BY <1>1, StepOfACall DEF OwnCalls, Process, ConnectionsOf
<1>4. SavesArtifacts'
  BY <1>1, StepOfACall DEF SavesArtifacts
<1>5. doing[r] = "save" => File(r) = "artifacts"
  BY DEF SavesArtifacts, File
<1>6. OutputsSaved'
  BY <1>1, <1>5, StepOfACall DEF OutputsSaved, SaveReturned
<1> QED
  BY <1>2, <1>3, <1>4, <1>6

\* What a run takes up was saved.
LEMMA TakenUpSaved ==
    ASSUME RoundInv, NEW r \in Runs, Running(r)
    PROVE  TakenUp(r) \subseteq saved["artifacts"]
BY DEF RoundInv, OutputsSaved, SaveReturned, Running, TakenUp

\* A run begins a call of its own.
LEMMA CallBegins ==
    ASSUME StoreInv, RoundInv, NEW r \in Runs, NEW f \in Files, NEW x \in Rows,
           NEW d \in {"save", "append"}, NEW n \in Nat, d = "save" => f = "artifacts",
           Running(r), Call(r, On(r, f), x), UNCHANGED vars,
           saves' = [saves EXCEPT ![r] = n], doing' = [doing EXCEPT ![r] = d],
           outputs' = [outputs EXCEPT ![r] = TakenUp(r)]
    PROVE  RoundInv'
<1> USE DEF RoundInv, vars
<1>1. /\ \A u \in Runs : u # r => call'[u] = call[u]
      /\ call'[r].conn = On(r, f) /\ call'[r].at # "out"
      /\ UNCHANGED <<saved, answer>>
  <2>1. call \in [Runs -> [at : At, conn : Connections, row : Rows]]
    BY WorkspaceAssumption DEF StoreInv, StoreTypeOK
  <2>2. PICK at \in {"write", "begin"} :
            call' = [call EXCEPT ![r] = [at |-> at, conn |-> On(r, f), row |-> x]]
    BY DEF Call
  <2>3. UNCHANGED <<saved, answer>>
    BY DEF Call
  <2> QED
    BY <2>1, <2>2, <2>3
<1>2. TakenUp(r) \subseteq saved["artifacts"] /\ TakenUp(r) \subseteq Rows
  <2>1. call[r].row \in Rows
    BY CallTypes, WorkspaceAssumption DEF StoreInv
  <2> QED
    BY <2>1, TakenUpSaved DEF TakenUp, RunTypes
<1>3. RunTypes'
  BY <1>2 DEF RunTypes
<1>4. OwnCalls'
  BY <1>1, Own DEF OwnCalls, Process, ConnectionsOf, Running
<1>5. SavesArtifacts'
  BY <1>1, Own DEF SavesArtifacts, RunTypes
<1>6. \A u \in Runs : outputs'[u] \subseteq saved'["artifacts"]
  BY <1>1, <1>2 DEF OutputsSaved, RunTypes
<1>7. \A u \in Runs : SaveReturned(u)' => call'[u].row \in saved'["artifacts"]
  BY <1>1 DEF OutputsSaved, RunTypes, SaveReturned
<1>8. OutputsSaved'
  BY <1>6, <1>7 DEF OutputsSaved
<1> QED
  BY <1>3, <1>4, <1>5, <1>8

LEMMA WritesKeep ==
    ASSUME StoreInv, RoundInv, NEW r \in Runs, Save(r) \/ AppendEvent(r), UNCHANGED vars
    PROVE  RoundInv'
<1>1. Running(r) /\ outputs' = [outputs EXCEPT ![r] = TakenUp(r)]
  BY DEF Save, AppendEvent, Working
<1>2. saves \in [Runs -> Nat] /\ "artifacts" \in Files /\ "journal" \in Files
  BY WorkspaceAssumption DEF RoundInv, RunTypes
<1>3. CASE Save(r)
  <2>1. PICK x \in Rows : Call(r, On(r, "artifacts"), x)
    BY <1>3, SaveCalls DEF RoundInv
  <2>2. saves' = [saves EXCEPT ![r] = saves[r] + 1] /\ doing' = [doing EXCEPT ![r] = "save"]
    BY <1>3 DEF Save
  <2>3. saves[r] + 1 \in Nat
    BY <1>2
  <2> QED
    BY <1>1, <1>2, <2>1, <2>2, <2>3, CallBegins
<1>4. CASE AppendEvent(r)
  <2>1. PICK x \in Rows : Call(r, On(r, "journal"), x)
    BY <1>4, AppendCalls
  <2>2. saves' = [saves EXCEPT ![r] = saves[r]] /\ doing' = [doing EXCEPT ![r] = "append"]
    BY <1>2, <1>4 DEF AppendEvent
  <2>3. saves[r] \in Nat
    BY <1>2
  <2> QED
    BY <1>1, <1>2, <2>1, <2>2, <2>3, CallBegins
<1> QED
  BY <1>3, <1>4

\* A process ends: a run of it that was in a call is dead.
LEMMA EndOfAProcessKeeps ==
    ASSUME StoreInv, RoundInv, NEW p \in Processes, Disconnect(ConnectionsOf(p)),
           UNCHANGED roundVars, mode' = mode, pc' \in [Runs -> Steps],
           \A u \in Runs : pc'[u] \in {pc[u], "died"},
           \A u \in Runs : Process(u) = p /\ pc[u] = "running" => pc'[u] = "died",
           \A u \in Runs : Process(u) # p => pc'[u] = pc[u]
    PROVE  RoundInv'
<1> USE DEF RoundInv, roundVars
<1>1. /\ StoreTypeOK /\ Threads = Runs /\ ConnectionsOf(p) \in SUBSET Connections
      /\ UNCHANGED <<saved, answer>>
  BY WorkspaceAssumption DEF StoreInv, ConnectionsOf, Disconnect
<1>2. RunTypes'
  BY DEF RunTypes
<1>3. ASSUME NEW u \in Runs, call[u].at # "out", call[u].conn \notin ConnectionsOf(p)
      PROVE  Process(u) # p
  BY <1>3 DEF OwnCalls
<1>4. ASSUME NEW u \in Runs, call[u].at # "out", call[u].conn \in ConnectionsOf(p)
      PROVE  pc'[u] = "died"
  BY <1>4, ProcessesApart DEF OwnCalls
<1>5. OwnCalls'
  BY <1>1, <1>3, DisconnectedCalls DEF OwnCalls, Process, ConnectionsOf
<1>6. SavesArtifacts'
  BY <1>1, DisconnectedCalls DEF SavesArtifacts
<1>7. OutputsSaved'
  BY <1>1, <1>4, DisconnectedCalls DEF OutputsSaved, SaveReturned
<1> QED
  BY <1>2, <1>5, <1>6, <1>7

LEMMA KillKeeps == StoreInv /\ RoundInv /\ ProcessDies => RoundInv'
<1> SUFFICES ASSUME StoreInv, RoundInv, ProcessDies PROVE RoundInv'
  OBVIOUS
<1>1. mode' = mode /\ UNCHANGED roundVars /\ pc \in [Runs -> Steps]
  BY DEF ProcessDies, ServerDies, CliDies, Killed, RoundInv, RunTypes
<1>2. CASE ServerDies /\ Disconnect(ConnectionsOf(Server))
  <2>1. pc' = [r \in Runs |-> IF Live(r) /\ mode[r] # "cli" THEN "died" ELSE pc[r]]
    BY <1>2 DEF ServerDies, Killed
  <2>2. \A u \in Runs : (Process(u) = Server) = (mode[u] # "cli")
    BY WorkspaceAssumption DEF Process
  <2>3. \A u \in Runs : pc[u] = "running" => Live(u)
    BY DEF Live
  <2>4. pc' \in [Runs -> Steps] /\ \A u \in Runs : pc'[u] \in {pc[u], "died"}
    BY <1>1, <2>1 DEF Steps
  <2>5. Server \in Processes
    BY DEF Processes
  <2> QED
    BY <1>1, <1>2, <2>1, <2>2, <2>3, <2>4, <2>5, EndOfAProcessKeeps
<1>3. ASSUME NEW r \in Runs, CliDies(r), Disconnect(ConnectionsOf(r)) PROVE RoundInv'
  <2>1. pc' = [u \in Runs |-> IF u = r THEN "died" ELSE pc[u]] /\ mode[r] = "cli"
    BY <1>3 DEF CliDies, Killed
  <2>2. \A u \in Runs : (Process(u) = r) = (u = r)
    BY <2>1, WorkspaceAssumption DEF Process
  <2>3. pc' \in [Runs -> Steps] /\ \A u \in Runs : pc'[u] \in {pc[u], "died"}
    BY <1>1, <2>1 DEF Steps
  <2>4. r \in Processes
    BY DEF Processes
  <2> QED
    BY <1>1, <1>3, <2>1, <2>2, <2>3, <2>4, EndOfAProcessKeeps
<1> QED
  BY <1>2, <1>3 DEF ProcessDies

LEMMA CliEndKeeps ==
    ASSUME StoreInv, RoundInv, NEW r \in Runs, CliEnds(r)
    PROVE  RoundInv'
<1>1. /\ Disconnect(ConnectionsOf(r)) /\ pc' = pc /\ mode' = mode /\ UNCHANGED roundVars
      /\ mode[r] = "cli" /\ pc[r] # "running"
  BY DEF CliEnds, vars
<1>2. \A u \in Runs : (Process(u) = r) = (u = r)
  BY <1>1, WorkspaceAssumption DEF Process
<1>3. r \in Processes /\ pc \in [Runs -> Steps]
  BY DEF Processes, RoundInv, RunTypes
<1> QED
  BY <1>1, <1>2, <1>3, EndOfAProcessKeeps

-----------------------------------------------------------------------------
(* The theorems *)

LEMMA WorkspaceInvStep == WorkspaceInv /\ [WorkspaceNext]_wsVars => WorkspaceInv'
<1> SUFFICES ASSUME StoreInv, RoundInv, [WorkspaceNext]_wsVars PROVE WorkspaceInv'
  BY DEF WorkspaceInv
<1>1. StoreInv'
  BY StoreInvKept DEF RoundInv
<1>2. RoundInv'
  <2>1. CASE UNCHANGED wsVars
    BY <2>1 DEF wsVars, vars, storeVars, roundVars, RoundInv, RunTypes, OwnCalls, SavesArtifacts,
       OutputsSaved, SaveReturned, Process, ConnectionsOf
  <2>2. ASSUME NEW r \in Runs, Request(r) \/ RunStep(r) \/ CliEnds(r) PROVE RoundInv'
    <3>1. CASE CliEnds(r)
      BY <3>1, CliEndKeeps
    <3>2. CASE Request(r)
      BY <3>2, RegistryStepKeeps DEF Request
    <3>3. CASE RunStep(r)
      BY <3>3, RegistryStepKeeps, WritesKeep, StoreStepKeeps DEF RunStep
    <3> QED
      BY <2>2, <3>1, <3>2, <3>3
  <2>3. CASE ProcessDies
    BY <2>3, KillKeeps
  <2>4. CASE Client
    BY <2>4 DEF Client, vars, storeVars, roundVars, RoundInv, RunTypes, OwnCalls, SavesArtifacts,
       OutputsSaved, SaveReturned, Process, ConnectionsOf
  <2> QED
    BY <2>1, <2>2, <2>3, <2>4 DEF WorkspaceNext
<1> QED
  BY <1>1, <1>2 DEF WorkspaceInv

LEMMA WorkspaceInvariant == WorkspaceSpec => []WorkspaceInv
<1>1. WorkspaceInit => WorkspaceInv
  BY WorkspaceInitEstablishes, InitEstablishes DEF WorkspaceInv
<1> QED
  BY <1>1, WorkspaceInvStep, PTL DEF WorkspaceSpec

\* A workspace at work, with all its runs, kills and clients, uses the stores as
\* SharedConnection has it.
THEOREM WorkspaceUsesStores == WorkspaceSpec => StoreSpec
<1>1. WorkspaceInit => StoreInit
  BY WorkspaceInitEstablishes
<1>2. WorkspaceInv /\ [WorkspaceNext]_wsVars => [StoreNext]_storeVars
  BY StepOfTheStores DEF WorkspaceInv, RoundInv
<1> QED
  BY <1>1, <1>2, WorkspaceInvariant, PTL DEF WorkspaceSpec, StoreSpec

\* Therefore what a run was told is saved survives, in every such workspace.
THEOREM SavedSurvivesInWorkspace == WorkspaceSpec => []SavedSurvives
<1> QED
  BY WorkspaceUsesStores, SavedIsDurable, PTL

\* And a lock nobody is about to release is one that a refused duplicate left.
THEOREM LockExplainedInWorkspace == WorkspaceSpec => []LockExplained
<1> QED
  BY WorkspaceUsesStores, OnlyDuplicatesKeepTheLock, PTL

\* An event in the journal lists only artifacts that are in the store, although they
\* are in two files, written one after the other by threads that share connections
\* and may be killed in between, unless sqlite3 lost an error.
THEOREM EventsOnlyListStored == WorkspaceSpec => []EventsResolve
<1>1. WorkspaceInv => EventsResolve
  <2> SUFFICES ASSUME WorkspaceInv, NEW x \in stored["journal"], ~lost
               PROVE  outputs[x[1]] \subseteq stored["artifacts"]
    BY DEF EventsResolve
  <2>1. stored["journal"] \subseteq Rows
    BY WorkspaceAssumption DEF WorkspaceInv, StoreInv, StoreTypeOK
  <2>2. x[1] \in Runs
    BY <2>1, WorkspaceAssumption
  <2>3. outputs[x[1]] \subseteq saved["artifacts"]
    BY <2>2 DEF WorkspaceInv, RoundInv, OutputsSaved
  <2>4. saved["artifacts"] \subseteq stored["artifacts"]
    BY WorkspaceAssumption DEF WorkspaceInv, StoreInv, SavedSurvives
  <2> QED
    BY <2>3, <2>4
<1> QED
  BY <1>1, WorkspaceInvariant, PTL

-----------------------------------------------------------------------------
(* What a save makes of the list it read *)

Once(entries)       == \A i, j \in DOMAIN entries : entries[i].run = entries[j].run => i = j
Telling(entries, r) ==
    {s \in Statuses \cup {"running"} : \E i \in DOMAIN entries : entries[i] = Entry(r, s)}

\* There are k results that are newer than that of d.
Deep(entries, d, k) == \E i \in DOMAIN entries : entries[i].run = d /\ Len(entries) - i >= k

RestsOf(entries, r, n, rest) ==
    rest = [i \in 0..n |->
               IF i = 0 THEN <<>>
               ELSE IF entries[i].run = r THEN rest[i - 1] ELSE Append(rest[i - 1], entries[i])]

LEMMA RestsExist ==
    ASSUME NEW entries, NEW r, NEW n \in Nat
    PROVE  \E rest : RestsOf(entries, r, n, rest)
<1> DEFINE Bad == {k \in 0..n : ~\E rest : RestsOf(entries, r, k, rest)}
<1>1. SUFFICES ASSUME Bad # {} PROVE FALSE
  <2>1. n \in Bad \/ \E rest : RestsOf(entries, r, n, rest)
    OBVIOUS
  <2> QED
    BY <1>1, <2>1
<1>2. PICK k \in Bad : \A l \in Bad : k <= l
  <2>1. Bad \in SUBSET Nat
    OBVIOUS
  <2> HIDE DEF Bad
  <2> QED
    BY <1>1, <2>1, Smallest
<1>3. k # 0
  <2>1. RestsOf(entries, r, 0, [i \in 0..0 |-> <<>>])
    BY DEF RestsOf
  <2> QED
    BY <1>2, <2>1
<1>4. k \in Nat /\ k - 1 \in 0..n /\ k - 1 \in Nat /\ ~(k <= k - 1)
  BY <1>2, <1>3
<1>5. PICK rest : RestsOf(entries, r, k - 1, rest)
  BY <1>2, <1>4
<1> DEFINE last == IF entries[k].run = r THEN rest[k - 1] ELSE Append(rest[k - 1], entries[k])
           next == [i \in 0..k |-> IF i = k THEN last ELSE rest[i]]
<1>6. RestsOf(entries, r, k, next)
  <2>1. \A i \in 0..k : i = k \/ i \in 0..(k - 1)
    BY <1>4
  <2>2. \A i \in 0..(k - 1) : 
            next[i] = IF i = 0 THEN <<>>
                      ELSE IF entries[i].run = r THEN next[i - 1]
                      ELSE Append(next[i - 1], entries[i])
    <3>1. \A i \in 0..(k - 1) : i \in 0..k /\ i # k /\ (i # 0 => i - 1 \in 0..k /\ i - 1 # k)
      BY <1>4
    <3>2. \A i \in 0..(k - 1) : 
              rest[i] = IF i = 0 THEN <<>>
                        ELSE IF entries[i].run = r THEN rest[i - 1]
                        ELSE Append(rest[i - 1], entries[i])
      BY <1>4, <1>5, Zenon DEF RestsOf
    <3> HIDE DEF last
    <3> QED
      BY <3>1, <3>2
  <2>3. next[k] = IF entries[k].run = r THEN next[k - 1] ELSE Append(next[k - 1], entries[k])
    BY <1>3, <1>4
  <2> HIDE DEF last
  <2>4. \A i \in 0..k :
            next[i] = IF i = 0 THEN <<>>
                      ELSE IF entries[i].run = r THEN next[i - 1]
                      ELSE Append(next[i - 1], entries[i])
    BY <1>3, <2>1, <2>2, <2>3, Zenon
  <2>5. next = [i \in 0..k |-> next[i]]
    OBVIOUS
  <2> HIDE DEF next
  <2> QED
    BY <2>4, <2>5, Zenon DEF RestsOf
<1> QED
  BY <1>2, <1>6

LEMMA OthersIs ==
    ASSUME NEW entries, NEW r, Len(entries) \in Nat
    PROVE  \E rest : /\ RestsOf(entries, r, Len(entries), rest)
                     /\ Others(entries, r) = rest[Len(entries)]
<1> DEFINE Rest == CHOOSE rest :
                       rest = [i \in 0..Len(entries) |->
                                  IF i = 0 THEN <<>>
                                  ELSE IF entries[i].run = r THEN rest[i - 1]
                                  ELSE Append(rest[i - 1], entries[i])]
<1>1. Others(entries, r) = Rest[Len(entries)]
  BY DEF Others
<1>2. RestsOf(entries, r, Len(entries), Rest)
  <2>1. \E rest : RestsOf(entries, r, Len(entries), rest)
    BY RestsExist
  <2> QED
    BY <2>1, Zenon DEF RestsOf
<1> QED
  BY <1>1, <1>2

\* What s has of the first n entries: those of the other runs, at most one place deeper.
Kept(entries, r, n, s) ==
    /\ s \in Entries /\ Once(s)
    /\ \A j \in DOMAIN s : s[j].run # r /\ \E i \in 1..n : entries[i] = s[j]
    /\ \A i \in 1..n : entries[i].run # r =>
           \E j \in DOMAIN s :
               /\ s[j] = entries[i]
               /\ \/ Len(s) - j >= n - i
                  \/ Len(s) - j >= n - i - 1 /\ \E k \in 1..n : entries[k].run = r

LEMMA KeptSkips ==
    ASSUME NEW entries \in Entries, Once(entries), NEW r, NEW n \in Nat, n + 1 \in 1..Len(entries),
           NEW s, Kept(entries, r, n, s), entries[n + 1].run = r
    PROVE  Kept(entries, r, n + 1, s)
<1>1. DOMAIN entries = 1..Len(entries) /\ Len(entries) \in Nat
  BY DEF Entries
<1>2. \A i \in 1..(n + 1) : i = n + 1 \/ i \in 1..n
  OBVIOUS
<1>3. \A k \in 1..n : entries[k].run # r
  <2> SUFFICES ASSUME NEW k \in 1..n, entries[k].run = r PROVE FALSE
    OBVIOUS
  <2>1. k \in DOMAIN entries /\ n + 1 \in DOMAIN entries /\ k # n + 1
    BY <1>1
  <2> QED
    BY <2>1 DEF Once
<1>4. \A j \in DOMAIN s : s[j].run # r /\ \E i \in 1..(n + 1) : entries[i] = s[j]
  <2>1. \A i \in 1..n : i \in 1..(n + 1)
    OBVIOUS
  <2> QED
    BY <2>1 DEF Kept
<1>5. ASSUME NEW i \in 1..(n + 1), entries[i].run # r
      PROVE  \E j \in DOMAIN s :
                 /\ s[j] = entries[i]
                 /\ Len(s) - j >= (n + 1) - i - 1 /\ \E k \in 1..(n + 1) : entries[k].run = r
  <2>1. i \in 1..n
    BY <1>2, <1>5
  <2>2. PICK j \in DOMAIN s : s[j] = entries[i] /\ Len(s) - j >= n - i
    BY <1>3, <1>5, <2>1 DEF Kept
  <2>3. (n + 1) - i - 1 = n - i /\ n + 1 \in 1..(n + 1)
    BY <2>1
  <2> QED
    BY <2>2, <2>3
<1> QED
  BY <1>4, <1>5 DEF Kept

LEMMA KeptTakes ==
    ASSUME NEW entries \in Entries, Once(entries), NEW r, NEW n \in Nat, n + 1 \in 1..Len(entries),
           NEW s, Kept(entries, r, n, s), entries[n + 1].run # r
    PROVE  Kept(entries, r, n + 1, Append(s, entries[n + 1]))
<1> DEFINE e == entries[n + 1]
           t == Append(s, e)
           E == [run : Runs, status : Statuses \cup {"running"}]
<1>1. /\ entries \in Seq(E) /\ DOMAIN entries = 1..Len(entries) /\ Len(entries) \in Nat
      /\ e \in E /\ s \in Seq(E)
  <2>1. entries \in Seq(E) /\ s \in Seq(E)
    BY DEF Entries, Kept
  <2> HIDE DEF E
  <2> QED
    BY <2>1
<1>2. \A i \in 1..(n + 1) : i = n + 1 \/ i \in 1..n
  OBVIOUS
<1> HIDE DEF E, e
<1>3. /\ t \in Seq(E) /\ Len(t) = Len(s) + 1 /\ Len(s) \in Nat /\ t[Len(s) + 1] = e
      /\ DOMAIN t = 1..(Len(s) + 1) /\ DOMAIN s = 1..Len(s)
      /\ \A j \in 1..Len(s) : t[j] = s[j]
  BY <1>1
<1>4. \A j \in DOMAIN t : j = Len(s) + 1 \/ j \in DOMAIN s
  BY <1>3
<1> HIDE DEF t
<1>5. \A j \in DOMAIN t : t[j].run # r /\ \E i \in 1..(n + 1) : entries[i] = t[j]
  <2>1. \A i \in 1..n : i \in 1..(n + 1)
    OBVIOUS
  <2>2. n + 1 \in 1..(n + 1)
    OBVIOUS
  <2>3. ASSUME NEW j \in DOMAIN s
        PROVE  t[j].run # r /\ \E i \in 1..(n + 1) : entries[i] = t[j]
    BY <1>3, <2>1 DEF Kept
  <2> QED
    BY <1>3, <1>4, <2>2, <2>3 DEF e
<1>6. \A j \in DOMAIN s : s[j].run # e.run
  <2> SUFFICES ASSUME NEW j \in DOMAIN s, s[j].run = e.run PROVE FALSE
    OBVIOUS
  <2>1. PICK i \in 1..n : entries[i] = s[j]
    BY DEF Kept
  <2>2. i \in DOMAIN entries /\ n + 1 \in DOMAIN entries /\ i # n + 1
    BY <1>1
  <2> QED
    BY <2>1, <2>2 DEF Once, e
<1>7. Once(t)
  <2> SUFFICES ASSUME NEW i \in DOMAIN t, NEW j \in DOMAIN t, t[i].run = t[j].run PROVE i = j
    BY DEF Once
  <2>1. CASE i \in DOMAIN s /\ j \in DOMAIN s
    BY <1>3, <2>1 DEF Kept, Once
  <2>2. CASE i = Len(s) + 1 \/ j = Len(s) + 1
    BY <1>3, <1>4, <1>6, <2>2
  <2> QED
    BY <1>4, <2>1, <2>2
<1>8. ASSUME NEW i \in 1..(n + 1), entries[i].run # r
      PROVE  \E j \in DOMAIN t :
                 /\ t[j] = entries[i]
                 /\ \/ Len(t) - j >= (n + 1) - i
                    \/ /\ Len(t) - j >= (n + 1) - i - 1
                       /\ \E k \in 1..(n + 1) : entries[k].run = r
  <2>1. CASE i = n + 1
    <3>1. Len(s) + 1 \in DOMAIN t /\ Len(t) - (Len(s) + 1) >= (n + 1) - i
      BY <1>3, <2>1
    <3> QED
      BY <1>3, <2>1, <3>1 DEF e
  <2>2. CASE i \in 1..n
    <3>1. PICK j \in DOMAIN s :
              /\ s[j] = entries[i]
              /\ \/ Len(s) - j >= n - i
                 \/ Len(s) - j >= n - i - 1 /\ \E k \in 1..n : entries[k].run = r
      BY <1>8, <2>2 DEF Kept
    <3>2. j \in DOMAIN t /\ t[j] = entries[i]
      BY <1>3, <3>1
    <3>3. CASE Len(s) - j >= n - i
      <4>1. Len(t) - j >= (n + 1) - i
        BY <1>3, <2>2, <3>1, <3>3
      <4> QED
        BY <3>2, <4>1
    <3>4. CASE Len(s) - j >= n - i - 1 /\ \E k \in 1..n : entries[k].run = r
      <4>1. Len(t) - j >= (n + 1) - i - 1
        BY <1>3, <2>2, <3>1, <3>4
      <4>2. \E k \in 1..(n + 1) : entries[k].run = r
        BY <3>4
      <4> QED
        BY <3>2, <4>1, <4>2
    <3> QED
      BY <3>1, <3>3, <3>4
  <2> QED
    BY <1>2, <2>1, <2>2
<1>9. t \in Entries
  BY <1>3 DEF E, Entries
<1> QED
  BY <1>5, <1>7, <1>8, <1>9 DEF Kept, t, e

LEMMA OthersKept ==
    ASSUME NEW entries \in Entries, Once(entries), NEW r
    PROVE  Kept(entries, r, Len(entries), Others(entries, r))
<1> DEFINE m == Len(entries)
<1>1. m \in Nat
  BY DEF Entries
<1>2. PICK rest : RestsOf(entries, r, m, rest) /\ Others(entries, r) = rest[m]
  BY <1>1, OthersIs
<1> HIDE DEF m
<1>3. /\ rest[0] = <<>>
      /\ \A i \in 1..m : rest[i] = IF entries[i].run = r THEN rest[i - 1]
                                   ELSE Append(rest[i - 1], entries[i])
  <2>1. \A i \in 0..m :
            rest[i] = IF i = 0 THEN <<>>
                      ELSE IF entries[i].run = r THEN rest[i - 1]
                      ELSE Append(rest[i - 1], entries[i])
    BY <1>2, Zenon DEF RestsOf
  <2>2. 0 \in 0..m /\ \A i \in 1..m : i \in 0..m /\ i # 0
    BY <1>1
  <2> QED
    BY <2>1, <2>2
<1> DEFINE Bad == {k \in 0..m : ~Kept(entries, r, k, rest[k])}
<1>4. SUFFICES ASSUME Bad # {} PROVE FALSE
  <2>1. m \in Bad \/ Kept(entries, r, m, rest[m])
    BY <1>1
  <2> QED
    BY <1>2, <1>4, <2>1 DEF m
<1>5. PICK k \in Bad : \A l \in Bad : k <= l
  <2>1. Bad \in SUBSET Nat
    OBVIOUS
  <2> HIDE DEF Bad
  <2> QED
    BY <1>4, <2>1, Smallest
<1>6. k # 0
  <2>1. Kept(entries, r, 0, <<>>)
    BY DEF Kept, Entries, Once
  <2> QED
    BY <1>3, <1>5, <2>1
<1>7. PICK n \in Nat : k = n + 1 /\ n \in 0..m /\ n + 1 \in 1..m /\ n + 1 - 1 = n /\ ~(n + 1 <= n)
  <2>1. k - 1 \in Nat /\ k = (k - 1) + 1 /\ k - 1 \in 0..m /\ k \in 1..m
    BY <1>1, <1>5, <1>6
  <2> QED
    BY <2>1
<1>8. Kept(entries, r, n, rest[n])
  BY <1>5, <1>7
<1>9. Kept(entries, r, n + 1, rest[n + 1])
  <2>1. rest[n + 1] = IF entries[n + 1].run = r THEN rest[n] ELSE Append(rest[n], entries[n + 1])
    BY <1>3, <1>7
  <2>2. n + 1 \in 1..Len(entries)
    BY <1>7 DEF m
  <2>3. CASE entries[n + 1].run = r
    BY <1>8, <2>1, <2>2, <2>3, KeptSkips
  <2>4. CASE entries[n + 1].run # r
    BY <1>8, <2>1, <2>2, <2>4, KeptTakes
  <2> QED
    BY <2>3, <2>4
<1> QED
  BY <1>5, <1>7, <1>9

\* A save keeps each run listed once, tells of its run what it saves and of the others
\* what was told before, and no other result gets nearer to the front page.
LEMMA MergedFacts ==
    ASSUME NEW entries \in Entries, Once(entries), NEW r \in Runs,
           NEW status \in Statuses \cup {"running"}
    PROVE  /\ Merged(entries, r, status) \in Entries /\ Once(Merged(entries, r, status))
           /\ Telling(Merged(entries, r, status), r) = {status}
           /\ \A q \in Runs \ {r} :
                  Telling(Merged(entries, r, status), q) = Telling(entries, q)
           /\ \A d \in Runs \ {r} : \A k \in Nat :
                  Deep(entries, d, k) => Deep(Merged(entries, r, status), d, k)
<1> DEFINE s == Others(entries, r)
           e == Entry(r, status)
           t == Append(s, e)
           E == [run : Runs, status : Statuses \cup {"running"}]
           n == Len(entries)
<1>1. Kept(entries, r, n, s)
  BY OthersKept
<1>2. Merged(entries, r, status) = t /\ e \in E /\ e.run = r /\ e.status = status
  BY DEF Merged, Entry
<1>3. s \in Seq(E) /\ entries \in Seq(E)
  BY <1>1 DEF Kept, Entries
<1> HIDE DEF E, e, s
<1>4. /\ t \in Seq(E) /\ Len(t) = Len(s) + 1 /\ Len(s) \in Nat /\ t[Len(s) + 1] = e
      /\ DOMAIN t = 1..(Len(s) + 1) /\ DOMAIN s = 1..Len(s)
      /\ \A j \in 1..Len(s) : t[j] = s[j]
      /\ n \in Nat /\ DOMAIN entries = 1..n
  BY <1>2, <1>3
<1>5. \A j \in DOMAIN t : j = Len(s) + 1 \/ (j \in DOMAIN s /\ t[j] = s[j])
  BY <1>4
<1> HIDE DEF t
<1>6. Once(t)
  <2> SUFFICES ASSUME NEW i \in DOMAIN t, NEW j \in DOMAIN t, t[i].run = t[j].run PROVE i = j
    BY DEF Once
  <2>1. \A l \in DOMAIN s : s[l].run # r
    BY <1>1 DEF Kept
  <2>2. CASE i = Len(s) + 1 \/ j = Len(s) + 1
    BY <1>2, <1>4, <1>5, <2>1, <2>2
  <2>3. CASE i \in DOMAIN s /\ j \in DOMAIN s
    BY <1>1, <1>4, <2>3 DEF Kept, Once
  <2> QED
    BY <1>5, <2>2, <2>3
<1>7. Telling(t, r) = {status}
  <2>1. status \in Telling(t, r)
    BY <1>4 DEF Telling, e
  <2>2. ASSUME NEW x \in Telling(t, r) PROVE x = status
    <3>1. PICK j \in DOMAIN t : t[j] = Entry(r, x)
      BY DEF Telling
    <3>2. j = Len(s) + 1
      BY <1>1, <1>5, <3>1 DEF Kept, Entry
    <3> QED
      BY <1>2, <1>4, <3>1, <3>2 DEF Entry
  <2> QED
    BY <2>1, <2>2
<1>8. ASSUME NEW q \in Runs \ {r} PROVE Telling(t, q) = Telling(entries, q)
  <2>1. ASSUME NEW x \in Telling(t, q) PROVE x \in Telling(entries, q)
    <3>1. PICK j \in DOMAIN t : t[j] = Entry(q, x)
      BY DEF Telling
    <3>2. j \in DOMAIN s /\ s[j] = Entry(q, x)
      BY <1>2, <1>4, <1>5, <3>1 DEF Entry
    <3>3. PICK i \in 1..n : entries[i] = Entry(q, x)
      BY <1>1, <3>2 DEF Kept
    <3> QED
      BY <1>4, <3>3 DEF Telling
  <2>2. ASSUME NEW x \in Telling(entries, q) PROVE x \in Telling(t, q)
    <3>1. PICK i \in DOMAIN entries : entries[i] = Entry(q, x)
      BY DEF Telling
    <3>2. entries[i].run # r
      BY <3>1 DEF Entry
    <3>3. PICK j \in DOMAIN s : s[j] = entries[i]
      BY <1>1, <1>4, <3>2 DEF Kept
    <3>4. j \in DOMAIN t /\ t[j] = Entry(q, x)
      BY <1>4, <3>1, <3>3
    <3> QED
      BY <3>4 DEF Telling
  <2> QED
    BY <2>1, <2>2
<1>9. ASSUME NEW d \in Runs \ {r}, NEW k \in Nat, Deep(entries, d, k) PROVE Deep(t, d, k)
  <2>1. PICK i \in DOMAIN entries : entries[i].run = d /\ n - i >= k
    BY <1>9 DEF Deep
  <2>2. PICK j \in DOMAIN s : s[j] = entries[i] /\ Len(s) - j >= n - i - 1
    <3>1. PICK j \in DOMAIN s :
              /\ s[j] = entries[i]
              /\ Len(s) - j >= n - i \/ Len(s) - j >= n - i - 1
      BY <1>1, <1>4, <2>1 DEF Kept
    <3> QED
      BY <1>4, <2>1, <3>1
  <2>3. j \in DOMAIN t /\ t[j].run = d /\ Len(t) - j >= k
    BY <1>4, <2>1, <2>2
  <2> QED
    BY <2>3 DEF Deep
<1>10. t \in Entries
  BY <1>4 DEF E, Entries
<1> QED
  BY <1>2, <1>6, <1>7, <1>8, <1>9, <1>10

-----------------------------------------------------------------------------
(* What the registry tells *)

PendingSteps == {"pending", "pendingOpen", "pendingWrite"}
ResultSteps  == {"result", "resultOpen", "resultWrite", "saved"}
Unwritten    == \A r \in Runs : pc[r] \notin Writing

\* What may be told of a run, and what a save of it tells.
Truths(r)     == {{s} \ {"none"} : s \in Expected(r)}
SaveStatus(r) == IF pc[r] \in PendingSteps THEN "running" ELSE outcome[r]

\* While saves follow each other: one run saves at a time; the file tells what is so,
\* unless it was emptied to be written; and so does what is to be written.
OneSaver  == \A r, q \in Runs : Saving(r) /\ Saving(q) => r = q
FileTells == Unwritten => file.json /\ \A r \in Runs : Telling(file.entries, r) \in Truths(r)
FoundTells ==
    \A w \in Runs : Saving(w) =>
        /\ Telling(found[w], w) = {SaveStatus(w)}
        /\ \A q \in Runs \ {w} : Telling(found[w], q) \in Truths(q)
FoundMerged ==
    \A w \in Runs :
        pc[w] \in Opening => found[w] = Merged(file.entries, w, SaveStatus(w))
FileEmptied == \A w \in Runs : pc[w] \in Writing => file = NoJson

InTurn == OneSaver /\ FileTells /\ FoundTells /\ FoundMerged /\ FileEmptied

RegInv ==
    /\ TypeOK
    /\ Once(file.entries) /\ \A r \in Runs : Once(found[r])
    /\ \A r \in Runs : pc[r] \in PendingSteps => mode[r] = "background"
    /\ \A r \in Runs : pc[r] \in ResultSteps => outcome[r] \in Statuses
    /\ ~disturbed => InTurn

-----------------------------------------------------------------------------
(* What the client has still to see *)

\* A result it is due and has not seen is on a page it has not asked for.
Ahead(d) ==
    /\ pc[d] = "saved"
    /\ d \notin paging.seen =>
           /\ paging.at = "next"
           /\ Unwritten => Deep(file.entries, d, paging.offset)
           /\ \A w \in Runs : Saving(w) => Deep(found[w], d, paging.offset)

PagingTypes ==
    paging \in [at : {"off", "next", "done", "failed"}, offset : Nat,
                due : SUBSET Runs, seen : SUBSET Runs]

PagingInv ==
    /\ PagingTypes
    /\ ~disturbed /\ paging.at \in {"next", "done"} => \A d \in paging.due : Ahead(d)

-----------------------------------------------------------------------------
(* Steps of the registry *)

LEMMA RegistrySteps == [WorkspaceNext]_wsVars => [Next]_vars
<1> SUFFICES ASSUME [WorkspaceNext]_wsVars PROVE [Next]_vars
  OBVIOUS
<1>1. CASE UNCHANGED wsVars
  BY <1>1 DEF wsVars
<1>2. ASSUME NEW r \in Runs, Request(r) \/ RunStep(r) \/ CliEnds(r) PROVE [Next]_vars
  <2>1. CASE Request(r)
    BY <2>1 DEF Request, Next
  <2>2. CASE RunStep(r)
    <3>1. CASE RegistryStep(r)
      BY <3>1 DEF RegistryStep, Next, Step
    <3>2. CASE RunReturns(r) \/ RunRaises(r)
      BY <3>2 DEF RunReturns, RunRaises, Next, Step
    <3> QED
      BY <2>2, <3>1, <3>2 DEF RunStep
  <2>3. CASE CliEnds(r)
    BY <2>3 DEF CliEnds
  <2> QED
    BY <1>2, <2>1, <2>2, <2>3
<1>3. CASE ProcessDies
  BY <1>3 DEF ProcessDies, Next
<1>4. CASE Client
  BY <1>4 DEF Client
<1> QED
  BY <1>1, <1>2, <1>3, <1>4 DEF WorkspaceNext

LEMMA ExpectedIs ==
    ASSUME NEW r
    PROVE  /\ pc[r] = "saved" => Expected(r) = {outcome[r]}
           /\ mode[r] = "background" /\
              pc[r] \in {"running", "result", "resultOpen", "unsaved"} =>
                  Expected(r) = {"running"}
           /\ pc[r] = "died" => Expected(r) = {"running", "none"}
           /\ pc[r] \in {"new", "pending", "pendingOpen", "pendingWrite", "resultWrite",
                          "refused"} \/
              (mode[r] # "background" /\ pc[r] \notin {"saved", "died"}) =>
                  Expected(r) = {"none"}
BY DEF Expected

LEMMA ExpectedNext ==
    ASSUME NEW r
    PROVE  /\ pc'[r] = "saved" => Expected(r)' = {outcome'[r]}
           /\ mode'[r] = "background" /\
              pc'[r] \in {"running", "result", "resultOpen", "unsaved"} =>
                  Expected(r)' = {"running"}
           /\ pc'[r] = "died" => Expected(r)' = {"running", "none"}
           /\ pc'[r] \in {"new", "pending", "pendingOpen", "pendingWrite", "resultWrite",
                          "refused"} \/
              (mode'[r] # "background" /\ pc'[r] \notin {"saved", "died"}) =>
                  Expected(r)' = {"none"}
BY DEF Expected

\* A step of one run leaves the others as they were.
LEMMA OthersStay ==
    ASSUME NEW r \in Runs, NEW x, pc \in [Runs -> Steps], pc' = [pc EXCEPT ![r] = x],
           \A q \in Runs \ {r} : mode'[q] = mode[q] /\ outcome'[q] = outcome[q]
    PROVE  /\ pc'[r] = x
           /\ \A q \in Runs \ {r} :
                  /\ pc'[q] = pc[q] /\ Truths(q)' = Truths(q) /\ SaveStatus(q)' = SaveStatus(q)
                  /\ Saving(q)' <=> Saving(q)
BY DEF Truths, Expected, SaveStatus, Saving

LEMMA RegTypes == ASSUME RegInv, [Next]_vars PROVE TypeOK'
<1>1. /\ file \in [json : BOOLEAN, entries : Entries] /\ pc \in [Runs -> Steps]
      /\ mode \in [Runs -> {"none", "background", "inline", "cli"}] /\ found \in [Runs -> Entries]
      /\ outcome \in [Runs -> Statuses \cup {"running"}] /\ kills \in 0..MaxKills
      /\ disturbed \in BOOLEAN /\ MaxKills \in Nat
  BY KillsAssumption DEF RegInv, TypeOK
<1>2. <<>> \in Entries /\ NoJson \in [json : BOOLEAN, entries : Entries]
  BY DEF Entries, NoJson
<1>3. ASSUME NEW r \in Runs, StartRun(r) \/ CreateRun(r) PROVE TypeOK'
  BY <1>1, <1>3 DEF StartRun, CreateRun, TypeOK, Steps
<1>4. ASSUME NEW r \in Runs, OrchestratorReturns(r) \/ OrchestratorRaises(r) PROVE TypeOK'
  BY <1>1, <1>4 DEF OrchestratorReturns, OrchestratorRaises, TypeOK, Steps, Statuses
<1>5. ASSUME NEW r \in Runs, NEW status \in Statuses \cup {"running"}, NEW then \in Steps,
             NEW failed \in Steps, ReadFile(r, status, then, failed)
      PROVE  TypeOK'
  <2>1. Merged(file.entries, r, status) \in Entries
    BY <1>1, MergedFacts DEF RegInv
  <2> QED
    BY <1>1, <1>5, <2>1 DEF ReadFile, TypeOK
<1>6. ASSUME NEW r \in Runs, NEW x \in Steps, OpenFile(r, x) \/ WriteFile(r, x) PROVE TypeOK'
  <2>1. found[r] \in Entries /\ Json(found[r]) \in [json : BOOLEAN, entries : Entries]
    BY <1>1 DEF Json
  <2>2. file' \in [json : BOOLEAN, entries : Entries]
    BY <1>2, <1>6, <2>1 DEF OpenFile, WriteFile
  <2>3. found' \in [Runs -> Entries] /\ pc' \in [Runs -> Steps]
    BY <1>1, <1>2, <1>6 DEF OpenFile, WriteFile
  <2> QED
    BY <1>1, <1>6, <2>2, <2>3 DEF OpenFile, WriteFile, TypeOK
<1>7. ASSUME NEW r \in Runs, Step(r) PROVE TypeOK'
  <2>1. outcome[r] \in Statuses \cup {"running"} /\ "running" \in Statuses \cup {"running"}
    BY <1>1
  <2> QED
    BY <1>4, <1>5, <1>6, <1>7, <2>1
       DEF Step, ReadForPending, OpenForPending, WritePending, ReadForResult, OpenForResult,
           WriteResult, Steps
<1>8. ASSUME NEW rs, Killed(rs) PROVE TypeOK'
  BY <1>1, <1>2, <1>8 DEF Killed, TypeOK, Steps
<1>9. CASE UNCHANGED vars
  BY <1>1, <1>9 DEF vars, TypeOK
<1> QED
  BY <1>3, <1>7, <1>8, <1>9 DEF Next, ServerDies, CliDies

LEMMA QuietTold ==
    ASSUME RegInv, TypeOK', NEW r \in Runs, NEW x, pc' = [pc EXCEPT ![r] = x],
           pc[r] \notin Opening \cup Writing, x \notin Opening \cup Writing,
           UNCHANGED <<file, found, disturbed>>,
           \A q \in Runs \ {r} : mode'[q] = mode[q] /\ outcome'[q] = outcome[q],
           Truths(r)' = Truths(r),
           x \in PendingSteps => mode'[r] = "background",
           x \in ResultSteps => outcome'[r] \in Statuses
    PROVE  RegInv'
<1>1. pc \in [Runs -> Steps]
  BY DEF RegInv, TypeOK
<1>2. /\ pc'[r] = x
      /\ \A q \in Runs \ {r} :
             /\ pc'[q] = pc[q] /\ Truths(q)' = Truths(q) /\ SaveStatus(q)' = SaveStatus(q)
             /\ Saving(q)' <=> Saving(q)
  BY <1>1, OthersStay
<1>3. ~Saving(r) /\ ~(Saving(r)')
  BY <1>2 DEF Saving
<1>4. \A q \in Runs : (Saving(q)' <=> Saving(q)) /\ Truths(q)' = Truths(q)
  BY <1>2, <1>3
<1>5. \A q \in Runs : /\ pc'[q] \in Writing <=> pc[q] \in Writing
                      /\ pc'[q] \in Opening <=> pc[q] \in Opening
  BY <1>2
<1>6. ASSUME ~disturbed PROVE InTurn'
  <2>1. OneSaver /\ FileTells /\ FoundTells /\ FoundMerged /\ FileEmptied
    BY <1>6 DEF RegInv, InTurn
  <2>2. OneSaver'
    BY <1>4, <2>1 DEF OneSaver
  <2>3. FileTells'
    <3>1. Unwritten' => Unwritten
      BY <1>5 DEF Unwritten
    <3> QED
      BY <1>4, <2>1, <3>1 DEF FileTells, Telling, Entry
  <2>4. FoundTells'
    <3> SUFFICES ASSUME NEW w \in Runs, Saving(w)'
                 PROVE  /\ (Telling(found[w], w) = {SaveStatus(w)})'
                        /\ \A q \in Runs \ {w} : (Telling(found[w], q) \in Truths(q))'
      BY DEF FoundTells
    <3>1. Saving(w) /\ w # r /\ SaveStatus(w)' = SaveStatus(w)
      BY <1>2, <1>3, <1>4
    <3>2. Telling(found[w], w) = {SaveStatus(w)}
      BY <2>1, <3>1 DEF FoundTells
    <3>3. \A q \in Runs \ {w} : Telling(found[w], q) \in Truths(q)
      BY <2>1, <3>1 DEF FoundTells
    <3> QED
      BY <1>4, <3>1, <3>2, <3>3 DEF Telling, Entry
  <2>5. FoundMerged'
    <3> SUFFICES ASSUME NEW w \in Runs, pc'[w] \in Opening
                 PROVE  (found[w] = Merged(file.entries, w, SaveStatus(w)))'
      BY DEF FoundMerged
    <3>1. pc[w] \in Opening /\ w # r
      BY <1>2, <1>5
    <3>2. SaveStatus(w)' = SaveStatus(w) /\ found[w] = Merged(file.entries, w, SaveStatus(w))
      BY <1>2, <2>1, <3>1 DEF FoundMerged
    <3> QED
      BY <3>2 DEF Merged, Others, Entry
  <2>6. FileEmptied'
    BY <1>5, <2>1 DEF FileEmptied, NoJson
  <2> QED
    BY <2>2, <2>3, <2>4, <2>5, <2>6 DEF InTurn
<1>7. \A q \in Runs : pc'[q] \in PendingSteps => mode'[q] = "background"
  BY <1>2 DEF RegInv
<1>8. \A q \in Runs : pc'[q] \in ResultSteps => outcome'[q] \in Statuses
  BY <1>2 DEF RegInv
<1>9. Once(file.entries)' /\ \A q \in Runs : Once(found[q])'
  BY DEF RegInv, Once
<1> QED
  BY <1>6, <1>7, <1>8, <1>9 DEF RegInv

LEMMA RequestTold ==
    ASSUME RegInv, TypeOK', NEW r \in Runs, StartRun(r) \/ CreateRun(r)
    PROVE  RegInv'
<1>1. pc \in [Runs -> Steps] /\ mode \in [Runs -> {"none", "background", "inline", "cli"}]
  BY DEF RegInv, TypeOK
<1>2. pc[r] = "new" /\ UNCHANGED <<file, found, disturbed, outcome>>
  BY DEF StartRun, CreateRun
<1>3. PICK m \in {"background", "inline", "cli"} : mode' = [mode EXCEPT ![r] = m]
  BY DEF StartRun, CreateRun
<1>4. \/ pc' = [pc EXCEPT ![r] = "pending"] /\ m = "background"
      \/ pc' = [pc EXCEPT ![r] = "running"] /\ m # "background"
  <2>1. mode'[r] = m
    BY <1>1, <1>3
  <2>2. CASE StartRun(r)
    BY <1>1, <2>1, <2>2 DEF StartRun
  <2>3. CASE CreateRun(r)
    BY <1>1, <2>1, <2>3 DEF CreateRun
  <2> QED
    BY <2>2, <2>3
<1>5. mode'[r] = m /\ \A q \in Runs \ {r} : mode'[q] = mode[q] /\ outcome'[q] = outcome[q]
  BY <1>1, <1>2, <1>3
<1>6. PICK x \in {"pending", "running"} : /\ pc' = [pc EXCEPT ![r] = x]
                                          /\ x = "pending" <=> m = "background"
  BY <1>4
<1>7. Expected(r) = {"none"} /\ Expected(r)' = {"none"}
  <2>1. pc'[r] = x
    BY <1>1, <1>6
  <2> QED
    BY <1>2, <1>5, <1>6, <2>1, ExpectedIs, ExpectedNext
<1> QED
  BY <1>2, <1>5, <1>6, <1>7, QuietTold
     DEF Truths, Opening, Writing, PendingSteps, ResultSteps

LEMMA OrchestratorTold ==
    ASSUME RegInv, TypeOK', NEW r \in Runs, OrchestratorReturns(r) \/ OrchestratorRaises(r)
    PROVE  RegInv'
<1>1. pc \in [Runs -> Steps] /\ outcome \in [Runs -> Statuses \cup {"running"}]
  BY DEF RegInv, TypeOK
<1>2. pc[r] = "running" /\ UNCHANGED <<file, found, disturbed, mode>>
  BY DEF OrchestratorReturns, OrchestratorRaises
<1>3. PICK x \in {"result", "refused"} :
          /\ pc' = [pc EXCEPT ![r] = x]
          /\ x = "result" => \E s \in Statuses : outcome' = [outcome EXCEPT ![r] = s]
          /\ x = "refused" => outcome' = outcome /\ mode[r] # "background"
  BY DEF OrchestratorReturns, OrchestratorRaises, Statuses
<1>4. /\ \A q \in Runs \ {r} : mode'[q] = mode[q] /\ outcome'[q] = outcome[q]
      /\ x = "result" => outcome'[r] \in Statuses
  BY <1>1, <1>2, <1>3
<1>5. Expected(r)' = Expected(r)
  <2>1. pc'[r] = x
    BY <1>1, <1>3
  <2> QED
    BY <1>2, <1>3, <2>1, ExpectedIs, ExpectedNext
<1> QED
  BY <1>2, <1>3, <1>4, <1>5, QuietTold
     DEF Truths, Opening, Writing, PendingSteps, ResultSteps

\* What holds of the results of one run's save, in either of its two parts.
LEMMA ReadTold ==
    ASSUME RegInv, TypeOK', NEW r \in Runs, ReadForPending(r) \/ ReadForResult(r)
    PROVE  RegInv'
<1> DEFINE status == SaveStatus(r)
<1>1. /\ pc \in [Runs -> Steps] /\ found \in [Runs -> Entries] /\ file.entries \in Entries
      /\ outcome \in [Runs -> Statuses \cup {"running"}]
  BY DEF RegInv, TypeOK
<1>2. UNCHANGED <<file, mode, outcome>> /\ (disturbed => disturbed')
      /\ (~disturbed' => \A q \in Runs : ~Saving(q))
  BY DEF ReadForPending, ReadForResult, ReadFile
<1>3. PICK x \in {"pendingOpen", "resultOpen", "refused", "unsaved"} :
          /\ pc' = [pc EXCEPT ![r] = x]
          /\ \/ pc[r] = "pending" /\ x \in {"pendingOpen", "refused"}
             \/ pc[r] = "result" /\ x \in {"resultOpen", "unsaved"}
          /\ IF x \in Opening
             THEN found' = [found EXCEPT ![r] = Merged(file.entries, r, status)]
             ELSE found' = found
  <2>1. CASE ReadForPending(r)
    <3>1. status = "running" /\ pc[r] = "pending"
      BY <2>1 DEF SaveStatus, PendingSteps, ReadForPending
    <3> QED
      BY <2>1, <3>1 DEF ReadForPending, ReadFile, Opening
  <2>2. CASE ReadForResult(r)
    <3>1. status = outcome[r] /\ pc[r] = "result"
      BY <2>2 DEF SaveStatus, PendingSteps, ReadForResult
    <3> QED
      BY <2>2, <3>1 DEF ReadForResult, ReadFile, Opening
  <2> QED
    BY <2>1, <2>2
<1>4. status \in Statuses \cup {"running"}
  BY <1>1 DEF SaveStatus
<1>5. /\ pc'[r] = x
      /\ \A q \in Runs \ {r} :
             /\ pc'[q] = pc[q] /\ Truths(q)' = Truths(q) /\ SaveStatus(q)' = SaveStatus(q)
             /\ Saving(q)' <=> Saving(q)
  BY <1>1, <1>2, <1>3, OthersStay
<1>6. /\ mode[r] = "background" \/ pc[r] = "result"
      /\ pc[r] = "result" => outcome[r] \in Statuses
  BY <1>3 DEF RegInv, PendingSteps, ResultSteps
<1>7. Truths(r)' = Truths(r)
  <2>1. Expected(r)' = Expected(r)
    BY <1>2, <1>3, <1>5, <1>6, ExpectedIs, ExpectedNext
  <2> QED
    BY <2>1 DEF Truths
<1>8. CASE x \notin Opening
  <2>1. found' = found
    BY <1>3, <1>8
  <2>2. disturbed' = disturbed \/ disturbed'
    BY <1>2 DEF RegInv, TypeOK
  <2>3. disturbed' \/ disturbed' = disturbed
    BY <1>2 DEF RegInv, TypeOK
  <2>4. CASE disturbed' = disturbed
    <3>1. pc[r] \notin Opening \cup Writing /\ x \notin Opening \cup Writing
      BY <1>3, <1>8 DEF Opening, Writing
    <3>2. x \notin PendingSteps /\ x \notin ResultSteps
      BY <1>3, <1>8 DEF Opening, PendingSteps, ResultSteps
    <3> QED
      BY <1>2, <1>3, <1>7, <2>1, <2>4, <3>1, <3>2, QuietTold
  <2>5. CASE disturbed'
    <3>1. \A q \in Runs : pc'[q] \in PendingSteps => mode'[q] = "background"
      BY <1>2, <1>3, <1>5, <1>8 DEF RegInv, PendingSteps, Opening
    <3>2. \A q \in Runs : pc'[q] \in ResultSteps => outcome'[q] \in Statuses
      BY <1>2, <1>3, <1>5, <1>8 DEF RegInv, ResultSteps, Opening
    <3>3. Once(file.entries)' /\ \A q \in Runs : Once(found[q])'
      BY <1>2, <2>1 DEF RegInv, Once
    <3> QED
      BY <2>5, <3>1, <3>2, <3>3 DEF RegInv
  <2> QED
    BY <2>3, <2>4, <2>5
<1>9. CASE x \in Opening
  <2> DEFINE m == Merged(file.entries, r, status)
  <2>1. /\ Once(m) /\ Telling(m, r) = {status}
        /\ \A q \in Runs \ {r} : Telling(m, q) = Telling(file.entries, q)
    BY <1>1, <1>4, MergedFacts DEF RegInv
  <2> HIDE DEF m
  <2>2. found'[r] = m /\ \A q \in Runs \ {r} : found'[q] = found[q]
    BY <1>1, <1>3, <1>9 DEF m
  <2>3. SaveStatus(r)' = status
    BY <1>2, <1>3, <1>5, <1>9 DEF SaveStatus, PendingSteps, Opening
  <2>4. ASSUME ~disturbed' PROVE InTurn'
    <3>1. FileTells /\ ~disturbed /\ \A q \in Runs : ~Saving(q)
      BY <1>2, <2>4 DEF RegInv, InTurn
    <3>2. Unwritten
      BY <3>1 DEF Unwritten, Saving
    <3>3. \A q \in Runs : Saving(q)' => q = r
      BY <1>5, <3>1
    <3>4. \A q \in Runs : Telling(file.entries, q) \in Truths(q) /\ Truths(q)' = Truths(q)
      BY <1>5, <1>7, <3>1, <3>2 DEF FileTells
    <3>5. OneSaver'
      BY <3>3 DEF OneSaver
    <3>6. FileTells'
      BY <1>2, <3>1, <3>2, <3>4 DEF FileTells, Telling, Entry
    <3>7. FoundTells'
      <4>1. (Telling(found[r], r) = {SaveStatus(r)})'
        BY <2>1, <2>2, <2>3 DEF Telling, Entry
      <4>2. ASSUME NEW q \in Runs \ {r} PROVE (Telling(found[r], q) \in Truths(q))'
        BY <2>1, <2>2, <3>4 DEF Telling, Entry
      <4> QED
        BY <3>3, <4>1, <4>2 DEF FoundTells
    <3>8. FoundMerged'
      <4>1. \A q \in Runs : pc'[q] \in Opening => q = r
        BY <3>3 DEF Saving
      <4>2. (found[r] = Merged(file.entries, r, SaveStatus(r)))'
        BY <1>2, <2>2, <2>3 DEF m, Merged, Others, Entry
      <4> QED
        BY <4>1, <4>2 DEF FoundMerged
    <3>9. FileEmptied'
      <4>1. \A q \in Runs : pc'[q] \notin Writing
        BY <1>5, <1>9, <3>1 DEF Saving, Opening, Writing
      <4> QED
        BY <4>1 DEF FileEmptied
    <3> QED
      BY <3>5, <3>6, <3>7, <3>8, <3>9 DEF InTurn
  <2>5. \A q \in Runs : pc'[q] \in PendingSteps => mode'[q] = "background"
    BY <1>2, <1>3, <1>5, <1>6 DEF RegInv, PendingSteps
  <2>6. \A q \in Runs : pc'[q] \in ResultSteps => outcome'[q] \in Statuses
    BY <1>2, <1>3, <1>5, <1>6 DEF RegInv, ResultSteps
  <2>7. Once(file.entries)' /\ \A q \in Runs : Once(found[q])'
    BY <1>2, <2>1, <2>2 DEF RegInv, Once
  <2> QED
    BY <2>4, <2>5, <2>6, <2>7 DEF RegInv
<1> QED
  BY <1>8, <1>9

LEMMA OpenTold ==
    ASSUME RegInv, TypeOK', NEW r \in Runs, OpenForPending(r) \/ OpenForResult(r)
    PROVE  RegInv'
<1>1. pc \in [Runs -> Steps]
  BY DEF RegInv, TypeOK
<1>2. file' = NoJson /\ UNCHANGED <<mode, found, outcome, disturbed>>
  BY DEF OpenForPending, OpenForResult, OpenFile
<1>3. PICK x \in Writing :
          /\ pc' = [pc EXCEPT ![r] = x]
          /\ \/ pc[r] = "pendingOpen" /\ x = "pendingWrite"
             \/ pc[r] = "resultOpen" /\ x = "resultWrite"
  BY DEF OpenForPending, OpenForResult, OpenFile, Writing
<1>4. /\ pc'[r] = x
      /\ \A q \in Runs \ {r} :
             /\ pc'[q] = pc[q] /\ Truths(q)' = Truths(q) /\ SaveStatus(q)' = SaveStatus(q)
             /\ Saving(q)' <=> Saving(q)
  BY <1>1, <1>2, <1>3, OthersStay
<1>5. Saving(r) /\ Saving(r)' /\ SaveStatus(r)' = SaveStatus(r)
  BY <1>2, <1>3, <1>4 DEF Saving, Opening, Writing, SaveStatus, PendingSteps
<1>6. ASSUME ~disturbed PROVE InTurn'
  <2>1. OneSaver /\ FoundTells
    BY <1>6 DEF RegInv, InTurn
  <2>2. \A q \in Runs : Saving(q)' => q = r
    BY <1>4, <1>5, <2>1 DEF OneSaver
  <2>3. OneSaver'
    BY <2>2 DEF OneSaver
  <2>4. FileTells'
    BY <1>3, <1>4 DEF FileTells, Unwritten
  <2>5. FoundTells'
    <3>1. Telling(found[r], r) = {SaveStatus(r)}
      BY <1>5, <2>1 DEF FoundTells
    <3>2. \A q \in Runs \ {r} : Telling(found[r], q) \in Truths(q)
      BY <1>5, <2>1 DEF FoundTells
    <3>3. (Telling(found[r], r) = {SaveStatus(r)})'
      BY <1>2, <1>5, <3>1 DEF Telling, Entry
    <3>4. \A q \in Runs \ {r} : (Telling(found[r], q) \in Truths(q))'
      BY <1>2, <1>4, <3>2 DEF Telling, Entry
    <3> QED
      BY <2>2, <3>3, <3>4 DEF FoundTells
  <2>6. FoundMerged'
    <3>1. \A q \in Runs : pc'[q] \notin Opening
      BY <1>3, <1>4, <2>2 DEF Saving, Opening, Writing
    <3> QED
      BY <3>1 DEF FoundMerged
  <2>7. FileEmptied'
    BY <1>2 DEF FileEmptied, NoJson
  <2> QED
    BY <2>3, <2>4, <2>5, <2>6, <2>7 DEF InTurn
<1>7. \A q \in Runs : pc'[q] \in PendingSteps => mode'[q] = "background"
  BY <1>2, <1>3, <1>4 DEF RegInv, PendingSteps
<1>8. \A q \in Runs : pc'[q] \in ResultSteps => outcome'[q] \in Statuses
  BY <1>2, <1>3, <1>4 DEF RegInv, ResultSteps
<1>9. Once(file.entries)' /\ \A q \in Runs : Once(found[q])'
  BY <1>2 DEF RegInv, Once, NoJson
<1> QED
  BY <1>2, <1>6, <1>7, <1>8, <1>9 DEF RegInv

LEMMA WriteTold ==
    ASSUME RegInv, TypeOK', NEW r \in Runs, WritePending(r) \/ WriteResult(r)
    PROVE  RegInv'
<1>1. pc \in [Runs -> Steps] /\ found \in [Runs -> Entries]
  BY DEF RegInv, TypeOK
<1>2. /\ UNCHANGED <<mode, outcome, disturbed>> /\ found' = [found EXCEPT ![r] = <<>>]
      /\ file' = Json(found[r]) \/ (file.json /\ file' = NoJson)
  BY DEF WritePending, WriteResult, WriteFile
<1>3. PICK x \in {"running", "saved"} :
          /\ pc' = [pc EXCEPT ![r] = x]
          /\ \/ pc[r] = "pendingWrite" /\ x = "running"
             \/ pc[r] = "resultWrite" /\ x = "saved"
  BY DEF WritePending, WriteResult, WriteFile
<1>4. /\ pc'[r] = x
      /\ \A q \in Runs \ {r} :
             /\ pc'[q] = pc[q] /\ Truths(q)' = Truths(q) /\ SaveStatus(q)' = SaveStatus(q)
             /\ Saving(q)' <=> Saving(q)
  BY <1>1, <1>2, <1>3, OthersStay
<1>5. Saving(r) /\ ~(Saving(r)') /\ pc[r] \in Writing
  BY <1>3, <1>4 DEF Saving, Opening, Writing
<1>6. {SaveStatus(r)} \in Truths(r)'
  <2>1. CASE pc[r] = "pendingWrite"
    <3>1. SaveStatus(r) = "running" /\ mode[r] = "background" /\ x = "running"
      BY <1>3, <2>1 DEF SaveStatus, PendingSteps, RegInv
    <3>2. Expected(r)' = {"running"}
      BY <1>2, <1>4, <3>1, ExpectedNext
    <3> QED
      BY <3>1, <3>2 DEF Truths
  <2>2. CASE pc[r] = "resultWrite"
    <3>1. SaveStatus(r) = outcome[r] /\ outcome[r] \in Statuses /\ x = "saved"
      BY <1>3, <2>2 DEF SaveStatus, PendingSteps, RegInv, ResultSteps
    <3>2. Expected(r)' = {outcome[r]}
      BY <1>2, <1>4, <3>1, ExpectedNext
    <3>3. outcome[r] # "none"
      BY <3>1 DEF Statuses
    <3> QED
      BY <3>1, <3>2, <3>3 DEF Truths
  <2> QED
    BY <1>3, <2>1, <2>2
<1>7. ASSUME ~disturbed PROVE InTurn'
  <2>1. OneSaver /\ FoundTells /\ FileEmptied
    BY <1>7 DEF RegInv, InTurn
  <2>2. file' = Json(found[r])
    BY <1>2, <1>5, <2>1 DEF FileEmptied, NoJson
  <2>3. \A q \in Runs : ~(Saving(q)')
    BY <1>4, <1>5, <2>1 DEF OneSaver
  <2>4. FileTells'
    <3>1. Telling(found[r], r) = {SaveStatus(r)}
      BY <1>5, <2>1 DEF FoundTells
    <3>2. \A q \in Runs \ {r} : Telling(found[r], q) \in Truths(q)
      BY <1>5, <2>1 DEF FoundTells
    <3>3. file'.json /\ file'.entries = found[r]
      BY <2>2 DEF Json
    <3>4. (Telling(file.entries, r) \in Truths(r))'
      <4>1. Telling(file'.entries, r) = {SaveStatus(r)}
        BY <3>1, <3>3
      <4>2. Telling(file.entries, r)' = Telling(file'.entries, r)
        BY DEF Telling, Entry
      <4> QED
        BY <1>6, <4>1, <4>2
    <3>5. \A q \in Runs \ {r} : (Telling(file.entries, q) \in Truths(q))'
      BY <1>4, <3>2, <3>3 DEF Telling, Entry
    <3> QED
      BY <3>3, <3>4, <3>5 DEF FileTells
  <2>5. OneSaver' /\ FoundTells'
    BY <2>3 DEF OneSaver, FoundTells
  <2>6. FoundMerged' /\ FileEmptied'
    BY <2>3 DEF FoundMerged, FileEmptied, Saving
  <2> QED
    BY <2>4, <2>5, <2>6 DEF InTurn
<1>8. \A q \in Runs : pc'[q] \in PendingSteps => mode'[q] = "background"
  BY <1>2, <1>3, <1>4 DEF RegInv, PendingSteps
<1>9. \A q \in Runs : pc'[q] \in ResultSteps => outcome'[q] \in Statuses
  BY <1>2, <1>3, <1>4 DEF RegInv, ResultSteps
<1>10. Once(file.entries)' /\ \A q \in Runs : Once(found[q])'
  BY <1>1, <1>2 DEF RegInv, Once, NoJson, Json
<1>11. disturbed' = disturbed
  BY <1>2
<1> QED
  BY <1>7, <1>8, <1>9, <1>10, <1>11 DEF RegInv

LEMMA KillTold ==
    ASSUME RegInv, TypeOK', NEW rs \in SUBSET Runs, \A r \in rs : Live(r), Killed(rs)
    PROVE  RegInv'
<1>1. pc \in [Runs -> Steps] /\ found \in [Runs -> Entries]
  BY DEF RegInv, TypeOK
<1>2. /\ UNCHANGED <<file, mode, outcome>> /\ (disturbed => disturbed')
      /\ ~disturbed' => \A r \in rs : ~Saving(r)
      /\ \A r \in Runs : /\ r \in rs => pc'[r] = "died" /\ found'[r] = <<>>
                         /\ r \notin rs => pc'[r] = pc[r] /\ found'[r] = found[r]
  BY DEF Killed
<1>3. ASSUME ~disturbed' PROVE InTurn'
  <2>1. OneSaver /\ FileTells /\ FoundTells /\ FoundMerged /\ FileEmptied
    BY <1>2, <1>3 DEF RegInv, InTurn
  <2>2. \A w \in Runs : Saving(w)' => w \notin rs /\ Saving(w)
    BY <1>2 DEF Saving, Opening, Writing
  <2>3. \A w \in Runs : pc'[w] = pc[w] \/ (w \in rs /\ ~Saving(w) /\ pc'[w] = "died")
    BY <1>2, <1>3
  <2>4. \A w \in Runs : w \notin rs => SaveStatus(w)' = SaveStatus(w)
    BY <1>2 DEF SaveStatus, PendingSteps
  <2>5. \A q \in Runs : Truths(q) \subseteq Truths(q)'
    <3> SUFFICES ASSUME NEW q \in Runs PROVE Truths(q) \subseteq Truths(q)'
      OBVIOUS
    <3>1. CASE q \notin rs
      BY <1>2, <3>1 DEF Truths, Expected
    <3>2. CASE q \in rs
      <4>1. Expected(q)' = {"running", "none"}
        BY <1>2, <3>2, ExpectedNext
      <4>2. pc[q] \in {"pending", "running", "result"}
        BY <1>2, <1>3, <3>2 DEF Live
      <4>3. Expected(q) = {"running"} \/ Expected(q) = {"none"}
        BY <4>2, ExpectedIs
      <4> QED
        BY <4>1, <4>3 DEF Truths
    <3> QED
      BY <3>1, <3>2
  <2>6. OneSaver'
    BY <2>1, <2>2 DEF OneSaver
  <2>7. FileTells'
    <3>1. Unwritten' => Unwritten
      BY <2>3 DEF Unwritten, Saving
    <3> QED
      BY <1>2, <2>1, <2>5, <3>1 DEF FileTells, Telling, Entry
  <2>8. FoundTells'
    <3> SUFFICES ASSUME NEW w \in Runs, Saving(w)'
                 PROVE  /\ (Telling(found[w], w) = {SaveStatus(w)})'
                        /\ \A q \in Runs \ {w} : (Telling(found[w], q) \in Truths(q))'
      BY DEF FoundTells
    <3>1. Saving(w) /\ SaveStatus(w)' = SaveStatus(w) /\ found'[w] = found[w]
      BY <1>2, <2>2, <2>4
    <3>2. Telling(found[w], w) = {SaveStatus(w)}
      BY <2>1, <3>1 DEF FoundTells
    <3>3. \A q \in Runs \ {w} : Telling(found[w], q) \in Truths(q)
      BY <2>1, <3>1 DEF FoundTells
    <3> QED
      BY <2>5, <3>1, <3>2, <3>3 DEF Telling, Entry
  <2>9. FoundMerged'
    <3> SUFFICES ASSUME NEW w \in Runs, pc'[w] \in Opening
                 PROVE  (found[w] = Merged(file.entries, w, SaveStatus(w)))'
      BY DEF FoundMerged
    <3>1. pc[w] \in Opening /\ w \notin rs
      BY <1>2 DEF Opening
    <3>2. /\ SaveStatus(w)' = SaveStatus(w) /\ found'[w] = found[w]
          /\ found[w] = Merged(file.entries, w, SaveStatus(w))
      BY <1>2, <2>1, <2>4, <3>1 DEF FoundMerged
    <3>3. file' = file
      BY <1>2
    <3> QED
      BY <3>2, <3>3 DEF Merged, Others, Entry
  <2>10. FileEmptied'
    <3>1. \A w \in Runs : pc'[w] \in Writing => pc[w] \in Writing
      BY <1>2 DEF Writing
    <3> QED
      BY <1>2, <2>1, <3>1 DEF FileEmptied, NoJson
  <2> QED
    BY <2>6, <2>7, <2>8, <2>9, <2>10 DEF InTurn
<1>4. \A q \in Runs : pc'[q] \in PendingSteps => mode'[q] = "background"
  BY <1>2 DEF RegInv, PendingSteps
<1>5. \A q \in Runs : pc'[q] \in ResultSteps => outcome'[q] \in Statuses
  BY <1>2 DEF RegInv, ResultSteps
<1>6. Once(file.entries)' /\ \A q \in Runs : Once(found[q])'
  BY <1>2 DEF RegInv, Once
<1> QED
  BY <1>3, <1>4, <1>5, <1>6 DEF RegInv

LEMMA RegInvStep == ASSUME RegInv, [Next]_vars PROVE RegInv'
<1>1. TypeOK'
  BY RegTypes
<1>2. ASSUME NEW r \in Runs, Step(r) PROVE RegInv'
  BY <1>1, <1>2, ReadTold, OpenTold, WriteTold, OrchestratorTold DEF Step
<1>3. CASE ServerDies
  <2>1. PICK rs \in SUBSET Runs : rs = {r \in Runs : Live(r) /\ mode[r] # "cli"}
    OBVIOUS
  <2> QED
    BY <1>1, <1>3, <2>1, KillTold DEF ServerDies
<1>4. ASSUME NEW r \in Runs, CliDies(r) PROVE RegInv'
  <2>1. PICK rs \in SUBSET Runs : rs = {r}
    OBVIOUS
  <2> QED
    BY <1>1, <1>4, <2>1, KillTold DEF CliDies
<1>5. CASE UNCHANGED vars
  <2>1. UNCHANGED <<file, pc, mode, found, outcome, disturbed>>
    BY <1>5 DEF vars
  <2>2. Once(file.entries)' /\ \A r \in Runs : Once(found[r])'
    BY <2>1 DEF RegInv, Once
  <2>3. ASSUME InTurn PROVE InTurn'
    <3>1. OneSaver' /\ FileTells' /\ FileEmptied'
      BY <2>1, <2>3 DEF InTurn, OneSaver, FileTells, FileEmptied, Saving, Unwritten, Telling,
         Entry, Truths, Expected, NoJson
    <3>2. FoundTells'
      BY <2>1, <2>3 DEF InTurn, FoundTells, Saving, Telling, Entry, Truths, Expected, SaveStatus
    <3>3. FoundMerged'
      <4> SUFFICES ASSUME NEW w \in Runs, pc'[w] \in Opening
                   PROVE  (found[w] = Merged(file.entries, w, SaveStatus(w)))'
        BY DEF FoundMerged
      <4>1. found[w] = Merged(file.entries, w, SaveStatus(w)) /\ SaveStatus(w)' = SaveStatus(w)
        BY <2>1, <2>3 DEF InTurn, FoundMerged, SaveStatus, PendingSteps
      <4>2. found' = found /\ file' = file
        BY <2>1
      <4> QED
        BY <4>1, <4>2 DEF Merged, Others, Entry
    <3> QED
      BY <3>1, <3>2, <3>3 DEF InTurn
  <2> QED
    BY <1>1, <2>1, <2>2, <2>3 DEF RegInv
<1> QED
  BY <1>1, <1>2, <1>3, <1>4, <1>5, RequestTold DEF Next

LEMMA RegInvAlways == WorkspaceSpec => []RegInv
<1>1. Init => RegInv
  <2> SUFFICES ASSUME Init PROVE RegInv
    OBVIOUS
  <2>1. TypeOK
    <3>1. <<>> \in Entries
      BY DEF Entries
    <3>2. file \in [json : BOOLEAN, entries : Entries] /\ found \in [Runs -> Entries]
      BY <3>1 DEF Init, Json
    <3>3. kills \in 0..MaxKills
      BY KillsAssumption DEF Init
    <3>4. pc \in [Runs -> Steps] /\ disturbed \in BOOLEAN
      BY DEF Init, Steps
    <3> QED
      BY <3>2, <3>3, <3>4 DEF Init, TypeOK
  <2>2. /\ file.json /\ file.entries = <<>> /\ \A r \in Runs : pc[r] = "new" /\ found[r] = <<>>
    BY DEF Init, Json
  <2>3. \A r \in Runs : Telling(file.entries, r) \in Truths(r)
    <3> SUFFICES ASSUME NEW r \in Runs PROVE Telling(file.entries, r) \in Truths(r)
      OBVIOUS
    <3>1. Telling(file.entries, r) = {}
      BY <2>2 DEF Telling
    <3>2. Expected(r) = {"none"}
      BY <2>2, ExpectedIs
    <3> QED
      BY <3>1, <3>2 DEF Truths
  <2>4. InTurn
    BY <2>2, <2>3 DEF InTurn, OneSaver, FileTells, FoundTells, FoundMerged, FileEmptied, Saving,
       Opening, Writing
  <2> QED
    BY <2>1, <2>2, <2>4 DEF RegInv, Once, PendingSteps, ResultSteps
<1>2. WorkspaceInit => Init
  BY DEF WorkspaceInit
<1> QED
  BY <1>1, <1>2, RegInvStep, RegistrySteps, PTL DEF WorkspaceSpec

\* However the saves of the server's threads and of the CLI interleave, no run is
\* listed twice; and as long as they follow each other and none is cut short, the
\* registry tells of every run what is so, whatever was started, refused or killed.
THEOREM RegistryIsExact == WorkspaceSpec => []RegistryExact
<1>1. ASSUME RegInv PROVE RegistryExact
  <2>1. RunsListedOnce
    BY <1>1 DEF RegInv, Once, RunsListedOnce
  <2>2. ASSUME ~disturbed, ~\E r \in Runs : pc[r] \in Writing
        PROVE  file.json /\ \A r \in Runs : Told(r) \in {{s} \ {"none"} : s \in Expected(r)}
    <3>1. FileTells /\ Unwritten
      BY <1>1, <2>2 DEF RegInv, InTurn, Unwritten
    <3> QED
      BY <3>1 DEF FileTells, Telling, Truths, Told, Recorded
  <2> QED
    BY <2>1, <2>2 DEF RegistryExact
<1> QED
  BY <1>1, RegInvAlways, PTL

-----------------------------------------------------------------------------
(* The client that pages *)

\* What is about to be written is no shorter behind a result than the file is.
LEMMA FoundDeep ==
    ASSUME RegInv, ~disturbed, Unwritten, NEW d \in Runs, pc[d] = "saved", NEW k \in Nat,
           Deep(file.entries, d, k), NEW w \in Runs, Saving(w)
    PROVE  Deep(found[w], d, k)
<1>1. pc[w] \in Opening /\ d # w
  BY DEF Saving, Unwritten, Opening, Writing
<1>2. found[w] = Merged(file.entries, w, SaveStatus(w))
  BY <1>1 DEF RegInv, InTurn, FoundMerged
<1>3. /\ file.entries \in Entries /\ Once(file.entries)
      /\ SaveStatus(w) \in Statuses \cup {"running"}
  BY DEF RegInv, TypeOK, SaveStatus
<1> QED
  BY <1>1, <1>2, <1>3, MergedFacts

\* A result stays, and gets no nearer to the front page, whatever is saved.
LEMMA ResultsStay ==
    ASSUME RegInv, [Next]_vars, ~disturbed', NEW d \in Runs, pc[d] = "saved", NEW k \in Nat,
           Unwritten => Deep(file.entries, d, k),
           \A w \in Runs : Saving(w) => Deep(found[w], d, k)
    PROVE  /\ pc'[d] = "saved"
           /\ Unwritten' => Deep(file'.entries, d, k)
           /\ \A w \in Runs : Saving(w)' => Deep(found'[w], d, k)
<1>1. pc \in [Runs -> Steps] /\ found \in [Runs -> Entries]
  BY DEF RegInv, TypeOK
<1>2. ASSUME NEW r \in Runs, NEW x, pc' = [pc EXCEPT ![r] = x], pc[r] # "saved",
             pc[r] \notin Writing, x \notin Writing, file' = file,
             \A w \in Runs : Saving(w)' => (found'[w] = found[w] /\ Saving(w))
                                            \/ Deep(found'[w], d, k)
      PROVE  /\ pc'[d] = "saved"
             /\ Unwritten' => Deep(file'.entries, d, k)
             /\ \A w \in Runs : Saving(w)' => Deep(found'[w], d, k)
  <2>1. \A q \in Runs : pc'[q] \in Writing <=> pc[q] \in Writing
    BY <1>1, <1>2
  <2>2. pc'[d] = "saved"
    BY <1>1, <1>2
  <2>3. Unwritten' => Unwritten
    BY <2>1 DEF Unwritten
  <2> QED
    BY <1>2, <2>2, <2>3
<1>3. ASSUME NEW r \in Runs, StartRun(r) \/ CreateRun(r) \/ OrchestratorReturns(r)
                             \/ OrchestratorRaises(r)
      PROVE  /\ pc'[d] = "saved"
             /\ Unwritten' => Deep(file'.entries, d, k)
             /\ \A w \in Runs : Saving(w)' => Deep(found'[w], d, k)
  <2>1. PICK x \in {"pending", "running", "result", "refused"} : pc' = [pc EXCEPT ![r] = x]
    BY <1>3 DEF StartRun, CreateRun, OrchestratorReturns, OrchestratorRaises
  <2>2. pc[r] \in {"new", "running"} /\ file' = file /\ found' = found
    BY <1>3 DEF StartRun, CreateRun, OrchestratorReturns, OrchestratorRaises
  <2>3. \A w \in Runs : Saving(w)' => found'[w] = found[w] /\ Saving(w)
    BY <1>1, <2>1, <2>2 DEF Saving, Opening, Writing
  <2> QED
    BY <1>2, <2>1, <2>2, <2>3 DEF Writing
<1>4. ASSUME NEW r \in Runs, ReadForPending(r) \/ ReadForResult(r)
      PROVE  /\ pc'[d] = "saved"
             /\ Unwritten' => Deep(file'.entries, d, k)
             /\ \A w \in Runs : Saving(w)' => Deep(found'[w], d, k)
  <2>1. PICK x \in {"pendingOpen", "resultOpen", "refused", "unsaved"} :
            pc' = [pc EXCEPT ![r] = x]
    BY <1>4 DEF ReadForPending, ReadForResult, ReadFile
  <2>2. PICK status \in Statuses \cup {"running"} :
            \/ found' = [found EXCEPT ![r] = Merged(file.entries, r, status)]
            \/ found' = found /\ x \in {"refused", "unsaved"}
    <3>1. outcome[r] \in Statuses \cup {"running"}
      BY DEF RegInv, TypeOK
    <3>2. CASE ReadForPending(r)
      BY <1>1, <2>1, <3>2 DEF ReadForPending, ReadFile
    <3>3. CASE ReadForResult(r)
      BY <1>1, <2>1, <3>1, <3>3 DEF ReadForResult, ReadFile
    <3> QED
      BY <1>4, <3>2, <3>3
  <2>3. /\ pc[r] \in {"pending", "result"} /\ file' = file
        /\ \A q \in Runs : ~Saving(q)
    BY <1>4 DEF ReadForPending, ReadForResult, ReadFile
  <2>4. Deep(file.entries, d, k)
    BY <2>3 DEF Unwritten, Saving
  <2>5. d # r /\ Deep(Merged(file.entries, r, status), d, k)
    <3>1. file.entries \in Entries /\ Once(file.entries) /\ d # r
      BY <2>3 DEF RegInv, TypeOK
    <3> QED
      BY <2>4, <3>1, MergedFacts
  <2>6. \A w \in Runs : Saving(w)' => Deep(found'[w], d, k)
    <3>1. \A w \in Runs : Saving(w)' => w = r /\ x \notin {"refused", "unsaved"}
      BY <1>1, <2>1, <2>3 DEF Saving, Opening, Writing
    <3> QED
      BY <1>1, <2>2, <2>5, <3>1
  <2> QED
    BY <1>2, <2>1, <2>3, <2>6 DEF Writing
<1>5. ASSUME NEW r \in Runs, OpenForPending(r) \/ OpenForResult(r)
      PROVE  /\ pc'[d] = "saved"
             /\ Unwritten' => Deep(file'.entries, d, k)
             /\ \A w \in Runs : Saving(w)' => Deep(found'[w], d, k)
  <2>1. /\ pc[r] \in Opening /\ found' = found
        /\ \E x \in Writing : pc' = [pc EXCEPT ![r] = x]
    BY <1>5 DEF OpenForPending, OpenForResult, OpenFile, Opening, Writing
  <2>2. ~(Unwritten')
    BY <1>1, <2>1 DEF Unwritten
  <2>3. pc'[d] = "saved"
    BY <1>1, <2>1 DEF Opening
  <2>4. \A w \in Runs : Saving(w)' => Saving(w)
    BY <1>1, <2>1 DEF Saving
  <2> QED
    BY <2>1, <2>2, <2>3, <2>4
<1>6. ASSUME NEW r \in Runs, WritePending(r) \/ WriteResult(r)
      PROVE  /\ pc'[d] = "saved"
             /\ Unwritten' => Deep(file'.entries, d, k)
             /\ \A w \in Runs : Saving(w)' => Deep(found'[w], d, k)
  <2>1. /\ pc[r] \in Writing /\ disturbed' = disturbed
        /\ found' = [found EXCEPT ![r] = <<>>]
        /\ file' = Json(found[r]) \/ (file.json /\ file' = NoJson)
        /\ \E x \in {"running", "saved"} : pc' = [pc EXCEPT ![r] = x]
    BY <1>6 DEF WritePending, WriteResult, WriteFile, Writing
  <2>2. Saving(r) /\ OneSaver /\ FileEmptied
    BY <2>1 DEF RegInv, InTurn, Saving
  <2>3. file'.entries = found[r]
    BY <2>1, <2>2 DEF FileEmptied, NoJson, Json
  <2>4. pc'[d] = "saved"
    BY <1>1, <2>1 DEF Writing
  <2>5. \A w \in Runs : ~(Saving(w)')
    BY <1>1, <2>1, <2>2 DEF OneSaver, Saving, Opening, Writing
  <2> QED
    BY <2>2, <2>3, <2>4, <2>5
<1>7. ASSUME NEW rs, \A r \in rs : Live(r), Killed(rs)
      PROVE  /\ pc'[d] = "saved"
             /\ Unwritten' => Deep(file'.entries, d, k)
             /\ \A w \in Runs : Saving(w)' => Deep(found'[w], d, k)
  <2>1. /\ file' = file
        /\ \A r \in rs : ~Saving(r)
        /\ \A r \in Runs : /\ r \in rs => pc'[r] = "died"
                           /\ r \notin rs => pc'[r] = pc[r] /\ found'[r] = found[r]
    BY <1>7 DEF Killed
  <2>2. d \notin rs
    BY <1>7 DEF Live, Saving, Opening, Writing
  <2>3. Unwritten' => Unwritten
    BY <2>1 DEF Unwritten, Saving
  <2>4. \A w \in Runs : Saving(w)' => Saving(w) /\ w \notin rs
    BY <2>1 DEF Saving, Opening, Writing
  <2> QED
    BY <2>1, <2>2, <2>3, <2>4
<1>8. CASE UNCHANGED vars
  BY <1>8 DEF vars, Unwritten, Saving
<1>9. CASE ServerDies
  BY <1>7, <1>9 DEF ServerDies
<1>10. CASE \E r \in Runs : CliDies(r)
  BY <1>7, <1>10 DEF CliDies
<1> QED
  BY <1>3, <1>4, <1>5, <1>6, <1>8, <1>9, <1>10 DEF Next, Step

LEMMA DisturbedStays == ASSUME [Next]_vars, disturbed PROVE disturbed'
<1>1. ASSUME NEW r \in Runs, Step(r) \/ StartRun(r) \/ CreateRun(r) PROVE disturbed'
  BY <1>1 DEF Step, StartRun, CreateRun, ReadForPending, OpenForPending, WritePending,
     OrchestratorReturns, OrchestratorRaises, ReadForResult, OpenForResult, WriteResult, ReadFile,
     OpenFile, WriteFile
<1>2. CASE ServerDies \/ \E r \in Runs : CliDies(r)
  BY <1>2 DEF ServerDies, CliDies, Killed
<1> QED
  BY <1>1, <1>2 DEF Next, vars

\* A run whose result was saved is over.
LEMMA SavedStays ==
    ASSUME RegInv, [Next]_vars, NEW d \in Runs, pc[d] = "saved" PROVE pc'[d] = "saved"
<1>1. pc \in [Runs -> Steps]
  BY DEF RegInv, TypeOK
<1>2. ASSUME NEW r \in Runs, Step(r) \/ StartRun(r) \/ CreateRun(r) PROVE pc'[d] = "saved"
  <2>1. pc[r] # "saved" /\ \E x : pc' = [pc EXCEPT ![r] = x]
    BY <1>2 DEF Step, StartRun, CreateRun, ReadForPending, OpenForPending, WritePending,
       OrchestratorReturns, OrchestratorRaises, ReadForResult, OpenForResult, WriteResult, ReadFile,
       OpenFile, WriteFile
  <2> QED
    BY <1>1, <2>1
<1>3. CASE ServerDies \/ \E r \in Runs : CliDies(r)
  BY <1>3 DEF ServerDies, CliDies, Killed, Live, Saving, Opening, Writing
<1> QED
  BY <1>2, <1>3 DEF Next, vars

\* A run saves no more artifacts than its bound.
SavesBounded == saves \in [Runs -> Nat] /\ \A r \in Runs : saves[r] <= MaxSaves[r]

LEMMA SavesBoundedAlways == WorkspaceSpec => []SavesBounded
<1>1. WorkspaceInit => SavesBounded
  BY WorkspaceAssumption DEF WorkspaceInit, SavesBounded
<1>2. ASSUME SavesBounded, [WorkspaceNext]_wsVars PROVE SavesBounded'
  <2>1. ASSUME NEW r \in Runs, Save(r) PROVE SavesBounded'
    <3>1. saves[r] < MaxSaves[r] /\ saves' = [saves EXCEPT ![r] = saves[r] + 1]
      BY <2>1 DEF Save
    <3>2. saves \in [Runs -> Nat] /\ \A q \in Runs : saves[q] <= MaxSaves[q]
      BY <1>2 DEF SavesBounded
    <3>3. MaxSaves \in [Runs -> Nat]
      BY WorkspaceAssumption
    <3>4. saves[r] \in Nat /\ MaxSaves[r] \in Nat
      BY <3>2, <3>3
    <3>5. saves[r] + 1 \in Nat /\ saves[r] + 1 <= MaxSaves[r]
      BY <3>1, <3>4
    <3>6. saves' \in [Runs -> Nat]
      BY <3>1, <3>2, <3>5
    <3>7. \A q \in Runs : saves'[q] <= MaxSaves[q]
      BY <3>1, <3>2, <3>5
    <3> QED
      BY <3>6, <3>7 DEF SavesBounded
  <2>2. saves' = saves \/ \E r \in Runs : Save(r)
    BY <1>2 DEF WorkspaceNext, wsVars, roundVars, Request, RunStep, AppendEvent, CliEnds,
       ProcessDies, Client
  <2> QED
    BY <1>2, <2>1, <2>2 DEF SavesBounded
<1> QED
  BY <1>1, <1>2, PTL DEF WorkspaceSpec

\* What a page does not show of the results it comes to is on a later one.
LEMMA PageFacts ==
    ASSUME NEW entries \in Entries, NEW from \in Nat, NEW d \in Runs, Deep(entries, d, from),
           d \notin Page(entries, from)
    PROVE  Deep(entries, d, from + Limit) /\ ~(from + Limit >= Len(entries))
<1> DEFINE n == Len(entries)
<1>1. n \in Nat /\ DOMAIN entries = 1..n /\ Limit \in Nat
  BY WorkspaceAssumption DEF Entries
<1>2. PICK i \in 1..n : entries[i].run = d /\ n - i >= from
  BY <1>1 DEF Deep
<1> DEFINE p == (n + 1) - i
<1>3. p \in 1..n /\ p > from /\ (n + 1) - p = i
  BY <1>1, <1>2
<1>4. ~(p <= from + Limit)
  <2> SUFFICES ASSUME p <= from + Limit PROVE FALSE
    OBVIOUS
  <2>1. p \in DOMAIN entries \cap (from + 1)..(from + Limit)
    BY <1>1, <1>3
  <2>2. entries[(n + 1) - p].run \in Page(entries, from)
    BY <2>1 DEF Page
  <2> QED
    BY <1>2, <1>3, <2>2
<1>5. n - i >= from + Limit /\ ~(from + Limit >= n)
  BY <1>1, <1>2, <1>3, <1>4
<1> QED
  BY <1>1, <1>2, <1>5 DEF Deep

LEMMA PageOfRuns ==
    ASSUME NEW entries \in Entries, NEW from \in Nat
    PROVE  Page(entries, from) \subseteq Runs
<1> DEFINE n == Len(entries)
           E == [run : Runs, status : Statuses \cup {"running"}]
<1>1. entries \in Seq(E)
  BY DEF Entries
<1> HIDE DEF E
<1>2. n \in Nat /\ DOMAIN entries = 1..n /\ \A i \in 1..n : entries[i] \in E
  BY <1>1
<1>3. \A i \in 1..n : entries[i].run \in Runs
  BY <1>2 DEF E
<1>4. \A i \in 1..n : (n + 1) - i \in 1..n
  BY <1>2
<1> QED
  BY <1>2, <1>3, <1>4 DEF Page

\* A page that is shown leaves nothing behind.
LEMMA PageKeeps ==
    ASSUME RegInv, PagingTypes, NEW due \in SUBSET Runs, NEW from \in Nat, NEW seen \in SUBSET Runs,
           GetPage(due, from, seen), UNCHANGED vars,
           ~disturbed /\ file.json =>
               \A d \in due : pc[d] = "saved" /\ (d \in seen \/ Deep(file.entries, d, from))
    PROVE  PagingInv'
<1>1. file.entries \in Entries /\ Limit \in Nat
  BY WorkspaceAssumption DEF RegInv, TypeOK
<1>2. UNCHANGED <<file, pc, found, disturbed>>
  BY DEF vars
<1>3. CASE ~file.json
  <2>1. paging' = [paging EXCEPT !.at = "failed"]
    BY <1>3 DEF GetPage
  <2>2. PagingTypes' /\ paging'.at = "failed"
    BY <2>1 DEF PagingTypes
  <2> QED
    BY <2>2 DEF PagingInv
<1>4. CASE file.json
  <2> DEFINE shown == Page(file.entries, from)
             over == from + Limit >= Len(file.entries)
  <2>1. /\ paging'.at = (IF over THEN "done" ELSE "next") /\ paging'.offset = from + Limit
        /\ paging'.due = due /\ paging'.seen = seen \cup shown
        /\ paging' = [at |-> IF over THEN "done" ELSE "next", offset |-> from + Limit,
                      due |-> due, seen |-> seen \cup shown]
    BY <1>4 DEF GetPage
  <2>2. PagingTypes'
    <3>1. shown \subseteq Runs /\ from + Limit \in Nat
      BY <1>1, PageOfRuns
    <3> HIDE DEF shown, over
    <3> QED
      BY <2>1, <3>1 DEF PagingTypes
  <2>3. ASSUME ~disturbed', NEW d \in due PROVE Ahead(d)'
    <3>0. ~disturbed
      BY <1>2, <2>3
    <3>1. pc[d] = "saved" /\ (d \in seen \/ Deep(file.entries, d, from))
      BY <1>4, <2>3, <3>0
    <3>2. Unwritten
      BY <1>4, <3>0 DEF RegInv, InTurn, FileEmptied, NoJson, Unwritten
    <3>3. ASSUME d \notin paging'.seen
          PROVE  /\ paging'.at = "next"
                 /\ Deep(file.entries, d, paging'.offset)
                 /\ \A w \in Runs : Saving(w) => Deep(found[w], d, paging'.offset)
      <4>1. d \notin seen /\ d \notin shown
        BY <2>1, <3>3
      <4>2. Deep(file.entries, d, from + Limit) /\ ~over
        BY <1>1, <3>1, <4>1, PageFacts
      <4>3. PICK k \in Nat : k = from + Limit
        BY <1>1
      <4>4. \A w \in Runs : Saving(w) => Deep(found[w], d, k)
        BY <3>0, <3>1, <3>2, <4>2, <4>3, FoundDeep
      <4> HIDE DEF shown, over
      <4> QED
        BY <2>1, <4>2, <4>3, <4>4
    <3> QED
      BY <1>2, <3>1, <3>3 DEF Ahead, Deep, Saving
  <2> QED
    BY <2>1, <2>2, <2>3 DEF PagingInv
<1> QED
  BY <1>3, <1>4

LEMMA ClientKeeps ==
    ASSUME RegInv, PagingInv, Client
    PROVE  PagingInv'
<1>1. UNCHANGED vars
  BY DEF Client
<1>2. PagingTypes
  BY DEF PagingInv
<1>3. CASE FirstPage
  <2>1. Finished \in SUBSET Runs /\ GetPage(Finished, 0, {})
    BY <1>3 DEF FirstPage, Finished
  <2>2. ASSUME ~disturbed, file.json, NEW d \in Finished
        PROVE  pc[d] = "saved" /\ Deep(file.entries, d, 0)
    <3>1. PICK s \in Statuses : Recorded(d, s)
      BY DEF Finished
    <3>2. d \in Runs /\ s \in Telling(file.entries, d)
      BY <3>1 DEF Finished, Recorded, Telling
    <3>3. Telling(file.entries, d) \in Truths(d)
      BY <2>2, <3>2 DEF RegInv, InTurn, FileTells, FileEmptied, NoJson, Unwritten
    <3>4. pc[d] = "saved"
      <4>1. s \notin {"running", "none"}
        BY DEF Statuses
      <4>2. PICK x \in Expected(d) : x = s
        BY <3>2, <3>3 DEF Truths
      <4>3. Expected(d) \subseteq {"running", "none"} \/ pc[d] = "saved"
        <5>1. pc[d] \in Steps
          BY <3>2 DEF RegInv, TypeOK
        <5>2. CASE mode[d] = "background"
          BY <5>1, <5>2, ExpectedIs DEF Steps
        <5>3. CASE mode[d] # "background"
          BY <5>1, <5>3, ExpectedIs DEF Steps
        <5> QED
          BY <5>2, <5>3
      <4> QED
        BY <4>1, <4>2, <4>3
    <3>5. Deep(file.entries, d, 0)
      <4>1. PICK i \in DOMAIN file.entries : file.entries[i] = Entry(d, s)
        BY <3>1 DEF Recorded
      <4>2. DOMAIN file.entries = 1..Len(file.entries) /\ Len(file.entries) \in Nat
        BY DEF RegInv, TypeOK, Entries
      <4>3. Len(file.entries) - i >= 0 /\ file.entries[i].run = d
        BY <4>1, <4>2 DEF Entry
      <4> QED
        BY <4>3 DEF Deep
    <3> QED
      BY <3>4, <3>5
  <2>3. PICK due \in SUBSET Runs : due = Finished
    BY <2>1
  <2>4. 0 \in Nat /\ {} \in SUBSET Runs
    OBVIOUS
  <2> QED
    BY <1>1, <1>2, <2>1, <2>2, <2>3, <2>4, PageKeeps
<1>4. CASE NextPage
  <2> DEFINE due == paging.due
             seen == paging.seen
             from == paging.offset
  <2>1. /\ due \in SUBSET Runs /\ seen \in SUBSET Runs /\ from \in Nat
        /\ paging.at = "next" /\ GetPage(due, from, seen)
    BY <1>2, <1>4 DEF PagingTypes, NextPage
  <2>2. ASSUME ~disturbed, file.json, NEW d \in due
        PROVE  pc[d] = "saved" /\ (d \in seen \/ Deep(file.entries, d, from))
    <3>1. Ahead(d)
      BY <2>1, <2>2 DEF PagingInv
    <3>2. FileEmptied
      BY <2>2 DEF RegInv, InTurn
    <3>3. Unwritten
      BY <2>2, <3>2 DEF FileEmptied, NoJson, Unwritten
    <3> QED
      BY <3>1, <3>3 DEF Ahead
  <2> HIDE DEF due, seen, from
  <2> QED
    BY <1>1, <1>2, <2>1, <2>2, PageKeeps
<1> QED
  BY <1>3, <1>4 DEF Client

LEMMA PagingInvStep == ASSUME RegInv, PagingInv, [WorkspaceNext]_wsVars PROVE PagingInv'
<1>1. CASE Client
  BY <1>1, ClientKeeps
<1>2. CASE ~Client
  <2>1. paging' = paging
    BY <1>2 DEF WorkspaceNext, wsVars, Request, RunStep, CliEnds, ProcessDies
  <2>2. [Next]_vars
    BY RegistrySteps
  <2>3. ASSUME ~disturbed' PROVE ~disturbed
    BY <2>2, <2>3, DisturbedStays
  <2>4. ASSUME ~disturbed', paging.at \in {"next", "done"}, NEW d \in paging.due PROVE Ahead(d)'
    <3>1. Ahead(d) /\ d \in Runs
      BY <2>3, <2>4 DEF PagingInv, PagingTypes
    <3>2. paging.offset \in Nat
      BY DEF PagingInv, PagingTypes
    <3>3. PICK k \in Nat : k = paging.offset
      BY <3>2
    <3>4. CASE d \in paging.seen
      BY <2>1, <2>2, <2>4, <3>1, <3>4, SavedStays DEF Ahead
    <3>5. CASE d \notin paging.seen
      <4>1. /\ pc[d] = "saved" /\ paging.at = "next"
            /\ Unwritten => Deep(file.entries, d, k)
            /\ \A w \in Runs : Saving(w) => Deep(found[w], d, k)
        BY <3>1, <3>3, <3>5 DEF Ahead
      <4>2. /\ pc'[d] = "saved"
            /\ Unwritten' => Deep(file'.entries, d, k)
            /\ \A w \in Runs : Saving(w)' => Deep(found'[w], d, k)
        BY <2>2, <2>4, <3>1, <4>1, ResultsStay
      <4> QED
        BY <2>1, <3>3, <4>1, <4>2 DEF Ahead, Deep
    <3> QED
      BY <3>4, <3>5
  <2> QED
    BY <2>1, <2>4 DEF PagingInv, PagingTypes
<1> QED
  BY <1>1, <1>2

LEMMA PagingInvAlways == WorkspaceSpec => []PagingInv
<1>1. WorkspaceInit => PagingInv
  BY DEF WorkspaceInit, PagingInv, PagingTypes
<1> QED
  BY <1>1, PagingInvStep, RegInvAlways, PTL DEF WorkspaceSpec

\* Whatever is started, saved and killed while it pages: a client that comes to the end
\* of the list has seen every run whose result was there when it began, unless saves
\* overlapped or were cut short.
THEOREM PagingIsComplete == WorkspaceSpec => []PagingComplete
<1>1. PagingInv => PagingComplete
  BY DEF PagingInv, PagingTypes, Ahead, PagingComplete
<1> QED
  BY <1>1, PagingInvAlways, PTL

\* The types of the registry, the stores, the rounds and the client, together.
THEOREM TypeCorrect == WorkspaceSpec => []WorkspaceTypeOK
<1>1. ASSUME WorkspaceInv, RegInv, PagingInv, SavesBounded PROVE WorkspaceTypeOK
  BY <1>1 DEF WorkspaceInv, RegInv, PagingInv, PagingTypes, StoreInv, RoundInv, RunTypes,
     SavesBounded, WorkspaceTypeOK
<1> QED
  BY <1>1, WorkspaceInvariant, RegInvAlways, PagingInvAlways, SavesBoundedAlways, PTL
=============================================================================
