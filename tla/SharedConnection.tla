-------------------------- MODULE SharedConnection --------------------------
(***************************************************************************)
(* How SQLiteArtifactStore and SQLiteJournalStore use SQLite.  A workspace *)
(* opens one connection for each of its two files, without the check that  *)
(* only one thread uses it, and the web server's workspace is shared by    *)
(* all run threads; a CLI process opens connections of its own.            *)
(*                                                                         *)
(* Every write is execute and then commit.  Python's sqlite3 module        *)
(* begins a transaction before the first write statement and commits only  *)
(* when one is open, and it lets other threads run while SQLite works, so  *)
(* each of BEGIN, the statement and COMMIT is a step, and so is the look   *)
(* at whether a transaction is open where another thread may come between. *)
(* Nothing rolls back: an INSERT that is refused leaves its transaction    *)
(* open, with the write lock it has taken.                                 *)
(***************************************************************************)
EXTENDS Naturals

CONSTANTS Threads,      \* threads that write
          Files,        \* database files
          Connections,  \* connections to them
          Shared,       \* the connections that several threads use
          FileOf,       \* the file of a connection
          Rows,         \* what is written: a row with its id
          NoConnection  \* nobody has the write lock

ASSUME ConnectionsAssumption ==
    /\ Shared \subseteq Connections
    /\ FileOf \in [Connections -> Files]
    /\ NoConnection \notin Connections

VARIABLES stored,       \* the rows committed to a file: what a restart finds
          writer,       \* the connection that has the write lock of a file
          open,         \* whether a transaction is open (not autocommit)
          pending,      \* the rows written in the open transaction
          call,         \* a thread's call: where it is, on which connection, its row
          answer,       \* how a thread's latest call ended
          saved,        \* history: the rows whose call returned, per file
          refused,      \* history: a duplicate was refused in the open transaction
          lost          \* history: an error of SQLite was not raised

storeVars == <<stored, writer, open, pending, call, answer, saved, refused, lost>>

At   == {"out", "begin", "write", "check", "commit"}
File(t) == FileOf[call[t].conn]
InCall(t, c) == call[t].at # "out" /\ call[t].conn = c
Used(c)      == \E t \in Threads : InCall(t, c)

InitStores(c0, x0) ==
    /\ stored = [f \in Files |-> {}]
    /\ writer = [f \in Files |-> NoConnection]
    /\ open = [c \in Connections |-> FALSE]
    /\ pending = [c \in Connections |-> {}]
    /\ call = [t \in Threads |-> [at |-> "out", conn |-> c0, row |-> x0]]
    /\ answer = [t \in Threads |-> "saved"]
    /\ saved = [f \in Files |-> {}]
    /\ refused = [c \in Connections |-> FALSE]
    /\ lost = FALSE

Goto(t, at) == call' = [call EXCEPT ![t].at = at]

\* The call raises; the transaction, if one is open, stays so.
Raise(t, error) ==
    /\ Goto(t, "out")
    /\ answer' = [answer EXCEPT ![t] = error]

\* sqlite3 asks the connection for its latest error after the call failed.  On a
\* connection that other threads use, their calls may have replaced it by "no error"
\* meanwhile: then nothing is raised and execute returns as if it had succeeded.
RaiseOrLose(t, error) ==
    \/ /\ Raise(t, error)
       /\ UNCHANGED lost
    \/ /\ call[t].conn \in Shared
       /\ Goto(t, "check")
       /\ lost' = TRUE
       /\ UNCHANGED answer

\* execute: is a transaction open?
Call(t, c, x) ==
    /\ call[t].at = "out"
    /\ call' = [call EXCEPT ![t] = [at |-> IF open[c] THEN "write" ELSE "begin",
                                    conn |-> c, row |-> x]]
    /\ UNCHANGED <<stored, writer, open, pending, answer, saved, refused, lost>>

\* BEGIN fails when another thread has begun a transaction since.
Begin(t) ==
    LET c == call[t].conn IN
    /\ call[t].at = "begin"
    /\ IF open[c]
       THEN RaiseOrLose(t, "raised") /\ UNCHANGED <<open, refused>>
       ELSE /\ open' = [open EXCEPT ![c] = TRUE]
            /\ refused' = [refused EXCEPT ![c] = FALSE]
            /\ Goto(t, "write")
            /\ UNCHANGED <<answer, lost>>
    /\ UNCHANGED <<stored, writer, pending, saved>>

Free(t) == writer[File(t)] \in {NoConnection, call[t].conn}

\* The statement, in the transaction, or on its own when another thread has committed
\* the transaction since.
Write(t) ==
    LET c == call[t].conn
        x == call[t].row IN
    /\ call[t].at = "write" /\ Free(t)
    /\ x \notin stored[File(t)] \cup pending[c]
    /\ IF open[c]
       THEN /\ pending' = [pending EXCEPT ![c] = @ \cup {x}]
            /\ writer' = [writer EXCEPT ![File(t)] = c]
            /\ UNCHANGED stored
       ELSE /\ stored' = [stored EXCEPT ![File(t)] = @ \cup {x}]
            /\ UNCHANGED <<pending, writer>>
    /\ Goto(t, "check")
    /\ UNCHANGED <<open, answer, saved, refused, lost>>

\* Wrong, for a mutant: the exception handler rolls back.
WriteDuplicateRollsBack(t) ==
    LET c == call[t].conn IN
    /\ call[t].at = "write" /\ Free(t)
    /\ call[t].row \in stored[File(t)] \cup pending[c]
    /\ Raise(t, "duplicate")
    /\ open' = [open EXCEPT ![c] = FALSE]
    /\ pending' = [pending EXCEPT ![c] = {}]
    /\ writer' = [writer EXCEPT ![File(t)] = NoConnection]
    /\ UNCHANGED <<stored, saved, refused, lost>>

\* The id is taken: IntegrityError, which the stores turn into their own errors.
WriteDuplicate(t) ==
    LET c == call[t].conn IN
    /\ call[t].at = "write" /\ Free(t)
    /\ call[t].row \in stored[File(t)] \cup pending[c]
    /\ RaiseOrLose(t, "duplicate")
    /\ IF open[c]
       THEN /\ writer' = [writer EXCEPT ![File(t)] = c]
            /\ refused' = [refused EXCEPT ![c] = TRUE]
       ELSE UNCHANGED <<writer, refused>>
    /\ UNCHANGED <<stored, open, pending, saved>>

\* Another connection has the lock.  A write waits for it, five seconds at most: that
\* is enough while a call is about to commit, and in vain when none is.
WriteLocked(t) ==
    /\ call[t].at = "write" /\ ~Free(t)
    /\ ~Used(writer[File(t)])
    /\ RaiseOrLose(t, "locked")
    /\ UNCHANGED <<stored, writer, open, pending, saved, refused>>

Return(t) ==
    /\ Goto(t, "out")
    /\ answer' = [answer EXCEPT ![t] = "saved"]
    /\ saved' = [saved EXCEPT ![File(t)] = @ \cup {call[t].row}]

\* commit: nothing to do when another thread has committed the transaction.
Check(t) ==
    /\ call[t].at = "check"
    /\ IF open[call[t].conn]
       THEN Goto(t, "commit") /\ UNCHANGED <<answer, saved>>
       ELSE Return(t)
    /\ UNCHANGED <<stored, writer, open, pending, refused, lost>>

\* Wrong, for a mutant: a call leaves its rows to the next commit.
CommitLater(t) ==
    /\ call[t].at = "commit"
    /\ Return(t)
    /\ UNCHANGED <<stored, writer, open, pending, refused, lost>>

\* COMMIT, of what all threads have written in the transaction.  It fails when another
\* thread has committed since; that error is raised in any case.
Commit(t) ==
    LET c == call[t].conn IN
    /\ call[t].at = "commit"
    /\ IF open[c]
       THEN /\ stored' = [stored EXCEPT ![File(t)] = @ \cup pending[c]]
            /\ writer' = [writer EXCEPT ![File(t)] = IF @ = c THEN NoConnection ELSE @]
            /\ open' = [open EXCEPT ![c] = FALSE]
            /\ pending' = [pending EXCEPT ![c] = {}]
            /\ refused' = [refused EXCEPT ![c] = FALSE]
            /\ Return(t)
       ELSE /\ Raise(t, "raised")
            /\ UNCHANGED <<stored, writer, open, pending, saved, refused>>
    /\ UNCHANGED lost

StoreStep(t) ==
    Begin(t) \/ Write(t) \/ WriteDuplicate(t) \/ WriteLocked(t) \/ Check(t) \/ Commit(t)

\* The process of these connections ends: its transactions are undone.
Disconnect(conns) ==
    /\ open' = [c \in Connections |-> open[c] /\ c \notin conns]
    /\ pending' = [c \in Connections |-> IF c \in conns THEN {} ELSE pending[c]]
    /\ refused' = [c \in Connections |-> refused[c] /\ c \notin conns]
    /\ writer' = [f \in Files |-> IF writer[f] \in conns THEN NoConnection ELSE writer[f]]
    /\ call' = [t \in Threads |-> IF call[t].conn \in conns
                                  THEN [call[t] EXCEPT !.at = "out"] ELSE call[t]]
    /\ UNCHANGED <<stored, answer, saved, lost>>

-----------------------------------------------------------------------------
(* Any threads that write any rows: what the proofs are about *)

StoreInit == \E c0 \in Connections, x0 \in Rows : InitStores(c0, x0)

StoreNext ==
    \/ \E t \in Threads : StoreStep(t) \/ \E c \in Connections, x \in Rows : Call(t, c, x)
    \/ \E conns \in SUBSET Connections : Disconnect(conns)

StoreSpec == StoreInit /\ [][StoreNext]_storeVars

StoreTypeOK ==
    /\ stored \in [Files -> SUBSET Rows]
    /\ writer \in [Files -> Connections \cup {NoConnection}]
    /\ open \in [Connections -> BOOLEAN]
    /\ pending \in [Connections -> SUBSET Rows]
    /\ call \in [Threads -> [at : At, conn : Connections, row : Rows]]
    /\ answer \in [Threads -> {"saved", "raised", "duplicate", "locked"}]
    /\ saved \in [Files -> SUBSET Rows]
    /\ refused \in [Connections -> BOOLEAN]
    /\ lost \in BOOLEAN

\* What a store call returned for is in the file, however the calls of the threads
\* interleave on their connection and whichever process ends when, unless sqlite3
\* lost an error.
SavedSurvives == lost \/ \A f \in Files : saved[f] \subseteq stored[f]

\* Between calls nobody has a write lock, and so no other process is refused, unless
\* a duplicate was refused and its transaction left open.
LockExplained ==
    \A f \in Files : writer[f] # NoConnection => Used(writer[f]) \/ refused[writer[f]]
=============================================================================
