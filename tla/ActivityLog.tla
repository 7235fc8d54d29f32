----------------------------- MODULE ActivityLog -----------------------------
(***************************************************************************)
(* The Activity history: rows of finished requests pass through the queue  *)
(* of the asynchronous writer (server/logwriter.go) into a database of     *)
(* their own, and the history of a deleted client key or account is erased *)
(* while requests of it still end (server.go finalizeActivityCleanup,      *)
(* store/store.go).  What is to be erased is recorded first, in the core   *)
(* database, and the record (the intent) outlives a restart.               *)
(***************************************************************************)
EXTENDS Naturals, FiniteSets

CONSTANTS
  LogRows,       \* requests, each of which ends with one row
  Scopes,     \* client keys and accounts that may be deleted
  Covers,     \* the rows of a scope
  Readers,    \* handlers that flush before they read Activity
  QueueSize, BatchSize,
  NoCaller

Maintenance == "maintenance"
Shutdown == "stop"
Callers == Readers \cup Scopes \cup {Maintenance, Shutdown}

\* The deletions, the readers and the two callers of the process are different ones.
ActivityAssumption ==
  /\ Covers \in [Scopes -> SUBSET LogRows]
  /\ QueueSize \in Nat \ {0} /\ BatchSize \in Nat \ {0}
  /\ Scopes \cap (Readers \cup {Maintenance, Shutdown}) = {}
  /\ NoCaller \notin Callers
ASSUME ActivityAssumption

VARIABLES
  rowState,        \* where the row of a request is
  lock,       \* the caller that holds queueMu for writing, and waits
  writer,     \* where the writer goroutine is
  stopping,   \* stopCh is closed
  discarded,  \* scopes whose rows enqueue turns away
  intents,    \* the table activity_cleanup
  gone,       \* scopes deleted from the core database
  known,      \* scopes whose key still authenticates, from the database or the cache
  caller,         \* where each caller is
  todo,       \* the intents the maintenance pass has listed
  covered,    \* history: the rows the last flush found waiting
  erased      \* history: scopes whose deletion was reported as done

writerVars == <<writer, stopping, discarded>>
coreVars == <<intents, gone, known>>
logHistory == <<covered, erased>>
activityVars == <<rowState, lock, writerVars, coreVars, caller, todo, logHistory>>

RowStates == {"new", "open", "queued", "held", "written", "erased", "dropped"}
WriterStates == {"loop", "barrier", "final", "done"}
CallerStates == {"idle", "waiting", "asked", "begun", "deleted", "drained", "clean", "listed", "failed", "returned"}

Queue == {r \in LogRows : rowState[r] = "queued"}
Batch == {r \in LogRows : rowState[r] = "held"}
Scoped(scopes) == UNION {Covers[s] : s \in scopes}

ActivityTypeOK ==
  /\ rowState \in [LogRows -> RowStates]
  /\ lock \in Callers \cup {NoCaller}
  /\ writer \in WriterStates
  /\ stopping \in BOOLEAN
  /\ discarded \subseteq Scopes /\ intents \subseteq Scopes
  /\ gone \subseteq Scopes /\ known \subseteq Scopes /\ todo \subseteq Scopes /\ erased \subseteq Scopes
  /\ caller \in [Callers -> CallerStates]
  /\ covered \subseteq LogRows

ActivityInit ==
  /\ rowState = [r \in LogRows |-> "new"]
  /\ lock = NoCaller /\ writer = "loop" /\ stopping = FALSE
  /\ discarded = {} /\ intents = {} /\ gone = {} /\ known = Scopes
  /\ caller = [c \in Callers |-> "idle"]
  /\ todo = {} /\ erased = {}
  /\ covered = {}

Put(rows, state) == rowState' = [r \in LogRows |-> IF r \in rows THEN state ELSE rowState[r]]
At(c, from, to) == caller[c] = from /\ caller' = [caller EXCEPT ![c] = to]

-----------------------------------------------------------------------------
(* Requests.                                                               *)

\* A request of a key that still authenticates: a deleted key leaves the cache
\* of verified keys at the end of a deletion that succeeded, or by its age.
Open(r) ==
  /\ rowState[r] = "new"
  /\ \A s \in Scopes : r \in Covers[s] => s \in known
  /\ Put({r}, "open")
  /\ UNCHANGED <<lock, writerVars, coreVars, caller, todo, logHistory>>

\* A finished request offers its row, under a read lock and without waiting.
EnqueueRow(r) ==
  /\ rowState[r] = "open" /\ lock = NoCaller
  /\ Put({r}, IF r \in Scoped(discarded) \/ stopping \/ Cardinality(Queue) >= QueueSize
              THEN "dropped" ELSE "queued")
  /\ UNCHANGED <<lock, writerVars, coreVars, caller, todo, logHistory>>

-----------------------------------------------------------------------------
(* The writer goroutine.                                                   *)

TakeRow(r) ==
  /\ writer = "loop" /\ rowState[r] = "queued" /\ Cardinality(Batch) < BatchSize
  /\ Put({r}, "held")
  /\ UNCHANGED <<lock, writerVars, coreVars, caller, todo, logHistory>>

\* InsertRequestLogs leaves out rows of a scope with an intent and writes the
\* others in one transaction; a batch whose transaction fails is lost.
InsertRequestLogs(rows) ==
  \E stored \in {{}, rows \ Scoped(intents)} :
    rowState' = [r \in LogRows |-> IF r \notin rows THEN rowState[r]
                           ELSE IF r \in stored THEN "written" ELSE "dropped"]

\* The ticker, or a full batch.
FlushBatch ==
  /\ writer = "loop" /\ Batch # {}
  /\ InsertRequestLogs(Batch)
  /\ UNCHANGED <<lock, writerVars, coreVars, caller, todo, logHistory>>

\* The writer takes a flush request, or sees the stop, and empties the queue.
Drain(next) ==
  /\ writer = "loop"
  /\ writer' = next
  /\ Put(Queue, "held")
  /\ UNCHANGED <<lock, stopping, discarded, coreVars, todo, logHistory>>

DrainForFlush == lock # NoCaller /\ At(lock, "waiting", "asked") /\ Drain("barrier")
DrainToStop == stopping /\ Drain("final") /\ UNCHANGED caller

\* What a caller goes on with once its flush has returned.
After(c) == IF c \in Scopes THEN "drained" ELSE "returned"
UnlockQueue == lock' = NoCaller /\ caller' = [caller EXCEPT ![lock] = After(lock)]

\* The batch is written before the flush is acknowledged; who asked may have
\* given up and another caller may wait by then.
Acknowledge ==
  /\ writer = "barrier"
  /\ InsertRequestLogs(Batch)
  /\ writer' = "loop"
  /\ IF lock # NoCaller /\ caller[lock] = "asked" THEN UnlockQueue ELSE UNCHANGED <<lock, caller>>
  /\ UNCHANGED <<stopping, discarded, coreVars, todo, logHistory>>

WriterEnds ==
  /\ writer = "final"
  /\ InsertRequestLogs(Batch)
  /\ writer' = "done"
  /\ UNCHANGED <<lock, stopping, discarded, coreVars, caller, todo, logHistory>>

-----------------------------------------------------------------------------
(* Callers that flush.                                                     *)

\* flush takes the lock; the stop closes stopCh in a section of its own before
\* that, and a deletion turns its rows away in the same section.
FlushLocked(c, from) ==
  /\ lock = NoCaller /\ caller[c] = from
  /\ lock' = c
  /\ caller' = [caller EXCEPT ![c] = "waiting"]
  /\ covered' = Queue \cup Batch

Flush(c) ==
  /\ c \in Readers \cup {Maintenance}
  /\ FlushLocked(c, "idle")
  /\ UNCHANGED <<rowState, writerVars, coreVars, todo, erased>>

CloseStop ==
  /\ lock = NoCaller /\ At(Shutdown, "idle", "begun")
  /\ stopping' = TRUE
  /\ UNCHANGED <<rowState, lock, writer, discarded, coreVars, todo, logHistory>>

FlushToStop ==
  /\ FlushLocked(Shutdown, "begun")
  /\ UNCHANGED <<rowState, writerVars, coreVars, todo, erased>>

\* A mutant: only a flush that was taken is answered by the end of the writer.
FlushOfEndedTaken ==
  /\ writer = "done" /\ lock # NoCaller /\ caller[lock] = "asked"
  /\ UnlockQueue
  /\ UNCHANGED <<rowState, writerVars, coreVars, todo, logHistory>>

\* A writer that has ended answers every flush.
FlushOfEnded ==
  /\ writer = "done" /\ lock # NoCaller
  /\ UnlockQueue
  /\ UNCHANGED <<rowState, writerVars, coreVars, todo, logHistory>>

\* The context of the caller ends while it waits.
GiveUp(c) ==
  /\ lock = c
  /\ lock' = NoCaller
  /\ caller' = [caller EXCEPT ![c] = "failed"]
  /\ covered' = {}
  /\ UNCHANGED <<rowState, writerVars, coreVars, todo, erased>>

Again(c) ==
  /\ c \in Readers
  /\ \E from \in {"returned", "failed"} : At(c, from, "idle")
  /\ UNCHANGED <<rowState, lock, writerVars, coreVars, todo, logHistory>>

-----------------------------------------------------------------------------
(* A deletion (deleteClientKey, purgeAccount) and its repetition.          *)

BeginCleanup(s) ==
  /\ caller[s] \in {"idle", "failed"}
  /\ s \in gone => s \in intents
  /\ caller' = [caller EXCEPT ![s] = "begun"]
  /\ intents' = intents \cup {s}
  /\ gone' = gone \cup {s}
  /\ UNCHANGED <<rowState, lock, writerVars, known, todo, logHistory>>

Erase(rows) == Put({r \in rows : rowState[r] = "written"}, "erased")

\* The first delete, whose failure is remembered only.
DeleteFirst(s) ==
  /\ At(s, "begun", "deleted")
  /\ Erase(Covers[s]) \/ UNCHANGED rowState
  /\ UNCHANGED <<lock, writerVars, coreVars, todo, logHistory>>

\* A mutant: the queue is drained and later rows are let in.
DrainOnly(s) ==
  /\ FlushLocked(s, "deleted")
  /\ UNCHANGED <<rowState, writerVars, coreVars, todo, erased>>

DiscardAndDrain(s) ==
  /\ FlushLocked(s, "deleted")
  /\ discarded' = discarded \cup {s}
  /\ UNCHANGED <<rowState, writer, stopping, coreVars, todo, erased>>

DeleteSecond(s) ==
  /\ \/ At(s, "drained", "clean") /\ Erase(Covers[s])
     \/ At(s, "drained", "failed") /\ UNCHANGED rowState
  /\ UNCHANGED <<lock, writerVars, coreVars, todo, logHistory>>

RetireCleanup(s) ==
  /\ \/ /\ At(s, "clean", "returned")
        /\ intents' = intents \ {s} /\ known' = known \ {s}
        /\ erased' = erased \cup {s}
     \/ At(s, "clean", "failed") /\ UNCHANGED <<intents, known, erased>>
  /\ UNCHANGED <<rowState, lock, writerVars, gone, todo, covered>>

-----------------------------------------------------------------------------
(* The hourly pass, and the one at the start of the process.               *)

ListIntents ==
  /\ At(Maintenance, "returned", "listed")
  /\ todo' = intents
  /\ UNCHANGED <<rowState, lock, writerVars, coreVars, logHistory>>

\* Both deletes of one intent are in one section of cleanupMu; the pass stops
\* at the first that fails.
ReconcileCleanup(s) ==
  /\ caller[Maintenance] = "listed" /\ s \in todo
  /\ \/ /\ Erase(Covers[s])
        /\ intents' = intents \ {s} /\ todo' = todo \ {s}
     \/ todo' = {} /\ UNCHANGED <<rowState, intents>>
  /\ UNCHANGED <<lock, writerVars, gone, known, caller, logHistory>>

PassEnds ==
  /\ \/ caller[Maintenance] = "listed" /\ todo = {}
     \/ caller[Maintenance] = "failed"
  /\ caller' = [caller EXCEPT ![Maintenance] = "idle"]
  /\ UNCHANGED <<rowState, lock, writerVars, coreVars, todo, logHistory>>

\* The process ends and starts anew: the queue and everything under way is
\* lost, the databases stay, and the intents are reconciled before anything else.
Restart ==
  \E done \in SUBSET intents :
    /\ rowState' = [r \in LogRows |-> IF rowState[r] \in {"open", "queued", "held"} THEN "dropped"
                              ELSE IF rowState[r] = "written" /\ r \in Scoped(done) THEN "erased"
                              ELSE rowState[r]]
    /\ intents' = intents \ done
    /\ lock' = NoCaller /\ writer' = "loop" /\ stopping' = FALSE /\ discarded' = {}
    /\ caller' = [c \in Callers |-> IF c \notin Scopes THEN "idle"
                                ELSE IF caller[c] \in {"idle", "returned"} THEN caller[c] ELSE "failed"]
    /\ todo' = {} /\ covered' = {}
    /\ known' = Scopes \ gone
    /\ UNCHANGED <<gone, erased>>

ActivityNext ==
  \/ \E r \in LogRows : Open(r) \/ EnqueueRow(r) \/ TakeRow(r)
  \/ FlushBatch \/ DrainForFlush \/ DrainToStop \/ Acknowledge \/ WriterEnds
  \/ \E c \in Callers : Flush(c) \/ GiveUp(c) \/ Again(c)
  \/ CloseStop \/ FlushToStop \/ FlushOfEnded
  \/ \E s \in Scopes : \/ BeginCleanup(s) \/ DeleteFirst(s) \/ DiscardAndDrain(s)
                       \/ DeleteSecond(s) \/ RetireCleanup(s) \/ ReconcileCleanup(s)
  \/ ListIntents \/ PassEnds \/ Restart

ActivitySpec == ActivityInit /\ [][ActivityNext]_activityVars

\* What the writer goroutine does by itself: its writes have a timeout, and an
\* ended writer has closed done.
WriterSteps ==
  \/ \E r \in LogRows : TakeRow(r)
  \/ FlushBatch \/ DrainForFlush \/ DrainToStop \/ Acknowledge \/ WriterEnds \/ FlushOfEnded

-----------------------------------------------------------------------------
(* Once the deletion of a key or an account was reported as done, none of  *)
(* its rows is in the database or can still reach it, whatever its last    *)
(* requests, the maintenance pass, other deletions and restarts do.        *)
ErasedStaysErased ==
  \A s \in erased : \A r \in Covers[s] : rowState[r] \notin {"written", "queued", "held"}

(* A flush that returned has seen every row that was queued before it into *)
(* the database or out of the writer, which readers of Activity rely on.   *)
FlushIsABarrier ==
  lock = NoCaller => covered \cap (Queue \cup Batch) = {}

(* store.go:107: an intent is kept until the writer was drained, so that    *)
(* the history of a deleted scope is erased whatever becomes of the        *)
(* deletion: with no intent and nobody at work, none of it is left.        *)
NoOrphanedHistory ==
  \A s \in gone \ intents : caller[s] \in {"failed", "returned"} =>
    \A r \in Covers[s] : rowState[r] \notin {"written", "queued", "held"}

(* A flush that holds the lock, and with it every finished request, is      *)
(* let go: by the writer, or by the end of the writer it raced with.       *)
FlushReturns == []<>(lock = NoCaller)

(* What the log writer promises as a whole.                                *)
ActivityHolds == ActivityTypeOK /\ ErasedStaysErased /\ FlushIsABarrier
=============================================================================
