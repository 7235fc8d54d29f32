----------------------------- MODULE MailOutbox -----------------------------
(***************************************************************************)
(* The durable mail queue of internal/mailoutbox.  Rows are written by the *)
(* transaction of the identity flow that makes the token; one worker reads *)
(* the due rows, hands each to the mail provider and records what came of  *)
(* it.  The process may stop gracefully, which cancels the context the     *)
(* worker reads and writes with, or end at any step; what it had read is   *)
(* then lost and only the rows remain.                                     *)
(*                                                                         *)
(* A nudge and the 30 s tick both only start a pass, which may begin at    *)
(* any time here.  sending holds the one Send under way or answered.       *)
(***************************************************************************)
EXTENDS Integers, FiniteSets, Sequences

CONSTANTS
  Messages,       \* mails an identity flow may enqueue
  Tokened,        \* those whose row holds a sealed one-time token
  MaxAttempts,    \* maxAttempts
  BatchLimit,     \* batchLimit: rows one pass reads
  MaxCopies,      \* bound: copies of one mail the provider takes
  MaxLostWrites,  \* bound: database writes of the worker that fail
  NoSend          \* no Send is under way

VARIABLES
  row,         \* the state of the row; withdrawn and purged rows are deleted
  attempts,    \* its attempts column
  batch,       \* copies of the rows the pass has left to do
  sending,     \* the row copy handed to the provider and the answer
  phase,       \* the process: up, stopping (context cancelled), down
  keyLocked,   \* the master key is locked
  configured,  \* a mail provider is configured
  lostWrites,  \* writes that have failed
  copies,      \* copies each recipient has got
  errors       \* attempts answered with an error, up to MaxAttempts

mailVars == <<row, attempts, batch, sending, phase, keyLocked, configured,
              lostWrites, copies, errors>>
workerVars == <<batch, sending>>
worldVars  == <<phase, keyLocked, configured>>

Rows    == {"due", "waiting", "sent", "dead"}
Answers == {"accepted", "error"}

MailAssumption ==
  /\ IsFiniteSet(Messages) /\ Tokened \subseteq Messages
  /\ MaxAttempts \in Nat \ {0} /\ BatchLimit \in Nat \ {0}
  /\ MaxCopies \in Nat /\ MaxLostWrites \in Nat
  /\ NoSend \notin [msg : Messages, attempts : 0..MaxAttempts - 1, answer : Answers]
ASSUME MailAssumption

MailTypeOK ==
  /\ row \in [Messages -> Rows \cup {"none", "withdrawn", "purged"}]
  /\ attempts \in [Messages -> 0..MaxAttempts]
  /\ \A i \in DOMAIN batch : batch[i] \in [msg : Messages, attempts : 0..MaxAttempts - 1]
  /\ sending \in [msg : Messages, attempts : 0..MaxAttempts - 1, answer : Answers] \cup {NoSend}
  /\ phase \in {"up", "stopping", "down"}
  /\ keyLocked \in BOOLEAN /\ configured \in BOOLEAN
  /\ lostWrites \in 0..MaxLostWrites
  /\ copies \in [Messages -> 0..MaxCopies]
  /\ errors \in [Messages -> 0..MaxAttempts]

MailInit ==
  /\ row = [m \in Messages |-> "none"]
  /\ attempts = [m \in Messages |-> 0]
  /\ batch = <<>> /\ sending = NoSend
  /\ phase = "up" /\ keyLocked = FALSE /\ configured = TRUE
  /\ lostWrites = 0
  /\ copies = [m \in Messages |-> 0]
  /\ errors = [m \in Messages |-> 0]

\* A token cannot be sealed under a locked key: the caller's transaction fails.
Enqueue(m) ==
  /\ phase = "up"
  /\ m \in Tokened => ~keyLocked
  /\ row[m] = "none"
  /\ row' = [row EXCEPT ![m] = "due"]
  /\ UNCHANGED <<attempts, workerVars, worldVars, lostWrites, copies, errors>>

Due == {m \in Messages : row[m] = "due"}

Smaller(a, b) == IF a < b THEN a ELSE b

\* The rows in the order of their times, which the model leaves open.
Batches ==
  LET n == Smaller(BatchLimit, Cardinality(Due)) IN
  {s \in [1..n -> Due] : \A i, j \in 1..n : s[i] = s[j] => i = j}

BeginPass ==
  /\ phase = "up" /\ batch = <<>> /\ sending = NoSend
  /\ Due # {}
  /\ \E s \in Batches :
       batch' = [i \in DOMAIN s |-> [msg |-> s[i], attempts |-> attempts[s[i]]]]
  /\ UNCHANGED <<row, attempts, sending, worldVars, lostWrites, copies, errors>>

Locked(m) == keyLocked /\ m \in Tokened

\* A locked key or a missing provider ends the pass without an attempt, and so
\* does a cancelled context before the next row.
GiveUpPass ==
  /\ batch # <<>> /\ sending = NoSend
  /\ phase = "stopping" \/ Locked(batch[1].msg) \/ ~configured
  /\ batch' = <<>>
  /\ UNCHANGED <<row, attempts, sending, worldVars, lostWrites, copies, errors>>

\* The provider takes the mail or not; an error may be answered though it did.
\* A row that cannot be opened or rendered fails the same way, without a Send.
Send ==
  /\ phase = "up" /\ batch # <<>> /\ sending = NoSend
  /\ configured /\ ~Locked(batch[1].msg)
  /\ \E taken \in BOOLEAN, answer \in Answers :
       LET m == batch[1].msg IN
       /\ answer = "accepted" => taken
       /\ taken => copies[m] < MaxCopies
       /\ copies' = IF taken THEN [copies EXCEPT ![m] = @ + 1] ELSE copies
       /\ sending' = [msg |-> m, attempts |-> batch[1].attempts, answer |-> answer]
  /\ batch' = Tail(batch)
  /\ UNCHANGED <<row, attempts, worldVars, lostWrites, errors>>

Live(m) == row[m] \in Rows

WriteIsLost ==
  /\ lostWrites < MaxLostWrites
  /\ lostWrites' = lostWrites + 1
  /\ UNCHANGED <<row, attempts>>

\* Variant: the error of Send is not looked at.
RecordAnyAnswer ==
  /\ sending # NoSend
  /\ \/ /\ row' = IF Live(sending.msg) THEN [row EXCEPT ![sending.msg] = "sent"] ELSE row
        /\ UNCHANGED <<attempts, lostWrites>>
     \/ WriteIsLost
  /\ sending' = NoSend
  /\ UNCHANGED <<batch, worldVars, copies, errors>>

\* The completion write has a context of its own; its failure is only logged.
RecordSent ==
  /\ sending # NoSend /\ sending.answer = "accepted"
  /\ \/ /\ row' = IF Live(sending.msg) THEN [row EXCEPT ![sending.msg] = "sent"] ELSE row
        /\ UNCHANGED <<attempts, lostWrites>>
     \/ WriteIsLost
  /\ sending' = NoSend
  /\ UNCHANGED <<batch, worldVars, copies, errors>>

\* Variant: the last permitted attempt is not counted as the last.
FailForever ==
  LET m == sending.msg IN
  /\ sending # NoSend /\ sending.answer = "error"
  /\ errors' = [errors EXCEPT ![m] = Smaller(MaxAttempts, @ + 1)]
  /\ row' = IF Live(m) THEN [row EXCEPT ![m] = "waiting"] ELSE row
  /\ attempts' = IF Live(m) THEN [attempts EXCEPT ![m] = Smaller(MaxAttempts - 1, @ + 1)] ELSE attempts
  /\ UNCHANGED lostWrites
  /\ sending' = NoSend
  /\ UNCHANGED <<batch, worldVars, copies>>

\* fail counts from the copy that was read, and writes with the worker's own
\* context: once that is cancelled the attempt is never recorded.
RecordFailure ==
  LET m == sending.msg
      n == sending.attempts + 1
  IN
  /\ sending # NoSend /\ sending.answer = "error"
  /\ errors' = [errors EXCEPT ![m] = Smaller(MaxAttempts, @ + 1)]
  /\ \/ /\ phase # "stopping"
        /\ IF Live(m)
           THEN /\ row' = [row EXCEPT ![m] = IF n >= MaxAttempts THEN "dead" ELSE "waiting"]
                /\ attempts' = [attempts EXCEPT ![m] = n]
           ELSE UNCHANGED <<row, attempts>>
        /\ UNCHANGED lostWrites
     \/ phase = "stopping" /\ UNCHANGED <<row, attempts, lostWrites>>
     \/ phase # "stopping" /\ WriteIsLost
  /\ sending' = NoSend
  /\ UNCHANGED <<batch, worldVars, copies>>

\* The backoff of a failed row is over.
Backoff(m) ==
  /\ row[m] = "waiting"
  /\ row' = [row EXCEPT ![m] = "due"]
  /\ UNCHANGED <<attempts, workerVars, worldVars, lostWrites, copies, errors>>

\* Deleting the user deletes its rows; pruning a pending account its unsent
\* ones; maintenance deletes sent and dead rows past their retention.
Remove(m) ==
  /\ phase # "down"
  /\ Live(m)
  /\ row' = [row EXCEPT ![m] = IF @ \in {"sent", "dead"} THEN "purged" ELSE "withdrawn"]
  /\ UNCHANGED <<attempts, workerVars, worldVars, lostWrites, copies, errors>>

Stop ==
  /\ phase = "up" /\ phase' = "stopping"
  /\ UNCHANGED <<row, attempts, workerVars, keyLocked, configured, lostWrites, copies, errors>>

\* Nothing waits for the worker: a graceful end can lose what it had in hand too.
Exit ==
  /\ phase # "down" /\ phase' = "down"
  /\ batch' = <<>> /\ sending' = NoSend
  /\ UNCHANGED <<row, attempts, keyLocked, configured, lostWrites, copies, errors>>

Boot ==
  /\ phase = "down" /\ phase' = "up"
  /\ keyLocked' \in BOOLEAN
  /\ UNCHANGED <<row, attempts, workerVars, configured, lostWrites, copies, errors>>

Configure ==
  /\ phase = "up"
  /\ configured' = ~configured
  /\ UNCHANGED <<row, attempts, workerVars, phase, keyLocked, lostWrites, copies, errors>>

WorkerSteps == BeginPass \/ GiveUpPass \/ Send \/ RecordSent \/ RecordFailure

MailNext ==
  \/ WorkerSteps
  \/ \E m \in Messages : Enqueue(m) \/ Backoff(m) \/ Remove(m)
  \/ Stop \/ Exit \/ Boot \/ Configure

\* The worker goroutine is never blocked for ever: Send has a timeout of its
\* own.  Backoffs end because time passes.
MailSpec ==
  /\ MailInit /\ [][MailNext]_mailVars
  /\ WF_mailVars(WorkerSteps)
  /\ \A m \in Messages : WF_mailVars(Backoff(m))

-----------------------------------------------------------------------------
Delivery == INSTANCE MailDelivery WITH
  stage <- [m \in Messages |-> IF row[m] \in {"due", "waiting"} THEN "owed" ELSE row[m]],
  received <- copies,
  failures <- errors

(* The outbox delivers at least once (package comment of mailoutbox.go):   *)
(* no crash, lost write, withdrawn account or row copy gone stale loses an *)
(* owed mail, marks one sent that nobody received, kills one before its    *)
(* fifth failure, or sends a copy of one already settled.                  *)
OutboxImplementsDelivery == Delivery!DeliverySpec

(* Start, "rows enqueued while the process was down are retried": once the *)
(* process stays up with its key and a provider, every queued mail comes   *)
(* to be sent, dead or withdrawn, whichever failed write it met.           *)
Ready == phase = "up" /\ ~keyLocked /\ configured
QueuedMailSettles ==
  <>[]Ready => <>[](\A m \in Messages : row[m] \notin {"due", "waiting"})
=============================================================================
