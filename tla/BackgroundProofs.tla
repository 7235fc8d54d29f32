--------------------------- MODULE BackgroundProofs ---------------------------
(****************************************************************************)
(* Proofs about what goes on beside a request: the mail outbox, the writer  *)
(* of the activity log, the gate of request bodies and the start of the     *)
(* service on the databases that were there.                                *)
(****************************************************************************)
EXTENDS MailOutbox, ActivityLog, BodyGate, DatabaseOpen, FiniteSetTheorems, TLAPS

-----------------------------------------------------------------------------
(***************************************************************************)
(* Proof that the outbox implements MailDelivery: every step of the worker *)
(* and of the world around it is a step of the abstract delivery or none.  *)
(***************************************************************************)
Entries == [msg : Messages, attempts : 0..MaxAttempts - 1]
Sends   == [msg : Messages, attempts : 0..MaxAttempts - 1, answer : Answers]

OutboxTypes ==
  /\ row \in [Messages -> Rows \cup {"none", "withdrawn", "purged"}]
  /\ attempts \in [Messages -> 0..MaxAttempts]
  /\ batch \in Seq(Entries)
  /\ sending \in Sends \cup {NoSend}
  /\ copies \in [Messages -> 0..MaxCopies]
  /\ errors \in [Messages -> 0..MaxAttempts]

\* No mail is failed more often than it was answered with an error, and none
\* that is owed has used its attempts up.
AttemptsWereErrors ==
  \A m \in Messages :
    /\ attempts[m] <= errors[m]
    /\ row[m] \in {"none", "due", "waiting"} => attempts[m] < MaxAttempts

\* What a pass has in hand nobody else settles: the row is as it was read, or
\* was deleted before it was settled.
Unsettled(m, count) == row[m] \in {"due", "withdrawn"} /\ count <= errors[m]

BatchIsUnsettled ==
  /\ \A i \in 1..Len(batch) : Unsettled(batch[i].msg, batch[i].attempts)
  /\ \A i, j \in 1..Len(batch) : batch[i].msg = batch[j].msg => i = j

SendIsUnsettled ==
  sending # NoSend =>
    /\ Unsettled(sending.msg, sending.attempts)
    /\ sending.answer = "accepted" => copies[sending.msg] > 0
    /\ \A i \in 1..Len(batch) : batch[i].msg # sending.msg

OutboxInv == OutboxTypes /\ AttemptsWereErrors /\ BatchIsUnsettled /\ SendIsUnsettled

LEMMA OutboxInit == MailInit => OutboxInv
<1> SUFFICES ASSUME MailInit
             PROVE  OutboxInv
  OBVIOUS
<1> USE MailAssumption DEF MailInit, MailAssumption
<1>1. OutboxTypes
  BY DEF OutboxTypes, Rows
<1>2. AttemptsWereErrors
  BY DEF AttemptsWereErrors
<1>3. BatchIsUnsettled /\ SendIsUnsettled
  BY DEF BatchIsUnsettled, SendIsUnsettled
<1> QED
  BY <1>1, <1>2, <1>3 DEF OutboxInv

-----------------------------------------------------------------------------
\* A batch is a sequence of what the rows said when they were read.
LEMMA PassTypes ==
  ASSUME OutboxInv, BeginPass
  PROVE  /\ batch' \in Seq(Entries)
         /\ \A i \in 1..Len(batch') :
              row[batch'[i].msg] = "due" /\ batch'[i].attempts = attempts[batch'[i].msg]
         /\ \A i, j \in 1..Len(batch') : batch'[i].msg = batch'[j].msg => i = j
<1> USE MailAssumption DEF MailAssumption
<1>1. PICK s \in Batches : batch' = [i \in DOMAIN s |-> [msg |-> s[i], attempts |-> attempts[s[i]]]]
  BY DEF BeginPass
<1> DEFINE n == Smaller(BatchLimit, Cardinality(Due))
<1>2. s \in [1..n -> Due] /\ \A i, j \in 1..n : s[i] = s[j] => i = j
  BY <1>1 DEF Batches
<1>3. n \in Nat
  <2>1. IsFiniteSet(Due)
    BY FS_Subset DEF Due
  <2>2. Cardinality(Due) \in Nat
    BY <2>1, FS_CardinalityType
  <2> QED
    BY <2>2 DEF Smaller
<1> HIDE DEF n
<1>4. \A m \in Due : m \in Messages /\ row[m] = "due" /\ attempts[m] \in 0..MaxAttempts - 1
  BY DEF Due, OutboxInv, OutboxTypes, AttemptsWereErrors
<1>5. \A i \in 1..n : [msg |-> s[i], attempts |-> attempts[s[i]]] \in Entries
  BY <1>2, <1>4 DEF Entries
<1>6. batch' = [i \in 1..n |-> [msg |-> s[i], attempts |-> attempts[s[i]]]]
  BY <1>1, <1>2
<1>7. batch' \in Seq(Entries) /\ Len(batch') = n
  <2> HIDE DEF Entries
  <2>1. batch' \in [1..n -> Entries]
    BY <1>5, <1>6
  <2>2. \A f : f \in [1..n -> Entries] => f \in Seq(Entries) /\ Len(f) = n
    BY <1>3
  <2> QED
    BY <2>1, <2>2
<1> QED
  BY <1>2, <1>4, <1>6, <1>7

\* The head of a batch and what is left.
LEMMA HeadAndTail ==
  ASSUME NEW s \in Seq(Entries), s # <<>>
  PROVE  /\ s[1] \in Entries /\ 1 \in 1..Len(s)
         /\ Tail(s) \in Seq(Entries)
         /\ \A i \in 1..Len(Tail(s)) : i + 1 \in 1..Len(s) /\ Tail(s)[i] = s[i + 1]
OBVIOUS

-----------------------------------------------------------------------------
\* The steps of the worker.

LEMMA PassKeeps ==
  ASSUME OutboxInv, BeginPass
  PROVE  OutboxInv'
<1> USE DEF OutboxInv
<1>1. UNCHANGED <<row, attempts, sending, copies, errors>> /\ sending = NoSend
  BY DEF BeginPass
<1>2. OutboxTypes'
  BY <1>1, PassTypes DEF OutboxTypes
<1>3. AttemptsWereErrors' /\ SendIsUnsettled'
  BY <1>1 DEF AttemptsWereErrors, SendIsUnsettled
<1>4. ASSUME NEW i \in 1..Len(batch')
      PROVE  /\ row'[batch'[i].msg] \in {"due", "withdrawn"}
             /\ batch'[i].attempts <= errors'[batch'[i].msg]
  <2>1. batch'[i] \in Entries
    BY PassTypes
  <2>2. batch'[i].msg \in Messages
    BY <2>1 DEF Entries
  <2> QED
    BY <1>1, <2>2, PassTypes DEF Unsettled, AttemptsWereErrors
<1>5. BatchIsUnsettled'
  BY <1>4, PassTypes DEF BatchIsUnsettled, Unsettled
<1> QED
  BY <1>2, <1>3, <1>5

LEMMA SendKeeps ==
  ASSUME OutboxInv, Send
  PROVE  OutboxInv'
<1> USE DEF OutboxInv
<1> DEFINE m == batch[1].msg
<1>1. /\ batch \in Seq(Entries) /\ batch # <<>> /\ batch' = Tail(batch)
      /\ UNCHANGED <<row, attempts, errors>>
  BY DEF Send, OutboxTypes
<1>2. /\ batch[1] \in Entries /\ 1 \in 1..Len(batch) /\ batch' \in Seq(Entries)
      /\ \A i \in 1..Len(batch') : i + 1 \in 1..Len(batch) /\ batch'[i] = batch[i + 1]
  BY <1>1, HeadAndTail
<1>3. PICK taken \in BOOLEAN, answer \in Answers :
        /\ answer = "accepted" => taken
        /\ taken => copies[m] < MaxCopies
        /\ copies' = IF taken THEN [copies EXCEPT ![m] = @ + 1] ELSE copies
        /\ sending' = [msg |-> m, attempts |-> batch[1].attempts, answer |-> answer]
  BY DEF Send
<1>4. m \in Messages /\ batch[1].attempts \in 0..MaxAttempts - 1
  BY <1>2 DEF Entries
<1> HIDE DEF m
<1>5. copies' \in [Messages -> 0..MaxCopies] /\ (answer = "accepted" => copies'[m] > 0)
  BY <1>3, <1>4, MailAssumption DEF OutboxTypes, MailAssumption
<1>6. OutboxTypes'
  <2>1. sending' \in Sends
    BY <1>3, <1>4 DEF Sends
  <2> QED
    BY <1>1, <1>2, <1>5, <2>1 DEF OutboxTypes
<1>7. AttemptsWereErrors'
  BY <1>1 DEF AttemptsWereErrors
<1>8. BatchIsUnsettled'
  <2>1. ASSUME NEW i \in 1..Len(batch')
        PROVE  /\ row'[batch'[i].msg] \in {"due", "withdrawn"}
               /\ batch'[i].attempts <= errors'[batch'[i].msg]
    BY <1>1, <1>2 DEF BatchIsUnsettled, Unsettled
  <2>2. ASSUME NEW i \in 1..Len(batch'), NEW j \in 1..Len(batch'), batch'[i].msg = batch'[j].msg
        PROVE  i = j
    <3>1. i + 1 = j + 1
      BY <1>2, <2>2 DEF BatchIsUnsettled
    <3> QED
      BY <3>1
  <2> QED
    BY <2>1, <2>2 DEF BatchIsUnsettled, Unsettled
<1>9. SendIsUnsettled'
  <2>1. row'[m] \in {"due", "withdrawn"} /\ batch[1].attempts <= errors'[m]
    BY <1>1, <1>2 DEF BatchIsUnsettled, Unsettled, m
  <2>2. ASSUME NEW i \in 1..Len(batch'), batch'[i].msg = m
        PROVE  FALSE
    <3>1. i + 1 = 1
      BY <1>2, <2>2 DEF BatchIsUnsettled, m
    <3> QED
      BY <3>1
  <2> QED
    BY <1>3, <1>5, <2>1, <2>2 DEF SendIsUnsettled, Unsettled
<1> QED
  BY <1>6, <1>7, <1>8, <1>9

\* A step that settles at most the mail in hand, counts at most its error, and
\* forgets it.
LEMMA RecordKeeps ==
  ASSUME OutboxInv, sending # NoSend, sending' = NoSend, UNCHANGED <<batch, copies>>,
         OutboxTypes', AttemptsWereErrors',
         \A m \in Messages : m # sending.msg => UNCHANGED <<row[m], errors[m]>>
  PROVE  OutboxInv'
<1> USE DEF OutboxInv
<1>1. ASSUME NEW i \in 1..Len(batch)
      PROVE  Unsettled(batch[i].msg, batch[i].attempts)'
  <2>1. batch[i] \in Entries
    BY DEF OutboxTypes
  <2>2. batch[i].msg \in Messages /\ batch[i].msg # sending.msg
    BY <2>1 DEF Entries, SendIsUnsettled
  <2> QED
    BY <2>2 DEF Unsettled, BatchIsUnsettled
<1>2. BatchIsUnsettled'
  BY <1>1 DEF BatchIsUnsettled
<1>3. SendIsUnsettled'
  BY DEF SendIsUnsettled
<1> QED
  BY <1>2, <1>3

LEMMA SentKeeps ==
  ASSUME OutboxInv, RecordSent
  PROVE  OutboxInv'
<1> USE DEF OutboxInv
<1>1. /\ sending \in Sends /\ sending.msg \in Messages /\ sending # NoSend /\ sending' = NoSend
      /\ UNCHANGED <<attempts, batch, copies, errors>>
  BY DEF RecordSent, WriteIsLost, OutboxTypes, Sends
<1>2. row' = row \/ row' = [row EXCEPT ![sending.msg] = "sent"]
  BY DEF RecordSent, WriteIsLost
<1>3. OutboxTypes' /\ AttemptsWereErrors'
  BY <1>1, <1>2 DEF OutboxTypes, AttemptsWereErrors, Rows
<1>4. \A m \in Messages : m # sending.msg => UNCHANGED <<row[m], errors[m]>>
  BY <1>1, <1>2 DEF OutboxTypes
<1> QED
  BY <1>1, <1>3, <1>4, RecordKeeps

\* The error and the attempt that was made with it, counted from the copy.
LEMMA FailureSteps ==
  ASSUME OutboxInv, RecordFailure
  PROVE  LET m == sending.msg IN
         /\ m \in Messages /\ row[m] \in {"due", "withdrawn"}
         /\ sending # NoSend /\ sending' = NoSend /\ UNCHANGED <<batch, copies>>
         /\ errors' = [errors EXCEPT ![m] = IF @ < MaxAttempts THEN @ + 1 ELSE @]
         /\ \/ UNCHANGED <<row, attempts>>
            \/ /\ row[m] = "due"
               /\ attempts' = [attempts EXCEPT ![m] = sending.attempts + 1]
               /\ sending.attempts + 1 <= errors'[m]
               /\ \/ row' = [row EXCEPT ![m] = "dead"] /\ errors'[m] = MaxAttempts
                  \/ row' = [row EXCEPT ![m] = "waiting"] /\ sending.attempts + 1 < MaxAttempts
<1> DEFINE m == sending.msg
<1>1. /\ m \in Messages /\ sending.attempts \in 0..MaxAttempts - 1
      /\ sending # NoSend /\ sending' = NoSend /\ UNCHANGED <<batch, copies>>
  BY DEF RecordFailure, WriteIsLost, OutboxInv, OutboxTypes, Sends
<1>2. row[m] \in {"due", "withdrawn"} /\ sending.attempts <= errors[m]
  BY <1>1 DEF OutboxInv, SendIsUnsettled, Unsettled
<1>3. errors[m] \in 0..MaxAttempts /\ errors \in [Messages -> 0..MaxAttempts]
  BY <1>1 DEF OutboxInv, OutboxTypes
<1>4. errors' = [errors EXCEPT ![m] = IF @ < MaxAttempts THEN @ + 1 ELSE @]
  <2>1. errors' = [errors EXCEPT ![m] = Smaller(MaxAttempts, @ + 1)]
    BY DEF RecordFailure
  <2>2. Smaller(MaxAttempts, errors[m] + 1) = IF errors[m] < MaxAttempts THEN errors[m] + 1 ELSE errors[m]
    BY <1>3, MailAssumption DEF Smaller, MailAssumption
  <2> QED
    BY <2>1, <2>2
<1>5. \/ UNCHANGED <<row, attempts>>
      \/ /\ row[m] = "due"
         /\ attempts' = [attempts EXCEPT ![m] = sending.attempts + 1]
         /\ row' = [row EXCEPT ![m] = IF sending.attempts + 1 >= MaxAttempts THEN "dead" ELSE "waiting"]
  BY <1>2 DEF RecordFailure, WriteIsLost, Live, Rows
<1> HIDE DEF m
<1>6. sending.attempts + 1 <= errors'[m]
      /\ (sending.attempts + 1 >= MaxAttempts => errors'[m] = MaxAttempts)
  BY <1>1, <1>2, <1>3, <1>4, MailAssumption DEF MailAssumption
<1>7. sending.attempts + 1 >= MaxAttempts \/ sending.attempts + 1 < MaxAttempts
  BY <1>1, MailAssumption DEF MailAssumption
<1> QED
  BY <1>1, <1>2, <1>4, <1>5, <1>6, <1>7 DEF m

LEMMA FailureKeeps ==
  ASSUME OutboxInv, RecordFailure
  PROVE  OutboxInv'
<1> USE MailAssumption DEF OutboxInv, MailAssumption
<1> DEFINE m == sending.msg
<1>1. /\ m \in Messages /\ sending # NoSend /\ sending' = NoSend /\ UNCHANGED <<batch, copies>>
      /\ errors' = [errors EXCEPT ![m] = IF @ < MaxAttempts THEN @ + 1 ELSE @]
      /\ \/ UNCHANGED <<row, attempts>>
         \/ /\ attempts' = [attempts EXCEPT ![m] = sending.attempts + 1]
            /\ sending.attempts + 1 <= errors'[m]
            /\ \/ row' = [row EXCEPT ![m] = "dead"]
               \/ row' = [row EXCEPT ![m] = "waiting"] /\ sending.attempts + 1 < MaxAttempts
  BY FailureSteps
<1>2. sending.attempts \in 0..MaxAttempts - 1
  BY <1>1 DEF OutboxTypes, Sends
<1> HIDE DEF m
<1>3. errors' \in [Messages -> 0..MaxAttempts] /\ \A x \in Messages : errors[x] <= errors'[x]
  BY <1>1 DEF OutboxTypes
<1>4. OutboxTypes'
  <2>1. attempts' \in [Messages -> 0..MaxAttempts]
    <3>1. sending.attempts + 1 \in 0..MaxAttempts
      BY <1>2
    <3>2. attempts \in [Messages -> 0..MaxAttempts]
      BY DEF OutboxTypes
    <3>3. attempts' = attempts \/ attempts' = [attempts EXCEPT ![m] = sending.attempts + 1]
      BY <1>1
    <3> QED
      BY <3>1, <3>2, <3>3
  <2>2. row' \in [Messages -> Rows \cup {"none", "withdrawn", "purged"}]
    BY <1>1 DEF OutboxTypes, Rows
  <2> QED
    BY <1>1, <1>3, <2>1, <2>2 DEF OutboxTypes
<1>5. AttemptsWereErrors'
  <2>1. CASE UNCHANGED <<row, attempts>>
    BY <1>3, <2>1 DEF AttemptsWereErrors, OutboxTypes
  <2>2. CASE ~(UNCHANGED <<row, attempts>>)
    <3>1. ASSUME NEW x \in Messages
          PROVE  attempts'[x] <= errors'[x] /\ (row'[x] \in {"none", "due", "waiting"} => attempts'[x] < MaxAttempts)
      <4>1. CASE x = m
        BY <1>1, <2>2, <4>1 DEF OutboxTypes
      <4>2. CASE x # m
        BY <1>1, <1>3, <2>2, <3>1, <4>2 DEF OutboxTypes, AttemptsWereErrors
      <4> QED
        BY <4>1, <4>2
    <3> QED
      BY <3>1 DEF AttemptsWereErrors
  <2> QED
    BY <2>1, <2>2
<1>6. \A x \in Messages : x # m => UNCHANGED <<row[x], errors[x]>>
  BY <1>1 DEF OutboxTypes
<1> QED
  BY <1>1, <1>4, <1>5, <1>6, RecordKeeps DEF m

-----------------------------------------------------------------------------
\* The steps around the worker.

LEMMA MailRowsMove ==
  ASSUME OutboxInv, NEW m \in Messages, Enqueue(m) \/ Backoff(m) \/ Remove(m)
  PROVE  OutboxInv'
<1> USE DEF OutboxInv
<1>1. UNCHANGED <<attempts, batch, sending, copies, errors>>
  BY DEF Enqueue, Backoff, Remove, workerVars
<1>2. PICK state \in {"due", "withdrawn", "purged"} :
        /\ row' = [row EXCEPT ![m] = state]
        /\ row[m] \in {"due", "withdrawn"} => state = "withdrawn"
        /\ state = "due" => row[m] \in {"none", "waiting"}
  BY DEF Enqueue, Backoff, Remove, Live, Rows
<1>3. row \in [Messages -> Rows \cup {"none", "withdrawn", "purged"}]
  BY DEF OutboxTypes
<1>4. OutboxTypes'
  BY <1>1, <1>2 DEF OutboxTypes, Rows
<1>5. \A x \in Messages : row[x] \in {"due", "withdrawn"} => row'[x] \in {"due", "withdrawn"}
  BY <1>2, <1>3
<1>6. AttemptsWereErrors'
  BY <1>1, <1>2, <1>3 DEF AttemptsWereErrors
<1>7. BatchIsUnsettled'
  <2>1. ASSUME NEW i \in 1..Len(batch)
        PROVE  batch[i].msg \in Messages
    <3>1. batch[i] \in Entries
      BY DEF OutboxTypes
    <3> QED
      BY <3>1 DEF Entries
  <2> QED
    BY <1>1, <1>5, <2>1 DEF BatchIsUnsettled, Unsettled
<1>8. SendIsUnsettled'
  <2>1. sending # NoSend => sending.msg \in Messages
    BY DEF OutboxTypes, Sends
  <2> QED
    BY <1>1, <1>5, <2>1 DEF SendIsUnsettled, Unsettled
<1> QED
  BY <1>1, <1>4, <1>6, <1>7, <1>8

LEMMA OutboxInvariance ==
  ASSUME OutboxInv, [MailNext]_mailVars
  PROVE  OutboxInv'
<1>1. CASE GiveUpPass
  <2>1. batch' = <<>> /\ UNCHANGED <<row, attempts, sending, copies, errors>>
    BY <1>1 DEF GiveUpPass
  <2> QED
    BY <2>1 DEF OutboxInv, OutboxTypes, AttemptsWereErrors, BatchIsUnsettled, SendIsUnsettled, Unsettled
<1>2. CASE Exit
  <2>1. batch' = <<>> /\ sending' = NoSend /\ UNCHANGED <<row, attempts, copies, errors>>
    BY <1>2 DEF Exit
  <2> QED
    BY <2>1 DEF OutboxInv, OutboxTypes, AttemptsWereErrors, BatchIsUnsettled, SendIsUnsettled
<1>3. CASE Stop \/ Boot \/ Configure \/ UNCHANGED mailVars
  <2>1. UNCHANGED <<row, attempts, batch, sending, copies, errors>>
    BY <1>3 DEF Stop, Boot, Configure, mailVars, workerVars
  <2> QED
    BY <2>1 DEF OutboxInv, OutboxTypes, AttemptsWereErrors, BatchIsUnsettled, SendIsUnsettled, Unsettled
<1>4. CASE BeginPass
  BY <1>4, PassKeeps
<1>5. CASE Send
  BY <1>5, SendKeeps
<1>6. CASE RecordSent
  BY <1>6, SentKeeps
<1>7. CASE RecordFailure
  BY <1>7, FailureKeeps
<1>8. ASSUME NEW m \in Messages, Enqueue(m) \/ Backoff(m) \/ Remove(m)
      PROVE  OutboxInv'
  BY <1>8, MailRowsMove
<1> QED
  BY <1>1, <1>2, <1>3, <1>4, <1>5, <1>6, <1>7, <1>8 DEF MailNext, WorkerSteps

-----------------------------------------------------------------------------
\* Each step as the abstract delivery sees it.

Owed == [m \in Messages |-> IF row[m] \in {"due", "waiting"} THEN "owed" ELSE row[m]]

LEMMA SendImplements ==
  ASSUME OutboxInv, Send
  PROVE  (\E m \in Messages : Delivery!Receive(m)) \/ UNCHANGED Delivery!deliveryVars
<1> DEFINE m == batch[1].msg
<1>1. batch[1] \in Entries /\ 1 \in 1..Len(batch)
  BY HeadAndTail DEF Send, OutboxInv, OutboxTypes
<1>2. m \in Messages /\ row[m] \in {"due", "withdrawn"}
  BY <1>1 DEF Entries, OutboxInv, BatchIsUnsettled, Unsettled
<1>3. copies' = copies \/ copies' = [copies EXCEPT ![m] = @ + 1]
  BY DEF Send
<1>4. UNCHANGED <<row, errors>>
  BY DEF Send
<1> HIDE DEF m
<1>5. CASE copies' = copies
  BY <1>4, <1>5 DEF Delivery!deliveryVars
<1>6. CASE copies' = [copies EXCEPT ![m] = @ + 1]
  BY <1>2, <1>4, <1>6 DEF Delivery!Receive
<1> QED
  BY <1>3, <1>5, <1>6

LEMMA SentImplements ==
  ASSUME OutboxInv, RecordSent
  PROVE  (\E m \in Messages : Delivery!MarkSent(m)) \/ UNCHANGED Delivery!deliveryVars
<1> DEFINE m == sending.msg
<1>1. m \in Messages /\ sending # NoSend /\ row \in [Messages -> Rows \cup {"none", "withdrawn", "purged"}]
  BY DEF RecordSent, OutboxInv, OutboxTypes, Sends
<1>2. row[m] \in {"due", "withdrawn"} /\ copies[m] > 0
  BY <1>1 DEF RecordSent, OutboxInv, SendIsUnsettled, Unsettled
<1>3. row' = row \/ (row' = [row EXCEPT ![m] = "sent"] /\ row[m] = "due")
  BY <1>2 DEF RecordSent, WriteIsLost, Live, Rows
<1>4. UNCHANGED <<copies, errors>>
  BY DEF RecordSent
<1> HIDE DEF m
<1>5. CASE row' = row
  BY <1>4, <1>5 DEF Delivery!deliveryVars
<1>6. CASE row' = [row EXCEPT ![m] = "sent"] /\ row[m] = "due"
  <2>1. Delivery!Move(m, {"owed"}, "sent")
    BY <1>1, <1>6 DEF Delivery!Move
  <2> QED
    BY <1>1, <1>2, <1>4, <2>1 DEF Delivery!MarkSent
<1> QED
  BY <1>3, <1>5, <1>6

LEMMA FailureImplements ==
  ASSUME OutboxInv, RecordFailure
  PROVE  \E m \in Messages : Delivery!Fail(m)
<1> DEFINE m == sending.msg
<1>1. /\ m \in Messages /\ row[m] \in {"due", "withdrawn"} /\ UNCHANGED copies
      /\ errors' = [errors EXCEPT ![m] = IF @ < MaxAttempts THEN @ + 1 ELSE @]
      /\ \/ UNCHANGED row
         \/ /\ row[m] = "due"
            /\ \/ row' = [row EXCEPT ![m] = "dead"] /\ errors'[m] = MaxAttempts
               \/ row' = [row EXCEPT ![m] = "waiting"]
  BY FailureSteps
<1>2. row \in [Messages -> Rows \cup {"none", "withdrawn", "purged"}]
  BY DEF OutboxInv, OutboxTypes
<1> HIDE DEF m
<1>3. Owed[m] \in {"owed", "withdrawn"}
  BY <1>1 DEF Owed
<1>4. UNCHANGED Owed \/ (errors'[m] = MaxAttempts /\ Delivery!Move(m, {"owed"}, "dead"))
  <2>1. CASE UNCHANGED row
    BY <2>1 DEF Owed
  <2>2. CASE row[m] = "due" /\ row' = [row EXCEPT ![m] = "waiting"]
    BY <1>1, <1>2, <2>2 DEF Owed
  <2>3. CASE row[m] = "due" /\ row' = [row EXCEPT ![m] = "dead"] /\ errors'[m] = MaxAttempts
    BY <1>1, <1>2, <2>3 DEF Delivery!Move
  <2> QED
    BY <1>1, <2>1, <2>2, <2>3
<1> QED
  BY <1>1, <1>3, <1>4 DEF Delivery!Fail, Owed

LEMMA RowsImplement ==
  ASSUME OutboxInv, NEW m \in Messages, Enqueue(m) \/ Backoff(m) \/ Remove(m)
  PROVE  Delivery!Owe(m) \/ Delivery!Withdraw(m) \/ Delivery!Purge(m) \/ UNCHANGED Delivery!deliveryVars
<1>1. row \in [Messages -> Rows \cup {"none", "withdrawn", "purged"}]
  BY DEF OutboxInv, OutboxTypes
<1>2. CASE Enqueue(m)
  BY <1>1, <1>2 DEF Enqueue, Delivery!Owe, Delivery!Move
<1>3. CASE Backoff(m)
  <2>1. Owed' = Owed
    BY <1>1, <1>3 DEF Backoff, Owed
  <2> QED
    BY <1>3, <2>1 DEF Backoff, Owed, Delivery!deliveryVars
<1>4. CASE Remove(m)
  BY <1>1, <1>4 DEF Remove, Live, Rows, Delivery!Withdraw, Delivery!Purge, Delivery!Move
<1> QED
  BY <1>2, <1>3, <1>4

LEMMA StepImplements ==
  ASSUME OutboxInv, [MailNext]_mailVars
  PROVE  [Delivery!DeliveryNext]_Delivery!deliveryVars
<1>1. ASSUME NEW m \in Messages, Enqueue(m) \/ Backoff(m) \/ Remove(m)
      PROVE  [Delivery!DeliveryNext]_Delivery!deliveryVars
  BY <1>1, RowsImplement DEF Delivery!DeliveryNext
<1>2. CASE Send
  BY <1>2, SendImplements DEF Delivery!DeliveryNext
<1>3. CASE RecordSent
  BY <1>3, SentImplements DEF Delivery!DeliveryNext
<1>4. CASE RecordFailure
  BY <1>4, FailureImplements DEF Delivery!DeliveryNext
<1>5. CASE BeginPass \/ GiveUpPass \/ Stop \/ Exit \/ Boot \/ Configure \/ UNCHANGED mailVars
  <2>1. UNCHANGED <<row, copies, errors>>
    BY <1>5 DEF BeginPass, GiveUpPass, Stop, Exit, Boot, Configure, mailVars
  <2> QED
    BY <2>1 DEF Delivery!deliveryVars
<1> QED
  BY <1>1, <1>2, <1>3, <1>4, <1>5 DEF MailNext, WorkerSteps

\* The outbox delivers at least once, for any number of mails, attempts and
\* lost writes: crashes, stale copies and withdrawn accounts included
\* (mailoutbox.go drain, attempt, fail).
THEOREM OutboxRefinesDelivery == MailSpec => OutboxImplementsDelivery
<1>1. MailInit => Delivery!DeliveryInit
  BY DEF MailInit, Delivery!DeliveryInit
<1> QED
  BY <1>1, OutboxInit, OutboxInvariance, StepImplements, PTL
     DEF MailSpec, OutboxImplementsDelivery, Delivery!DeliverySpec

-----------------------------------------------------------------------------
(* The activity writer.                                                     *)

InWriter == {"queued", "held"}
Kept(s) == \A r \in Covers[s] : rowState[r] \notin {"written", "queued", "held"}

\* The lock is with the caller that waits; the writer that was asked has emptied
\* the queue, and one that has stopped lets no row in.
WriterOK ==
  /\ \A c \in Callers : caller[c] \in {"waiting", "asked"} <=> lock = c
  /\ \A c \in Callers : caller[c] = "asked" =>
       writer = "barrier" /\ \A r \in LogRows : rowState[r] # "queued"
  /\ writer \in {"final", "done"} => stopping /\ \A r \in LogRows : rowState[r] # "queued"
  /\ writer = "done" => \A r \in LogRows : rowState[r] # "held"
  /\ \A r \in covered : rowState[r] \notin {"new", "open"}

\* How far a deletion is tells what is left of its rows.
DeletionOK(s) ==
  /\ caller[s] \in {"begun", "deleted", "waiting", "asked", "drained", "clean"} => s \in gone
  /\ caller[s] \in {"waiting", "asked", "drained", "clean"} => s \in discarded
  /\ caller[s] \in {"drained", "clean"} => \A r \in Covers[s] : rowState[r] \notin InWriter
  /\ caller[s] = "clean" => \A r \in Covers[s] : rowState[r] # "written"
  /\ s \in erased => /\ caller[s] = "returned" /\ s \in gone /\ s \notin known /\ Kept(s)
                     /\ \A r \in Covers[s] : rowState[r] = "open" => s \in discarded

DeletionsOK == \A s \in Scopes : DeletionOK(s)

ActivityInv == ActivityTypeOK /\ FlushIsABarrier /\ WriterOK /\ DeletionsOK

LEMMA ActivityConstants ==
  /\ \A s \in Scopes : /\ Covers[s] \subseteq LogRows /\ s \in Callers /\ s \notin Readers
                       /\ s # Maintenance /\ s # Shutdown
  /\ NoCaller \notin Callers /\ Maintenance \in Callers /\ Shutdown \in Callers
  /\ \A c \in Readers : c \in Callers
  BY ActivityAssumption DEF ActivityAssumption, Callers

LEMMA ActivityStart == ActivityInit => ActivityInv
  BY ActivityConstants
     DEF ActivityInit, ActivityInv, ActivityTypeOK, FlushIsABarrier, WriterOK, DeletionsOK, DeletionOK, Kept, InWriter, RowStates,
         WriterStates, CallerStates, Queue, Batch

\* A step of the rows alone: none enters the writer against a lock or a deletion.
LEMMA RowsMove ==
  ASSUME ActivityInv, UNCHANGED <<lock, writer, stopping, discarded, gone, caller, logHistory>>,
         intents' \subseteq Scopes, known' \subseteq known, todo' \subseteq Scopes,
         rowState' \in [LogRows -> RowStates],
         \A r \in LogRows :
           \/ rowState'[r] = rowState[r]
           \/ rowState[r] = "new" /\ rowState'[r] = "open" /\ \A s \in Scopes : r \in Covers[s] => s \in known
           \/ rowState[r] = "open" /\ rowState'[r] = "dropped"
           \/ /\ rowState[r] = "open" /\ rowState'[r] = "queued" /\ lock = NoCaller /\ ~stopping
              /\ \A s \in discarded : r \notin Covers[s]
           \/ rowState[r] = "queued" /\ rowState'[r] = "held" /\ writer = "loop"
           \/ rowState[r] = "held" /\ rowState'[r] \in {"written", "dropped"}
           \/ rowState[r] = "written" /\ rowState'[r] = "erased"
  PROVE  ActivityInv'
<1> USE ActivityConstants DEF ActivityInv
<1>1. ActivityTypeOK'
  BY DEF ActivityTypeOK, logHistory
<1>2. FlushIsABarrier'
  <2>1. ASSUME NEW r \in covered, rowState'[r] \in InWriter PROVE rowState[r] \in InWriter
    BY <2>1 DEF WriterOK, ActivityTypeOK, InWriter
  <2>2. ASSUME NEW r \in covered, lock = NoCaller PROVE rowState[r] \notin InWriter
    BY <2>2 DEF FlushIsABarrier, Queue, Batch, ActivityTypeOK, InWriter
  <2> QED
    BY <2>1, <2>2 DEF FlushIsABarrier, Queue, Batch, logHistory, InWriter
<1>3. WriterOK'
  BY DEF WriterOK, ActivityTypeOK, logHistory
<1>4. DeletionsOK'
  BY DEF DeletionsOK, DeletionOK, Kept, InWriter, logHistory, ActivityTypeOK
<1> QED
  BY <1>1, <1>2, <1>3, <1>4

\* Put changes the rows it is given.
LEMMA PutRows ==
  ASSUME ActivityTypeOK, NEW rows, NEW state \in RowStates, Put(rows, state)
  PROVE  /\ rowState' \in [LogRows -> RowStates]
         /\ \A r \in LogRows : rowState'[r] = IF r \in rows THEN state ELSE rowState[r]
  BY DEF Put, ActivityTypeOK

\* A batch is written, but for the rows of an intent, or lost.
LEMMA InsertedRows ==
  ASSUME ActivityTypeOK, InsertRequestLogs(Batch)
  PROVE  /\ rowState' \in [LogRows -> RowStates]
         /\ \A r \in LogRows : IF rowState[r] = "held" THEN rowState'[r] \in {"written", "dropped"}
                               ELSE rowState'[r] = rowState[r]
<1>1. PICK stored : rowState' = [r \in LogRows |-> IF r \notin Batch THEN rowState[r]
                                  ELSE IF r \in stored THEN "written" ELSE "dropped"]
  BY DEF InsertRequestLogs
<1>2. ASSUME NEW r \in LogRows
      PROVE  IF rowState[r] = "held" THEN rowState'[r] \in {"written", "dropped"}
             ELSE rowState'[r] = rowState[r]
  BY <1>1, <1>2 DEF Batch
<1>3. \A r \in LogRows : rowState'[r] \in RowStates
  BY <1>2 DEF ActivityTypeOK, RowStates
<1> QED
  BY <1>1, <1>2, <1>3

LEMMA RowStepsKeep ==
  ASSUME ActivityInv,
         \/ \E r \in LogRows : Open(r) \/ EnqueueRow(r) \/ TakeRow(r)
         \/ FlushBatch
         \/ \E s \in Scopes : ReconcileCleanup(s)
  PROVE  ActivityInv'
<1>1. ActivityTypeOK /\ {"open", "dropped", "queued", "held", "erased"} \subseteq RowStates
  BY DEF ActivityInv, RowStates
<1> USE ActivityConstants DEF writerVars, coreVars, logHistory
<1>2. ASSUME NEW r \in LogRows, Open(r) PROVE ActivityInv'
  <2>1. /\ rowState' \in [LogRows -> RowStates]
        /\ \A q \in LogRows : rowState'[q] = IF q = r THEN "open" ELSE rowState[q]
    BY <1>1, <1>2, PutRows DEF Open
  <2> QED
    BY <1>1, <1>2, <2>1, RowsMove DEF Open, ActivityTypeOK
<1>3. ASSUME NEW r \in LogRows, EnqueueRow(r) PROVE ActivityInv'
  <2>1. PICK to \in {"dropped", "queued"} :
          /\ Put({r}, to)
          /\ to = "queued" => ~stopping /\ r \notin Scoped(discarded)
    BY <1>3 DEF EnqueueRow
  <2>2. /\ rowState' \in [LogRows -> RowStates]
        /\ \A q \in LogRows : rowState'[q] = IF q = r THEN to ELSE rowState[q]
    BY <1>1, <2>1, PutRows
  <2>3. to = "queued" => \A s \in discarded : r \notin Covers[s]
    BY <2>1 DEF Scoped
  <2> QED
    BY <1>1, <1>3, <2>1, <2>2, <2>3, RowsMove DEF EnqueueRow, ActivityTypeOK
<1>4. ASSUME NEW r \in LogRows, TakeRow(r) PROVE ActivityInv'
  <2>1. /\ rowState' \in [LogRows -> RowStates]
        /\ \A q \in LogRows : rowState'[q] = IF q = r THEN "held" ELSE rowState[q]
    BY <1>1, <1>4, PutRows DEF TakeRow
  <2> QED
    BY <1>1, <1>4, <2>1, RowsMove DEF TakeRow, ActivityTypeOK
<1>5. CASE FlushBatch
  <2>1. /\ rowState' \in [LogRows -> RowStates]
        /\ \A r \in LogRows : IF rowState[r] = "held" THEN rowState'[r] \in {"written", "dropped"}
                              ELSE rowState'[r] = rowState[r]
    BY <1>1, <1>5, InsertedRows DEF FlushBatch
  <2>2. UNCHANGED <<lock, writerVars, coreVars, caller, todo, logHistory>>
    BY <1>5 DEF FlushBatch
  <2> QED
    BY <1>1, <2>1, <2>2, RowsMove DEF ActivityTypeOK
<1>6. ASSUME NEW s \in Scopes, ReconcileCleanup(s) PROVE ActivityInv'
  <2>1. /\ rowState' \in [LogRows -> RowStates]
        /\ \A r \in LogRows : \/ rowState'[r] = rowState[r]
                              \/ rowState[r] = "written" /\ rowState'[r] = "erased"
    <3>1. CASE Erase(Covers[s])
      BY <1>1, <3>1, PutRows DEF Erase
    <3>2. CASE UNCHANGED rowState
      BY <1>1, <3>2 DEF ActivityTypeOK
    <3> QED
      BY <1>6, <3>1, <3>2 DEF ReconcileCleanup
  <2>2. /\ UNCHANGED <<lock, writerVars, gone, known, caller, logHistory>>
        /\ intents' \subseteq Scopes /\ todo' \subseteq Scopes
    BY <1>1, <1>6 DEF ReconcileCleanup, ActivityTypeOK
  <2> QED
    BY <1>1, <2>1, <2>2, RowsMove
<1> QED
  BY <1>2, <1>3, <1>4, <1>5, <1>6

\* A caller that is let go, by a writer that holds nothing any more.
LEMMA UnlockKeeps ==
  ASSUME ActivityInv, UNCHANGED <<stopping, discarded, coreVars, todo, logHistory>>,
         lock # NoCaller, UnlockQueue, writer' \in {"loop", "done"},
         writer' = "done" => stopping,
         rowState' \in [LogRows -> RowStates],
         \A r \in LogRows : /\ rowState'[r] \notin InWriter
                            /\ \/ rowState'[r] = rowState[r]
                               \/ rowState[r] = "held" /\ rowState'[r] \in {"written", "dropped"}
  PROVE  ActivityInv'
<1> USE ActivityConstants DEF ActivityInv, coreVars, logHistory
<1>1. /\ lock \in Callers /\ lock' = NoCaller /\ caller' = [caller EXCEPT ![lock] = After(lock)]
      /\ caller[lock] \in {"waiting", "asked"} /\ caller \in [Callers -> CallerStates]
  BY DEF UnlockQueue, ActivityTypeOK, WriterOK
<1>2. PICK c \in Callers : c = lock
  BY <1>1
<1>3. /\ caller'[c] = After(c) /\ \A d \in Callers \ {c} : caller'[d] = caller[d]
      /\ After(c) \in {"drained", "returned"} /\ caller' \in [Callers -> CallerStates]
      /\ c \in Scopes => After(c) = "drained"
  BY <1>1, <1>2 DEF After, CallerStates
<1>4. ActivityTypeOK'
  BY <1>1, <1>3 DEF ActivityTypeOK, WriterStates
<1>5. FlushIsABarrier'
  BY DEF FlushIsABarrier, Queue, Batch, InWriter
<1>6. WriterOK'
  <2>1. \A d \in Callers : caller'[d] \notin {"waiting", "asked"} /\ lock' # d
    BY <1>1, <1>2, <1>3 DEF WriterOK
  <2>2. \A r \in covered : rowState'[r] \notin {"new", "open"}
    BY DEF WriterOK, ActivityTypeOK
  <2> QED
    BY <2>1, <2>2 DEF WriterOK, InWriter
<1>7. DeletionsOK'
  BY <1>1, <1>2, <1>3 DEF DeletionsOK, DeletionOK, InWriter, Kept, ActivityTypeOK
<1> QED
  BY <1>4, <1>5, <1>6, <1>7

\* The steps of the writer goroutine that its callers notice.
LEMMA WriterKeeps ==
  ASSUME ActivityInv,
         DrainForFlush \/ DrainToStop \/ Acknowledge \/ WriterEnds \/ FlushOfEnded
  PROVE  ActivityInv'
<1> USE ActivityConstants DEF ActivityInv, coreVars, logHistory, writerVars
<1>1. CASE DrainForFlush \/ DrainToStop
  <2>1. /\ rowState' \in [LogRows -> RowStates]
        /\ \A r \in LogRows : rowState'[r] = IF rowState[r] = "queued" THEN "held" ELSE rowState[r]
    <3>1. Put(Queue, "held") /\ "held" \in RowStates
      BY <1>1 DEF DrainForFlush, DrainToStop, Drain, RowStates
    <3> QED
      BY <3>1, PutRows DEF Queue
  <2>2. /\ UNCHANGED <<lock, stopping, discarded, coreVars, todo, logHistory>> /\ writer = "loop"
        /\ \/ writer' = "barrier" /\ lock # NoCaller /\ caller' = [caller EXCEPT ![lock] = "asked"]
           \/ writer' = "final" /\ stopping /\ caller' = caller
        /\ writer' = "barrier" => caller[lock] = "waiting"
    BY <1>1 DEF DrainForFlush, DrainToStop, Drain, At
  <2>3. /\ caller' \in [Callers -> CallerStates]
        /\ \A c \in Callers : \/ caller'[c] = caller[c]
                              \/ lock = c /\ caller[c] = "waiting" /\ caller'[c] = "asked" /\ writer' = "barrier"
    BY <2>2 DEF ActivityTypeOK, CallerStates
  <2>4. \A r \in LogRows : rowState'[r] # "queued"
    BY <2>1
  <2>5. ActivityTypeOK'
    BY <2>1, <2>2, <2>3 DEF ActivityTypeOK, WriterStates
  <2>6. FlushIsABarrier'
    BY <2>1, <2>2 DEF FlushIsABarrier, Queue, Batch
  <2>7. WriterOK'
    BY <2>1, <2>2, <2>3, <2>4 DEF WriterOK, ActivityTypeOK
  <2>8. DeletionsOK'
    BY <2>1, <2>2, <2>3 DEF DeletionsOK, DeletionOK, Kept, InWriter, ActivityTypeOK
  <2> QED
    BY <2>5, <2>6, <2>7, <2>8
<1>2. ASSUME Acknowledge \/ WriterEnds
      PROVE  /\ rowState' \in [LogRows -> RowStates]
             /\ \A r \in LogRows : IF rowState[r] = "held" THEN rowState'[r] \in {"written", "dropped"}
                                   ELSE rowState'[r] = rowState[r]
  BY <1>2, InsertedRows DEF Acknowledge, WriterEnds
<1>3. ASSUME Acknowledge \/ WriterEnds, UNCHANGED <<lock, caller>>,
             \A c \in Callers : caller[c] # "asked"
      PROVE  ActivityInv'
  <2>1. /\ UNCHANGED <<stopping, discarded, coreVars, todo, logHistory>>
        /\ writer' = "loop" \/ (writer' = "done" /\ writer = "final")
    BY <1>3 DEF Acknowledge, WriterEnds
  <2>2. ActivityTypeOK'
    BY <1>2, <1>3, <2>1 DEF ActivityTypeOK, WriterStates
  <2>3. FlushIsABarrier'
    BY <1>2, <1>3, <2>1 DEF FlushIsABarrier, Queue, Batch
  <2>4. WriterOK'
    BY <1>2, <1>3, <2>1 DEF WriterOK, ActivityTypeOK
  <2>5. DeletionsOK'
    BY <1>2, <1>3, <2>1 DEF DeletionsOK, DeletionOK, Kept, InWriter, ActivityTypeOK
  <2> QED
    BY <2>2, <2>3, <2>4, <2>5
<1>4. CASE Acknowledge
  <2>1. CASE lock # NoCaller /\ caller[lock] = "asked"
    <3>1. /\ UNCHANGED <<stopping, discarded, coreVars, todo, logHistory>> /\ UnlockQueue
          /\ writer' = "loop" /\ lock \in Callers
      BY <1>4, <2>1 DEF Acknowledge, ActivityTypeOK
    <3>2. \A r \in LogRows : rowState[r] # "queued"
      BY <2>1, <3>1 DEF WriterOK
    <3>3. \A r \in LogRows : /\ rowState'[r] \notin InWriter
                             /\ \/ rowState'[r] = rowState[r]
                                \/ rowState[r] = "held" /\ rowState'[r] \in {"written", "dropped"}
      BY <1>2, <1>4, <3>2 DEF InWriter
    <3> QED
      BY <1>2, <1>4, <2>1, <3>1, <3>3, UnlockKeeps
  <2>2. CASE ~(lock # NoCaller /\ caller[lock] = "asked")
    <3>1. UNCHANGED <<lock, caller>>
      BY <1>4, <2>2 DEF Acknowledge
    <3>2. \A c \in Callers : caller[c] # "asked"
      BY <2>2 DEF WriterOK
    <3> QED
      BY <1>3, <1>4, <3>1, <3>2
  <2> QED
    BY <2>1, <2>2
<1>5. CASE WriterEnds
  <2>1. UNCHANGED <<lock, caller>> /\ writer = "final"
    BY <1>5 DEF WriterEnds
  <2>2. \A c \in Callers : caller[c] # "asked"
    BY <2>1 DEF WriterOK
  <2> QED
    BY <1>3, <1>5, <2>1, <2>2
<1>6. CASE FlushOfEnded
  <2>1. /\ writer = "done" /\ lock # NoCaller /\ UnlockQueue
        /\ UNCHANGED <<rowState, writerVars, coreVars, todo, logHistory>>
    BY <1>6 DEF FlushOfEnded
  <2>2. stopping /\ rowState \in [LogRows -> RowStates] /\ \A r \in LogRows : rowState[r] \notin InWriter
    BY <2>1 DEF WriterOK, InWriter, ActivityTypeOK
  <2> QED
    BY <2>1, <2>2, UnlockKeeps
<1> QED
  BY <1>1, <1>4, <1>5, <1>6

\* A flush takes the lock, with every row that is waiting.
LEMMA LockKeeps ==
  ASSUME ActivityInv, NEW c \in Callers, NEW from, FlushLocked(c, from),
         UNCHANGED <<rowState, writer, stopping, coreVars, todo, erased>>,
         discarded' \subseteq Scopes, discarded \subseteq discarded',
         c \in Scopes => from = "deleted" /\ c \in discarded'
  PROVE  ActivityInv'
<1> USE ActivityConstants DEF ActivityInv, coreVars
<1>1. /\ lock = NoCaller /\ lock' = c /\ caller[c] = from /\ covered' = Queue \cup Batch
      /\ caller'[c] = "waiting" /\ \A d \in Callers \ {c} : caller'[d] = caller[d]
      /\ caller' \in [Callers -> CallerStates]
  BY DEF FlushLocked, ActivityTypeOK, CallerStates
<1>2. ActivityTypeOK'
  BY <1>1 DEF ActivityTypeOK, Queue, Batch
<1>3. FlushIsABarrier'
  BY <1>1 DEF FlushIsABarrier
<1>4. WriterOK'
  BY <1>1 DEF WriterOK, Queue, Batch
<1>5. DeletionsOK'
  BY <1>1 DEF DeletionsOK, DeletionOK, Kept, InWriter
<1> QED
  BY <1>2, <1>3, <1>4, <1>5

\* A caller that does not wait goes on; rows are at most erased.
LEMMA CallerMoves ==
  ASSUME ActivityInv, NEW c \in Callers, NEW to \in CallerStates \ {"waiting", "asked"},
         caller[c] \notin {"waiting", "asked"}, caller' = [caller EXCEPT ![c] = to],
         UNCHANGED <<lock, writer, discarded, covered>>,
         stopping' \in BOOLEAN, stopping => stopping',
         rowState' \in [LogRows -> RowStates],
         \A r \in LogRows : rowState'[r] = rowState[r] \/ (rowState[r] = "written" /\ rowState'[r] = "erased"),
         intents' \subseteq Scopes, todo' \subseteq Scopes, gone' \subseteq Scopes, gone \subseteq gone',
         known' \subseteq known, erased' \subseteq Scopes, erased' \subseteq erased \cup {c},
         c \in Scopes => (DeletionOK(c))'
  PROVE  ActivityInv'
<1> USE ActivityConstants DEF ActivityInv
<1>1. /\ caller'[c] = to /\ \A d \in Callers \ {c} : caller'[d] = caller[d]
      /\ caller' \in [Callers -> CallerStates]
  BY DEF ActivityTypeOK
<1>2. ActivityTypeOK'
  BY <1>1 DEF ActivityTypeOK
<1>3. FlushIsABarrier'
  BY <1>1 DEF FlushIsABarrier, Queue, Batch
<1>4. WriterOK'
  BY <1>1 DEF WriterOK, ActivityTypeOK
<1>5. ASSUME NEW s \in Scopes, s # c PROVE (DeletionOK(s))'
  BY <1>1, <1>5 DEF DeletionsOK, DeletionOK, Kept, InWriter, ActivityTypeOK
<1>6. DeletionsOK'
  BY <1>5 DEF DeletionsOK
<1> QED
  BY <1>2, <1>3, <1>4, <1>6

LEMMA CallersKeep ==
  ASSUME ActivityInv,
         \/ \E c \in Callers : Flush(c) \/ Again(c)
         \/ CloseStop \/ FlushToStop \/ ListIntents \/ PassEnds
  PROVE  ActivityInv'
<1> USE ActivityConstants DEF coreVars, logHistory, writerVars
<1>1. /\ ActivityTypeOK /\ rowState \in [LogRows -> RowStates] /\ stopping \in BOOLEAN
      /\ {"idle", "begun", "listed"} \subseteq CallerStates \ {"waiting", "asked"}
      /\ discarded \subseteq Scopes
  BY DEF ActivityInv, ActivityTypeOK, CallerStates
<1>2. ASSUME NEW c \in Callers, Flush(c) PROVE ActivityInv'
  BY <1>1, <1>2, LockKeeps DEF Flush
<1>3. CASE FlushToStop
  BY <1>1, <1>3, LockKeeps DEF FlushToStop
<1>4. ASSUME NEW c \in Callers \ Scopes, NEW to \in {"idle", "begun", "listed"},
             caller[c] \notin {"waiting", "asked"}, caller' = [caller EXCEPT ![c] = to],
             stopping' \in BOOLEAN, stopping => stopping', todo' \subseteq Scopes,
             UNCHANGED <<rowState, lock, writer, discarded, coreVars, logHistory>>
      PROVE  ActivityInv'
  <2>1. intents \subseteq Scopes /\ gone \subseteq Scopes /\ erased \subseteq Scopes
    BY <1>1 DEF ActivityTypeOK
  <2> QED
    BY <1>1, <1>4, <2>1, CallerMoves
<1>5. Maintenance \in Callers \ Scopes /\ Shutdown \in Callers \ Scopes /\ Readers \subseteq Callers \ Scopes
  OBVIOUS
<1>6. ASSUME NEW c \in Callers, Again(c) PROVE ActivityInv'
  BY <1>1, <1>4, <1>5, <1>6 DEF Again, At, ActivityTypeOK
<1>7. CASE CloseStop
  BY <1>1, <1>4, <1>5, <1>7 DEF CloseStop, At, ActivityTypeOK
<1>8. CASE ListIntents
  BY <1>1, <1>4, <1>5, <1>8 DEF ListIntents, At, ActivityTypeOK
<1>9. CASE PassEnds
  BY <1>1, <1>4, <1>5, <1>9 DEF PassEnds, ActivityTypeOK
<1> QED
  BY <1>2, <1>3, <1>6, <1>7, <1>8, <1>9

\* Who gives up has flushed nothing.
LEMMA GivingUpKeeps ==
  ASSUME ActivityInv, NEW c \in Callers, GiveUp(c)
  PROVE  ActivityInv'
<1> USE ActivityConstants DEF ActivityInv, coreVars, writerVars
<1>1. /\ lock = c /\ lock' = NoCaller /\ covered' = {} /\ caller'[c] = "failed"
      /\ \A d \in Callers \ {c} : caller'[d] = caller[d]
      /\ caller' \in [Callers -> CallerStates]
      /\ UNCHANGED <<rowState, writerVars, coreVars, todo, erased>>
  BY DEF GiveUp, ActivityTypeOK, CallerStates
<1>2. ActivityTypeOK'
  BY <1>1 DEF ActivityTypeOK
<1>3. FlushIsABarrier'
  BY <1>1 DEF FlushIsABarrier
<1>4. WriterOK'
  BY <1>1 DEF WriterOK
<1>5. DeletionsOK'
  BY <1>1 DEF DeletionsOK, DeletionOK, Kept, InWriter, WriterOK
<1> QED
  BY <1>2, <1>3, <1>4, <1>5

\* The deletion, step by step.
LEMMA DeletionKeeps ==
  ASSUME ActivityInv, NEW s \in Scopes,
         BeginCleanup(s) \/ DeleteFirst(s) \/ DiscardAndDrain(s) \/ DeleteSecond(s) \/ RetireCleanup(s)
  PROVE  ActivityInv'
<1> USE ActivityConstants DEF coreVars, logHistory, writerVars
<1>1. /\ ActivityTypeOK /\ rowState \in [LogRows -> RowStates] /\ stopping \in BOOLEAN
      /\ DeletionOK(s) /\ s \in Callers /\ Covers[s] \subseteq LogRows
      /\ {"begun", "deleted", "clean", "failed", "returned"} \subseteq CallerStates \ {"waiting", "asked"}
      /\ intents \subseteq Scopes /\ todo \subseteq Scopes /\ gone \subseteq Scopes /\ erased \subseteq Scopes
      /\ discarded \subseteq Scopes
  BY DEF ActivityInv, ActivityTypeOK, CallerStates, DeletionsOK
<1>2. ASSUME NEW to \in CallerStates, caller' = [caller EXCEPT ![s] = to]
      PROVE  caller'[s] = to
  BY <1>1, <1>2 DEF ActivityTypeOK
<1>3. CASE BeginCleanup(s)
  <2>1. /\ caller[s] \in {"idle", "failed"} /\ caller' = [caller EXCEPT ![s] = "begun"]
        /\ intents' = intents \cup {s} /\ gone' = gone \cup {s}
        /\ UNCHANGED <<rowState, lock, writerVars, known, todo, logHistory>>
    BY <1>3 DEF BeginCleanup
  <2>2. (DeletionOK(s))'
    BY <1>1, <1>2, <2>1 DEF DeletionOK
  <2> QED
    BY <1>1, <2>1, <2>2, CallerMoves
<1>4. ASSUME Erase(Covers[s]) \/ UNCHANGED rowState
      PROVE  /\ rowState' \in [LogRows -> RowStates]
             /\ \A r \in LogRows : \/ rowState'[r] = rowState[r]
                                   \/ rowState[r] = "written" /\ rowState'[r] = "erased"
             /\ Erase(Covers[s]) => \A r \in Covers[s] : rowState'[r] # "written"
  <2>1. CASE Erase(Covers[s])
    <3>1. "erased" \in RowStates
      BY DEF RowStates
    <3> QED
      BY <1>1, <2>1, <3>1, PutRows DEF Erase
  <2>2. CASE UNCHANGED rowState /\ ~Erase(Covers[s])
    BY <1>1, <2>2
  <2> QED
    BY <1>4, <2>1, <2>2
<1>5. CASE DeleteFirst(s)
  <2>1. /\ caller[s] = "begun" /\ caller' = [caller EXCEPT ![s] = "deleted"]
        /\ Erase(Covers[s]) \/ UNCHANGED rowState
        /\ UNCHANGED <<lock, writerVars, coreVars, todo, logHistory>>
    BY <1>5 DEF DeleteFirst, At
  <2>2. (DeletionOK(s))'
    BY <1>1, <1>2, <2>1 DEF DeletionOK
  <2> QED
    BY <1>1, <1>4, <2>1, <2>2, CallerMoves
<1>6. CASE DiscardAndDrain(s)
  BY <1>1, <1>6, LockKeeps DEF DiscardAndDrain
<1>7. CASE DeleteSecond(s)
  <2>1. PICK to \in {"clean", "failed"} :
          /\ caller[s] = "drained" /\ caller' = [caller EXCEPT ![s] = to]
          /\ Erase(Covers[s]) \/ UNCHANGED rowState
          /\ to = "clean" => Erase(Covers[s])
          /\ UNCHANGED <<lock, writerVars, coreVars, todo, logHistory>>
    BY <1>7 DEF DeleteSecond, At
  <2>2. (DeletionOK(s))'
    BY <1>1, <1>2, <1>4, <2>1 DEF DeletionOK, InWriter
  <2> QED
    BY <1>1, <1>4, <2>1, <2>2, CallerMoves
<1>8. CASE RetireCleanup(s)
  <2>1. /\ caller[s] = "clean" /\ UNCHANGED <<rowState, lock, writerVars, gone, todo, covered>>
        /\ \/ /\ caller' = [caller EXCEPT ![s] = "returned"]
              /\ intents' = intents \ {s} /\ known' = known \ {s} /\ erased' = erased \cup {s}
           \/ caller' = [caller EXCEPT ![s] = "failed"] /\ UNCHANGED <<intents, known, erased>>
    BY <1>8 DEF RetireCleanup, At
  <2>2. (DeletionOK(s))'
    BY <1>1, <1>2, <2>1 DEF DeletionOK, InWriter, Kept
  <2>3. intents' \subseteq Scopes /\ known' \subseteq known /\ erased' \subseteq Scopes
    BY <1>1, <2>1
  <2>4. PICK to \in CallerStates \ {"waiting", "asked"} : caller' = [caller EXCEPT ![s] = to]
    BY <1>1, <2>1
  <2> QED
    BY <1>1, <2>1, <2>2, <2>3, <2>4, CallerMoves
<1> QED
  BY <1>3, <1>5, <1>6, <1>7, <1>8

\* A restart loses what is under way, and with it every row that could still come.
LEMMA RestartKeeps ==
  ASSUME ActivityInv, Restart
  PROVE  ActivityInv'
<1> USE ActivityConstants DEF ActivityInv
<1>1. PICK done \in SUBSET intents :
    /\ rowState' = [r \in LogRows |-> IF rowState[r] \in {"open", "queued", "held"} THEN "dropped"
                              ELSE IF rowState[r] = "written" /\ r \in Scoped(done) THEN "erased"
                              ELSE rowState[r]]
    /\ intents' = intents \ done
    /\ lock' = NoCaller /\ writer' = "loop" /\ stopping' = FALSE /\ discarded' = {}
    /\ caller' = [c \in Callers |-> IF c \notin Scopes THEN "idle"
                                ELSE IF caller[c] \in {"idle", "returned"} THEN caller[c] ELSE "failed"]
    /\ todo' = {} /\ covered' = {}
    /\ known' = Scopes \ gone
    /\ UNCHANGED <<gone, erased>>
  BY DEF Restart
<1>2. \A r \in LogRows : /\ rowState'[r] \notin {"open", "queued", "held"} /\ rowState'[r] \in RowStates
                         /\ rowState'[r] = "written" => rowState[r] = "written"
  BY <1>1 DEF ActivityTypeOK, RowStates
<1>3. \A c \in Callers : /\ caller'[c] \in {"idle", "returned", "failed"}
                         /\ c \in Scopes /\ caller[c] = "returned" => caller'[c] = "returned"
  BY <1>1
<1>4. ActivityTypeOK'
  BY <1>1, <1>2, <1>3 DEF ActivityTypeOK, CallerStates, WriterStates
<1>5. FlushIsABarrier' /\ WriterOK'
  BY <1>1, <1>3 DEF FlushIsABarrier, WriterOK
<1>6. DeletionsOK'
  BY <1>1, <1>2, <1>3 DEF DeletionsOK, DeletionOK, Kept, InWriter
<1> QED
  BY <1>4, <1>5, <1>6

LEMMA ActivityInvariance == ActivityInv /\ [ActivityNext]_activityVars => ActivityInv'
<1> SUFFICES ASSUME ActivityInv, [ActivityNext]_activityVars PROVE ActivityInv'
  OBVIOUS
<1>1. CASE UNCHANGED activityVars
  BY <1>1 DEF activityVars, writerVars, coreVars, logHistory, ActivityInv, ActivityTypeOK, FlushIsABarrier,
     WriterOK, DeletionsOK, DeletionOK, Kept, Queue, Batch
<1> QED
  BY <1>1, RowStepsKeep, WriterKeeps, CallersKeep, GivingUpKeeps, DeletionKeeps, RestartKeeps
     DEF ActivityNext

(* logwriter.go, server.go finalizeActivityCleanup: once a deletion was     *)
(* reported as done none of its rows is in the database or can reach it,    *)
(* and a flush that returned has seen every row queued before it through.   *)
THEOREM HistoryStaysErased == ActivitySpec => []ActivityHolds
<1>1. ActivityInv => ActivityHolds
  BY ActivityConstants
     DEF ActivityInv, ActivityHolds, ErasedStaysErased, DeletionsOK, DeletionOK, Kept, ActivityTypeOK
<1> QED
  BY ActivityStart, ActivityInvariance, <1>1, PTL DEF ActivitySpec

-----------------------------------------------------------------------------
(***************************************************************************)
(* What holds of the body gate for any number of requests and slots.       *)
(* GateBounded is not inductive: between the load and the swap a request   *)
(* carries a count that may be stale.  What makes the swap safe is that a  *)
(* request only reaches it with a count below the limit, and only wins it  *)
(* when the count is still the number of slots taken.                      *)
(***************************************************************************)
\* The count a request is about to swap leaves room for it.
RoomSeen == \A r \in Requests : pc[r] = "swap" => cur[r] < MaxConcurrent

Inv == TypeOK /\ GateBounded /\ RoomSeen

USE GateAssumption

-----------------------------------------------------------------------------
\* The slot holders are a finite set: there are finitely many requests.
LEMMA HoldingFinite == IsFiniteSet(Holding) /\ Cardinality(Holding) \in Nat
  BY FS_Subset, FS_CardinalityType DEF Holding

\* A request that wins the swap becomes one more holder.
LEMMA HoldingGrows ==
  ASSUME TypeOK, NEW r \in Requests, r \notin Holding, Goto(r, "reading")
  PROVE  Cardinality(Holding') = Cardinality(Holding) + 1
<1>1. Holding' = Holding \cup {r}
  BY DEF TypeOK, Holding, Goto
<1> QED
  BY <1>1, HoldingFinite, FS_AddElement

\* A request that releases leaves the holders, and only it does.
LEMMA HoldingShrinks ==
  ASSUME TypeOK, NEW r \in Requests, r \in Holding,
         NEW p \in {"read", "rejected"}, Goto(r, p)
  PROVE  Cardinality(Holding') = Cardinality(Holding) - 1
<1>1. Holding' = Holding \ {r}
  BY DEF TypeOK, Holding, Goto
<1> QED
  BY <1>1, HoldingFinite, FS_RemoveElement

\* A step that moves no request across the boundary leaves the holders alone.
LEMMA HoldingSame ==
  ASSUME TypeOK, NEW r \in Requests, NEW p, Goto(r, p),
         pc[r] \in {"reading", "release"} <=> p \in {"reading", "release"}
  PROVE  Holding' = Holding
  BY DEF TypeOK, Holding, Goto

-----------------------------------------------------------------------------
LEMMA InitInv == Init => Inv
<1> SUFFICES ASSUME Init PROVE Inv
  OBVIOUS
<1>1. Holding = {}
  BY DEF Init, Holding
<1>2. GateBounded
  BY <1>1, FS_EmptySet DEF GateBounded, Init
<1> QED
  BY <1>2 DEF Init, Inv, TypeOK, RoomSeen, Steps, Outcomes

LEMMA NextInv == Inv /\ [Next]_vars => Inv'
<1> SUFFICES ASSUME Inv, [Next]_vars PROVE Inv'
  OBVIOUS
<1> USE DEF Inv
<1>1. ASSUME NEW r \in Requests, Arrive(r) PROVE Inv'
  <2>1. Holding' = Holding
    BY <1>1, HoldingSame DEF Arrive
  <2> QED
    BY <1>1, <2>1 DEF Arrive, TypeOK, GateBounded, RoomSeen, Goto, Steps
<1>2. ASSUME NEW r \in Requests, Load(r) PROVE Inv'
  <2>1. Holding' = Holding
    BY <1>2, HoldingSame DEF Load
  <2> QED
    BY <1>2, <2>1 DEF Load, TypeOK, GateBounded, RoomSeen, Goto, Steps, Answered
<1>3. ASSUME NEW r \in Requests, Swap(r) PROVE Inv'
  <2>1. CASE active = cur[r]
    <3>1. Cardinality(Holding') = Cardinality(Holding) + 1
      BY <1>3, <2>1, HoldingGrows DEF Swap, Holding
    <3>2. cur[r] < MaxConcurrent
      BY <1>3 DEF Swap, RoomSeen
    <3>3. active' = active + 1
      BY <1>3, <2>1 DEF Swap
    <3>4. active' = Cardinality(Holding')
      BY <3>1, <3>3 DEF GateBounded
    <3>5. active + 1 <= MaxConcurrent
      BY <2>1, <3>2 DEF TypeOK
    <3>6. GateBounded'
      BY <3>3, <3>4, <3>5 DEF GateBounded
    <3> QED
      BY <1>3, <2>1, <3>6 DEF Swap, TypeOK, RoomSeen, Goto, Steps
  <2>2. CASE active # cur[r]
    <3>1. Holding' = Holding
      BY <1>3, <2>2, HoldingSame DEF Swap
    <3> QED
      BY <1>3, <2>2, <3>1 DEF Swap, TypeOK, GateBounded, RoomSeen, Goto, Steps
  <2> QED
    BY <2>1, <2>2
<1>4. ASSUME NEW r \in Requests, NEW how \in Outcomes, ReadEnds(r, how) PROVE Inv'
  <2>1. Holding' = Holding
    BY <1>4, HoldingSame DEF ReadEnds
  <2> QED
    BY <1>4, <2>1 DEF ReadEnds, TypeOK, GateBounded, RoomSeen, Goto, Steps
<1>5. ASSUME NEW r \in Requests, Release(r) PROVE Inv'
  <2>1. r \in Holding /\ Cardinality(Holding) > 0
    <3>1. r \in Holding
      BY <1>5 DEF Release, Holding
    <3> QED
      BY <3>1, HoldingFinite, FS_EmptySet
  <2>2. Cardinality(Holding') = Cardinality(Holding) - 1
    BY <1>5, <2>1, HoldingShrinks DEF Release
  <2>3. GateBounded' /\ active' \in Nat
    BY <1>5, <2>1, <2>2, HoldingFinite DEF Release, GateBounded
  <2> QED
    BY <1>5, <2>3 DEF Release, TypeOK, RoomSeen, Goto, Steps, Answered
<1>6. ASSUME Tick PROVE Inv'
  <2>1. Holding' = Holding
    BY <1>6 DEF Tick, Holding
  <2> QED
    BY <1>6, <2>1 DEF Tick, Reading, TypeOK, GateBounded, RoomSeen
<1>7. ASSUME NEW r \in Requests, Trickle(r) PROVE Inv'
  <2>1. Holding' = Holding
    BY <1>7 DEF Trickle, Holding
  <2> QED
    BY <1>7, <2>1 DEF Trickle, TypeOK, GateBounded, RoomSeen
<1>8. CASE UNCHANGED vars
  BY <1>8 DEF vars, TypeOK, GateBounded, RoomSeen, Holding
<1> QED
  BY <1>1, <1>2, <1>3, <1>4, <1>5, <1>6, <1>7, <1>8
  DEF Next, Acquire, Read, ReadRest, ReadFails, TimesOut, Outcomes

\* The inductive invariant holds of every reachable state.
THEOREM Invariance == Spec => []Inv
  BY InitInv, NextInv, PTL DEF Spec

-----------------------------------------------------------------------------
\* Type correctness: the counter never goes below zero, so a release is always
\* the release of a slot somebody holds.
THEOREM TypeCorrect == Spec => []TypeOK
<1>1. Inv => TypeOK
  BY DEF Inv
<1> QED
  BY <1>1, Invariance, PTL

\* The lock-free counter of bodyReadGate counts the bodies being read exactly,
\* and never admits more than maxConcurrentBodyReads of them.
THEOREM GateIsBounded == Spec => []GateBounded
<1>1. Inv => GateBounded
  BY DEF Inv
<1> QED
  BY <1>1, Invariance, PTL

\* A request answered body_read_busy met a gate whose every slot was in use.
THEOREM RefusalIsHonest == Spec => RefusedOnlyWhenFull
<1> DEFINE Honest == \A r \in Requests :
      pc[r] # "refused" /\ pc'[r] = "refused" => Cardinality(Holding) = MaxConcurrent
<1>1. Inv /\ [Next]_vars => [Honest]_vars
  <2> SUFFICES ASSUME Inv, Next PROVE Honest
    OBVIOUS
  <2> SUFFICES ASSUME NEW r \in Requests, pc[r] # "refused", pc'[r] = "refused"
               PROVE  Cardinality(Holding) = MaxConcurrent
    OBVIOUS
  <2>1. Load(r)
    BY DEF Next, Acquire, Read, Arrive, Load, Swap, ReadEnds, ReadRest,
           ReadFails, TimesOut, Trickle, Release, Tick, Goto, Inv, TypeOK
  <2> QED
    BY <2>1, HoldingFinite DEF Load, Goto, Inv, TypeOK, GateBounded
<1> QED
  BY <1>1, Invariance, PTL DEF Spec, RefusedOnlyWhenFull

\* What the gate promises as a whole, for any number of requests and slots.
THEOREM GateIsSound == Spec => GateSound
  BY TypeCorrect, GateIsBounded, RefusalIsHonest, PTL DEF GateSound

-----------------------------------------------------------------------------
(***************************************************************************)
(* The start of the service (DatabaseOpen).  The invariant says, for each  *)
(* step of the start, what the statements before it have established,      *)
(* whichever start executed them.                                          *)
(***************************************************************************)
\* Every log is somewhere, and what the central tables hold was never estimated.
PlacesInv ==
  /\ central \cup acts \cup saved.logs \subseteq logged
  /\ (central \cup saved.logs) \cap Guessed = {}
  /\ centralTries = central \cap Tried /\ saved.tries = saved.logs \cap Tried
  /\ ~table => central = {}
  /\ schema < LogsMigration => ~table
  /\ saved.schema < LogsMigration => saved.logs = {}

\* An estimate is flagged, in a column that is there, until 005 is recorded.
SourcesInv ==
  /\ ~file => columns = {} /\ versions = {} /\ acts = {}
  /\ flagged \subseteq Guessed
  /\ "005" \notin versions =>
       acts \cap Guessed \subseteq flagged /\ (acts \cap Guessed = {} \/ "estimated" \in columns)

AllColumns == CurrentColumns \subseteq columns /\ ("006" \in versions \/ "estimated" \in columns)
AllRewrites == {"003", "005", "007"} \subseteq versions

StepsInv ==
  /\ boot = "copying" => ledger /\ schema < Tenancy /\ ~fresh /\ shelf["this"] = "none"
  /\ boot \in {"stopped", "opened", "copying"} \cup {"ledger", "migrating", "marking", "activity"}
       \cup {"columns", "rewriting", "dropping", "dropped"} => ~handle
  /\ boot \notin {"stopped", "opened", "copying", "ledger"} => ledger /\ (unknown => override)
  /\ boot \notin {"stopped", "opened", "copying", "ledger", "migrating"} => schema = Newest
  /\ boot \in {"columns", "rewriting", "dropping", "dropped"} => file
  /\ boot = "rewriting" => AllColumns
  /\ boot = "dropping" => AllColumns /\ AllRewrites
  /\ boot = "dropped" => columns = CurrentColumns /\ AllRewrites
  /\ handle => file /\ columns = CurrentColumns /\ versions = Versions
  /\ boot \in {"copied", "verify"} => handle /\ table /\ central \subseteq acts
  /\ boot \in {"bootstrap", "serving"} => ~handle \/ ~table

\* A first start, and what it leaves when it is cut short.
MarkerInv ==
  /\ ~ledger => ~marker /\ owner # "customer" /\ ~unknown /\ (boot \in {"opened", "ledger"} => fresh)
  /\ boot \in {"stopped", "opened", "ledger"} /\ ledger => ~fresh
  /\ boot = "stopped" => ~fresh
  /\ fresh => born = (IF hostedMode THEN "hosted" ELSE "local")
  /\ born = "hosted" /\ ledger => cut \/ marker \/ (fresh /\ boot \in {"migrating", "marking"})

\* A copy that Verify accepts is there before the tenancy migration.
ShelfInv ==
  /\ shelf["this"] = "whole" =>
       saved.schema < Tenancy /\ central \subseteq saved.logs \cup since
  /\ boot \in {"ledger", "migrating"} /\ schema < Tenancy =>
       fresh \/ shelf["this"] \in {"empty", "whole"}

DatabaseInv == DatabaseHolds /\ PlacesInv /\ SourcesInv /\ StepsInv /\ MarkerInv /\ ShelfInv
\* What the enumerations hold.
LEMMA ColumnsAre ==
  /\ Columns = {"cost", "estimated", "input_source", "output_source", "stripped"}
  /\ CurrentColumns = {"cost", "input_source", "output_source", "stripped"}
<1>1. DOMAIN Upgrades = 1..5
  BY DEF Upgrades
<1>2. /\ Upgrades[1] = "cost" /\ Upgrades[2] = "estimated" /\ Upgrades[3] = "input_source"
      /\ Upgrades[4] = "output_source" /\ Upgrades[5] = "stripped"
  BY DEF Upgrades
<1>3. Columns = {"cost", "estimated", "input_source", "output_source", "stripped"}
  <2>1. Columns = {Upgrades[i] : i \in 1..5}
    BY <1>1 DEF Columns
  <2>2. \A i \in 1..5 : i = 1 \/ i = 2 \/ i = 3 \/ i = 4 \/ i = 5
    OBVIOUS
  <2> QED
    BY <1>2, <2>1, <2>2
<1> QED
  BY <1>3 DEF CurrentColumns

LEMMA RewritesAre ==
  /\ \A i \in DOMAIN Rewrites : Rewrites[i] \in {"003", "005", "007"}
  /\ {Rewrites[i] : i \in DOMAIN Rewrites} = {"003", "005", "007"}
<1>1. DOMAIN Rewrites = 1..3 /\ Rewrites[1] = "003" /\ Rewrites[2] = "005" /\ Rewrites[3] = "007"
  BY DEF Rewrites
<1>2. \A i \in 1..3 : i = 1 \/ i = 2 \/ i = 3
  OBVIOUS
<1> QED
  BY <1>1, <1>2

(* The steps that change each part of the state.                          *)
LEMMA WhoChanges ==
  ASSUME DatabaseNext
  PROVE
    /\ \/ UNCHANGED schemaVars
       \/ OlderRelease \/ NewerRelease \/ Restore \/ SetInstallationID \/ CreateLedger
       \/ ApplyMigration \/ MarkFresh \/ BootstrapHostedCustomer \/ EnsureLocalOperator
    /\ \/ UNCHANGED centralVars
       \/ OlderRelease \/ Restore \/ ApplyMigration \/ DropCentral
    /\ \/ UNCHANGED fileVars
       \/ LoseFile \/ OpenFile \/ AddColumn \/ Rewrite \/ DropColumn \/ FileIsReady \/ CopyLogs
       \/ CopyTries
       \/ \E l \in Logs : Log(l) \/ RemoveLog(l)
    /\ \/ UNCHANGED shelfVars
       \/ FinishSnapshot \/ BreakSnapshot
    /\ \/ UNCHANGED historyVars
       \/ OlderRelease \/ Restore \/ LoseFile \/ OpenDatabase \/ CutShort \/ FinishSnapshot
       \/ BreakSnapshot \/ CreateLedger \/ CopyLogs
       \/ \E l \in Logs : Log(l) \/ RemoveLog(l)
<1>1. \/ UNCHANGED schemaVars
      \/ OlderRelease \/ NewerRelease \/ Restore \/ SetInstallationID \/ CreateLedger
      \/ ApplyMigration \/ MarkFresh \/ BootstrapHostedCustomer \/ EnsureLocalOperator
  BY DEF DatabaseNext, LoseFile, OpenDatabase, CutShort, NoSnapshot, ReuseSnapshot, BeginSnapshot,
  FinishSnapshot, BreakSnapshot, Migrated, OpenFile, AddColumn, ColumnsThere, Rewrite, Rewritten,
  DropColumn, FileIsReady, ActivityFails, NothingToMove, CopyLogs, CopyTries, DropCentral, Local,
  Log, RemoveLog
<1>2. \/ UNCHANGED centralVars
      \/ OlderRelease \/ Restore \/ ApplyMigration \/ DropCentral
  BY DEF DatabaseNext, NewerRelease, LoseFile, OpenDatabase, CutShort, NoSnapshot, SetInstallationID,
  ReuseSnapshot, BeginSnapshot, FinishSnapshot, BreakSnapshot, CreateLedger, Migrated, MarkFresh,
  OpenFile, AddColumn, ColumnsThere, Rewrite, Rewritten, DropColumn, FileIsReady, ActivityFails,
  NothingToMove, CopyLogs, CopyTries, Local, BootstrapHostedCustomer, EnsureLocalOperator, Log,
  RemoveLog
<1>3. \/ UNCHANGED fileVars
      \/ LoseFile \/ OpenFile \/ AddColumn \/ Rewrite \/ DropColumn \/ FileIsReady \/ CopyLogs
      \/ CopyTries
      \/ \E l \in Logs : Log(l) \/ RemoveLog(l)
  BY DEF DatabaseNext, OlderRelease, NewerRelease, Restore, OpenDatabase, CutShort, NoSnapshot,
  SetInstallationID, ReuseSnapshot, BeginSnapshot, FinishSnapshot, BreakSnapshot, CreateLedger,
  ApplyMigration, Migrated, MarkFresh, ColumnsThere, Rewritten, ActivityFails, NothingToMove,
  DropCentral, Local, BootstrapHostedCustomer, EnsureLocalOperator
<1>4. \/ UNCHANGED shelfVars
      \/ FinishSnapshot \/ BreakSnapshot
  BY DEF DatabaseNext, OlderRelease, NewerRelease, Restore, LoseFile, OpenDatabase, CutShort,
  NoSnapshot, SetInstallationID, ReuseSnapshot, BeginSnapshot, CreateLedger, ApplyMigration,
  Migrated, MarkFresh, OpenFile, AddColumn, ColumnsThere, Rewrite, Rewritten, DropColumn,
  FileIsReady, ActivityFails, NothingToMove, CopyLogs, CopyTries, DropCentral, Local,
  BootstrapHostedCustomer, EnsureLocalOperator, Log, RemoveLog
<1>5. \/ UNCHANGED historyVars
      \/ OlderRelease \/ Restore \/ LoseFile \/ OpenDatabase \/ CutShort \/ FinishSnapshot
      \/ BreakSnapshot \/ CreateLedger \/ CopyLogs
      \/ \E l \in Logs : Log(l) \/ RemoveLog(l)
  BY DEF DatabaseNext, NewerRelease, NoSnapshot, SetInstallationID, ReuseSnapshot, BeginSnapshot,
  ApplyMigration, Migrated, MarkFresh, OpenFile, AddColumn, ColumnsThere, Rewrite, Rewritten,
  DropColumn, FileIsReady, ActivityFails, NothingToMove, CopyTries, DropCentral, Local,
  BootstrapHostedCustomer, EnsureLocalOperator
<1> QED
  BY <1>1, <1>2, <1>3, <1>4, <1>5

LEMMA SchemaTypesKept ==
  ASSUME DatabaseInv, DatabaseNext
  PROVE  SchemaTypes'
<1> USE DatabaseAssumption DEF DatabaseInv, DatabaseHolds, DatabaseTypeOK, SchemaTypes
<1>1. CASE UNCHANGED schemaVars
  BY <1>1 DEF schemaVars
<1>2. CASE OlderRelease
  BY <1>2 DEF OlderRelease
<1>3. CASE NewerRelease
  BY <1>3 DEF NewerRelease
<1>4. CASE Restore
  BY <1>4 DEF Restore, ShelfTypes, Saved
<1>5. CASE SetInstallationID
  BY <1>5 DEF SetInstallationID
<1>6. CASE CreateLedger
  BY <1>6 DEF CreateLedger, Halt, Go
<1>7. CASE ApplyMigration
  BY <1>7 DEF ApplyMigration
<1>8. CASE MarkFresh
  BY <1>8 DEF MarkFresh
<1>9. CASE BootstrapHostedCustomer
  BY <1>9 DEF BootstrapHostedCustomer
<1>10. CASE EnsureLocalOperator
  BY <1>10 DEF EnsureLocalOperator
<1> QED
  BY <1>1, <1>2, <1>3, <1>4, <1>5, <1>6, <1>7, <1>8, <1>9, <1>10, WhoChanges

LEMMA CentralTypesKept ==
  ASSUME DatabaseInv, DatabaseNext
  PROVE  CentralTypes'
<1> USE DatabaseAssumption DEF DatabaseInv, DatabaseHolds, DatabaseTypeOK, CentralTypes
<1>1. CASE UNCHANGED centralVars
  BY <1>1 DEF centralVars
<1>2. CASE OlderRelease
  BY <1>2 DEF OlderRelease
<1>3. CASE Restore
  BY <1>3 DEF Restore, ShelfTypes, Saved, PlacesInv
<1>4. CASE ApplyMigration
  BY <1>4 DEF ApplyMigration
<1>5. CASE DropCentral
  BY <1>5 DEF DropCentral, Copied
<1> QED
  BY <1>1, <1>2, <1>3, <1>4, <1>5, WhoChanges

LEMMA FileTypesKept ==
  ASSUME DatabaseInv, DatabaseNext
  PROVE  FileTypes'
<1> USE DatabaseAssumption DEF DatabaseInv, DatabaseHolds, DatabaseTypeOK, FileTypes
<1>1. CASE UNCHANGED fileVars
  BY <1>1 DEF fileVars, rowVars
<1>2. CASE LoseFile
  BY <1>2 DEF LoseFile
<1>3. CASE OpenFile
  BY <1>3, ColumnsAre DEF OpenFile, rowVars
<1>4. CASE AddColumn
  BY <1>4 DEF AddColumn, NextColumn, Wanted
<1>5. CASE Rewrite
  BY <1>5, RewritesAre DEF Rewrite, Unsourced, Versions
<1>6. CASE DropColumn
  BY <1>6 DEF DropColumn
<1>7. CASE FileIsReady
  BY <1>7 DEF FileIsReady, Versions, rowVars
<1>8. CASE CopyLogs
  BY <1>8 DEF CopyLogs, CentralTypes
<1>9. CASE CopyTries
  BY <1>9 DEF CopyTries, CentralTypes
<1>10. ASSUME NEW l \in Logs, Log(l) PROVE FileTypes'
  BY <1>10 DEF Log
<1>11. ASSUME NEW l \in Logs, RemoveLog(l) PROVE FileTypes'
  BY <1>11 DEF RemoveLog
<1> QED
  BY <1>1, <1>2, <1>3, <1>4, <1>5, <1>6, <1>7, <1>8, <1>9, <1>10, <1>11, WhoChanges

LEMMA ShelfTypesKept ==
  ASSUME DatabaseInv, DatabaseNext
  PROVE  ShelfTypes'
<1> USE DatabaseAssumption DEF DatabaseInv, DatabaseHolds, DatabaseTypeOK, ShelfTypes
<1>1. CASE UNCHANGED shelfVars
  BY <1>1 DEF shelfVars
<1>2. CASE FinishSnapshot
  BY <1>2 DEF FinishSnapshot, CopyStates, Saved, SchemaTypes, CentralTypes
<1>3. CASE BreakSnapshot
  BY <1>3 DEF BreakSnapshot, CopyStates
<1> QED
  BY <1>1, <1>2, <1>3, WhoChanges

LEMMA HistoryTypesKept ==
  ASSUME DatabaseInv, DatabaseNext
  PROVE  HistoryTypes'
<1> USE DatabaseAssumption DEF DatabaseInv, DatabaseHolds, DatabaseTypeOK, HistoryTypes
<1>1. CASE UNCHANGED historyVars
  BY <1>1 DEF historyVars
<1>2. CASE OlderRelease
  BY <1>2 DEF OlderRelease
<1>3. CASE Restore
  BY <1>3 DEF Restore, CentralTypes
<1>4. CASE LoseFile
  BY <1>4 DEF LoseFile, FileTypes
<1>5. CASE OpenDatabase
  BY <1>5 DEF OpenDatabase, Go
<1>6. CASE CutShort
  BY <1>6 DEF CutShort, Halt, Go
<1>7. CASE FinishSnapshot
  BY <1>7 DEF FinishSnapshot, Go
<1>8. CASE BreakSnapshot
  BY <1>8 DEF BreakSnapshot, Halt, Go
<1>9. CASE CreateLedger
  BY <1>9 DEF CreateLedger, Halt, Go
<1>10. CASE CopyLogs
  BY <1>10 DEF CopyLogs, CentralTypes
<1>11. ASSUME NEW l \in Logs, Log(l) PROVE HistoryTypes'
  BY <1>11 DEF Log
<1>12. ASSUME NEW l \in Logs, RemoveLog(l) PROVE HistoryTypes'
  BY <1>12 DEF RemoveLog
<1> QED
  BY <1>1, <1>2, <1>3, <1>4, <1>5, <1>6, <1>7, <1>8, <1>9, <1>10, <1>11, <1>12, WhoChanges
LEMMA ProcessTypesKept ==
  ASSUME DatabaseInv, DatabaseNext
  PROVE  ProcessTypes'
<1> USE DatabaseAssumption
    DEF databaseVars, schemaVars, centralVars, rowVars, fileVars, shelfVars, processVars,
       historyVars, DatabaseInv, DatabaseHolds, ProcessTypes, DatabaseTypeOK, Boots
<1>1. CASE OlderRelease
  BY <1>1 DEF OlderRelease
<1>2. CASE NewerRelease
  BY <1>2 DEF NewerRelease
<1>3. CASE Restore
  BY <1>3 DEF Restore
<1>4. CASE LoseFile
  BY <1>4 DEF LoseFile
<1>5. CASE OpenDatabase
  BY <1>5 DEF OpenDatabase, Go
<1>6. CASE CutShort
  BY <1>6 DEF CutShort, Halt, Go
<1>7. CASE NoSnapshot
  BY <1>7 DEF NoSnapshot, SnapshotNeeded, Go
<1>8. CASE SetInstallationID
  BY <1>8 DEF SetInstallationID, SnapshotNeeded
<1>9. CASE ReuseSnapshot
  BY <1>9 DEF ReuseSnapshot, SnapshotNeeded, Candidate, Verifies, Go
<1>10. CASE BeginSnapshot
  BY <1>10 DEF BeginSnapshot, SnapshotNeeded, Candidate, Go
<1>11. CASE FinishSnapshot
  BY <1>11 DEF FinishSnapshot, Go
<1>12. CASE BreakSnapshot
  BY <1>12 DEF BreakSnapshot, Halt, Go
<1>13. CASE CreateLedger
  BY <1>13 DEF CreateLedger, Halt, Go
<1>14. CASE ApplyMigration
  BY <1>14 DEF ApplyMigration
<1>15. CASE Migrated
  BY <1>15 DEF Migrated, Go
<1>16. CASE MarkFresh
  BY <1>16 DEF MarkFresh, Go
<1>17. CASE OpenFile
  BY <1>17 DEF OpenFile, Go
<1>18. CASE AddColumn
  BY <1>18 DEF AddColumn, NextColumn, Wanted
<1>19. CASE ColumnsThere
  BY <1>19 DEF ColumnsThere, Wanted, Go
<1>20. CASE Rewrite
  BY <1>20 DEF Rewrite, Unsourced
<1>21. CASE Rewritten
  BY <1>21 DEF Rewritten, Go
<1>22. CASE DropColumn
  BY <1>22 DEF DropColumn, Go
<1>23. CASE FileIsReady
  BY <1>23 DEF FileIsReady, Go
<1>24. CASE ActivityFails
  BY <1>24 DEF ActivityFails, Go
<1>25. CASE NothingToMove
  BY <1>25 DEF NothingToMove, Go
<1>26. CASE CopyLogs
  BY <1>26 DEF CopyLogs, Go
<1>27. CASE CopyTries
  BY <1>27 DEF CopyTries, Go
<1>28. CASE DropCentral
  BY <1>28 DEF DropCentral, Copied, Go
<1>29. CASE Local
  BY <1>29 DEF Local, Go
<1>30. CASE BootstrapHostedCustomer
  BY <1>30 DEF BootstrapHostedCustomer, BootstrapSkipped, BootstrapFresh, BootstrapConverts, Go
<1>31. CASE EnsureLocalOperator
  BY <1>31 DEF EnsureLocalOperator
<1>32. ASSUME NEW l \in Logs, Log(l) PROVE ProcessTypes'
  BY <1>32 DEF Log
<1>33. ASSUME NEW l \in Logs, RemoveLog(l) PROVE ProcessTypes'
  BY <1>33 DEF RemoveLog
<1> QED
  BY <1>1, <1>2, <1>3, <1>4, <1>5, <1>6, <1>7, <1>8, <1>9, <1>10, <1>11, <1>12, <1>13, <1>14,
     <1>15, <1>16, <1>17, <1>18, <1>19, <1>20, <1>21, <1>22, <1>23, <1>24, <1>25, <1>26, <1>27,
     <1>28, <1>29, <1>30, <1>31, <1>32, <1>33 DEF DatabaseNext

LEMMA LogsSurviveKept ==
  ASSUME DatabaseInv, DatabaseNext
  PROVE  LogsSurvive'
<1> USE DatabaseAssumption
    DEF databaseVars, schemaVars, centralVars, rowVars, fileVars, shelfVars, processVars,
       historyVars, DatabaseInv, DatabaseHolds, LogsSurvive, DatabaseTypeOK, CentralTypes,
       FileTypes, PlacesInv, StepsInv
<1>1. CASE OlderRelease
  BY <1>1 DEF OlderRelease
<1>2. CASE Restore
  BY <1>2 DEF Restore
<1>3. CASE LoseFile
  BY <1>3 DEF LoseFile
<1>4. CASE CopyLogs
  BY <1>4 DEF CopyLogs, Go
<1>5. CASE CopyTries
  BY <1>5 DEF CopyTries, Go
<1>6. CASE DropCentral
  BY <1>6 DEF DropCentral, Copied, Go
<1>7. ASSUME NEW l \in Logs, Log(l) PROVE LogsSurvive'
  BY <1>7 DEF Log
<1>8. ASSUME NEW l \in Logs, RemoveLog(l) PROVE LogsSurvive'
  BY <1>8 DEF RemoveLog
<1>9. CASE UNCHANGED <<logged, removed, central, centralTries, acts, actTries>>
  BY <1>9
<1>10. \/ UNCHANGED <<logged, removed, central, centralTries, acts, actTries>>
       \/ OlderRelease \/ Restore \/ LoseFile \/ CopyLogs \/ CopyTries \/ DropCentral
       \/ \E l \in Logs : Log(l) \/ RemoveLog(l)
  BY DEF DatabaseNext, NewerRelease, OpenDatabase, CutShort, NoSnapshot, SetInstallationID,
     ReuseSnapshot, BeginSnapshot, FinishSnapshot, BreakSnapshot, CreateLedger, ApplyMigration,
     Migrated, MarkFresh, OpenFile, AddColumn, ColumnsThere, Rewrite, Rewritten, DropColumn,
     FileIsReady, ActivityFails, NothingToMove, Local, BootstrapHostedCustomer,
     EnsureLocalOperator
<1> QED
  BY <1>1, <1>2, <1>3, <1>4, <1>5, <1>6, <1>7, <1>8, <1>9, <1>10

LEMMA PlacesInvKept ==
  ASSUME DatabaseInv, DatabaseNext
  PROVE  PlacesInv'
<1> USE DatabaseAssumption
    DEF databaseVars, schemaVars, centralVars, rowVars, fileVars, shelfVars, processVars,
       historyVars, DatabaseInv, DatabaseHolds, PlacesInv, DatabaseTypeOK, SchemaTypes,
       CentralTypes, FileTypes, ShelfTypes, Saved, StepsInv
<1>1. CASE OlderRelease
  BY <1>1 DEF OlderRelease
<1>2. CASE Restore
  <2>1. /\ saved.schema \in Nat /\ LogsMigration \in Nat /\ schema' = saved.schema
        /\ central' = saved.logs /\ centralTries' = saved.tries
        /\ UNCHANGED <<acts, logged, saved>>
    BY <1>2 DEF Restore
  <2>2. table' = (saved.schema >= LogsMigration)
    BY <1>2 DEF Restore
  <2>3. saved.schema >= LogsMigration \/ saved.schema < LogsMigration
    BY <2>1
  <2>4. saved.schema < LogsMigration => ~(saved.schema >= LogsMigration)
    BY <2>1
  <2>5. table' \/ saved.schema < LogsMigration
    BY ONLY <2>2, <2>3
  <2>6. ~table' \/ ~(saved.schema < LogsMigration)
    BY ONLY <2>2, <2>4
  <2>7. (~table' => central' = {}) /\ (schema' < LogsMigration => ~table')
    BY <2>1, <2>5, <2>6
  <2> QED
    BY <2>1, <2>7
<1>3. CASE LoseFile
  BY <1>3 DEF LoseFile
<1>4. CASE FinishSnapshot
  BY <1>4 DEF FinishSnapshot, Go
<1>5. CASE ApplyMigration
  BY <1>5 DEF ApplyMigration
<1>6. CASE CopyLogs
  BY <1>6 DEF CopyLogs, Go
<1>7. CASE DropCentral
  BY <1>7 DEF DropCentral, Copied, Go
<1>8. ASSUME NEW l \in Logs, Log(l) PROVE PlacesInv'
  BY <1>8 DEF Log
<1>9. ASSUME NEW l \in Logs, RemoveLog(l) PROVE PlacesInv'
  BY <1>9 DEF RemoveLog
<1>10. CASE UNCHANGED <<schema, logged, table, central, centralTries, acts, saved>>
  BY <1>10
<1>11. \/ UNCHANGED <<schema, logged, table, central, centralTries, acts, saved>>
       \/ OlderRelease \/ Restore \/ LoseFile \/ FinishSnapshot \/ ApplyMigration \/ CopyLogs
       \/ DropCentral
       \/ \E l \in Logs : Log(l) \/ RemoveLog(l)
  BY DEF DatabaseNext, NewerRelease, OpenDatabase, CutShort, NoSnapshot, SetInstallationID,
     ReuseSnapshot, BeginSnapshot, BreakSnapshot, CreateLedger, Migrated, MarkFresh, OpenFile,
     AddColumn, ColumnsThere, Rewrite, Rewritten, DropColumn, FileIsReady, ActivityFails,
     NothingToMove, CopyTries, Local, BootstrapHostedCustomer, EnsureLocalOperator
<1> QED
  BY <1>1, <1>2, <1>3, <1>4, <1>5, <1>6, <1>7, <1>8, <1>9, <1>10, <1>11

LEMMA SourcesInvKept ==
  ASSUME DatabaseInv, DatabaseNext
  PROVE  SourcesInv'
<1> USE DatabaseAssumption, ColumnsAre, RewritesAre
    DEF databaseVars, schemaVars, centralVars, rowVars, fileVars, shelfVars, processVars,
       historyVars, DatabaseInv, DatabaseHolds, SourcesInv, DatabaseTypeOK, FileTypes, PlacesInv,
       StepsInv, AllRewrites, Versions
<1>1. CASE LoseFile
  BY <1>1 DEF LoseFile
<1>2. CASE OpenFile
  BY <1>2 DEF OpenFile, Go
<1>3. CASE AddColumn
  BY <1>3 DEF AddColumn, NextColumn, Wanted
<1>4. CASE Rewrite
  BY <1>4 DEF Rewrite, Unsourced
<1>5. CASE DropColumn
  BY <1>5 DEF DropColumn, Go
<1>6. CASE FileIsReady
  BY <1>6 DEF FileIsReady, Go
<1>7. CASE CopyLogs
  BY <1>7 DEF CopyLogs, Go
<1>8. ASSUME NEW l \in Logs, Log(l) PROVE SourcesInv'
  <2>1. file /\ "005" \in versions
    BY <1>8 DEF Log
  <2> QED
    BY <1>8, <2>1 DEF Log
<1>9. ASSUME NEW l \in Logs, RemoveLog(l) PROVE SourcesInv'
  BY <1>9 DEF RemoveLog
<1>10. CASE UNCHANGED <<file, columns, versions, acts, flagged>>
  BY <1>10
<1>11. \/ UNCHANGED <<file, columns, versions, acts, flagged>>
       \/ LoseFile \/ OpenFile \/ AddColumn \/ Rewrite \/ DropColumn \/ FileIsReady \/ CopyLogs
       \/ \E l \in Logs : Log(l) \/ RemoveLog(l)
  BY DEF DatabaseNext, OlderRelease, NewerRelease, Restore, OpenDatabase, CutShort, NoSnapshot,
     SetInstallationID, ReuseSnapshot, BeginSnapshot, FinishSnapshot, BreakSnapshot, CreateLedger,
     ApplyMigration, Migrated, MarkFresh, ColumnsThere, Rewritten, ActivityFails, NothingToMove,
     CopyTries, DropCentral, Local, BootstrapHostedCustomer, EnsureLocalOperator
<1> QED
  BY <1>1, <1>2, <1>3, <1>4, <1>5, <1>6, <1>7, <1>8, <1>9, <1>10, <1>11

LEMMA UpgradesAreFaithfulKept ==
  ASSUME DatabaseInv, DatabaseNext
  PROVE  UpgradesAreFaithful'
<1> USE DatabaseAssumption, ColumnsAre, RewritesAre
    DEF databaseVars, schemaVars, centralVars, rowVars, fileVars, shelfVars, processVars,
       historyVars, DatabaseInv, DatabaseHolds, UpgradesAreFaithful, DatabaseTypeOK, CentralTypes,
       FileTypes, PlacesInv, SourcesInv, StepsInv, Versions
<1>1. CASE OlderRelease
  BY <1>1 DEF OlderRelease
<1>2. CASE NewerRelease
  BY <1>2 DEF NewerRelease
<1>3. CASE Restore
  BY <1>3 DEF Restore
<1>4. CASE LoseFile
  BY <1>4 DEF LoseFile
<1>5. CASE OpenDatabase
  BY <1>5 DEF OpenDatabase, Go
<1>6. CASE CutShort
  BY <1>6 DEF CutShort, Halt, Go
<1>7. CASE NoSnapshot
  BY <1>7 DEF NoSnapshot, SnapshotNeeded, Go
<1>8. CASE SetInstallationID
  BY <1>8 DEF SetInstallationID, SnapshotNeeded
<1>9. CASE ReuseSnapshot
  BY <1>9 DEF ReuseSnapshot, SnapshotNeeded, Candidate, Verifies, Go
<1>10. CASE BeginSnapshot
  BY <1>10 DEF BeginSnapshot, SnapshotNeeded, Candidate, Go
<1>11. CASE FinishSnapshot
  BY <1>11 DEF FinishSnapshot, Go
<1>12. CASE BreakSnapshot
  BY <1>12 DEF BreakSnapshot, Halt, Go
<1>13. CASE CreateLedger
  BY <1>13 DEF CreateLedger, Halt, Go
<1>14. CASE ApplyMigration
  BY <1>14 DEF ApplyMigration
<1>15. CASE Migrated
  BY <1>15 DEF Migrated, Go
<1>16. CASE MarkFresh
  BY <1>16 DEF MarkFresh, Go
<1>17. CASE OpenFile
  BY <1>17 DEF OpenFile, Go
<1>18. CASE AddColumn
  BY <1>18 DEF AddColumn, NextColumn, Wanted
<1>19. CASE ColumnsThere
  BY <1>19 DEF ColumnsThere, Wanted, Go
<1>20. CASE Rewrite
  BY <1>20 DEF Rewrite, Unsourced
<1>21. CASE Rewritten
  BY <1>21 DEF Rewritten, Go
<1>22. CASE DropColumn
  BY <1>22 DEF DropColumn, Go
<1>23. CASE FileIsReady
  BY <1>23 DEF FileIsReady, Go
<1>24. CASE ActivityFails
  BY <1>24 DEF ActivityFails, Go
<1>25. CASE NothingToMove
  BY <1>25 DEF NothingToMove, Go
<1>26. CASE CopyLogs
  BY <1>26 DEF CopyLogs, Go
<1>27. CASE CopyTries
  BY <1>27 DEF CopyTries, Go
<1>28. CASE DropCentral
  BY <1>28 DEF DropCentral, Copied, Go
<1>29. CASE Local
  BY <1>29 DEF Local, Go
<1>30. CASE BootstrapHostedCustomer
  BY <1>30 DEF BootstrapHostedCustomer, BootstrapSkipped, BootstrapFresh, BootstrapConverts, Go
<1>31. CASE EnsureLocalOperator
  BY <1>31 DEF EnsureLocalOperator
<1>32. ASSUME NEW l \in Logs, Log(l) PROVE UpgradesAreFaithful'
  BY <1>32 DEF Log
<1>33. ASSUME NEW l \in Logs, RemoveLog(l) PROVE UpgradesAreFaithful'
  BY <1>33 DEF RemoveLog
<1> QED
  BY <1>1, <1>2, <1>3, <1>4, <1>5, <1>6, <1>7, <1>8, <1>9, <1>10, <1>11, <1>12, <1>13, <1>14,
     <1>15, <1>16, <1>17, <1>18, <1>19, <1>20, <1>21, <1>22, <1>23, <1>24, <1>25, <1>26, <1>27,
     <1>28, <1>29, <1>30, <1>31, <1>32, <1>33 DEF DatabaseNext

LEMMA BootstrapIsRecordedKept ==
  ASSUME DatabaseInv, DatabaseNext
  PROVE  BootstrapIsRecorded'
<1> USE DatabaseAssumption
    DEF databaseVars, schemaVars, centralVars, rowVars, fileVars, shelfVars, processVars,
       historyVars, DatabaseInv, DatabaseHolds, BootstrapIsRecorded, DatabaseTypeOK, SchemaTypes,
       StepsInv, MarkerInv
<1>1. CASE OlderRelease
  BY <1>1 DEF OlderRelease
<1>2. CASE NewerRelease
  BY <1>2 DEF NewerRelease
<1>3. CASE Restore
  BY <1>3 DEF Restore
<1>4. CASE LoseFile
  BY <1>4 DEF LoseFile
<1>5. CASE OpenDatabase
  BY <1>5 DEF OpenDatabase, Go
<1>6. CASE CutShort
  BY <1>6 DEF CutShort, Halt, Go
<1>7. CASE NoSnapshot
  BY <1>7 DEF NoSnapshot, SnapshotNeeded, Go
<1>8. CASE SetInstallationID
  BY <1>8 DEF SetInstallationID, SnapshotNeeded
<1>9. CASE ReuseSnapshot
  BY <1>9 DEF ReuseSnapshot, SnapshotNeeded, Candidate, Verifies, Go
<1>10. CASE BeginSnapshot
  BY <1>10 DEF BeginSnapshot, SnapshotNeeded, Candidate, Go
<1>11. CASE FinishSnapshot
  BY <1>11 DEF FinishSnapshot, Go
<1>12. CASE BreakSnapshot
  BY <1>12 DEF BreakSnapshot, Halt, Go
<1>13. CASE CreateLedger
  BY <1>13 DEF CreateLedger, Halt, Go
<1>14. CASE ApplyMigration
  BY <1>14 DEF ApplyMigration
<1>15. CASE Migrated
  BY <1>15 DEF Migrated, Go
<1>16. CASE MarkFresh
  BY <1>16 DEF MarkFresh, Go
<1>17. CASE OpenFile
  BY <1>17 DEF OpenFile, Go
<1>18. CASE AddColumn
  BY <1>18 DEF AddColumn, NextColumn, Wanted
<1>19. CASE ColumnsThere
  BY <1>19 DEF ColumnsThere, Wanted, Go
<1>20. CASE Rewrite
  BY <1>20 DEF Rewrite, Unsourced
<1>21. CASE Rewritten
  BY <1>21 DEF Rewritten, Go
<1>22. CASE DropColumn
  BY <1>22 DEF DropColumn, Go
<1>23. CASE FileIsReady
  BY <1>23 DEF FileIsReady, Go
<1>24. CASE ActivityFails
  BY <1>24 DEF ActivityFails, Go
<1>25. CASE NothingToMove
  BY <1>25 DEF NothingToMove, Go
<1>26. CASE CopyLogs
  BY <1>26 DEF CopyLogs, Go
<1>27. CASE CopyTries
  BY <1>27 DEF CopyTries, Go
<1>28. CASE DropCentral
  BY <1>28 DEF DropCentral, Copied, Go
<1>29. CASE Local
  BY <1>29 DEF Local, Go
<1>30. CASE BootstrapHostedCustomer
  BY <1>30 DEF BootstrapHostedCustomer, BootstrapSkipped, BootstrapFresh, BootstrapConverts, Go
<1>31. CASE EnsureLocalOperator
  BY <1>31 DEF EnsureLocalOperator
<1>32. ASSUME NEW l \in Logs, Log(l) PROVE BootstrapIsRecorded'
  BY <1>32 DEF Log
<1>33. ASSUME NEW l \in Logs, RemoveLog(l) PROVE BootstrapIsRecorded'
  BY <1>33 DEF RemoveLog
<1> QED
  BY <1>1, <1>2, <1>3, <1>4, <1>5, <1>6, <1>7, <1>8, <1>9, <1>10, <1>11, <1>12, <1>13, <1>14,
     <1>15, <1>16, <1>17, <1>18, <1>19, <1>20, <1>21, <1>22, <1>23, <1>24, <1>25, <1>26, <1>27,
     <1>28, <1>29, <1>30, <1>31, <1>32, <1>33 DEF DatabaseNext

LEMMA StepsInvKept ==
  ASSUME DatabaseInv, DatabaseNext
  PROVE  StepsInv'
<1> USE DatabaseAssumption, ColumnsAre, RewritesAre
    DEF databaseVars, schemaVars, centralVars, rowVars, fileVars, shelfVars, processVars,
       historyVars, DatabaseInv, DatabaseHolds, StepsInv, DatabaseTypeOK, SchemaTypes,
       CentralTypes, FileTypes, ShelfTypes, MarkerInv, AllColumns, AllRewrites, Versions
<1>1. CASE OlderRelease
  BY <1>1 DEF OlderRelease
<1>2. CASE NewerRelease
  BY <1>2 DEF NewerRelease
<1>3. CASE Restore
  BY <1>3 DEF Restore
<1>4. CASE LoseFile
  BY <1>4 DEF LoseFile
<1>5. CASE OpenDatabase
  BY <1>5 DEF OpenDatabase, Go
<1>6. CASE CutShort
  BY <1>6 DEF CutShort, Halt, Go
<1>7. CASE NoSnapshot
  BY <1>7 DEF NoSnapshot, SnapshotNeeded, Go
<1>8. CASE SetInstallationID
  BY <1>8 DEF SetInstallationID, SnapshotNeeded
<1>9. CASE ReuseSnapshot
  BY <1>9 DEF ReuseSnapshot, SnapshotNeeded, Candidate, Verifies, Go
<1>10. CASE BeginSnapshot
  BY <1>10 DEF BeginSnapshot, SnapshotNeeded, Candidate, Go
<1>11. CASE FinishSnapshot
  BY <1>11 DEF FinishSnapshot, Go
<1>12. CASE BreakSnapshot
  BY <1>12 DEF BreakSnapshot, Halt, Go
<1>13. CASE CreateLedger
  BY <1>13 DEF CreateLedger, Halt, Go
<1>14. CASE ApplyMigration
  BY <1>14 DEF ApplyMigration
<1>15. CASE Migrated
  BY <1>15 DEF Migrated, Go
<1>16. CASE MarkFresh
  BY <1>16 DEF MarkFresh, Go
<1>17. CASE OpenFile
  BY <1>17 DEF OpenFile, Go
<1>18. CASE AddColumn
  BY <1>18 DEF AddColumn, NextColumn, Wanted
<1>19. CASE ColumnsThere
  BY <1>19 DEF ColumnsThere, Wanted, Go
<1>20. CASE Rewrite
  BY <1>20 DEF Rewrite, Unsourced
<1>21. CASE Rewritten
  BY <1>21 DEF Rewritten, Go
<1>22. CASE DropColumn
  BY <1>22 DEF DropColumn, Go
<1>23. CASE FileIsReady
  <2>1. /\ CurrentColumns \subseteq columns /\ "estimated" \notin columns /\ AllRewrites /\ file
        /\ "006" \in versions \/ boot = "dropped"
    BY <1>23, ColumnsAre DEF FileIsReady
  <2>2. columns \subseteq Columns
    OBVIOUS
  <2> HIDE DEF DatabaseInv, DatabaseHolds, DatabaseTypeOK, FileTypes
  <2>3. columns = CurrentColumns
    BY ONLY <2>1, <2>2, Zenon DEF CurrentColumns
  <2> USE DEF DatabaseInv, DatabaseHolds, DatabaseTypeOK, FileTypes
  <2>4. versions' = Versions
    <3>1. versions \subseteq Versions /\ {"003", "005", "007"} \subseteq versions
      BY <2>1
    <3>2. \/ "006" \in versions /\ versions' = versions
          \/ versions' = versions \cup {"006"}
      BY <1>23, <2>1 DEF FileIsReady
    <3> QED
      BY ONLY <3>1, <3>2 DEF Versions
  <2> QED
    BY <1>23, <2>1, <2>3, <2>4 DEF FileIsReady, Go
<1>24. CASE ActivityFails
  BY <1>24 DEF ActivityFails, Go
<1>25. CASE NothingToMove
  BY <1>25 DEF NothingToMove, Go
<1>26. CASE CopyLogs
  BY <1>26 DEF CopyLogs, Go
<1>27. CASE CopyTries
  BY <1>27 DEF CopyTries, Go
<1>28. CASE DropCentral
  BY <1>28 DEF DropCentral, Copied, Go
<1>29. CASE Local
  BY <1>29 DEF Local, Go
<1>30. CASE BootstrapHostedCustomer
  BY <1>30 DEF BootstrapHostedCustomer, BootstrapSkipped, BootstrapFresh, BootstrapConverts, Go
<1>31. CASE EnsureLocalOperator
  BY <1>31 DEF EnsureLocalOperator
<1>32. ASSUME NEW l \in Logs, Log(l) PROVE StepsInv'
  BY <1>32 DEF Log
<1>33. ASSUME NEW l \in Logs, RemoveLog(l) PROVE StepsInv'
  BY <1>33 DEF RemoveLog
<1> QED
  BY <1>1, <1>2, <1>3, <1>4, <1>5, <1>6, <1>7, <1>8, <1>9, <1>10, <1>11, <1>12, <1>13, <1>14,
     <1>15, <1>16, <1>17, <1>18, <1>19, <1>20, <1>21, <1>22, <1>23, <1>24, <1>25, <1>26, <1>27,
     <1>28, <1>29, <1>30, <1>31, <1>32, <1>33 DEF DatabaseNext

LEMMA MarkerInvKept ==
  ASSUME DatabaseInv, DatabaseNext
  PROVE  MarkerInv'
<1> USE DatabaseAssumption
    DEF databaseVars, schemaVars, centralVars, rowVars, fileVars, shelfVars, processVars,
       historyVars, DatabaseInv, DatabaseHolds, MarkerInv, DatabaseTypeOK, SchemaTypes,
       HistoryTypes, StepsInv, BootstrapIsRecorded
<1>1. CASE OlderRelease
  BY <1>1 DEF OlderRelease
<1>2. CASE NewerRelease
  BY <1>2 DEF NewerRelease
<1>3. CASE Restore
  BY <1>3 DEF Restore
<1>4. CASE LoseFile
  BY <1>4 DEF LoseFile
<1>5. CASE OpenDatabase
  BY <1>5 DEF OpenDatabase, Go
<1>6. CASE CutShort
  BY <1>6 DEF CutShort, Halt, Go
<1>7. CASE NoSnapshot
  BY <1>7 DEF NoSnapshot, SnapshotNeeded, Go
<1>8. CASE SetInstallationID
  BY <1>8 DEF SetInstallationID, SnapshotNeeded
<1>9. CASE ReuseSnapshot
  BY <1>9 DEF ReuseSnapshot, SnapshotNeeded, Candidate, Verifies, Go
<1>10. CASE BeginSnapshot
  BY <1>10 DEF BeginSnapshot, SnapshotNeeded, Candidate, Go
<1>11. CASE FinishSnapshot
  BY <1>11 DEF FinishSnapshot, Go
<1>12. CASE BreakSnapshot
  BY <1>12 DEF BreakSnapshot, Halt, Go
<1>13. CASE CreateLedger
  BY <1>13 DEF CreateLedger, Halt, Go
<1>14. CASE ApplyMigration
  BY <1>14 DEF ApplyMigration
<1>15. CASE Migrated
  BY <1>15 DEF Migrated, Go
<1>16. CASE MarkFresh
  BY <1>16 DEF MarkFresh, Go
<1>17. CASE OpenFile
  BY <1>17 DEF OpenFile, Go
<1>18. CASE AddColumn
  BY <1>18 DEF AddColumn, NextColumn, Wanted
<1>19. CASE ColumnsThere
  BY <1>19 DEF ColumnsThere, Wanted, Go
<1>20. CASE Rewrite
  BY <1>20 DEF Rewrite, Unsourced
<1>21. CASE Rewritten
  BY <1>21 DEF Rewritten, Go
<1>22. CASE DropColumn
  BY <1>22 DEF DropColumn, Go
<1>23. CASE FileIsReady
  BY <1>23 DEF FileIsReady, Go
<1>24. CASE ActivityFails
  BY <1>24 DEF ActivityFails, Go
<1>25. CASE NothingToMove
  BY <1>25 DEF NothingToMove, Go
<1>26. CASE CopyLogs
  BY <1>26 DEF CopyLogs, Go
<1>27. CASE CopyTries
  BY <1>27 DEF CopyTries, Go
<1>28. CASE DropCentral
  BY <1>28 DEF DropCentral, Copied, Go
<1>29. CASE Local
  BY <1>29 DEF Local, Go
<1>30. CASE BootstrapHostedCustomer
  BY <1>30 DEF BootstrapHostedCustomer, BootstrapSkipped, BootstrapFresh, BootstrapConverts, Go
<1>31. CASE EnsureLocalOperator
  BY <1>31 DEF EnsureLocalOperator
<1>32. ASSUME NEW l \in Logs, Log(l) PROVE MarkerInv'
  BY <1>32 DEF Log
<1>33. ASSUME NEW l \in Logs, RemoveLog(l) PROVE MarkerInv'
  BY <1>33 DEF RemoveLog
<1> QED
  BY <1>1, <1>2, <1>3, <1>4, <1>5, <1>6, <1>7, <1>8, <1>9, <1>10, <1>11, <1>12, <1>13, <1>14,
     <1>15, <1>16, <1>17, <1>18, <1>19, <1>20, <1>21, <1>22, <1>23, <1>24, <1>25, <1>26, <1>27,
     <1>28, <1>29, <1>30, <1>31, <1>32, <1>33 DEF DatabaseNext

LEMMA ShelfInvKept ==
  ASSUME DatabaseInv, DatabaseNext
  PROVE  ShelfInv'
<1> USE DatabaseAssumption
    DEF databaseVars, schemaVars, centralVars, rowVars, fileVars, shelfVars, processVars,
       historyVars, DatabaseInv, DatabaseHolds, ShelfInv, DatabaseTypeOK, SchemaTypes,
       CentralTypes, ShelfTypes, CopyStates, Saved, MarkerInv, StepsInv
<1>1. CASE OlderRelease
  BY <1>1 DEF OlderRelease
<1>2. CASE NewerRelease
  BY <1>2 DEF NewerRelease
<1>3. CASE Restore
  BY <1>3 DEF Restore
<1>4. CASE LoseFile
  BY <1>4 DEF LoseFile
<1>5. CASE OpenDatabase
  BY <1>5 DEF OpenDatabase, Go
<1>6. CASE CutShort
  BY <1>6 DEF CutShort, Halt, Go
<1>7. CASE NoSnapshot
  BY <1>7 DEF NoSnapshot, SnapshotNeeded, Go
<1>8. CASE SetInstallationID
  BY <1>8 DEF SetInstallationID, SnapshotNeeded
<1>9. CASE ReuseSnapshot
  BY <1>9 DEF ReuseSnapshot, SnapshotNeeded, Candidate, Verifies, Go
<1>10. CASE BeginSnapshot
  BY <1>10 DEF BeginSnapshot, SnapshotNeeded, Candidate, Go
<1>11. CASE FinishSnapshot
  BY <1>11 DEF FinishSnapshot, Go
<1>12. CASE BreakSnapshot
  BY <1>12 DEF BreakSnapshot, Halt, Go
<1>13. CASE CreateLedger
  BY <1>13 DEF CreateLedger, Halt, Go
<1>14. CASE ApplyMigration
  BY <1>14 DEF ApplyMigration
<1>15. CASE Migrated
  BY <1>15 DEF Migrated, Go
<1>16. CASE MarkFresh
  BY <1>16 DEF MarkFresh, Go
<1>17. CASE OpenFile
  BY <1>17 DEF OpenFile, Go
<1>18. CASE AddColumn
  BY <1>18 DEF AddColumn, NextColumn, Wanted
<1>19. CASE ColumnsThere
  BY <1>19 DEF ColumnsThere, Wanted, Go
<1>20. CASE Rewrite
  BY <1>20 DEF Rewrite, Unsourced
<1>21. CASE Rewritten
  BY <1>21 DEF Rewritten, Go
<1>22. CASE DropColumn
  BY <1>22 DEF DropColumn, Go
<1>23. CASE FileIsReady
  BY <1>23 DEF FileIsReady, Go
<1>24. CASE ActivityFails
  BY <1>24 DEF ActivityFails, Go
<1>25. CASE NothingToMove
  BY <1>25 DEF NothingToMove, Go
<1>26. CASE CopyLogs
  BY <1>26 DEF CopyLogs, Go
<1>27. CASE CopyTries
  BY <1>27 DEF CopyTries, Go
<1>28. CASE DropCentral
  BY <1>28 DEF DropCentral, Copied, Go
<1>29. CASE Local
  BY <1>29 DEF Local, Go
<1>30. CASE BootstrapHostedCustomer
  BY <1>30 DEF BootstrapHostedCustomer, BootstrapSkipped, BootstrapFresh, BootstrapConverts, Go
<1>31. CASE EnsureLocalOperator
  BY <1>31 DEF EnsureLocalOperator
<1>32. ASSUME NEW l \in Logs, Log(l) PROVE ShelfInv'
  BY <1>32 DEF Log
<1>33. ASSUME NEW l \in Logs, RemoveLog(l) PROVE ShelfInv'
  BY <1>33 DEF RemoveLog
<1> QED
  BY <1>1, <1>2, <1>3, <1>4, <1>5, <1>6, <1>7, <1>8, <1>9, <1>10, <1>11, <1>12, <1>13, <1>14,
     <1>15, <1>16, <1>17, <1>18, <1>19, <1>20, <1>21, <1>22, <1>23, <1>24, <1>25, <1>26, <1>27,
     <1>28, <1>29, <1>30, <1>31, <1>32, <1>33 DEF DatabaseNext
LEMMA DatabaseStutters ==
  ASSUME DatabaseInv, UNCHANGED databaseVars
  PROVE  DatabaseInv'
<1> USE DEF databaseVars, schemaVars, centralVars, rowVars, fileVars,
     shelfVars, processVars, historyVars
<1>1. DatabaseTypeOK'
  BY DEF DatabaseInv, DatabaseHolds, DatabaseTypeOK, SchemaTypes, CentralTypes, FileTypes, ShelfTypes,
     ProcessTypes, HistoryTypes
<1>2. (LogsSurvive /\ UpgradesAreFaithful /\ BootstrapIsRecorded)'
  BY DEF DatabaseInv, DatabaseHolds, LogsSurvive, UpgradesAreFaithful, BootstrapIsRecorded
<1>3. (PlacesInv /\ SourcesInv /\ StepsInv)'
  BY DEF DatabaseInv, PlacesInv, SourcesInv, StepsInv, AllColumns, AllRewrites
<1>4. (MarkerInv /\ ShelfInv)'
  BY DEF DatabaseInv, MarkerInv, ShelfInv
<1> QED
  BY <1>1, <1>2, <1>3, <1>4 DEF DatabaseInv, DatabaseHolds

LEMMA DatabaseBegins == DatabaseInit => DatabaseInv
<1> SUFFICES ASSUME DatabaseInit PROVE DatabaseInv
  OBVIOUS
<1> USE DatabaseAssumption, ColumnsAre DEF DatabaseInit, Versions
<1>0. /\ saved \in Saved /\ saved.logs = {} /\ saved.tries = {} /\ saved.schema = 0
      /\ central \cap Tried \subseteq Tried /\ 0 \in 0..Newest /\ Split..Newest \subseteq 0..Newest
      /\ LogsMigration..(Split - 1) \subseteq 0..Newest
  BY DEF Saved, NoSave
<1> USE <1>0
<1>1. CASE NoDatabase
  <2> USE <1>1 DEF NoDatabase, NoFile
  <2>1. DatabaseTypeOK
    BY DEF DatabaseTypeOK, SchemaTypes, CentralTypes, FileTypes, ShelfTypes, ProcessTypes,
       HistoryTypes, Boots, CopyStates
  <2>2. LogsSurvive /\ UpgradesAreFaithful /\ BootstrapIsRecorded
    BY DEF LogsSurvive, UpgradesAreFaithful, BootstrapIsRecorded
  <2>3. PlacesInv /\ SourcesInv /\ StepsInv /\ MarkerInv /\ ShelfInv
    BY DEF PlacesInv, SourcesInv, StepsInv, MarkerInv, ShelfInv
  <2> QED
    BY <2>1, <2>2, <2>3 DEF DatabaseInv, DatabaseHolds
<1>2. CASE CentralRelease
  <2> USE <1>2 DEF CentralRelease, NoFile
  <2>1. DatabaseTypeOK
    BY DEF DatabaseTypeOK, SchemaTypes, CentralTypes, FileTypes, ShelfTypes, ProcessTypes,
       HistoryTypes, Boots, CopyStates
  <2>2. LogsSurvive /\ UpgradesAreFaithful /\ BootstrapIsRecorded
    BY DEF LogsSurvive, UpgradesAreFaithful, BootstrapIsRecorded
  <2>3. PlacesInv /\ SourcesInv /\ StepsInv /\ MarkerInv /\ ShelfInv
    BY DEF PlacesInv, SourcesInv, StepsInv, MarkerInv, ShelfInv
  <2> QED
    BY <2>1, <2>2, <2>3 DEF DatabaseInv, DatabaseHolds
<1>3. CASE SplitRelease
  <2>1. PICK shape \in Shapes : columns = shape.columns /\ versions = shape.versions
    BY <1>3 DEF SplitRelease
  <2>2. columns \subseteq Columns /\ versions \subseteq Versions
    BY <2>1 DEF Shapes
  <2>3. "005" \in versions \/ columns = {} \/ "estimated" \in columns
    BY <2>1 DEF Shapes
  <2> USE <1>3, <2>2, <2>3 DEF SplitRelease
  <2>4. DatabaseTypeOK
    BY DEF DatabaseTypeOK, SchemaTypes, CentralTypes, FileTypes, ShelfTypes, ProcessTypes, HistoryTypes,
       Boots, CopyStates
  <2>5. LogsSurvive /\ UpgradesAreFaithful /\ BootstrapIsRecorded
    BY DEF LogsSurvive, UpgradesAreFaithful, BootstrapIsRecorded
  <2>6. PlacesInv /\ SourcesInv /\ StepsInv /\ MarkerInv /\ ShelfInv
    BY DEF PlacesInv, SourcesInv, StepsInv, MarkerInv, ShelfInv
  <2> QED
    BY <2>4, <2>5, <2>6 DEF DatabaseInv, DatabaseHolds
<1> QED
  BY <1>1, <1>2, <1>3

LEMMA DatabaseGoesOn == DatabaseInv /\ [DatabaseNext]_databaseVars => DatabaseInv'
<1>1. CASE DatabaseNext
  BY <1>1, SchemaTypesKept, CentralTypesKept, FileTypesKept, ShelfTypesKept, ProcessTypesKept,
     HistoryTypesKept, LogsSurviveKept, UpgradesAreFaithfulKept, BootstrapIsRecordedKept,
     PlacesInvKept, SourcesInvKept, StepsInvKept, MarkerInvKept, ShelfInvKept
     DEF DatabaseInv, DatabaseHolds, DatabaseTypeOK
<1>2. CASE UNCHANGED databaseVars
  BY <1>2, DatabaseStutters
<1> QED
  BY <1>1, <1>2


(* Whatever databases the releases leave, and wherever a start is cut      *)
(* short: no log is lost, no source is wrong, and a bootstrap is recorded. *)
THEOREM DatabaseIsSound == DatabaseSpec => []DatabaseHolds
<1>1. DatabaseInv => DatabaseHolds
  BY DEF DatabaseInv
<1> QED
  BY <1>1, DatabaseBegins, DatabaseGoesOn, PTL DEF DatabaseSpec

(* The tenancy migration of a database that was there runs only with a     *)
(* complete snapshot of this installation, unless a copy was cut short.    *)
THEOREM RollbackIsThere == DatabaseSpec => RollbackHolds
<1>1. DatabaseInv /\ [DatabaseNext]_databaseVars => TenancyHasRollback
  BY DatabaseAssumption DEF DatabaseInv, DatabaseHolds, DatabaseTypeOK, SchemaTypes, ShelfInv, TenancyHasRollback
<1> QED
  BY <1>1, DatabaseBegins, DatabaseGoesOn, PTL DEF DatabaseSpec, RollbackHolds
=============================================================================
