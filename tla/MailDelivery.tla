---------------------------- MODULE MailDelivery ----------------------------
(***************************************************************************)
(* What the transactional mail of hosted mode promises, whatever crashes:  *)
(* a mail that is owed stays owed until it was received and is marked sent,*)
(* failed MaxAttempts times and is dead, or its account is gone.  Copies   *)
(* may be received more than once, but none after the mail is settled.     *)
(***************************************************************************)
EXTENDS Naturals

CONSTANTS
  Messages,     \* mails an identity flow may come to owe
  MaxAttempts   \* maxAttempts: failures before a mail is given up

VARIABLES
  stage,      \* what has become of each mail
  received,   \* copies its recipient has got
  failures    \* attempts that were answered with an error, up to MaxAttempts

deliveryVars == <<stage, received, failures>>

Stages == {"none", "owed", "sent", "dead", "withdrawn", "purged"}

DeliveryInit ==
  /\ stage = [m \in Messages |-> "none"]
  /\ received = [m \in Messages |-> 0]
  /\ failures = [m \in Messages |-> 0]

Move(m, from, to) == stage[m] \in from /\ stage' = [stage EXCEPT ![m] = to]

Owe(m) == Move(m, {"none"}, "owed") /\ UNCHANGED <<received, failures>>

\* A copy already read may still go out after the account is withdrawn.
Receive(m) ==
  /\ stage[m] \in {"owed", "withdrawn"}
  /\ received' = [received EXCEPT ![m] = @ + 1]
  /\ UNCHANGED <<stage, failures>>

MarkSent(m) ==
  /\ received[m] > 0
  /\ Move(m, {"owed"}, "sent")
  /\ UNCHANGED <<received, failures>>

Fail(m) ==
  /\ stage[m] \in {"owed", "withdrawn"}
  /\ failures' = [failures EXCEPT ![m] = IF @ < MaxAttempts THEN @ + 1 ELSE @]
  /\ \/ UNCHANGED stage
     \/ failures'[m] = MaxAttempts /\ Move(m, {"owed"}, "dead")
  /\ UNCHANGED received

Withdraw(m) == Move(m, {"owed"}, "withdrawn") /\ UNCHANGED <<received, failures>>

Purge(m) == Move(m, {"sent", "dead"}, "purged") /\ UNCHANGED <<received, failures>>

DeliveryNext ==
  \E m \in Messages :
    Owe(m) \/ Receive(m) \/ MarkSent(m) \/ Fail(m) \/ Withdraw(m) \/ Purge(m)

DeliverySpec == DeliveryInit /\ [][DeliveryNext]_deliveryVars
=============================================================================
