---------------------------- MODULE MCBackground ----------------------------
(***************************************************************************)
(* What runs on beside the requests and must come to an end: the gate of   *)
(* the bodies, the Activity writer, the mail outbox, the live feed and the *)
(* refresh of a provider's token, checked by one run.  They share no       *)
(* state, so each behaviour is that of one of them, `part`, and the others *)
(* stay as they began.  What is fair about a component is asked of it only *)
(* when it is the one that moves.                                          *)
(***************************************************************************)
EXTENDS BodyGate, ActivityLog, MailOutbox, LiveFeed, OAuthConnection, TLC

CONSTANTS r1, r2, k1   \* two requests with a row each, and their key

VARIABLE part

Subjects == {"gate", "activity", "mail", "feed", "refresh"}

MCCovers == k1 :> {r1, r2}

BackgroundInit ==
  /\ part \in Subjects
  /\ Init /\ ActivityInit /\ MailInit /\ FeedInit
  /\ ConnectionInit /\ (part # "refresh" => connection = NoConnection)

BackgroundNext ==
  /\ UNCHANGED part
  /\ \/ part = "gate" /\ Next
     \/ part = "activity" /\ ActivityNext
     \/ part = "mail" /\ MailNext
     \/ part = "feed" /\ FeedNext
     \/ part = "refresh" /\ ConnectionNext
  /\ part # "gate" => UNCHANGED vars
  /\ part # "activity" => UNCHANGED activityVars
  /\ part # "mail" => UNCHANGED mailVars
  /\ part # "feed" => UNCHANGED feedVars
  /\ part # "refresh" => UNCHANGED connectionVars

\* As in FairSpec, ActivityLog, MailSpec, FeedSpec and LiveSpec.
BackgroundFairness ==
  /\ WF_vars(part = "gate" /\ Tick)
  /\ \A r \in Requests : /\ WF_vars(part = "gate" /\ Acquire(r))
                         /\ WF_vars(part = "gate" /\ TimesOut(r))
                         /\ WF_vars(part = "gate" /\ Release(r))
  /\ WF_activityVars(part = "activity" /\ WriterSteps)
  /\ WF_mailVars(part = "mail" /\ WorkerSteps)
  /\ \A m \in Messages : WF_mailVars(part = "mail" /\ Backoff(m))
  /\ WF_feedVars(part = "feed" /\ StreamSteps)
  /\ WF_feedVars(part = "feed" /\ RelayDelta)
  /\ WF_feedVars(part = "feed" /\ BuildSnapshot)
  /\ WF_feedVars(part = "feed" /\ Broadcast)
  /\ WF_feedVars(part = "feed" /\ Receive)
  /\ WF_feedVars(part = "feed" /\ AnswerReconcile)
  /\ WF_feedVars(part = "feed" /\ ApplyReconcile)
  /\ WF_feedVars(part = "feed" /\ LoadRest)
  /\ \A c \in TokenCallers :
       /\ WF_connectionVars(part = "refresh" /\ OwnStep(c))
       /\ WF_connectionVars(part = "refresh" /\ departed[c] /\ AskFails(c))

backgroundVars ==
  <<part, vars, activityVars, mailVars, feedVars, connectionVars>>

BackgroundSpec == BackgroundInit /\ [][BackgroundNext]_backgroundVars /\ BackgroundFairness
=============================================================================
