-------------------------- MODULE ProxyChainSafety --------------------------
(***************************************************************************)
(* The safety of the candidate loop for any number of concurrent requests: *)
(* one answer each, no splice, the buffer gate within its size, and        *)
(* cooldown windows that blame only a target that failed and never shrink. *)
(* Each is proved from the type invariant of ProxyChainProofs and from     *)
(* what a step does to the variables the property speaks of.               *)
(***************************************************************************)
EXTENDS ProxyChainProofs

-----------------------------------------------------------------------------
(* One answer.                                                             *)

\* A step answers a request only as it takes it out of the chain, and the
\* answers of a request that has left it stay until they are forgotten.
Answering(r) ==
  \/ answers'[r] = answers[r] /\ (phase[r] = "finish" => phase'[r] = "finish")
  \/ /\ phase[r] # "finish" /\ phase'[r] = "finish"
     /\ Len(answers'[r]) = Len(answers[r]) + 1
  \/ answers'[r] = << >>

\* The steps of a request leave the phase and the answers of the others alone.
OthersWait(r) ==
  \A q \in Requests \ {r} : answers'[q] = answers[q] /\ phase'[q] = phase[q]

LEMMA MoveOnAnswering ==
  ASSUME TypeInv, NEW r \in Requests, phase[r] # "finish", MoveOnOrAnswer(r)
  PROVE  Answering(r) /\ OthersWait(r)
<1> USE DEF TypeInv
<1>1. CASE NextCandidate(r) /\ UNCHANGED <<answers, error>>
  BY <1>1 DEF NextCandidate, Goto, Answering, OthersWait, TypeOK
<1>2. ASSUME NEW class \in Classes, TerminalError(r, class), Goto(r, "finish")
      PROVE  Answering(r) /\ OthersWait(r)
  BY <1>2, TerminalErrorType DEF Goto, Answering, OthersWait, TypeOK
<1> QED
  BY <1>1, <1>2 DEF MoveOnOrAnswer

LEMMA DecideAnswering ==
  ASSUME TypeInv, NEW r \in Requests, Decide(r)
  PROVE  Answering(r) /\ OthersWait(r)
<1> USE DEF TypeInv
<1>0. /\ TargetFailures \subseteq Classes /\ HttpReplies \subseteq Classes
      /\ TooLarge \in Classes /\ ClientFailure \in Classes
      /\ ProbeFailures \subseteq Classes /\ "http_401" \in Classes
      /\ "upstream_unreachable" \in Classes /\ "upstream_read_error" \in Classes
      /\ "invalid_request" \in Classes
  BY RepliesAssumption DEF Classes, TargetFailures, HttpClasses, TooLarge,
     ClientFailure, ProbeFailures, FinalErrors
<1>1. CASE StopForClient(r) \/ Exhaust(r)
  <2>1. PICK class \in Classes : TerminalError(r, class)
    BY <1>0, <1>1, ExhaustedClassType DEF StopForClient, Exhaust
  <2>2. phase[r] = "loop" /\ Goto(r, "finish")
    BY <1>1 DEF StopForClient, Exhaust, AtCandidate, AtEnd
  <2> QED
    BY <2>1, <2>2, TerminalErrorType DEF Goto, Answering, OthersWait, TypeOK
<1>2. CASE SkipUnavailable(r) \/ SkipCooled(r) \/ SkipUnfit(r) \/ FailEndpoint(r)
  <2>1. phase[r] = "loop" /\ NextCandidate(r) /\ UNCHANGED client
    BY <1>2 DEF SkipUnavailable, SkipCooled, SkipUnfit, FailEndpoint, Eligible, AtCandidate
  <2> QED
    BY <2>1 DEF NextCandidate, Goto, Answering, OthersWait, TypeOK, client
<1>3. CASE RejectUnfit(r) \/ RejectMalformed(r)
  <2>1. \A fit \in Unfit : SkipClass(fit) \in Classes
    BY DEF Unfit, SkipClass, Classes, SkipClasses
  <2>2. PICK class \in Classes : InferenceError(r, class)
    BY <1>0, <1>3, <2>1 DEF RejectUnfit, RejectMalformed
  <2>3. phase[r] = "loop" /\ Goto(r, "finish")
    BY <1>3 DEF RejectUnfit, RejectMalformed, Eligible, AtCandidate
  <2> QED
    BY <2>2, <2>3, TerminalErrorType DEF Goto, Answering, OthersWait, TypeOK
<1>4. CASE Send(r) \/ RefreshDone(r) \/ BodyArrives(r) \/ Select(r)
             \/ StreamHeaders(r) \/ BodyHeaders(r) \/ NextPass(r)
  <2>1. /\ phase[r] \in {"loop"} \cup Calling
        /\ UNCHANGED answers
        /\ UNCHANGED phase \/ \E p \in Phases \ {"finish"} : Goto(r, p)
    BY <1>4 DEF Send, RefreshDone, BodyArrives, Select, StreamHeaders, BodyHeaders, NextPass,
                Eligible, AtCandidate, AtEnd, Calling, Phases, client
  <2> QED
    BY <2>1 DEF Goto, Answering, OthersWait, Calling, TypeOK
<1>5. CASE \/ SendError(r) \/ RefreshFailed(r) \/ NoBufferSlot(r) \/ BodyTooLarge(r)
           \/ BodyBreaks(r) \/ \E class \in ProbeFailures : ProbeFail(r, class)
  <2>1. phase[r] \in Calling
    BY <1>5 DEF SendError, RefreshFailed, NoBufferSlot, BodyTooLarge, BodyBreaks, ProbeFail,
                Calling
  <2>2. MoveOnOrAnswer(r)
    <3>1. \A class \in Classes : ClassFor(r, class) \in Classes
      BY ClassForType
    <3>2. \A class \in Classes : PreflightFail(r, class) => MoveOnOrAnswer(r)
      BY DEF PreflightFail, MoveOnOrAnswer
    <3>3. \A class \in Classes : SettleHttpFailure(r, class) => MoveOnOrAnswer(r)
      BY DEF SettleHttpFailure, MoveOnOrAnswer
    <3>4. ASSUME SendError(r) PROVE MoveOnOrAnswer(r)
      BY <1>0, <3>1, <3>4 DEF SendError, MoveOnOrAnswer
    <3>5. ASSUME NEW class \in ProbeFailures, ProbeFail(r, class) PROVE MoveOnOrAnswer(r)
      BY <1>0, <3>5 DEF ProbeFail, MoveOnOrAnswer
    <3> QED
      BY <1>0, <1>5, <3>1, <3>2, <3>3, <3>4, <3>5
      DEF RefreshFailed, NoBufferSlot, BodyTooLarge, BodyBreaks
  <2> QED
    BY <2>1, <2>2, MoveOnAnswering DEF Calling
<1>6. ASSUME NEW class \in HttpReplies, HttpError(r, class)
      PROVE  Answering(r) /\ OthersWait(r)
  <2>1. phase[r] = "sent"
    BY <1>6 DEF HttpError
  <2>2. CASE Repairable(r, class)
    BY <1>6, <2>1, <2>2 DEF HttpError, Goto, Answering, OthersWait, TypeOK
  <2>3. CASE ~Repairable(r, class)
    <3>1. MoveOnOrAnswer(r)
      BY <1>0, <1>6, <2>3 DEF HttpError, SettleHttpFailure, MoveOnOrAnswer
    <3> QED
      BY <2>1, <3>1, MoveOnAnswering
  <2> QED
    BY <2>2, <2>3
<1> QED
  BY <1>1, <1>2, <1>3, <1>4, <1>5, <1>6 DEF Decide

LEMMA RelayAnswering ==
  ASSUME TypeInv, NEW r \in Requests, Relay(r)
  PROVE  Answering(r) /\ OthersWait(r)
<1> USE DEF TypeInv
<1>1. phase[r] = "relay" /\ Goto(r, "finish")
  BY DEF Relay, StreamEnds, StreamBreaks, AggregateEnds, AggregateBreaks, BodyRelayed,
         BodyRefused, BodyCut, RelayEnds, RelayBreaks
<1>2. UNCHANGED answers \/ \E answer \in Answers : Answer(r, answer)
  BY DEF Relay, StreamEnds, StreamBreaks, AggregateEnds, AggregateBreaks, BodyRelayed,
         BodyRefused, BodyCut, RelayEnds, Answers
<1> QED
  BY <1>1, <1>2, AnswerType DEF Goto, Answering, OthersWait, TypeOK

\* Every step answers as Answering says.
LEMMA StepAnswering ==
  ASSUME TypeInv, [Next]_vars
  PROVE  \A r \in Requests : Answering(r)
<1> USE DEF TypeInv
<1>1. ASSUME NEW q \in Requests,
             \/ \E p \in Plans[q] : Begin(q, p)
             \/ Finish(q)
      PROVE  \A r \in Requests : Answering(r)
  BY <1>1 DEF Begin, Finish, Forget, Goto, Answering, client, TypeOK
<1>2. CASE \/ \E q \in Requests : ClientLeaves(q)
           \/ Tick
           \/ \E t \in Targets : AdminRelease(TargetName[t])
           \/ \E seconds \in Settings : SaveSetting(seconds)
           \/ UNCHANGED vars
  BY <1>2 DEF ClientLeaves, Tick, AdminRelease, SaveSetting, Answering, vars, client
<1>3. ASSUME NEW q \in Requests, Decide(q) \/ Relay(q)
      PROVE  \A r \in Requests : Answering(r)
  <2>1. Answering(q) /\ OthersWait(q)
    BY <1>3, DecideAnswering, RelayAnswering
  <2> QED
    BY <2>1 DEF OthersWait, Answering
<1> QED
  BY <1>1, <1>2, <1>3 DEF Next

\* No request is answered twice, and none is answered while it may still call
\* another target: every error path of the proxy handler returns.
THEOREM OneAnswer == Spec => []AnsweredOnce
<1>1. Init => AnsweredOnce
  BY EmptySeq DEF Init, AnsweredOnce
<1>2. TypeInv /\ AnsweredOnce /\ [Next]_vars => AnsweredOnce'
  <2> SUFFICES ASSUME TypeInv, AnsweredOnce, [Next]_vars, NEW r \in Requests
               PROVE  /\ Len(answers'[r]) <= 1
                      /\ phase'[r] # "finish" => answers'[r] = << >>
    BY DEF AnsweredOnce
  <2>1. Answering(r)
    BY StepAnswering
  <2>2. Len(<< >>) = 0
    BY EmptySeq
  <2> QED
    BY <2>1, <2>2 DEF Answering, AnsweredOnce
<1> QED
  BY <1>1, <1>2, TypeInvariance, PTL DEF Spec

-----------------------------------------------------------------------------
(* The cooldown windows.                                                   *)

\* What a step may do to the window of a target: leave it, drop it, or open a
\* window that is not shorter, for a request the target has failed.
Window(t) ==
  \/ cooldown'[t] \in {cooldown[t], NoEntry}
  \/ \E r \in Requests :
       /\ cooldown'[t].origin = r
       /\ cooldown'[t].until >= cooldown[t].until
       /\ t \in blame'[r]

\* CoolDown opens the window of the candidate at hand, and of no other target.
\* The old window is not longer: either it is still open, and then Open keeps
\* the longer of the two, or it closed before the new one opens.
LEMMA CoolDownWindow ==
  ASSUME TypeInv, NEW r \in Requests, phase[r] \in Calling, NEW class,
         NEW whatever \in BOOLEAN, CoolDown(r, class, whatever),
         CooldownTrigger(class) /\ (whatever \/ ~gone[r]) => Current(r) \in blame'[r]
  PROVE  \A t \in Targets : Window(t)
<1> DEFINE u == now + cool[r]
           e == [until |-> u, origin |-> r]
<1>1. /\ Current(r) \in Targets
      /\ now \in Nat /\ u \in Nat /\ now <= u
  <2>1. now \in Nat
    BY ChainAssumption DEF TypeInv, TypeOK
  <2>2. Settings \cup {0} \subseteq Nat
    BY ChainAssumption
  <2>3. cool[r] \in Settings \cup {0}
    BY DEF TypeInv, TypeOK
  <2>4. cool[r] \in Nat
    BY <2>2, <2>3
  <2> QED
    BY <2>1, <2>4, CalledTargetType
<1>2. CASE UNCHANGED cooldown
  BY <1>2 DEF Window
<1>3. CASE cooldown' # cooldown
  <2>1. /\ cooldown' = Open(cooldown, Current(r), now, u, r)
        /\ Current(r) \in blame'[r]
    BY <1>3 DEF CoolDown
  <2> HIDE DEF u
  <2>2. cooldown \in Store
    BY DEF TypeInv, TypeOK
  <2>3. \A t \in Targets :
          /\ Prune(cooldown, now)[t] \in {cooldown[t], NoEntry}
          /\ cooldown[t].until \in Nat
          /\ Prune(cooldown, now)[t] = NoEntry => cooldown[t].until <= now \/ cooldown[t] = NoEntry
    BY <1>1, <2>2 DEF Prune, Cooled, Store, Entry
  <2>4. \A t \in Targets \ {Current(r)} : cooldown'[t] \in {cooldown[t], NoEntry}
    BY <2>1, <2>2, <2>3 DEF Open, Prune
  <2>5. Window(Current(r))
    <3> DEFINE kept == Prune(cooldown, now)
    <3>1. CASE kept[Current(r)].until > u
      BY <1>1, <2>1, <2>3, <3>1 DEF Open, Window
    <3>2. CASE ~(kept[Current(r)].until > u)
      <4>1. cooldown'[Current(r)] = e
        BY <1>1, <2>1, <2>2, <3>2 DEF Open, Prune
      <4>2. cooldown[Current(r)].until <= u
        <5>1. CASE kept[Current(r)] = NoEntry
          BY <1>1, <2>3, <5>1 DEF NoEntry
        <5>2. CASE kept[Current(r)] # NoEntry
          BY <1>1, <2>3, <3>2, <5>2
        <5> QED
          BY <5>1, <5>2
      <4> QED
        BY <2>1, <4>1, <4>2 DEF Window
    <3> QED
      BY <3>1, <3>2
  <2> QED
    BY <2>4, <2>5 DEF Window
<1> QED
  BY <1>2, <1>3

\* Every step keeps the windows of a target as Window says.
LEMMA StepWindow ==
  ASSUME TypeInv, [Next]_vars
  PROVE  \A t \in Targets : Window(t)
<1> USE DEF TypeInv
<1>1. CASE UNCHANGED cooldown
  BY <1>1 DEF Window
<1>2. ASSUME NEW r \in Requests, SendError(r) PROVE \A t \in Targets : Window(t)
  <2>1. phase[r] \in Calling
    BY <1>2 DEF SendError, Calling
  <2>2. ~gone[r] => Current(r) \in blame'[r]
    BY <1>2 DEF SendError, TypeOK
  <2> QED
    BY <1>2, <2>1, <2>2, CoolDownWindow DEF SendError
<1>3. ASSUME NEW r \in Requests, phase[r] \in Calling, NEW class, SettleHttpFailure(r, class)
      PROVE  \A t \in Targets : Window(t)
  <2>1. Current(r) \in blame'[r]
    BY <1>3 DEF SettleHttpFailure, TypeOK
  <2> QED
    BY <1>3, <2>1, CoolDownWindow DEF SettleHttpFailure
<1>4. ASSUME NEW r \in Requests, NEW class \in HttpReplies, HttpError(r, class)
      PROVE  \A t \in Targets : Window(t)
  <2>1. CASE Repairable(r, class)
    BY <1>1, <1>4, <2>1 DEF HttpError
  <2>2. CASE ~Repairable(r, class)
    BY <1>3, <1>4, <2>2 DEF HttpError, Calling
  <2> QED
    BY <2>1, <2>2
<1>5. ASSUME NEW r \in Requests, RefreshFailed(r) PROVE \A t \in Targets : Window(t)
  BY <1>3, <1>5 DEF RefreshFailed, Calling
<1>6. ASSUME NEW r \in Requests, NoBufferSlot(r) \/ BodyTooLarge(r)
      PROVE  \A t \in Targets : Window(t)
  <2>1. ~CooldownTrigger(TooLarge)
    BY DEF CooldownTrigger, TooLarge, TargetFailures
  <2>2. UNCHANGED cooldown
    BY <1>6, <2>1 DEF NoBufferSlot, BodyTooLarge, PreflightFail, CoolDown
  <2> QED
    BY <1>1, <2>2
<1>7. ASSUME NEW r \in Requests, BodyBreaks(r) PROVE \A t \in Targets : Window(t)
  <2>1. phase[r] \in Calling
    BY <1>7 DEF BodyBreaks, Calling
  <2>2. ~gone[r] => Current(r) \in blame'[r]
    BY <1>7 DEF BodyBreaks, TypeOK
  <2> QED
    BY <1>7, <2>1, <2>2, CoolDownWindow DEF BodyBreaks, PreflightFail
<1>8. ASSUME NEW r \in Requests, NEW class \in ProbeFailures, ProbeFail(r, class)
      PROVE  \A t \in Targets : Window(t)
  <2>1. phase[r] \in Calling
    BY <1>8 DEF ProbeFail, Calling
  <2>2. ~gone[r] => Current(r) \in blame'[r]
    BY <1>8 DEF ProbeFail, TypeOK
  <2> QED
    BY <1>8, <2>1, <2>2, CoolDownWindow DEF ProbeFail
<1>9. ASSUME NEW r \in Requests, NEW answer, RelayEnds(r, answer)
      PROVE  \A t \in Targets : Window(t)
  BY <1>9 DEF RelayEnds, ClearSelected, Remove, Window, TypeOK, Store
<1>10. ASSUME NEW r \in Requests, Relay(r) PROVE \A t \in Targets : Window(t)
  <2>1. UNCHANGED cooldown \/ \E answer : RelayEnds(r, answer)
    BY <1>10 DEF Relay, StreamEnds, StreamBreaks, AggregateEnds, AggregateBreaks,
                 BodyRelayed, BodyRefused, BodyCut, RelayBreaks, shared
  <2> QED
    BY <1>1, <1>9, <2>1
<1>11. ASSUME \/ \E t \in Targets : AdminRelease(TargetName[t])
              \/ \E seconds \in Settings : SaveSetting(seconds)
       PROVE  \A t \in Targets : Window(t)
  BY <1>11 DEF AdminRelease, SaveSetting, Release, NoCooldowns, Window, TypeOK, Store
<1>12. ASSUME NEW r \in Requests,
             \/ StopForClient(r) \/ SkipUnavailable(r) \/ SkipCooled(r) \/ SkipUnfit(r)
             \/ RejectUnfit(r) \/ RejectMalformed(r) \/ FailEndpoint(r) \/ Send(r)
             \/ RefreshDone(r) \/ StreamHeaders(r) \/ BodyHeaders(r) \/ BodyArrives(r)
             \/ Select(r) \/ NextPass(r) \/ Exhaust(r) \/ Finish(r) \/ ClientLeaves(r)
             \/ \E p \in Plans[r] : Begin(r, p)
       PROVE UNCHANGED cooldown
  BY <1>12 DEF StopForClient, SkipUnavailable, SkipCooled, SkipUnfit, RejectUnfit,
     RejectMalformed, FailEndpoint, Send, RefreshDone, StreamHeaders, BodyHeaders,
     BodyArrives, Select, NextPass, Exhaust, Finish, ClientLeaves, Begin, shared
<1>13. Tick \/ UNCHANGED vars => UNCHANGED cooldown
  BY DEF Tick, vars, shared
<1> QED
  BY <1>1, <1>2, <1>4, <1>5, <1>6, <1>7, <1>8, <1>10, <1>11, <1>12, <1>13 DEF Next, Decide

\* A cooldown window is never shortened, whatever the order in which requests
\* that read different settings fail: it is left alone, extended or dropped.
LEMMA WindowsNeverShrink ==
  ASSUME TypeInv, [Next]_vars
  PROVE  \A t \in Targets : WindowStands(t)
<1> SUFFICES ASSUME NEW t \in Targets
             PROVE  WindowStands(t)
  OBVIOUS
<1>1. cooldown[t].until \in Nat
  BY DEF TypeInv, TypeOK, Store, Entry
<1> QED
  BY <1>1, StepWindow DEF Window, WindowStands

\* The history of blame only grows.
LEMMA BlameGrows ==
  ASSUME TypeInv, [Next]_vars
  PROVE  \A r \in Requests : blame[r] \subseteq blame'[r]
<1> USE DEF TypeInv
<1>0. blame \in [Requests -> SUBSET Targets]
  BY DEF TypeOK
<1>1. ASSUME NEW r \in Requests, NEW t,
             \/ blame' = [blame EXCEPT ![r] = IF gone[r] THEN @ ELSE @ \cup {t}]
             \/ blame' = [blame EXCEPT ![r] = @ \cup {t}]
             \/ UNCHANGED blame
      PROVE  \A q \in Requests : blame[q] \subseteq blame'[q]
  <2> HIDE DEF TypeInv
  <2>1. CASE blame' = [blame EXCEPT ![r] = IF gone[r] THEN @ ELSE @ \cup {t}]
    BY <1>0, <2>1
  <2>2. CASE blame' = [blame EXCEPT ![r] = @ \cup {t}]
    BY <1>0, <2>2
  <2>3. CASE UNCHANGED blame
    BY <2>3
  <2> QED
    BY <1>1, <2>1, <2>2, <2>3
<1>2. ASSUME NEW r \in Requests,
             \/ SendError(r) \/ \E class \in HttpReplies : HttpError(r, class)
             \/ RefreshFailed(r) \/ FailEndpoint(r) \/ NoBufferSlot(r) \/ BodyTooLarge(r)
             \/ BodyBreaks(r) \/ \E class \in ProbeFailures : ProbeFail(r, class)
      PROVE  \A q \in Requests : blame[q] \subseteq blame'[q]
  BY <1>1, <1>2 DEF SendError, HttpError, SettleHttpFailure, RefreshFailed, FailEndpoint,
     NoBufferSlot, BodyTooLarge, BodyBreaks, ProbeFail
<1>3. ASSUME NEW r \in Requests, Relay(r)
      PROVE  \A q \in Requests : blame[q] \subseteq blame'[q]
  <2>1. UNCHANGED blame \/ Blame(r)
    BY <1>3 DEF Relay, StreamEnds, StreamBreaks, AggregateEnds, AggregateBreaks,
                BodyRelayed, BodyRefused, BodyCut, RelayEnds, history
  <2> QED
    BY <1>1, <2>1 DEF Blame
<1>4. ASSUME NEW r \in Requests,
             \/ StopForClient(r) \/ SkipUnavailable(r) \/ SkipCooled(r) \/ SkipUnfit(r)
             \/ RejectUnfit(r) \/ RejectMalformed(r) \/ Send(r)
             \/ RefreshDone(r) \/ StreamHeaders(r) \/ BodyHeaders(r) \/ BodyArrives(r)
             \/ Select(r) \/ NextPass(r) \/ Exhaust(r) \/ Finish(r) \/ ClientLeaves(r)
             \/ \E p \in Plans[r] : Begin(r, p)
      PROVE UNCHANGED blame
  BY <1>4 DEF StopForClient, SkipUnavailable, SkipCooled, SkipUnfit, RejectUnfit,
     RejectMalformed, Send, RefreshDone, StreamHeaders, BodyHeaders,
     BodyArrives, Select, NextPass, Exhaust, Finish, ClientLeaves, Begin, history
<1>5. ASSUME \/ Tick
             \/ \E t \in Targets : AdminRelease(TargetName[t])
             \/ \E seconds \in Settings : SaveSetting(seconds)
             \/ UNCHANGED vars
      PROVE  UNCHANGED blame
  BY <1>5 DEF Tick, AdminRelease, SaveSetting, vars, history
<1> QED
  BY <1>2, <1>3, <1>4, <1>5 DEF Next, Decide

\* A window is always the doing of its own target: a failure of the router, of
\* the client or of another target cools nothing, in any interleaving.
THEOREM CoolingIsDeserved == Spec => []CooledByOwnFault
<1>1. Init => CooledByOwnFault
  BY DEF Init, NoCooldowns, CooledByOwnFault
<1>2. TypeInv /\ CooledByOwnFault /\ [Next]_vars => CooledByOwnFault'
  <2> SUFFICES ASSUME TypeInv, CooledByOwnFault, [Next]_vars,
                      NEW t \in Targets, cooldown'[t] # NoEntry
               PROVE  cooldown'[t].origin \in Requests /\ t \in blame'[cooldown'[t].origin]
    BY DEF CooledByOwnFault, NoEntry
  <2>1. Window(t)
    BY StepWindow
  <2>2. CASE cooldown'[t] = cooldown[t]
    BY <2>2, BlameGrows DEF CooledByOwnFault
  <2>3. CASE \E r \in Requests : cooldown'[t].origin = r /\ t \in blame'[r]
    BY <2>3
  <2> QED
    BY <2>1, <2>2, <2>3 DEF Window
<1> QED
  BY <1>1, <1>2, TypeInvariance, PTL DEF Spec

\* The two together, for the store as a whole.
THEOREM CooldownIsSound == Spec => CooldownSound
<1>1. TypeInv /\ [Next]_vars => [\A t \in Targets : WindowStands(t)]_vars
  BY WindowsNeverShrink
<1> QED
  BY <1>1, CoolingIsDeserved, TypeInvariance, PTL DEF Spec, CooldownSound

-----------------------------------------------------------------------------
(* No splice.                                                              *)

\* A request does not touch the attempts or the selected target of another.
LEMMA OthersKeepTarget ==
  ASSUME TypeInv, NEW q \in Requests, Decide(q) \/ Relay(q) \/ Finish(q)
  PROVE  \A r \in Requests \ {q} : attempts'[r] = attempts[r] /\ serving'[r] = serving[r]
<1> USE DEF TypeInv
<1>1. \A result, class, clientGone :
        Record(q, result, class, clientGone) =>
          \A r \in Requests \ {q} : attempts'[r] = attempts[r]
  BY DEF Record, TypeOK
<1>2. ASSUME NEW class, PreflightFail(q, class)
      PROVE  /\ \A r \in Requests \ {q} : attempts'[r] = attempts[r]
             /\ UNCHANGED serving
  BY <1>1, <1>2 DEF PreflightFail
<1>3. CASE Relay(q)
  <2>1. UNCHANGED <<attempts, serving>> \/ \E class : RelayBreaks(q, class)
    BY <1>3 DEF Relay, StreamEnds, StreamBreaks, AggregateEnds, AggregateBreaks,
                BodyRelayed, BodyRefused, BodyCut, RelayEnds, loop
  <2> QED
    BY <2>1 DEF RelayBreaks, TypeOK
<1>4. CASE \/ SkipUnavailable(q) \/ SkipCooled(q) \/ SkipUnfit(q) \/ FailEndpoint(q)
           \/ SendError(q) \/ \E class \in HttpReplies : HttpError(q, class)
           \/ \E class \in ProbeFailures : ProbeFail(q, class)
  BY <1>1, <1>4 DEF SkipUnavailable, SkipCooled, SkipUnfit, FailEndpoint, SendError, HttpError,
     ProbeFail, client
<1>5. CASE Select(q)
  BY <1>1, <1>5 DEF Select, TypeOK
<1>6. CASE NoBufferSlot(q) \/ BodyTooLarge(q) \/ BodyBreaks(q)
  BY <1>2, <1>6 DEF NoBufferSlot, BodyTooLarge, BodyBreaks
<1>7. CASE RefreshDone(q) \/ Finish(q)
  BY <1>7 DEF RefreshDone, Finish, Forget, client, TypeOK
<1>8. CASE \/ StopForClient(q) \/ RejectUnfit(q) \/ RejectMalformed(q) \/ Send(q)
           \/ RefreshFailed(q) \/ StreamHeaders(q) \/ BodyHeaders(q) \/ BodyArrives(q)
           \/ NextPass(q) \/ Exhaust(q)
  BY <1>8 DEF StopForClient, RejectUnfit, RejectMalformed, Send, RefreshFailed, StreamHeaders,
     BodyHeaders, BodyArrives, NextPass, Exhaust, loop, client
<1> QED
  BY <1>3, <1>4, <1>5, <1>6, <1>7, <1>8 DEF Decide

\* Only its relay moves a request whose target has been selected.
LEMMA RelayOnly ==
  ASSUME NEW r \in Requests, Decide(r), phase[r] = "relay"
  PROVE  FALSE
  BY DEF Decide, StopForClient, SkipUnavailable, SkipCooled, SkipUnfit, RejectUnfit,
     RejectMalformed, FailEndpoint, Send, SendError, HttpError, RefreshDone, RefreshFailed,
     StreamHeaders, BodyHeaders, NoBufferSlot, BodyTooLarge, BodyBreaks, BodyArrives,
     ProbeFail, Select, NextPass, Exhaust, Eligible, AtCandidate, AtEnd

\* Once a target has been selected its reply is the only one the client may
\* see: nothing that happens to the relay, or to another request, makes the
\* handler call a second target.
THEOREM NoSecondTarget == Spec => NoSplice
<1> DEFINE Bound == \A r \in Requests :
      serving[r] # NoTarget /\ phase[r] # "finish" =>
        serving'[r] = serving[r] /\ Len(attempts'[r]) = Len(attempts[r])
<1>1. TypeInv /\ [Next]_vars => [Bound]_vars
  <2> SUFFICES ASSUME TypeInv, Next, NEW r \in Requests,
                      serving[r] # NoTarget, phase[r] # "finish"
               PROVE  serving'[r] = serving[r] /\ Len(attempts'[r]) = Len(attempts[r])
    OBVIOUS
  <2>1. phase[r] = "relay"
    BY DEF TypeInv, Located
  <2>2. ASSUME Relay(r)
        PROVE  serving'[r] = serving[r] /\ Len(attempts'[r]) = Len(attempts[r])
    <3>1. \/ UNCHANGED <<attempts, serving>>
          \/ /\ UNCHANGED serving
             /\ \E class \in {"upstream_read_error", "translation_error"} : RelayBreaks(r, class)
      BY <2>2 DEF Relay, StreamEnds, StreamBreaks, AggregateEnds, AggregateBreaks,
                  BodyRelayed, BodyRefused, BodyCut, RelayEnds, RelayBreaks, loop
    <3>2. ASSUME NEW class, RelayBreaks(r, class)
          PROVE  Len(attempts'[r]) = Len(attempts[r])
      <4> DEFINE n == Len(attempts[r])
                 e == [attempts[r][n] EXCEPT !.result = "failed", !.class = ClassFor(r, class)]
      <4>1. attempts' = [attempts EXCEPT ![r] = [attempts[r] EXCEPT ![n] = e]]
        BY <3>2 DEF RelayBreaks
      <4> HIDE DEF n, e
      <4>2. attempts[r] \in Seq(Attempt)
        BY DEF TypeInv, TypeOK
      <4>3. Len([attempts[r] EXCEPT ![n] = e]) = Len(attempts[r])
        BY <4>2
      <4> QED
        BY <4>1, <4>3 DEF TypeInv, TypeOK
    <3> QED
      BY <3>1, <3>2
  <2>3. ASSUME NEW q \in Requests, q # r, Decide(q) \/ Relay(q) \/ Finish(q)
        PROVE  serving'[r] = serving[r] /\ Len(attempts'[r]) = Len(attempts[r])
    BY <2>3, OthersKeepTarget
  <2>4. ASSUME \/ \E q \in Requests : ClientLeaves(q) \/ \E p \in Plans[q] : Begin(q, p)
               \/ Tick
               \/ \E t \in Targets : AdminRelease(TargetName[t])
               \/ \E seconds \in Settings : SaveSetting(seconds)
        PROVE  serving'[r] = serving[r] /\ Len(attempts'[r]) = Len(attempts[r])
    BY <2>4 DEF ClientLeaves, Begin, Tick, AdminRelease, SaveSetting, loop, client
  <2>5. ~Finish(r)
    BY <2>1 DEF Finish
  <2> QED
    BY <2>1, <2>2, <2>3, <2>4, <2>5, RelayOnly DEF Next
<1> QED
  BY <1>1, TypeInvariance, PTL DEF Spec, NoSplice

-----------------------------------------------------------------------------
(* The gate on buffered bodies.                                            *)

Buffered(r) ==
  phase[r] \in {"preflight", "probe", "relay", "finish"} /\ ~streaming[r]

\* A request that holds a slot keeps its buffered body until the step that
\* gives the slot back, and the steps of other requests do not disturb it.
LEMMA SlotKept ==
  ASSUME TypeInv, [Next]_vars, NEW r \in gate, Buffered(r), r \in gate'
  PROVE  Buffered(r)'
<1> USE DEF TypeInv
<1>0. r \in Requests
  BY DEF TypeOK
<1>1. ASSUME NEW q \in Requests \ {r}, Decide(q) \/ Relay(q)
      PROVE  phase'[r] = phase[r]
  BY <1>0, <1>1, DecideAnswering, RelayAnswering DEF OthersWait
<1>2. ASSUME NEW q \in Requests \ {r}, Decide(q) \/ Relay(q)
      PROVE  streaming'[r] = streaming[r]
  BY <1>0, <1>2 DEF Decide, Relay, StopForClient, SkipUnavailable, SkipCooled, SkipUnfit,
     RejectUnfit, RejectMalformed, FailEndpoint, Send, SendError, HttpError, RefreshDone,
     RefreshFailed, StreamHeaders, BodyHeaders, NoBufferSlot, BodyTooLarge, BodyBreaks,
     PreflightFail, BodyArrives, ProbeFail, Select, NextPass, Exhaust, StreamEnds, StreamBreaks,
     AggregateEnds, AggregateBreaks, BodyRelayed, BodyRefused, BodyCut, RelayEnds, RelayBreaks,
     client, TypeOK
<1>3. ASSUME NEW q \in Requests \ {r}, Finish(q) \/ \E p \in Plans[q] : Begin(q, p)
      PROVE  phase'[r] = phase[r] /\ streaming'[r] = streaming[r]
  BY <1>0, <1>3 DEF Finish, Forget, Begin, Goto, client, TypeOK
<1>4. ASSUME BodyArrives(r) \/ Select(r) PROVE Buffered(r)'
  BY <1>0, <1>4 DEF BodyArrives, Select, Goto, Buffered, client, TypeOK
<1>5. ASSUME Relay(r) PROVE Buffered(r)'
  BY <1>0, <1>5 DEF Relay, StreamEnds, StreamBreaks, AggregateEnds, AggregateBreaks,
     BodyRelayed, BodyRefused, BodyCut, RelayEnds, RelayBreaks, Goto, Buffered, TypeOK
<1>6. ~BodyTooLarge(r) /\ ~BodyBreaks(r) /\ ~NoBufferSlot(r) /\ ~Finish(r)
  BY <1>0 DEF BodyTooLarge, BodyBreaks, NoBufferSlot, PreflightFail, Finish
<1>7. ASSUME Decide(r) PROVE BodyArrives(r) \/ Select(r)
  BY <1>0, <1>6, <1>7 DEF Buffered, Decide, StopForClient, SkipUnavailable, SkipCooled,
     SkipUnfit, RejectUnfit, RejectMalformed, FailEndpoint, Send, SendError, HttpError,
     RefreshDone, RefreshFailed, StreamHeaders, BodyHeaders, ProbeFail, NextPass, Exhaust,
     Eligible, AtCandidate, AtEnd
<1>8. ASSUME NEW p, Begin(r, p) PROVE FALSE
  BY <1>8 DEF Begin, Buffered
<1>9. ASSUME \/ \E q \in Requests : ClientLeaves(q)
             \/ Tick
             \/ \E t \in Targets : AdminRelease(TargetName[t])
             \/ \E seconds \in Settings : SaveSetting(seconds)
             \/ UNCHANGED vars
      PROVE  UNCHANGED <<phase, streaming>>
  BY <1>9 DEF ClientLeaves, Tick, AdminRelease, SaveSetting, vars, client
<1> QED
  BY <1>0, <1>1, <1>2, <1>3, <1>4, <1>5, <1>6, <1>7, <1>8, <1>9 DEF Next, Buffered

\* What a step does to the gate: it leaves it, gives slots back, or takes one
\* of the free slots for a body that starts to be buffered.
LEMMA GateStep ==
  ASSUME TypeInv, [Next]_vars
  PROVE  \/ gate' = gate
         \/ \E r \in Requests : gate' = gate \ {r}
         \/ \E r \in Requests : ~GateFull /\ gate' = gate \cup {r} /\ Buffered(r)'
<1> USE DEF TypeInv
<1>1. ASSUME NEW r \in Requests, BodyHeaders(r)
      PROVE  ~GateFull /\ gate' = gate \cup {r} /\ Buffered(r)'
  BY <1>1 DEF BodyHeaders, Buffered, Goto, TypeOK
<1>2. ASSUME NEW r \in Requests,
             NoBufferSlot(r) \/ BodyTooLarge(r) \/ BodyBreaks(r) \/ Finish(r)
      PROVE  gate' = gate \ {r}
  BY <1>2 DEF NoBufferSlot, BodyTooLarge, BodyBreaks, PreflightFail, Finish
<1>3. ASSUME NEW r \in Requests, Relay(r) PROVE gate' = gate
  BY <1>3 DEF Relay, StreamEnds, StreamBreaks, AggregateEnds, AggregateBreaks,
     BodyRelayed, BodyRefused, BodyCut, RelayEnds, RelayBreaks, shared
<1>4. ASSUME NEW r \in Requests,
             \/ StopForClient(r) \/ SkipUnavailable(r) \/ SkipCooled(r) \/ SkipUnfit(r)
             \/ RejectUnfit(r) \/ RejectMalformed(r) \/ FailEndpoint(r) \/ Send(r)
             \/ SendError(r) \/ \E class \in HttpReplies : HttpError(r, class)
             \/ RefreshDone(r) \/ RefreshFailed(r) \/ StreamHeaders(r) \/ BodyArrives(r)
             \/ \E class \in ProbeFailures : ProbeFail(r, class)
             \/ Select(r) \/ NextPass(r) \/ Exhaust(r) \/ ClientLeaves(r)
             \/ \E p \in Plans[r] : Begin(r, p)
      PROVE gate' = gate
  BY <1>4 DEF StopForClient, SkipUnavailable, SkipCooled, SkipUnfit, RejectUnfit,
     RejectMalformed, FailEndpoint, Send, SendError, HttpError, RefreshDone, RefreshFailed,
     StreamHeaders, BodyArrives, ProbeFail, Select, NextPass, Exhaust, ClientLeaves, Begin, shared
<1>5. ASSUME \/ Tick
             \/ \E t \in Targets : AdminRelease(TargetName[t])
             \/ \E seconds \in Settings : SaveSetting(seconds)
             \/ UNCHANGED vars
      PROVE  gate' = gate
  BY <1>5 DEF Tick, AdminRelease, SaveSetting, vars, shared
<1> QED
  BY <1>1, <1>2, <1>3, <1>4, <1>5 DEF Next, Decide

GateInv == IsFiniteSet(gate) /\ GateSlots

\* The gate on buffered bodies is never over its size and no slot outlives the
\* body it was taken for, whichever way the request fails.
THEOREM GateIsSound == Spec => []GateSlots
<1>1. Init => GateInv
  BY FS_EmptySet, ChainAssumption DEF Init, GateInv, GateSlots
<1>2. TypeInv /\ GateInv /\ [Next]_vars => GateInv'
  <2> SUFFICES ASSUME TypeInv, GateInv, [Next]_vars PROVE GateInv'
    OBVIOUS
  <2>1. Cardinality(gate) \in Nat /\ GateSize \in Nat
    BY FS_CardinalityType, ChainAssumption DEF GateInv
  <2>2. \A r \in gate : Buffered(r)
    BY DEF GateInv, GateSlots, Buffered
  <2>3. CASE gate' = gate
    BY <2>2, <2>3, SlotKept DEF GateInv, GateSlots, Buffered
  <2>4. ASSUME NEW r \in Requests, gate' = gate \ {r} PROVE GateInv'
    <3>1. IsFiniteSet(gate \ {r}) /\ Cardinality(gate \ {r}) <= Cardinality(gate)
      BY <2>1, FS_RemoveElement DEF GateInv
    <3>2. Cardinality(gate') <= GateSize /\ IsFiniteSet(gate')
      BY <2>1, <2>4, <3>1, FS_CardinalityType DEF GateInv, GateSlots
    <3>3. \A q \in gate' : Buffered(q)'
      BY <2>2, <2>4, SlotKept
    <3> QED
      BY <3>2, <3>3 DEF GateInv, GateSlots, Buffered
  <2>5. ASSUME NEW r \in Requests, ~GateFull, gate' = gate \cup {r}, Buffered(r)'
        PROVE  GateInv'
    <3>1. IsFiniteSet(gate \cup {r}) /\ Cardinality(gate \cup {r}) <= Cardinality(gate) + 1
      <4>1. /\ IsFiniteSet(gate \cup {r})
            /\ \/ Cardinality(gate \cup {r}) = Cardinality(gate)
               \/ Cardinality(gate \cup {r}) = Cardinality(gate) + 1
        BY FS_AddElement DEF GateInv
      <4> QED
        BY <2>1, <4>1
    <3>2. Cardinality(gate') <= GateSize /\ IsFiniteSet(gate')
      BY <2>1, <2>5, <3>1, FS_CardinalityType DEF GateFull
    <3>3. \A q \in gate' : Buffered(q)'
      BY <2>2, <2>5, SlotKept
    <3> QED
      BY <3>2, <3>3 DEF GateInv, GateSlots, Buffered
  <2> QED
    BY <2>3, <2>4, <2>5, GateStep
<1>3. GateInv => GateSlots
  BY DEF GateInv
<1> QED
  BY <1>1, <1>2, <1>3, TypeInvariance, PTL DEF Spec
=============================================================================
