-------------------------- MODULE ProxyChainProofs --------------------------
(***************************************************************************)
(* What holds of the candidate loop for any number of requests, targets    *)
(* and providers, any chains and any setting.  The type invariant needs    *)
(* Located: while a target is being called the loop counter is inside the  *)
(* chain, and a target that is relayed has been selected.                  *)
(***************************************************************************)
EXTENDS ProxyChain, SequenceTheorems, FiniteSetTheorems, TLAPS

\* The phases in which the handler works on the candidate at hand.
Calling == {"sent", "refreshing", "preflight", "probe"}

Located ==
  \A r \in Requests :
    /\ phase[r] \in Calling => pos[r] <= Len(plan[r].chain)
    /\ phase[r] \in {"refreshing", "relay"} => attempts[r] # << >>
    /\ phase[r] = "relay" => serving[r] # NoTarget
    /\ serving[r] # NoTarget => phase[r] \in {"relay", "finish"}

TypeInv == TypeOK /\ Located

-----------------------------------------------------------------------------
(* The data of a candidate.                                                *)

LEMMA RoutesArePlans == Routes \subseteq Plan /\ AnyPlan \in Routes
  BY PlansAssumption DEF Routes, AnyPlan

LEMMA CandidateType ==
  ASSUME TypeOK, NEW r \in Requests, pos[r] <= Len(plan[r].chain)
  PROVE  Current(r) \in Targets /\ Fit(r) \in Fits
<1>1. plan[r] \in Plan
  BY RoutesArePlans DEF TypeOK
<1>2. plan[r].chain \in Seq(Targets) /\ plan[r].fit \in [Targets -> Fits]
  BY <1>1 DEF Plan
<1>3. pos[r] \in 1..Len(plan[r].chain)
  BY <1>2 DEF TypeOK
<1>4. Current(r) \in Targets
  BY <1>2, <1>3, ElementOfSeq DEF Current
<1> QED
  BY <1>2, <1>4 DEF Fit

-----------------------------------------------------------------------------
(* What the helpers write is well typed.                                   *)

\* A recorded attempt is appended to the attempts of its request only.
LEMMA RecordType ==
  ASSUME TypeOK, NEW r \in Requests, Current(r) \in Targets,
         NEW result \in {"skipped", "failed", "success"}, NEW class \in Classes,
         NEW clientGone \in BOOLEAN, Record(r, result, class, clientGone)
  PROVE  /\ attempts' \in [Requests -> Seq(Attempt)]
         /\ attempts'[r] # << >>
         /\ Len(attempts'[r]) = Len(attempts[r]) + 1
         /\ \A q \in Requests \ {r} : attempts'[q] = attempts[q]
<1> DEFINE a == [target |-> Current(r), result |-> result, class |-> class,
                 recovered |-> FALSE, clientGone |-> clientGone]
<1>1. a \in Attempt
  BY DEF Attempt
<1>2. attempts[r] \in Seq(Attempt)
  BY DEF TypeOK
<1>3. /\ Append(attempts[r], a) \in Seq(Attempt)
      /\ Append(attempts[r], a) # << >>
      /\ Len(Append(attempts[r], a)) = Len(attempts[r]) + 1
  BY <1>1, <1>2, AppendProperties
<1>4. attempts' = [attempts EXCEPT ![r] = Append(attempts[r], a)]
  BY DEF Record
<1> HIDE DEF a
<1> QED
  BY <1>3, <1>4 DEF TypeOK

\* An answer is appended to the answers of its request only.
LEMMA AnswerType ==
  ASSUME TypeOK, NEW r \in Requests, NEW answer \in Answers, Answer(r, answer)
  PROVE  /\ answers' \in [Requests -> Seq(Answers)]
         /\ Len(answers'[r]) = Len(answers[r]) + 1
         /\ \A q \in Requests \ {r} : answers'[q] = answers[q]
<1>1. answers[r] \in Seq(Answers)
  BY DEF TypeOK
<1>2. Append(answers[r], answer) \in Seq(Answers)
      /\ Len(Append(answers[r], answer)) = Len(answers[r]) + 1
  BY <1>1, AppendProperties
<1> QED
  BY <1>2 DEF Answer, TypeOK

LEMMA TerminalErrorType ==
  ASSUME TypeOK, NEW r \in Requests, NEW class \in Classes,
         TerminalError(r, class) \/ InferenceError(r, class)
  PROVE  /\ answers' \in [Requests -> Seq(Answers)]
         /\ error' \in [Requests -> Classes]
         /\ Len(answers'[r]) = Len(answers[r]) + 1
         /\ \A q \in Requests \ {r} : answers'[q] = answers[q]
<1>1. PICK answer \in Answers : Answer(r, answer)
  BY DEF TerminalError, InferenceError, Answer, Answers
<1>2. error' \in [Requests -> Classes]
  BY DEF TerminalError, InferenceError, TypeOK
<1> QED
  BY <1>1, <1>2, AnswerType

\* A window that opens is well typed, whatever it replaces.
LEMMA CoolDownType ==
  ASSUME TypeOK, NEW r \in Requests, Current(r) \in Targets, NEW class,
         NEW whatever \in BOOLEAN, CoolDown(r, class, whatever)
  PROVE  cooldown' \in Store
<1>1. now + cool[r] \in Nat
  <2>1. now \in Nat
    BY ChainAssumption DEF TypeOK
  <2>2. cool[r] \in Settings \cup {0}
    BY DEF TypeOK
  <2>3. Settings \cup {0} \subseteq Nat
    BY ChainAssumption
  <2>4. cool[r] \in Nat
    BY <2>2, <2>3
  <2> QED
    BY <2>1, <2>4
<1>2. NoEntry \in Entry
  BY DEF NoEntry, Entry
<1>3. Prune(cooldown, now) \in Store
  BY <1>2 DEF Prune, Store, TypeOK
<1>4. [until |-> now + cool[r], origin |-> r] \in Entry
  BY <1>1 DEF Entry
<1>5. Open(cooldown, Current(r), now, now + cool[r], r) \in Store
  BY <1>3, <1>4 DEF Open, Store
<1> QED
  BY <1>5 DEF CoolDown, TypeOK

LEMMA LegType ==
  ASSUME TypeOK, NEW t \in Targets, LegStart(t) \/ LegEnd(t)
  PROVE  legs' \in [Targets -> Nat]
<1>1. legs \in [Targets -> Nat]
  BY DEF TypeOK
<1>2. legs[t] + 1 \in Nat /\ (IF legs[t] > 0 THEN legs[t] - 1 ELSE 0) \in Nat
  BY <1>1
<1> QED
  BY <1>1, <1>2 DEF LegStart, LegEnd

LEMMA FlagType ==
  ASSUME TypeOK, NEW r \in Requests, NEW flags \in SUBSET Verdict, Flag(r, flags)
  PROVE  verdict' \in [Requests -> SUBSET Verdict]
  BY DEF Flag, TypeOK

LEMMA GotoType ==
  ASSUME TypeOK, NEW r \in Requests, NEW p \in Phases, Goto(r, p)
  PROVE  phase' \in [Requests -> Phases]
  BY DEF Goto, TypeOK

LEMMA NextCandidateType ==
  ASSUME TypeOK, NEW r \in Requests, NextCandidate(r)
  PROVE  phase' \in [Requests -> Phases] /\ pos' \in [Requests -> Nat \ {0}]
<1>1. phase' \in [Requests -> Phases]
  BY GotoType DEF NextCandidate, Phases
<1>2. pos[r] + 1 \in Nat \ {0}
  BY DEF TypeOK
<1> QED
  BY <1>1, <1>2 DEF NextCandidate, TypeOK

LEMMA ClassForType ==
  ASSUME NEW r, NEW class \in Classes PROVE ClassFor(r, class) \in Classes
  BY DEF ClassFor, Classes

-----------------------------------------------------------------------------
LEMMA InitTypeInv == Init => TypeInv
<1> SUFFICES ASSUME Init PROVE TypeInv
  OBVIOUS
<1>1. now \in 1..MaxTime
  BY ChainAssumption DEF Init
<1>2. cooldown \in Store
  BY DEF Init, NoCooldowns, NoEntry, Store, Entry
<1>3. /\ health \in [Targets -> Outcome]
      /\ legs \in [Targets -> Nat]
  BY DEF Init, Outcome
<1>4. /\ attempts \in [Requests -> Seq(Attempt)]
      /\ answers \in [Requests -> Seq(Answers)]
  BY EmptySeq DEF Init
<1>5. plan \in [Requests -> Routes]
  BY RoutesArePlans DEF Init
<1>6. TypeOK
  BY <1>1, <1>2, <1>3, <1>4, <1>5 DEF Init, TypeOK, Phases, Classes
<1>7. Located
  BY DEF Init, Located, Calling
<1> QED
  BY <1>6, <1>7 DEF TypeInv

\* A candidate that is skipped.
LEMMA SkipTypeInv ==
  ASSUME TypeInv, NEW r \in Requests, AtCandidate(r),
         NEW class \in Classes, Record(r, "skipped", class, FALSE),
         verdict' \in [Requests -> SUBSET Verdict], NextCandidate(r),
         UNCHANGED <<shared, plan, cool, pass, refreshed, client, history>>
  PROVE  TypeInv'
<1> USE DEF TypeInv
<1>1. /\ attempts' \in [Requests -> Seq(Attempt)]
      /\ \A q \in Requests \ {r} : attempts'[q] = attempts[q]
  BY CandidateType, RecordType DEF AtCandidate
<1>2. phase' \in [Requests -> Phases] /\ pos' \in [Requests -> Nat \ {0}]
  BY NextCandidateType
<1>3. TypeOK'
  BY <1>1, <1>2 DEF TypeOK, shared, client, history
<1>4. Located'
  BY <1>1 DEF AtCandidate, TypeOK, Located, Calling, NextCandidate, Goto, shared, client, history
<1> QED
  BY <1>3, <1>4

\* The steps of the loop that do not call the target at hand.
LEMMA LoopTypeInv ==
  ASSUME TypeInv, NEW r \in Requests,
         \/ \E p \in Plans[r] : Begin(r, p)
         \/ StopForClient(r) \/ SkipUnavailable(r) \/ SkipCooled(r) \/ SkipUnfit(r)
         \/ RejectUnfit(r) \/ RejectMalformed(r) \/ FailEndpoint(r) \/ Send(r)
  PROVE  TypeInv'
<1> USE DEF TypeInv
<1>1. ASSUME NEW p \in Plans[r], Begin(r, p) PROVE TypeInv'
  <2>1. p \in Routes
    BY DEF Routes
  <2>2. plan' \in [Requests -> Routes] /\ cool' \in [Requests -> Settings \cup {0}]
    BY <1>1, <2>1 DEF Begin, TypeOK
  <2>3. TypeOK'
    BY <1>1, <2>2 DEF Begin, TypeOK, Goto, Phases, shared, client, history
  <2>4. Located'
    BY <1>1 DEF Begin, TypeOK, Located, Calling, Goto, shared, client, history
  <2> QED
    BY <2>3, <2>4
<1>2. ASSUME AtCandidate(r) PROVE Current(r) \in Targets /\ Fit(r) \in Fits
  BY <1>2, CandidateType DEF AtCandidate
<1>3. ASSUME StopForClient(r) PROVE TypeInv'
  <2>1. ClientFailure \in Classes
    BY DEF ClientFailure, Classes
  <2>2. answers' \in [Requests -> Seq(Answers)] /\ error' \in [Requests -> Classes]
    BY <1>3, <2>1, TerminalErrorType DEF StopForClient
  <2>3. TypeOK'
    BY <1>3, <2>2 DEF StopForClient, TypeOK, Goto, Phases, shared, loop, history
  <2>4. Located'
    BY <1>3 DEF StopForClient, AtCandidate, TypeOK, Located, Calling, Goto, shared, loop, history
  <2> QED
    BY <2>3, <2>4
<1>4. ASSUME SkipUnavailable(r) PROVE TypeInv'
  <2>1. "unavailable" \in Classes /\ {"other"} \in SUBSET Verdict
    BY DEF Classes, SkipClasses, Verdict
  <2> QED
    BY <1>4, <2>1, FlagType, SkipTypeInv DEF SkipUnavailable
<1>5. ASSUME SkipCooled(r) PROVE TypeInv'
  <2>1. "cooldown" \in Classes /\ {"skippedCooled"} \in SUBSET Verdict
    BY DEF Classes, SkipClasses, Verdict
  <2> QED
    BY <1>5, <2>1, FlagType, SkipTypeInv DEF SkipCooled
<1>6. \A fit \in Unfit : SkipClass(fit) \in Classes
  BY DEF Unfit, SkipClass, Classes, SkipClasses
<1>7. ASSUME SkipUnfit(r) PROVE TypeInv'
  <2>1. verdict' \in [Requests -> SUBSET Verdict]
    <3>1. CASE Fit(r) = "untranslatable"
      BY <1>7, <3>1, FlagType DEF SkipUnfit, Verdict
    <3>2. CASE Fit(r) = "free_model_requires_keyless"
      BY <1>7, <3>2, FlagType DEF SkipUnfit, Verdict
    <3>3. CASE Fit(r) = "protocol_unavailable"
      BY <1>7, <3>3, FlagType DEF SkipUnfit, Verdict
    <3>4. CASE Fit(r) = "min_output"
      BY <1>7, <3>4 DEF SkipUnfit, TypeOK
    <3> QED
      BY <1>7, <3>1, <3>2, <3>3, <3>4 DEF SkipUnfit, Unfit
  <2> QED
    BY <1>6, <1>7, <2>1, SkipTypeInv DEF SkipUnfit, Eligible
<1>8. ASSUME RejectUnfit(r) \/ RejectMalformed(r) PROVE TypeInv'
  <2>1. PICK class \in Classes : InferenceError(r, class)
    BY <1>6, <1>8 DEF RejectUnfit, RejectMalformed, Classes, FinalErrors
  <2>2. answers' \in [Requests -> Seq(Answers)] /\ error' \in [Requests -> Classes]
    BY <2>1, TerminalErrorType
  <2>3. TypeOK'
    BY <1>8, <2>2 DEF RejectUnfit, RejectMalformed, TypeOK, Goto, Phases, shared, loop, history
  <2>4. Located'
    BY <1>8 DEF RejectUnfit, RejectMalformed, Eligible, AtCandidate, TypeOK, Located,
                Calling, Goto, shared, loop, history
  <2> QED
    BY <2>3, <2>4
<1>9. ASSUME FailEndpoint(r) PROVE TypeInv'
  <2>1. /\ attempts' \in [Requests -> Seq(Attempt)]
        /\ \A q \in Requests \ {r} : attempts'[q] = attempts[q]
    BY <1>2, <1>9, RecordType DEF FailEndpoint, Eligible, Classes
  <2>2. Current(r) \in Targets
    BY <1>2, <1>9 DEF FailEndpoint, Eligible
  <2>3. verdict' \in [Requests -> SUBSET Verdict] /\ blame' \in [Requests -> SUBSET Targets]
    BY <1>9, <2>2 DEF FailEndpoint, Flag, Verdict, TypeOK
  <2>4. NextCandidate(r) /\ UNCHANGED <<shared, plan, cool, pass, refreshed, client, starved>>
    BY <1>9 DEF FailEndpoint
  <2>5. TypeOK'
    BY <2>1, <2>3, <2>4 DEF TypeOK, Goto, NextCandidate, Phases, shared, client
  <2>6. Located'
    BY <1>9, <2>1 DEF FailEndpoint, Eligible, AtCandidate, TypeOK, Located, Calling,
                      NextCandidate, Goto, shared, client
  <2> QED
    BY <2>5, <2>6
<1>10. ASSUME Send(r) PROVE TypeInv'
  <2>1. legs' \in [Targets -> Nat]
    BY <1>2, <1>10, LegType DEF Send, Eligible
  <2>2. TypeOK'
    BY <1>10, <2>1 DEF Send, TypeOK, Goto, Phases, loop, client, history
  <2>3. Located'
    BY <1>10 DEF Send, Eligible, AtCandidate, TypeOK, Located, Calling, Goto, loop, client
  <2> QED
    BY <2>2, <2>3
<1> QED
  BY <1>1, <1>3, <1>4, <1>5, <1>7, <1>8, <1>9, <1>10

LEMMA CalledTargetType ==
  ASSUME TypeInv, NEW r \in Requests, phase[r] \in Calling
  PROVE  Current(r) \in Targets
  BY CandidateType DEF TypeInv, Located

\* What ends the call of a target moves on to the next candidate, or answers
\* the request and leaves the chain.
MoveOnOrAnswer(r) ==
  \/ NextCandidate(r) /\ UNCHANGED <<answers, error>>
  \/ \E class \in Classes : TerminalError(r, class) /\ Goto(r, "finish") /\ UNCHANGED pos

LEMMA MoveOnOrAnswerType ==
  ASSUME TypeInv, NEW r \in Requests, phase[r] \in Calling, MoveOnOrAnswer(r),
         \A q \in Requests \ {r} : attempts'[q] = attempts[q],
         UNCHANGED <<plan, serving>>
  PROVE  /\ phase' \in [Requests -> Phases]
         /\ pos' \in [Requests -> Nat \ {0}]
         /\ answers' \in [Requests -> Seq(Answers)]
         /\ error' \in [Requests -> Classes]
         /\ Located'
<1> USE DEF TypeInv
<1>1. CASE NextCandidate(r) /\ UNCHANGED <<answers, error>>
  BY <1>1 DEF NextCandidate, Goto, TypeOK, Phases, Located, Calling
<1>2. ASSUME NEW class \in Classes, TerminalError(r, class), Goto(r, "finish"), UNCHANGED pos
      PROVE  /\ phase' \in [Requests -> Phases]
             /\ pos' \in [Requests -> Nat \ {0}]
             /\ answers' \in [Requests -> Seq(Answers)]
             /\ error' \in [Requests -> Classes]
             /\ Located'
  <2>1. answers' \in [Requests -> Seq(Answers)] /\ error' \in [Requests -> Classes]
    BY <1>2, TerminalErrorType
  <2> QED
    BY <1>2, <2>1 DEF Goto, TypeOK, Phases, Located, Calling
<1> QED
  BY <1>1, <1>2 DEF MoveOnOrAnswer

\* A step that ends the call of a target keeps the invariant when what it
\* writes to the variables below is well typed.
LEMMA CallEndsTypeInv ==
  ASSUME TypeInv, NEW r \in Requests, phase[r] \in Calling, MoveOnOrAnswer(r),
         attempts' \in [Requests -> Seq(Attempt)],
         \A q \in Requests \ {r} : attempts'[q] = attempts[q],
         cooldown' \in Store, legs' \in [Targets -> Nat], gate' \subseteq Requests,
         verdict' \in [Requests -> SUBSET Verdict],
         blame' \in [Requests -> SUBSET Targets], starved' \subseteq Requests,
         UNCHANGED <<now, setting, health, plan, cool, pass, refreshed, gone,
                     committed, streaming, serving>>
  PROVE  TypeInv'
<1>1. /\ phase' \in [Requests -> Phases]
      /\ pos' \in [Requests -> Nat \ {0}]
      /\ answers' \in [Requests -> Seq(Answers)]
      /\ error' \in [Requests -> Classes]
      /\ Located'
  BY MoveOnOrAnswerType
<1>2. TypeOK'
  BY <1>1 DEF TypeInv, TypeOK
<1> QED
  BY <1>1, <1>2 DEF TypeInv

LEMMA BlameType ==
  ASSUME TypeOK, NEW r \in Requests, NEW t \in Targets,
         \/ blame' = [blame EXCEPT ![r] = IF gone[r] THEN @ ELSE @ \cup {t}]
         \/ blame' = [blame EXCEPT ![r] = @ \cup {t}]
         \/ UNCHANGED blame
  PROVE  blame' \in [Requests -> SUBSET Targets]
  BY DEF TypeOK

\* A settled non-2xx reply.
LEMMA SettleType ==
  ASSUME TypeInv, NEW r \in Requests, phase[r] \in Calling,
         NEW class \in Classes, SettleHttpFailure(r, class)
  PROVE  /\ MoveOnOrAnswer(r)
         /\ cooldown' \in Store
         /\ blame' \in [Requests -> SUBSET Targets]
<1>1. Current(r) \in Targets
  BY CalledTargetType
<1>2. cooldown' \in Store
  BY <1>1, CoolDownType DEF TypeInv, SettleHttpFailure
<1>3. blame' \in [Requests -> SUBSET Targets]
  BY <1>1, BlameType DEF TypeInv, SettleHttpFailure
<1>4. MoveOnOrAnswer(r)
  BY DEF SettleHttpFailure, MoveOnOrAnswer
<1> QED
  BY <1>2, <1>3, <1>4

\* A failure before the whole body has arrived.
LEMMA PreflightFailTypeInv ==
  ASSUME TypeInv, NEW r \in Requests, phase[r] \in Calling, NEW class \in Classes,
         PreflightFail(r, class), blame' \in [Requests -> SUBSET Targets],
         starved' \subseteq Requests
  PROVE  TypeInv'
<1> USE DEF TypeInv
<1>1. Current(r) \in Targets
  BY CalledTargetType
<1>2. /\ attempts' \in [Requests -> Seq(Attempt)]
      /\ \A q \in Requests \ {r} : attempts'[q] = attempts[q]
  <2>1. gone[r] \in BOOLEAN
    BY DEF TypeOK
  <2> QED
    BY <1>1, <2>1, RecordType DEF PreflightFail
<1>3. cooldown' \in Store
  BY <1>1, CoolDownType DEF PreflightFail
<1>4. legs' \in [Targets -> Nat]
  BY <1>1, LegType DEF PreflightFail
<1>5. verdict' \in [Requests -> SUBSET Verdict]
  BY DEF PreflightFail, TypeOK, Verdict
<1>6. gate' \subseteq Requests
  BY DEF PreflightFail, TypeOK
<1>7. MoveOnOrAnswer(r)
  BY DEF PreflightFail, MoveOnOrAnswer
<1> QED
  BY <1>2, <1>3, <1>4, <1>5, <1>6, <1>7, CallEndsTypeInv DEF PreflightFail

\* The steps between the upstream call and the selection of its target.
LEMMA CallTypeInv ==
  ASSUME TypeInv, NEW r \in Requests,
         \/ SendError(r) \/ \E class \in HttpReplies : HttpError(r, class)
         \/ RefreshDone(r) \/ RefreshFailed(r)
         \/ StreamHeaders(r) \/ BodyHeaders(r)
         \/ NoBufferSlot(r) \/ BodyTooLarge(r) \/ BodyBreaks(r) \/ BodyArrives(r)
         \/ \E class \in ProbeFailures : ProbeFail(r, class)
         \/ Select(r)
  PROVE  TypeInv'
<1> USE DEF TypeInv
<1>0. /\ {"other"} \in SUBSET Verdict
      /\ TargetFailures \subseteq Classes /\ HttpReplies \subseteq Classes
      /\ TooLarge \in Classes /\ ClientFailure \in Classes /\ "none" \in Classes
      /\ ProbeFailures \subseteq Classes /\ {"loop", "preflight", "probe", "relay"} \subseteq Phases
      /\ "upstream_unreachable" \in Classes /\ "upstream_read_error" \in Classes
      /\ "http_401" \in Classes
  BY RepliesAssumption DEF Verdict, Classes, TargetFailures, HttpClasses, TooLarge,
     ClientFailure, ProbeFailures, Phases
<1>1. ASSUME phase[r] \in Calling PROVE Current(r) \in Targets
  BY <1>1, CalledTargetType
<1>2. ASSUME SendError(r) PROVE TypeInv'
  <2>1. phase[r] \in Calling
    BY <1>2 DEF SendError, Calling
  <2> DEFINE class == ClassFor(r, "upstream_unreachable")
  <2>2. class \in Classes
    BY <1>0, ClassForType
  <2>3. MoveOnOrAnswer(r)
    BY <1>2, <2>2 DEF SendError, MoveOnOrAnswer
  <2> HIDE DEF class
  <2>4. /\ attempts' \in [Requests -> Seq(Attempt)]
        /\ \A q \in Requests \ {r} : attempts'[q] = attempts[q]
    BY <1>1, <1>2, <2>1, <2>2, RecordType DEF SendError, class
  <2>5. cooldown' \in Store /\ legs' \in [Targets -> Nat]
    BY <1>1, <1>2, <2>1, CoolDownType, LegType DEF SendError
  <2>6. verdict' \in [Requests -> SUBSET Verdict] /\ blame' \in [Requests -> SUBSET Targets]
    BY <1>0, <1>1, <1>2, <2>1, FlagType, BlameType DEF SendError
  <2>7. gate' \subseteq Requests /\ starved' \subseteq Requests
    BY <1>2 DEF SendError, TypeOK
  <2> QED
    BY <1>2, <2>1, <2>3, <2>4, <2>5, <2>6, <2>7, CallEndsTypeInv DEF SendError
<1>3. ASSUME NEW class \in HttpReplies, HttpError(r, class) PROVE TypeInv'
  <2>1. phase[r] \in Calling /\ class \in Classes
    BY <1>0, <1>3 DEF HttpError, Calling
  <2>2. /\ attempts' \in [Requests -> Seq(Attempt)]
        /\ attempts'[r] # << >>
        /\ \A q \in Requests \ {r} : attempts'[q] = attempts[q]
    BY <1>1, <1>3, <2>1, RecordType DEF HttpError
  <2>3. legs' \in [Targets -> Nat]
    BY <1>1, <1>3, <2>1, LegType DEF HttpError
  <2>4. verdict' \in [Requests -> SUBSET Verdict]
    BY <1>0, <1>3, FlagType DEF HttpError
  <2>5. CASE Repairable(r, class)
    <3>1. Goto(r, "refreshing") /\ UNCHANGED <<cooldown, pos, answers, error, blame>>
      BY <1>3, <2>5 DEF HttpError
    <3>2. TypeOK'
      BY <1>3, <2>2, <2>3, <2>4, <3>1 DEF HttpError, Goto, Phases, TypeOK
    <3>3. Located'
      BY <1>3, <2>1, <2>2, <3>1 DEF HttpError, Goto, TypeOK, Located, Calling
    <3> QED
      BY <3>2, <3>3
  <2>6. CASE ~Repairable(r, class)
    <3>1. SettleHttpFailure(r, class)
      BY <1>3, <2>6 DEF HttpError
    <3>2. gate' \subseteq Requests /\ starved' \subseteq Requests
      BY <1>3 DEF HttpError, TypeOK
    <3> QED
      BY <1>3, <2>1, <2>2, <2>3, <2>4, <3>1, <3>2, SettleType, CallEndsTypeInv DEF HttpError
  <2> QED
    BY <2>5, <2>6
<1>4. ASSUME RefreshDone(r) PROVE TypeInv'
  <2>1. Current(r) \in Targets /\ attempts[r] # << >> /\ attempts[r] \in Seq(Attempt)
    BY <1>1, <1>4 DEF RefreshDone, Calling, Located, TypeOK
  <2>2. refreshed' \in [Requests -> SUBSET Providers]
    BY <1>4, <2>1, ChainAssumption DEF RefreshDone, TypeOK
  <2>3. /\ attempts' \in [Requests -> Seq(Attempt)]
        /\ \A q \in Requests \ {r} : attempts'[q] = attempts[q]
    <3> DEFINE n == Len(attempts[r])
               a == [attempts[r][n] EXCEPT !.recovered = TRUE]
    <3>1. n \in 1..Len(attempts[r])
      BY <2>1, EmptySeq, LenProperties
    <3>2. a \in Attempt
      <4>1. attempts[r][n] \in Attempt
        BY <2>1, <3>1, ElementOfSeq
      <4> QED
        BY <4>1 DEF Attempt
    <3>3. attempts' = [attempts EXCEPT ![r] = [attempts[r] EXCEPT ![n] = a]]
      BY <1>4 DEF RefreshDone
    <3> HIDE DEF n, a
    <3>4. [attempts[r] EXCEPT ![n] = a] \in Seq(Attempt)
      BY <2>1, <3>1, <3>2, ExceptSeq
    <3> QED
      BY <3>3, <3>4 DEF TypeOK
  <2>4. TypeOK'
    BY <1>4, <2>2, <2>3 DEF RefreshDone, Goto, Phases, TypeOK, shared, client, history
  <2>5. Located'
    BY <1>4, <2>3 DEF RefreshDone, Goto, TypeOK, Located, Calling, client
  <2> QED
    BY <2>4, <2>5
<1>5. ASSUME RefreshFailed(r) PROVE TypeInv'
  <2>1. phase[r] \in Calling
    BY <1>5 DEF RefreshFailed, Calling
  <2>2. SettleHttpFailure(r, "http_401")
    BY <1>5 DEF RefreshFailed
  <2>3. /\ attempts' \in [Requests -> Seq(Attempt)]
        /\ \A q \in Requests \ {r} : attempts'[q] = attempts[q]
        /\ legs' \in [Targets -> Nat] /\ gate' \subseteq Requests
        /\ verdict' \in [Requests -> SUBSET Verdict] /\ starved' \subseteq Requests
    BY <1>5 DEF RefreshFailed, TypeOK
  <2> QED
    BY <1>0, <1>5, <2>1, <2>2, <2>3, SettleType, CallEndsTypeInv DEF RefreshFailed
<1>6. ASSUME StreamHeaders(r) PROVE TypeInv'
  <2>1. streaming' \in [Requests -> BOOLEAN] /\ committed' \in [Requests -> BOOLEAN]
    BY <1>6 DEF StreamHeaders, TypeOK
  <2>2. TypeOK'
    BY <1>6, <2>1 DEF StreamHeaders, Goto, Phases, TypeOK, shared, loop, history
  <2>3. Located'
    BY <1>6 DEF StreamHeaders, Goto, TypeOK, Located, Calling, loop
  <2> QED
    BY <2>2, <2>3
<1>7. ASSUME BodyHeaders(r) PROVE TypeInv'
  <2>1. streaming' \in [Requests -> BOOLEAN] /\ gate' \subseteq Requests
    BY <1>7 DEF BodyHeaders, TypeOK
  <2>2. TypeOK'
    BY <1>7, <2>1 DEF BodyHeaders, Goto, Phases, TypeOK, loop, history
  <2>3. Located'
    BY <1>7 DEF BodyHeaders, Goto, TypeOK, Located, Calling, loop
  <2> QED
    BY <2>2, <2>3
<1>8. ASSUME NoBufferSlot(r) PROVE TypeInv'
  <2>1. phase[r] \in Calling
    BY <1>8 DEF NoBufferSlot, Calling
  <2>2. starved' \subseteq Requests /\ blame' \in [Requests -> SUBSET Targets]
    BY <1>8 DEF NoBufferSlot, TypeOK
  <2> QED
    BY <1>0, <1>8, <2>1, <2>2, PreflightFailTypeInv DEF NoBufferSlot
<1>9. ASSUME BodyTooLarge(r) PROVE TypeInv'
  <2>1. phase[r] \in Calling
    BY <1>9 DEF BodyTooLarge, Calling
  <2>2. starved' \subseteq Requests /\ blame' \in [Requests -> SUBSET Targets]
    BY <1>1, <1>9, <2>1, BlameType DEF BodyTooLarge, TypeOK
  <2> QED
    BY <1>0, <1>9, <2>1, <2>2, PreflightFailTypeInv DEF BodyTooLarge
<1>10. ASSUME BodyBreaks(r) PROVE TypeInv'
  <2>1. phase[r] \in Calling
    BY <1>10 DEF BodyBreaks, Calling
  <2>2. starved' \subseteq Requests /\ blame' \in [Requests -> SUBSET Targets]
    BY <1>1, <1>10, <2>1, BlameType DEF BodyBreaks, TypeOK
  <2>3. ClassFor(r, "upstream_read_error") \in Classes
    BY <1>0, ClassForType
  <2> QED
    BY <1>10, <2>1, <2>2, <2>3, PreflightFailTypeInv DEF BodyBreaks
<1>11. ASSUME BodyArrives(r) PROVE TypeInv'
  <2>1. TypeOK'
    BY <1>11 DEF BodyArrives, Goto, Phases, TypeOK, shared, loop, client, history
  <2>2. Located'
    BY <1>11 DEF BodyArrives, Goto, TypeOK, Located, Calling, loop, client
  <2> QED
    BY <2>1, <2>2
<1>12. ASSUME NEW class \in ProbeFailures, ProbeFail(r, class) PROVE TypeInv'
  <2>1. phase[r] \in Calling
    BY <1>12 DEF ProbeFail, Calling
  <2> DEFINE told == IF class = "upstream_read_error" THEN ClassFor(r, class) ELSE class
  <2>2. told \in Classes /\ gone[r] \in BOOLEAN
    BY <1>0, ClassForType DEF TypeOK
  <2>3. /\ attempts' \in [Requests -> Seq(Attempt)]
        /\ \A q \in Requests \ {r} : attempts'[q] = attempts[q]
    <3>1. Record(r, "failed", told, gone[r])
      BY <1>12 DEF ProbeFail
    <3> HIDE DEF told
    <3> QED
      BY <1>1, <2>1, <2>2, <3>1, RecordType
  <2> HIDE DEF told
  <2>4. MoveOnOrAnswer(r)
    BY <1>0, <1>12 DEF ProbeFail, MoveOnOrAnswer
  <2>5. cooldown' \in Store /\ legs' \in [Targets -> Nat]
    BY <1>1, <1>12, <2>1, CoolDownType, LegType DEF ProbeFail
  <2>6. verdict' \in [Requests -> SUBSET Verdict] /\ blame' \in [Requests -> SUBSET Targets]
    BY <1>0, <1>1, <1>12, <2>1, FlagType, BlameType DEF ProbeFail
  <2>7. gate' \subseteq Requests /\ starved' \subseteq Requests
    BY <1>12 DEF ProbeFail, TypeOK
  <2> QED
    BY <1>12, <2>1, <2>3, <2>4, <2>5, <2>6, <2>7, CallEndsTypeInv DEF ProbeFail
<1>13. ASSUME Select(r) PROVE TypeInv'
  <2>1. Current(r) \in Targets
    BY <1>1, <1>13 DEF Select, Calling
  <2>2. /\ attempts' \in [Requests -> Seq(Attempt)]
        /\ attempts'[r] # << >>
        /\ \A q \in Requests \ {r} : attempts'[q] = attempts[q]
    BY <1>0, <1>13, <2>1, RecordType DEF Select
  <2>3. /\ serving' \in [Requests -> Targets \cup {NoTarget}]
        /\ committed' \in [Requests -> BOOLEAN]
    BY <1>13, <2>1 DEF Select, TypeOK
  <2>4. TypeOK'
    BY <1>13, <2>2, <2>3 DEF Select, Goto, Phases, TypeOK, shared, history
  <2>5. Located'
    BY <1>13, <2>1, <2>2, ChainAssumption DEF Select, Goto, TypeOK, Located, Calling
  <2> QED
    BY <2>4, <2>5
<1> QED
  BY <1>2, <1>3, <1>4, <1>5, <1>6, <1>7, <1>8, <1>9, <1>10, <1>11, <1>12, <1>13

-----------------------------------------------------------------------------
\* The relay of a selected target ends.
LEMMA RelayEndsTypeInv ==
  ASSUME TypeInv, NEW r \in Requests, phase[r] = "relay",
         NEW answer \in Answers, RelayEnds(r, answer)
  PROVE  TypeInv'
<1> USE DEF TypeInv
<1>1. answers' \in [Requests -> Seq(Answers)]
  BY AnswerType DEF RelayEnds
<1>2. cooldown' \in Store
  <2>1. NoEntry \in Entry
    BY DEF NoEntry, Entry
  <2> QED
    BY <2>1 DEF RelayEnds, ClearSelected, Remove, Store, TypeOK
<1>3. TypeOK'
  BY <1>1, <1>2 DEF RelayEnds, Goto, Phases, TypeOK, loop, history
<1>4. Located'
  BY DEF RelayEnds, Goto, TypeOK, Located, Calling, loop
<1> QED
  BY <1>3, <1>4

\* The relay of a selected target fails, and its last attempt with it.
LEMMA RelayBreaksTypeInv ==
  ASSUME TypeInv, NEW r \in Requests, phase[r] = "relay",
         NEW class \in Classes, RelayBreaks(r, class),
         answers' \in [Requests -> Seq(Answers)],
         blame' \in [Requests -> SUBSET Targets], starved' \subseteq Requests
  PROVE  /\ TypeInv'
         /\ Len(attempts'[r]) = Len(attempts[r])
<1> USE DEF TypeInv
<1>1. /\ attempts' \in [Requests -> Seq(Attempt)]
      /\ Len(attempts'[r]) = Len(attempts[r])
      /\ \A q \in Requests \ {r} : attempts'[q] = attempts[q]
  <2> DEFINE n == Len(attempts[r])
             a == [attempts[r][n] EXCEPT !.result = "failed", !.class = ClassFor(r, class)]
  <2>1. attempts[r] \in Seq(Attempt) /\ attempts[r] # << >>
    BY DEF TypeOK, Located
  <2>2. n \in 1..Len(attempts[r])
    BY <2>1, EmptySeq, LenProperties
  <2>3. a \in Attempt
    <3>1. attempts[r][n] \in Attempt
      BY <2>1, <2>2, ElementOfSeq
    <3> QED
      BY <3>1, ClassForType DEF Attempt
  <2>4. attempts' = [attempts EXCEPT ![r] = [attempts[r] EXCEPT ![n] = a]]
    BY DEF RelayBreaks
  <2> HIDE DEF n, a
  <2>5. /\ [attempts[r] EXCEPT ![n] = a] \in Seq(Attempt)
        /\ Len([attempts[r] EXCEPT ![n] = a]) = Len(attempts[r])
    BY <2>1, <2>2, <2>3, ExceptSeq
  <2> QED
    BY <2>4, <2>5 DEF TypeOK
<1>2. error' \in [Requests -> Classes]
  BY ClassForType DEF RelayBreaks, TypeOK
<1>3. TypeOK'
  BY <1>1, <1>2 DEF RelayBreaks, Goto, Phases, TypeOK, shared
<1>4. Located'
  BY <1>1 DEF RelayBreaks, Goto, TypeOK, Located, Calling
<1> QED
  BY <1>1, <1>3, <1>4

LEMMA RelayTypeInv ==
  ASSUME TypeInv, NEW r \in Requests, Relay(r)
  PROVE  TypeInv'
<1> USE DEF TypeInv
<1>1. /\ {"sse_end", "json_ok", "sse_error", "json_error"} \subseteq Answers
      /\ {"upstream_read_error", "translation_error"} \subseteq Classes
  BY DEF Answers, Classes, TargetFailures, FinalErrors
<1>2. serving[r] \in Targets \cup {NoTarget} /\ (phase[r] = "relay" => serving[r] \in Targets)
  BY DEF TypeOK, Located
<1>3. ASSUME phase[r] = "relay", Blame(r)
      PROVE  blame' \in [Requests -> SUBSET Targets] /\ starved' \subseteq Requests
  BY <1>2, <1>3, BlameType DEF Blame, TypeOK
<1>4. CASE StreamEnds(r)
  BY <1>1, <1>4, RelayEndsTypeInv DEF StreamEnds
<1>5. CASE AggregateEnds(r)
  BY <1>1, <1>5, RelayEndsTypeInv DEF AggregateEnds
<1>6. CASE BodyRelayed(r)
  <2>1. PICK answer \in Answers : RelayEnds(r, answer)
    BY <1>1, <1>6 DEF BodyRelayed
  <2> QED
    BY <1>6, <2>1, RelayEndsTypeInv DEF BodyRelayed
<1>7. CASE StreamBreaks(r)
  <2>1. answers' \in [Requests -> Seq(Answers)]
    BY <1>1, <1>7, AnswerType DEF StreamBreaks
  <2> QED
    BY <1>1, <1>3, <1>7, <2>1, RelayBreaksTypeInv DEF StreamBreaks
<1>8. CASE AggregateBreaks(r)
  <2>1. answers' \in [Requests -> Seq(Answers)]
    BY <1>1, <1>8, AnswerType DEF AggregateBreaks
  <2> QED
    BY <1>1, <1>3, <1>8, <2>1, RelayBreaksTypeInv DEF AggregateBreaks
<1>9. CASE BodyRefused(r)
  <2>1. answers' \in [Requests -> Seq(Answers)]
    BY <1>1, <1>9, AnswerType DEF BodyRefused
  <2> QED
    BY <1>1, <1>3, <1>9, <2>1, RelayBreaksTypeInv DEF BodyRefused
<1>10. CASE BodyCut(r)
  <2>1. answers' \in [Requests -> Seq(Answers)]
    BY <1>10 DEF BodyCut, TypeOK
  <2>2. blame' \in [Requests -> SUBSET Targets] /\ starved' \subseteq Requests
    <3>1. CASE NeedsSlot(r) /\ GateFull
      BY <1>10, <3>1 DEF BodyCut, TypeOK
    <3>2. CASE ~(NeedsSlot(r) /\ GateFull)
      BY <1>3, <1>10, <3>2 DEF BodyCut
    <3> QED
      BY <3>1, <3>2
  <2> QED
    BY <1>1, <1>10, <2>1, <2>2, RelayBreaksTypeInv DEF BodyCut
<1> QED
  BY <1>4, <1>5, <1>6, <1>7, <1>8, <1>9, <1>10 DEF Relay

-----------------------------------------------------------------------------
\* An exhausted chain always has a cause: the last one needs no condition.
LEMMA ExhaustedClassType ==
  ASSUME NEW r PROVE ExhaustedClass(r) \in Classes
<1> DEFINE Holds(i) == Causes(r)[i][1]
           First(i) == Holds(i) /\ \A j \in 1..(i - 1) : ~Holds(j)
<1>1. \A i \in 1..8 : Causes(r)[i][2] \in Classes
  BY DEF Causes, Classes, TooLarge, FinalErrors, SkipClasses, HttpClasses
<1>2. Holds(8)
  BY DEF Causes
<1> HIDE DEF Holds
<1>3. \E i \in 1..8 : First(i)
  <2> SUFFICES ASSUME \A i \in 1..8 : ~First(i) PROVE FALSE
    OBVIOUS
  <2>1. ~Holds(1)
    OBVIOUS
  <2>2. ~Holds(2)
    BY <2>1
  <2>3. ~Holds(3)
    BY <2>1, <2>2
  <2>4. ~Holds(4)
    BY <2>1, <2>2, <2>3
  <2>5. ~Holds(5)
    BY <2>1, <2>2, <2>3, <2>4
  <2>6. ~Holds(6)
    BY <2>1, <2>2, <2>3, <2>4, <2>5
  <2>7. ~Holds(7)
    BY <2>1, <2>2, <2>3, <2>4, <2>5, <2>6
  <2> QED
    BY <1>2, <2>1, <2>2, <2>3, <2>4, <2>5, <2>6, <2>7
<1>4. (CHOOSE i \in 1..8 : First(i)) \in 1..8
  BY <1>3
<1> QED
  BY <1>1, <1>4 DEF ExhaustedClass, Holds

\* The outcome a request leaves on a target is that of an attempt on it.
LEMMA HealthType ==
  ASSUME TypeInv, NEW r \in Requests, NEW t \in Targets, LastTelling(r, t) # {}
  PROVE  [result |-> attempts[r][CHOOSE i \in LastTelling(r, t) : TRUE].result, by |-> r]
           \in Outcome
<1> DEFINE i == CHOOSE i \in LastTelling(r, t) : TRUE
<1>1. i \in LastTelling(r, t)
  OBVIOUS
<1>2. i \in DOMAIN attempts[r] /\ attempts[r][i].result # "skipped"
  BY <1>1 DEF LastTelling, Telling
<1>3. attempts[r] \in Seq(Attempt)
  BY DEF TypeInv, TypeOK
<1>4. attempts[r][i] \in Attempt
  BY <1>2, <1>3, LenProperties, ElementOfSeq
<1> HIDE DEF i
<1>5. attempts[r][i].result \in {"success", "failed"}
  BY <1>2, <1>4 DEF Attempt
<1> QED
  BY <1>5 DEF Outcome, i

\* The end of the chain and of the request, and a client that leaves.
LEMMA EndTypeInv ==
  ASSUME TypeInv, NEW r \in Requests,
         NextPass(r) \/ Exhaust(r) \/ Finish(r) \/ ClientLeaves(r)
  PROVE  TypeInv'
<1> USE DEF TypeInv
<1>1. CASE NextPass(r)
  <2>1. TypeOK'
    BY <1>1 DEF NextPass, TypeOK, shared, client, history
  <2>2. Located'
    BY <1>1 DEF NextPass, AtEnd, TypeOK, Located, Calling, client
  <2> QED
    BY <2>1, <2>2
<1>2. CASE Exhaust(r)
  <2>1. answers' \in [Requests -> Seq(Answers)] /\ error' \in [Requests -> Classes]
    BY <1>2, ExhaustedClassType, TerminalErrorType DEF Exhaust
  <2>2. TypeOK'
    BY <1>2, <2>1 DEF Exhaust, Goto, Phases, TypeOK, shared, loop, history
  <2>3. Located'
    BY <1>2 DEF Exhaust, AtEnd, Goto, TypeOK, Located, Calling, loop
  <2> QED
    BY <2>2, <2>3
<1>3. CASE Finish(r)
  <2>1. legs' \in [Targets -> Nat]
    <3>1. legs \in [Targets -> Nat]
      BY DEF TypeOK
    <3>2. \A t \in Targets :
            (IF t = serving[r] /\ legs[t] > 0 THEN legs[t] - 1 ELSE legs[t]) \in Nat
      BY <3>1
    <3> QED
      BY <1>3, <3>2 DEF Finish
  <2>2. health' \in [Targets -> Outcome]
    BY <1>3, HealthType DEF Finish, TypeOK
  <2>3. /\ plan' \in [Requests -> Routes] /\ cool' \in [Requests -> Settings \cup {0}]
        /\ pass' \in [Requests -> {0, 1}] /\ pos' \in [Requests -> Nat \ {0}]
        /\ refreshed' \in [Requests -> SUBSET Providers]
        /\ verdict' \in [Requests -> SUBSET Verdict]
    BY <1>3, RoutesArePlans DEF Finish, Forget, TypeOK
  <2>4. attempts' \in [Requests -> Seq(Attempt)] /\ answers' \in [Requests -> Seq(Answers)]
    BY <1>3, EmptySeq DEF Finish, Forget, TypeOK
  <2>5. /\ gone' \in [Requests -> BOOLEAN] /\ committed' \in [Requests -> BOOLEAN]
        /\ streaming' \in [Requests -> BOOLEAN]
        /\ serving' \in [Requests -> Targets \cup {NoTarget}]
        /\ error' \in [Requests -> Classes]
    BY <1>3 DEF Finish, Forget, TypeOK, Classes
  <2>6. gate' \subseteq Requests /\ phase' \in [Requests -> Phases]
    BY <1>3 DEF Finish, Goto, Phases, TypeOK
  <2>7. TypeOK'
    BY <1>3, <2>1, <2>2, <2>3, <2>4, <2>5, <2>6 DEF Finish, TypeOK, history
  <2>8. Located'
    BY <1>3 DEF Finish, Forget, Goto, TypeOK, Located, Calling
  <2> QED
    BY <2>7, <2>8
<1>4. CASE ClientLeaves(r)
  <2>1. TypeOK'
    BY <1>4 DEF ClientLeaves, TypeOK, shared, loop, history
  <2>2. Located'
    BY <1>4 DEF ClientLeaves, TypeOK, Located, Calling, loop
  <2> QED
    BY <2>1, <2>2
<1> QED
  BY <1>1, <1>2, <1>3, <1>4

\* The clock and the administrator touch the shared state only.
LEMMA EnvironmentTypeInv ==
  ASSUME TypeInv,
         \/ Tick
         \/ \E t \in Targets : AdminRelease(TargetName[t])
         \/ \E seconds \in Settings : SaveSetting(seconds)
  PROVE  TypeInv'
<1> USE DEF TypeInv
<1>1. /\ now' \in 1..MaxTime
      /\ setting' \in Settings
  BY ChainAssumption DEF Tick, AdminRelease, SaveSetting, TypeOK
<1>2. cooldown' \in Store
  <2>1. NoEntry \in Entry
    BY DEF NoEntry, Entry
  <2> QED
    BY <2>1 DEF Tick, AdminRelease, SaveSetting, Release, NoCooldowns, Store, TypeOK
<1>3. UNCHANGED <<legs, gate, health, phase, loop, client, history>>
  BY DEF Tick, AdminRelease, SaveSetting
<1>4. TypeOK'
  BY <1>1, <1>2, <1>3 DEF TypeOK, loop, client, history
<1>5. Located'
  BY <1>3 DEF Located, Calling, loop, client
<1> QED
  BY <1>4, <1>5

LEMMA NextTypeInv == TypeInv /\ [Next]_vars => TypeInv'
<1> SUFFICES ASSUME TypeInv, [Next]_vars PROVE TypeInv'
  OBVIOUS
<1>1. ASSUME NEW r \in Requests, \E p \in Plans[r] : Begin(r, p) PROVE TypeInv'
  BY <1>1, LoopTypeInv
<1>2. ASSUME NEW r \in Requests, Decide(r) PROVE TypeInv'
  BY <1>2, LoopTypeInv, CallTypeInv, EndTypeInv DEF Decide
<1>3. ASSUME NEW r \in Requests, Relay(r) PROVE TypeInv'
  BY <1>3, RelayTypeInv
<1>4. ASSUME NEW r \in Requests, Finish(r) \/ ClientLeaves(r) PROVE TypeInv'
  BY <1>4, EndTypeInv
<1>5. CASE UNCHANGED vars
  BY <1>5 DEF TypeInv, TypeOK, Located, Calling, vars, shared, loop, client, history
<1> QED
  BY <1>1, <1>2, <1>3, <1>4, <1>5, EnvironmentTypeInv DEF Next

THEOREM TypeInvariance == Spec => []TypeInv
  BY InitTypeInv, NextTypeInv, PTL DEF Spec

\* Type correctness of the candidate loop: the attempt a refresh or a broken
\* relay rewrites exists, and a called target is one of the chain.
THEOREM TypeCorrect == Spec => []TypeOK
<1>1. TypeInv => TypeOK
  BY DEF TypeInv
<1> QED
  BY <1>1, TypeInvariance, PTL
=============================================================================
