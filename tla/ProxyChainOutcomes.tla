------------------------- MODULE ProxyChainOutcomes -------------------------
(***************************************************************************)
(* What a request has made of its chain by the time it is answered, for    *)
(* any number of concurrent requests: how often it has called, what it may *)
(* tell of its targets, which error it may give, and which legs it leaves  *)
(* lit.  The invariant is Journey, one request at a time: a step of a      *)
(* request leaves the others Untouched, and moves its own request in one   *)
(* of a few ways, whatever the handler's reason to make that move.         *)
(***************************************************************************)
EXTENDS ProxyChainSafety

-----------------------------------------------------------------------------
(* The invariant.                                                          *)

\* The requests whose handler is in the candidate loop.
Walking(r) == phase[r] \in {"loop"} \cup Calling

\* What the deferred calls leave behind, and what a request starts from.
Fresh(r) ==
  /\ phase[r] \in {"idle", "done"} => attempts[r] = << >> /\ error[r] = "none"
  /\ phase[r] = "idle" =>
       /\ pos[r] = 1 /\ pass[r] = 0
       /\ refreshed[r] = {} /\ verdict[r] = {} /\ blame[r] = {}
       /\ r \notin starved /\ ~committed[r]
  /\ phase[r] # "finish" => error[r] = "none"

Last(r) == attempts[r][Len(attempts[r])]

\* The attempt a refresh, or a broken relay, rewrites is that of the target at hand.
LastAttempt(r) ==
  /\ phase[r] = "refreshing" =>
       /\ Last(r).target = Current(r) /\ Last(r).result = "failed"
       /\ Provider[Current(r)] \notin refreshed[r]
  /\ phase[r] = "relay" => Last(r).target = serving[r] /\ Last(r).result = "success"

Before(r) == IF pass[r] = 0 THEN 0 ELSE Len(plan[r].chain)

\* The calls a request has made so far, against the targets it has passed.
Budget(r) ==
  /\ IsFiniteSet(refreshed[r])
  /\ phase[r] = "loop" => pos[r] <= Len(plan[r].chain) + 1
  /\ phase[r] \in {"loop", "sent", "preflight", "probe"} =>
       Calls(r) <= Before(r) + (pos[r] - 1) + Cardinality(refreshed[r])
  /\ phase[r] = "refreshing" =>
       Calls(r) <= Before(r) + pos[r] + Cardinality(refreshed[r])
  /\ phase[r] \in {"relay", "finish"} =>
       Calls(r) <= Before(r) + Len(plan[r].chain) + Cardinality(refreshed[r])

Faulted(r) == blame[r] # {} \/ r \in starved

\* A failure leaves its mark on the flags and on the attempts.  A direct route
\* ends with the failure of its one target.
Marked(r) ==
  /\ Walking(r) =>
       /\ "skippedCooled" \in verdict[r] => Ordered(r)
       /\ Faulted(r) => /\ "other" \in verdict[r]
                        /\ \E i \in DOMAIN attempts[r] : attempts[r][i].result = "failed"
       /\ ~Virtual(r) /\ pos[r] = 1 => ~Faulted(r)
  /\ phase[r] = "refreshing" => "other" \in verdict[r]
  /\ phase[r] = "finish" /\ serving[r] = NoTarget
       /\ error[r] \in {"translation_error", "unsupported_feature"} => ~Faulted(r)

\* The candidates the walk has passed, and in this pass called or left as cooling.
Passed(r) ==
  /\ Walking(r) =>
       \A i \in 1..(pos[r] - 1) :
         plan[r].fit[plan[r].chain[i]] \in Callable =>
           \/ Called(r, plan[r].chain[i])
           \/ pass[r] = 0 /\ "skippedCooled" \in verdict[r]
  /\ phase[r] = "finish" /\ error[r] = "virtual_model_unavailable" =>
       \A i \in DOMAIN plan[r].chain :
         plan[r].fit[plan[r].chain[i]] \in Callable => Called(r, plan[r].chain[i])

\* A failed attempt that will tell on its target: the target is to blame, or the
\* gate was full, or a refresh may still repair it.
Told(r) ==
  \A i \in Telling(r) :
    attempts[r][i].result = "failed" =>
      \/ attempts[r][i].target \in blame[r]
      \/ r \in starved
      \/ phase[r] = "refreshing" /\ i = Len(attempts[r])

Framed(r) ==
  /\ committed[r] => ~plan[r].nonstream
  /\ Walking(r) /\ committed[r] => Ordered(r)

Journey(r) ==
  /\ Fresh(r) /\ LastAttempt(r) /\ Budget(r) /\ Marked(r) /\ Passed(r) /\ Told(r) /\ Framed(r)

-----------------------------------------------------------------------------
(* The requests share the store, the legs, the gate and the health, and     *)
(* nothing else.                                                            *)

Untouched(r) ==
  /\ phase'[r] = phase[r] /\ plan'[r] = plan[r] /\ cool'[r] = cool[r]
  /\ pass'[r] = pass[r] /\ pos'[r] = pos[r] /\ refreshed'[r] = refreshed[r]
  /\ attempts'[r] = attempts[r] /\ verdict'[r] = verdict[r]
  /\ committed'[r] = committed[r] /\ streaming'[r] = streaming[r]
  /\ serving'[r] = serving[r] /\ answers'[r] = answers[r] /\ error'[r] = error[r]
  /\ blame'[r] = blame[r] /\ (r \in starved' <=> r \in starved)

\* A step of a request leaves what the others hold as it was.
LEMMA OthersUntouched ==
  ASSUME TypeInv, NEW q \in Requests, NEW r \in Requests, q # r,
         \/ \E p \in Plans[q] : Begin(q, p)
         \/ Decide(q) \/ Relay(q) \/ Finish(q) \/ ClientLeaves(q)
  PROVE  Untouched(r)
<1> USE DEF TypeInv, TypeOK, Untouched
<1>1. CASE \E p \in Plans[q] : Begin(q, p)
  BY <1>1 DEF Begin, Goto, client, history
<1>2. CASE Finish(q)
  BY <1>2 DEF Finish, Forget, Goto, history
<1>3. CASE ClientLeaves(q)
  BY <1>3 DEF ClientLeaves, loop, history
<1>4. CASE StopForClient(q) \/ RejectUnfit(q) \/ RejectMalformed(q) \/ Exhaust(q)
  BY <1>4 DEF StopForClient, RejectUnfit, RejectMalformed, Exhaust, TerminalError,
     InferenceError, Goto, loop, history
<1>5. CASE SkipUnavailable(q) \/ SkipCooled(q) \/ FailEndpoint(q)
  BY <1>5 DEF SkipUnavailable, SkipCooled, FailEndpoint, Record, Flag, NextCandidate, Goto,
     client, history
<1>6. CASE SkipUnfit(q)
  <2>1. verdict'[r] = verdict[r]
    BY <1>6 DEF SkipUnfit, Flag, Unfit
  <2> QED
    BY <1>6, <2>1 DEF SkipUnfit, Record, NextCandidate, Goto, client, history
<1>7. CASE Send(q) \/ StreamHeaders(q) \/ BodyHeaders(q) \/ BodyArrives(q) \/ NextPass(q)
  BY <1>7 DEF Send, StreamHeaders, BodyHeaders, BodyArrives, NextPass, Goto, loop, client, history
<1>8. CASE RefreshDone(q) \/ Select(q)
  BY <1>8 DEF RefreshDone, Select, Record, Goto, client, history
<1>9. CASE SendError(q)
  BY <1>9 DEF SendError, Record, Flag, NextCandidate, TerminalError, Goto
<1>10. CASE \E class \in HttpReplies : HttpError(q, class)
  <2>1. PICK class \in HttpReplies : HttpError(q, class)
    BY <1>10
  <2>2. CASE Repairable(q, class)
    BY <2>1, <2>2 DEF HttpError, Record, Flag, Goto
  <2>3. CASE ~Repairable(q, class)
    BY <2>1, <2>3 DEF HttpError, SettleHttpFailure, Record, Flag, NextCandidate,
       TerminalError, Goto
  <2> QED
    BY <2>2, <2>3
<1>11. CASE RefreshFailed(q)
  BY <1>11 DEF RefreshFailed, SettleHttpFailure, NextCandidate, TerminalError, Goto
<1>12. CASE NoBufferSlot(q) \/ BodyTooLarge(q) \/ BodyBreaks(q)
  <2>1. \A class : PreflightFail(q, class) =>
          /\ phase'[r] = phase[r] /\ pos'[r] = pos[r] /\ attempts'[r] = attempts[r]
          /\ verdict'[r] = verdict[r] /\ answers'[r] = answers[r] /\ error'[r] = error[r]
          /\ UNCHANGED <<plan, cool, pass, refreshed, committed, streaming, serving>>
    BY DEF PreflightFail, Record, NextCandidate, TerminalError, Goto
  <2> QED
    BY <1>12, <2>1 DEF NoBufferSlot, BodyTooLarge, BodyBreaks
<1>13. CASE \E class \in ProbeFailures : ProbeFail(q, class)
  BY <1>13 DEF ProbeFail, Record, Flag, NextCandidate, TerminalError, Goto
<1>14. CASE Relay(q)
  <2>1. \A answer : RelayEnds(q, answer) => Untouched(r)
    BY DEF RelayEnds, Answer, Goto, loop, history
  <2>2. ASSUME NEW class, RelayBreaks(q, class), UNCHANGED answers \/ \E a : Answer(q, a),
               \/ Blame(q)
               \/ starved' = starved \cup {q} /\ UNCHANGED blame
        PROVE  Untouched(r)
    BY <2>2 DEF RelayBreaks, Answer, Blame, Goto
  <2> QED
    BY <1>14, <2>1, <2>2 DEF Relay, StreamEnds, StreamBreaks, AggregateEnds, AggregateBreaks,
       BodyRelayed, BodyRefused, BodyCut
<1> QED
  BY <1>1, <1>2, <1>3, <1>4, <1>5, <1>6, <1>7, <1>8, <1>9, <1>10, <1>11, <1>12, <1>13, <1>14
  DEF Decide

-----------------------------------------------------------------------------
(* The moves of a request.                                                 *)

Innocent(r) == blame'[r] = blame[r] /\ (r \in starved' <=> r \in starved)
SameRoute(r) == plan'[r] = plan[r] /\ pass'[r] = pass[r]
SameClient(r) == committed'[r] = committed[r] /\ serving'[r] = serving[r]

\* A new attempt on the target at hand.
Adds(r, result) ==
  \E a \in Attempt :
    /\ a.target = Current(r) /\ a.result = result
    /\ attempts'[r] = Append(attempts[r], a)

\* The classes with which a failed target may end its request.
FailureClasses ==
  Classes \ {"none", "translation_error", "unsupported_feature", "virtual_model_unavailable"}

\* The walk goes on after the target at hand, or ends with its failure.  Only a
\* virtual route goes on after a target that has been called.
Onward(r) ==
  \/ phase'[r] = "loop" /\ pos'[r] = pos[r] + 1 /\ error'[r] = error[r]
  \/ phase'[r] = "finish" /\ pos'[r] = pos[r] /\ error'[r] \in FailureClasses

\* The flags of a failure: the other cause is set, and nothing is taken back
\* but the too large class of an earlier one.
OtherFlag(r) ==
  /\ (verdict[r] \ {"tooLarge"}) \cup {"other"} \subseteq verdict'[r]
  /\ verdict'[r] \subseteq verdict[r] \cup {"other", "tooLarge"}

Skipped(r) ==
  /\ AtCandidate(r) /\ phase'[r] = "loop" /\ pos'[r] = pos[r] + 1
  /\ Adds(r, "skipped")
  /\ verdict[r] \subseteq verdict'[r]
  /\ "skippedCooled" \in verdict'[r] => "skippedCooled" \in verdict[r] \/ Ordered(r)
  /\ Fit(r) \notin Callable \/ (pass[r] = 0 /\ "skippedCooled" \in verdict'[r])
  /\ SameRoute(r) /\ SameClient(r) /\ Innocent(r)
  /\ refreshed'[r] = refreshed[r] /\ error'[r] = error[r]

\* The request leaves the loop with no target called since.
Left(r) ==
  /\ phase[r] = "loop" /\ phase'[r] = "finish"
  /\ \/ error'[r] \in {ClientFailure, "invalid_request"}
     \/ AtCandidate(r) /\ ~Virtual(r) /\ error'[r] \in SkipClasses
     \/ AtEnd(r) /\ (pass[r] = 1 \/ "skippedCooled" \notin verdict[r])
          /\ error'[r] = ExhaustedClass(r)
  /\ SameRoute(r) /\ SameClient(r) /\ Innocent(r)
  /\ pos'[r] = pos[r] /\ refreshed'[r] = refreshed[r] /\ attempts'[r] = attempts[r]
  /\ verdict'[r] = verdict[r]

\* The target at hand fails for good: it is to blame, the gate was full, or the
\* attempt is the client's doing.
Failed(r) ==
  /\ phase[r] \in {"loop", "sent", "preflight", "probe"} /\ pos[r] <= Len(plan[r].chain)
  /\ Onward(r)
  /\ phase'[r] = "loop" => pos[r] + 1 = pos'[r]
  /\ \E a \in Attempt :
       /\ a.target = Current(r) /\ a.result = "failed"
       /\ attempts'[r] = Append(attempts[r], a)
       /\ Current(r) \in blame'[r] \/ r \in starved' \/ ClientCaused(a)
  /\ blame[r] \subseteq blame'[r] /\ (r \in starved => r \in starved')
  /\ OtherFlag(r)
  /\ SameRoute(r) /\ SameClient(r)
  /\ refreshed'[r] = refreshed[r]

\* The target at hand refuses its credential, which is refreshed.
Held(r) ==
  /\ phase[r] = "sent" /\ phase'[r] = "refreshing"
  /\ Provider[Current(r)] \notin refreshed[r]
  /\ Adds(r, "failed")
  /\ OtherFlag(r)
  /\ SameRoute(r) /\ SameClient(r) /\ Innocent(r)
  /\ pos'[r] = pos[r] /\ refreshed'[r] = refreshed[r] /\ error'[r] = error[r]

Renewed(r) ==
  /\ phase[r] = "refreshing" /\ phase'[r] = "loop"
  /\ refreshed'[r] = refreshed[r] \cup {Provider[Current(r)]}
  /\ attempts'[r] = [attempts[r] EXCEPT ![Len(attempts[r])] = [@ EXCEPT !.recovered = TRUE]]
  /\ SameRoute(r) /\ SameClient(r) /\ Innocent(r)
  /\ pos'[r] = pos[r] /\ verdict'[r] = verdict[r] /\ error'[r] = error[r]

\* The refresh has failed too, and the 401 stands.
Settled(r) ==
  /\ phase[r] = "refreshing" /\ Onward(r)
  /\ blame'[r] = blame[r] \cup {Current(r)} /\ (r \in starved' <=> r \in starved)
  /\ SameRoute(r) /\ SameClient(r)
  /\ refreshed'[r] = refreshed[r] /\ attempts'[r] = attempts[r] /\ verdict'[r] = verdict[r]

\* The call of the target at hand is under way.
Advanced(r) ==
  /\ phase[r] \in {"loop", "sent", "preflight"} /\ phase'[r] \in {"sent", "preflight", "probe"}
  /\ committed'[r] => committed[r] \/ (Ordered(r) /\ ~plan[r].nonstream)
  /\ SameRoute(r) /\ Innocent(r)
  /\ pos'[r] = pos[r] /\ refreshed'[r] = refreshed[r] /\ attempts'[r] = attempts[r]
  /\ verdict'[r] = verdict[r] /\ serving'[r] = serving[r] /\ error'[r] = error[r]

Chosen(r) ==
  /\ phase[r] = "probe" /\ phase'[r] = "relay"
  /\ Adds(r, "success")
  /\ serving'[r] = Current(r)
  /\ committed'[r] => committed[r] \/ ~plan[r].nonstream
  /\ SameRoute(r) /\ Innocent(r)
  /\ pos'[r] = pos[r] /\ refreshed'[r] = refreshed[r] /\ verdict'[r] = verdict[r]
  /\ error'[r] = error[r]

Restarted(r) ==
  /\ AtEnd(r) /\ phase'[r] = "loop"
  /\ pass[r] = 0 /\ pass'[r] = 1 /\ pos'[r] = 1 /\ "skippedCooled" \in verdict[r]
  /\ plan'[r] = plan[r] /\ SameClient(r) /\ Innocent(r)
  /\ refreshed'[r] = refreshed[r] /\ attempts'[r] = attempts[r] /\ verdict'[r] = verdict[r]
  /\ error'[r] = error[r]

\* The relay of the selected target ends, or breaks off.
Relayed(r) ==
  /\ phase[r] = "relay" /\ phase'[r] = "finish"
  /\ \/ attempts'[r] = attempts[r] /\ error'[r] = error[r] /\ Innocent(r)
     \/ \E class \in Classes :
          /\ attempts'[r] = [attempts[r] EXCEPT ![Len(attempts[r])] =
                               [@ EXCEPT !.result = "failed", !.class = class]]
          /\ \/ class = ClientFailure
             \/ serving[r] \in blame'[r]
             \/ r \in starved'
          /\ error'[r] = class /\ class # "virtual_model_unavailable"
          /\ blame[r] \subseteq blame'[r] /\ (r \in starved => r \in starved')
  /\ SameRoute(r) /\ SameClient(r)
  /\ pos'[r] = pos[r] /\ refreshed'[r] = refreshed[r] /\ verdict'[r] = verdict[r]

Begun(r) ==
  /\ phase[r] = "idle" /\ phase'[r] = "loop"
  /\ plan'[r] \in Routes /\ pass'[r] = pass[r] /\ SameClient(r) /\ Innocent(r)
  /\ pos'[r] = pos[r] /\ refreshed'[r] = refreshed[r] /\ attempts'[r] = attempts[r]
  /\ verdict'[r] = verdict[r] /\ error'[r] = error[r]

Ended(r) ==
  /\ phase[r] = "finish" /\ phase'[r] = "done"
  /\ attempts'[r] = << >> /\ error'[r] = "none" /\ refreshed'[r] = {} /\ ~committed'[r]
  /\ Innocent(r)

Moves(r) ==
  \/ Skipped(r) \/ Left(r) \/ Failed(r) \/ Held(r) \/ Renewed(r) \/ Settled(r)
  \/ Advanced(r) \/ Chosen(r) \/ Restarted(r) \/ Relayed(r) \/ Begun(r) \/ Ended(r)

LEMMA RecordAdds ==
  ASSUME TypeOK, NEW r \in Requests, Current(r) \in Targets,
         NEW result \in {"skipped", "failed", "success"}, NEW class \in Classes,
         NEW clientGone \in BOOLEAN, Record(r, result, class, clientGone)
  PROVE  \E a \in Attempt :
           /\ a.target = Current(r) /\ a.result = result
           /\ class = ClientFailure \/ clientGone => ClientCaused(a)
           /\ attempts'[r] = Append(attempts[r], a)
<1> DEFINE a == [target |-> Current(r), result |-> result, class |-> class,
                 recovered |-> FALSE, clientGone |-> clientGone]
<1>1. a \in Attempt
  BY DEF Attempt
<1>2. attempts'[r] = Append(attempts[r], a)
  BY DEF Record, TypeOK
<1>3. class = ClientFailure \/ clientGone => ClientCaused(a)
  BY DEF ClientCaused
<1>4. a.target = Current(r) /\ a.result = result
  OBVIOUS
<1> HIDE DEF a
<1> QED
  BY <1>1, <1>2, <1>3, <1>4

LEMMA RecordAddsOne ==
  ASSUME TypeOK, NEW r \in Requests, Current(r) \in Targets,
         NEW result \in {"skipped", "failed", "success"}, NEW class \in Classes,
         NEW clientGone \in BOOLEAN, Record(r, result, class, clientGone)
  PROVE  Adds(r, result)
<1>1. PICK a \in Attempt : /\ a.target = Current(r) /\ a.result = result
                          /\ attempts'[r] = Append(attempts[r], a)
  BY RecordAdds
<1> QED
  BY <1>1 DEF Adds

\* The steps of the loop.
LEMMA LoopMoves ==
  ASSUME TypeInv, NEW r \in Requests,
         \/ StopForClient(r) \/ SkipUnavailable(r) \/ SkipCooled(r) \/ SkipUnfit(r)
         \/ RejectUnfit(r) \/ RejectMalformed(r) \/ FailEndpoint(r) \/ Send(r)
         \/ NextPass(r) \/ Exhaust(r)
  PROVE  Moves(r)
<1> USE DEF TypeInv
<1>1. ASSUME AtCandidate(r) PROVE Current(r) \in Targets /\ Fit(r) \in Fits
  BY <1>1, CandidateType DEF AtCandidate
<1>2. CASE StopForClient(r) \/ Exhaust(r)
  <2>1. Left(r)
    BY <1>2 DEF StopForClient, Exhaust, AtCandidate, AtEnd, TerminalError, Goto, Left,
       SameRoute, SameClient, Innocent, TypeOK, loop, history
  <2> QED
    BY <2>1 DEF Moves
<1>3. \A fit \in Unfit : SkipClass(fit) \in SkipClasses
  BY DEF Unfit, SkipClass, SkipClasses
<1>4. CASE RejectUnfit(r) \/ RejectMalformed(r)
  <2>1. Left(r)
    BY <1>3, <1>4 DEF RejectUnfit, RejectMalformed, Eligible, AtCandidate, InferenceError, Goto,
       Left, SameRoute, SameClient, Innocent, TypeOK, loop, history
  <2> QED
    BY <2>1 DEF Moves
<1>5. ASSUME AtCandidate(r), NEW class \in Classes, Record(r, "skipped", class, FALSE),
             NextCandidate(r), verdict[r] \subseteq verdict'[r],
             "skippedCooled" \in verdict'[r] => "skippedCooled" \in verdict[r] \/ Ordered(r),
             Fit(r) \notin Callable \/ (pass[r] = 0 /\ "skippedCooled" \in verdict'[r]),
             UNCHANGED <<shared, plan, cool, pass, refreshed, client, history>>
      PROVE  Moves(r)
  <2>1. Adds(r, "skipped")
    BY <1>1, <1>5, RecordAddsOne
  <2>2. Skipped(r)
    BY <1>5, <2>1 DEF AtCandidate, NextCandidate, Goto, Skipped, SameRoute, SameClient,
       Innocent, TypeOK, client, history
  <2> QED
    BY <2>2 DEF Moves
<1>6. CASE SkipUnavailable(r)
  BY <1>5, <1>6 DEF SkipUnavailable, Flag, Callable, Classes, SkipClasses, TypeOK
<1>7. CASE SkipCooled(r)
  BY <1>5, <1>7 DEF SkipCooled, Cooling, Flag, Classes, SkipClasses, TypeOK
<1>8. CASE SkipUnfit(r)
  <2>1. /\ verdict[r] \subseteq verdict'[r]
        /\ "skippedCooled" \in verdict'[r] => "skippedCooled" \in verdict[r]
    <3>1. UNCHANGED verdict \/ \E flags \in SUBSET {"translation", "other", "protocol"} :
                                 Flag(r, flags)
      <4>1. CASE Fit(r) = "untranslatable"
        BY <1>8, <4>1 DEF SkipUnfit
      <4>2. CASE Fit(r) = "free_model_requires_keyless"
        BY <1>8, <4>2 DEF SkipUnfit
      <4>3. CASE Fit(r) = "protocol_unavailable"
        BY <1>8, <4>3 DEF SkipUnfit
      <4>4. CASE Fit(r) = "min_output"
        BY <1>8, <4>4 DEF SkipUnfit
      <4> QED
        BY <1>8, <4>1, <4>2, <4>3, <4>4 DEF SkipUnfit, Unfit
    <3> QED
      BY <3>1 DEF Flag, TypeOK
  <2>2. Fit(r) \notin Callable /\ SkipClass(Fit(r)) \in Classes
    BY <1>3, <1>8 DEF SkipUnfit, Unfit, Callable, Classes
  <2> QED
    BY <1>5, <1>8, <2>1, <2>2 DEF SkipUnfit, Eligible
<1>9. CASE FailEndpoint(r)
  <2>1. \E a \in Attempt : /\ a.target = Current(r) /\ a.result = "failed"
                           /\ attempts'[r] = Append(attempts[r], a)
    <3>1. Adds(r, "failed")
      BY <1>1, <1>9, RecordAddsOne DEF FailEndpoint, Eligible, Classes
    <3> QED
      BY <3>1 DEF Adds
  <2>2. Current(r) \in blame'[r] /\ blame[r] \subseteq blame'[r]
    BY <1>9 DEF FailEndpoint, TypeOK
  <2>3. Failed(r)
    BY <1>9, <2>1, <2>2 DEF FailEndpoint, Eligible, AtCandidate, NextCandidate, Goto, Flag,
       Failed, Onward, OtherFlag, SameRoute, SameClient, TypeOK, client
  <2> QED
    BY <2>3 DEF Moves
<1>10. CASE Send(r)
  <2>1. Advanced(r)
    BY <1>10 DEF Send, Eligible, AtCandidate, Goto, Advanced, SameRoute, Innocent, TypeOK,
       loop, client, history
  <2> QED
    BY <2>1 DEF Moves
<1>11. CASE NextPass(r)
  <2>1. Restarted(r)
    BY <1>11 DEF NextPass, AtEnd, Restarted, SameClient, Innocent, TypeOK, client, history
  <2> QED
    BY <2>1 DEF Moves
<1> QED
  BY <1>2, <1>4, <1>6, <1>7, <1>8, <1>9, <1>10, <1>11

\* What ends the call of the target at hand, once its blame is settled.
LEMMA CallFails ==
  ASSUME TypeInv, NEW r \in Requests, phase[r] \in {"sent", "preflight", "probe"},
         NEW class \in Classes, NEW clientGone \in BOOLEAN,
         Record(r, "failed", class, clientGone), Onward(r), OtherFlag(r),
         \/ blame' = [blame EXCEPT ![r] = @ \cup {Current(r)}]
         \/ UNCHANGED blame /\ (r \in starved' \/ class = ClientFailure \/ clientGone),
         starved \subseteq starved',
         UNCHANGED <<plan, pass, refreshed, committed, serving>>
  PROVE  Moves(r)
<1> USE DEF TypeInv
<1>1. Current(r) \in Targets /\ pos[r] <= Len(plan[r].chain)
  BY CalledTargetType DEF Located, Calling
<1>2. PICK a \in Attempt : /\ a.target = Current(r) /\ a.result = "failed"
                           /\ class = ClientFailure \/ clientGone => ClientCaused(a)
                           /\ attempts'[r] = Append(attempts[r], a)
  BY <1>1, RecordAdds
<1>3. \/ Current(r) \in blame'[r] /\ blame[r] \subseteq blame'[r]
      \/ blame'[r] = blame[r] /\ (r \in starved' \/ ClientCaused(a))
  BY <1>2 DEF TypeOK
<1>4. Failed(r)
  BY <1>1, <1>2, <1>3 DEF Failed, Onward, SameRoute, SameClient, TypeOK
<1> QED
  BY <1>4 DEF Moves

\* The choice a failed call leaves the handler, as MoveOnOrAnswer with its class.
LEMMA GoesOnward ==
  ASSUME TypeInv, NEW r \in Requests, NEW class \in FailureClasses,
         \/ NextCandidate(r) /\ UNCHANGED <<answers, error>>
         \/ TerminalError(r, class) /\ Goto(r, "finish") /\ UNCHANGED pos
  PROVE  Onward(r)
  BY DEF NextCandidate, TerminalError, Goto, Onward, TypeInv, TypeOK

LEMMA OtherFlagged ==
  ASSUME TypeInv, NEW r \in Requests, NEW class,
         \/ Flag(r, {"other"})
         \/ verdict' = [verdict EXCEPT ![r] = (@ \ {"tooLarge"}) \cup {"other"}
                          \cup (IF class = TooLarge THEN {"tooLarge"} ELSE {})]
  PROVE  OtherFlag(r)
  BY DEF Flag, OtherFlag, TypeInv, TypeOK

\* The steps between the upstream call and the selection of its target.
LEMMA CallMoves ==
  ASSUME TypeInv, NEW r \in Requests,
         \/ SendError(r) \/ \E class \in HttpReplies : HttpError(r, class)
         \/ RefreshDone(r) \/ RefreshFailed(r)
         \/ StreamHeaders(r) \/ BodyHeaders(r)
         \/ NoBufferSlot(r) \/ BodyTooLarge(r) \/ BodyBreaks(r) \/ BodyArrives(r)
         \/ \E class \in ProbeFailures : ProbeFail(r, class)
         \/ Select(r)
  PROVE  Moves(r)
<1> USE DEF TypeInv
<1>0. /\ TargetFailures \cup {TooLarge, ClientFailure} \cup HttpReplies \cup ProbeFailures
           \cup {"http_401", "upstream_unreachable", "upstream_read_error"} \subseteq FailureClasses
      /\ FailureClasses \subseteq Classes /\ "none" \in Classes
  BY RepliesAssumption DEF FailureClasses, Classes, TargetFailures, HttpClasses, TooLarge,
     ClientFailure, ProbeFailures, FinalErrors
<1>1. \A class \in FailureClasses : ClassFor(r, class) \in FailureClasses
  BY <1>0 DEF ClassFor
<1>2. phase[r] \in Calling => Current(r) \in Targets
  BY CalledTargetType
<1>3. gone[r] \in BOOLEAN
  BY DEF TypeOK
<1>4. CASE SendError(r)
  <2> DEFINE class == ClassFor(r, "upstream_unreachable")
  <2>1. class \in FailureClasses /\ (gone[r] => class = ClientFailure)
    BY <1>0, <1>1 DEF ClassFor
  <2>2. Onward(r)
    BY <1>4, <2>1, GoesOnward DEF SendError
  <2>3. OtherFlag(r)
    BY <1>4, OtherFlagged DEF SendError
  <2>4. \/ blame' = [blame EXCEPT ![r] = @ \cup {Current(r)}]
        \/ UNCHANGED blame /\ class = ClientFailure
    BY <1>3, <1>4, <2>1 DEF SendError, TypeOK
  <2> QED
    BY <1>0, <1>4, <2>1, <2>2, <2>3, <2>4, CallFails DEF SendError
<1>5. ASSUME NEW class \in FailureClasses, SettleHttpFailure(r, class)
      PROVE  Onward(r) /\ blame' = [blame EXCEPT ![r] = @ \cup {Current(r)}]
  BY <1>5, GoesOnward DEF SettleHttpFailure
<1>6. ASSUME NEW class \in HttpReplies, HttpError(r, class) PROVE Moves(r)
  <2>1. phase[r] = "sent" /\ OtherFlag(r) /\ class \in FailureClasses
    BY <1>0, <1>6, OtherFlagged DEF HttpError
  <2>2. CASE Repairable(r, class)
    <3>1. Adds(r, "failed")
      BY <1>0, <1>2, <1>6, <2>1, RecordAddsOne DEF HttpError, Calling
    <3>2. Held(r)
      BY <1>6, <2>1, <2>2, <3>1 DEF HttpError, Repairable, Goto, Held, SameRoute, SameClient,
         Innocent, TypeOK
    <3> QED
      BY <3>2 DEF Moves
  <2>3. CASE ~Repairable(r, class)
    <3>1. Onward(r) /\ blame' = [blame EXCEPT ![r] = @ \cup {Current(r)}]
      BY <1>5, <1>6, <2>1, <2>3 DEF HttpError
    <3> QED
      BY <1>0, <1>6, <2>1, <3>1, CallFails DEF HttpError
  <2> QED
    BY <2>2, <2>3
<1>7. CASE RefreshDone(r)
  <2>1. attempts'[r] = [attempts[r] EXCEPT ![Len(attempts[r])] = [@ EXCEPT !.recovered = TRUE]]
    BY <1>7 DEF RefreshDone, TypeOK
  <2>2. Renewed(r)
    BY <1>7, <2>1 DEF RefreshDone, Goto, Renewed, SameRoute, SameClient, Innocent, TypeOK,
       client, history
  <2> QED
    BY <2>2 DEF Moves
<1>8. CASE RefreshFailed(r)
  <2>1. Onward(r) /\ blame' = [blame EXCEPT ![r] = @ \cup {Current(r)}]
    BY <1>0, <1>5, <1>8 DEF RefreshFailed
  <2>2. Settled(r)
    BY <1>8, <2>1 DEF RefreshFailed, Settled, SameRoute, SameClient, TypeOK
  <2> QED
    BY <2>2 DEF Moves
<1>9. CASE StreamHeaders(r) \/ BodyHeaders(r) \/ BodyArrives(r)
  <2>1. Advanced(r)
    BY <1>9 DEF StreamHeaders, BodyHeaders, BodyArrives, Goto, Advanced, SameRoute, Innocent,
       TypeOK, loop, client, history
  <2> QED
    BY <2>1 DEF Moves
<1>10. ASSUME phase[r] \in {"sent", "preflight"}, NEW class \in FailureClasses,
              PreflightFail(r, class),
              \/ blame' = [blame EXCEPT ![r] = @ \cup {Current(r)}]
              \/ UNCHANGED blame /\ (r \in starved' \/ class = ClientFailure \/ gone[r]),
              starved \subseteq starved'
       PROVE  Moves(r)
  <2>1. Onward(r) /\ OtherFlag(r)
    BY <1>10, GoesOnward, OtherFlagged DEF PreflightFail
  <2> QED
    BY <1>0, <1>3, <1>10, <2>1, CallFails DEF PreflightFail
<1>11. CASE NoBufferSlot(r)
  BY <1>0, <1>10, <1>11 DEF NoBufferSlot
<1>12. CASE BodyTooLarge(r)
  BY <1>0, <1>10, <1>12 DEF BodyTooLarge
<1>13. CASE BodyBreaks(r)
  <2>1. \/ blame' = [blame EXCEPT ![r] = @ \cup {Current(r)}]
        \/ UNCHANGED blame /\ gone[r]
    BY <1>3, <1>13 DEF BodyBreaks, TypeOK
  <2> QED
    BY <1>0, <1>1, <1>10, <1>13, <2>1 DEF BodyBreaks
<1>14. ASSUME NEW class \in ProbeFailures, ProbeFail(r, class) PROVE Moves(r)
  <2> DEFINE told == IF class = "upstream_read_error" THEN ClassFor(r, class) ELSE class
  <2>1. told \in Classes
    BY <1>0, <1>1
  <2>2. Onward(r) /\ OtherFlag(r)
    BY <1>0, <1>14, GoesOnward, OtherFlagged DEF ProbeFail
  <2>3. \/ blame' = [blame EXCEPT ![r] = @ \cup {Current(r)}]
        \/ UNCHANGED blame /\ gone[r]
    BY <1>3, <1>14 DEF ProbeFail, TypeOK
  <2>4. /\ phase[r] = "probe" /\ Record(r, "failed", told, gone[r])
        /\ UNCHANGED <<plan, pass, refreshed, committed, serving, starved>>
    BY <1>14 DEF ProbeFail
  <2> HIDE DEF told
  <2> QED
    BY <1>3, <2>1, <2>2, <2>3, <2>4, CallFails
<1>15. CASE Select(r)
  <2>1. Adds(r, "success")
    BY <1>0, <1>2, <1>15, RecordAddsOne DEF Select, Calling
  <2>2. Chosen(r)
    BY <1>15, <2>1 DEF Select, Goto, Chosen, SameRoute, Innocent, TypeOK, history
  <2> QED
    BY <2>2 DEF Moves
<1> QED
  BY <1>4, <1>6, <1>7, <1>8, <1>9, <1>11, <1>12, <1>13, <1>14, <1>15

LEMMA RelayMoves ==
  ASSUME TypeInv, NEW r \in Requests, Relay(r)
  PROVE  Moves(r)
<1> USE DEF TypeInv
<1>1. ASSUME phase[r] = "relay", NEW answer, RelayEnds(r, answer) PROVE Relayed(r)
  BY <1>1 DEF RelayEnds, Goto, Relayed, SameRoute, SameClient, Innocent, TypeOK, loop, history
<1>2. ASSUME phase[r] = "relay", NEW class \in {"upstream_read_error", "translation_error"},
             RelayBreaks(r, class),
             \/ Blame(r)
             \/ starved' = starved \cup {r} /\ UNCHANGED blame
      PROVE  Relayed(r)
  <2> DEFINE told == ClassFor(r, class)
  <2>1. /\ told \in Classes /\ told # "virtual_model_unavailable"
        /\ gone[r] => told = ClientFailure
    BY DEF ClassFor, Classes, ClientFailure, TargetFailures, FinalErrors
  <2>2. attempts'[r] = [attempts[r] EXCEPT ![Len(attempts[r])] =
                          [@ EXCEPT !.result = "failed", !.class = told]]
    BY <1>2 DEF RelayBreaks, TypeOK
  <2>3. error'[r] = told /\ phase'[r] = "finish"
    BY <1>2 DEF RelayBreaks, Goto, TypeOK
  <2>4. /\ blame[r] \subseteq blame'[r] /\ (r \in starved => r \in starved')
        /\ gone[r] \/ serving[r] \in blame'[r] \/ r \in starved'
    BY <1>2 DEF Blame, TypeOK
  <2>5. SameRoute(r) /\ SameClient(r)
    BY <1>2 DEF RelayBreaks, SameRoute, SameClient
  <2>6. pos'[r] = pos[r] /\ refreshed'[r] = refreshed[r] /\ verdict'[r] = verdict[r]
    BY <1>2 DEF RelayBreaks
  <2> HIDE DEF told
  <2> QED
    BY <1>2, <2>1, <2>2, <2>3, <2>4, <2>5, <2>6 DEF Relayed
<1>3. Relayed(r)
  BY <1>1, <1>2 DEF Relay, StreamEnds, StreamBreaks, AggregateEnds, AggregateBreaks,
     BodyRelayed, BodyRefused, BodyCut
<1> QED
  BY <1>3 DEF Moves

\* A step moves a request in one of these ways or does not touch it.
LEMMA StepMoves ==
  ASSUME TypeInv, [Next]_vars, NEW r \in Requests
  PROVE  Moves(r) \/ Untouched(r)
<1>1. ASSUME NEW q \in Requests, q # r,
             \/ \E p \in Plans[q] : Begin(q, p)
             \/ Decide(q) \/ Relay(q) \/ Finish(q) \/ ClientLeaves(q)
      PROVE  Untouched(r)
  BY <1>1, OthersUntouched
<1>2. ASSUME Decide(r) PROVE Moves(r)
  BY <1>2, LoopMoves, CallMoves DEF Decide
<1>3. ASSUME NEW p \in Plans[r], Begin(r, p) PROVE Begun(r)
  <2>1. p \in Routes
    BY DEF Routes
  <2> QED
    BY <1>3, <2>1 DEF Begin, Goto, Begun, SameClient, Innocent, TypeInv, TypeOK, client, history
<1>4. ASSUME Finish(r) PROVE Ended(r)
  BY <1>4 DEF Finish, Forget, Goto, Ended, Innocent, TypeInv, TypeOK, history
<1>5. ASSUME \/ ClientLeaves(r) \/ Tick
             \/ \E t \in Targets : AdminRelease(TargetName[t])
             \/ \E seconds \in Settings : SaveSetting(seconds)
             \/ UNCHANGED vars
      PROVE  Untouched(r)
  BY <1>5 DEF ClientLeaves, Tick, AdminRelease, SaveSetting, Untouched, vars, shared, loop,
     client, history
<1> QED
  BY <1>1, <1>2, <1>3, <1>4, <1>5, RelayMoves DEF Next, Moves

-----------------------------------------------------------------------------
(* The attempts of a request, as its moves extend or rewrite them.         *)

LEMMA AppendedAttempt ==
  ASSUME NEW s \in Seq(Attempt), NEW a \in Attempt
  PROVE  /\ Append(s, a) \in Seq(Attempt)
         /\ Len(Append(s, a)) = Len(s) + 1
         /\ DOMAIN s = 1..Len(s) /\ DOMAIN Append(s, a) = 1..(Len(s) + 1)
         /\ \A i \in 1..Len(s) : Append(s, a)[i] = s[i]
         /\ Append(s, a)[Len(s) + 1] = a
  OBVIOUS

LEMMA RewrittenLast ==
  ASSUME NEW s \in Seq(Attempt), s # << >>, NEW e
  PROVE  /\ Len(s) \in 1..Len(s)
         /\ s[Len(s)] \in Attempt
         /\ Len([s EXCEPT ![Len(s)] = e]) = Len(s)
         /\ DOMAIN s = 1..Len(s) /\ DOMAIN [s EXCEPT ![Len(s)] = e] = 1..Len(s)
         /\ \A i \in 1..Len(s) : i # Len(s) => [s EXCEPT ![Len(s)] = e][i] = s[i]
         /\ [s EXCEPT ![Len(s)] = e][Len(s)] = e
<1>1. Len(s) \in 1..Len(s)
  BY EmptySeq, LenProperties
<1> QED
  BY <1>1, ElementOfSeq

LEMMA RewrittenAttempt ==
  ASSUME NEW a \in Attempt, NEW class \in Classes
  PROVE  /\ LET b == [a EXCEPT !.recovered = TRUE]
            IN  b.target = a.target /\ b.result = a.result /\ b.recovered = TRUE
         /\ LET b == [a EXCEPT !.result = "failed", !.class = class]
            IN  b.target = a.target /\ b.result = "failed" /\ b.class = class
  BY DEF Attempt

\* The attempts after a move, index by index: those there were, the last one
\* rewritten, or one more.
Extended(r, a) ==
  /\ Len(attempts'[r]) = Len(attempts[r]) + 1
  /\ \A i \in 1..Len(attempts[r]) : attempts'[r][i] = attempts[r][i]
  /\ attempts'[r][Len(attempts[r]) + 1] = a

Rewritten(r, b) ==
  /\ attempts[r] # << >> /\ Len(attempts[r]) \in 1..Len(attempts[r])
  /\ Len(attempts'[r]) = Len(attempts[r])
  /\ \A i \in 1..Len(attempts[r]) : i # Len(attempts[r]) => attempts'[r][i] = attempts[r][i]
  /\ attempts'[r][Len(attempts[r])] = b

LEMMA AddsExtends ==
  ASSUME TypeInv, NEW r \in Requests, NEW a \in Attempt,
         attempts'[r] = Append(attempts[r], a)
  PROVE  Extended(r, a)
  BY AppendedAttempt DEF Extended, TypeInv, TypeOK

LEMMA RenewedRewrites ==
  ASSUME TypeInv, NEW r \in Requests, Renewed(r)
  PROVE  \E b \in Attempt :
           /\ b.target = Last(r).target /\ b.result = Last(r).result /\ b.recovered = TRUE
           /\ Rewritten(r, b)
<1> DEFINE b == [Last(r) EXCEPT !.recovered = TRUE]
<1>1. attempts[r] \in Seq(Attempt) /\ attempts[r] # << >>
  BY DEF TypeInv, TypeOK, Located, Renewed
<1>2. Last(r) \in Attempt
  BY <1>1, RewrittenLast DEF Last
<1>3. b \in Attempt /\ b.target = Last(r).target /\ b.result = Last(r).result /\ b.recovered = TRUE
  <2>1. "none" \in Classes
    BY DEF Classes
  <2>2. b \in Attempt
    BY <1>2 DEF Attempt
  <2> QED
    BY <1>2, <2>1, <2>2, RewrittenAttempt
<1>4. attempts'[r] = [attempts[r] EXCEPT ![Len(attempts[r])] = b]
  BY DEF Renewed, Last
<1> HIDE DEF b
<1>5. Rewritten(r, b)
  BY <1>1, <1>4, RewrittenLast DEF Rewritten
<1> QED
  BY <1>3, <1>5

LEMMA BrokenRewrites ==
  ASSUME TypeInv, NEW r \in Requests, phase[r] = "relay", NEW class \in Classes,
         attempts'[r] = [attempts[r] EXCEPT ![Len(attempts[r])] =
                           [@ EXCEPT !.result = "failed", !.class = class]]
  PROVE  \E b \in Attempt :
           /\ b.target = Last(r).target /\ b.result = "failed" /\ b.class = class
           /\ Rewritten(r, b)
<1> DEFINE b == [Last(r) EXCEPT !.result = "failed", !.class = class]
<1>1. attempts[r] \in Seq(Attempt) /\ attempts[r] # << >>
  BY DEF TypeInv, TypeOK, Located
<1>2. Last(r) \in Attempt
  BY <1>1, RewrittenLast DEF Last
<1>3. b \in Attempt /\ b.target = Last(r).target /\ b.result = "failed" /\ b.class = class
  <2>1. b \in Attempt
    BY <1>2 DEF Attempt
  <2> QED
    BY <1>2, <2>1, RewrittenAttempt
<1>4. attempts'[r] = [attempts[r] EXCEPT ![Len(attempts[r])] = b]
  BY DEF Last
<1> HIDE DEF b
<1>5. Rewritten(r, b)
  BY <1>1, <1>4, RewrittenLast DEF Rewritten
<1> QED
  BY <1>3, <1>5

\* What a move makes of the attempts: it leaves or forgets them, adds one, or
\* rewrites the last without taking it out of the calls.
Reworked(r) ==
  \/ attempts'[r] = attempts[r]
  \/ attempts'[r] = << >> /\ phase'[r] = "done"
  \/ \E a \in Attempt : Extended(r, a)
  \/ \E b \in Attempt : /\ Rewritten(r, b)
                        /\ b.target = Last(r).target
                        /\ b.result # "skipped" /\ Last(r).result # "skipped"

LEMMA MovesRework ==
  ASSUME TypeInv, NEW r \in Requests, LastAttempt(r), Moves(r)
  PROVE  Reworked(r)
<1>1. ASSUME NEW result, Adds(r, result) PROVE Reworked(r)
  BY <1>1, AddsExtends DEF Adds, Reworked
<1>2. CASE Failed(r)
  BY <1>2, AddsExtends DEF Failed, Reworked
<1>3. CASE Renewed(r)
  <2>1. Last(r).result = "failed"
    BY <1>3 DEF Renewed, LastAttempt
  <2> QED
    BY <1>3, <2>1, RenewedRewrites DEF Reworked
<1>4. CASE Relayed(r)
  <2>1. Last(r).result = "success" /\ phase[r] = "relay"
    BY <1>4 DEF Relayed, LastAttempt
  <2> QED
    BY <1>4, <2>1, BrokenRewrites DEF Relayed, Reworked
<1>5. CASE Left(r) \/ Settled(r) \/ Advanced(r) \/ Restarted(r) \/ Begun(r) \/ Ended(r)
  BY <1>5 DEF Left, Settled, Advanced, Restarted, Begun, Ended, Reworked
<1> QED
  BY <1>1, <1>2, <1>3, <1>4, <1>5 DEF Moves, Skipped, Held, Chosen

\* The indexes of the attempts, before and after.
LEMMA AttemptIndexes ==
  ASSUME TypeInv, TypeInv', NEW r \in Requests
  PROVE  /\ DOMAIN attempts[r] = 1..Len(attempts[r]) /\ Len(attempts[r]) \in Nat
         /\ DOMAIN attempts'[r] = 1..Len(attempts'[r]) /\ Len(attempts'[r]) \in Nat
         /\ \A i \in DOMAIN attempts[r] : attempts[r][i] \in Attempt
         /\ \A i \in DOMAIN attempts'[r] : attempts'[r][i] \in Attempt
<1>1. attempts[r] \in Seq(Attempt) /\ attempts'[r] \in Seq(Attempt)
  BY DEF TypeInv, TypeOK
<1> QED
  BY <1>1, LenProperties, ElementOfSeq

\* A call that was made stays made.
LEMMA CalledStays ==
  ASSUME TypeInv, TypeInv', NEW r \in Requests, Reworked(r), phase'[r] # "done",
         NEW t, Called(r, t)
  PROVE  \E i \in DOMAIN attempts'[r] :
           attempts'[r][i].target = t /\ attempts'[r][i].result # "skipped"
<1>1. PICK i \in 1..Len(attempts[r]) :
        attempts[r][i].target = t /\ attempts[r][i].result # "skipped"
  BY AttemptIndexes DEF Called
<1>2. CASE attempts'[r] = attempts[r]
  BY <1>1, <1>2, AttemptIndexes
<1>3. ASSUME NEW a \in Attempt, Extended(r, a)
      PROVE  i \in DOMAIN attempts'[r] /\ attempts'[r][i] = attempts[r][i]
  BY <1>1, <1>3, AttemptIndexes DEF Extended
<1>4. ASSUME NEW b \in Attempt, Rewritten(r, b), b.target = Last(r).target,
             b.result # "skipped"
      PROVE  i \in DOMAIN attempts'[r] /\ attempts'[r][i].target = t
               /\ attempts'[r][i].result # "skipped"
  BY <1>1, <1>4, AttemptIndexes DEF Rewritten, Last
<1> QED
  BY <1>1, <1>2, <1>3, <1>4 DEF Reworked

-----------------------------------------------------------------------------
(* The parts of the invariant, one lemma for each.                         *)

LEMMA FreshKept ==
  ASSUME TypeInv, NEW r \in Requests, Fresh(r), Moves(r)
  PROVE  Fresh(r)'
<1> USE DEF Fresh
<1>1. CASE Skipped(r) \/ Left(r) \/ Failed(r) \/ Held(r)
  BY <1>1 DEF Skipped, AtCandidate, Left, Failed, Onward, Held
<1>2. CASE Renewed(r) \/ Settled(r) \/ Advanced(r) \/ Chosen(r)
  BY <1>2 DEF Renewed, Settled, Onward, Advanced, Chosen
<1>3. CASE Restarted(r) \/ Relayed(r) \/ Begun(r) \/ Ended(r)
  BY <1>3 DEF Restarted, AtEnd, Relayed, Begun, Ended
<1> QED
  BY <1>1, <1>2, <1>3 DEF Moves

LEMMA LastAttemptKept ==
  ASSUME TypeInv, NEW r \in Requests, LastAttempt(r), Moves(r)
  PROVE  LastAttempt(r)'
<1>1. CASE Held(r)
  <2>1. PICK a \in Attempt : a.target = Current(r) /\ a.result = "failed" /\ Extended(r, a)
    BY <1>1, AddsExtends DEF Held, Adds
  <2> QED
    BY <1>1, <2>1 DEF Held, SameRoute, Extended, LastAttempt, Last, Current
<1>2. CASE Chosen(r)
  <2>1. PICK a \in Attempt : a.target = Current(r) /\ a.result = "success" /\ Extended(r, a)
    BY <1>2, AddsExtends DEF Chosen, Adds
  <2> QED
    BY <1>2, <2>1 DEF Chosen, Extended, LastAttempt, Last
<1>3. CASE phase'[r] \notin {"refreshing", "relay"}
  BY <1>3 DEF LastAttempt
<1> QED
  BY <1>1, <1>2, <1>3 DEF Moves, Skipped, Left, Failed, Onward, Renewed, Settled, Advanced,
     Restarted, Relayed, Begun, Ended

LEMMA FramedKept ==
  ASSUME TypeInv, NEW r \in Requests, Fresh(r), Framed(r), Moves(r)
  PROVE  Framed(r)'
<1> USE DEF Framed, Walking, Calling, Ordered
<1>1. CASE Skipped(r) \/ Left(r) \/ Failed(r) \/ Held(r)
  BY <1>1 DEF Skipped, AtCandidate, Left, Failed, Held, SameRoute, SameClient
<1>2. CASE Renewed(r) \/ Settled(r) \/ Advanced(r) \/ Chosen(r)
  BY <1>2 DEF Renewed, Settled, Advanced, Chosen, SameRoute, SameClient
<1>3. CASE Restarted(r) \/ Relayed(r) \/ Begun(r) \/ Ended(r)
  BY <1>3 DEF Restarted, AtEnd, Relayed, Begun, Ended, SameRoute, SameClient, Fresh
<1> QED
  BY <1>1, <1>2, <1>3 DEF Moves

\* The class of an exhausted chain is that of a cause that holds.
LEMMA ExhaustedCause ==
  ASSUME NEW r
  PROVE  /\ ExhaustedClass(r) = "translation_error" => "other" \notin verdict[r]
         /\ ExhaustedClass(r) = "unsupported_feature" =>
              AllAttempts(r, "skipped", "unsupported_feature")
<1> DEFINE Holds(i) == Causes(r)[i][1]
           First(i) == Holds(i) /\ \A j \in 1..(i - 1) : ~Holds(j)
<1>1. Holds(8)
  BY DEF Causes
<1> HIDE DEF Holds
<1>2. \E i \in 1..8 : First(i)
  <2> SUFFICES ASSUME \A i \in 1..8 : ~First(i) PROVE FALSE
    OBVIOUS
  <2>1. ~Holds(1)
    OBVIOUS
  <2>2. ~Holds(2)
    BY <2>1
  <2>3. ~Holds(3)
    BY <2>1, <2>2
  <2>4. ~Holds(4)
    BY <2>1, <2>2, <2>3
  <2>5. ~Holds(5)
    BY <2>1, <2>2, <2>3, <2>4
  <2>6. ~Holds(6)
    BY <2>1, <2>2, <2>3, <2>4, <2>5
  <2>7. ~Holds(7)
    BY <2>1, <2>2, <2>3, <2>4, <2>5, <2>6
  <2> QED
    BY <1>1, <2>1, <2>2, <2>3, <2>4, <2>5, <2>6, <2>7
<1>3. PICK first \in 1..8 : Holds(first) /\ ExhaustedClass(r) = Causes(r)[first][2]
  <2>1. First(CHOOSE i \in 1..8 : First(i)) /\ (CHOOSE i \in 1..8 : First(i)) \in 1..8
    BY <1>2
  <2> QED
    BY <2>1 DEF ExhaustedClass, Holds
<1>4. ASSUME ExhaustedClass(r) = "translation_error" PROVE first = 2
  BY <1>3, <1>4 DEF Causes, TooLarge
<1>5. ASSUME ExhaustedClass(r) = "unsupported_feature" PROVE first = 6
  BY <1>3, <1>5 DEF Causes, TooLarge
<1>6. Holds(2) => "other" \notin verdict[r]
  BY DEF Holds, Causes
<1>7. Holds(6) => AllAttempts(r, "skipped", "unsupported_feature")
  BY DEF Holds, Causes
<1> QED
  BY <1>3, <1>4, <1>5, <1>6, <1>7

\* A failed attempt stays failed while the request walks its chain.
LEMMA FailureStays ==
  ASSUME TypeInv, TypeInv', NEW r \in Requests, LastAttempt(r), Moves(r), Walking(r)',
         \E i \in DOMAIN attempts[r] : attempts[r][i].result = "failed"
  PROVE  \E i \in DOMAIN attempts'[r] : attempts'[r][i].result = "failed"
<1>1. PICK i \in 1..Len(attempts[r]) : attempts[r][i].result = "failed"
  BY AttemptIndexes
<1>2. CASE attempts'[r] = attempts[r]
  BY <1>1, <1>2, AttemptIndexes
<1>3. ASSUME NEW a \in Attempt, Extended(r, a)
      PROVE  i \in DOMAIN attempts'[r] /\ attempts'[r][i] = attempts[r][i]
  BY <1>1, <1>3, AttemptIndexes DEF Extended
<1>4. CASE Renewed(r)
  <2>1. PICK b \in Attempt : b.result = Last(r).result /\ Rewritten(r, b)
    BY <1>4, RenewedRewrites
  <2>2. Last(r).result = "failed"
    BY <1>4 DEF Renewed, LastAttempt
  <2> QED
    BY <1>1, <2>1, <2>2, AttemptIndexes DEF Rewritten
<1>5. ~Relayed(r) /\ ~Ended(r)
  BY DEF Relayed, Ended, Walking, Calling
<1>6. \/ attempts'[r] = attempts[r]
      \/ \E a \in Attempt : Extended(r, a)
      \/ Renewed(r)
  BY <1>5, AddsExtends DEF Moves, Skipped, Left, Failed, Held, Settled, Advanced, Chosen,
     Restarted, Begun, Adds
<1> QED
  BY <1>1, <1>2, <1>3, <1>4, <1>6

LEMMA MarkedKept ==
  ASSUME TypeInv, TypeInv', NEW r \in Requests, Fresh(r), LastAttempt(r), Marked(r), Moves(r)
  PROVE  Marked(r)'
<1>0. /\ pos[r] \in Nat \ {0} /\ plan[r] \in Routes
      /\ phase[r] = "relay" => serving[r] # NoTarget
  BY DEF TypeInv, TypeOK, Located
<1>1. CASE Skipped(r)
  <2>1. Faulted(r)' => \E i \in DOMAIN attempts'[r] : attempts'[r][i].result = "failed"
    BY <1>1, FailureStays DEF Marked, Skipped, AtCandidate, Walking, Calling, Faulted, Innocent
  <2> QED
    BY <1>0, <1>1, <2>1 DEF Marked, Skipped, AtCandidate, Walking, Calling, Faulted, Innocent,
       SameRoute, Ordered, Virtual
<1>2. CASE Failed(r) \/ Held(r)
  <2>1. PICK a \in Attempt : a.result = "failed" /\ Extended(r, a)
    BY <1>2, AddsExtends DEF Failed, Held, Adds
  <2>2. \E i \in DOMAIN attempts'[r] : attempts'[r][i].result = "failed"
    BY <2>1, AttemptIndexes DEF Extended
  <2>3. CASE Failed(r)
    BY <1>0, <2>2, <2>3 DEF Marked, Failed, Onward, FailureClasses, OtherFlag, Walking, Calling,
       SameRoute, Ordered, Virtual
  <2>4. CASE Held(r)
    BY <1>0, <2>2, <2>4 DEF Marked, Held, OtherFlag, Walking, Calling, Faulted, Innocent,
       SameRoute, Ordered, Virtual
  <2> QED
    BY <1>2, <2>3, <2>4
<1>3. CASE Left(r)
  <2>1. CASE AtCandidate(r) /\ ~Virtual(r)
    <3>1. pos[r] = 1
      <4>1. plan[r].mode = "real"
        BY <2>1 DEF Virtual
      <4>2. Len(plan[r].chain) = 1
        BY <1>0, <4>1, DirectAssumption
      <4> QED
        BY <1>0, <2>1, <4>2 DEF AtCandidate
    <3> QED
      BY <1>3, <2>1, <3>1 DEF Marked, Left, AtCandidate, Walking, Calling, Faulted, Innocent
  <2>2. CASE error'[r] \in {ClientFailure, "invalid_request"}
    BY <1>3, <2>2 DEF Marked, Left, Walking, Calling, ClientFailure
  <2>3. CASE error'[r] = ExhaustedClass(r)
    <3>1. ASSUME error'[r] = "unsupported_feature", Faulted(r) PROVE FALSE
      BY <1>3, <2>3, <3>1, ExhaustedCause, AttemptIndexes
      DEF Marked, Left, Walking, AllAttempts
    <3>2. ASSUME error'[r] = "translation_error", Faulted(r) PROVE FALSE
      BY <1>3, <2>3, <3>2, ExhaustedCause DEF Marked, Left, Walking
    <3> QED
      BY <1>3, <3>1, <3>2 DEF Marked, Left, Walking, Calling, Faulted, Innocent
  <2> QED
    BY <1>3, <2>1, <2>2, <2>3 DEF Left
<1>4. CASE Settled(r)
  <2>1. \E i \in DOMAIN attempts'[r] : attempts'[r][i].result = "failed"
    <3>1. attempts[r] \in Seq(Attempt) /\ attempts[r] # << >>
      BY <1>4 DEF TypeInv, TypeOK, Located, Settled
    <3>2. Len(attempts[r]) \in DOMAIN attempts[r]
      BY <3>1, RewrittenLast
    <3> QED
      BY <1>4, <3>2 DEF Settled, LastAttempt, Last
  <2> QED
    BY <1>0, <1>4, <2>1 DEF Marked, Settled, Onward, FailureClasses, Walking, Calling, SameRoute,
       Ordered, Virtual
<1>5. CASE Renewed(r)
  <2>1. Faulted(r) => \E i \in DOMAIN attempts'[r] : attempts'[r][i].result = "failed"
    BY <1>5, FailureStays DEF Marked, Renewed, Walking, Calling
  <2> QED
    BY <1>5, <2>1 DEF Marked, Renewed, Walking, Calling, Faulted, Innocent, SameRoute, Ordered,
       Virtual
<1>6. CASE Advanced(r) \/ Restarted(r)
  BY <1>6 DEF Marked, Advanced, Restarted, AtEnd, Walking, Calling, Faulted, Innocent, SameRoute,
     Ordered, Virtual
<1>7. CASE Begun(r)
  BY <1>7 DEF Marked, Fresh, Begun, Walking, Calling, Faulted, Innocent
<1>8. CASE Chosen(r) \/ Relayed(r) \/ Ended(r)
  BY <1>0, <1>8 DEF Marked, Chosen, Relayed, Ended, Walking, Calling, SameClient
<1> QED
  BY <1>1, <1>2, <1>3, <1>4, <1>5, <1>6, <1>7, <1>8 DEF Moves

LEMMA PassedKept ==
  ASSUME TypeInv, TypeInv', NEW r \in Requests, Fresh(r), LastAttempt(r), Passed(r), Moves(r)
  PROVE  Passed(r)'
<1> DEFINE Tried(i) == plan[r].fit[plan[r].chain[i]] \in Callable =>
                          \/ Called(r, plan[r].chain[i])
                          \/ pass[r] = 0 /\ "skippedCooled" \in verdict[r]
<1>0. /\ pos[r] \in Nat \ {0} /\ plan[r].chain \in Seq(Targets)
      /\ pass[r] \in {0, 1} /\ Reworked(r)
  BY RoutesArePlans, MovesRework DEF TypeInv, TypeOK, Plan
<1>1. \A t : Called(r, t) /\ phase'[r] # "done" => Called(r, t)'
  BY <1>0, CalledStays DEF Called
<1>2. CASE Skipped(r)
  <2>1. \A i \in 1..(pos[r] - 1) : Tried(i)
    BY <1>2 DEF Passed, Skipped, AtCandidate, Walking
  <2>2. \A i \in 1..(pos'[r] - 1) : Tried(i)'
    <3> SUFFICES ASSUME NEW i \in 1..(pos'[r] - 1) PROVE Tried(i)'
      OBVIOUS
    <3>1. CASE i = pos[r]
      BY <1>2, <3>1 DEF Skipped, SameRoute, Fit, Current
    <3>2. CASE i # pos[r]
      <4>1. i \in 1..(pos[r] - 1)
        BY <1>0, <1>2, <3>2 DEF Skipped
      <4> QED
        BY <1>1, <1>2, <2>1, <4>1 DEF Skipped, SameRoute
    <3> QED
      BY <3>1, <3>2
  <2> QED
    BY <1>2, <2>2 DEF Passed, Skipped, Walking, Calling
<1>3. CASE Failed(r) \/ Settled(r)
  <2>1. \E i \in DOMAIN attempts'[r] :
          attempts'[r][i].target = Current(r) /\ attempts'[r][i].result # "skipped"
    <3>1. CASE Failed(r)
      <4>1. PICK a \in Attempt : a.target = Current(r) /\ a.result = "failed" /\ Extended(r, a)
        BY <3>1, AddsExtends DEF Failed
      <4>2. (Len(attempts[r]) + 1) \in DOMAIN attempts'[r]
        BY <4>1, AttemptIndexes DEF Extended
      <4> QED
        BY <4>1, <4>2 DEF Extended
    <3>2. CASE Settled(r)
      <4>1. attempts[r] \in Seq(Attempt) /\ attempts[r] # << >>
        BY <3>2 DEF TypeInv, TypeOK, Located, Settled
      <4>2. Len(attempts[r]) \in DOMAIN attempts[r]
        BY <4>1, RewrittenLast
      <4> QED
        BY <3>2, <4>2 DEF Settled, LastAttempt, Last
    <3> QED
      BY <1>3, <3>1, <3>2
  <2>2. \A i \in 1..(pos[r] - 1) : Tried(i)
    BY <1>3 DEF Passed, Failed, Settled, Walking, Calling
  <2>3. /\ SameRoute(r) /\ Onward(r)
        /\ "skippedCooled" \in verdict[r] => "skippedCooled" \in verdict'[r]
    BY <1>3 DEF Failed, Settled, OtherFlag
  <2>4. CASE phase'[r] = "loop"
    <3>1. \A i \in 1..(pos'[r] - 1) : Tried(i)'
      <4> SUFFICES ASSUME NEW i \in 1..(pos'[r] - 1) PROVE Tried(i)'
        OBVIOUS
      <4>1. CASE i = pos[r]
        BY <2>1, <2>3, <4>1 DEF SameRoute, Current, Called
      <4>2. CASE i # pos[r]
        <5>1. i \in 1..(pos[r] - 1)
          BY <1>0, <2>3, <2>4, <4>2 DEF Onward
        <5> QED
          BY <1>1, <2>2, <2>3, <2>4, <5>1 DEF SameRoute
      <4> QED
        BY <4>1, <4>2
    <3> QED
      BY <2>4, <3>1 DEF Passed, Walking, Calling
  <2>5. CASE phase'[r] = "finish"
    BY <2>3, <2>5 DEF Passed, Walking, Calling, Onward, FailureClasses
  <2> QED
    BY <2>3, <2>4, <2>5 DEF Onward
<1>4. CASE Held(r) \/ Renewed(r) \/ Advanced(r)
  <2>1. /\ pos'[r] = pos[r] /\ SameRoute(r) /\ Walking(r) /\ phase'[r] \notin {"finish", "done"}
        /\ "skippedCooled" \in verdict[r] => "skippedCooled" \in verdict'[r]
    BY <1>4 DEF Held, Renewed, Advanced, OtherFlag, Walking, Calling
  <2> QED
    BY <1>1, <2>1 DEF Passed, SameRoute
<1>5. CASE Left(r)
  <2>1. ASSUME error'[r] = "virtual_model_unavailable", NEW i \in DOMAIN plan[r].chain
        PROVE  Tried(i)
    <3>1. AtEnd(r)
      BY <1>5, <2>1 DEF Left, ClientFailure, SkipClasses
    <3>2. i \in 1..(pos[r] - 1)
      BY <1>0, <2>1, <3>1 DEF AtEnd
    <3> QED
      BY <1>5, <3>2 DEF Passed, Left, Walking
  <2>2. error'[r] = "virtual_model_unavailable" => pass[r] = 1 \/ "skippedCooled" \notin verdict[r]
    BY <1>5 DEF Left, ClientFailure, SkipClasses
  <2> QED
    BY <1>1, <1>5, <2>1, <2>2 DEF Passed, Left, Walking, Calling, SameRoute
<1>6. CASE Restarted(r) \/ Begun(r)
  <2>1. pos'[r] = 1 /\ phase'[r] = "loop"
    BY <1>6 DEF Restarted, Begun, Fresh
  <2> QED
    BY <2>1 DEF Passed
<1>7. CASE Relayed(r)
  BY <1>7 DEF Passed, Relayed, Walking, Calling, Fresh
<1>8. CASE Chosen(r) \/ Ended(r)
  BY <1>8 DEF Passed, Chosen, Ended, Walking, Calling
<1> QED
  BY <1>2, <1>3, <1>4, <1>5, <1>6, <1>7, <1>8 DEF Moves

LEMMA ToldKept ==
  ASSUME TypeInv, TypeInv', NEW r \in Requests, LastAttempt(r), Told(r), Moves(r)
  PROVE  Told(r)'
<1> SUFFICES ASSUME NEW i \in Telling(r)', attempts'[r][i].result = "failed"
             PROVE  \/ attempts'[r][i].target \in blame'[r]
                    \/ r \in starved'
                    \/ phase'[r] = "refreshing" /\ i = Len(attempts'[r])
  BY DEF Told
<1>1. i \in DOMAIN attempts'[r] /\ ~attempts'[r][i].recovered /\ ~ClientCaused(attempts'[r][i])
  BY DEF Telling
<1>2. ASSUME i \in DOMAIN attempts[r], attempts'[r][i] = attempts[r][i]
      PROVE  \/ attempts[r][i].target \in blame[r]
             \/ r \in starved
             \/ phase[r] = "refreshing" /\ i = Len(attempts[r])
  BY <1>1, <1>2 DEF Told, Telling
<1>3. CASE Left(r) \/ Advanced(r) \/ Restarted(r) \/ Begun(r)
  BY <1>1, <1>2, <1>3 DEF Left, Advanced, Restarted, AtEnd, Begun, Innocent
<1>4. CASE Ended(r)
  BY <1>1, <1>4, EmptySeq DEF Ended
<1>5. CASE Settled(r)
  BY <1>1, <1>2, <1>5 DEF Settled, LastAttempt, Last
<1>6. ASSUME NEW a \in Attempt, Extended(r, a), i # Len(attempts[r]) + 1
      PROVE  i \in DOMAIN attempts[r] /\ attempts'[r][i] = attempts[r][i]
  BY <1>1, <1>6, AttemptIndexes DEF Extended
<1>7. CASE Skipped(r) \/ Chosen(r)
  <2>1. PICK a \in Attempt : a.result \in {"skipped", "success"} /\ Extended(r, a)
    BY <1>7, AddsExtends DEF Skipped, Chosen, Adds
  <2>2. i # Len(attempts[r]) + 1
    BY <2>1 DEF Extended
  <2> QED
    BY <1>2, <1>6, <1>7, <2>1, <2>2 DEF Skipped, AtCandidate, Chosen, Innocent
<1>8. CASE Held(r)
  <2>1. PICK a \in Attempt : Extended(r, a)
    BY <1>8, AddsExtends DEF Held, Adds
  <2>2. CASE i = Len(attempts[r]) + 1
    BY <1>8, <2>1, <2>2 DEF Held, Extended
  <2>3. CASE i # Len(attempts[r]) + 1
    BY <1>2, <1>6, <1>8, <2>1, <2>3 DEF Held, Innocent
  <2> QED
    BY <2>2, <2>3
<1>9. CASE Failed(r)
  <2>1. PICK a \in Attempt : /\ a.target = Current(r) /\ Extended(r, a)
                             /\ Current(r) \in blame'[r] \/ r \in starved' \/ ClientCaused(a)
    BY <1>9, AddsExtends DEF Failed
  <2>2. CASE i = Len(attempts[r]) + 1
    BY <1>1, <2>1, <2>2 DEF Extended
  <2>3. CASE i # Len(attempts[r]) + 1
    BY <1>2, <1>6, <1>9, <2>1, <2>3 DEF Failed
  <2> QED
    BY <2>2, <2>3
<1>10. ASSUME NEW b \in Attempt, Rewritten(r, b), i # Len(attempts[r])
       PROVE  i \in DOMAIN attempts[r] /\ attempts'[r][i] = attempts[r][i]
  BY <1>1, <1>10, AttemptIndexes DEF Rewritten
<1>11. CASE Renewed(r)
  <2>1. PICK b \in Attempt : b.recovered = TRUE /\ Rewritten(r, b)
    BY <1>11, RenewedRewrites
  <2>2. i # Len(attempts[r])
    BY <1>1, <2>1 DEF Rewritten
  <2> QED
    BY <1>2, <1>10, <1>11, <2>1, <2>2 DEF Renewed, Innocent
<1>12. CASE Relayed(r)
  <2>1. CASE attempts'[r] = attempts[r] /\ Innocent(r)
    BY <1>1, <1>2, <1>12, <2>1 DEF Relayed, Innocent
  <2>2. ASSUME NEW class \in Classes,
               attempts'[r] = [attempts[r] EXCEPT ![Len(attempts[r])] =
                                 [@ EXCEPT !.result = "failed", !.class = class]],
               \/ class = ClientFailure
               \/ serving[r] \in blame'[r]
               \/ r \in starved',
               blame[r] \subseteq blame'[r], r \in starved => r \in starved'
        PROVE  attempts'[r][i].target \in blame'[r] \/ r \in starved'
    <3>1. phase[r] = "relay" /\ Last(r).target = serving[r]
      BY <1>12 DEF Relayed, LastAttempt
    <3>2. PICK b \in Attempt : /\ b.target = Last(r).target /\ b.class = class
                               /\ Rewritten(r, b)
      BY <2>2, <3>1, BrokenRewrites
    <3>3. CASE i = Len(attempts[r])
      <4>1. attempts'[r][i] = b /\ class # ClientFailure
        BY <1>1, <3>2, <3>3 DEF Rewritten, ClientCaused
      <4> QED
        BY <2>2, <3>1, <3>2, <4>1
    <3>4. CASE i # Len(attempts[r])
      BY <1>2, <1>10, <2>2, <3>1, <3>2, <3>4
    <3> QED
      BY <3>3, <3>4
  <2> QED
    BY <1>12, <2>1, <2>2 DEF Relayed
<1> QED
  BY <1>3, <1>4, <1>5, <1>7, <1>8, <1>9, <1>11, <1>12 DEF Moves

-----------------------------------------------------------------------------
(* The calls of a request, counted.                                        *)

CallsOf(r) == {i \in DOMAIN attempts[r] : attempts[r][i].result # "skipped"}

LEMMA CallsFinite ==
  ASSUME TypeInv, NEW r \in Requests
  PROVE  IsFiniteSet(CallsOf(r)) /\ Calls(r) \in Nat /\ Calls(r) = Cardinality(CallsOf(r))
<1>1. attempts[r] \in Seq(Attempt)
  BY DEF TypeInv, TypeOK
<1>2. DOMAIN attempts[r] = 1..Len(attempts[r]) /\ Len(attempts[r]) \in Nat
  BY <1>1
<1>3. IsFiniteSet(DOMAIN attempts[r])
  BY <1>2, FS_Interval
<1>4. IsFiniteSet(CallsOf(r))
  BY <1>3, FS_Subset DEF CallsOf
<1> QED
  BY <1>4, FS_CardinalityType DEF Calls, CallsOf

\* A move adds a call only with a new attempt that is not skipped.
LEMMA CallsMove ==
  ASSUME TypeInv, TypeInv', NEW r \in Requests, LastAttempt(r)
  PROVE  /\ Skipped(r) \/ Left(r) \/ Renewed(r) \/ Settled(r) \/ Advanced(r) \/ Restarted(r)
              \/ Relayed(r) => Calls(r)' = Calls(r)
         /\ Failed(r) \/ Held(r) \/ Chosen(r) => Calls(r)' <= Calls(r) + 1
         /\ Calls(r) \in Nat /\ Calls(r)' \in Nat
<1>1. /\ IsFiniteSet(CallsOf(r)) /\ Calls(r) \in Nat /\ Calls(r) = Cardinality(CallsOf(r))
      /\ Calls(r)' \in Nat /\ Calls(r)' = Cardinality(CallsOf(r)')
  <2>1. IsFiniteSet(CallsOf(r)) /\ Calls(r) \in Nat /\ Calls(r) = Cardinality(CallsOf(r))
    BY CallsFinite
  <2>2. attempts'[r] \in Seq(Attempt)
    BY DEF TypeInv, TypeOK
  <2>3. DOMAIN attempts'[r] = 1..Len(attempts'[r]) /\ Len(attempts'[r]) \in Nat
    BY <2>2
  <2>4. IsFiniteSet(DOMAIN attempts'[r])
    BY <2>3, FS_Interval
  <2>5. IsFiniteSet(CallsOf(r)')
    BY <2>4, FS_Subset DEF CallsOf
  <2> QED
    BY <2>1, <2>5, FS_CardinalityType DEF Calls, CallsOf
<1>2. attempts'[r] = attempts[r] => Calls(r)' = Calls(r)
  BY DEF Calls
<1>4. ASSUME NEW a \in Attempt, Extended(r, a)
      PROVE  /\ a.result = "skipped" => Calls(r)' = Calls(r)
             /\ Calls(r)' <= Calls(r) + 1
  <2>1. \A i \in DOMAIN attempts'[r] : i \in DOMAIN attempts[r] \/ i = Len(attempts[r]) + 1
    BY <1>4, AttemptIndexes DEF Extended
  <2>2. DOMAIN attempts[r] \subseteq DOMAIN attempts'[r]
    BY <1>4, AttemptIndexes DEF Extended
  <2>3. \A i \in DOMAIN attempts[r] : attempts'[r][i] = attempts[r][i]
    BY <1>4, AttemptIndexes DEF Extended
  <2>4. attempts'[r][Len(attempts[r]) + 1] = a
    BY <1>4 DEF Extended
  <2>5. \/ CallsOf(r)' = CallsOf(r)
        \/ a.result # "skipped" /\ CallsOf(r)' = CallsOf(r) \cup {Len(attempts[r]) + 1}
    <3>1. CASE a.result = "skipped"
      BY <2>1, <2>2, <2>3, <2>4, <3>1 DEF CallsOf
    <3>2. CASE a.result # "skipped"
      <4>1. Len(attempts[r]) + 1 \in DOMAIN attempts'[r]
        BY <1>4, AttemptIndexes DEF Extended
      <4> QED
        BY <2>1, <2>2, <2>3, <2>4, <3>2, <4>1 DEF CallsOf
    <3> QED
      BY <3>1, <3>2
  <2>6. Cardinality(CallsOf(r) \cup {Len(attempts[r]) + 1}) \in
          {Cardinality(CallsOf(r)), Cardinality(CallsOf(r)) + 1}
    BY <1>1, FS_AddElement
  <2> DEFINE c == Cardinality(CallsOf(r))
  <2>7. c \in Nat /\ Calls(r) = c /\ Calls(r)' \in {c, c + 1}
    BY <1>1, <2>5, <2>6
  <2>8. a.result = "skipped" => Calls(r)' = c
    BY <1>1, <2>5
  <2> HIDE DEF c
  <2> QED
    BY <2>7, <2>8
<1>5. ASSUME NEW b \in Attempt, Rewritten(r, b), b.result # "skipped",
             Last(r).result # "skipped"
      PROVE  Calls(r)' = Calls(r)
  <2>1. CallsOf(r)' = CallsOf(r)
    <3>1. DOMAIN attempts'[r] = DOMAIN attempts[r]
      BY <1>5, AttemptIndexes DEF Rewritten
    <3>2. \A i \in DOMAIN attempts[r] :
            attempts'[r][i].result # "skipped" <=> attempts[r][i].result # "skipped"
      BY <1>5, AttemptIndexes DEF Rewritten, Last
    <3> QED
      BY <3>1, <3>2 DEF CallsOf
  <2> QED
    BY <1>1, <2>1
<1>6. ASSUME Skipped(r) PROVE Calls(r)' = Calls(r)
  <2>1. PICK a \in Attempt : a.result = "skipped" /\ Extended(r, a)
    BY <1>6, AddsExtends DEF Skipped, Adds
  <2> QED
    BY <1>4, <2>1
<1>7. ASSUME Failed(r) \/ Held(r) \/ Chosen(r) PROVE Calls(r)' <= Calls(r) + 1
  <2>1. PICK a \in Attempt : Extended(r, a)
    BY <1>7, AddsExtends DEF Failed, Held, Chosen, Adds
  <2> QED
    BY <1>4, <2>1
<1>8. ASSUME Renewed(r) PROVE Calls(r)' = Calls(r)
  <2>1. Last(r).result = "failed"
    BY <1>8 DEF Renewed, LastAttempt
  <2>2. PICK b \in Attempt : b.result = Last(r).result /\ Rewritten(r, b)
    BY <1>8, RenewedRewrites
  <2> QED
    BY <1>5, <2>1, <2>2
<1>9. ASSUME Relayed(r) PROVE Calls(r)' = Calls(r)
  <2>1. Last(r).result = "success" /\ phase[r] = "relay"
    BY <1>9 DEF Relayed, LastAttempt
  <2>2. \/ attempts'[r] = attempts[r]
        \/ \E b \in Attempt : b.result = "failed" /\ Rewritten(r, b)
    BY <1>9, <2>1, BrokenRewrites DEF Relayed
  <2> QED
    BY <1>2, <1>5, <2>1, <2>2
<1>10. ASSUME Left(r) \/ Settled(r) \/ Advanced(r) \/ Restarted(r)
       PROVE  Calls(r)' = Calls(r)
  BY <1>2, <1>10 DEF Left, Settled, Advanced, Restarted
<1> QED
  BY <1>1, <1>6, <1>7, <1>8, <1>9, <1>10

LEMMA BudgetKept ==
  ASSUME TypeInv, TypeInv', NEW r \in Requests, Fresh(r), LastAttempt(r), Budget(r), Moves(r)
  PROVE  Budget(r)'
<1> DEFINE l == Len(plan[r].chain)
           k == Cardinality(refreshed[r])
<1>0. /\ pos[r] \in Nat \ {0} /\ l \in Nat /\ pass[r] \in {0, 1}
      /\ phase[r] \in Calling => pos[r] <= l
      /\ k \in Nat /\ IsFiniteSet(refreshed[r]) /\ Before(r) \in Nat
  <2>1. plan[r].chain \in Seq(Targets)
    BY RoutesArePlans DEF TypeInv, TypeOK, Plan
  <2> QED
    BY <2>1, FS_CardinalityType DEF TypeInv, TypeOK, Located, Budget, Before
<1>1. /\ Skipped(r) \/ Left(r) \/ Renewed(r) \/ Settled(r) \/ Advanced(r) \/ Restarted(r)
           \/ Relayed(r) => Calls(r)' = Calls(r)
      /\ Failed(r) \/ Held(r) \/ Chosen(r) => Calls(r)' <= Calls(r) + 1
      /\ Calls(r) \in Nat /\ Calls(r)' \in Nat
  BY CallsMove
<1>2. SameRoute(r) => Before(r)' = Before(r) /\ Len(plan'[r].chain) = l
  BY DEF SameRoute, Before
<1>3. refreshed'[r] = refreshed[r] => Cardinality(refreshed'[r]) = k /\ IsFiniteSet(refreshed'[r])
  BY <1>0
<1>17. SameRoute(r) /\ refreshed'[r] = refreshed[r] =>
         /\ Before(r)' = Before(r) /\ Len(plan'[r].chain) = l
         /\ Cardinality(refreshed'[r]) = k /\ IsFiniteSet(refreshed'[r])
  BY <1>2, <1>3
<1> HIDE DEF l, k
<1>4. /\ phase[r] = "loop" => pos[r] <= l + 1
      /\ phase[r] \in {"loop", "sent", "preflight", "probe"} => Calls(r) <= Before(r) + (pos[r] - 1) + k
      /\ phase[r] = "refreshing" => Calls(r) <= Before(r) + pos[r] + k
      /\ phase[r] \in {"relay", "finish"} => Calls(r) <= Before(r) + l + k
  BY DEF Budget, l, k
<1>5. ASSUME IsFiniteSet(refreshed'[r]),
             phase'[r] = "loop" => pos'[r] <= Len(plan'[r].chain) + 1,
             phase'[r] \in {"loop", "sent", "preflight", "probe"} =>
               Calls(r)' <= Before(r)' + (pos'[r] - 1) + Cardinality(refreshed'[r]),
             phase'[r] = "refreshing" =>
               Calls(r)' <= Before(r)' + pos'[r] + Cardinality(refreshed'[r]),
             phase'[r] \in {"relay", "finish"} =>
               Calls(r)' <= Before(r)' + Len(plan'[r].chain) + Cardinality(refreshed'[r])
      PROVE  Budget(r)'
  BY <1>5 DEF Budget
<1> HIDE DEF Budget
<1>6. CASE Skipped(r)
  <2>1. pos[r] <= l
    BY <1>6 DEF Skipped, AtCandidate, l
  <2>2. Calls(r)' = Calls(r)
    BY <1>1, <1>6
  <2> QED
    <3>1. /\ Before(r)' = Before(r) /\ Len(plan'[r].chain) = l
          /\ Cardinality(refreshed'[r]) = k /\ IsFiniteSet(refreshed'[r])
      BY <1>6, <1>17 DEF Skipped
    <3>2. /\ phase'[r] = "loop" /\ pos'[r] = pos[r] + 1
          /\ Calls(r) <= Before(r) + (pos[r] - 1) + k
      BY <1>4, <1>6 DEF Skipped, AtCandidate
    <3>3. Calls(r) <= Before(r) + (pos'[r] - 1) + k
      BY <1>0, <1>1, <3>2
    <3> QED
      BY <1>0, <1>5, <2>1, <2>2, <3>1, <3>2, <3>3
<1>7. CASE Failed(r)
  <2>1. pos[r] <= l
    BY <1>7 DEF Failed, l
  <2>2. Calls(r)' <= Calls(r) + 1 /\ Calls(r) <= Before(r) + (pos[r] - 1) + k
    BY <1>1, <1>4, <1>7 DEF Failed
  <2>3. Calls(r)' <= Before(r) + pos[r] + k
    BY <1>0, <1>1, <2>2
  <2>4. Calls(r)' <= Before(r) + l + k
    BY <1>0, <1>1, <2>1, <2>3
  <2> QED
    <3>1. /\ Before(r)' = Before(r) /\ Len(plan'[r].chain) = l
          /\ Cardinality(refreshed'[r]) = k /\ IsFiniteSet(refreshed'[r])
      BY <1>2, <1>3, <1>7 DEF Failed
    <3>2. CASE phase'[r] = "loop" /\ pos'[r] = pos[r] + 1
      BY <1>0, <1>1, <1>5, <2>1, <2>3, <3>1, <3>2
    <3>3. CASE phase'[r] = "finish"
      BY <1>0, <1>1, <1>5, <2>4, <3>1, <3>3
    <3> QED
      BY <1>7, <3>2, <3>3 DEF Failed, Onward
<1>8. CASE Held(r)
  <2>1. /\ Calls(r)' <= Calls(r) + 1 /\ Calls(r) <= Before(r) + (pos[r] - 1) + k
        /\ phase'[r] = "refreshing" /\ pos'[r] = pos[r]
    BY <1>1, <1>4, <1>8 DEF Held
  <2>2. /\ Before(r)' = Before(r) /\ Len(plan'[r].chain) = l
        /\ Cardinality(refreshed'[r]) = k /\ IsFiniteSet(refreshed'[r])
    BY <1>8, <1>17 DEF Held
  <2>3. Calls(r)' <= Before(r) + pos[r] + k
    BY <1>0, <1>1, <2>1
  <2> QED
    BY <1>5, <2>1, <2>2, <2>3
<1>9. CASE Chosen(r)
  <2>1. /\ Calls(r)' <= Calls(r) + 1 /\ Calls(r) <= Before(r) + (pos[r] - 1) + k
        /\ pos[r] <= l /\ phase'[r] = "relay"
    BY <1>0, <1>1, <1>4, <1>9 DEF Chosen, Calling
  <2>2. /\ Before(r)' = Before(r) /\ Len(plan'[r].chain) = l
        /\ Cardinality(refreshed'[r]) = k /\ IsFiniteSet(refreshed'[r])
    BY <1>9, <1>17 DEF Chosen
  <2>3. Calls(r)' <= Before(r) + l + k
    BY <1>0, <1>1, <2>1
  <2> QED
    BY <1>5, <2>1, <2>2, <2>3
<1>10. CASE Renewed(r)
  <2>1. IsFiniteSet(refreshed'[r]) /\ Cardinality(refreshed'[r]) = k + 1
    <3>1. /\ Provider[Current(r)] \notin refreshed[r]
          /\ refreshed'[r] = refreshed[r] \cup {Provider[Current(r)]}
      BY <1>10 DEF Renewed, LastAttempt
    <3>2. Cardinality(refreshed[r]) = k
      BY DEF k
    <3> DEFINE old == refreshed[r]
               new == Provider[Current(r)]
    <3>3. IsFiniteSet(old) /\ new \notin old
      BY <1>0, <3>1
    <3> HIDE DEF old, new
    <3>4. IsFiniteSet(old \cup {new}) /\ Cardinality(old \cup {new}) = Cardinality(old) + 1
      BY <3>3, FS_AddElement
    <3> QED
      BY <3>1, <3>2, <3>4 DEF old, new
  <2>2. pos[r] <= l /\ Calls(r)' = Calls(r)
    BY <1>0, <1>1, <1>10 DEF Renewed, Calling
  <2> QED
    BY <1>0, <1>1, <1>2, <1>4, <1>5, <1>10, <2>1, <2>2 DEF Renewed
<1>11. CASE Settled(r)
  <2>1. pos[r] <= l /\ Calls(r)' = Calls(r)
    BY <1>0, <1>1, <1>11 DEF Settled, Calling
  <2>2. /\ Before(r)' = Before(r) /\ Len(plan'[r].chain) = l
        /\ Cardinality(refreshed'[r]) = k /\ IsFiniteSet(refreshed'[r])
    BY <1>11, <1>17 DEF Settled
  <2>3. Calls(r) <= Before(r) + pos[r] + k
    BY <1>4, <1>11 DEF Settled
  <2>4. Calls(r) <= Before(r) + l + k
    BY <1>0, <1>1, <2>1, <2>3
  <2>5. CASE phase'[r] = "loop" /\ pos'[r] = pos[r] + 1
    BY <1>0, <1>1, <1>5, <2>1, <2>2, <2>3, <2>5
  <2>6. CASE phase'[r] = "finish"
    BY <1>5, <2>1, <2>2, <2>4, <2>6
  <2> QED
    BY <1>11, <2>5, <2>6 DEF Settled, Onward
<1>12. CASE Left(r) \/ Advanced(r)
  <2>1. /\ Calls(r)' = Calls(r) /\ pos'[r] = pos[r]
        /\ phase[r] \in {"loop", "sent", "preflight"} /\ (phase[r] = "loop" => pos[r] <= l + 1)
    BY <1>1, <1>4, <1>12 DEF Left, Advanced
  <2>2. /\ Before(r)' = Before(r) /\ Len(plan'[r].chain) = l
        /\ Cardinality(refreshed'[r]) = k /\ IsFiniteSet(refreshed'[r])
    BY <1>12, <1>17 DEF Left, Advanced
  <2>3. Calls(r) <= Before(r) + (pos[r] - 1) + k
    BY <1>4, <2>1
  <2>4. CASE Left(r)
    <3>1. phase'[r] = "finish" /\ phase[r] = "loop"
      BY <2>4 DEF Left
    <3>2. Calls(r) <= Before(r) + l + k
      BY <1>0, <1>1, <2>1, <2>3, <3>1
    <3> QED
      BY <1>5, <2>1, <2>2, <3>1, <3>2
  <2>5. CASE Advanced(r)
    <3>1. phase'[r] \in {"sent", "preflight", "probe"}
      BY <2>5 DEF Advanced
    <3> QED
      BY <1>5, <2>1, <2>2, <2>3, <3>1
  <2> QED
    BY <1>12, <2>4, <2>5
<1>13. CASE Relayed(r)
  <2>1. /\ Calls(r)' = Calls(r) /\ phase'[r] = "finish"
        /\ Calls(r) <= Before(r) + l + k
    BY <1>1, <1>4, <1>13 DEF Relayed
  <2>2. /\ Before(r)' = Before(r) /\ Len(plan'[r].chain) = l
        /\ Cardinality(refreshed'[r]) = k /\ IsFiniteSet(refreshed'[r])
    BY <1>13, <1>17 DEF Relayed
  <2> QED
    BY <1>5, <2>1, <2>2
<1>14. CASE Restarted(r)
  <2>1. /\ Calls(r)' = Calls(r) /\ Before(r) = 0 /\ Before(r)' = l
        /\ Len(plan'[r].chain) = l /\ pos[r] <= l + 1 /\ pos'[r] = 1
    BY <1>1, <1>4, <1>14 DEF Restarted, AtEnd, Before, l
  <2> QED
    BY <1>0, <1>1, <1>3, <1>4, <1>5, <1>14, <2>1 DEF Restarted, AtEnd
<1>15. CASE Begun(r)
  <2>1. /\ CallsOf(r)' = {} /\ refreshed'[r] = {} /\ pos'[r] = 1 /\ pass'[r] = 0
        /\ phase'[r] = "loop"
    BY <1>15, EmptySeq DEF Begun, Fresh, CallsOf
  <2>2. Calls(r)' = 0
    BY <2>1, FS_EmptySet DEF Calls, CallsOf
  <2>3. plan'[r].chain \in Seq(Targets)
    BY RoutesArePlans DEF TypeInv, TypeOK, Plan
  <2>4. Len(plan'[r].chain) \in Nat
    BY <2>3
  <2>5. Before(r)' = 0 /\ IsFiniteSet(refreshed'[r]) /\ Cardinality(refreshed'[r]) = 0
    BY <2>1, FS_EmptySet DEF Before
  <2> QED
    BY <1>5, <2>1, <2>2, <2>4, <2>5
<1>16. CASE Ended(r)
  BY <1>5, <1>16, FS_EmptySet DEF Ended
<1> QED
  BY <1>6, <1>7, <1>8, <1>9, <1>10, <1>11, <1>12, <1>13, <1>14, <1>15, <1>16 DEF Moves

-----------------------------------------------------------------------------
(* The invariant holds, and what follows from it.                          *)

LEMMA UntouchedKept ==
  ASSUME TypeInv, NEW r \in Requests, Journey(r), Untouched(r)
  PROVE  Journey(r)'
<1> USE DEF Untouched
<1>1. Fresh(r)' /\ LastAttempt(r)'
  BY DEF Journey, Fresh, LastAttempt, Last, Current
<1>2. Budget(r)'
  BY DEF Journey, Budget, Before, Calls
<1>3. Marked(r)' /\ Framed(r)'
  BY DEF Journey, Marked, Framed, Walking, Faulted, Ordered, Virtual
<1>4. Passed(r)'
  BY DEF Journey, Passed, Walking, Called
<1>5. Told(r)'
  BY DEF Journey, Told, Telling
<1> QED
  BY <1>1, <1>2, <1>3, <1>4, <1>5 DEF Journey

JourneyInv == TypeInv /\ \A r \in Requests : Journey(r)

LEMMA InitJourney == Init => JourneyInv
<1> SUFFICES ASSUME Init, NEW r \in Requests PROVE Journey(r)
  BY InitTypeInv DEF JourneyInv
<1>1. Fresh(r) /\ LastAttempt(r) /\ Budget(r)
  BY FS_EmptySet DEF Init, Fresh, LastAttempt, Budget
<1>2. Marked(r) /\ Framed(r) /\ Passed(r)
  BY DEF Init, Marked, Framed, Passed, Walking, Calling
<1>3. Told(r)
  BY EmptySeq DEF Init, Told, Telling
<1> QED
  BY <1>1, <1>2, <1>3 DEF Journey

LEMMA NextJourney == JourneyInv /\ [Next]_vars => JourneyInv'
<1> SUFFICES ASSUME JourneyInv, [Next]_vars PROVE JourneyInv'
  OBVIOUS
<1>1. TypeInv /\ TypeInv'
  BY NextTypeInv DEF JourneyInv
<1>2. ASSUME NEW r \in Requests PROVE Journey(r)'
  <2>1. Journey(r)
    BY DEF JourneyInv
  <2>2. CASE Untouched(r)
    BY <1>1, <2>1, <2>2, UntouchedKept
  <2>3. CASE Moves(r)
    BY <1>1, <2>1, <2>3, FreshKept, LastAttemptKept, BudgetKept, MarkedKept, PassedKept,
       ToldKept, FramedKept DEF Journey
  <2> QED
    BY <1>1, <2>2, <2>3, StepMoves
<1> QED
  BY <1>1, <1>2 DEF JourneyInv

\* The inductive invariant of the candidate loop.
THEOREM JourneyInvariance == Spec => []JourneyInv
  BY InitJourney, NextJourney, PTL DEF Spec

\* The walk of a chain is bounded: each target is called at most once per pass,
\* plus once for each provider whose credential the request has refreshed.
THEOREM LoopEnds == Spec => []LoopIsBounded
<1>1. JourneyInv => LoopIsBounded
  <2> SUFFICES ASSUME JourneyInv, NEW r \in Requests, phase[r] # "idle"
               PROVE  Calls(r) <= (pass[r] + 1) * Len(plan[r].chain) + Cardinality(refreshed[r])
    BY DEF JourneyInv, TypeInv, LoopIsBounded, CallsBounded
  <2> DEFINE l == Len(plan[r].chain)
             k == Cardinality(refreshed[r])
  <2>1. /\ TypeInv /\ Budget(r) /\ Fresh(r)
        /\ pos[r] \in Nat \ {0} /\ phase[r] \in Phases /\ pass[r] \in {0, 1}
        /\ phase[r] \in Calling => pos[r] <= l
    BY DEF JourneyInv, Journey, TypeInv, TypeOK, Located
  <2>2. l \in Nat /\ k \in Nat /\ Calls(r) \in Nat
    <3>1. plan[r].chain \in Seq(Targets)
      BY RoutesArePlans, <2>1 DEF TypeInv, TypeOK, Plan
    <3> QED
      BY <2>1, <3>1, CallsFinite, FS_CardinalityType DEF Budget
  <2>3. (pass[r] + 1) * l = Before(r) + l
    <3>1. CASE pass[r] = 0
      BY <2>2, <3>1 DEF Before
    <3>2. CASE pass[r] = 1
      BY <2>2, <3>2 DEF Before
    <3> QED
      BY <2>1, <3>1, <3>2
  <2>4. Before(r) \in Nat
    BY <2>1, <2>2 DEF Before
  <2>5. CASE phase[r] = "done"
    <3>1. CallsOf(r) = {}
      BY <2>1, <2>5, EmptySeq DEF Fresh, CallsOf
    <3>2. Calls(r) = 0
      BY <3>1, FS_EmptySet DEF Calls, CallsOf
    <3> QED
      BY <2>2, <2>3, <2>4, <3>2
  <2>6. CASE phase[r] # "done"
    <3>1. /\ phase[r] \in {"loop", "sent", "preflight", "probe"} =>
               pos[r] <= l + 1 /\ Calls(r) <= Before(r) + (pos[r] - 1) + k
          /\ phase[r] = "refreshing" => pos[r] <= l /\ Calls(r) <= Before(r) + pos[r] + k
          /\ phase[r] \in {"relay", "finish"} => Calls(r) <= Before(r) + l + k
      BY <2>1, <2>2 DEF Budget, Calling
    <3>2. phase[r] \in {"loop", "sent", "preflight", "probe", "refreshing", "relay", "finish"}
      BY <2>1, <2>6 DEF Phases
    <3> HIDE DEF l, k
    <3>3. Calls(r) <= Before(r) + l + k
      BY <2>1, <2>2, <2>4, <3>1, <3>2
    <3> QED
      BY <2>3, <3>3 DEF l, k
  <2> QED
    BY <2>5, <2>6
<1> QED
  BY <1>1, JourneyInvariance, PTL

\* An error that blames the request for its translation or its options is given
\* only when no target has failed it and the buffer gate has not starved it.
THEOREM BlameIsHonest == Spec => []RequestBlameIsHonest
<1>1. JourneyInv => RequestBlameIsHonest
  BY DEF JourneyInv, Journey, RequestBlameIsHonest, Fresh, Marked, Faulted
<1> QED
  BY <1>1, JourneyInvariance, PTL

\* An ordered chain is reported exhausted only after every target that could be
\* called has been called, those skipped as cooling in the bypass pass.
THEOREM TriedBeforeExhausted == Spec => []ExhaustedMeansTried
<1>1. JourneyInv => ExhaustedMeansTried
  BY DEF JourneyInv, Journey, ExhaustedMeansTried, Fresh, Passed
<1> QED
  BY <1>1, JourneyInvariance, PTL

-----------------------------------------------------------------------------
(* The last outcomes.                                                      *)

\* Only the deferred calls of a request write outcomes.
LEMMA HealthStep ==
  ASSUME TypeInv, [Next]_vars
  PROVE  UNCHANGED health \/ \E r \in Requests : Finish(r)
<1>1. ASSUME NEW r \in Requests, Relay(r) PROVE UNCHANGED health
  BY <1>1 DEF Relay, StreamEnds, StreamBreaks, AggregateEnds, AggregateBreaks, BodyRelayed,
     BodyRefused, BodyCut, RelayEnds, RelayBreaks, shared
<1>2. ASSUME NEW r \in Requests, Decide(r) PROVE UNCHANGED health
  BY <1>2 DEF Decide, StopForClient, SkipUnavailable, SkipCooled, SkipUnfit, RejectUnfit,
     RejectMalformed, FailEndpoint, Send, SendError, HttpError, RefreshDone, RefreshFailed,
     StreamHeaders, BodyHeaders, NoBufferSlot, BodyTooLarge, BodyBreaks, PreflightFail,
     BodyArrives, ProbeFail, Select, NextPass, Exhaust, shared
<1>3. ASSUME \/ \E r \in Requests : ClientLeaves(r) \/ \E p \in Plans[r] : Begin(r, p)
             \/ Tick
             \/ \E t \in Targets : AdminRelease(TargetName[t])
             \/ \E seconds \in Settings : SaveSetting(seconds)
             \/ UNCHANGED vars
      PROVE  UNCHANGED health
  BY <1>3 DEF ClientLeaves, Begin, Tick, AdminRelease, SaveSetting, vars, shared
<1> QED
  BY <1>1, <1>2, <1>3 DEF Next

LEMMA StarvedGrows ==
  ASSUME TypeInv, JourneyInv, [Next]_vars
  PROVE  starved \subseteq starved'
<1> SUFFICES ASSUME NEW r \in starved PROVE r \in starved'
  OBVIOUS
<1>1. r \in Requests
  BY DEF TypeInv, TypeOK
<1> QED
  BY <1>1, StepMoves DEF Moves, Untouched, Skipped, Left, Failed, Held, Renewed, Settled,
     Advanced, Chosen, Restarted, Relayed, Begun, Ended, Innocent

\* No outcome is written without a request that has learnt it.
HealthInv ==
  /\ HealthBlamesTarget
  /\ \A t \in Targets : health[t].result = "failed" => health[t].by \in Requests

\* A target is painted unhealthy only by a request it has failed itself, or
\* whose body found the buffer gate full.
THEOREM HealthIsFair == Spec => []HealthBlamesTarget
<1>1. Init => HealthInv
  BY DEF Init, HealthInv, HealthBlamesTarget
<1>2. JourneyInv /\ HealthInv /\ [Next]_vars => HealthInv'
  <2> SUFFICES ASSUME JourneyInv, HealthInv, [Next]_vars,
                      NEW t \in Targets, health'[t].result = "failed"
               PROVE  /\ t \in blame'[health'[t].by] \/ health'[t].by \in starved'
                      /\ health'[t].by \in Requests
    BY DEF HealthInv, HealthBlamesTarget
  <2>0. TypeInv
    BY DEF JourneyInv
  <2>1. /\ \A r \in Requests : blame[r] \subseteq blame'[r]
        /\ starved \subseteq starved'
    BY <2>0, BlameGrows, StarvedGrows
  <2>2. CASE health'[t] = health[t]
    <3>1. /\ t \in blame[health[t].by] \/ health[t].by \in starved
          /\ health[t].by \in Requests
      BY <2>2 DEF HealthInv, HealthBlamesTarget
    <3> QED
      BY <2>1, <2>2, <3>1
  <2>3. ASSUME NEW r \in Requests, Finish(r), health'[t] # health[t]
        PROVE  t \in blame'[r] \/ r \in starved'
    <3> DEFINE i == CHOOSE i \in LastTelling(r, t) : TRUE
    <3>1. LastTelling(r, t) # {} /\ health'[t] = [result |-> attempts[r][i].result, by |-> r]
      BY <2>3 DEF Finish
    <3>2. i \in LastTelling(r, t)
      BY <3>1
    <3> HIDE DEF i
    <3>3. i \in Telling(r) /\ attempts[r][i].target = t /\ attempts[r][i].result = "failed"
      BY <3>1, <3>2 DEF LastTelling
    <3>4. t \in blame[r] \/ r \in starved
      BY <2>3, <3>3 DEF JourneyInv, Journey, Told, Finish
    <3> QED
      BY <2>1, <3>4
  <2>4. ASSUME NEW r \in Requests, Finish(r), health'[t] # health[t]
        PROVE  health'[t].by = r
    BY <2>4 DEF Finish
  <2> QED
    BY <2>0, <2>2, <2>3, <2>4, HealthStep
<1>3. HealthInv => HealthBlamesTarget
  BY DEF HealthInv
<1> QED
  BY <1>1, <1>2, <1>3, JourneyInvariance, PTL DEF Spec

-----------------------------------------------------------------------------
(* The legs in flight.                                                     *)

\* The target a request keeps lit.
Leg(r) ==
  IF phase[r] \in {"sent", "preflight", "probe"} THEN Current(r)
  ELSE IF phase[r] \in {"relay", "finish"} THEN serving[r] ELSE NoTarget

LegMoves(r) ==
  \/ UNCHANGED legs /\ Leg(r)' = Leg(r)
  \/ \E t \in Targets : Leg(r) = NoTarget /\ Leg(r)' = t /\ LegStart(t)
  \/ \E t \in Targets : Leg(r) = t /\ Leg(r)' = NoTarget /\ LegEnd(t)

\* A call that ends puts out its leg.
LEMMA LegGoesOut ==
  ASSUME TypeInv, TypeInv', NEW r \in Requests, phase[r] \in {"sent", "preflight", "probe"},
         LegEnd(Current(r)), phase'[r] \in {"loop", "refreshing", "finish"}, UNCHANGED serving
  PROVE  LegMoves(r)
<1>1. Current(r) \in Targets
  BY CalledTargetType DEF Calling
<1>2. serving'[r] = NoTarget
  BY DEF TypeInv, Located
<1> QED
  BY <1>1, <1>2 DEF LegMoves, Leg

LEMMA DecideLegs ==
  ASSUME TypeInv, TypeInv', NEW r \in Requests, Decide(r)
  PROVE  LegMoves(r)
<1>0. serving[r] # NoTarget => phase[r] \in {"relay", "finish"}
  BY DEF TypeInv, Located
<1>1. CASE Send(r)
  <2>1. Current(r) \in Targets
    BY <1>1, CandidateType DEF TypeInv, Send, Eligible, AtCandidate
  <2>2. Leg(r) = NoTarget /\ Leg(r)' = Current(r)
    BY <1>1 DEF Send, Eligible, AtCandidate, Goto, Leg, Current, TypeInv, TypeOK, loop
  <2> QED
    BY <1>1, <2>1, <2>2 DEF Send, LegMoves
<1>2. CASE StreamHeaders(r) \/ BodyHeaders(r) \/ BodyArrives(r)
  <2>1. Leg(r)' = Leg(r)
    BY <1>2 DEF StreamHeaders, BodyHeaders, BodyArrives, Goto, Leg, Current, TypeInv, TypeOK, loop
  <2> QED
    BY <1>2, <2>1 DEF StreamHeaders, BodyHeaders, BodyArrives, LegMoves, shared
<1>3. CASE Select(r)
  <2>1. Leg(r)' = Leg(r)
    BY <1>3 DEF Select, Goto, Leg, TypeInv, TypeOK
  <2> QED
    BY <1>3, <2>1 DEF Select, LegMoves, shared
<1>4. CASE \/ StopForClient(r) \/ SkipUnavailable(r) \/ SkipCooled(r) \/ SkipUnfit(r)
           \/ RejectUnfit(r) \/ RejectMalformed(r) \/ FailEndpoint(r)
           \/ RefreshDone(r) \/ NextPass(r) \/ Exhaust(r)
  <2>1. /\ phase[r] \in {"loop", "refreshing"} /\ phase'[r] \in {"loop", "finish"}
        /\ UNCHANGED <<legs, serving>>
    BY <1>4 DEF StopForClient, SkipUnavailable, SkipCooled, SkipUnfit, RejectUnfit,
       RejectMalformed, FailEndpoint, RefreshDone, NextPass, Exhaust, Eligible, AtCandidate,
       AtEnd, NextCandidate, Goto, TypeInv, TypeOK, shared, client
  <2> QED
    BY <1>0, <2>1 DEF LegMoves, Leg
<1>5. ASSUME NEW class, SettleHttpFailure(r, class) PROVE phase'[r] \in {"loop", "finish"}
  BY <1>5 DEF SettleHttpFailure, NextCandidate, Goto, TypeInv, TypeOK
<1>6. CASE RefreshFailed(r)
  <2>1. /\ phase[r] = "refreshing" /\ phase'[r] \in {"loop", "finish"}
        /\ UNCHANGED <<legs, serving>>
    BY <1>5, <1>6 DEF RefreshFailed
  <2> QED
    BY <1>0, <2>1 DEF LegMoves, Leg
<1>7. CASE SendError(r) \/ \E class \in ProbeFailures : ProbeFail(r, class)
  <2>1. /\ phase[r] \in {"sent", "probe"} /\ phase'[r] \in {"loop", "finish"}
        /\ LegEnd(Current(r)) /\ UNCHANGED serving
    BY <1>7 DEF SendError, ProbeFail, NextCandidate, Goto, TypeInv, TypeOK
  <2> QED
    BY <2>1, LegGoesOut
<1>8. CASE NoBufferSlot(r) \/ BodyTooLarge(r) \/ BodyBreaks(r)
  <2>1. \A class : PreflightFail(r, class) =>
          /\ phase'[r] \in {"loop", "finish"}
          /\ LegEnd(Current(r)) /\ UNCHANGED serving
    BY DEF PreflightFail, NextCandidate, Goto, TypeInv, TypeOK
  <2> QED
    BY <1>8, <2>1, LegGoesOut DEF NoBufferSlot, BodyTooLarge, BodyBreaks
<1>9. ASSUME NEW class \in HttpReplies, HttpError(r, class) PROVE LegMoves(r)
  <2>1. phase'[r] \in {"loop", "refreshing", "finish"}
    <3>1. CASE Repairable(r, class)
      BY <1>9, <3>1 DEF HttpError, Goto, TypeInv, TypeOK
    <3>2. CASE ~Repairable(r, class)
      BY <1>5, <1>9, <3>2 DEF HttpError
    <3> QED
      BY <3>1, <3>2
  <2> QED
    BY <1>9, <2>1, LegGoesOut DEF HttpError
<1> QED
  BY <1>1, <1>2, <1>3, <1>4, <1>6, <1>7, <1>8, <1>9 DEF Decide

\* A step starts or ends at most the leg of the request that takes it.
LEMMA StepLegs ==
  ASSUME TypeInv, [Next]_vars
  PROVE  \/ UNCHANGED legs /\ \A r \in Requests : Leg(r)' = Leg(r)
         \/ \E q \in Requests : LegMoves(q) /\ \A r \in Requests \ {q} : Leg(r)' = Leg(r)
<1>0. TypeInv'
  BY NextTypeInv
<1>1. ASSUME NEW r \in Requests, Untouched(r) PROVE Leg(r)' = Leg(r)
  BY <1>1 DEF Untouched, Leg, Current
<1>2. ASSUME NEW q \in Requests,
             \/ \E p \in Plans[q] : Begin(q, p)
             \/ Decide(q) \/ Relay(q) \/ Finish(q) \/ ClientLeaves(q)
      PROVE  \A r \in Requests \ {q} : Leg(r)' = Leg(r)
  BY <1>1, <1>2, OthersUntouched
<1>3. ASSUME NEW q \in Requests,
             (\E p \in Plans[q] : Begin(q, p)) \/ Relay(q) \/ ClientLeaves(q)
      PROVE  LegMoves(q)
  <2>1. CASE (\E p \in Plans[q] : Begin(q, p)) \/ ClientLeaves(q)
    BY <2>1 DEF Begin, ClientLeaves, Goto, LegMoves, Leg, Current, TypeInv, TypeOK, Located,
       shared, loop, client
  <2>2. CASE Relay(q)
    <3>1. /\ phase[q] = "relay" /\ phase'[q] = "finish" /\ UNCHANGED <<legs, serving>>
      BY <2>2 DEF Relay, StreamEnds, StreamBreaks, AggregateEnds, AggregateBreaks, BodyRelayed,
         BodyRefused, BodyCut, RelayEnds, RelayBreaks, Goto, TypeInv, TypeOK, shared
    <3> QED
      BY <3>1 DEF LegMoves, Leg
  <2> QED
    BY <1>3, <2>1, <2>2
<1>4. ASSUME NEW q \in Requests, Finish(q) PROVE LegMoves(q)
  <2>1. legs \in [Targets -> Nat] /\ serving[q] \in Targets \cup {NoTarget}
    BY DEF TypeInv, TypeOK
  <2>2. Leg(q) = serving[q] /\ Leg(q)' = NoTarget
    BY <1>4 DEF Finish, Goto, Leg, TypeInv, TypeOK
  <2>3. legs' = [t \in Targets |->
                   IF t = serving[q] /\ legs[t] > 0 THEN legs[t] - 1 ELSE legs[t]]
    BY <1>4 DEF Finish
  <2>4. CASE serving[q] = NoTarget
    <3>1. legs' = legs
      BY <2>1, <2>3, <2>4, ChainAssumption
    <3> QED
      BY <2>2, <2>4, <3>1 DEF LegMoves
  <2>5. CASE serving[q] \in Targets
    <3>1. LegEnd(serving[q])
      <4> DEFINE s == serving[q]
                 ended == [legs EXCEPT ![s] = IF @ > 0 THEN @ - 1 ELSE 0]
      <4>1. ASSUME NEW t \in Targets PROVE legs'[t] = ended[t]
        <5>1. legs[t] \in Nat /\ legs'[t] = IF t = s /\ legs[t] > 0 THEN legs[t] - 1 ELSE legs[t]
          BY <2>1, <2>3
        <5>2. CASE t # s
          <6>1. ended[t] = legs[t]
            BY <2>1, <2>5, <5>2
          <6>2. legs'[t] = legs[t]
            BY <5>1, <5>2
          <6> QED
            BY <6>1, <6>2
        <5>3. CASE t = s /\ legs[t] > 0
          <6>1. ended[t] = legs[t] - 1
            BY <2>1, <2>5, <5>3
          <6>2. legs'[t] = legs[t] - 1
            BY <5>1, <5>3
          <6> QED
            BY <6>1, <6>2
        <5>4. CASE t = s /\ ~(legs[t] > 0)
          <6>1. ended[t] = 0
            BY <2>1, <2>5, <5>4
          <6>2. legs'[t] = legs[t] /\ legs[t] = 0
            BY <5>1, <5>4
          <6> QED
            BY <6>1, <6>2
        <5> QED
          BY <5>2, <5>3, <5>4
      <4>2. legs' \in [Targets -> Nat]
        BY <1>0 DEF TypeInv, TypeOK
      <4>3. ended = [t \in Targets |-> ended[t]]
        BY <2>1
      <4>4. legs' = [t \in Targets |-> legs'[t]]
        BY <4>2
      <4>5. legs' = ended
        <5> HIDE DEF ended
        <5> QED
          BY <4>1, <4>3, <4>4
      <4> QED
        BY <4>5 DEF LegEnd
    <3> QED
      BY <2>2, <2>5, <3>1 DEF LegMoves
  <2> QED
    BY <2>1, <2>4, <2>5
<1>5. ASSUME \/ Tick
             \/ \E t \in Targets : AdminRelease(TargetName[t])
             \/ \E seconds \in Settings : SaveSetting(seconds)
             \/ UNCHANGED vars
      PROVE  UNCHANGED legs /\ \A r \in Requests : Leg(r)' = Leg(r)
  BY <1>5 DEF Tick, AdminRelease, SaveSetting, Leg, Current, vars, shared, loop, client
<1> QED
  BY <1>0, <1>2, <1>3, <1>4, <1>5, DecideLegs DEF Next

LitBy(t) == {r \in Requests : Leg(r) = t}

LegInv == \A t \in Targets : IsFiniteSet(LitBy(t)) /\ legs[t] = Cardinality(LitBy(t))

\* The legs of a target are exactly those of the requests it is working on,
\* whichever way each of them fails, is repaired, is relayed or is left.
THEOREM LegsAreCounted == Spec => []LegsMatch
<1>1. Init => LegInv
  <2> SUFFICES ASSUME Init, NEW t \in Targets
               PROVE  IsFiniteSet(LitBy(t)) /\ legs[t] = Cardinality(LitBy(t))
    BY DEF LegInv
  <2>1. LitBy(t) = {}
    BY ChainAssumption DEF Init, LitBy, Leg
  <2> QED
    BY <2>1, FS_EmptySet DEF Init
<1>2. TypeInv /\ LegInv /\ [Next]_vars => LegInv'
  <2> SUFFICES ASSUME TypeInv, LegInv, [Next]_vars, NEW t \in Targets
               PROVE  IsFiniteSet(LitBy(t)') /\ legs'[t] = Cardinality(LitBy(t)')
    BY DEF LegInv
  <2>0. /\ IsFiniteSet(LitBy(t)) /\ legs[t] = Cardinality(LitBy(t))
        /\ legs \in [Targets -> Nat] /\ NoTarget # t /\ Cardinality(LitBy(t)) \in Nat
    BY ChainAssumption, FS_CardinalityType DEF LegInv, TypeInv, TypeOK
  <2>1. CASE UNCHANGED legs /\ \A r \in Requests : Leg(r)' = Leg(r)
    <3>1. LitBy(t)' = LitBy(t)
      BY <2>1 DEF LitBy
    <3> QED
      BY <2>0, <2>1, <3>1
  <2>2. ASSUME NEW q \in Requests, LegMoves(q), \A r \in Requests \ {q} : Leg(r)' = Leg(r)
        PROVE  IsFiniteSet(LitBy(t)') /\ legs'[t] = Cardinality(LitBy(t)')
    <3>1. CASE (Leg(q) = t <=> Leg(q)' = t) /\ legs'[t] = legs[t]
      <4>1. LitBy(t)' = LitBy(t)
        BY <2>2, <3>1 DEF LitBy
      <4> QED
        BY <2>0, <3>1, <4>1
    <3>2. CASE Leg(q) # t /\ Leg(q)' = t /\ legs'[t] = legs[t] + 1
      <4>1. LitBy(t)' = LitBy(t) \cup {q} /\ q \notin LitBy(t)
        BY <2>2, <3>2 DEF LitBy
      <4>2. IsFiniteSet(LitBy(t) \cup {q})
            /\ Cardinality(LitBy(t) \cup {q}) = Cardinality(LitBy(t)) + 1
        BY <2>0, <4>1, FS_AddElement
      <4> QED
        BY <2>0, <3>2, <4>1, <4>2
    <3>3. CASE Leg(q) = t /\ Leg(q)' # t /\ legs'[t] = IF legs[t] > 0 THEN legs[t] - 1 ELSE 0
      <4>1. LitBy(t)' = LitBy(t) \ {q} /\ q \in LitBy(t)
        BY <2>2, <3>3 DEF LitBy
      <4>2. /\ IsFiniteSet(LitBy(t) \ {q})
            /\ Cardinality(LitBy(t) \ {q}) = Cardinality(LitBy(t)) - 1
        BY <2>0, <4>1, FS_RemoveElement
      <4>3. Cardinality(LitBy(t) \ {q}) \in Nat
        BY <4>2, FS_CardinalityType
      <4> QED
        BY <2>0, <3>3, <4>1, <4>2, <4>3
    <3>4. CASE UNCHANGED legs /\ Leg(q)' = Leg(q)
      BY <3>1, <3>4
    <3>5. ASSUME NEW u \in Targets, Leg(q) = NoTarget, Leg(q)' = u, LegStart(u)
          PROVE  IsFiniteSet(LitBy(t)') /\ legs'[t] = Cardinality(LitBy(t)')
      BY <2>0, <3>1, <3>2, <3>5 DEF LegStart
    <3>6. ASSUME NEW u \in Targets, Leg(q) = u, Leg(q)' = NoTarget, LegEnd(u)
          PROVE  IsFiniteSet(LitBy(t)') /\ legs'[t] = Cardinality(LitBy(t)')
      BY <2>0, <3>1, <3>3, <3>6 DEF LegEnd
    <3> QED
      BY <2>2, <3>4, <3>5, <3>6 DEF LegMoves
  <2> QED
    BY <2>1, <2>2, StepLegs
<1>3. LegInv => LegsMatch
  <2> SUFFICES ASSUME LegInv, NEW t \in Targets
               PROVE  legs[t] = Cardinality({r \in Requests :
                        \/ phase[r] \in {"sent", "preflight", "probe"} /\ Current(r) = t
                        \/ phase[r] \in {"relay", "finish"} /\ serving[r] = t})
    BY DEF LegsMatch
  <2>1. LitBy(t) = {r \in Requests :
          \/ phase[r] \in {"sent", "preflight", "probe"} /\ Current(r) = t
          \/ phase[r] \in {"relay", "finish"} /\ serving[r] = t}
    BY ChainAssumption DEF LitBy, Leg
  <2> QED
    BY <2>1 DEF LegInv
<1> QED
  BY <1>1, <1>2, <1>3, TypeInvariance, PTL DEF Spec

\* Whichever way the requests end and however they interleave, the legs and the
\* slots of the buffer gate are held exactly while they are used.
THEOREM ResourcesAreHeld == Spec => []ResourcesHeld
  BY LegsAreCounted, GateIsSound, PTL DEF ResourcesHeld

-----------------------------------------------------------------------------
(* The framing of a committed stream.                                       *)

WellFormed(r) == \A t \in Targets : plan[r].fit[t] # "malformed"
SseAnswers    == {"sse_end", "sse_error"}

\* A step that ends the relay or the walk frames its answer as the client
\* stream asks: once that is committed, as SSE.
FramesAnswer(r) ==
  /\ plan'[r] = plan[r]
  /\ \/ ~committed'[r]
     \/ answers'[r] = answers[r] /\ committed'[r] = committed[r]
     \/ \E a \in SseAnswers : answers'[r] = Append(answers[r], a)

LEMMA TerminalErrorFrames ==
  ASSUME TypeOK, NEW r \in Requests, NEW class, TerminalError(r, class),
         UNCHANGED <<plan, committed>>
  PROVE  FramesAnswer(r)
BY DEF TerminalError, FramesAnswer, SseAnswers, TypeOK

\* Only a malformed body is refused without looking at the client stream.
LEMMA DecideFrames ==
  ASSUME TypeInv, NEW r \in Requests, Framed(r), WellFormed(r), Decide(r), phase'[r] = "finish"
  PROVE  FramesAnswer(r)
<1> USE DEF TypeInv
<1>1. CASE StopForClient(r) \/ Exhaust(r)
  BY <1>1, TerminalErrorFrames DEF StopForClient, Exhaust, loop
<1>2. CASE \/ SkipUnavailable(r) \/ SkipCooled(r) \/ SkipUnfit(r) \/ FailEndpoint(r)
           \/ Send(r) \/ RefreshDone(r) \/ StreamHeaders(r) \/ BodyHeaders(r)
           \/ BodyArrives(r) \/ Select(r) \/ NextPass(r)
  <2>1. phase'[r] # "finish"
    BY <1>2 DEF SkipUnavailable, SkipCooled, SkipUnfit, FailEndpoint, Send, RefreshDone,
       StreamHeaders, BodyHeaders, BodyArrives, Select, NextPass, NextCandidate, Goto,
       AtEnd, TypeOK
  <2> QED
    BY <2>1
<1>3. CASE RejectUnfit(r)
  <2>1. ~committed[r]
    BY <1>3 DEF RejectUnfit, Eligible, AtCandidate, Framed, Walking, Ordered, Virtual
  <2> QED
    BY <1>3, <2>1 DEF RejectUnfit, FramesAnswer, loop
<1>4. CASE RejectMalformed(r)
  <2>1. Current(r) \in Targets
    BY <1>4, CandidateType DEF RejectMalformed, Eligible, AtCandidate
  <2> QED
    BY <1>4, <2>1 DEF RejectMalformed, WellFormed, Fit
<1>5. CASE SendError(r) \/ \E class \in ProbeFailures : ProbeFail(r, class)
  <2>1. /\ UNCHANGED <<plan, committed>>
        /\ (\E class \in Classes : TerminalError(r, class)) \/ NextCandidate(r)
    BY <1>5, ClassForType DEF SendError, ProbeFail, Classes, TargetFailures
  <2>2. ~NextCandidate(r)
    BY DEF NextCandidate, Goto, TypeOK
  <2> QED
    BY <2>1, <2>2, TerminalErrorFrames
<1>6. ASSUME NEW class, PreflightFail(r, class) PROVE FramesAnswer(r)
  <2>1. UNCHANGED <<plan, committed>> /\ (TerminalError(r, class) \/ NextCandidate(r))
    BY <1>6 DEF PreflightFail
  <2>2. ~NextCandidate(r)
    BY DEF NextCandidate, Goto, TypeOK
  <2> QED
    BY <2>1, <2>2, TerminalErrorFrames
<1>7. CASE NoBufferSlot(r) \/ BodyTooLarge(r) \/ BodyBreaks(r)
  BY <1>6, <1>7 DEF NoBufferSlot, BodyTooLarge, BodyBreaks
<1>8. ASSUME NEW class, SettleHttpFailure(r, class), UNCHANGED <<plan, committed>>
      PROVE  FramesAnswer(r)
  <2>1. TerminalError(r, class) \/ NextCandidate(r)
    BY <1>8 DEF SettleHttpFailure
  <2>2. ~NextCandidate(r)
    BY DEF NextCandidate, Goto, TypeOK
  <2> QED
    BY <1>8, <2>1, <2>2, TerminalErrorFrames
<1>9. CASE RefreshFailed(r)
  BY <1>8, <1>9 DEF RefreshFailed
<1>10. CASE \E class \in HttpReplies : HttpError(r, class)
  <2>1. PICK class \in HttpReplies : HttpError(r, class)
    BY <1>10
  <2>2. ~Repairable(r, class)
    BY <2>1 DEF HttpError, Goto, TypeOK
  <2> QED
    BY <1>8, <2>1, <2>2 DEF HttpError
<1> QED
  BY <1>1, <1>2, <1>3, <1>4, <1>5, <1>7, <1>9, <1>10 DEF Decide

LEMMA RelayFrames ==
  ASSUME TypeInv, NEW r \in Requests, Framed(r), Relay(r)
  PROVE  FramesAnswer(r)
<1> USE DEF TypeInv, TypeOK, FramesAnswer, SseAnswers
<1>1. CASE StreamEnds(r) \/ StreamBreaks(r)
  BY <1>1 DEF StreamEnds, StreamBreaks, RelayEnds, RelayBreaks, Answer, loop
<1>2. CASE AggregateEnds(r) \/ AggregateBreaks(r)
  BY <1>2 DEF AggregateEnds, AggregateBreaks, RelayEnds, RelayBreaks, Framed, loop
<1>3. CASE BodyRelayed(r)
  BY <1>3 DEF BodyRelayed, RelayEnds, Answer, loop
<1>4. CASE BodyRefused(r) \/ BodyCut(r)
  BY <1>4 DEF BodyRefused, BodyCut, RelayBreaks
<1> QED
  BY <1>1, <1>2, <1>3, <1>4 DEF Relay

WellFormedIsFramed ==
  \A r \in Requests :
    WellFormed(r) /\ committed[r] =>
      \A i \in DOMAIN answers[r] : answers[r][i] \in SseAnswers

\* Whatever ends a request whose candidates all take its body, a client that
\* has been sent the head of an SSE stream is answered in SSE.
THEOREM WellFormedFraming == Spec => []WellFormedIsFramed
<1>1. Init => WellFormedIsFramed
  BY DEF Init, WellFormedIsFramed
<1>2. /\ TypeInv /\ JourneyInv /\ AnsweredOnce /\ WellFormedIsFramed
      /\ AnsweredOnce' /\ TypeInv' /\ [Next]_vars
      => WellFormedIsFramed'
  <2> SUFFICES ASSUME TypeInv, JourneyInv, AnsweredOnce, WellFormedIsFramed, AnsweredOnce',
                      TypeInv', [Next]_vars, NEW r \in Requests, WellFormed(r)', committed'[r],
                      NEW i \in DOMAIN answers'[r]
               PROVE  answers'[r][i] \in SseAnswers
    BY DEF WellFormedIsFramed
  <2>1. Framed(r)
    BY DEF JourneyInv, Journey
  <2>2. phase'[r] = "finish"
    <3>1. DOMAIN << >> = {}
      BY EmptySeq
    <3> QED
      BY <3>1 DEF AnsweredOnce
  <2>3. answers[r] \in Seq(Answers)
    BY DEF TypeInv, TypeOK
  <2>4. CASE FramesAnswer(r) /\ phase[r] # "finish"
    <3>1. answers[r] = << >>
      BY <2>4 DEF AnsweredOnce
    <3>2. answers'[r] # << >>
      BY EmptySeq
    <3>3. PICK a \in SseAnswers : answers'[r] = Append(<< >>, a)
      BY <2>4, <3>1, <3>2 DEF FramesAnswer
    <3> QED
      BY <3>3
  <2>5. CASE /\ plan'[r] = plan[r] /\ committed'[r] = committed[r] /\ answers'[r] = answers[r]
    BY <2>5 DEF WellFormedIsFramed, WellFormed
  <2>6. ASSUME NEW q \in Requests, Decide(q) \/ Relay(q)
        PROVE  answers'[r][i] \in SseAnswers
    <3>1. CASE q # r
      BY <2>5, <2>6, <3>1, OthersUntouched DEF Untouched
    <3>2. CASE q = r
      <4>1. plan'[r] = plan[r] /\ phase[r] # "finish"
        <5>1. Moves(r)
          BY <2>6, <3>2, LoopMoves, CallMoves, RelayMoves DEF Decide
        <5> QED
          BY <2>2, <5>1 DEF Moves, Skipped, Left, Failed, Held, Renewed, Settled, Advanced,
             Chosen, Restarted, Relayed, Begun, Ended, SameRoute
      <4>2. WellFormed(r)
        BY <4>1 DEF WellFormed
      <4>3. FramesAnswer(r)
        BY <2>1, <2>2, <2>6, <3>2, <4>2, DecideFrames, RelayFrames
      <4> QED
        BY <2>4, <4>1, <4>3
    <3> QED
      BY <3>1, <3>2
  <2>7. ASSUME NEW q \in Requests, (\E p \in Plans[q] : Begin(q, p)) \/ Finish(q)
        PROVE  answers'[r][i] \in SseAnswers
    <3>1. q # r
      BY <2>2, <2>7 DEF Begin, Finish, Goto, TypeInv, TypeOK
    <3> QED
      BY <2>5, <2>7, <3>1, OthersUntouched DEF Untouched
  <2>8. ASSUME NEW q \in Requests, ClientLeaves(q)
        PROVE  answers'[r][i] \in SseAnswers
    BY <2>5, <2>8 DEF ClientLeaves, loop
  <2>9. CASE \/ Tick
             \/ \E t \in Targets : AdminRelease(TargetName[t])
             \/ \E seconds \in Settings : SaveSetting(seconds)
             \/ UNCHANGED vars
    BY <2>5, <2>9 DEF Tick, AdminRelease, SaveSetting, vars, loop, client
  <2> QED
    BY <2>6, <2>7, <2>8, <2>9 DEF Next
<1> QED
  BY <1>1, <1>2, OneAnswer, JourneyInvariance, TypeInvariance, PTL DEF Spec

\* The contract of failAfterCommit, where no route has a candidate whose
\* normalizer refuses the body: RejectMalformed answers in JSON all the same.
THEOREM CommittedIsFramed ==
  ASSUME \A p \in Routes : \A t \in Targets : p.fit[t] # "malformed"
  PROVE  Spec => []CommittedStreamIsFramed
<1>1. TypeInv /\ WellFormedIsFramed => CommittedStreamIsFramed
  BY DEF WellFormedIsFramed, WellFormed, CommittedStreamIsFramed, SseAnswers, TypeInv, TypeOK
<1> QED
  BY <1>1, WellFormedFraming, TypeInvariance, PTL
=============================================================================
