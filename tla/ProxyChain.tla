----------------------------- MODULE ProxyChain -----------------------------
(***************************************************************************)
(* The inference proxy of internal/server/client.go: how a request walks   *)
(* the ordered candidates of its route, when a target is skipped, called,  *)
(* retried after a token refresh or cooled, when the client stream is      *)
(* committed, and what the client is answered.  Requests run concurrently  *)
(* and share the cooldown store, the in-flight target legs, the gate on    *)
(* buffered non-streaming bodies and the last-outcome table.               *)
(*                                                                         *)
(* A step is the code between two points where a request waits: for the    *)
(* response headers, for an error body and a token refresh, for the first  *)
(* body bytes, for the output probe and for the relay.  Upstream targets   *)
(* and the client are the environment: they may answer in any way, fail,   *)
(* or leave at any moment.                                                 *)
(***************************************************************************)
EXTENDS Cooldown, Sequences, FiniteSets

CONSTANTS
  Providers,      \* provider instances
  Provider,       \* the provider instance of each target
  OAuthProviders, \* the providers whose descriptor has AuthModeOAuth
  NoTarget,
  Plans,          \* the routes each request may resolve to, see Plan
  HttpReplies,    \* the failure classes a non-2xx reply may be given
  Settings,       \* values of the fallback_cooldown_seconds setting
  GateSize,       \* capacity of nonStreamBufferGate
  MaxTime         \* bound on the clock

ASSUME ChainAssumption ==
  /\ NoTarget \notin Targets
  /\ Provider \in [Targets -> Providers]
  /\ OAuthProviders \subseteq Providers
  /\ Settings \subseteq Nat
  /\ GateSize \in Nat
  /\ MaxTime \in Nat \ {0}

Modes == {"real", "fixed", "ordered_fallback"}

\* How a candidate fits a request, settled by its own data: the first check
\* of the loop body that turns it away, or whether its reply is translated.
Callable == {"native", "translated"}
Unfit    == {"free_model_requires_keyless", "protocol_unavailable",
             "untranslatable", "min_output"}
Fits     == Callable \cup Unfit \cup {"unavailable", "malformed", "invalid_upstream"}

\* A resolved route with what the request asks of it.  The targets of a chain
\* are distinct; a route that is not virtual has the one candidate.
Plan == [mode : Modes, chain : Seq(Targets), fit : [Targets -> Fits],
         nonstream : BOOLEAN]

Routes == UNION {Plans[r] : r \in Requests}

ASSUME PlansAssumption == Plans \in [Requests -> SUBSET Plan] /\ Routes # {}
ASSUME DirectAssumption == \A p \in Routes : p.mode = "real" => Len(p.chain) = 1

TargetFailures == {"upstream_unreachable", "upstream_read_error",
                   "upstream_stream_error", "empty_response"}
ClientFailure  == "client_cancelled"
TooLarge       == "upstream_response_too_large"

\* cooldownTrigger.  http_400, http_401 and http_500 stand for the statuses
\* that cool, http_422 for 405, 409, 413, 415 and 422.
CooldownTrigger(class) ==
  class \in TargetFailures \cup {"http_400", "http_401", "http_500", "free_tier_rejected"}

HttpClasses == {"http_400", "http_401", "http_422", "http_500", "free_tier_rejected",
                "context_limit_exceeded", "reasoning_roundtrip_required"}
ASSUME RepliesAssumption == HttpReplies \subseteq HttpClasses

SkipClasses == {"unavailable", "cooldown", "free_model_requires_keyless",
                "protocol_unavailable", "translation_error", "unsupported_feature"}
FinalErrors == {"invalid_request", "virtual_model_unavailable", "model_unavailable",
                "translation_error"}
Classes == {"none"} \cup SkipClasses \cup HttpClasses \cup TargetFailures
             \cup FinalErrors \cup {ClientFailure, TooLarge, "invalid_upstream"}

Attempt == [target : Targets, result : {"skipped", "failed", "success"},
            class : Classes, recovered : BOOLEAN, clientGone : BOOLEAN]

Answers == {"json_ok", "json_error", "sse_end", "sse_error"}
Phases  == {"idle", "loop", "sent", "refreshing", "preflight", "probe",
            "relay", "finish", "done"}

VARIABLES
  now,        \* the clock the cooldown windows are measured on
  setting,    \* the account's fallback_cooldown_seconds
  cooldown,   \* Server.cooldown
  legs,       \* inflightTracker.targetStates: Active per target
  gate,       \* the requests that hold a slot of nonStreamBufferGate
  health,     \* Server.lastOutcome
  phase,      \* where each request is
  plan,       \* resolvedRoute, immutable once resolved
  cool,       \* cooldownSeconds, read once by the request
  pass, pos,  \* the two loop counters
  refreshed,  \* oauthRefreshed
  attempts,   \* row.attempts
  verdict,    \* the flags that choose the error of an exhausted chain
  gone,       \* the request context has ended
  committed,  \* streamKeepalive # nil: a 200 SSE stream has been started
  streaming,  \* the upstream reply at hand is SSE
  serving,    \* activeTargetID
  answers,    \* complete answers written to the client, in order
  error,      \* row.errorText
  blame,      \* history: the targets that failed the request by their own doing
  starved     \* history: the requests the full buffer gate turned away

shared  == <<now, setting, cooldown, legs, gate, health>>
loop    == <<plan, cool, pass, pos, refreshed, attempts, verdict>>
client  == <<gone, committed, streaming, serving, answers, error>>
history == <<blame, starved>>
vars    == <<shared, phase, loop, client, history>>

\* The flags that are set of translationFailureClass, nonTranslationFailure,
\* protocolUnavailable, terminalPreflightClass = TooLarge and skippedCooled.
\* The two codes of the request translator are one class, translation_error.
Verdict == {"translation", "other", "protocol", "tooLarge", "skippedCooled"}

Outcome == [result : {"unknown", "success", "failed"}, by : Requests \cup {NoRequest}]

AnyPlan == CHOOSE p \in Routes : TRUE

Init ==
  /\ now = 1
  /\ setting \in Settings
  /\ cooldown = NoCooldowns
  /\ legs = [t \in Targets |-> 0]
  /\ gate = {}
  /\ health = [t \in Targets |-> [result |-> "unknown", by |-> NoRequest]]
  /\ phase = [r \in Requests |-> "idle"]
  /\ plan = [r \in Requests |-> AnyPlan]
  /\ cool = [r \in Requests |-> 0]
  /\ pass = [r \in Requests |-> 0]
  /\ pos = [r \in Requests |-> 1]
  /\ refreshed = [r \in Requests |-> {}]
  /\ attempts = [r \in Requests |-> << >>]
  /\ verdict = [r \in Requests |-> {}]
  /\ gone = [r \in Requests |-> FALSE]
  /\ committed = [r \in Requests |-> FALSE]
  /\ streaming = [r \in Requests |-> FALSE]
  /\ serving = [r \in Requests |-> NoTarget]
  /\ answers = [r \in Requests |-> << >>]
  /\ error = [r \in Requests |-> "none"]
  /\ blame = [r \in Requests |-> {}]
  /\ starved = {}

-----------------------------------------------------------------------------
(* The candidate at hand.                                                  *)

Virtual(r)  == plan[r].mode # "real"
Ordered(r)  == plan[r].mode = "ordered_fallback"
Current(r)  == plan[r].chain[pos[r]]
Fit(r)      == plan[r].fit[Current(r)]
AtCandidate(r) == phase[r] = "loop" /\ pos[r] <= Len(plan[r].chain)

\* Variant: the bypass pass does not bypass.
CoolingAlways(r) == Ordered(r) /\ cool[r] > 0 /\ Cooled(cooldown, Current(r), now)

\* A candidate that is available and not cooling for this request, so that
\* only its fit decides.
Cooling(r)  ==
  Ordered(r) /\ cool[r] > 0 /\ pass[r] = 0 /\ Cooled(cooldown, Current(r), now)
Eligible(r) == AtCandidate(r) /\ ~gone[r] /\ Fit(r) # "unavailable" /\ ~Cooling(r)

Goto(r, p)      == phase' = [phase EXCEPT ![r] = p]
NextCandidate(r) == Goto(r, "loop") /\ pos' = [pos EXCEPT ![r] = @ + 1]
Flag(r, flags)  == verdict' = [verdict EXCEPT ![r] = @ \cup flags]
Record(r, result, class, clientGone) ==
  attempts' = [attempts EXCEPT ![r] = Append(@,
    [target |-> Current(r), result |-> result, class |-> class,
     recovered |-> FALSE, clientGone |-> clientGone])]

\* inferenceError writes a JSON error whatever the state of the client stream.
InferenceError(r, class) ==
  /\ answers' = [answers EXCEPT ![r] = Append(@, "json_error")]
  /\ error' = [error EXCEPT ![r] = class]

\* Variant: the handler does not return after failAfterCommit.
TerminalErrorTwice(r, class) ==
  /\ answers' = [answers EXCEPT ![r] =
                   @ \o (IF committed[r] THEN <<"sse_error", "json_error">> ELSE <<"json_error">>)]
  /\ error' = [error EXCEPT ![r] = class]

\* failAfterCommit, else inferenceError: the terminal error of a committed
\* stream is an SSE frame.
TerminalError(r, class) ==
  /\ answers' = [answers EXCEPT ![r] =
                   Append(@, IF committed[r] THEN "sse_error" ELSE "json_error")]
  /\ error' = [error EXCEPT ![r] = class]

\* Variant: the window is opened whether or not the client is still there.
CoolDownAnyway(r, class, whateverTheClient) ==
  cooldown' =
    IF Ordered(r) /\ cool[r] > 0 /\ CooldownTrigger(class)
    THEN Open(cooldown, Current(r), now, now + cool[r], r)
    ELSE cooldown

\* openCooldown behind the guards of its callers.  The non-2xx path does not
\* ask whether the client is still there: the target has answered.
CoolDown(r, class, whateverTheClient) ==
  cooldown' =
    IF Ordered(r) /\ cool[r] > 0 /\ CooldownTrigger(class) /\ (whateverTheClient \/ ~gone[r])
    THEN Open(cooldown, Current(r), now, now + cool[r], r)
    ELSE cooldown

\* targetStart and targetEnd; an end without a start changes nothing.
LegStart(t) == legs' = [legs EXCEPT ![t] = @ + 1]
LegEnd(t)   == legs' = [legs EXCEPT ![t] = IF @ > 0 THEN @ - 1 ELSE 0]

\* clientFailureClass
ClassFor(r, class) == IF gone[r] THEN ClientFailure ELSE class

-----------------------------------------------------------------------------
(* The loop over the candidates up to the upstream call.                   *)

\* resolveRoute has found the route and beginClientRequest admitted it.
Begin(r, p) ==
  /\ phase[r] = "idle"
  /\ Goto(r, "loop")
  /\ plan' = [plan EXCEPT ![r] = p]
  /\ cool' = [cool EXCEPT ![r] = IF p.mode = "ordered_fallback" THEN setting ELSE 0]
  /\ UNCHANGED <<shared, pass, pos, refreshed, attempts, verdict, client, history>>

StopForClient(r) ==
  /\ AtCandidate(r)
  /\ gone[r]
  /\ TerminalError(r, ClientFailure)
  /\ Goto(r, "finish")
  /\ UNCHANGED <<shared, loop, gone, committed, streaming, serving, history>>

SkipUnavailable(r) ==
  /\ AtCandidate(r)
  /\ ~gone[r]
  /\ Fit(r) = "unavailable"
  /\ Record(r, "skipped", "unavailable", FALSE)
  /\ Flag(r, {"other"})
  /\ NextCandidate(r)
  /\ UNCHANGED <<shared, plan, cool, pass, refreshed, client, history>>

SkipCooled(r) ==
  /\ AtCandidate(r)
  /\ ~gone[r]
  /\ Fit(r) # "unavailable"
  /\ Cooling(r)
  /\ Record(r, "skipped", "cooldown", FALSE)
  /\ Flag(r, {"skippedCooled"})
  /\ NextCandidate(r)
  /\ UNCHANGED <<shared, plan, cool, pass, refreshed, client, history>>

SkipClass(fit) ==
  CASE fit = "untranslatable" -> "translation_error"
    [] fit = "min_output"     -> "unsupported_feature"
    [] OTHER                  -> fit

\* A target the request does not suit is skipped on a virtual route.  No
\* usable protocol is a skip on a direct route too.
SkipUnfit(r) ==
  /\ Eligible(r)
  /\ Fit(r) \in Unfit
  /\ Virtual(r) \/ Fit(r) = "protocol_unavailable"
  /\ Record(r, "skipped", SkipClass(Fit(r)), FALSE)
  /\ CASE Fit(r) = "untranslatable" -> Flag(r, {"translation"})
       [] Fit(r) = "free_model_requires_keyless" -> Flag(r, {"other"})
       [] Fit(r) = "protocol_unavailable" -> Flag(r, {"other", "protocol"})
       [] OTHER -> UNCHANGED verdict
  /\ NextCandidate(r)
  /\ UNCHANGED <<shared, plan, cool, pass, refreshed, client, history>>

\* The same mismatch on a direct route fails loud.
RejectUnfit(r) ==
  /\ Eligible(r)
  /\ Fit(r) \in Unfit \ {"protocol_unavailable"}
  /\ ~Virtual(r)
  /\ InferenceError(r, SkipClass(Fit(r)))
  /\ Goto(r, "finish")
  /\ UNCHANGED <<shared, loop, gone, committed, streaming, serving, history>>

\* A body the provider normalizer refuses (a malformed system prompt bound
\* for a Claude subscription) ends the request, on every kind of route, with
\* a plain inferenceError.
RejectMalformed(r) ==
  /\ Eligible(r)
  /\ Fit(r) = "malformed"
  /\ InferenceError(r, "invalid_request")
  /\ Goto(r, "finish")
  /\ UNCHANGED <<shared, loop, gone, committed, streaming, serving, history>>

\* providers.Endpoint cannot build the upstream URL.
FailEndpoint(r) ==
  /\ Eligible(r)
  /\ Fit(r) = "invalid_upstream"
  /\ Record(r, "failed", "invalid_upstream", FALSE)
  /\ Flag(r, {"other"})
  /\ blame' = [blame EXCEPT ![r] = @ \cup {Current(r)}]
  /\ NextCandidate(r)
  /\ UNCHANGED <<shared, plan, cool, pass, refreshed, client, starved>>

Send(r) ==
  /\ Eligible(r)
  /\ Fit(r) \in Callable
  /\ LegStart(Current(r))
  /\ Goto(r, "sent")
  /\ UNCHANGED <<now, setting, cooldown, gate, health, loop, client, history>>

-----------------------------------------------------------------------------
(* The upstream reply.                                                     *)

\* upstreamClient.Do fails.  Once the client has left, the class is the
\* client's whatever the target did.
SendError(r) ==
  /\ phase[r] = "sent"
  /\ LegEnd(Current(r))
  /\ Record(r, "failed", ClassFor(r, "upstream_unreachable"), FALSE)
  /\ Flag(r, {"other"})
  /\ CoolDown(r, ClassFor(r, "upstream_unreachable"), FALSE)
  /\ blame' = [blame EXCEPT ![r] = IF gone[r] THEN @ ELSE @ \cup {Current(r)}]
  /\ \/ /\ gone[r] \/ ~Virtual(r)
        /\ TerminalError(r, ClassFor(r, "upstream_unreachable"))
        /\ Goto(r, "finish")
        /\ UNCHANGED pos
     \/ /\ ~gone[r] /\ Virtual(r)
        /\ NextCandidate(r)
        /\ UNCHANGED <<answers, error>>
  /\ UNCHANGED <<now, setting, gate, health, plan, cool, pass, refreshed, gone,
                 committed, streaming, serving, starved>>

\* What follows a non-2xx reply that no token refresh repairs.
SettleHttpFailure(r, class) ==
  /\ CoolDown(r, class, TRUE)
  /\ blame' = [blame EXCEPT ![r] = @ \cup {Current(r)}]
  /\ \/ /\ Virtual(r)
        /\ NextCandidate(r)
        /\ UNCHANGED <<answers, error>>
     \/ /\ ~Virtual(r)
        /\ TerminalError(r, class)
        /\ Goto(r, "finish")
        /\ UNCHANGED pos

Repairable(r, class) ==
  /\ class = "http_401"
  /\ Provider[Current(r)] \in OAuthProviders
  /\ Provider[Current(r)] \notin refreshed[r]

\* Variant: a non-2xx reply does not set nonTranslationFailure.
HttpErrorUnflagged(r, class) ==
  /\ phase[r] = "sent"
  /\ LegEnd(Current(r))
  /\ Record(r, "failed", class, FALSE)
  /\ IF Repairable(r, class)
     THEN Goto(r, "refreshing") /\ UNCHANGED <<cooldown, pos, answers, error, blame>>
     ELSE SettleHttpFailure(r, class)
  /\ UNCHANGED <<now, setting, gate, health, plan, cool, pass, refreshed, verdict, gone,
                 committed, streaming, serving, starved>>

HttpError(r, class) ==
  /\ phase[r] = "sent"
  /\ LegEnd(Current(r))
  /\ Record(r, "failed", class, FALSE)
  /\ Flag(r, {"other"})
  /\ IF Repairable(r, class)
     THEN Goto(r, "refreshing") /\ UNCHANGED <<cooldown, pos, answers, error, blame>>
     ELSE SettleHttpFailure(r, class)
  /\ UNCHANGED <<now, setting, gate, health, plan, cool, pass, refreshed, gone,
                 committed, streaming, serving, starved>>

\* Variant: the refresh is not remembered.
RefreshForgotten(r) ==
  /\ phase[r] = "refreshing"
  /\ attempts' = [attempts EXCEPT ![r][Len(attempts[r])].recovered = TRUE]
  /\ Goto(r, "loop")
  /\ UNCHANGED <<shared, plan, cool, pass, pos, refreshed, verdict, client, history>>

\* ForceOAuthRefresh has rotated the credential: the same target is tried
\* again, and its 401 is marked recovered.
RefreshDone(r) ==
  /\ phase[r] = "refreshing"
  /\ refreshed' = [refreshed EXCEPT ![r] = @ \cup {Provider[Current(r)]}]
  /\ attempts' = [attempts EXCEPT ![r][Len(attempts[r])].recovered = TRUE]
  /\ Goto(r, "loop")
  /\ UNCHANGED <<shared, plan, cool, pass, pos, verdict, client, history>>

RefreshFailed(r) ==
  /\ phase[r] = "refreshing"
  /\ SettleHttpFailure(r, "http_401")
  /\ UNCHANGED <<now, setting, legs, gate, health, plan, cool, pass, refreshed,
                 attempts, verdict, gone, committed, streaming, serving, starved>>

\* A 2xx status with an SSE body.  An ordered chain commits the client stream
\* here, before it knows whether the target has anything to say, unless the
\* client asked for stream:false.
StreamHeaders(r) ==
  /\ phase[r] = "sent"
  /\ Goto(r, "preflight")
  /\ streaming' = [streaming EXCEPT ![r] = TRUE]
  /\ committed' = [committed EXCEPT ![r] = @ \/ (Ordered(r) /\ ~plan[r].nonstream)]
  /\ UNCHANGED <<shared, loop, gone, serving, answers, error, history>>

GateFull == Cardinality(gate) >= GateSize

\* A 2xx status with any other body, which is read whole behind the gate.
BodyHeaders(r) ==
  /\ phase[r] = "sent"
  /\ ~GateFull
  /\ gate' = gate \cup {r}
  /\ Goto(r, "preflight")
  /\ streaming' = [streaming EXCEPT ![r] = FALSE]
  /\ UNCHANGED <<now, setting, cooldown, legs, health, loop, gone, committed,
                 serving, answers, error, history>>

\* Variant: the slot of a body that breaks off is not given back.
PreflightKeepsSlot(r, class) ==
  /\ LegEnd(Current(r))
  /\ Record(r, "failed", class, gone[r])
  /\ verdict' = [verdict EXCEPT ![r] =
       (@ \ {"tooLarge"}) \cup {"other"} \cup (IF class = TooLarge THEN {"tooLarge"} ELSE {})]
  /\ CoolDown(r, class, FALSE)
  /\ \/ /\ gone[r] \/ ~Virtual(r)
        /\ TerminalError(r, class)
        /\ Goto(r, "finish")
        /\ UNCHANGED pos
     \/ /\ ~gone[r] /\ Virtual(r)
        /\ NextCandidate(r)
        /\ UNCHANGED <<answers, error>>
  /\ UNCHANGED <<now, setting, gate, health, plan, cool, pass, refreshed, gone,
                 committed, streaming, serving>>

\* preflightResponseLimit fails.  The class of the last such failure is kept.
PreflightFail(r, class) ==
  /\ LegEnd(Current(r))
  /\ gate' = gate \ {r}
  /\ Record(r, "failed", class, gone[r])
  /\ verdict' = [verdict EXCEPT ![r] =
       (@ \ {"tooLarge"}) \cup {"other"} \cup (IF class = TooLarge THEN {"tooLarge"} ELSE {})]
  /\ CoolDown(r, class, FALSE)
  /\ \/ /\ gone[r] \/ ~Virtual(r)
        /\ TerminalError(r, class)
        /\ Goto(r, "finish")
        /\ UNCHANGED pos
     \/ /\ ~gone[r] /\ Virtual(r)
        /\ NextCandidate(r)
        /\ UNCHANGED <<answers, error>>
  /\ UNCHANGED <<now, setting, health, plan, cool, pass, refreshed, gone,
                 committed, streaming, serving>>

\* The gate is saturated: the attempt fails without reading the body.
NoBufferSlot(r) ==
  /\ phase[r] = "sent"
  /\ GateFull
  /\ PreflightFail(r, TooLarge)
  /\ starved' = starved \cup {r}
  /\ UNCHANGED blame

\* The body is over the limit, as declared or as read.
BodyTooLarge(r) ==
  /\ phase[r] = "sent" \/ (phase[r] = "preflight" /\ ~streaming[r])
  /\ PreflightFail(r, TooLarge)
  /\ blame' = [blame EXCEPT ![r] = @ \cup {Current(r)}]
  /\ UNCHANGED starved

\* The body breaks off or is silent for idleTimeout.
BodyBreaks(r) ==
  /\ phase[r] = "preflight"
  /\ PreflightFail(r, ClassFor(r, "upstream_read_error"))
  /\ blame' = [blame EXCEPT ![r] = IF gone[r] THEN @ ELSE @ \cup {Current(r)}]
  /\ UNCHANGED starved

\* The first byte of a stream, or the whole of a buffered body, has arrived.
BodyArrives(r) ==
  /\ phase[r] = "preflight"
  /\ Goto(r, "probe")
  /\ UNCHANGED <<shared, loop, client, history>>

\* Variant: a target that fails the probe is left for the next one with its
\* leg still lit.
ProbeFailKeepsLeg(r, class) ==
  /\ phase[r] = "probe"
  /\ Ordered(r) /\ streaming[r] /\ ~gone[r]
  /\ Record(r, "failed", class, FALSE)
  /\ Flag(r, {"other"})
  /\ CoolDown(r, class, FALSE)
  /\ blame' = [blame EXCEPT ![r] = @ \cup {Current(r)}]
  /\ NextCandidate(r)
  /\ UNCHANGED <<now, setting, legs, gate, health, plan, cool, pass, refreshed, gone,
                 committed, streaming, serving, answers, error, starved>>

\* An ordered chain probes a stream for output: an explicit error, a completion
\* without output, or a stream that breaks off fails the target.
ProbeFail(r, class) ==
  /\ phase[r] = "probe"
  /\ Ordered(r) /\ streaming[r]
  /\ LegEnd(Current(r))
  /\ Record(r, "failed", IF class = "upstream_read_error" THEN ClassFor(r, class) ELSE class,
            gone[r])
  /\ Flag(r, {"other"})
  /\ CoolDown(r, class, FALSE)
  /\ blame' = [blame EXCEPT ![r] = IF gone[r] THEN @ ELSE @ \cup {Current(r)}]
  /\ \/ /\ gone[r]
        /\ TerminalError(r, ClientFailure)
        /\ Goto(r, "finish")
        /\ UNCHANGED pos
     \/ /\ ~gone[r]
        /\ NextCandidate(r)
        /\ UNCHANGED <<answers, error>>
  /\ UNCHANGED <<now, setting, gate, health, plan, cool, pass, refreshed, gone,
                 committed, streaming, serving, starved>>

ProbeFailures == {"upstream_read_error", "upstream_stream_error", "empty_response"}

\* The target is selected: its leg stays lit until the request finishes, and
\* the relay of a stream commits the client stream if nothing has yet.
Select(r) ==
  /\ phase[r] = "probe"
  /\ Record(r, "success", "none", FALSE)
  /\ serving' = [serving EXCEPT ![r] = Current(r)]
  /\ committed' = [committed EXCEPT ![r] = @ \/ (streaming[r] /\ ~plan[r].nonstream)]
  /\ Goto(r, "relay")
  /\ UNCHANGED <<shared, plan, cool, pass, pos, refreshed, verdict, gone, streaming,
                 answers, error, history>>

-----------------------------------------------------------------------------
(* The relay of the selected reply.                                        *)

Answer(r, answer) == answers' = [answers EXCEPT ![r] = Append(@, answer)]

\* clearSelectedCooldown
ClearSelected(r) ==
  cooldown' = IF Ordered(r) /\ cool[r] > 0 THEN Remove(cooldown, serving[r]) ELSE cooldown

RelayEnds(r, answer) ==
  /\ Answer(r, answer)
  /\ ClearSelected(r)
  /\ Goto(r, "finish")
  /\ UNCHANGED <<now, setting, legs, gate, health, loop, gone, committed, streaming,
                 serving, error, history>>

\* markLastAttemptFailed, and nothing is cooled.
RelayBreaks(r, class) ==
  /\ attempts' = [attempts EXCEPT ![r][Len(attempts[r])] =
                    [@ EXCEPT !.result = "failed", !.class = ClassFor(r, class)]]
  /\ error' = [error EXCEPT ![r] = ClassFor(r, class)]
  /\ Goto(r, "finish")
  /\ UNCHANGED <<shared, plan, cool, pass, pos, refreshed, verdict, gone, committed,
                 streaming, serving>>

Blame(r) ==
  /\ blame' = [blame EXCEPT ![r] = IF gone[r] THEN @ ELSE @ \cup {serving[r]}]
  /\ UNCHANGED starved

\* A stream relayed as a stream, translated or not.
StreamEnds(r) ==
  /\ phase[r] = "relay" /\ streaming[r] /\ ~plan[r].nonstream
  /\ RelayEnds(r, "sse_end")

\* Variant: the chain goes on after a stream that has been relayed in part.
StreamSpliced(r) ==
  /\ phase[r] = "relay" /\ streaming[r] /\ ~plan[r].nonstream
  /\ NextCandidate(r)
  /\ Blame(r)
  /\ UNCHANGED <<shared, plan, cool, pass, refreshed, attempts, verdict, client>>

StreamBreaks(r) ==
  /\ phase[r] = "relay" /\ streaming[r] /\ ~plan[r].nonstream
  /\ RelayBreaks(r, "upstream_read_error")
  /\ Answer(r, "sse_error")
  /\ Blame(r)

\* relayNonstreamFromSSE: a stream for a client that asked for stream:false.
AggregateEnds(r) ==
  /\ phase[r] = "relay" /\ streaming[r] /\ plan[r].nonstream
  /\ RelayEnds(r, "json_ok")

AggregateBreaks(r) ==
  /\ phase[r] = "relay" /\ streaming[r] /\ plan[r].nonstream
  /\ RelayBreaks(r, "upstream_read_error")
  /\ Answer(r, "json_error")
  /\ Blame(r)

\* A buffered body.  On a committed stream it is sent as synthesized SSE, and
\* its translation takes a second slot of the gate for the time it lasts.  A
\* translated body that does not start like JSON goes through the stream
\* translator.
Translated(r) == Fit(r) = "translated"
NeedsSlot(r)  == Translated(r) /\ committed[r]

BodyRelayed(r) ==
  /\ phase[r] = "relay" /\ ~streaming[r]
  /\ NeedsSlot(r) => ~GateFull
  /\ \E answer \in IF committed[r] THEN {"sse_end"}
                   ELSE IF Translated(r) THEN {"json_ok", "sse_end"} ELSE {"json_ok"} :
       RelayEnds(r, answer)

\* A JSON body the translator refuses before the status is committed.
BodyRefused(r) ==
  /\ phase[r] = "relay" /\ ~streaming[r]
  /\ Translated(r) /\ ~committed[r]
  /\ RelayBreaks(r, "translation_error")
  /\ Answer(r, "json_error")
  /\ Blame(r)

\* The translation of a body fails once the 2xx status is on the wire, as the
\* body does not start like JSON or an earlier target committed the stream.
\* The failure is logged and the client is told nothing.
BodyCut(r) ==
  /\ phase[r] = "relay" /\ ~streaming[r]
  /\ Translated(r)
  /\ RelayBreaks(r, "translation_error")
  /\ UNCHANGED answers
  /\ IF NeedsSlot(r) /\ GateFull
     THEN starved' = starved \cup {r} /\ UNCHANGED blame
     ELSE Blame(r)

-----------------------------------------------------------------------------
(* The end of the chain and of the request.                                *)

AtEnd(r) == phase[r] = "loop" /\ pos[r] > Len(plan[r].chain)

\* The bypass pass tries every target again, the cooling ones included.
NextPass(r) ==
  /\ AtEnd(r)
  /\ pass[r] = 0
  /\ "skippedCooled" \in verdict[r]
  /\ pass' = [pass EXCEPT ![r] = 1]
  /\ pos' = [pos EXCEPT ![r] = 1]
  /\ UNCHANGED <<shared, phase, plan, cool, refreshed, attempts, verdict, client, history>>

AllAttempts(r, result, class) ==
  /\ attempts[r] # << >>
  /\ \A i \in DOMAIN attempts[r] :
       attempts[r][i].result = result /\ attempts[r][i].class = class

\* What an exhausted chain is answered, the first cause that holds.
Causes(r) ==
  << <<"tooLarge" \in verdict[r], TooLarge>>,
     <<"translation" \in verdict[r] /\ "other" \notin verdict[r], "translation_error">>,
     <<"protocol" \in verdict[r], "protocol_unavailable">>,
     <<Virtual(r) /\ AllAttempts(r, "failed", "context_limit_exceeded"),
       "context_limit_exceeded">>,
     <<Virtual(r) /\ AllAttempts(r, "failed", "reasoning_roundtrip_required"),
       "reasoning_roundtrip_required">>,
     <<Virtual(r) /\ AllAttempts(r, "skipped", "unsupported_feature"), "unsupported_feature">>,
     <<Virtual(r), "virtual_model_unavailable">>,
     <<TRUE, "model_unavailable">> >>

ExhaustedClass(r) ==
  LET first == CHOOSE i \in 1..8 : Causes(r)[i][1] /\ \A j \in 1..(i - 1) : ~Causes(r)[j][1]
  IN  Causes(r)[first][2]

\* Variant: only the end of the bypass pass ends the request.
ExhaustLate(r) ==
  /\ AtEnd(r)
  /\ pass[r] = 1
  /\ TerminalError(r, ExhaustedClass(r))
  /\ Goto(r, "finish")
  /\ UNCHANGED <<shared, loop, gone, committed, streaming, serving, history>>

Exhaust(r) ==
  /\ AtEnd(r)
  /\ pass[r] = 1 \/ "skippedCooled" \notin verdict[r]
  /\ TerminalError(r, ExhaustedClass(r))
  /\ Goto(r, "finish")
  /\ UNCHANGED <<shared, loop, gone, committed, streaming, serving, history>>

\* Variant: the class of an attempt is not looked at.
ClientCausedByContext(a) == a.clientGone

ClientCaused(a) == a.class = ClientFailure \/ a.clientGone

\* recordLastOutcome: the attempts that say something of their target.
Telling(r) ==
  {i \in DOMAIN attempts[r] :
     /\ attempts[r][i].result # "skipped"
     /\ ~attempts[r][i].recovered
     /\ attempts[r][i].result # "success" => ~ClientCaused(attempts[r][i])}

LastTelling(r, t) ==
  LET told == {i \in Telling(r) : attempts[r][i].target = t}
  IN  {i \in told : \A j \in told : j <= i}

\* The handler has returned: its locals are gone.
Forget(r) ==
  /\ plan' = [plan EXCEPT ![r] = AnyPlan]
  /\ cool' = [cool EXCEPT ![r] = 0]
  /\ pass' = [pass EXCEPT ![r] = 0]
  /\ pos' = [pos EXCEPT ![r] = 1]
  /\ refreshed' = [refreshed EXCEPT ![r] = {}]
  /\ attempts' = [attempts EXCEPT ![r] = << >>]
  /\ verdict' = [verdict EXCEPT ![r] = {}]
  /\ gone' = [gone EXCEPT ![r] = FALSE]
  /\ committed' = [committed EXCEPT ![r] = FALSE]
  /\ streaming' = [streaming EXCEPT ![r] = FALSE]
  /\ serving' = [serving EXCEPT ![r] = NoTarget]
  /\ answers' = [answers EXCEPT ![r] = << >>]
  /\ error' = [error EXCEPT ![r] = "none"]

\* The deferred calls: the hot leg goes dark, the buffered body is closed and
\* the outcomes of the attempts are recorded.
Finish(r) ==
  /\ phase[r] = "finish"
  /\ legs' = [t \in Targets |->
                IF t = serving[r] /\ legs[t] > 0 THEN legs[t] - 1 ELSE legs[t]]
  /\ gate' = gate \ {r}
  /\ health' = [t \in Targets |->
       IF LastTelling(r, t) = {} THEN health[t]
       ELSE [result |-> attempts[r][CHOOSE i \in LastTelling(r, t) : TRUE].result, by |-> r]]
  /\ Goto(r, "done")
  /\ Forget(r)
  /\ UNCHANGED <<now, setting, cooldown, history>>

-----------------------------------------------------------------------------
(* The environment.                                                        *)

ClientLeaves(r) ==
  /\ phase[r] \notin {"idle", "finish", "done"}
  /\ ~gone[r]
  /\ gone' = [gone EXCEPT ![r] = TRUE]
  /\ UNCHANGED <<shared, phase, loop, committed, streaming, serving, answers, error, history>>

Tick ==
  /\ now < MaxTime
  /\ now' = now + 1
  /\ UNCHANGED <<setting, cooldown, legs, gate, health, phase, loop, client, history>>

\* An administrator releases a target by name, or saves the cooldown setting;
\* a zero drops every entry of the account.
AdminRelease(name) ==
  /\ cooldown' = Release(cooldown, name)
  /\ UNCHANGED <<now, setting, legs, gate, health, phase, loop, client, history>>

SaveSetting(seconds) ==
  /\ setting' = seconds
  /\ cooldown' = IF seconds = 0 THEN NoCooldowns ELSE cooldown
  /\ UNCHANGED <<now, legs, gate, health, phase, loop, client, history>>

-----------------------------------------------------------------------------
\* What the handler of r does up to the answer of a target being relayed.
Decide(r) ==
  \/ StopForClient(r) \/ SkipUnavailable(r) \/ SkipCooled(r) \/ SkipUnfit(r)
  \/ RejectUnfit(r) \/ RejectMalformed(r) \/ FailEndpoint(r) \/ Send(r)
  \/ SendError(r) \/ \E class \in HttpReplies : HttpError(r, class)
  \/ RefreshDone(r) \/ RefreshFailed(r)
  \/ StreamHeaders(r) \/ BodyHeaders(r)
  \/ NoBufferSlot(r) \/ BodyTooLarge(r) \/ BodyBreaks(r) \/ BodyArrives(r)
  \/ \E class \in ProbeFailures : ProbeFail(r, class)
  \/ Select(r) \/ NextPass(r) \/ Exhaust(r)

Relay(r) ==
  \/ StreamEnds(r) \/ StreamBreaks(r) \/ AggregateEnds(r) \/ AggregateBreaks(r)
  \/ BodyRelayed(r) \/ BodyRefused(r) \/ BodyCut(r)

Next ==
  \/ \E r \in Requests :
       \/ phase[r] = "idle" /\ \E p \in Plans[r] : Begin(r, p)
       \/ Decide(r) \/ Relay(r) \/ Finish(r) \/ ClientLeaves(r)
  \/ Tick
  \/ \E t \in Targets : AdminRelease(TargetName[t])
  \/ \E seconds \in Settings : SaveSetting(seconds)

Spec == Init /\ [][Next]_vars

\* A token endpoint holds the request: the idle timer is stopped by then, and the
\* body of its answer has no deadline, so that only the client can end the wait.
HeldByRefresh(r) == phase[r] = "refreshing" /\ ~gone[r]

\* Every other wait up to the relay is bounded by a timer of the handler: the time
\* to the first header, upstreamErrorReadTimeout and idleTimeout, while the probe
\* reads at most maxOutputProbeBytes.  A refresh is fair only once the client has
\* left.  The relay of a stream is not fair, since a target may go on sending for
\* ever; the deferred calls always run.
FairSpec ==
  Spec /\ \A r \in Requests : WF_vars(Decide(r) /\ ~HeldByRefresh(r)) /\ WF_vars(Finish(r))

-----------------------------------------------------------------------------
(* Properties.                                                             *)

TypeOK ==
  /\ now \in 1..MaxTime
  /\ setting \in Settings
  /\ cooldown \in Store
  /\ legs \in [Targets -> Nat]
  /\ gate \subseteq Requests
  /\ health \in [Targets -> Outcome]
  /\ phase \in [Requests -> Phases]
  /\ plan \in [Requests -> Routes]
  /\ cool \in [Requests -> Settings \cup {0}]
  /\ pass \in [Requests -> {0, 1}]
  /\ pos \in [Requests -> Nat \ {0}]
  /\ refreshed \in [Requests -> SUBSET Providers]
  /\ attempts \in [Requests -> Seq(Attempt)]
  /\ verdict \in [Requests -> SUBSET Verdict]
  /\ gone \in [Requests -> BOOLEAN]
  /\ committed \in [Requests -> BOOLEAN]
  /\ streaming \in [Requests -> BOOLEAN]
  /\ serving \in [Requests -> Targets \cup {NoTarget}]
  /\ answers \in [Requests -> Seq(Answers)]
  /\ error \in [Requests -> Classes]
  /\ blame \in [Requests -> SUBSET Targets]
  /\ starved \subseteq Requests

\* The handler answers a request once, and only when it leaves the chain: no
\* error path falls through to a second answer.
AnsweredOnce ==
  \A r \in Requests :
    /\ Len(answers[r]) <= 1
    /\ phase[r] # "finish" => answers[r] = << >>

\* Once the client stream has been committed, whatever ends the request is
\* framed as SSE (the contract failAfterCommit states).
CommittedStreamIsFramed ==
  \A r \in Requests : \A i \in DOMAIN answers[r] :
    committed[r] => answers[r][i] \in {"sse_end", "sse_error"}

\* A request the handler logs as failed was told so: no failure is answered by
\* a bare 2xx (what nonstream_commit_test.go asks of the translation).
FailureIsReported ==
  \A r \in Requests :
    phase[r] = "finish" /\ error[r] # "none"
      => \E i \in DOMAIN answers[r] : answers[r][i] \in {"json_error", "sse_error"}

\* A cooldown window was opened by a request its own target failed: not by a
\* failure of the router, of the client, or of another target.
CooledByOwnFault ==
  \A t \in Targets :
    cooldown[t] # NoEntry => cooldown[t].origin \in Requests /\ t \in blame[cooldown[t].origin]

\* The last outcome that paints a target unhealthy comes from a request that
\* target failed.  A body turned away by the full buffer gate is painted on its
\* target too, and only that.
HealthBlamesTarget ==
  \A t \in Targets :
    health[t].result = "failed" => t \in blame[health[t].by] \/ health[t].by \in starved

\* The in-flight legs of a target are those of the requests it is working on,
\* and all of them: no path forgets to end a leg, or ends one twice.
LegsMatch ==
  \A t \in Targets :
    legs[t] = Cardinality({r \in Requests :
                \/ phase[r] \in {"sent", "preflight", "probe"} /\ Current(r) = t
                \/ phase[r] \in {"relay", "finish"} /\ serving[r] = t})

\* The buffer gate is never over its size, and its slots are held by requests
\* that hold a buffered body.
GateSlots ==
  /\ Cardinality(gate) <= GateSize
  /\ \A r \in gate :
       phase[r] \in {"preflight", "probe", "relay", "finish"} /\ ~streaming[r]

\* What a request holds while it works is given back on every path out of it.
ResourcesHeld == LegsMatch /\ GateSlots

Called(r, t) ==
  \E i \in DOMAIN attempts[r] : attempts[r][i].target = t /\ attempts[r][i].result # "skipped"

\* An ordered chain answers that every target failed only after calling every
\* target that could be called, the cooling ones in the bypass pass.
ExhaustedMeansTried ==
  \A r \in Requests :
    error[r] = "virtual_model_unavailable"
      => \A i \in DOMAIN plan[r].chain :
           plan[r].fit[plan[r].chain[i]] \in Callable => Called(r, plan[r].chain[i])

\* A chain that blames the request for its translation has seen no target fail:
\* an outage is never passed off as the client's fault.
RequestBlameIsHonest ==
  \A r \in Requests :
    error[r] \in {"translation_error", "unsupported_feature"} /\ serving[r] = NoTarget
      => blame[r] = {} /\ r \notin starved

Calls(r) == Cardinality({i \in DOMAIN attempts[r] : attempts[r][i].result # "skipped"})

\* A request calls each target at most once per pass, plus once for each
\* provider whose credential it has refreshed: a provider that keeps refusing
\* fresh credentials is not called for ever.
CallsBounded ==
  \A r \in Requests :
    phase[r] # "idle"
      => Calls(r) <= (pass[r] + 1) * Len(plan[r].chain) + Cardinality(refreshed[r])

\* What bounds the loop as a whole: its counters, and the calls it makes.
LoopIsBounded == TypeOK /\ CallsBounded

\* A window is never shortened: it is left alone, extended, or dropped whole.
WindowStands(t) ==
  cooldown'[t] = NoEntry \/ cooldown'[t].until >= cooldown[t].until

\* What the cooldown store promises as a whole, which begins empty: every step
\* leaves windows that their own target has earned, and those that stood stand.
CooldownSound ==
  [][CooledByOwnFault' /\ \A t \in Targets : WindowStands(t)]_vars

\* No splice: once a target has been selected the request calls no other one.
NoSplice ==
  [][\A r \in Requests :
       serving[r] # NoTarget /\ phase[r] # "finish" =>
         serving'[r] = serving[r] /\ Len(attempts'[r]) = Len(attempts[r])]_vars

\* Every admitted request is decided: a target is being relayed, or it ends,
\* unless a token endpoint holds it for ever while its client waits.
Decided ==
  \A r \in Requests :
    []<>~HeldByRefresh(r)
      => (phase[r] = "loop" ~> phase[r] \in {"relay", "finish", "done"})
=============================================================================
