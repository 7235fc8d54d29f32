------------------------------ MODULE BodyGate ------------------------------
(***************************************************************************)
(* Inbound body admission of internal/server/bodyread.go as proxy uses it: *)
(* a lock-free counter bounds the requests that are mid-body, and a read   *)
(* deadline on the connection bounds each of them.  acquire is a load      *)
(* followed by a compare-and-swap that starts over when it loses.          *)
(*                                                                         *)
(* Time is relative: left counts down to the read deadline of a request,   *)
(* silent up from the last bytes of its peer.  The two are apart: bytes    *)
(* that arrive, but not the last, end the silence and leave the deadline   *)
(* where withBodyReadDeadline has set it, once and before the whole read.  *)
(***************************************************************************)
EXTENDS Integers, FiniteSets

CONSTANTS
  Requests,       \* requests with a body to read
  MaxConcurrent,  \* maxConcurrentBodyReads
  Deadline        \* bodyReadDeadline

ASSUME GateAssumption ==
  /\ IsFiniteSet(Requests)
  /\ MaxConcurrent \in Nat
  /\ Deadline \in Nat \ {0}

VARIABLES
  active,   \* bodyReadGate.active
  pc,       \* where each request is
  cur,      \* the load of acquire
  left,     \* time to the read deadline
  silent,   \* time since the peer sent anything; counts to Deadline
  outcome   \* what the read returned

vars == <<active, pc, cur, left, silent, outcome>>

Outcomes == {"body", "timeout", "failed"}
Answered == {"refused", "read", "rejected"}
Steps    == {"idle", "load", "swap", "reading", "release"} \cup Answered

Goto(r, p) == pc' = [pc EXCEPT ![r] = p]

Init ==
  /\ active = 0
  /\ pc = [r \in Requests |-> "idle"]
  /\ cur = [r \in Requests |-> 0]
  /\ left = [r \in Requests |-> 0]
  /\ silent = [r \in Requests |-> 0]
  /\ outcome = [r \in Requests |-> "failed"]

Arrive(r) ==
  /\ pc[r] = "idle"
  /\ Goto(r, "load")
  /\ UNCHANGED <<active, cur, left, silent, outcome>>

\* The load of acquire: a full gate refuses the request (body_read_busy).
Load(r) ==
  /\ pc[r] = "load"
  /\ cur' = [cur EXCEPT ![r] = active]
  /\ Goto(r, IF active >= MaxConcurrent THEN "refused" ELSE "swap")
  /\ UNCHANGED <<active, left, silent, outcome>>

\* The compare-and-swap.  The winner sets the read deadline and reads.
Swap(r) ==
  /\ pc[r] = "swap"
  /\ \/ /\ active = cur[r]
        /\ active' = active + 1
        /\ Goto(r, "reading")
        /\ left' = [left EXCEPT ![r] = Deadline]
        /\ silent' = [silent EXCEPT ![r] = 0]
     \/ /\ active # cur[r]
        /\ Goto(r, "load")
        /\ UNCHANGED <<active, left, silent>>
  /\ UNCHANGED <<cur, outcome>>

ReadEnds(r, how) ==
  /\ pc[r] = "reading"
  /\ outcome' = [outcome EXCEPT ![r] = how]
  /\ Goto(r, "release")
  /\ UNCHANGED <<active, cur, left, silent>>

\* Some bytes, and more to come: io.ReadAll reads on under the same deadline.
Trickle(r) ==
  /\ pc[r] = "reading" /\ left[r] > 0
  /\ silent' = [silent EXCEPT ![r] = 0]
  /\ UNCHANGED <<active, pc, cur, left, outcome>>

ReadRest(r)  == left[r] > 0 /\ ReadEnds(r, "body")

\* The peer goes away, or the body is over maxInferenceBodyBytes.
ReadFails(r) == left[r] > 0 /\ ReadEnds(r, "failed")

\* Variant: the deadline of a connection is never reached.
NeverTimesOut(r) == FALSE /\ ReadEnds(r, "timeout")

\* errBodyReadTimeout: the deadline is reached, whatever arrived before it.
TimesOut(r)  == left[r] = 0 /\ ReadEnds(r, "timeout")

\* Variant: the early return of a failed read skips the release.
ReleaseIfRead(r) ==
  /\ pc[r] = "release"
  /\ active' = IF outcome[r] = "body" THEN active - 1 ELSE active
  /\ Goto(r, IF outcome[r] = "body" THEN "read" ELSE "rejected")
  /\ UNCHANGED <<cur, left, silent, outcome>>

\* The slot is given back as soon as the read returns, however it ended.
Release(r) ==
  /\ pc[r] = "release"
  /\ active' = active - 1
  /\ Goto(r, IF outcome[r] = "body" THEN "read" ELSE "rejected")
  /\ UNCHANGED <<cur, left, silent, outcome>>

\* Time passes for every request that is reading.
Reading == {r \in Requests : pc[r] = "reading"}

Tick ==
  /\ \A r \in Reading : left[r] > 0
  /\ left' = [r \in Requests |-> IF r \in Reading THEN left[r] - 1 ELSE left[r]]
  /\ silent' = [r \in Requests |-> IF r \in Reading /\ silent[r] < Deadline
                                    THEN silent[r] + 1 ELSE silent[r]]
  /\ UNCHANGED <<active, pc, cur, outcome>>

Acquire(r) == Load(r) \/ Swap(r)
Read(r)    == Trickle(r) \/ ReadRest(r) \/ ReadFails(r) \/ TimesOut(r)

Next ==
  \/ \E r \in Requests : Arrive(r) \/ Acquire(r) \/ Read(r) \/ Release(r)
  \/ Tick

Spec == Init /\ [][Next]_vars

\* The handler's own code runs on, the clock advances and the connection's
\* deadline fires; a peer owes nothing.
FairSpec ==
  /\ Spec
  /\ WF_vars(Tick)
  /\ \A r \in Requests : WF_vars(Acquire(r)) /\ WF_vars(TimesOut(r)) /\ WF_vars(Release(r))

-----------------------------------------------------------------------------
(* Properties.                                                             *)

TypeOK ==
  /\ active \in Nat
  /\ pc \in [Requests -> Steps]
  /\ cur \in [Requests -> Nat]
  /\ left \in [Requests -> 0..Deadline]
  /\ silent \in [Requests -> 0..Deadline]
  /\ outcome \in [Requests -> Outcomes]

\* The requests that own a slot.
Holding == {r \in Requests : pc[r] \in {"reading", "release"}}

\* The gate counts its holders exactly, whatever the interleaving of loads and
\* swaps, and never admits more than the memory budget allows.
GateBounded == active = Cardinality(Holding) /\ Cardinality(Holding) <= MaxConcurrent

\* A request is refused only while MaxConcurrent bodies are really being read:
\* no path leaks a slot.
RefusedOnlyWhenFull ==
  [][\A r \in Requests :
       pc[r] # "refused" /\ pc'[r] = "refused" => Cardinality(Holding) = MaxConcurrent]_vars

\* What the gate promises as a whole: types, an exact count within the budget,
\* and no refusal while a slot is free.
GateSound == [](TypeOK /\ GateBounded) /\ RefusedOnlyWhenFull

\* Every request is answered or has its body: a peer that stalls, or trickles
\* for ever, does not hold a slot for ever.  It is the deadline of the whole
\* read that ends such a body: the price is ProgressIsNotCutOff.
Settled == <>[](\A r \in Requests : pc[r] \in {"idle"} \cup Answered)

\* bodyread.go:29-32: a slow but progressing upload is never cut off, because
\* every successful read resets the deadline.  A body is refused as stalled
\* only when its peer was silent for all of bodyReadDeadline.
ProgressIsNotCutOff == \A r \in Requests : outcome[r] = "timeout" => silent[r] = Deadline
=============================================================================
