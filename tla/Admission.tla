----------------------------- MODULE Admission ------------------------------
(***************************************************************************)
(* Plan limits and client tickets of one hosted account:                   *)
(* beginClientRequest of internal/server/client.go over the in-flight      *)
(* tracker of inflight.go and the monthly counter of                       *)
(* internal/store/usage_counters.go.  Every key of the tracker and every   *)
(* counter row starts with the account, so accounts never meet.            *)
(*                                                                         *)
(* The plan is looked up once; a concurrency slot is reserved under the    *)
(* tracker's lock and a monthly slot in a transaction.  A delta of the     *)
(* tracker is emitted after its lock is released, so the deltas of two     *)
(* requests may reach the live consumers in another order than the changes *)
(* they announce.                                                          *)
(***************************************************************************)
EXTENDS Integers, FiniteSets, FiniteSetsExt

CONSTANTS
  Requests,
  Tickets,      \* client and route pairs, the keys of clientStates
  PlanLimits,   \* the plans an administrator may assign to the account
  LastMonth     \* bound on the calendar

Unlimited == -1
Limits == [streams : {Unlimited} \cup Nat, monthly : {Unlimited} \cup Nat]
NoLimits == [streams |-> Unlimited, monthly |-> Unlimited]
Months == 1..LastMonth

ASSUME AdmissionAssumption ==
  /\ IsFiniteSet(Requests)
  /\ IsFiniteSet(Tickets)
  /\ PlanLimits \subseteq Limits
  /\ LastMonth \in Nat \ {0}

VARIABLES
  enforcing,  \* hosted mode with the enforcement flag on, settled at startup
  limits,     \* the plan of the account
  month,      \* the current usage period
  used,       \* usage_counters.requests of the account per period
  active,     \* clientStates: Active per ticket
  streaming,  \* clientStates: Streaming per ticket
  seen,       \* the Active count a consumer of the deltas has added up
  pc,         \* where each request is
  ticket,     \* the ticket of each request
  plan,       \* the limits the request has looked up
  period,     \* the month it was in when it did
  streamed    \* the local of proxy, handed to clientEnd

tracker == <<active, streaming>>
account == <<enforcing, limits, month>>
locals  == <<ticket, plan, period, streamed>>
vars    == <<account, used, tracker, seen, pc, locals>>

Steps == {"idle", "acquire", "announce", "reserve", "running", "withdraw",
          "retract", "conclude", "rejected", "done"}

Init ==
  /\ enforcing \in BOOLEAN
  /\ limits \in PlanLimits
  /\ month = 1
  /\ used = [m \in Months |-> 0]
  /\ active = [k \in Tickets |-> 0]
  /\ streaming = [k \in Tickets |-> 0]
  /\ seen = [k \in Tickets |-> 0]
  /\ pc = [r \in Requests |-> "idle"]
  /\ ticket \in [Requests -> Tickets]
  /\ plan = [r \in Requests |-> NoLimits]
  /\ period = [r \in Requests |-> 1]
  /\ streamed = [r \in Requests |-> FALSE]

Goto(r, p)    == pc' = [pc EXCEPT ![r] = p]
Emit(r, n)    == seen' = [seen EXCEPT ![ticket[r]] = @ + n]
Capped(r)     == plan[r].monthly # Unlimited

\* activeClientRequestsLocked
ActiveRequests == MapThenSumSet(LAMBDA k : active[k], Tickets)

\* EntitlementsForAccount answers, or the limits are not enforced at all.
LookUp(r) ==
  /\ pc[r] = "idle"
  /\ plan' = [plan EXCEPT ![r] = IF enforcing THEN limits ELSE NoLimits]
  /\ period' = [period EXCEPT ![r] = month]
  /\ Goto(r, "acquire")
  /\ UNCHANGED <<account, used, tracker, seen, ticket, streamed>>

LookUpFails(r) ==
  /\ pc[r] = "idle"
  /\ enforcing
  /\ Goto(r, "rejected")
  /\ UNCHANGED <<account, used, tracker, seen, locals>>

Full(r) == plan[r].streams # Unlimited /\ ActiveRequests >= plan[r].streams

\* tryAcquire, up to its unlock.
Acquire(r) ==
  /\ pc[r] = "acquire"
  /\ \/ /\ Full(r)
        /\ Goto(r, "rejected")
        /\ UNCHANGED active
     \/ /\ ~Full(r)
        /\ active' = [active EXCEPT ![ticket[r]] = @ + 1]
        /\ Goto(r, "announce")
  /\ UNCHANGED <<account, used, streaming, seen, locals>>

Announce(r) ==
  /\ pc[r] = "announce"
  /\ Emit(r, 1)
  /\ Goto(r, IF enforcing THEN "reserve" ELSE "running")
  /\ UNCHANGED <<account, used, tracker, locals>>

\* ReserveUsageCounter: the check and the increment are one transaction, in the
\* period of the lookup, whatever the month is by now.
Reserve(r) ==
  /\ pc[r] = "reserve"
  /\ Capped(r)
  /\ \/ /\ used[period[r]] < plan[r].monthly
        /\ used' = [used EXCEPT ![period[r]] = @ + 1]
        /\ Goto(r, "running")
     \/ /\ used[period[r]] >= plan[r].monthly
        /\ Goto(r, "withdraw")
        /\ UNCHANGED used
  /\ UNCHANGED <<account, tracker, seen, locals>>

\* The transaction fails, or its commit is not confirmed: the increment of a
\* commit whose answer was lost stays.
ReserveFails(r) ==
  /\ pc[r] = "reserve"
  /\ Capped(r)
  /\ \/ UNCHANGED used
     \/ /\ used[period[r]] < plan[r].monthly
        /\ used' = [used EXCEPT ![period[r]] = @ + 1]
  /\ Goto(r, "withdraw")
  /\ UNCHANGED <<account, tracker, seen, locals>>

\* IncrementUsageCounter of an uncapped plan is best effort.
Increment(r) ==
  /\ pc[r] = "reserve"
  /\ ~Capped(r)
  /\ used' \in {used, [used EXCEPT ![period[r]] = @ + 1]}
  /\ Goto(r, "running")
  /\ UNCHANGED <<account, tracker, seen, locals>>

\* clientStreaming: the reply is a stream.
Stream(r) ==
  /\ pc[r] = "running"
  /\ ~streamed[r]
  /\ streaming' = [streaming EXCEPT ![ticket[r]] = @ + 1]
  /\ streamed' = [streamed EXCEPT ![r] = TRUE]
  /\ UNCHANGED <<account, used, active, seen, pc, ticket, plan, period>>

\* clientEnd up to its unlock.  An end without a ticket changes nothing.
ClientEnd(r, n) ==
  /\ active' = [active EXCEPT ![ticket[r]] = IF @ > 0 THEN @ - 1 ELSE 0]
  /\ streaming' = [streaming EXCEPT ![ticket[r]] =
                     IF streamed[r] /\ @ > 0 THEN @ - 1 ELSE @]
  /\ Goto(r, n)

\* Variant: the early return of a rejection leaves the ticket behind.
WithdrawNothing(r) ==
  /\ pc[r] = "withdraw"
  /\ Goto(r, "retract")
  /\ UNCHANGED <<account, used, tracker, seen, locals>>

\* A request that got its concurrency slot and no monthly slot gives it back.
Withdraw(r) ==
  /\ pc[r] = "withdraw"
  /\ ClientEnd(r, "retract")
  /\ UNCHANGED <<account, used, seen, locals>>

\* The deferred clientEnd of an admitted request.
End(r) ==
  /\ pc[r] = "running"
  /\ ClientEnd(r, "conclude")
  /\ UNCHANGED <<account, used, seen, locals>>

\* The delta clientEnd emits once it has released the lock.
Retract(r) ==
  /\ pc[r] \in {"retract", "conclude"}
  /\ Emit(r, -1)
  /\ Goto(r, IF pc[r] = "retract" THEN "rejected" ELSE "done")
  /\ UNCHANGED <<account, used, tracker, locals>>

\* The environment: the plan changes under a running request, months go by.
AssignPlan(p) ==
  /\ limits' = p
  /\ UNCHANGED <<enforcing, month, used, tracker, seen, pc, locals>>

NextMonth ==
  /\ month < LastMonth
  /\ month' = month + 1
  /\ UNCHANGED <<enforcing, limits, used, tracker, seen, pc, locals>>

Next ==
  \/ \E r \in Requests :
       \/ LookUp(r) \/ LookUpFails(r) \/ Acquire(r) \/ Announce(r)
       \/ Reserve(r) \/ ReserveFails(r) \/ Increment(r)
       \/ Stream(r) \/ Withdraw(r) \/ End(r) \/ Retract(r)
  \/ \E p \in PlanLimits : AssignPlan(p)
  \/ NextMonth

Spec == Init /\ [][Next]_vars

-----------------------------------------------------------------------------
(* Properties.                                                             *)

TypeOK ==
  /\ enforcing \in BOOLEAN
  /\ limits \in PlanLimits
  /\ month \in Months
  /\ used \in [Months -> Nat]
  /\ active \in [Tickets -> Nat]
  /\ streaming \in [Tickets -> Nat]
  /\ seen \in [Tickets -> Int]
  /\ pc \in [Requests -> Steps]
  /\ ticket \in [Requests -> Tickets]
  /\ plan \in [Requests -> PlanLimits \cup {NoLimits}]
  /\ period \in [Requests -> Months]
  /\ streamed \in [Requests -> BOOLEAN]

Holding  == {r \in Requests : pc[r] \in {"announce", "reserve", "running", "withdraw"}}
Admitted == {r \in Requests : pc[r] \in {"running", "conclude", "done"}}

\* The tracker counts the requests that hold a ticket and the streams among
\* them, ticket by ticket: no rejection leaks one or ends another request's.
TicketsMatch ==
  \A k \in Tickets :
    LET holders == {r \in Holding : ticket[r] = k}
    IN  /\ active[k] = Cardinality(holders)
        /\ streaming[k] = Cardinality({r \in holders : streamed[r]})

\* A burst cannot pass max_concurrent_streams: the request that takes a slot is
\* within the limit it has looked up, however many tickets the others share.
StreamsCapped ==
  [][\A r \in Requests :
       r \notin Holding /\ r \in Holding' /\ plan[r].streams # Unlimited
         => Cardinality(Holding') <= plan[r].streams]_vars

\* The requests admitted in a month under a cap of n or less are at most n, and
\* the counter has them all: neither a burst nor a database error bypasses it.
MonthlyCapped ==
  \A r \in Admitted : Capped(r) =>
    LET under == {q \in Admitted : /\ Capped(q)
                                   /\ period[q] = period[r]
                                   /\ plan[q].monthly <= plan[r].monthly}
    IN  /\ Cardinality(under) <= plan[r].monthly
        /\ Cardinality(under) <= used[period[r]]

\* A consumer that adds the deltas up never goes below zero, and agrees with
\* the tracker once nothing is being announced.
DeltasAddUp ==
  \A k \in Tickets :
    LET late == {r \in Requests : ticket[r] = k /\ pc[r] \in {"announce", "retract", "conclude"}}
    IN  /\ seen[k] >= 0
        /\ late = {} => seen[k] = active[k]

\* What admission promises as a whole: exact counts, caps no burst passes, and
\* deltas that add up.
AdmissionHolds ==
  [](TypeOK /\ TicketsMatch /\ MonthlyCapped /\ DeltasAddUp) /\ StreamsCapped
=============================================================================
