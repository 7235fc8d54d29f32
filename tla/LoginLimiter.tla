---------------------------- MODULE LoginLimiter ----------------------------
(***************************************************************************)
(* The throttle of sign-in attempts (server/login_limiter.go): a table of  *)
(* consecutive failures and one of request budgets, each bounded, and one  *)
(* budget that everybody shares while a table is full of lockouts.  A      *)
(* login asks whether its client is locked out, checks the password, and   *)
(* reports the result in a call of its own, so that many may be under way. *)
(***************************************************************************)
EXTENDS Naturals, FiniteSets

CONSTANTS
  Clients,        \* keys of the limiter: addresses, hashed emails, selectors
  Logins,         \* handlers that may run at once
  MaxFailures,    \* `max`
  Window, Lockout,
  MaxEntries,     \* maxLimiterEntries
  LastMoment,     \* a bound: the clock stops here
  NoClient

LoginLimiterAssumption ==
  /\ MaxFailures \in Nat \ {0} /\ MaxEntries \in Nat \ {0}
  /\ Window \in Nat /\ Lockout \in Nat \ {0} /\ LastMoment \in Nat \ {0}
  /\ NoClient \notin Clients
ASSUME LoginLimiterAssumption

VARIABLES failures, attempts, overflow, login, moment
limiterVars == <<failures, attempts, overflow, login, moment>>

Moments == 0..(LastMoment + Lockout)
LimiterEntries == [count : Nat, first : Moments, until : Moments]
None == [count |-> 0, first |-> 0, until |-> 0]
Table == [Clients -> LimiterEntries]
Counted(table) == {c \in Clients : table[c] # None}

(* The tables never hold more entries than their bound.                    *)
LimiterTypeOK ==
  /\ failures \in Table /\ Cardinality(Counted(failures)) <= MaxEntries
  /\ attempts \in Table /\ Cardinality(Counted(attempts)) <= MaxEntries
  /\ overflow \in LimiterEntries
  /\ login \in [Logins -> Clients \cup {NoClient}]
  /\ moment \in 1..LastMoment

LimiterInit ==
  /\ failures = [c \in Clients |-> None] /\ attempts = failures
  /\ overflow = None
  /\ login = [l \in Logins |-> NoClient]
  /\ moment = 1

Counting(f) == f.until = 0
LockedOut(f) == moment < f.until
WindowOver(f) == moment > f.first + Window
First == [count |-> 1, first |-> moment, until |-> 0]
NoRoom(table) == Cardinality(Counted(table)) >= MaxEntries
Dropping(table, keys) == [c \in Clients |-> IF c \in keys THEN None ELSE table[c]]

Stale(f) == IF Counting(f) THEN WindowOver(f) ELSE ~LockedOut(f)
Purge(table) == Dropping(table, {c \in Clients : Stale(table[c])})

\* A mutant: any entry makes room.
MakeRoomAnyhow(table) ==
  IF ~NoRoom(table) THEN {table}
  ELSE {Dropping(table, {c}) : c \in Counted(table)}

\* What is stale leaves a full table, and if it is full still one entry that is
\* not a lockout. The result may be full.
MakeRoom(table) ==
  LET purged == Purge(table)
      counting == {c \in Counted(purged) : Counting(purged[c])} IN
  IF ~NoRoom(table) THEN {table}
  ELSE IF ~NoRoom(purged) \/ counting = {} THEN {purged}
  ELSE {Dropping(purged, {c}) : c \in counting}

\* The shared budget of a window.
ChargeOverflow ==
  LET o == IF overflow.until # 0 /\ ~LockedOut(overflow) THEN None ELSE overflow
      charged == IF o.count = 0 \/ WindowOver(o) THEN First ELSE [o EXCEPT !.count = @ + 1] IN
  overflow' = IF LockedOut(o) THEN o
              ELSE IF charged.count > MaxFailures THEN [charged EXCEPT !.until = moment + Lockout]
              ELSE charged

Spent == NoRoom(failures) /\ LockedOut(overflow)

\* A login of a client that is not locked out; an expired lockout is forgotten.
Ask(l, c) ==
  /\ login[l] = NoClient
  /\ IF failures[c] = None THEN ~Spent ELSE ~LockedOut(failures[c])
  /\ login' = [login EXCEPT ![l] = c]
  /\ failures' = IF Counting(failures[c]) THEN failures ELSE Dropping(failures, {c})
  /\ UNCHANGED <<attempts, overflow, moment>>

\* One more failure of a client that is in the table.
CountFailure(f) ==
  IF LockedOut(f) THEN f
  ELSE IF WindowOver(f) THEN [f EXCEPT !.count = 1, !.first = moment]
  ELSE IF f.count + 1 >= MaxFailures
       THEN [f EXCEPT !.count = f.count + 1, !.until = moment + Lockout]
       ELSE [f EXCEPT !.count = f.count + 1]

RecordFailure(l) ==
  LET c == login[l] IN
  /\ c # NoClient
  /\ login' = [login EXCEPT ![l] = NoClient]
  /\ IF failures[c] # None
     THEN failures' = [failures EXCEPT ![c] = CountFailure(@)] /\ UNCHANGED overflow
     ELSE \E table \in MakeRoom(failures) :
            IF NoRoom(table) THEN failures' = table /\ ChargeOverflow
            ELSE failures' = [table EXCEPT ![c] = First] /\ UNCHANGED overflow
  /\ UNCHANGED <<attempts, moment>>

Succeed(l) ==
  /\ login[l] # NoClient
  /\ login' = [login EXCEPT ![l] = NoClient]
  /\ failures' = Dropping(failures, {login[l]})
  /\ UNCHANGED <<attempts, overflow, moment>>

\* A request that is charged whatever becomes of it: signup, recovery, OAuth.
AllowAttempt(c) ==
  LET f == IF Stale(attempts[c]) THEN None ELSE attempts[c] IN
  /\ IF LockedOut(f) THEN UNCHANGED <<attempts, overflow>>
     ELSE IF f # None
     THEN /\ attempts' = [attempts EXCEPT ![c] =
               IF f.count >= MaxFailures THEN [f EXCEPT !.until = moment + Lockout]
               ELSE [f EXCEPT !.count = @ + 1]]
          /\ UNCHANGED overflow
     ELSE \E table \in MakeRoom(Dropping(attempts, {c})) :
            IF NoRoom(table) THEN attempts' = table /\ ChargeOverflow
            ELSE attempts' = [table EXCEPT ![c] = First] /\ UNCHANGED overflow
  /\ UNCHANGED <<failures, login, moment>>

NextMoment ==
  /\ moment < LastMoment
  /\ moment' = moment + 1
  /\ UNCHANGED <<failures, attempts, overflow, login>>

LimiterNext ==
  \/ \E l \in Logins : (\E c \in Clients : Ask(l, c)) \/ RecordFailure(l) \/ Succeed(l)
  \/ \E c \in Clients : AllowAttempt(c)
  \/ NextMoment

LimiterSpec == LimiterInit /\ [][LimiterNext]_limiterVars

-----------------------------------------------------------------------------
(* login_limiter.go:125, "active lockouts are never evicted": while a       *)
(* lockout runs no other client's traffic, full table or late failure of a *)
(* login that was let in before it ends, moves or extends it; a success of *)
(* the client itself ends it.  A full request budget is not even ended so. *)
LockoutStands(c) ==
  /\ LockedOut(failures[c]) =>
       \/ failures'[c] = failures[c]
       \/ \E l \in Logins : login[l] = c /\ login'[l] = NoClient /\ failures'[c] = None
  /\ LockedOut(attempts[c]) => attempts'[c] = attempts[c]

(* The same with the types, which bound the tables.                        *)
LimiterHolds ==
  []LimiterTypeOK /\ [][\A c \in Clients : LockoutStands(c)]_limiterVars
=============================================================================
