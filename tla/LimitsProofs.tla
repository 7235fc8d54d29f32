----------------------------- MODULE LimitsProofs -----------------------------
(****************************************************************************)
(* Proofs about limits: the sign-in limiter, the admission of requests and  *)
(* the notifications of accounts.  What two of them count is a sum over the *)
(* tickets or the deliveries at hand.                                       *)
(****************************************************************************)
EXTENDS Admission, LoginLimiter, Notifications, FiniteSetTheorems, WellFoundedInduction, TLAPS

-----------------------------------------------------------------------------
(***************************************************************************)
(* The limits hold for every number of clients, logins and requests: the   *)
(* login limiter keeps its tables within their bound without ever letting  *)
(* go of a lockout, and plan admission counts what it admits.              *)
(***************************************************************************)
(* The login limiter.                                                      *)

\* A table whose entries are counted, and no more of them than its bound.
Bounded(table) ==
  /\ table \in Table
  /\ IsFiniteSet(Counted(table))
  /\ Cardinality(Counted(table)) <= MaxEntries

LimiterInv ==
  /\ Bounded(failures) /\ Bounded(attempts)
  /\ overflow \in LimiterEntries
  /\ login \in [Logins -> Clients \cup {NoClient}]
  /\ moment \in 1..LastMoment

\* The two entries the limiter writes from nothing.
LEMMA EntryTypes ==
  ASSUME moment \in 1..LastMoment
  PROVE  /\ None \in LimiterEntries /\ First \in LimiterEntries
         /\ First # None /\ moment + Lockout \in Moments /\ moment + Lockout > moment
         /\ moment \in Moments /\ ~LockedOut(None) /\ None.until = 0
  BY LoginLimiterAssumption
     DEF LoginLimiterAssumption, None, First, LimiterEntries, Moments, LockedOut

\* A table with fewer entries is within the bound.
LEMMA FewerEntries ==
  ASSUME NEW table, Bounded(table), NEW t \in Table, Counted(t) \subseteq Counted(table)
  PROVE  Bounded(t) /\ Cardinality(Counted(t)) <= Cardinality(Counted(table))
<1>1. IsFiniteSet(Counted(t)) /\ Cardinality(Counted(t)) <= Cardinality(Counted(table))
  BY FS_Subset DEF Bounded
<1>2. Cardinality(Counted(t)) \in Nat /\ Cardinality(Counted(table)) \in Nat /\ MaxEntries \in Nat
  BY <1>1, FS_CardinalityType, LoginLimiterAssumption DEF Bounded, LoginLimiterAssumption
<1> QED
  BY <1>1, <1>2 DEF Bounded

\* What is dropped is gone, and nothing else is.
LEMMA DroppingType ==
  ASSUME NEW table \in Table, NEW keys, None \in LimiterEntries
  PROVE  /\ Dropping(table, keys) \in Table
         /\ Counted(Dropping(table, keys)) \subseteq Counted(table)
         /\ \A c \in Clients : c \notin keys => Dropping(table, keys)[c] = table[c]
         /\ \A c \in keys \cap Clients : Dropping(table, keys)[c] = None
  BY DEF Dropping, Table, Counted

\* Room is made without touching a lockout, and never by growing the table.
LEMMA RoomIsFair ==
  ASSUME NEW table, Bounded(table), moment \in 1..LastMoment, NEW t \in MakeRoom(table)
  PROVE  /\ Bounded(t) /\ Counted(t) \subseteq Counted(table)
         /\ \A c \in Clients : LockedOut(table[c]) => t[c] = table[c]
<1> DEFINE purged == Purge(table)
           counting == {c \in Counted(purged) : Counting(purged[c])}
<1>1. None \in LimiterEntries /\ table \in Table
  BY EntryTypes DEF Bounded
<1>2. ASSUME NEW e \in LimiterEntries, LockedOut(e) PROVE ~Counting(e) /\ ~Stale(e)
  BY <1>2 DEF LockedOut, Counting, Stale, LimiterEntries, Moments
<1>3. /\ purged \in Table /\ Counted(purged) \subseteq Counted(table)
      /\ \A c \in Clients : LockedOut(table[c]) => purged[c] = table[c]
  <2>1. \A c \in Clients : LockedOut(table[c]) => ~Stale(table[c])
    BY <1>1, <1>2 DEF Table
  <2> QED
    BY <1>1, <2>1, DroppingType DEF Purge
<1>4. CASE t = table
  BY <1>4
<1>5. CASE t = purged
  BY <1>3, <1>5, FewerEntries
<1>6. ASSUME NEW c \in counting, t = Dropping(purged, {c}) PROVE
        /\ Bounded(t) /\ Counted(t) \subseteq Counted(table)
        /\ \A d \in Clients : LockedOut(table[d]) => t[d] = table[d]
  <2>1. /\ t \in Table /\ Counted(t) \subseteq Counted(table)
        /\ \A d \in Clients : d # c => t[d] = purged[d]
    BY <1>1, <1>3, <1>6, DroppingType
  <2>2. c \in Clients /\ Counting(purged[c]) /\ table[c] \in LimiterEntries
    BY <1>1 DEF Counted, Table
  <2>3. ~LockedOut(table[c])
    BY <1>2, <1>3, <2>2
  <2> HIDE DEF counting, purged
  <2> QED
    BY <1>3, <2>1, <2>3, FewerEntries
<1>7. t = table \/ t = purged \/ \E c \in counting : t = Dropping(purged, {c})
  BY DEF MakeRoom
<1> HIDE DEF counting, purged
<1> QED
  BY <1>4, <1>5, <1>6, <1>7

\* A new entry fits where there is room.
LEMMA RoomForOne ==
  ASSUME NEW table, Bounded(table), ~NoRoom(table), NEW c \in Clients, NEW e \in LimiterEntries
  PROVE  Bounded([table EXCEPT ![c] = e])
<1> DEFINE t == [table EXCEPT ![c] = e]
<1>1. t \in Table /\ Counted(t) \subseteq Counted(table) \cup {c}
  BY DEF Bounded, Table, Counted
<1>2. /\ IsFiniteSet(Counted(table) \cup {c})
      /\ Cardinality(Counted(table) \cup {c}) <= Cardinality(Counted(table)) + 1
      /\ Cardinality(Counted(table)) \in Nat
  <2>1. IsFiniteSet(Counted(table)) /\ Cardinality(Counted(table)) \in Nat
    BY FS_CardinalityType DEF Bounded
  <2>2. /\ IsFiniteSet(Counted(table) \cup {c})
        /\ Cardinality(Counted(table) \cup {c}) =
             IF c \in Counted(table) THEN Cardinality(Counted(table)) ELSE Cardinality(Counted(table)) + 1
    BY <2>1, FS_AddElement
  <2> QED
    BY <2>1, <2>2
<1>3. IsFiniteSet(Counted(t)) /\ Cardinality(Counted(t)) <= Cardinality(Counted(table) \cup {c})
  BY <1>1, <1>2, FS_Subset
<1>4. Cardinality(Counted(t)) \in Nat /\ Cardinality(Counted(table) \cup {c}) \in Nat /\ MaxEntries \in Nat
  BY <1>2, <1>3, FS_CardinalityType, LoginLimiterAssumption DEF LoginLimiterAssumption
<1>5. Cardinality(Counted(table)) < MaxEntries
  BY <1>2, <1>4 DEF NoRoom
<1> HIDE DEF t
<1>6. Cardinality(Counted(t)) <= MaxEntries
  BY <1>2, <1>3, <1>4, <1>5
<1> QED
  BY <1>1, <1>3, <1>6 DEF Bounded, t

\* An entry of the table is replaced by another.
LEMMA SameEntry ==
  ASSUME NEW table, Bounded(table), NEW c \in Counted(table), NEW e \in LimiterEntries
  PROVE  Bounded([table EXCEPT ![c] = e])
<1>1. [table EXCEPT ![c] = e] \in Table /\ Counted([table EXCEPT ![c] = e]) \subseteq Counted(table)
  BY DEF Bounded, Table, Counted
<1> QED
  BY <1>1, FewerEntries

LEMMA OverflowType ==
  ASSUME overflow \in LimiterEntries, moment \in 1..LastMoment, ChargeOverflow
  PROVE  overflow' \in LimiterEntries
<1> DEFINE o == IF overflow.until # 0 /\ ~LockedOut(overflow) THEN None ELSE overflow
           counted == IF o.count = 0 \/ WindowOver(o) THEN First ELSE [o EXCEPT !.count = @ + 1]
<1>1. o \in LimiterEntries
  BY EntryTypes
<1>2. counted \in LimiterEntries
  <2> HIDE DEF o
  <2> QED
    BY <1>1, EntryTypes DEF LimiterEntries
<1>3. [counted EXCEPT !.until = moment + Lockout] \in LimiterEntries
  <2> HIDE DEF counted
  <2> QED
    BY <1>2, EntryTypes DEF LimiterEntries
<1>4. overflow' \in {o, counted, [counted EXCEPT !.until = moment + Lockout]}
  BY DEF ChargeOverflow
<1> HIDE DEF o, counted
<1> QED
  BY <1>1, <1>2, <1>3, <1>4

\* What one step does to the table of failures: it stays within its bound, and a
\* lockout leaves it only with a success of its client.
LEMMA FailuresStep ==
  ASSUME LimiterInv, [LimiterNext]_limiterVars
  PROVE  /\ LimiterInv'
         /\ \A c \in Clients : LockoutStands(c)
<1> USE LoginLimiterAssumption, EntryTypes DEF LoginLimiterAssumption, LimiterInv
<1>0. failures \in Table /\ attempts \in Table
  BY DEF Bounded
\* Who leaves the tables alone has nothing else to show.
<1>1. ASSUME UNCHANGED <<attempts, overflow, moment>>, Bounded(failures'),
             login' \in [Logins -> Clients \cup {NoClient}],
             \A c \in Clients : LockedOut(failures[c]) =>
               \/ failures'[c] = failures[c]
               \/ \E l \in Logins : login[l] = c /\ login'[l] = NoClient /\ failures'[c] = None
      PROVE  LimiterInv' /\ \A c \in Clients : LockoutStands(c)
  BY <1>1 DEF LockoutStands, Bounded, Counted
<1>2. ASSUME NEW l \in Logins, NEW c \in Clients, Ask(l, c)
      PROVE  LimiterInv' /\ \A d \in Clients : LockoutStands(d)
  <2>1. login' \in [Logins -> Clients \cup {NoClient}]
    BY <1>2 DEF Ask
  <2>2. ~LockedOut(failures[c])
    BY <1>2 DEF Ask
  <2>3. /\ failures' \in Table /\ Counted(failures') \subseteq Counted(failures)
        /\ \A d \in Clients : d # c => failures'[d] = failures[d]
    BY <1>0, <1>2, DroppingType DEF Ask
  <2>4. Bounded(failures')
    BY <2>3, FewerEntries
  <2> QED
    BY <1>1, <1>2, <2>1, <2>2, <2>3, <2>4 DEF Ask
<1>3. ASSUME NEW l \in Logins, Succeed(l)
      PROVE  LimiterInv' /\ \A d \in Clients : LockoutStands(d)
  <2>1. login' \in [Logins -> Clients \cup {NoClient}] /\ login[l] \in Clients /\ login'[l] = NoClient
    BY <1>3 DEF Succeed
  <2>2. /\ failures' \in Table /\ Counted(failures') \subseteq Counted(failures)
        /\ \A d \in Clients : d # login[l] => failures'[d] = failures[d]
        /\ failures'[login[l]] = None
    BY <1>0, <1>3, <2>1, DroppingType DEF Succeed
  <2>3. Bounded(failures')
    BY <2>2, FewerEntries
  <2> QED
    BY <1>1, <1>3, <2>1, <2>2, <2>3 DEF Succeed
<1>4. ASSUME NEW l \in Logins, RecordFailure(l)
      PROVE  LimiterInv' /\ \A d \in Clients : LockoutStands(d)
  <2> DEFINE c == login[l]
  <2>1. login' \in [Logins -> Clients \cup {NoClient}] /\ c \in Clients /\ UNCHANGED <<attempts, moment>>
    BY <1>4 DEF RecordFailure
  <2>2. failures[c] \in LimiterEntries
    BY <1>0, <2>1 DEF Table
  <2>3. CASE failures[c] # None
    <3> DEFINE e == CountFailure(failures[c])
    <3>1. failures' = [failures EXCEPT ![c] = e] /\ UNCHANGED overflow
      BY <1>4, <2>3 DEF RecordFailure
    <3>2. e \in LimiterEntries /\ (LockedOut(failures[c]) => e = failures[c])
      <4>1. PICK f \in LimiterEntries : f = failures[c]
        BY <2>2
      <4>2. f.count + 1 \in Nat /\ moment \in Moments /\ moment + Lockout \in Moments /\ 1 \in Nat
        BY DEF LimiterEntries
      <4>3. CountFailure(f) \in LimiterEntries
        BY <4>2 DEF CountFailure, LimiterEntries
      <4> QED
        BY <4>1, <4>3 DEF CountFailure
    <3>3. c \in Counted(failures)
      BY <2>1, <2>3 DEF Counted
    <3> HIDE DEF e
    <3>4. Bounded(failures')
      BY <3>1, <3>2, <3>3, SameEntry
    <3>5. \A d \in Clients : LockedOut(failures[d]) => failures'[d] = failures[d]
      BY <1>0, <3>1, <3>2 DEF Table
    <3> QED
      BY <1>1, <2>1, <3>1, <3>4, <3>5
  <2>4. CASE failures[c] = None
    <3>1. PICK table \in MakeRoom(failures) :
            IF NoRoom(table) THEN failures' = table /\ ChargeOverflow
            ELSE failures' = [table EXCEPT ![c] = First] /\ UNCHANGED overflow
      BY <1>4, <2>4 DEF RecordFailure
    <3>2. Bounded(table) /\ \A d \in Clients : LockedOut(failures[d]) => table[d] = failures[d]
      BY RoomIsFair
    <3>3. Bounded(failures')
      BY <2>1, <3>1, <3>2, RoomForOne
    <3>4. overflow' \in LimiterEntries
      BY <3>1, OverflowType
    <3>5. \A d \in Clients : LockedOut(failures[d]) => failures'[d] = failures[d]
      BY <2>4, <3>1, <3>2 DEF Bounded, Table
    <3> HIDE DEF c
    <3> QED
      BY <2>1, <3>3, <3>4, <3>5 DEF LockoutStands, Bounded, Counted
  <2> QED
    BY <2>3, <2>4
<1>5. ASSUME NEW c \in Clients, AllowAttempt(c)
      PROVE  LimiterInv' /\ \A d \in Clients : LockoutStands(d)
  <2> DEFINE f == IF Stale(attempts[c]) THEN None ELSE attempts[c]
  <2>1. UNCHANGED <<failures, login, moment>>
    BY <1>5 DEF AllowAttempt
  <2>2. attempts[c] \in LimiterEntries /\ f \in LimiterEntries
    BY <1>0 DEF Table
  <2>3. SUFFICES /\ Bounded(attempts') /\ overflow' \in LimiterEntries
                 /\ \A d \in Clients : LockedOut(attempts[d]) => attempts'[d] = attempts[d]
    BY <2>1 DEF LockoutStands, Bounded, Counted
  <2>4. LockedOut(attempts[c]) => f = attempts[c] /\ LockedOut(f)
    BY <2>2 DEF LockedOut, Stale, Counting, LimiterEntries, Moments
  <2>5. CASE LockedOut(f)
    BY <1>5, <2>5 DEF AllowAttempt, Bounded, Counted
  <2>6. CASE ~LockedOut(f) /\ f # None
    <3> DEFINE e == IF f.count >= MaxFailures THEN [f EXCEPT !.until = moment + Lockout]
                    ELSE [f EXCEPT !.count = @ + 1]
    <3>1. attempts' = [attempts EXCEPT ![c] = e] /\ UNCHANGED overflow
      BY <1>5, <2>6 DEF AllowAttempt
    <3>2. c \in Counted(attempts)
      BY <2>6 DEF Counted
    <3>3. e \in LimiterEntries
      <4> HIDE DEF f
      <4> QED
        BY <2>2 DEF LimiterEntries
    <3> HIDE DEF e
    <3>4. Bounded(attempts')
      BY <3>1, <3>2, <3>3, SameEntry
    <3> HIDE DEF f
    <3> QED
      BY <1>0, <2>4, <2>6, <3>1, <3>4 DEF Table
  <2>7. CASE ~LockedOut(f) /\ f = None
    <3> DEFINE others == Dropping(attempts, {c})
    <3>1. PICK table \in MakeRoom(others) :
            IF NoRoom(table) THEN attempts' = table /\ ChargeOverflow
            ELSE attempts' = [table EXCEPT ![c] = First] /\ UNCHANGED overflow
      BY <1>5, <2>7 DEF AllowAttempt
    <3>2. Bounded(others) /\ \A d \in Clients : d # c => others[d] = attempts[d]
      BY <1>0, DroppingType, FewerEntries
    <3> HIDE DEF others, f
    <3>3. Bounded(table) /\ \A d \in Clients : LockedOut(others[d]) => table[d] = others[d]
      BY <3>2, RoomIsFair
    <3>4. Bounded(attempts')
      BY <3>1, <3>3, RoomForOne
    <3>5. overflow' \in LimiterEntries
      BY <3>1, OverflowType
    <3> QED
      BY <2>4, <2>7, <3>1, <3>2, <3>3, <3>4, <3>5 DEF Bounded, Table
  <2> QED
    BY <2>5, <2>6, <2>7
<1>6. CASE NextMoment \/ UNCHANGED limiterVars
  <2>1. moment' \in 1..LastMoment /\ UNCHANGED <<failures, attempts, overflow, login>>
    BY <1>6 DEF NextMoment, limiterVars
  <2> QED
    BY <2>1 DEF LockoutStands, Bounded, Counted
<1> QED
  BY <1>2, <1>3, <1>4, <1>5, <1>6 DEF LimiterNext

LEMMA LimiterStart == LimiterInit => LimiterInv
<1> SUFFICES ASSUME LimiterInit PROVE LimiterInv
  OBVIOUS
<1>1. moment \in 1..LastMoment /\ failures \in Table /\ attempts = failures /\ None \in LimiterEntries
  BY LoginLimiterAssumption, EntryTypes DEF LoginLimiterAssumption, LimiterInit, Table
<1>2. Counted(failures) = {}
  BY DEF LimiterInit, Counted
<1>3. Bounded(failures)
  BY <1>1, <1>2, FS_EmptySet, LoginLimiterAssumption DEF LoginLimiterAssumption, Bounded
<1> QED
  BY <1>1, <1>3 DEF LimiterInit, LimiterInv

\* For any number of clients, logins and moments the tables stay within their
\* bound, and no traffic of others moves or ends a lockout: what makes room is
\* always an entry that is not one.
THEOREM LockoutsStand == LimiterSpec => LimiterHolds
<1>1. LimiterInv => LimiterTypeOK
  BY DEF LimiterInv, LimiterTypeOK, Bounded
<1>2. LimiterInv /\ [LimiterNext]_limiterVars => LimiterInv'
  BY FailuresStep
<1>3. LimiterInv /\ [LimiterNext]_limiterVars => [\A c \in Clients : LockoutStands(c)]_limiterVars
  BY FailuresStep
<1> QED
  BY <1>1, <1>2, <1>3, LimiterStart, PTL DEF LimiterSpec, LimiterHolds

-----------------------------------------------------------------------------
(* Plan admission.                                                         *)

\* The requests whose ticket is k, of those in the steps of a set.
Of(k, steps) == {r \in Requests : ticket[r] = k /\ pc[r] \in steps}
HoldingSteps == {"announce", "reserve", "running", "withdraw"}
\* The tracker's consumers have been told of the ticket and not of its end.
ToldSteps == {"reserve", "running", "withdraw", "retract", "conclude"}

Streams(k) == {r \in Of(k, HoldingSteps) : streamed[r]}

\* The requests admitted in month m under a cap of n or less.
Under(m, n) == {q \in Admitted : Capped(q) /\ period[q] = m /\ plan[q].monthly <= n}

\* Without enforcement nobody has limits; only a request that runs, or has run,
\* is a stream; and what each counter counts.
AdmissionInv ==
  /\ TypeOK
  /\ \A r \in Requests : ~enforcing => plan[r] = NoLimits
  /\ \A r \in Requests : streamed[r] => pc[r] \in {"running", "conclude", "done"}
  /\ \A k \in Tickets :
       /\ active[k] = Cardinality(Of(k, HoldingSteps))
       /\ streaming[k] = Cardinality(Streams(k))
       /\ seen[k] = Cardinality(Of(k, ToldSteps))
  /\ \A m \in Months, n \in Nat :
       Cardinality(Under(m, n)) <= used[m] /\ Cardinality(Under(m, n)) <= n

\* A set of requests is finite, and so is what is left when one comes or goes.
LEMMA CountRequests ==
  ASSUME NEW S, S \subseteq Requests
  PROVE  /\ IsFiniteSet(S) /\ Cardinality(S) \in Nat
         /\ \A r \in Requests \ S : Cardinality(S \cup {r}) = Cardinality(S) + 1
         /\ \A r \in S : Cardinality(S \ {r}) = Cardinality(S) - 1 /\ Cardinality(S) > 0
<1>1. IsFiniteSet(S)
  BY AdmissionAssumption, FS_Subset DEF AdmissionAssumption
<1>2. Cardinality(S) \in Nat
  BY <1>1, FS_CardinalityType
<1>3. ASSUME NEW r \in Requests \ S PROVE Cardinality(S \cup {r}) = Cardinality(S) + 1
  <2>1. Cardinality(S \cup {r}) = IF r \in S THEN Cardinality(S) ELSE Cardinality(S) + 1
    BY <1>1, FS_AddElement
  <2> QED
    BY <1>3, <2>1
<1>4. ASSUME NEW r \in S PROVE Cardinality(S \ {r}) = Cardinality(S) - 1 /\ Cardinality(S) > 0
  <2>1. Cardinality(S \ {r}) = IF r \in S THEN Cardinality(S) - 1 ELSE Cardinality(S)
    BY <1>1, FS_RemoveElement
  <2>2. Cardinality(S) # 0
    BY <1>1, <1>4, FS_EmptySet
  <2> QED
    BY <1>2, <1>4, <2>1, <2>2
<1> QED
  BY <1>1, <1>2, <1>3, <1>4

\* activeClientRequestsLocked adds up the tickets of the account. The sum is the
\* number of requests that hold one, because that number, over the tickets of any
\* set, satisfies the recursion that defines the sum, and no two functions do.
LEMMA SumOfTickets ==
  ASSUME AdmissionInv
  PROVE  ActiveRequests = Cardinality(Holding)
<1> DEFINE pick(s) == CHOOSE x \in s : TRUE
           Step(g) == [s \in SUBSET Tickets |->
                         IF s = {} THEN 0 ELSE active[pick(s)] + g[s \ {pick(s)}]]
           Rec(g) == g = Step(g)
           In(s) == {r \in Holding : ticket[r] \in s}
           count == [s \in SUBSET Tickets |-> Cardinality(In(s))]
           sum == CHOOSE g : Rec(g)
<1>1. ActiveRequests = sum[Tickets]
  BY DEF ActiveRequests, MapThenSumSet, MapThenFoldSet
<1>2. \A s \in SUBSET Tickets : s # {} => pick(s) \in s /\ pick(s) \in Tickets
  OBVIOUS
<1>3. /\ ticket \in [Requests -> Tickets] /\ Holding \subseteq Requests
      /\ \A k \in Tickets : active[k] = Cardinality(Of(k, HoldingSteps))
  BY DEF AdmissionInv, TypeOK, Holding
<1>4. ASSUME NEW s \in SUBSET Tickets, NEW k \in s
      PROVE  Cardinality(In(s)) = active[k] + Cardinality(In(s \ {k}))
  <2>1. In(s) = Of(k, HoldingSteps) \cup In(s \ {k}) /\ Of(k, HoldingSteps) \cap In(s \ {k}) = {}
    BY <1>3, <1>4 DEF Of, HoldingSteps, Holding
  <2>2. IsFiniteSet(Of(k, HoldingSteps)) /\ IsFiniteSet(In(s \ {k}))
    BY <1>3, CountRequests DEF Of
  <2>3. Cardinality(In(s)) = Cardinality(Of(k, HoldingSteps)) + Cardinality(In(s \ {k})) - Cardinality({})
    BY <2>1, <2>2, FS_Union
  <2>4. Cardinality(Of(k, HoldingSteps)) \in Nat /\ Cardinality(In(s \ {k})) \in Nat
    BY <2>2, FS_CardinalityType
  <2> HIDE DEF In
  <2> QED
    BY <1>3, <2>3, <2>4, FS_EmptySet
<1>5. Rec(count)
  <2>1. ASSUME NEW s \in SUBSET Tickets PROVE count[s] = Step(count)[s]
    <3>1. CASE s = {}
      <4>1. In(s) = {}
        BY <3>1
      <4> HIDE DEF In
      <4> QED
        BY <3>1, <4>1, FS_EmptySet
    <3>2. CASE s # {}
      <4>1. PICK k \in s : k = pick(s)
        BY <1>2, <3>2
      <4>2. count[s \ {k}] = Cardinality(In(s \ {k})) /\ count[s] = Cardinality(In(s))
        OBVIOUS
      <4>3. count[s] = active[k] + count[s \ {k}]
        BY <1>4, <4>2
      <4>4. Step(count)[s] = active[pick(s)] + count[s \ {pick(s)}]
        BY <3>2
      <4> HIDE DEF pick, count, Step
      <4> QED
        BY <4>1, <4>3, <4>4
    <3> QED
      BY <3>1, <3>2
  <2>2. count = [s \in SUBSET Tickets |-> count[s]] /\ Step(count) = [s \in SUBSET Tickets |-> Step(count)[s]]
    OBVIOUS
  <2> HIDE DEF count, Step
  <2> QED
    BY <2>1, <2>2
<1>6. Rec(sum)
  <2> HIDE DEF Rec, count
  <2> QED
    BY <1>5
<1>7. \A s \in SUBSET Tickets : sum[s] = Step(sum)[s] /\ count[s] = Step(count)[s]
  <2> HIDE DEF sum, count, Step
  <2> QED
    BY <1>5, <1>6
\* The least set of tickets on which they differ.
<1>8. ASSUME sum[Tickets] # count[Tickets] PROVE FALSE
  <2> DEFINE D == {s \in SUBSET Tickets : sum[s] # count[s]}
  <2>1. /\ IsWellFoundedOn(StrictSubsetOrdering(Tickets), FiniteSubsetsOf(Tickets))
        /\ D # {} /\ D \subseteq FiniteSubsetsOf(Tickets)
    <3>1. SUBSET Tickets = FiniteSubsetsOf(Tickets)
      BY AdmissionAssumption, FS_Subset DEF AdmissionAssumption, FiniteSubsetsOf
    <3> QED
      BY <1>8, <3>1, FS_StrictSubsetOrderingWellFounded
  <2>2. PICK s \in D : \A t \in D : <<t, s>> \notin StrictSubsetOrdering(Tickets)
    <3> HIDE DEF D
    <3> QED
      BY <2>1, WFMin
  <2>3. s \in SUBSET Tickets /\ sum[s] # count[s]
    BY <2>2
  <2>4. s # {}
    <3>1. s = {} => Step(sum)[s] = 0 /\ Step(count)[s] = 0
      BY <2>3
    <3> HIDE DEF Step, sum, count
    <3> QED
      BY <1>7, <2>3, <3>1
  <2>5. PICK k \in s : k = pick(s)
    BY <1>2, <2>3, <2>4
  <2>6. Step(sum)[s] = active[pick(s)] + sum[s \ {pick(s)}] /\ Step(count)[s] = active[pick(s)] + count[s \ {pick(s)}]
    <3> HIDE DEF sum, count
    <3> QED
      BY <2>3, <2>4
  <2>7. <<s \ {k}, s>> \in StrictSubsetOrdering(Tickets)
    BY <2>3, <2>5 DEF StrictSubsetOrdering
  <2>8. sum[s \ {k}] = count[s \ {k}]
    BY <2>2, <2>3, <2>7
  <2> HIDE DEF Step, sum, count, pick, D
  <2> QED
    BY <1>7, <2>3, <2>5, <2>6, <2>8
<1>9. In(Tickets) = Holding
  BY <1>3
<1>10. count[Tickets] = Cardinality(Holding)
  BY <1>9
<1> HIDE DEF sum, count
<1> QED
  BY <1>1, <1>8, <1>10

\* Two sets of requests that differ at most in one request.
LEMMA OneRequest ==
  ASSUME NEW S, S \subseteq Requests, NEW T, T \subseteq Requests, NEW r \in Requests,
         \A q \in Requests \ {r} : q \in S <=> q \in T
  PROVE  Cardinality(T) = IF r \in S <=> r \in T THEN Cardinality(S)
                          ELSE IF r \in T THEN Cardinality(S) + 1 ELSE Cardinality(S) - 1
<1>1. CASE r \in S <=> r \in T
  <2>1. S = T
    BY <1>1
  <2> QED
    BY <1>1, <2>1
<1>2. CASE r \in T /\ r \notin S
  <2>1. T = S \cup {r}
    BY <1>2
  <2> QED
    BY <1>2, <2>1, CountRequests
<1>3. CASE r \in S /\ r \notin T
  <2>1. T = S \ {r}
    BY <1>3
  <2> QED
    BY <1>3, <2>1, CountRequests
<1> QED
  BY <1>1, <1>2, <1>3

\* What each count becomes when one request moves to another step.
LEMMA OneMoves ==
  ASSUME AdmissionInv, NEW r \in Requests, NEW p \in Steps,
         pc' = [pc EXCEPT ![r] = p], UNCHANGED ticket,
         \A q \in Requests \ {r} : /\ plan'[q] = plan[q] /\ period'[q] = period[q]
                                   /\ streamed'[q] = streamed[q]
  PROVE  /\ pc'[r] = p
         /\ \A k \in Tickets, steps \in {HoldingSteps, ToldSteps} :
              Cardinality(Of(k, steps)') =
                IF k # ticket[r] \/ (pc[r] \in steps <=> p \in steps) THEN Cardinality(Of(k, steps))
                ELSE IF p \in steps THEN Cardinality(Of(k, steps)) + 1 ELSE Cardinality(Of(k, steps)) - 1
         /\ \A k \in Tickets :
              Cardinality(Streams(k)') =
                IF \/ k # ticket[r]
                   \/ (pc[r] \in HoldingSteps /\ streamed[r]) <=> (p \in HoldingSteps /\ streamed'[r])
                THEN Cardinality(Streams(k))
                ELSE IF p \in HoldingSteps /\ streamed'[r] THEN Cardinality(Streams(k)) + 1
                ELSE Cardinality(Streams(k)) - 1
         /\ \A m \in Months, n \in Nat :
              Cardinality(Under(m, n)') =
                IF r \in Under(m, n) <=> r \in Under(m, n)' THEN Cardinality(Under(m, n))
                ELSE IF r \in Under(m, n)' THEN Cardinality(Under(m, n)) + 1
                ELSE Cardinality(Under(m, n)) - 1
<1>1. pc'[r] = p /\ \A q \in Requests \ {r} : pc'[q] = pc[q]
  BY DEF AdmissionInv, TypeOK
<1>2. ASSUME NEW k \in Tickets, NEW steps \in {HoldingSteps, ToldSteps}
      PROVE  Cardinality(Of(k, steps)') =
               IF k # ticket[r] \/ (pc[r] \in steps <=> p \in steps) THEN Cardinality(Of(k, steps))
               ELSE IF p \in steps THEN Cardinality(Of(k, steps)) + 1 ELSE Cardinality(Of(k, steps)) - 1
  <2>1. PICK S, T : S = Of(k, steps) /\ T = Of(k, steps)'
    OBVIOUS
  <2>2. S \subseteq Requests /\ T \subseteq Requests /\ \A q \in Requests \ {r} : q \in S <=> q \in T
    BY <1>1, <2>1 DEF Of
  <2>3. (r \in S <=> k = ticket[r] /\ pc[r] \in steps) /\ (r \in T <=> k = ticket[r] /\ p \in steps)
    BY <1>1, <2>1 DEF Of
  <2>4. Cardinality(T) = IF r \in S <=> r \in T THEN Cardinality(S)
                          ELSE IF r \in T THEN Cardinality(S) + 1 ELSE Cardinality(S) - 1
    BY <2>2, OneRequest
  <2> QED
    BY <2>1, <2>3, <2>4
<1>3. ASSUME NEW k \in Tickets
      PROVE  Cardinality(Streams(k)') =
                IF \/ k # ticket[r]
                   \/ (pc[r] \in HoldingSteps /\ streamed[r]) <=> (p \in HoldingSteps /\ streamed'[r])
                THEN Cardinality(Streams(k))
                ELSE IF p \in HoldingSteps /\ streamed'[r] THEN Cardinality(Streams(k)) + 1
                ELSE Cardinality(Streams(k)) - 1
  <2>1. PICK S, T : S = Streams(k) /\ T = Streams(k)'
    OBVIOUS
  <2>2. S \subseteq Requests /\ T \subseteq Requests /\ \A q \in Requests \ {r} : q \in S <=> q \in T
    BY <1>1, <2>1 DEF Of, Streams
  <2>3. /\ r \in S <=> k = ticket[r] /\ pc[r] \in HoldingSteps /\ streamed[r]
        /\ r \in T <=> k = ticket[r] /\ p \in HoldingSteps /\ streamed'[r]
    BY <1>1, <2>1 DEF Of, Streams
  <2>4. Cardinality(T) = IF r \in S <=> r \in T THEN Cardinality(S)
                          ELSE IF r \in T THEN Cardinality(S) + 1 ELSE Cardinality(S) - 1
    BY <2>2, OneRequest
  <2> QED
    BY <2>1, <2>3, <2>4
<1>4. ASSUME NEW m \in Months, NEW n \in Nat
      PROVE  Cardinality(Under(m, n)') =
                IF r \in Under(m, n) <=> r \in Under(m, n)' THEN Cardinality(Under(m, n))
                ELSE IF r \in Under(m, n)' THEN Cardinality(Under(m, n)) + 1
                ELSE Cardinality(Under(m, n)) - 1
  <2>1. PICK S, T : S = Under(m, n) /\ T = Under(m, n)'
    OBVIOUS
  <2>2. S \subseteq Requests /\ T \subseteq Requests /\ \A q \in Requests \ {r} : q \in S <=> q \in T
    BY <1>1, <2>1 DEF Under, Admitted, Capped
  <2> QED
    BY <2>1, <2>2, OneRequest
<1> QED
  BY <1>1, <1>2, <1>3, <1>4

LEMMA AdmissionStart == Init => AdmissionInv
<1> SUFFICES ASSUME Init PROVE AdmissionInv
  OBVIOUS
<1>1. TypeOK
  BY AdmissionAssumption DEF AdmissionAssumption, Init, TypeOK, Steps, Months
<1>2. \A k \in Tickets : Of(k, HoldingSteps) = {} /\ Of(k, ToldSteps) = {} /\ Streams(k) = {}
  BY DEF Init, Of, Streams, HoldingSteps, ToldSteps
<1>3. \A m, n : Under(m, n) = {}
  BY DEF Init, Under, Admitted
<1>4. Cardinality({}) = 0
  BY FS_EmptySet
<1>5. \A k \in Tickets : /\ active[k] = Cardinality(Of(k, HoldingSteps))
                         /\ streaming[k] = Cardinality(Streams(k))
                         /\ seen[k] = Cardinality(Of(k, ToldSteps))
  BY <1>2, <1>4 DEF Init
<1>6. \A m \in Months, n \in Nat : Cardinality(Under(m, n)) <= used[m] /\ Cardinality(Under(m, n)) <= n
  BY <1>3, <1>4 DEF Init
<1> QED
  BY <1>1, <1>5, <1>6 DEF AdmissionInv, Init

\* What a step of a request that touches no monthly count has to show.
LEMMA SameMonths ==
  ASSUME AdmissionInv, NEW r \in Requests, NEW p \in Steps,
         pc' = [pc EXCEPT ![r] = p], UNCHANGED <<ticket, used>>,
         \A q \in Requests \ {r} : plan'[q] = plan[q] /\ period'[q] = period[q] /\ streamed'[q] = streamed[q],
         \A m \in Months, n \in Nat : r \in Under(m, n) <=> r \in Under(m, n)'
  PROVE  \A m \in Months, n \in Nat :
           Cardinality(Under(m, n)') <= used'[m] /\ Cardinality(Under(m, n)') <= n
<1> TAKE m \in Months, n \in Nat
<1>1. Cardinality(Under(m, n)') = Cardinality(Under(m, n))
  BY OneMoves
<1>2. Cardinality(Under(m, n)) <= used[m] /\ Cardinality(Under(m, n)) <= n
  BY DEF AdmissionInv
<1> QED
  BY <1>1, <1>2

LEMMA AdmissionStep ==
  ASSUME AdmissionInv, [Next]_vars
  PROVE  AdmissionInv'
<1> USE DEF account, tracker, locals, Goto, Emit
<1>0. /\ NoLimits \in Limits /\ PlanLimits \subseteq Limits /\ LastMonth \in Nat \ {0}
      /\ NoLimits.monthly = Unlimited /\ Unlimited \notin Nat
  BY AdmissionAssumption DEF AdmissionAssumption, NoLimits, Limits, Unlimited
<1>1. /\ active \in [Tickets -> Nat] /\ streaming \in [Tickets -> Nat] /\ seen \in [Tickets -> Int]
      /\ used \in [Months -> Nat] /\ pc \in [Requests -> Steps] /\ ticket \in [Requests -> Tickets]
      /\ plan \in [Requests -> PlanLimits \cup {NoLimits}] /\ period \in [Requests -> Months]
      /\ streamed \in [Requests -> BOOLEAN] /\ TypeOK
  BY DEF AdmissionInv, TypeOK
\* A step of a request.
<1>2. ASSUME NEW r \in Requests,
             \/ LookUp(r) \/ LookUpFails(r) \/ Acquire(r) \/ Announce(r)
             \/ Reserve(r) \/ ReserveFails(r) \/ Increment(r)
             \/ Stream(r) \/ Withdraw(r) \/ End(r) \/ Retract(r)
      PROVE  AdmissionInv'
  <2>1. PICK p \in Steps :
        /\ p = pc'[r] /\ pc' = [pc EXCEPT ![r] = p] /\ UNCHANGED <<ticket, account>>
        /\ \A q \in Requests \ {r} : plan'[q] = plan[q] /\ period'[q] = period[q] /\ streamed'[q] = streamed[q]
    BY <1>1, <1>2 DEF LookUp, LookUpFails, Acquire, Stream, Withdraw, End, Retract, Announce,
       Reserve, ReserveFails, Increment, ClientEnd, Steps
  <2>2. /\ plan' \in [Requests -> PlanLimits \cup {NoLimits}] /\ period' \in [Requests -> Months]
        /\ streamed' \in [Requests -> BOOLEAN]
        /\ ~enforcing => plan'[r] = NoLimits
        /\ streamed'[r] => pc'[r] \in {"running", "conclude", "done"}
    <3> USE <1>1 DEF AdmissionInv, TypeOK
    <3>1. CASE LookUp(r) \/ LookUpFails(r) \/ Acquire(r) \/ Announce(r)
      BY <3>1 DEF LookUp, LookUpFails, Acquire, Announce
    <3>2. CASE Reserve(r) \/ ReserveFails(r) \/ Increment(r)
      BY <3>2 DEF Reserve, ReserveFails, Increment
    <3>3. CASE Stream(r) \/ Withdraw(r) \/ End(r) \/ Retract(r)
      BY <3>3 DEF Stream, Withdraw, End, Retract, ClientEnd
    <3> QED
      BY <1>2, <3>1, <3>2, <3>3
  <2>3. \A k \in Tickets :
          /\ active'[k] = Cardinality(Of(k, HoldingSteps)') /\ streaming'[k] = Cardinality(Streams(k)')
          /\ seen'[k] = Cardinality(Of(k, ToldSteps)')
    <3> SUFFICES ASSUME NEW k \in Tickets
                 PROVE  /\ active'[k] = Cardinality(Of(k, HoldingSteps)')
                        /\ streaming'[k] = Cardinality(Streams(k)')
                        /\ seen'[k] = Cardinality(Of(k, ToldSteps)')
      OBVIOUS
    <3>1. /\ active[k] = Cardinality(Of(k, HoldingSteps)) /\ streaming[k] = Cardinality(Streams(k))
          /\ seen[k] = Cardinality(Of(k, ToldSteps)) /\ active[k] \in Nat /\ streaming[k] \in Nat
          /\ ticket[r] \in Tickets
      BY <1>1 DEF AdmissionInv
    <3>2. /\ pc[r] \in HoldingSteps /\ k = ticket[r] => active[k] > 0
          /\ pc[r] \in HoldingSteps /\ streamed[r] /\ k = ticket[r] => streaming[k] > 0
      <4>1. Of(k, HoldingSteps) \subseteq Requests /\ Streams(k) \subseteq Requests
        BY DEF Of, Streams
      <4>2. /\ pc[r] \in HoldingSteps /\ k = ticket[r] => r \in Of(k, HoldingSteps)
            /\ pc[r] \in HoldingSteps /\ streamed[r] /\ k = ticket[r] => r \in Streams(k)
        BY DEF Of, Streams
      <4> QED
        BY <3>1, <4>1, <4>2, CountRequests
    <3>3. CASE k # ticket[r]
      <4>1. active'[k] = active[k] /\ streaming'[k] = streaming[k] /\ seen'[k] = seen[k]
        BY <1>1, <1>2, <2>1, <3>3 DEF LookUp, LookUpFails, Acquire, Stream, Withdraw, End, Retract,
           Announce, Reserve, ReserveFails, Increment, ClientEnd
      <4> QED
        BY <2>1, <3>1, <3>3, <4>1, OneMoves
    <3>4. CASE k = ticket[r]
      <4>1. /\ active'[k] = IF pc[r] \in HoldingSteps <=> p \in HoldingSteps THEN active[k]
                            ELSE IF p \in HoldingSteps THEN active[k] + 1 ELSE active[k] - 1
        BY <1>1, <1>2, <2>1, <3>2, <3>4 DEF LookUp, LookUpFails, Acquire, Stream, Withdraw, End, Retract,
           Announce, Reserve, ReserveFails, Increment, ClientEnd, HoldingSteps
      <4>2. /\ seen'[k] = IF pc[r] \in ToldSteps <=> p \in ToldSteps THEN seen[k]
                          ELSE IF p \in ToldSteps THEN seen[k] + 1 ELSE seen[k] - 1
        BY <1>1, <1>2, <2>1, <3>4 DEF LookUp, LookUpFails, Acquire, Stream, Withdraw, End, Retract,
           Announce, Reserve, ReserveFails, Increment, ClientEnd, ToldSteps
      <4>3. streaming'[k] =
              IF (pc[r] \in HoldingSteps /\ streamed[r]) <=> (p \in HoldingSteps /\ streamed'[r])
              THEN streaming[k]
              ELSE IF p \in HoldingSteps /\ streamed'[r] THEN streaming[k] + 1 ELSE streaming[k] - 1
        <5>1. streamed[r] => pc[r] \in {"running", "conclude", "done"}
          BY DEF AdmissionInv
        <5> QED
          BY <1>1, <1>2, <2>1, <3>2, <3>4, <5>1 DEF LookUp, LookUpFails, Acquire, Stream, Withdraw, End,
             Retract, Announce, Reserve, ReserveFails, Increment, ClientEnd, HoldingSteps
      <4>4. \A steps \in {HoldingSteps, ToldSteps} :
              Cardinality(Of(k, steps)') =
                IF pc[r] \in steps <=> p \in steps THEN Cardinality(Of(k, steps))
                ELSE IF p \in steps THEN Cardinality(Of(k, steps)) + 1
                ELSE Cardinality(Of(k, steps)) - 1
        BY <2>1, <3>4, OneMoves
      <4>5. Cardinality(Streams(k)') =
              IF (pc[r] \in HoldingSteps /\ streamed[r]) <=> (p \in HoldingSteps /\ streamed'[r])
              THEN Cardinality(Streams(k))
              ELSE IF p \in HoldingSteps /\ streamed'[r] THEN Cardinality(Streams(k)) + 1
              ELSE Cardinality(Streams(k)) - 1
        BY <2>1, <3>4, OneMoves
      <4>6. /\ Cardinality(Of(k, HoldingSteps)') = active'[k]
            /\ Cardinality(Of(k, ToldSteps)') = seen'[k]
        BY <3>1, <4>1, <4>2, <4>4
      <4>7. Cardinality(Streams(k)') = streaming'[k]
        BY <3>1, <4>3, <4>5
      <4> QED
        BY <4>6, <4>7
    <3> QED
      BY <3>3, <3>4
  <2>4. /\ active' \in [Tickets -> Nat] /\ streaming' \in [Tickets -> Nat]
        /\ seen' \in [Tickets -> Int] /\ used' \in [Months -> Nat]
    BY <1>1, <1>2, <2>1 DEF LookUp, LookUpFails, Acquire, Stream, Withdraw, End, Retract, Announce,
       Reserve, ReserveFails, Increment, ClientEnd
  <2>5. \A m \in Months, n \in Nat :
          Cardinality(Under(m, n)') <= used'[m] /\ Cardinality(Under(m, n)') <= n
    <3> SUFFICES ASSUME NEW m \in Months, NEW n \in Nat
                 PROVE  Cardinality(Under(m, n)') <= used'[m] /\ Cardinality(Under(m, n)') <= n
      OBVIOUS
    <3>1. /\ Cardinality(Under(m, n)) <= used[m] /\ Cardinality(Under(m, n)) <= n
          /\ Cardinality(Under(m, n)) \in Nat /\ used[m] \in Nat
      <4>1. Under(m, n) \subseteq Requests
        BY DEF Under, Admitted
      <4> QED
        BY <1>1, <4>1, CountRequests DEF AdmissionInv
    \* The counter of a month never falls.
    <3>2. used'[m] >= used[m] /\ used'[m] \in Nat
      BY <1>1, <1>2, <2>1 DEF LookUp, LookUpFails, Acquire, Stream, Withdraw, End, Retract, Announce,
         Reserve, ReserveFails, Increment, ClientEnd
    \* A request is admitted under a cap only by a reservation that counts it.
    <3>3. r \in Under(m, n)' /\ r \notin Under(m, n) =>
            used[m] < n /\ used'[m] = used[m] + 1
      <4> SUFFICES ASSUME r \in Under(m, n)', r \notin Under(m, n)
                   PROVE  used[m] < n /\ used'[m] = used[m] + 1
        OBVIOUS
      <4>1. /\ pc'[r] \in {"running", "conclude", "done"}
            /\ plan'[r].monthly # Unlimited /\ period'[r] = m /\ plan'[r].monthly <= n
        BY DEF Under, Admitted, Capped
      <4>2. plan'[r] = plan[r] /\ period'[r] = period[r]
        BY <1>1, <1>2, <4>1 DEF LookUp, LookUpFails, Acquire, Stream, Withdraw, End, Retract, Announce,
           Reserve, ReserveFails, Increment, ClientEnd
      <4>3. pc[r] \notin {"running", "conclude", "done"}
        BY <4>1, <4>2 DEF Under, Admitted, Capped
      <4>4. Capped(r) /\ enforcing
        BY <1>0, <4>1, <4>2 DEF Capped, AdmissionInv
      <4>5. Reserve(r) /\ pc'[r] = "running"
        BY <1>1, <1>2, <4>1, <4>3, <4>4 DEF LookUp, LookUpFails, Acquire, Stream, Withdraw, End, Retract,
           Announce, Reserve, ReserveFails, Increment, ClientEnd
      <4>6. used[m] < plan[r].monthly /\ used'[m] = used[m] + 1
        BY <1>1, <4>1, <4>2, <4>5 DEF Reserve
      <4>7. plan[r].monthly \in Nat
        BY <1>0, <1>1, <4>1, <4>2 DEF Limits
      <4> QED
        BY <1>1, <4>1, <4>2, <4>6, <4>7
    <3>4. r \in Under(m, n) => r \in Under(m, n)'
      <4> SUFFICES ASSUME r \in Under(m, n) PROVE r \in Under(m, n)'
        OBVIOUS
      <4>1. pc[r] \in {"running", "conclude", "done"} /\ Capped(r) /\ period[r] = m /\ plan[r].monthly <= n
        BY DEF Under, Admitted
      <4>2. UNCHANGED <<plan, period>> /\ pc'[r] \in {"running", "conclude", "done"}
        BY <1>1, <1>2, <4>1 DEF LookUp, LookUpFails, Acquire, Stream, Withdraw, End, Retract, Announce,
           Reserve, ReserveFails, Increment, ClientEnd
      <4> QED
        BY <4>1, <4>2 DEF Under, Admitted, Capped
    <3> QED
      BY <2>1, <3>1, <3>2, <3>3, <3>4, OneMoves
  <2>6. \A q \in Requests : (~enforcing' => plan'[q] = NoLimits)
                            /\ (streamed'[q] => pc'[q] \in {"running", "conclude", "done"})
    <3>1. \A q \in Requests \ {r} : pc'[q] = pc[q]
      BY <1>1, <2>1
    <3> QED
      BY <2>1, <2>2, <3>1 DEF AdmissionInv
  <2>7. TypeOK'
    BY <1>1, <2>1, <2>2, <2>4 DEF TypeOK
  <2> QED
    BY <2>3, <2>5, <2>6, <2>7 DEF AdmissionInv
<1>3. ASSUME UNCHANGED <<used, tracker, seen, pc, locals, enforcing>>, limits' \in PlanLimits, month' \in Months
      PROVE  AdmissionInv'
  <2>1. TypeOK' /\ \A k \in Tickets : Of(k, HoldingSteps)' = Of(k, HoldingSteps)
                   /\ Of(k, ToldSteps)' = Of(k, ToldSteps) /\ Streams(k)' = Streams(k)
    BY <1>1, <1>3 DEF TypeOK, Of, Streams
  <2>2. \A m, n : Under(m, n)' = Under(m, n)
    BY <1>3 DEF Under, Admitted, Capped
  <2> QED
    BY <1>3, <2>1, <2>2 DEF AdmissionInv
<1>4. CASE NextMonth \/ UNCHANGED vars \/ \E p \in PlanLimits : AssignPlan(p)
  BY <1>0, <1>1, <1>3, <1>4 DEF NextMonth, vars, AssignPlan, TypeOK, Months
<1> QED
  BY <1>2, <1>4 DEF Next

\* The request that takes a slot finds fewer holders than its plan allows.
LEMMA SlotIsWithinPlan ==
  ASSUME AdmissionInv, [Next]_vars, NEW r \in Requests,
         r \notin Holding, r \in Holding', plan[r].streams # Unlimited
  PROVE  Cardinality(Holding') <= plan[r].streams
<1> USE DEF account, tracker, locals, Goto, Emit
<1>1. pc \in [Requests -> Steps] /\ plan[r] \in Limits
  BY AdmissionAssumption DEF AdmissionAssumption, AdmissionInv, TypeOK, NoLimits, Limits
<1>2. Acquire(r) /\ pc' = [pc EXCEPT ![r] = "announce"]
  BY <1>1 DEF Next, LookUp, LookUpFails, Acquire, Stream, Withdraw, End, Retract, Announce,
     Reserve, ReserveFails, Increment, ClientEnd, AssignPlan, NextMonth, vars, Holding
<1>3. ~Full(r)
  BY <1>1, <1>2 DEF Acquire
<1>4. Cardinality(Holding') = Cardinality(Holding) + 1
  <2>1. Holding' = Holding \cup {r}
    BY <1>1, <1>2 DEF Holding
  <2>2. Holding \subseteq Requests
    BY DEF Holding
  <2> QED
    BY <2>1, <2>2, CountRequests
<1>5. Cardinality(Holding) \in Nat /\ plan[r].streams \in Nat
  <2>1. Holding \subseteq Requests
    BY DEF Holding
  <2> QED
    BY <1>1, <2>1, CountRequests DEF Limits
<1> QED
  BY <1>3, <1>4, <1>5, SumOfTickets DEF Full

LEMMA AdmissionInvIsEnough ==
  ASSUME AdmissionInv
  PROVE  TypeOK /\ TicketsMatch /\ MonthlyCapped /\ DeltasAddUp
<1>1. TypeOK
  BY DEF AdmissionInv
<1>2. TicketsMatch
  <2> SUFFICES ASSUME NEW k \in Tickets
               PROVE  /\ active[k] = Cardinality({r \in Holding : ticket[r] = k})
                      /\ streaming[k] = Cardinality({r \in {q \in Holding : ticket[q] = k} : streamed[r]})
    BY DEF TicketsMatch
  <2>1. {r \in Holding : ticket[r] = k} = Of(k, HoldingSteps)
    BY DEF Holding, Of, HoldingSteps
  <2> QED
    BY <2>1 DEF AdmissionInv, Streams
<1>3. MonthlyCapped
  <2> SUFFICES ASSUME NEW r \in Admitted, Capped(r)
               PROVE  /\ Cardinality(Under(period[r], plan[r].monthly)) <= plan[r].monthly
                      /\ Cardinality(Under(period[r], plan[r].monthly)) <= used[period[r]]
    BY DEF MonthlyCapped, Under
  <2>1. r \in Requests
    BY DEF Admitted
  <2>2. period[r] \in Months /\ plan[r].monthly \in Nat
    BY <1>1, <2>1, AdmissionAssumption
       DEF AdmissionAssumption, TypeOK, Limits, NoLimits, Capped
  <2> QED
    BY <2>2 DEF AdmissionInv
<1>4. DeltasAddUp
  <2> SUFFICES ASSUME NEW k \in Tickets
               PROVE  /\ seen[k] >= 0
                      /\ {r \in Requests : ticket[r] = k /\ pc[r] \in {"announce", "retract", "conclude"}} = {}
                         => seen[k] = active[k]
    BY DEF DeltasAddUp
  <2>1. Of(k, ToldSteps) \subseteq Requests
    BY DEF Of
  <2>2. seen[k] >= 0
    BY <2>1, CountRequests DEF AdmissionInv
  <2>3. {r \in Requests : ticket[r] = k /\ pc[r] \in {"announce", "retract", "conclude"}} = {}
        => Of(k, ToldSteps) = Of(k, HoldingSteps)
    BY DEF Of, ToldSteps, HoldingSteps
  <2> QED
    BY <2>2, <2>3 DEF AdmissionInv
<1> QED
  BY <1>1, <1>2, <1>3, <1>4

\* For any number of requests, tickets, plans and months the tracker counts
\* exactly the requests that hold a ticket, no burst takes more slots than the
\* plan it has looked up allows nor passes a monthly cap, and the deltas add up
\* whatever the order they are emitted in.
THEOREM CapsHold == Spec => AdmissionHolds
<1>1. AdmissionInv => TypeOK /\ TicketsMatch /\ MonthlyCapped /\ DeltasAddUp
  BY AdmissionInvIsEnough
<1>2. AdmissionInv /\ [Next]_vars => AdmissionInv'
  BY AdmissionStep
<1>3. AdmissionInv /\ [Next]_vars =>
        [\A r \in Requests :
           r \notin Holding /\ r \in Holding' /\ plan[r].streams # Unlimited
             => Cardinality(Holding') <= plan[r].streams]_vars
  BY SlotIsWithinPlan
<1> QED
  BY <1>1, <1>2, <1>3, AdmissionStart, PTL DEF Spec, AdmissionHolds, StreamsCapped

-----------------------------------------------------------------------------
\* A sum over a set is any count that grows by an element's share when the
\* element is added: the recursion that defines the sum has one solution.
SumOver(f, S) == MapThenSumSet(LAMBDA k : f[k], S)
Sums(f, S, count) ==
  /\ count \in [SUBSET S -> Nat]
  /\ count[{}] = 0
  /\ \A s \in SUBSET S : \A k \in s : count[s] = f[k] + count[s \ {k}]

LEMMA SumIsCount ==
  ASSUME NEW S, IsFiniteSet(S), NEW f, NEW count, Sums(f, S, count)
  PROVE  SumOver(f, S) = count[S]
<1> DEFINE pick(s) == CHOOSE x \in s : TRUE
           Step(g) == [s \in SUBSET S |->
                         IF s = {} THEN 0 ELSE f[pick(s)] + g[s \ {pick(s)}]]
           Rec(g) == g = Step(g)
           sum == CHOOSE g : Rec(g)
<1>1. SumOver(f, S) = sum[S]
  BY DEF SumOver, MapThenSumSet, MapThenFoldSet
<1>2. \A s \in SUBSET S : s # {} => pick(s) \in s
  OBVIOUS
<1>3. Rec(count)
  <2>1. ASSUME NEW s \in SUBSET S PROVE count[s] = Step(count)[s]
    <3>1. CASE s = {}
      BY <3>1 DEF Sums
    <3>2. CASE s # {}
      <4>1. count[s] = f[pick(s)] + count[s \ {pick(s)}]
        BY <1>2, <3>2 DEF Sums
      <4> QED
        BY <3>2, <4>1
    <3> QED
      BY <3>1, <3>2
  <2>2. count = [s \in SUBSET S |-> count[s]] /\ Step(count) = [s \in SUBSET S |-> Step(count)[s]]
    BY DEF Sums
  <2> HIDE DEF Step
  <2> QED
    BY <2>1, <2>2
<1>4. Rec(sum)
  <2> HIDE DEF Rec
  <2> QED
    BY <1>3
<1>5. \A s \in SUBSET S : sum[s] = Step(sum)[s] /\ count[s] = Step(count)[s]
  <2> HIDE DEF sum, Step
  <2> QED
    BY <1>3, <1>4
\* The least subset on which they differ.
<1>6. ASSUME sum[S] # count[S] PROVE FALSE
  <2> DEFINE D == {s \in SUBSET S : sum[s] # count[s]}
  <2>1. /\ IsWellFoundedOn(StrictSubsetOrdering(S), FiniteSubsetsOf(S))
        /\ D # {} /\ D \subseteq FiniteSubsetsOf(S)
    <3>1. SUBSET S = FiniteSubsetsOf(S)
      BY FS_Subset DEF FiniteSubsetsOf
    <3> QED
      BY <1>6, <3>1, FS_StrictSubsetOrderingWellFounded
  <2>2. PICK s \in D : \A t \in D : <<t, s>> \notin StrictSubsetOrdering(S)
    <3> HIDE DEF D
    <3> QED
      BY <2>1, WFMin
  <2>3. s \in SUBSET S /\ sum[s] # count[s]
    BY <2>2
  <2>4. s # {}
    <3>1. s = {} => Step(sum)[s] = 0 /\ Step(count)[s] = 0
      BY <2>3
    <3> HIDE DEF Step, sum
    <3> QED
      BY <1>5, <2>3, <3>1
  <2>5. PICK k \in s : k = pick(s)
    BY <1>2, <2>3, <2>4
  <2>6. /\ Step(sum)[s] = f[pick(s)] + sum[s \ {pick(s)}]
        /\ Step(count)[s] = f[pick(s)] + count[s \ {pick(s)}]
    <3> HIDE DEF sum
    <3> QED
      BY <2>3, <2>4
  <2>7. <<s \ {k}, s>> \in StrictSubsetOrdering(S)
    BY <2>3, <2>5 DEF StrictSubsetOrdering
  <2>8. sum[s \ {k}] = count[s \ {k}]
    BY <2>2, <2>3, <2>7
  <2> HIDE DEF Step, sum, pick, D
  <2> QED
    BY <1>5, <2>3, <2>5, <2>6, <2>8
<1> HIDE DEF sum
<1> QED
  BY <1>1, <1>6

\* The sum of natural numbers is at least each of them.
LEMMA SumCovers ==
  ASSUME NEW S, IsFiniteSet(S), NEW f, \A k \in S : f[k] \in Nat
  PROVE  SumOver(f, S) \in Nat /\ \A k \in S : f[k] <= SumOver(f, S)
<1> DEFINE Units(s) == UNION {{k} \X (1..f[k]) : k \in s}
           count == [s \in SUBSET S |-> Cardinality(Units(s))]
<1>1. ASSUME NEW k \in S
      PROVE  IsFiniteSet({k} \X (1..f[k])) /\ Cardinality({k} \X (1..f[k])) = f[k]
  <2>1. IsFiniteSet(1..f[k]) /\ Cardinality(1..f[k]) = f[k]
    <3>1. 1 \in Int /\ f[k] \in Int /\ f[k] >= 0
      OBVIOUS
    <3>2. IsFiniteSet(1..f[k]) /\ Cardinality(1..f[k]) = IF 1 > f[k] THEN 0 ELSE f[k] - 1 + 1
      BY <3>1, FS_Interval
    <3> QED
      BY <3>1, <3>2
  <2>2. IsFiniteSet({k}) /\ Cardinality({k}) = 1
    BY FS_Singleton
  <2>3. /\ IsFiniteSet({k} \X (1..f[k]))
        /\ Cardinality({k} \X (1..f[k])) = Cardinality({k}) * Cardinality(1..f[k])
    BY <2>1, <2>2, FS_Product
  <2> QED
    BY <2>1, <2>2, <2>3
<1>2. ASSUME NEW s \in SUBSET S PROVE IsFiniteSet(Units(s)) /\ Cardinality(Units(s)) \in Nat
  <2> DEFINE parts == {{k} \X (1..f[k]) : k \in s}
             g == [k \in s |-> {k} \X (1..f[k])]
  <2>1. IsFiniteSet(s)
    BY FS_Subset
  <2>2. IsFiniteSet(parts)
    <3>1. g \in Surjection(s, parts)
      BY DEF Surjection
    <3> HIDE DEF g, parts
    <3> QED
      BY <2>1, <3>1, FS_Surjection
  <2>3. \A p \in parts : IsFiniteSet(p)
    BY <1>1
  <2>4. IsFiniteSet(UNION parts)
    <3> HIDE DEF parts
    <3> QED
      BY <2>2, <2>3, FS_UNION
  <2> QED
    BY <2>4, FS_CardinalityType
<1>3. ASSUME NEW s \in SUBSET S, NEW k \in s
      PROVE  Cardinality(Units(s)) = f[k] + Cardinality(Units(s \ {k}))
  <2> DEFINE own == {k} \X (1..f[k])
  <2>1. Units(s) = own \cup Units(s \ {k}) /\ own \cap Units(s \ {k}) = {}
    OBVIOUS
  <2>2. IsFiniteSet(own) /\ Cardinality(own) = f[k] /\ IsFiniteSet(Units(s \ {k})) /\ Cardinality(Units(s \ {k})) \in Nat
    BY <1>1, <1>2
  <2> HIDE DEF own, Units
  <2>3. Cardinality(own \cup Units(s \ {k})) = Cardinality(own) + Cardinality(Units(s \ {k})) - Cardinality(own \cap Units(s \ {k}))
    BY <2>2, FS_Union
  <2>4. Cardinality(own \cap Units(s \ {k})) = 0
    BY <2>1, FS_EmptySet
  <2> QED
    BY <2>1, <2>2, <2>3, <2>4
<1>4. Cardinality(Units({})) = 0
  <2>1. Units({}) = {}
    OBVIOUS
  <2> HIDE DEF Units
  <2> QED
    BY <2>1, FS_EmptySet
<1>5. Sums(f, S, count)
  <2> HIDE DEF Units
  <2>1. \A s \in SUBSET S : \A k \in s : s \ {k} \in SUBSET S
    OBVIOUS
  <2> QED
    BY <1>2, <1>3, <1>4, <2>1 DEF Sums
<1>6. SumOver(f, S) = count[S]
  <2> HIDE DEF count
  <2> QED
    BY <1>5, SumIsCount
<1>7. SumOver(f, S) = Cardinality(Units(S))
  BY <1>6
<1>8. ASSUME NEW k \in S PROVE f[k] <= SumOver(f, S)
  <2>1. Cardinality(Units(S)) = f[k] + Cardinality(Units(S \ {k})) /\ Cardinality(Units(S \ {k})) \in Nat
    BY <1>2, <1>3
  <2> HIDE DEF Units
  <2> QED
    BY <1>7, <2>1
<1> HIDE DEF Units
<1> QED
  BY <1>2, <1>7, <1>8
-----------------------------------------------------------------------------
HeldSteps == {"admitted", "posting", "noted", "done"}
Held == {d \in Deliveries : delivery[d].step \in HeldSteps}
HeldBy(tenant) == {d \in Held : Topic(d)[1] = tenant}

SlotsInv ==
  /\ IsFiniteSet(Held)
  /\ admittedAll = Cardinality(Held)
  /\ \A t \in Tenants : admittedBy[t] = Cardinality(HeldBy(t))

\* Every delivery of a throttled key under way has it reserved, for itself alone.
Reserving(d) == delivery[d].step \in {"posting", "noted"} /\ Throttled(Topic(d))
\* The key may be delivered again, or its window says until when it may not.
Clear(topic) == minute >= lastPost[topic].at + lastPost[topic].floor
Guarded(topic) ==
  /\ windowOf[topic].sent = lastPost[topic].at
  /\ windowOf[topic].until >= lastPost[topic].at + lastPost[topic].floor

WindowsInv ==
  /\ \A t \in Topics : lastPost[t].at <= minute
  /\ \A t \in Topics : ~Throttled(t) => lastPost[t] = Never
  /\ \A t \in Topics : Clear(t) \/ Guarded(t)

KeysInv ==
  /\ \A d \in Deliveries : Reserving(d) => Topic(d) \in inFlight
  /\ \A d, e \in Deliveries : Reserving(d) /\ Reserving(e) /\ Topic(d) = Topic(e) => d = e
  /\ \A d \in Deliveries : Reserving(d) /\ delivery[d].step = "posting" => Clear(Topic(d))

NotifyInv ==
  /\ NotificationsTypeOK
  /\ windowOf \in [Topics -> [sent : Nat, until : Nat]]
  /\ lastPost \in [Topics -> [at : Nat, floor : Nat]]
  /\ SlotsInv
  /\ WindowsInv
  /\ KeysInv

Job == [step : DeliverySteps, topic : Topics, cooldown : Cooldowns \cup {0}]

LEMMA NotifyTypes ==
  /\ HostedCooldown \in Nat /\ Cooldowns \subseteq Nat /\ Minutes \subseteq Nat /\ LastMinute \in Nat
  /\ HourlyBudget \in Nat /\ IsFiniteSet(Minutes)
  /\ NoDelivery \in Job /\ NoDelivery.step = "idle"
<1>1. IsFiniteSet(Minutes)
  <2>1. 0 \in Int /\ LastMinute \in Int
    BY NotificationsAssumption DEF NotificationsAssumption
  <2> QED
    BY <2>1, FS_Interval DEF Minutes
<1>2. (CHOOSE t \in Tenants : TRUE) \in Tenants /\ (CHOOSE k \in RouteKeys : TRUE) \in RouteKeys
  BY NotificationsAssumption DEF NotificationsAssumption
<1>3. NoDelivery.topic \in Topics
  BY <1>2 DEF NoDelivery, Topics
<1>4. NoDelivery \in Job
  BY <1>3 DEF NoDelivery, Job, DeliverySteps
<1> QED
  BY <1>1, <1>4, NotificationsAssumption DEF NotificationsAssumption, Cooldowns, Minutes, NoDelivery

\* One delivery takes a step that neither takes nor frees a slot.
LEMMA SlotsKept ==
  ASSUME NotifyInv, NEW d \in Deliveries, NEW job \in Job,
         delivery' = [delivery EXCEPT ![d] = job],
         delivery[d].step \in HeldSteps <=> job.step \in HeldSteps,
         job.step \in HeldSteps => job.topic = Topic(d),
         UNCHANGED <<admittedAll, admittedBy>>
  PROVE  SlotsInv'
<1>1. \A e \in Deliveries : delivery'[e] = IF e = d THEN job ELSE delivery[e]
  BY DEF NotifyInv, NotificationsTypeOK
<1>2. Held' = Held
  BY <1>1 DEF Held
<1>3. \A t : HeldBy(t)' = HeldBy(t)
  BY <1>1, <1>2 DEF HeldBy, Held, Topic
<1> QED
  BY <1>2, <1>3 DEF NotifyInv, SlotsInv

\* A delivery is admitted.
LEMMA SlotTaken ==
  ASSUME NotifyInv, NEW d \in Deliveries, NEW job \in Job,
         delivery' = [delivery EXCEPT ![d] = job],
         delivery[d].step \notin HeldSteps, job.step \in HeldSteps,
         admittedAll' = admittedAll + 1,
         admittedBy' = [admittedBy EXCEPT ![job.topic[1]] = @ + 1]
  PROVE  SlotsInv'
<1>1. \A e \in Deliveries : delivery'[e] = IF e = d THEN job ELSE delivery[e]
  BY DEF NotifyInv, NotificationsTypeOK
<1>2. Held' = Held \cup {d} /\ d \notin Held
  BY <1>1 DEF Held
<1>3. \A t : HeldBy(t)' = IF t = job.topic[1] THEN HeldBy(t) \cup {d} ELSE HeldBy(t)
  BY <1>1, <1>2 DEF HeldBy, Held, Topic
<1>4. IsFiniteSet(Held) /\ \A t \in Tenants : IsFiniteSet(HeldBy(t)) /\ d \notin HeldBy(t)
  BY FS_Subset, <1>2 DEF NotifyInv, SlotsInv, HeldBy
<1>5. /\ IsFiniteSet(Held \cup {d}) /\ Cardinality(Held \cup {d}) = Cardinality(Held) + 1
  BY <1>2, <1>4, FS_AddElement
<1>6. ASSUME NEW t \in Tenants PROVE Cardinality(HeldBy(t) \cup {d}) = Cardinality(HeldBy(t)) + 1
  BY <1>4, FS_AddElement
<1>7. admittedBy \in [Tenants -> 0..TenantSlots]
  BY DEF NotifyInv, NotificationsTypeOK
<1>8. ASSUME NEW t \in Tenants PROVE admittedBy'[t] = Cardinality(HeldBy(t)')
  BY <1>3, <1>6, <1>7 DEF NotifyInv, SlotsInv
<1> QED
  BY <1>2, <1>5, <1>8 DEF NotifyInv, SlotsInv

\* A delivery is over.
LEMMA SlotFreed ==
  ASSUME NotifyInv, NEW d \in Deliveries, NEW job \in Job,
         delivery' = [delivery EXCEPT ![d] = job],
         delivery[d].step \in HeldSteps, job.step \notin HeldSteps,
         admittedAll' = admittedAll - 1,
         admittedBy' = [admittedBy EXCEPT ![Topic(d)[1]] = @ - 1]
  PROVE  /\ SlotsInv'
         /\ admittedAll > 0 /\ admittedBy[Topic(d)[1]] > 0
<1>0. Topic(d)[1] \in Tenants
  BY DEF NotifyInv, NotificationsTypeOK, Topics, Topic
<1>1. \A e \in Deliveries : delivery'[e] = IF e = d THEN job ELSE delivery[e]
  BY DEF NotifyInv, NotificationsTypeOK
<1>2. Held' = Held \ {d} /\ d \in Held /\ d \in HeldBy(Topic(d)[1])
  BY <1>1 DEF Held, HeldBy
<1>3. \A t : HeldBy(t)' = IF t = Topic(d)[1] THEN HeldBy(t) \ {d} ELSE HeldBy(t)
  BY <1>1, <1>2 DEF HeldBy, Held, Topic
<1>4. IsFiniteSet(Held) /\ \A t \in Tenants : IsFiniteSet(HeldBy(t))
  BY FS_Subset, <1>2 DEF NotifyInv, SlotsInv, HeldBy
<1>5. IsFiniteSet(Held \ {d}) /\ Cardinality(Held \ {d}) = Cardinality(Held) - 1
  BY <1>2, <1>4, FS_RemoveElement
<1>6. Cardinality(HeldBy(Topic(d)[1]) \ {d}) = Cardinality(HeldBy(Topic(d)[1])) - 1
  BY <1>0, <1>2, <1>4, FS_RemoveElement
<1>7. admittedBy \in [Tenants -> 0..TenantSlots] /\ admittedAll \in Nat
  BY NotificationsAssumption DEF NotifyInv, NotificationsTypeOK, NotificationsAssumption
<1>8. ASSUME NEW t \in Tenants PROVE admittedBy'[t] = Cardinality(HeldBy(t)')
  BY <1>3, <1>6, <1>7 DEF NotifyInv, SlotsInv
<1>9. Cardinality(Held) # 0 /\ Cardinality(HeldBy(Topic(d)[1])) # 0
  BY <1>0, <1>2, <1>4, FS_EmptySet
<1>10. admittedAll > 0 /\ admittedBy[Topic(d)[1]] > 0
  <2>1. admittedAll # 0 /\ admittedBy[Topic(d)[1]] # 0 /\ admittedBy[Topic(d)[1]] \in 0..TenantSlots
    BY <1>0, <1>7, <1>9 DEF NotifyInv, SlotsInv
  <2> QED
    BY <1>7, <2>1
<1> QED
  BY <1>2, <1>5, <1>8, <1>10 DEF NotifyInv, SlotsInv

\* The budget leaves room for one more stamp in any minute of its window.
LEMMA RoomInBudget ==
  ASSUME NotifyInv, NEW tenant \in Tenants, WithinHour(charged[tenant]) < HourlyBudget
  PROVE  charged[tenant][minute] < HourlyBudget
<1> DEFINE S == {m \in Minutes : m <= minute /\ InWindow(m)}
<1>1. charged[tenant] \in [Minutes -> 0..HourlyBudget] /\ minute \in 1..LastMinute
  BY DEF NotifyInv, NotificationsTypeOK
<1>2. WithinHour(charged[tenant]) = SumOver(charged[tenant], S)
  BY DEF WithinHour, SumOver, MapThenSumSet, MapThenFoldSet
<1>3. minute \in S
  BY <1>1, NotificationsAssumption DEF InWindow, Minutes, NotificationsAssumption
<1>4. IsFiniteSet(S)
  BY NotifyTypes, FS_Subset
<1>5. \A m \in S : charged[tenant][m] \in Nat
  BY <1>1, NotifyTypes
<1> HIDE DEF S
<1>6. charged[tenant][minute] <= SumOver(charged[tenant], S) /\ SumOver(charged[tenant], S) \in Nat
  BY <1>3, <1>4, <1>5, SumCovers
<1>7. charged[tenant][minute] \in Nat
  BY <1>3, <1>5
<1> QED
  BY <1>2, <1>6, <1>7, NotifyTypes

\* One delivery takes a step that reserves no key.
LEMMA KeysKept ==
  ASSUME NotifyInv, NEW d \in Deliveries, NEW job \in Job,
         delivery' = [delivery EXCEPT ![d] = job],
         \/ job.step \notin {"posting", "noted"}
         \/ ~Throttled(job.topic)
         \/ job.step = "noted" /\ delivery[d].step = "posting" /\ job.topic = Topic(d),
         \A e \in Deliveries \ {d} : Reserving(e) => Topic(e) \in inFlight',
         \A e \in Deliveries \ {d} :
           Reserving(e) /\ delivery[e].step = "posting" => (Clear(Topic(e)))',
         Reserving(d) /\ job.step = "noted" => Topic(d) \in inFlight'
  PROVE  KeysInv'
<1>1. \A e \in Deliveries : delivery'[e] = IF e = d THEN job ELSE delivery[e]
  BY DEF NotifyInv, NotificationsTypeOK
<1>2. \A e \in Deliveries \ {d} : Reserving(e)' = Reserving(e) /\ Topic(e)' = Topic(e)
  BY <1>1 DEF Reserving, Topic
<1>3. Topic(d)' = job.topic /\ (Reserving(d)' <=> job.step \in {"posting", "noted"} /\ Throttled(job.topic))
  BY <1>1 DEF Reserving, Topic
<1>4. Reserving(d)' => Reserving(d) /\ Topic(d)' = Topic(d) /\ job.step = "noted"
  BY <1>3 DEF Reserving
<1>5. \A e \in Deliveries : Reserving(e)' => Topic(e)' \in inFlight'
  BY <1>2, <1>4
<1>6. \A e, f \in Deliveries : Reserving(e)' /\ Reserving(f)' /\ Topic(e)' = Topic(f)' => e = f
  BY <1>2, <1>4 DEF NotifyInv, KeysInv
<1>7. \A e \in Deliveries : Reserving(e)' /\ delivery'[e].step = "posting" => (Clear(Topic(e)))'
  BY <1>1, <1>2, <1>4
<1> QED
  BY <1>5, <1>6, <1>7 DEF KeysInv

\* A window that is pruned or shortened says what it said, or its key is clear.
LEMMA WindowsReserved ==
  ASSUME NotifyInv, NEW d \in Deliveries, delivery[d].step = "admitted", ReserveTopic(d)
  PROVE  /\ windowOf' \in [Topics -> [sent : Nat, until : Nat]]
         /\ \A t \in Topics : windowOf'[t].sent <= windowOf'[t].until
         /\ lastPost' \in [Topics -> [at : Nat, floor : Nat]]
         /\ WindowsInv'
         /\ \A t \in Topics : Clear(t) => (Clear(t))'
         /\ MayPost(Topic(d), delivery[d].cooldown, windowOf') => (Clear(Topic(d)))'
<1>0. Topic(d) \in Topics /\ delivery[d].cooldown \in Nat /\ delivery[d] \in Job
  <2>1. delivery[d] \in Job
    BY DEF NotifyInv, NotificationsTypeOK, Job
  <2>2. Topic(d) \in Topics /\ delivery[d].cooldown \in Cooldowns \cup {0}
    BY <2>1 DEF Topic, Job
  <2>3. 0 \in Nat /\ Cooldowns \subseteq Nat
    BY NotifyTypes
  <2> QED
    BY <2>1, <2>2, <2>3
<1>a. PICK topic \in Topics, cooldown \in Nat : topic = Topic(d) /\ cooldown = delivery[d].cooldown
  BY <1>0
<1> DEFINE pruned == PruneWindows(windowOf)
           windows == IF cooldown = 0 THEN pruned ELSE [pruned EXCEPT ![topic] = Shortened(@, cooldown)]
<1>1. /\ windowOf' = windows /\ UNCHANGED minute /\ Throttled(topic)
      /\ lastPost' = [lastPost EXCEPT ![topic].floor = LeastOf(@, cooldown)]
  BY <1>a DEF ReserveTopic
<1>2. /\ topic \in Topics /\ cooldown \in Nat /\ minute \in Nat
      /\ windowOf \in [Topics -> [sent : Nat, until : Nat]]
      /\ lastPost \in [Topics -> [at : Nat, floor : Nat]]
      /\ \A t \in Topics : windowOf[t].sent <= windowOf[t].until
      /\ \A t \in Topics : lastPost[t].at <= minute
      /\ \A t \in Topics : Clear(t) \/ Guarded(t)
      /\ \A t \in Topics : ~Throttled(t) => lastPost[t] = Never
  BY NotifyTypes, NotificationsAssumption DEF NotificationsAssumption, NotifyInv, NotificationsTypeOK, WindowsInv
<1>3. \A t \in Topics : pruned[t] = IF minute < windowOf[t].until THEN windowOf[t] ELSE NoWindow
  BY DEF PruneWindows
<1>4. /\ pruned \in [Topics -> [sent : Nat, until : Nat]]
      /\ \A t \in Topics : pruned[t].sent <= pruned[t].until
  BY <1>2 DEF PruneWindows, NoWindow
<1>5. \A t \in Topics :
        windows[t] = IF t = topic /\ cooldown # 0 THEN Shortened(pruned[t], cooldown) ELSE pruned[t]
  BY <1>2, <1>4
<1> HIDE DEF pruned
<1>6. ASSUME NEW w \in [sent : Nat, until : Nat], w.sent <= w.until
      PROVE  /\ Shortened(w, cooldown) \in [sent : Nat, until : Nat]
             /\ Shortened(w, cooldown).sent = w.sent
             /\ Shortened(w, cooldown).sent <= Shortened(w, cooldown).until
             /\ \/ Shortened(w, cooldown).until = w.until
                \/ Shortened(w, cooldown).until = w.sent + cooldown
  BY <1>2, <1>6 DEF Shortened
<1>7. /\ windows \in [Topics -> [sent : Nat, until : Nat]]
      /\ \A t \in Topics : windows[t].sent <= windows[t].until
  BY <1>2, <1>4, <1>6
<1>8. /\ lastPost' \in [Topics -> [at : Nat, floor : Nat]]
      /\ \A t \in Topics : lastPost'[t].at = lastPost[t].at
      /\ \A t \in Topics \ {topic} : lastPost'[t] = lastPost[t]
      /\ lastPost'[topic].floor = LeastOf(lastPost[topic].floor, cooldown)
  BY <1>1, <1>2 DEF LeastOf
<1>9. LeastOf(lastPost[topic].floor, cooldown) <= lastPost[topic].floor
      /\ LeastOf(lastPost[topic].floor, cooldown) <= cooldown
      /\ LeastOf(lastPost[topic].floor, cooldown) \in Nat
  BY <1>2 DEF LeastOf
<1>10. \A t \in Topics : lastPost'[t].floor <= lastPost[t].floor /\ lastPost'[t].floor \in Nat /\ lastPost[t].floor \in Nat
                         /\ lastPost[t].at \in Nat
  BY <1>2, <1>8, <1>9
<1>11. \A t \in Topics : Clear(t) => (Clear(t))'
  BY <1>1, <1>2, <1>8, <1>10 DEF Clear
<1> HIDE DEF windows
\* A window that was closed leaves its key clear.
<1>12. ASSUME NEW t \in Topics PROVE (Clear(t))' \/ (Guarded(t))'
  <2>1. CASE Clear(t)
    BY <1>11, <2>1
  <2>2. CASE ~Clear(t) /\ Guarded(t) /\ ~(minute < windowOf[t].until)
    BY <1>2, <1>10, <2>2 DEF Clear, Guarded
  <2>3. CASE Guarded(t) /\ minute < windowOf[t].until
    <3>1. pruned[t] = windowOf[t] /\ windowOf[t] \in [sent : Nat, until : Nat]
      BY <1>2, <1>3, <2>3
    <3>2. windows[t].sent = lastPost[t].at
      BY <1>2, <1>5, <1>6, <2>3, <3>1 DEF Guarded
    <3>3. windows[t].until >= lastPost[t].at + lastPost'[t].floor
      <4>1. CASE windows[t].until = windowOf[t].until
        BY <1>2, <1>10, <2>3, <4>1 DEF Guarded
      <4>2. CASE t = topic /\ windows[t].until = windowOf[t].sent + cooldown
        BY <1>2, <1>8, <1>9, <1>10, <2>3, <4>2 DEF Guarded
      <4> QED
        BY <1>2, <1>5, <1>6, <3>1, <4>1, <4>2
    <3> QED
      BY <1>1, <1>8, <3>2, <3>3 DEF Guarded
  <2> QED
    BY <1>2, <2>1, <2>2, <2>3
<1>13. WindowsInv'
  BY <1>1, <1>2, <1>8, <1>12 DEF WindowsInv
<1>14. ASSUME MayPost(topic, cooldown, windows) PROVE (Clear(topic))'
  <2>1. CASE cooldown = 0
    <3>1. lastPost'[topic].floor = 0
      <4>1. \A n \in Nat : n <= 0 => n = 0
        OBVIOUS
      <4> QED
        BY <1>8, <1>9, <2>1, <4>1
    <3> QED
      BY <1>1, <1>2, <1>8, <3>1 DEF Clear
  <2>2. CASE minute >= windows[topic].until
    <3>1. (Clear(topic))' \/ (Guarded(topic))'
      BY <1>2, <1>12
    <3>2. windows[topic].until \in Nat
      BY <1>2, <1>7
    <3> QED
      BY <1>1, <1>2, <1>8, <1>10, <2>2, <3>1, <3>2 DEF Clear, Guarded
  <2> QED
    BY <1>14, <2>1, <2>2 DEF MayPost
<1>15. Topic(d)' = topic
  BY <1>0, <1>a DEF ReserveTopic, DeliveryMove, NotifyInv, NotificationsTypeOK, Topic, Job
<1> QED
  BY <1>a, <1>1, <1>7, <1>8, <1>11, <1>13, <1>14, <1>15

\* What a step of one delivery has to show, when it leaves the settings alone.
LEMMA OneDelivery ==
  ASSUME NotifyInv, NEW d \in Deliveries, NEW job \in Job,
         delivery' = [delivery EXCEPT ![d] = job],
         UNCHANGED <<hosted, cooldownSetting, minute>>,
         admittedAll' \in 0..ProcessSlots, admittedBy' \in [Tenants -> 0..TenantSlots],
         charged' \in [Tenants -> [Minutes -> 0..HourlyBudget]],
         inFlight' \subseteq Topics,
         SlotsInv', KeysInv',
         \/ UNCHANGED <<windowOf, lastPost>>
         \/ /\ windowOf' \in [Topics -> [sent : Nat, until : Nat]]
            /\ \A t \in Topics : windowOf'[t].sent <= windowOf'[t].until
            /\ lastPost' \in [Topics -> [at : Nat, floor : Nat]]
            /\ WindowsInv'
  PROVE  NotifyInv'
<1>1. delivery' \in [Deliveries -> Job]
  BY DEF NotifyInv, NotificationsTypeOK, Job
<1>2. WindowsInv'
  BY DEF NotifyInv, WindowsInv, Clear, Guarded
<1>3. NotificationsTypeOK'
  BY <1>1 DEF NotifyInv, NotificationsTypeOK, Job
<1> QED
  BY <1>2, <1>3 DEF NotifyInv

LEMMA NotifyStep ==
  ASSUME NotifyInv, [NotificationsNext]_notifyVars
  PROVE  NotifyInv' /\ \A d \in Deliveries : OnePerWindow(d)
<1>1. /\ delivery \in [Deliveries -> Job] /\ cooldownSetting \in [Tenants -> Cooldowns]
      /\ admittedAll \in 0..ProcessSlots /\ admittedBy \in [Tenants -> 0..TenantSlots]
      /\ charged \in [Tenants -> [Minutes -> 0..HourlyBudget]]
      /\ inFlight \subseteq Topics /\ minute \in 1..LastMinute
      /\ ProcessSlots \in Nat /\ TenantSlots \in Nat /\ HourlyBudget \in Nat /\ LastMinute \in Nat
  BY NotificationsAssumption DEF NotificationsAssumption, NotifyInv, NotificationsTypeOK, Job
<1>2. /\ \A e \in Deliveries : Reserving(e) => Topic(e) \in inFlight
      /\ \A e \in Deliveries : Reserving(e) /\ delivery[e].step = "posting" => Clear(Topic(e))
  BY DEF NotifyInv, KeysInv
<1>3. \A e \in Deliveries : Topic(e) \in Topics /\ Topic(e)[1] \in Tenants
  BY <1>1 DEF Topic, Job, Topics
\* A delivery that stays where it is, or starts anew.
<1>4. ASSUME NEW d \in Deliveries, NEW topic \in Topics, Raise(d, topic)
      PROVE  NotifyInv' /\ \A e \in Deliveries : OnePerWindow(e)
  <2> DEFINE job == [step |-> "raised", topic |-> topic, cooldown |-> cooldownSetting[topic[1]]]
  <2>1. job \in Job /\ job.step = "raised"
    BY <1>1 DEF Job, Topics, DeliverySteps
  <2>2. /\ delivery' = [delivery EXCEPT ![d] = job] /\ delivery[d].step = "idle"
        /\ UNCHANGED <<hosted, cooldownSetting, admittedAll, admittedBy, charged, inFlight, windowOf, lastPost, minute>>
    BY <1>4 DEF Raise, slotVars, keyVars
  <2> HIDE DEF job
  <2>3. SlotsInv'
    BY <2>1, <2>2, SlotsKept DEF HeldSteps
  <2>4. \A e \in Deliveries \ {d} : Topic(e)' = Topic(e)
    BY <1>1, <2>2 DEF Topic
  <2>5. KeysInv'
    BY <1>2, <2>1, <2>2, <2>4, KeysKept DEF Clear
  <2>6. NotifyInv'
    BY <1>1, <2>1, <2>2, <2>3, <2>5, OneDelivery
  <2>7. \A e \in Deliveries : delivery'[e] = IF e = d THEN job ELSE delivery[e]
    BY <1>1, <2>2
  <2> QED
    BY <2>1, <2>6, <2>7 DEF OnePerWindow
<1>5. ASSUME NEW d \in Deliveries, AdmitNotification(d)
      PROVE  NotifyInv' /\ \A e \in Deliveries : OnePerWindow(e)
  <2> DEFINE job == [delivery[d] EXCEPT !.step = "admitted"]
  <2>1. job \in Job /\ job.step = "admitted" /\ job.topic = Topic(d)
    BY <1>1 DEF Job, DeliverySteps, Topic
  <2>2. /\ delivery' = [delivery EXCEPT ![d] = job] /\ delivery[d].step = "raised"
        /\ UNCHANGED <<hosted, cooldownSetting, inFlight, windowOf, lastPost, minute>>
        /\ admittedAll' = admittedAll + 1
        /\ admittedBy' = [admittedBy EXCEPT ![Topic(d)[1]] = @ + 1]
        /\ HasSlot(Topic(d)[1]) /\ WithinBudget(Topic(d)[1])
    BY <1>5 DEF AdmitNotification, DeliveryMove, keyVars
  <2> HIDE DEF job
  <2>3. SlotsInv'
    BY <2>1, <2>2, SlotTaken DEF HeldSteps
  <2>4. \A e \in Deliveries \ {d} : Topic(e)' = Topic(e)
    BY <1>1, <2>2 DEF Topic
  <2>5. KeysInv'
    BY <1>2, <2>1, <2>2, <2>4, KeysKept DEF Clear
  <2>6. admittedAll' \in 0..ProcessSlots /\ admittedBy' \in [Tenants -> 0..TenantSlots]
    BY <1>1, <1>3, <2>2 DEF HasSlot
  <2>7. charged' \in [Tenants -> [Minutes -> 0..HourlyBudget]]
    <3>1. CASE ~hosted
      BY <1>1, <1>5, <3>1 DEF AdmitNotification
    <3>2. CASE hosted
      <4>1. PICK tenant \in Tenants : tenant = Topic(d)[1]
        BY <1>3
      <4> DEFINE now == [m \in Minutes |->
                   IF m = minute THEN charged[tenant][m] + 1
                   ELSE IF m < minute /\ InWindow(m) THEN charged[tenant][m] ELSE 0]
      <4>2. charged' = [charged EXCEPT ![tenant] = now]
        BY <1>5, <3>2, <4>1 DEF AdmitNotification
      <4>3. charged[tenant][minute] < HourlyBudget
        BY <2>2, <3>2, <4>1, RoomInBudget DEF WithinBudget
      <4>4. \A m \in Minutes : charged[tenant][m] \in 0..HourlyBudget
        BY <1>1
      <4>5. now \in [Minutes -> 0..HourlyBudget]
        BY <1>1, <4>3, <4>4
      <4> HIDE DEF now
      <4> QED
        BY <1>1, <4>2, <4>5
    <3> QED
      BY <3>1, <3>2
  <2>8. NotifyInv'
    BY <1>1, <2>1, <2>2, <2>3, <2>5, <2>6, <2>7, OneDelivery
  <2>9. \A e \in Deliveries : delivery'[e] = IF e = d THEN job ELSE delivery[e]
    BY <1>1, <2>2
  <2> QED
    BY <2>1, <2>8, <2>9 DEF OnePerWindow
<1>6. ASSUME NEW d \in Deliveries, DropNotification(d)
      PROVE  NotifyInv' /\ \A e \in Deliveries : OnePerWindow(e)
  <2>1. /\ delivery' = [delivery EXCEPT ![d] = NoDelivery] /\ delivery[d].step = "raised"
        /\ UNCHANGED <<hosted, cooldownSetting, admittedAll, admittedBy, charged, inFlight, windowOf, lastPost, minute>>
    BY <1>6 DEF DropNotification, slotVars, keyVars
  <2>2. NoDelivery \in Job /\ NoDelivery.step = "idle"
    BY NotifyTypes
  <2>3. SlotsInv'
    BY <2>1, <2>2, SlotsKept DEF HeldSteps
  <2>4. \A e \in Deliveries \ {d} : Topic(e)' = Topic(e)
    BY <1>1, <2>1 DEF Topic
  <2>5. KeysInv'
    BY <1>2, <2>1, <2>2, <2>4, KeysKept DEF Clear
  <2>6. NotifyInv'
    BY <1>1, <2>1, <2>2, <2>3, <2>5, OneDelivery
  <2>7. \A e \in Deliveries : delivery'[e] = IF e = d THEN NoDelivery ELSE delivery[e]
    BY <1>1, <2>1
  <2> QED
    BY <2>2, <2>6, <2>7 DEF OnePerWindow
<1>7. ASSUME NEW d \in Deliveries, ReserveTopic(d)
      PROVE  NotifyInv' /\ \A e \in Deliveries : OnePerWindow(e)
  <2> DEFINE may == MayPost(Topic(d), delivery[d].cooldown, windowOf')
             job == [delivery[d] EXCEPT !.step = IF may THEN "posting" ELSE "done"]
  <2>1. job \in Job /\ job.step = (IF may THEN "posting" ELSE "done") /\ job.topic = Topic(d)
    BY <1>1 DEF Job, DeliverySteps, Topic
  <2>2. /\ delivery' = [delivery EXCEPT ![d] = job] /\ delivery[d].step = "admitted"
        /\ UNCHANGED <<hosted, cooldownSetting, admittedAll, admittedBy, charged, minute>>
        /\ inFlight' = IF may THEN inFlight \cup {Topic(d)} ELSE inFlight
    BY <1>7 DEF ReserveTopic, DeliveryMove, slotVars
  <2>3. /\ windowOf' \in [Topics -> [sent : Nat, until : Nat]]
        /\ \A t \in Topics : windowOf'[t].sent <= windowOf'[t].until
        /\ lastPost' \in [Topics -> [at : Nat, floor : Nat]]
        /\ WindowsInv'
        /\ \A t \in Topics : Clear(t) => (Clear(t))'
        /\ may => (Clear(Topic(d)))'
    BY <1>7, <2>2, WindowsReserved
  <2>4. may => Topic(d) \notin inFlight
    BY DEF MayPost
  <2> HIDE DEF job, may
  <2>5. \A e \in Deliveries : delivery'[e] = IF e = d THEN job ELSE delivery[e]
    BY <1>1, <2>2
  <2>6. \A e \in Deliveries : Topic(e)' = Topic(e)
    BY <2>1, <2>5 DEF Topic
  <2>7. \A e \in Deliveries \ {d} : Reserving(e)' = Reserving(e)
    BY <2>5, <2>6 DEF Reserving
  <2>8. SlotsInv'
    BY <2>1, <2>2, SlotsKept DEF HeldSteps
  <2>9. KeysInv'
    <3>1. CASE ~may
      <4>1. \A e \in Deliveries \ {d} :
              Reserving(e) /\ delivery[e].step = "posting" => (Clear(Topic(e)))'
        BY <1>2, <1>3, <2>3, <2>6
      <4> QED
        BY <1>2, <2>1, <2>2, <3>1, <4>1, KeysKept
    <3>2. CASE may
      <4>1. \A e \in Deliveries : Reserving(e)' => Topic(e)' \in inFlight'
        BY <1>2, <2>2, <2>6, <2>7, <3>2
      <4>2. \A e \in Deliveries \ {d} : Reserving(e)' => Topic(e)' # Topic(d)
        BY <1>2, <2>4, <2>6, <2>7, <3>2
      <4>3. \A e, f \in Deliveries : Reserving(e)' /\ Reserving(f)' /\ Topic(e)' = Topic(f)' => e = f
        BY <2>6, <2>7, <4>2 DEF NotifyInv, KeysInv
      <4>4. \A e \in Deliveries : Reserving(e)' /\ delivery'[e].step = "posting" => (Clear(Topic(e)))'
        BY <1>2, <1>3, <2>3, <2>5, <2>6, <2>7, <3>2
      <4> QED
        BY <4>1, <4>3, <4>4 DEF KeysInv
    <3> QED
      BY <3>1, <3>2
  <2>10. inFlight' \subseteq Topics
    BY <1>1, <1>3, <2>2
  <2>11. NotifyInv'
    BY <1>1, <2>1, <2>2, <2>3, <2>8, <2>9, <2>10, OneDelivery
  <2> QED
    BY <2>1, <2>5, <2>11 DEF OnePerWindow
<1>8. ASSUME NEW d \in Deliveries, PostAtOnce(d)
      PROVE  NotifyInv' /\ \A e \in Deliveries : OnePerWindow(e)
  <2> DEFINE job == [delivery[d] EXCEPT !.step = "posting"]
  <2>1. job \in Job /\ job.step = "posting" /\ job.topic = Topic(d)
    BY <1>1 DEF Job, DeliverySteps, Topic
  <2>2. /\ delivery' = [delivery EXCEPT ![d] = job] /\ delivery[d].step = "admitted" /\ ~Throttled(Topic(d))
        /\ UNCHANGED <<hosted, cooldownSetting, admittedAll, admittedBy, charged, inFlight, windowOf, lastPost, minute>>
    BY <1>8 DEF PostAtOnce, DeliveryMove, slotVars
  <2> HIDE DEF job
  <2>3. SlotsInv'
    BY <2>1, <2>2, SlotsKept DEF HeldSteps
  <2>4. \A e \in Deliveries \ {d} : Topic(e)' = Topic(e)
    BY <1>1, <2>2 DEF Topic
  <2>5. KeysInv'
    <3>1. \A e \in Deliveries \ {d} :
            Reserving(e) /\ delivery[e].step = "posting" => (Clear(Topic(e)))'
      BY <1>2, <2>2, <2>4 DEF Clear
    <3> QED
      BY <1>2, <2>1, <2>2, <3>1, KeysKept
  <2>6. NotifyInv'
    BY <1>1, <2>1, <2>2, <2>3, <2>5, OneDelivery
  <2>7. \A e \in Deliveries : delivery'[e] = IF e = d THEN job ELSE delivery[e]
    BY <1>1, <2>2
  <2> QED
    BY <2>1, <2>6, <2>7 DEF OnePerWindow
\* The answer of a delivery: its key was clear when it posted and still is.
<1>9. ASSUME NEW d \in Deliveries, PostFails(d) \/ PostSucceeds(d)
      PROVE  NotifyInv' /\ \A e \in Deliveries : OnePerWindow(e)
  <2>1. PICK topic \in Topics, cooldown \in Nat : topic = Topic(d) /\ cooldown = delivery[d].cooldown
    <3>1. delivery[d].cooldown \in Cooldowns \cup {0}
      BY <1>1 DEF Job
    <3> QED
      BY <1>3, <3>1, NotifyTypes
  <2> DEFINE job == [delivery[d] EXCEPT !.step = "noted"]
             opened == PostSucceeds(d) /\ Throttled(topic)
  <2>2. job \in Job /\ job.step = "noted" /\ job.topic = topic
    BY <1>1, <2>1 DEF Job, DeliverySteps, Topic
  <2>3. /\ delivery' = [delivery EXCEPT ![d] = job] /\ delivery[d].step = "posting"
        /\ UNCHANGED <<hosted, cooldownSetting, admittedAll, admittedBy, charged, inFlight, minute>>
    BY <1>9 DEF PostFails, PostSucceeds, DeliveryMove, slotVars, keyVars
  <2>4. IF opened
        THEN /\ windowOf' = [windowOf EXCEPT ![topic] = [sent |-> minute, until |-> minute + cooldown]]
             /\ lastPost' = [lastPost EXCEPT ![topic] = [at |-> minute, floor |-> cooldown]]
        ELSE UNCHANGED <<windowOf, lastPost>>
    BY <1>9, <2>1 DEF PostFails, PostSucceeds, keyVars
  <2> HIDE DEF job, opened
  <2>5. \A e \in Deliveries : delivery'[e] = IF e = d THEN job ELSE delivery[e]
    BY <1>1, <2>3
  <2>6. \A e \in Deliveries : Topic(e)' = Topic(e)
    BY <2>1, <2>2, <2>5 DEF Topic
  <2>7. SlotsInv'
    BY <2>1, <2>2, <2>3, SlotsKept DEF HeldSteps
  <2>8. /\ windowOf \in [Topics -> [sent : Nat, until : Nat]]
        /\ lastPost \in [Topics -> [at : Nat, floor : Nat]]
        /\ \A t \in Topics : windowOf[t].sent <= windowOf[t].until
        /\ minute \in Nat
    BY <1>1 DEF NotifyInv, NotificationsTypeOK
  <2>9. /\ windowOf' \in [Topics -> [sent : Nat, until : Nat]]
        /\ \A t \in Topics : windowOf'[t].sent <= windowOf'[t].until
        /\ lastPost' \in [Topics -> [at : Nat, floor : Nat]]
    <3>1. CASE ~opened
      BY <2>4, <2>8, <3>1
    <3>2. CASE opened
      <4> DEFINE w == [sent |-> minute, until |-> minute + cooldown]
                 p == [at |-> minute, floor |-> cooldown]
      <4>1. w \in [sent : Nat, until : Nat] /\ p \in [at : Nat, floor : Nat] /\ w.sent <= w.until
        BY <2>8
      <4>2. windowOf' = [windowOf EXCEPT ![topic] = w] /\ lastPost' = [lastPost EXCEPT ![topic] = p]
        BY <2>4, <3>2
      <4> HIDE DEF w, p
      <4> QED
        BY <2>8, <4>1, <4>2
    <3> QED
      BY <3>1, <3>2
  <2>10. \A t \in Topics : t # topic \/ ~opened => lastPost'[t] = lastPost[t] /\ windowOf'[t] = windowOf[t]
    BY <2>4, <2>8
  <2>11. opened => /\ lastPost'[topic].at = minute /\ lastPost'[topic].floor = cooldown
                   /\ windowOf'[topic].sent = minute /\ windowOf'[topic].until = minute + cooldown
                   /\ Throttled(topic)
    BY <2>4, <2>8 DEF opened
  <2>12. WindowsInv'
    <3>1. \A t \in Topics : lastPost'[t].at <= minute
      BY <2>8, <2>10, <2>11 DEF NotifyInv, WindowsInv
    <3>2. \A t \in Topics : ~Throttled(t) => lastPost'[t] = Never
      BY <2>10, <2>11 DEF NotifyInv, WindowsInv
    <3>3. ASSUME NEW t \in Topics PROVE (Clear(t))' \/ (Guarded(t))'
      <4>1. CASE t # topic \/ ~opened
        BY <2>3, <2>10, <4>1 DEF NotifyInv, WindowsInv, Clear, Guarded
      <4>2. CASE t = topic /\ opened
        BY <2>8, <2>11, <4>2 DEF Guarded
      <4> QED
        BY <4>1, <4>2
    <3> QED
      BY <2>3, <3>1, <3>2, <3>3 DEF WindowsInv
  <2>13. KeysInv'
    <3>1. ASSUME NEW e \in Deliveries \ {d}, Reserving(e), delivery[e].step = "posting"
          PROVE  (Clear(Topic(e)))'
      <4>1. Topic(e) # topic \/ ~opened
        BY <2>1, <2>3, <2>11, <3>1 DEF NotifyInv, KeysInv, Reserving
      <4>2. lastPost'[Topic(e)] = lastPost[Topic(e)] /\ Clear(Topic(e))
        BY <1>2, <1>3, <2>10, <3>1, <4>1
      <4> QED
        BY <2>3, <2>6, <4>2 DEF Clear
    <3> QED
      BY <1>2, <2>1, <2>2, <2>3, <3>1, KeysKept
  <2>14. NotifyInv'
    BY <1>1, <2>2, <2>3, <2>7, <2>9, <2>12, <2>13, OneDelivery
  <2>15. OnePerWindow(d)
    <3>1. CASE Throttled(topic)
      BY <1>2, <2>1, <2>3, <3>1 DEF OnePerWindow, Reserving, Clear
    <3>2. CASE ~Throttled(topic)
      BY <2>1, <3>2 DEF OnePerWindow, NotifyInv, WindowsInv, Never
    <3> QED
      BY <3>1, <3>2
  <2> QED
    BY <2>5, <2>14, <2>15 DEF OnePerWindow
<1>10. ASSUME NEW d \in Deliveries, FreeTopic(d)
       PROVE  NotifyInv' /\ \A e \in Deliveries : OnePerWindow(e)
  <2> DEFINE job == [delivery[d] EXCEPT !.step = "done"]
  <2>1. job \in Job /\ job.step = "done" /\ job.topic = Topic(d)
    BY <1>1 DEF Job, DeliverySteps, Topic
  <2>2. /\ delivery' = [delivery EXCEPT ![d] = job] /\ delivery[d].step = "noted"
        /\ UNCHANGED <<hosted, cooldownSetting, admittedAll, admittedBy, charged, windowOf, lastPost, minute>>
        /\ inFlight' = IF Throttled(Topic(d)) THEN inFlight \ {Topic(d)} ELSE inFlight
    BY <1>10 DEF FreeTopic, DeliveryMove, slotVars
  <2> HIDE DEF job
  <2>3. SlotsInv'
    BY <2>1, <2>2, SlotsKept DEF HeldSteps
  <2>4. \A e \in Deliveries \ {d} : Topic(e)' = Topic(e)
    BY <1>1, <2>2 DEF Topic
  <2>5. \A e \in Deliveries \ {d} : Reserving(e) => Topic(e) \in inFlight'
    <3>1. Throttled(Topic(d)) => Reserving(d)
      BY <2>2 DEF Reserving
    <3>2. \A e \in Deliveries \ {d} : Reserving(e) /\ Throttled(Topic(d)) => Topic(e) # Topic(d)
      BY <3>1 DEF NotifyInv, KeysInv
    <3> QED
      BY <1>2, <2>2, <3>2
  <2>6. \A e \in Deliveries \ {d} :
          Reserving(e) /\ delivery[e].step = "posting" => (Clear(Topic(e)))'
    BY <1>2, <2>2, <2>4 DEF Clear
  <2>7. KeysInv'
    BY <2>1, <2>2, <2>5, <2>6, KeysKept
  <2>8. NotifyInv'
    BY <1>1, <2>1, <2>2, <2>3, <2>7, OneDelivery
  <2>9. \A e \in Deliveries : delivery'[e] = IF e = d THEN job ELSE delivery[e]
    BY <1>1, <2>2
  <2> QED
    BY <2>1, <2>8, <2>9 DEF OnePerWindow
<1>11. ASSUME NEW d \in Deliveries, ReleaseNotification(d)
       PROVE  NotifyInv' /\ \A e \in Deliveries : OnePerWindow(e)
  <2>1. /\ delivery' = [delivery EXCEPT ![d] = NoDelivery] /\ delivery[d].step = "done"
        /\ UNCHANGED <<hosted, cooldownSetting, charged, inFlight, windowOf, lastPost, minute>>
        /\ admittedAll' = admittedAll - 1
        /\ admittedBy' = [admittedBy EXCEPT ![Topic(d)[1]] = @ - 1]
    BY <1>11 DEF ReleaseNotification, keyVars
  <2>2. NoDelivery \in Job /\ NoDelivery.step = "idle"
    BY NotifyTypes
  <2>3. SlotsInv' /\ admittedAll > 0 /\ admittedBy[Topic(d)[1]] > 0
    BY <2>1, <2>2, SlotFreed DEF HeldSteps
  <2>4. admittedAll' \in 0..ProcessSlots /\ admittedBy' \in [Tenants -> 0..TenantSlots]
    BY <1>1, <1>3, <2>1, <2>3
  <2>5. \A e \in Deliveries \ {d} : Topic(e)' = Topic(e)
    BY <1>1, <2>1 DEF Topic
  <2>6. KeysInv'
    BY <1>2, <2>1, <2>2, <2>5, KeysKept DEF Clear
  <2>7. NotifyInv'
    BY <1>1, <2>1, <2>2, <2>3, <2>4, <2>6, OneDelivery
  <2>8. \A e \in Deliveries : delivery'[e] = IF e = d THEN NoDelivery ELSE delivery[e]
    BY <1>1, <2>1
  <2> QED
    BY <2>2, <2>7, <2>8 DEF OnePerWindow
\* What no delivery does.
<1>12. ASSUME UNCHANGED <<delivery, admittedAll, admittedBy, charged, inFlight, windowOf, lastPost, hosted>>,
              cooldownSetting' \in [Tenants -> Cooldowns], minute' \in 1..LastMinute, minute' >= minute
       PROVE  NotifyInv' /\ \A e \in Deliveries : OnePerWindow(e)
  <2>1. NotificationsTypeOK' /\ SlotsInv'
    <3>1. Held' = Held /\ \A t : HeldBy(t)' = HeldBy(t)
      BY <1>12 DEF Held, HeldBy, Topic
    <3> QED
      BY <1>12, <3>1 DEF NotifyInv, NotificationsTypeOK, SlotsInv
  <2>2. \A t \in Topics : lastPost[t].at \in Nat /\ lastPost[t].floor \in Nat
    BY DEF NotifyInv
  <2>3. minute \in Nat /\ minute' \in Nat
    BY <1>1, <1>12
  <2>4. \A t \in Topics : Clear(t) => (Clear(t))'
    BY <1>12, <2>2, <2>3 DEF Clear
  <2>5. \A t \in Topics : Guarded(t) => (Guarded(t))'
    BY <1>12 DEF Guarded
  <2>6. WindowsInv'
    BY <1>12, <2>2, <2>3, <2>4, <2>5 DEF NotifyInv, WindowsInv
  <2>7. \A e \in Deliveries : Topic(e)' = Topic(e) /\ Reserving(e)' = Reserving(e)
    BY <1>12 DEF Topic, Reserving
  <2>8. KeysInv'
    BY <1>2, <1>3, <1>12, <2>4, <2>7 DEF NotifyInv, KeysInv
  <2> QED
    BY <1>12, <2>1, <2>6, <2>8 DEF NotifyInv, OnePerWindow
<1>13. CASE (\E tenant \in Tenants : SaveCooldown(tenant)) \/ NextMinute \/ UNCHANGED notifyVars
  <2>1. UNCHANGED <<delivery, admittedAll, admittedBy, charged, inFlight, windowOf, lastPost, hosted>>
    BY <1>13 DEF SaveCooldown, NextMinute, notifyVars, slotVars, keyVars
  <2>2. cooldownSetting' \in [Tenants -> Cooldowns]
    BY <1>1, <1>13 DEF SaveCooldown, NextMinute, notifyVars, Cooldowns
  <2>3. minute' \in 1..LastMinute /\ minute' >= minute
    BY <1>1, <1>13 DEF SaveCooldown, NextMinute, notifyVars
  <2> QED
    BY <1>12, <2>1, <2>2, <2>3
<1> QED
  BY <1>4, <1>5, <1>6, <1>7, <1>8, <1>9, <1>10, <1>11, <1>13 DEF NotificationsNext

LEMMA NotifyStart == NotificationsInit => NotifyInv
<1> SUFFICES ASSUME NotificationsInit PROVE NotifyInv
  OBVIOUS
<1>1. /\ delivery = [d \in Deliveries |-> NoDelivery] /\ admittedAll = 0 /\ inFlight = {} /\ minute = 1
      /\ admittedBy = [t \in Tenants |-> 0] /\ lastPost = [t \in Topics |-> Never]
      /\ windowOf = [t \in Topics |-> NoWindow] /\ charged = [t \in Tenants |-> [m \in Minutes |-> 0]]
      /\ hosted \in BOOLEAN
  BY DEF NotificationsInit
<1>2. cooldownSetting \in [Tenants -> Cooldowns]
  BY DEF NotificationsInit, Cooldowns
<1>3. /\ ProcessSlots \in Nat /\ TenantSlots \in Nat /\ HourlyBudget \in Nat /\ LastMinute \in Nat \ {0}
  BY NotificationsAssumption DEF NotificationsAssumption
<1>4. \A d \in Deliveries : delivery[d] = NoDelivery
  BY <1>1
<1>5. NotificationsTypeOK
  BY <1>1, <1>2, <1>3, NotifyTypes DEF NotificationsTypeOK, Job, NoWindow
<1>6. Held = {} /\ \A t : HeldBy(t) = {}
  BY <1>4, NotifyTypes DEF Held, HeldBy, HeldSteps
<1>7. SlotsInv
  BY <1>1, <1>6, FS_EmptySet DEF SlotsInv
<1>8. WindowsInv
  BY <1>1 DEF WindowsInv, Clear, Never
<1>9. KeysInv
  BY <1>4, NotifyTypes DEF KeysInv, Reserving
<1> QED
  BY <1>1, <1>5, <1>7, <1>8, <1>9 DEF NotifyInv, NoWindow, Never

\* For any number of accounts, keys and deliveries every admitted goroutine holds
\* one slot and gives it back, and between two deliveries of a key lies the
\* shortest cooldown asked of it, because its window outlasts that or it is clear.
THEOREM OwnersAreNotFlooded == NotificationsSpec => NotificationsHold
<1>1. NotifyInv => NotificationsTypeOK /\ SlotsMatch
  BY DEF NotifyInv, SlotsInv, SlotsMatch, Held, HeldBy, HeldSteps
<1>2. NotifyInv /\ [NotificationsNext]_notifyVars => NotifyInv'
  BY NotifyStep
<1>3. NotifyInv /\ [NotificationsNext]_notifyVars => [\A d \in Deliveries : OnePerWindow(d)]_notifyVars
  BY NotifyStep
<1> QED
  BY <1>1, <1>2, <1>3, NotifyStart, PTL DEF NotificationsSpec, NotificationsHold
=============================================================================
