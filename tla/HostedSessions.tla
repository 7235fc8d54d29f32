---------------------------- MODULE HostedSessions ----------------------------
(***************************************************************************)
(* The session stores of a hosted instance (internal/identity): sessions   *)
(* of customers and of the platform operator, rows of two tables, and a    *)
(* cache in front of each.  A customer's rows are deleted first and the    *)
(* cache is invalidated after that, in steps that requests race with; the  *)
(* operator's go under the lock, all at once.                              *)
(***************************************************************************)
EXTENDS Naturals, FiniteSets

CONSTANTS
  Customers,     \* selectors of sessions of one user
  Operators,     \* selectors of platform sessions
  Readers,       \* requests that present a session
  Revokers,      \* operations that revoke
  HostedTTL,
  LastTick,      \* bound: the clock
  MaxHostedRev,  \* bound: invalidations of each kind
  NoRow

HostedSessionsAssumption ==
  /\ HostedTTL \in Nat \ {0} /\ LastTick \in Nat /\ MaxHostedRev \in Nat
  /\ NoRow \notin Nat /\ Customers \cap Operators = {}
ASSUME HostedSessionsAssumption

VARIABLES
  hostedRow,   \* user_sessions and platform_admin_sessions: the expiry of each row
  accepted,    \* the user and the account are active
  hostedCache, \* userCache and platformCache: the expiry each entry believes in
  hostedRev,   \* rev and platformRev
  reader,      \* requests
  revoker,     \* what each revocation has still to take out of the cache
  tick         \* the clock

hostedVars == <<hostedRow, accepted, hostedCache, hostedRev, reader, revoker, tick>>

AllSessions == Customers \cup Operators
Store(s) == IF s \in Customers THEN "user" ELSE "platform"
SessionExpiries == 0..(LastTick + HostedTTL) \cup {NoRow}
ReaderSteps == {"idle", "renewHit", "load", "renew", "reload", "check", "publish", "in"}
NoReader == [step |-> "idle", sess |-> NoRow, now |-> 0, rev |-> 0, exp |-> NoRow]

HostedSessionsTypeOK ==
  /\ hostedRow \in [AllSessions -> SessionExpiries] /\ hostedCache \in [AllSessions -> SessionExpiries]
  /\ accepted \in BOOLEAN
  /\ hostedRev \in [{"user", "platform"} -> 0..MaxHostedRev]
  /\ reader \in [Readers -> [step : ReaderSteps, sess : AllSessions \cup {NoRow},
                             now : 0..LastTick, rev : 0..MaxHostedRev, exp : SessionExpiries]]
  /\ revoker \in [Revokers -> SUBSET AllSessions]
  /\ tick \in 0..LastTick

HostedSessionsInit ==
  /\ hostedRow = [s \in AllSessions |-> NoRow] /\ hostedCache = [s \in AllSessions |-> NoRow]
  /\ accepted = TRUE
  /\ hostedRev = [k \in {"user", "platform"} |-> 0]
  /\ reader = [r \in Readers |-> NoReader]
  /\ revoker = [o \in Revokers |-> {}]
  /\ tick = 0

-----------------------------------------------------------------------------
InCache(s) == hostedCache[s] # NoRow /\ tick < hostedCache[s]
BeingRevokedNow(s) == \E o \in Revokers : s \in revoker[o]
HalfGone(exp, now) == 2 * (exp - now) < HostedTTL
Drop(sessions) == hostedCache' = [s \in AllSessions |-> IF s \in sessions THEN NoRow ELSE hostedCache[s]]

\* CreateUserSession and CreatePlatformSession insert a row and cache nothing.
\* A selector serves again here once nothing knows it any more.
CreateSession(s) ==
  /\ hostedRow[s] = NoRow /\ ~BeingRevokedNow(s) /\ hostedCache[s] = NoRow
  /\ \A r \in Readers : reader[r].sess # s
  /\ s \in Customers => accepted
  /\ hostedRow' = [hostedRow EXCEPT ![s] = tick + HostedTTL]
  /\ UNCHANGED <<accepted, hostedCache, hostedRev, reader, revoker, tick>>

PresentSession(r, s) ==
  /\ reader[r].step = "idle"
  /\ LET next(step) == [step |-> step, sess |-> s, now |-> tick, rev |-> hostedRev[Store(s)],
                        exp |-> hostedCache[s]]
     IN  IF InCache(s)
         THEN /\ reader' = [reader EXCEPT ![r] = next(IF HalfGone(hostedCache[s], tick) THEN "renewHit" ELSE "check")]
              /\ UNCHANGED hostedCache
         ELSE reader' = [reader EXCEPT ![r] = next("load")] /\ Drop({s})
  /\ UNCHANGED <<hostedRow, accepted, hostedRev, revoker, tick>>

\* Two stores, one shape: GetUserSession and GetPlatformSession.
GetUserSession(r) == \E s \in Customers : PresentSession(r, s)
GetPlatformSession(r) == \E s \in Operators : PresentSession(r, s)

ReaderAt(r, step) == reader' = [reader EXCEPT ![r].step = step]
RefuseReader(r) == reader' = [reader EXCEPT ![r] = NoReader]

\* UPDATE ... WHERE id=? AND expires_at=?; a database error refuses.
RenewSession(r) ==
  LET s == reader[r].sess
      next == reader[r].now + HostedTTL
  IN  /\ reader[r].step \in {"renewHit", "renew"}
      /\ \/ /\ hostedRow[s] = reader[r].exp
            /\ hostedRow' = [hostedRow EXCEPT ![s] = next]
            /\ reader' = [reader EXCEPT ![r].exp = next,
                                        ![r].step = IF @ = "renewHit" THEN "check" ELSE "publish"]
         \/ hostedRow[s] # reader[r].exp /\ ReaderAt(r, "reload") /\ UNCHANGED hostedRow
         \/ RefuseReader(r) /\ UNCHANGED hostedRow
      /\ UNCHANGED <<accepted, hostedCache, hostedRev, revoker, tick>>

\* The row, joined with the state of the user and of the account. A reload of
\* a cached session is checked against the revision before it is published.
LoadHostedSession(r) ==
  LET s == reader[r].sess
      ok == /\ hostedRow[s] # NoRow /\ reader[r].now < hostedRow[s]
            /\ s \in Customers => accepted
      next == IF reader[r].step = "load" /\ HalfGone(hostedRow[s], reader[r].now) THEN "renew" ELSE "publish"
  IN  /\ reader[r].step \in {"load", "reload"}
      /\ IF ok THEN reader' = [reader EXCEPT ![r].step = next, ![r].exp = hostedRow[s]] ELSE RefuseReader(r)
      /\ UNCHANGED <<hostedRow, accepted, hostedCache, hostedRev, revoker, tick>>

CheckRevision(r) ==
  /\ reader[r].step = "check"
  /\ IF hostedRev[Store(reader[r].sess)] = reader[r].rev THEN ReaderAt(r, "publish") ELSE RefuseReader(r)
  /\ UNCHANGED <<hostedRow, accepted, hostedCache, hostedRev, revoker, tick>>

LaterOf(exp, s) == IF hostedCache[s] # NoRow /\ hostedCache[s] > exp THEN hostedCache[s] ELSE exp

\* A mutant: the entry is written whatever happened since the load.
PublishUnchecked(r) ==
  LET s == reader[r].sess
  IN  /\ reader[r].step = "publish"
      /\ hostedCache' = [hostedCache EXCEPT ![s] = LaterOf(reader[r].exp, s)]
      /\ ReaderAt(r, "in")
      /\ UNCHANGED <<hostedRow, accepted, hostedRev, revoker, tick>>

PublishHostedSession(r) ==
  LET s == reader[r].sess
  IN  /\ reader[r].step = "publish"
      /\ IF hostedRev[Store(s)] = reader[r].rev
         THEN /\ hostedCache' = [hostedCache EXCEPT ![s] = LaterOf(reader[r].exp, s)]
              /\ ReaderAt(r, "in")
         ELSE RefuseReader(r) /\ UNCHANGED hostedCache
      /\ UNCHANGED <<hostedRow, accepted, hostedRev, revoker, tick>>

EndRequest(r) ==
  /\ reader[r].step = "in" /\ RefuseReader(r)
  /\ UNCHANGED <<hostedRow, accepted, hostedCache, hostedRev, revoker, tick>>

-----------------------------------------------------------------------------
(* Revocation.  The rows go first: of one session at a logout, of all but  *)
(* those that are kept in the transaction of a credential change, of the   *)
(* whole user otherwise.  Then the revision is raised and the entries go.  *)

BeginRevoke(o, sessions) ==
  /\ revoker[o] = {} /\ sessions # {}
  /\ \A s \in sessions : hostedRev[Store(s)] < MaxHostedRev
  /\ revoker' = [revoker EXCEPT ![o] = sessions]

DeleteRows(o, sessions) ==
  /\ BeginRevoke(o, sessions)
  /\ hostedRow' = [s \in AllSessions |-> IF s \in sessions THEN NoRow ELSE hostedRow[s]]
  /\ UNCHANGED <<accepted, hostedCache, hostedRev, reader, tick>>

DeleteHostedSession(o) == \E s \in AllSessions : DeleteRows(o, {s})
RevokeOtherSessions(o) == \E kept \in SUBSET Customers : DeleteRows(o, Customers \ kept)

\* A suspension commits before its InvalidateAccount deletes the rows.
Suspend(o) ==
  /\ accepted /\ accepted' = FALSE
  /\ BeginRevoke(o, Customers)
  /\ UNCHANGED <<hostedRow, hostedCache, hostedRev, reader, tick>>

\* That this delete may fail is not noticed: it may be left out.
DeleteAccountSessions(o) ==
  /\ revoker[o] = Customers
  /\ \E s \in Customers : hostedRow[s] # NoRow
  /\ hostedRow' = [s \in AllSessions |-> IF s \in Customers THEN NoRow ELSE hostedRow[s]]
  /\ UNCHANGED <<accepted, hostedCache, hostedRev, reader, revoker, tick>>

Resume ==
  /\ ~accepted /\ accepted' = TRUE
  /\ UNCHANGED <<hostedRow, hostedCache, hostedRev, reader, revoker, tick>>

InvalidateCache(o) ==
  /\ revoker[o] # {}
  /\ Drop(revoker[o])
  /\ hostedRev' = [k \in {"user", "platform"} |->
       IF \E s \in revoker[o] : Store(s) = k THEN hostedRev[k] + 1 ELSE hostedRev[k]]
  /\ \A k \in {"user", "platform"} : hostedRev'[k] <= MaxHostedRev
  /\ revoker' = [revoker EXCEPT ![o] = {}]
  /\ UNCHANGED <<hostedRow, accepted, reader, tick>>

\* New credentials of the operator, at a start: all at once, under the lock.
InvalidatePlatformAll ==
  /\ hostedRev["platform"] < MaxHostedRev
  /\ hostedRow' = [s \in AllSessions |-> IF s \in Operators THEN NoRow ELSE hostedRow[s]]
  /\ Drop(Operators) /\ hostedRev' = [hostedRev EXCEPT !["platform"] = @ + 1]
  /\ UNCHANGED <<accepted, reader, revoker, tick>>

SweepHosted ==
  /\ \E s \in AllSessions : hostedCache[s] # NoRow /\ Drop({s})
  /\ UNCHANGED <<hostedRow, accepted, hostedRev, reader, revoker, tick>>

PruneExpiredHosted ==
  /\ \E s \in AllSessions :
       /\ hostedRow[s] # NoRow /\ hostedRow[s] < tick
       /\ hostedRow' = [hostedRow EXCEPT ![s] = NoRow]
  /\ UNCHANGED <<accepted, hostedCache, hostedRev, reader, revoker, tick>>

Tick ==
  /\ tick < LastTick /\ tick' = tick + 1
  /\ UNCHANGED <<hostedRow, accepted, hostedCache, hostedRev, reader, revoker>>

HostedSessionsNext ==
  \/ \E s \in AllSessions : CreateSession(s)
  \/ \E r \in Readers :
       \/ GetUserSession(r) \/ GetPlatformSession(r) \/ RenewSession(r) \/ LoadHostedSession(r)
       \/ CheckRevision(r) \/ PublishHostedSession(r) \/ EndRequest(r)
  \/ \E o \in Revokers :
       \/ DeleteHostedSession(o) \/ RevokeOtherSessions(o)
       \/ Suspend(o) \/ DeleteAccountSessions(o) \/ InvalidateCache(o)
  \/ InvalidatePlatformAll \/ Resume \/ SweepHosted \/ PruneExpiredHosted \/ Tick

HostedSessionsSpec == HostedSessionsInit /\ [][HostedSessionsNext]_hostedVars

-----------------------------------------------------------------------------
(* identity.go:1076, revocation is immediate: what a cache serves without  *)
(* the database is a session that the database has and accepts, for at     *)
(* least as long, or its revocation has not returned yet.                  *)
HostedCacheIsRevoked ==
  \A s \in AllSessions : InCache(s) =>
    \/ /\ hostedRow[s] # NoRow /\ hostedCache[s] <= hostedRow[s]
       /\ s \in Customers => accepted
    \/ BeingRevokedNow(s)

(* The same with the types.                                                *)
HostedSessionsHold == HostedSessionsTypeOK /\ HostedCacheIsRevoked
=============================================================================
