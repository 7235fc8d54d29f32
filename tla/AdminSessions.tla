---------------------------- MODULE AdminSessions ----------------------------
(***************************************************************************)
(* The administrator of a local instance: the credential that a start      *)
(* takes from the environment (auth/keys.go syncCredential), the first-run *)
(* claim of one (setup_handlers.go), logins, and the sessions they open    *)
(* (auth/keys.go SessionStore).  A session lives in a table and in a cache *)
(* and is renewed as it is used, by requests that race with one another    *)
(* and with its revocation.  The process may stop at any point.            *)
(***************************************************************************)
EXTENDS Naturals, FiniteSets

CONSTANTS
  Browsers,    \* each would set up the instance, or log in, as itself
  Sessions,    \* the selectors of sessions, each drawn once
  Gets,        \* requests that present a session
  SessionTTL,
  LastHour,    \* bound: the clock
  MaxSessionRev, \* bound: revocations
  Nobody, NoTime

AdminSessionsAssumption ==
  /\ SessionTTL \in Nat \ {0} /\ LastHour \in Nat /\ MaxSessionRev \in Nat
  /\ Nobody \notin Browsers /\ NoTime \notin Nat
ASSUME AdminSessionsAssumption

VARIABLES
  credential,  \* whose credential platform_settings holds
  operator,    \* whose row users holds for the local operator
  claim,       \* where the setup or login of each browser is
  sessRow,     \* table admin_sessions: when each session expires
  opener,      \* history: who opened a session
  sessCache,   \* the cache: the expiry it believes in
  sessRev,     \* rev
  get,         \* the requests
  hour,        \* the clock
  start,       \* where a start is: up once the instance serves
  env          \* whose credential the environment names, until the start is over

adminVars == <<credential, operator, claim, sessRow, opener, sessCache, sessRev, get, hour,
               start, env>>

Times == 0..(LastHour + SessionTTL)
ClaimSteps == {"idle", "asked", "claimed", "owner", "passed", "verified", "refused", "done"}
GetSteps == {"idle", "renewHit", "load", "reload", "renew", "revoke", "publish", "in"}
NoGet == [step |-> "idle", sess |-> NoTime, now |-> 0, gen |-> 0, exp |-> 0]

AdminSessionsTypeOK ==
  /\ credential \in Browsers \cup {Nobody} /\ operator \in Browsers \cup {Nobody}
  /\ claim \in [Browsers -> ClaimSteps]
  /\ sessRow \in [Sessions -> Times \cup {NoTime}]
  /\ opener \in [Sessions -> Browsers \cup {Nobody}]
  /\ sessCache \in [Sessions -> Times \cup {NoTime}]
  /\ sessRev \in Nat /\ hour \in 0..LastHour
  /\ start \in {"sync", "write", "operator", "up"} /\ env \in Browsers \cup {Nobody}
  /\ get \in [Gets -> [step : GetSteps, sess : Sessions \cup {NoTime}, now : 0..LastHour,
                       gen : Nat, exp : Times]]

\* A fresh instance that is about to start.
AdminSessionsInit ==
  /\ start = "sync" /\ env \in Browsers \cup {Nobody}
  /\ credential = Nobody /\ operator = Nobody
  /\ claim = [b \in Browsers |-> "idle"]
  /\ sessRow = [s \in Sessions |-> NoTime] /\ opener = [s \in Sessions |-> Nobody]
  /\ sessCache = [s \in Sessions |-> NoTime]
  /\ sessRev = 0 /\ hour = 0
  /\ get = [g \in Gets |-> NoGet]

claimVars == <<credential, operator, claim>>
sessionVars == <<sessRow, opener, sessCache, sessRev>>
startVars == <<start, env>>

DropSessions ==
  /\ sessRow' = [s \in Sessions |-> NoTime]
  /\ sessCache' = [s \in Sessions |-> NoTime]
  /\ sessRev' = sessRev + 1
  /\ UNCHANGED opener

-----------------------------------------------------------------------------
(* A start.                                                                *)

\* The process stops wherever it is, and what it held in memory is lost.  The
\* next start may find another credential in the environment, or none.
Restart ==
  /\ start' = "sync" /\ env' \in Browsers \cup {Nobody}
  /\ claim' = [b \in Browsers |-> "idle"] /\ get' = [g \in Gets |-> NoGet]
  /\ sessCache' = [s \in Sessions |-> NoTime] /\ sessRev' = 0
  /\ UNCHANGED <<credential, operator, sessRow, opener, hour>>

\* A credential that is new to an instance drops every session first.
SyncCredential ==
  /\ start = "sync"
  /\ start' = IF env \in {Nobody, credential} THEN "operator" ELSE "write"
  /\ IF env \notin {Nobody, credential} /\ credential # Nobody
     THEN DropSessions ELSE UNCHANGED sessionVars
  /\ UNCHANGED <<claimVars, get, hour, env>>

WriteCredential ==
  /\ start = "write"
  /\ credential' = env /\ start' = "operator"
  /\ UNCHANGED <<operator, claim, sessionVars, get, hour, env>>

\* EnsureLocalOperator makes the row of the operator, or, where there is one,
\* SyncLocalOperatorCredentials gives it the credential.
SyncLocalOperator ==
  /\ start = "operator"
  /\ operator' = IF credential = Nobody THEN operator ELSE credential
  /\ start' = "up" /\ env' = Nobody
  /\ UNCHANGED <<credential, claim, sessionVars, get, hour>>

-----------------------------------------------------------------------------
(* Setup and login.                                                        *)

ClaimStep(b, from, to) == claim[b] = from /\ claim' = [claim EXCEPT ![b] = to]

\* The route exists while no credential does; a first check, with the limiter.
Setup(b) ==
  /\ credential = Nobody
  /\ ClaimStep(b, "idle", "asked")
  /\ UNCHANGED <<credential, operator, sessionVars, get, hour>>

\* A mutant: the credential is replaced if there is one.
SetCredentialUpsert(b) ==
  /\ ClaimStep(b, "asked", "claimed") /\ credential' = b
  /\ UNCHANGED <<operator, sessionVars, get, hour>>

\* The insert does nothing if there is a credential.
SetCredential(b) ==
  /\ IF credential = Nobody
     THEN ClaimStep(b, "asked", "claimed") /\ credential' = b
     ELSE ClaimStep(b, "asked", "refused") /\ UNCHANGED credential
  /\ UNCHANGED <<operator, sessionVars, get, hour>>

\* The rest of SetCredential: table and cache are emptied under the lock.
InvalidateAllSessions(b) ==
  /\ sessRev < MaxSessionRev
  /\ ClaimStep(b, "claimed", "owner") /\ DropSessions
  /\ UNCHANGED <<credential, operator, get, hour>>

\* The first row of the operator stays, whoever wrote it.
EnsureLocalOperator(b) ==
  /\ ClaimStep(b, "owner", "passed")
  /\ operator' = IF operator = Nobody THEN credential ELSE operator
  /\ UNCHANGED <<credential, sessionVars, get, hour>>

\* A login is checked against the operator's row, and without one against the
\* stored credential.
Login(b) ==
  /\ IF operator = b THEN ClaimStep(b, "idle", "passed")
     ELSE IF credential = b THEN ClaimStep(b, "idle", "verified")
     ELSE ClaimStep(b, "idle", "refused")
  /\ UNCHANGED <<credential, operator, sessionVars, get, hour>>

\* It then creates the row, and fails when there is one by now.
ReconcileLocalOperator(b) ==
  /\ IF operator = Nobody
     THEN ClaimStep(b, "verified", "passed") /\ operator' = credential
     ELSE ClaimStep(b, "verified", "refused") /\ UNCHANGED operator
  /\ UNCHANGED <<credential, sessionVars, get, hour>>

Create(b, s) ==
  /\ opener[s] = Nobody
  /\ ClaimStep(b, "passed", "done")
  /\ sessRow' = [sessRow EXCEPT ![s] = hour + SessionTTL]
  /\ opener' = [opener EXCEPT ![s] = b]
  /\ UNCHANGED <<credential, operator, sessCache, sessRev, get, hour>>

TryAgain(b) ==
  /\ claim[b] \in {"done", "refused"}
  /\ claim' = [claim EXCEPT ![b] = "idle"]
  /\ UNCHANGED <<credential, operator, sessionVars, get, hour>>

-----------------------------------------------------------------------------
(* A request with a session.                                               *)

\* More than half of the lifetime has passed.
Due(exp, now) == 2 * (exp - now) < SessionTTL
Cached(s) == sessCache[s] # NoTime
GetOf(step, s, exp) == [step |-> step, sess |-> s, now |-> hour, gen |-> sessRev, exp |-> exp]

CachedGet(g, s) ==
  /\ get[g].step = "idle" /\ Cached(s) /\ hour < sessCache[s]
  /\ get' = [get EXCEPT ![g] = GetOf(IF Due(sessCache[s], hour) THEN "renewHit" ELSE "publish",
                                     s, sessCache[s])]
  /\ UNCHANGED <<claimVars, sessionVars, hour>>

\* An entry of an expired session is dropped.
UncachedGet(g, s) ==
  /\ get[g].step = "idle" /\ ~(Cached(s) /\ hour < sessCache[s])
  /\ get' = [get EXCEPT ![g] = GetOf("load", s, 0)]
  /\ sessCache' = [sessCache EXCEPT ![s] = NoTime]
  /\ UNCHANGED <<claimVars, sessRow, opener, sessRev, hour>>

Move(g, step) == get' = [get EXCEPT ![g].step = step]
Out(g) == get' = [get EXCEPT ![g] = NoGet]

\* UPDATE ... WHERE id=? AND expires_at=?: who comes second reads the row.
Extend(g) ==
  LET s == get[g].sess
  IN  IF sessRow[s] = get[g].exp
      THEN /\ sessRow' = [sessRow EXCEPT ![s] = get[g].now + SessionTTL]
           /\ get' = [get EXCEPT ![g].step = "publish", ![g].exp = get[g].now + SessionTTL]
      ELSE Move(g, "reload") /\ UNCHANGED sessRow

\* A database error leaves a cached session its old expiry.
RenewCached(g) ==
  /\ get[g].step = "renewHit"
  /\ Extend(g) \/ (Move(g, "publish") /\ UNCHANGED sessRow)
  /\ UNCHANGED <<claimVars, opener, sessCache, sessRev, hour>>

Renew(g) ==
  /\ get[g].step = "renew"
  /\ Extend(g) \/ (Out(g) /\ UNCHANGED sessRow)
  /\ UNCHANGED <<claimVars, opener, sessCache, sessRev, hour>>

\* loadSession, at first and again after a lost renewal.
LoadSession(g) ==
  LET exp == sessRow[get[g].sess]
      next == IF get[g].step = "load" /\ Due(exp, get[g].now) THEN "renew" ELSE "publish"
  IN  /\ get[g].step \in {"load", "reload"}
      /\ \/ exp = NoTime /\ Out(g)
         \/ exp # NoTime /\ exp <= get[g].now /\ Move(g, "revoke")
         \/ /\ exp # NoTime /\ exp > get[g].now
            /\ get' = [get EXCEPT ![g].step = next, ![g].exp = exp]
      /\ UNCHANGED <<claimVars, sessionVars, hour>>

\* The row, the revision and the entry go together under the lock; that the
\* delete may fail is not noticed.
Revoke(s) ==
  /\ sessRow' = [sessRow EXCEPT ![s] = NoTime] \/ UNCHANGED sessRow
  /\ sessRev' = sessRev + 1
  /\ sessCache' = [sessCache EXCEPT ![s] = NoTime]
  /\ UNCHANGED opener

\* A row that was found expired is revoked, if it was renewed meanwhile too.
RevokeExpired(g) ==
  /\ get[g].step = "revoke" /\ sessRev < MaxSessionRev
  /\ Revoke(get[g].sess) /\ Out(g)
  /\ UNCHANGED <<claimVars, hour>>

Latest(exp, s) == IF Cached(s) /\ sessCache[s] > exp THEN sessCache[s] ELSE exp

PublishSession(g) ==
  LET s == get[g].sess
  IN  /\ get[g].step = "publish"
      /\ IF sessRev = get[g].gen
         THEN /\ sessCache' = [sessCache EXCEPT ![s] = Latest(get[g].exp, s)]
              /\ get' = [get EXCEPT ![g].step = "in", ![g].exp = Latest(get[g].exp, s)]
         ELSE Out(g) /\ UNCHANGED sessCache
      /\ UNCHANGED <<claimVars, sessRow, opener, sessRev, hour>>

EndGet(g) ==
  /\ get[g].step = "in" /\ Out(g)
  /\ UNCHANGED <<claimVars, sessionVars, hour>>

-----------------------------------------------------------------------------
(* Logout, maintenance, time.                                              *)

Logout(s) ==
  /\ opener[s] # Nobody /\ sessRev < MaxSessionRev
  /\ Revoke(s)
  /\ UNCHANGED <<claimVars, get, hour>>

\* The cache forgets by its own, shorter lifetime, or to make room.
SweepSessions ==
  /\ \E s \in Sessions : Cached(s) /\ sessCache' = [sessCache EXCEPT ![s] = NoTime]
  /\ UNCHANGED <<claimVars, sessRow, opener, sessRev, get, hour>>

PruneExpiredSessions ==
  /\ \E s \in Sessions : sessRow[s] # NoTime /\ sessRow[s] < hour
  /\ sessRow' = [s \in Sessions |-> IF sessRow[s] # NoTime /\ sessRow[s] < hour THEN NoTime ELSE sessRow[s]]
  /\ UNCHANGED <<claimVars, opener, sessCache, sessRev, get, hour>>

NextHour ==
  /\ hour < LastHour /\ hour' = hour + 1
  /\ UNCHANGED <<claimVars, sessionVars, get>>

\* What an instance does once it is up.
Serves ==
  \/ \E b \in Browsers :
       \/ Setup(b) \/ SetCredential(b) \/ InvalidateAllSessions(b) \/ EnsureLocalOperator(b)
       \/ Login(b) \/ ReconcileLocalOperator(b) \/ TryAgain(b)
       \/ \E s \in Sessions : Create(b, s)
  \/ \E g \in Gets :
       \/ \E s \in Sessions : CachedGet(g, s) \/ UncachedGet(g, s)
       \/ RenewCached(g) \/ Renew(g) \/ LoadSession(g) \/ RevokeExpired(g) \/ PublishSession(g) \/ EndGet(g)
  \/ \E s \in Sessions : Logout(s)
  \/ SweepSessions \/ PruneExpiredSessions

AdminSessionsNext ==
  \/ Restart \/ SyncCredential \/ WriteCredential \/ SyncLocalOperator
  \/ start = "up" /\ Serves /\ UNCHANGED startVars
  \/ NextHour /\ UNCHANGED startVars

AdminSessionsSpec == AdminSessionsInit /\ [][AdminSessionsNext]_adminVars

-----------------------------------------------------------------------------
(* What the cache serves without the database is a session the database    *)
(* has, for at least as long: a logout, a new credential and the renewals  *)
(* of other requests leave nothing behind that outlives the row.           *)
CacheNeverOutlivesRow ==
  \A s \in Sessions : Cached(s) /\ hour < sessCache[s] => sessRow[s] # NoTime /\ sessCache[s] <= sessRow[s]

(* A fresh instance is claimed once, and a start that replaces the         *)
(* credential, cut short anywhere, leaves no session of the one before:    *)
(* whoever has a session got in with the credential that is stored.        *)
SessionsOfTheOperator ==
  \A s \in Sessions : sessRow[s] # NoTime => opener[s] = credential

(* What the sessions of the operator promise as a whole.                   *)
AdminSessionsHold ==
  AdminSessionsTypeOK /\ CacheNeverOutlivesRow /\ SessionsOfTheOperator
=============================================================================
