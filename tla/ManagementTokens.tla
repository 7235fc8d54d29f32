-------------------------- MODULE ManagementTokens ---------------------------
(***************************************************************************)
(* Tokens of the management API (auth/api_tokens.go, server/api_tokens.go):*)
(* a verified token is cached with the scopes and the expiry it had.  Most *)
(* mutations are written while the cache is locked (InvalidateWith), only  *)
(* revoke-all commits first.  PATCH merges into a row read before the lock.*)
(***************************************************************************)
EXTENDS Naturals, FiniteSets

CONSTANTS
  Tokens,         \* rows of api_tokens
  Boot,           \* the token of the environment, which no handler changes
  TokenVersions,  \* the secrets a token has one after the other, from 0
  TokenScopes,         \* what a token may be allowed to do
  Never,          \* no expiry
  Uses,           \* requests that present a token
  Editors,        \* handlers that change tokens
  LastDay,        \* bound: the clock
  MaxTokenRev,    \* bound: mutations
  Unlocked

ManagementTokensAssumption ==
  /\ Boot \in Tokens
  /\ TokenVersions \subseteq Nat /\ 0 \in TokenVersions /\ TokenScopes # {}
  /\ LastDay \in Nat /\ MaxTokenRev \in Nat
  /\ Never \notin 0..LastDay
  /\ Unlocked \notin Editors
ASSUME ManagementTokensAssumption

VARIABLES
  tokenRow,    \* the table api_tokens
  verified,    \* the cache: grants by credential
  tokenRev,    \* rev
  mu,          \* the editor that holds the lock of the cache
  use,         \* the requests
  editor,      \* the handlers
  day          \* the clock, as far as expiry is concerned

tokenVars == <<tokenRow, verified, tokenRev, mu, use, editor, day>>

TokenExpiries == {Never} \cup 0..LastDay
TokenRows == [there : BOOLEAN, version : TokenVersions, enabled : BOOLEAN, scopes : TokenScopes, expires : TokenExpiries]
TokenCredentials == Tokens \X TokenVersions
Grants == [cred : TokenCredentials, scopes : TokenScopes, expires : TokenExpiries]
Ops == {"none", "update", "rotate", "delete", "revoke"}
EditorSteps == {"idle", "read", "locked", "written", "revoked"}

Grant(c) == [cred |-> c, scopes |-> tokenRow[c[1]].scopes, expires |-> tokenRow[c[1]].expires]
Granted(c) == tokenRow[c[1]].there /\ tokenRow[c[1]].enabled /\ tokenRow[c[1]].version = c[2]
Expired(expires, at) == expires # Never /\ at >= expires
RevokingAll == \E e \in Editors : editor[e].step = "revoked"
Fresh == [there |-> TRUE, version |-> 0, enabled |-> TRUE, scopes |-> CHOOSE s \in TokenScopes : TRUE,
          expires |-> Never]
NoUse == [step |-> "idle", grant |-> [cred |-> <<Boot, 0>>, scopes |-> Fresh.scopes, expires |-> Never],
            rev |-> 0, at |-> 0]
NoWork == [step |-> "idle", op |-> "none", token |-> Boot, merged |-> Fresh]

ManagementTokensTypeOK ==
  /\ tokenRow \in [Tokens -> TokenRows]
  /\ verified \subseteq Grants /\ tokenRev \in Nat
  /\ mu \in Editors \cup {Unlocked}
  /\ use \in [Uses -> [step : {"verifying", "verified", "admitted", "idle"},
                       grant : Grants, rev : Nat, at : 0..LastDay]]
  /\ editor \in [Editors -> [step : EditorSteps, op : Ops, token : Tokens, merged : TokenRows]]
  /\ day \in 0..LastDay

ManagementTokensInit ==
  /\ tokenRow = [t \in Tokens |-> Fresh]
  /\ verified = {} /\ tokenRev = 0 /\ mu = Unlocked
  /\ use = [u \in Uses |-> NoUse]
  /\ editor = [e \in Editors |-> NoWork]
  /\ day = 0

-----------------------------------------------------------------------------
(* A request.                                                              *)

Credential(u) == use[u].grant.cred
CachedGrants(c) == {g \in verified : g.cred = c}
IdleUse(u) == use[u].step = "idle"
RefuseUse(u) == use' = [use EXCEPT ![u] = NoUse]
Admit(u, grant, at) ==
  use' = [use EXCEPT ![u] = [step |-> "admitted", grant |-> grant, rev |-> 0, at |-> at]]

Unexpired(g) == ~Expired(g.expires, day)

\* A request with any credential there ever was.
TokenHit(u, c) ==
  /\ mu = Unlocked /\ IdleUse(u)
  /\ \E g \in CachedGrants(c) :
       IF Unexpired(g)
       THEN Admit(u, g, day) /\ UNCHANGED verified
       ELSE RefuseUse(u) /\ verified' = verified \ {g}
  /\ UNCHANGED <<tokenRow, tokenRev, mu, editor, day>>

TokenMiss(u, c) ==
  /\ mu = Unlocked /\ IdleUse(u) /\ CachedGrants(c) = {}
  /\ use' = [use EXCEPT ![u] = [step |-> "verifying", grant |-> Grant(c), rev |-> tokenRev, at |-> day]]
  /\ UNCHANGED <<tokenRow, verified, tokenRev, mu, editor, day>>

\* The query takes no lock; the expiry is compared with the time of the call.
\* The semaphore, or the database, may refuse any call.
ReadToken(u) ==
  /\ use[u].step = "verifying"
  /\ \/ /\ Granted(Credential(u)) /\ ~Expired(tokenRow[Credential(u)[1]].expires, use[u].at)
        /\ use' = [use EXCEPT ![u].step = "verified", ![u].grant = Grant(Credential(u))]
     \/ RefuseUse(u)
  /\ UNCHANGED <<tokenRow, verified, tokenRev, mu, editor, day>>

\* A mutant: the entry is published whatever happened meanwhile.
PublishStale(u) ==
  /\ mu = Unlocked /\ use[u].step = "verified"
  /\ Admit(u, use[u].grant, use[u].at) /\ verified' = verified \cup {use[u].grant}
  /\ UNCHANGED <<tokenRow, tokenRev, mu, editor, day>>

PublishToken(u) ==
  /\ mu = Unlocked /\ use[u].step = "verified"
  /\ IF use[u].rev = tokenRev
     THEN Admit(u, use[u].grant, use[u].at) /\ verified' = verified \cup {use[u].grant}
     ELSE RefuseUse(u) /\ UNCHANGED verified
  /\ UNCHANGED <<tokenRow, tokenRev, mu, editor, day>>

EndUse(u) ==
  /\ use[u].step = "admitted"
  /\ use' = [use EXCEPT ![u] = NoUse]
  /\ UNCHANGED <<tokenRow, verified, tokenRev, mu, editor, day>>

\* Entries leave by their age, or to make room.
Evict ==
  /\ mu = Unlocked
  /\ \E g \in verified : verified' = verified \ {g}
  /\ UNCHANGED <<tokenRow, tokenRev, mu, use, editor, day>>

-----------------------------------------------------------------------------
(* Mutations.                                                              *)

\* PATCH reads the row and merges what it was given into the copy.
ReadForUpdate(e, t) ==
  /\ editor[e] = NoWork /\ t # Boot /\ tokenRow[t].there
  /\ \E on \in BOOLEAN, sc \in TokenScopes, exp \in {x \in TokenExpiries : ~Expired(x, day)} :
       editor' = [editor EXCEPT ![e] = [step |-> "read", op |-> "update", token |-> t,
                    merged |-> [tokenRow[t] EXCEPT !.enabled = on, !.scopes = sc, !.expires = exp]]]
  /\ UNCHANGED <<tokenRow, verified, tokenRev, mu, use, day>>

\* InvalidateWith takes the lock of the cache for the write.
TakeCacheLock(e, op, t) ==
  /\ mu = Unlocked /\ tokenRev < MaxTokenRev
  /\ mu' = e
  /\ editor' = [editor EXCEPT ![e].step = "locked", ![e].op = op, ![e].token = t]
  /\ UNCHANGED <<tokenRow, verified, tokenRev, use, day>>

LockForUpdate(e) == editor[e].step = "read" /\ TakeCacheLock(e, "update", editor[e].token)
LockToReplace(e, t) ==
  /\ editor[e] = NoWork /\ t # Boot
  /\ \E op \in {"rotate", "delete"} : TakeCacheLock(e, op, t)

\* The write of an update leaves the secret alone.
Written(t, op, merged) ==
  CASE op = "update" -> [merged EXCEPT !.version = tokenRow[t].version]
    [] op = "rotate" -> [tokenRow[t] EXCEPT !.version = @ + 1]
    [] op = "delete" -> [tokenRow[t] EXCEPT !.there = FALSE]

WriteRow(e) ==
  LET t == editor[e].token
      written == Written(t, editor[e].op, editor[e].merged)
  IN  /\ editor[e].step = "locked"
      /\ tokenRow[t].there /\ written \in TokenRows
      /\ tokenRow' = [tokenRow EXCEPT ![t] = written]
      /\ editor' = [editor EXCEPT ![e].step = "written"]
      /\ UNCHANGED <<verified, tokenRev, mu, use, day>>

\* The row is gone or the statement fails: the lock is released, no more.
WriteFails(e) ==
  /\ editor[e].step = "locked"
  /\ editor' = [editor EXCEPT ![e] = NoWork]
  /\ mu' = Unlocked
  /\ UNCHANGED <<tokenRow, verified, tokenRev, use, day>>

InvalidateAndUnlock(e) ==
  /\ editor[e].step = "written"
  /\ tokenRev' = tokenRev + 1
  /\ verified' = {g \in verified : g.cred[1] # editor[e].token}
  /\ mu' = Unlocked
  /\ editor' = [editor EXCEPT ![e] = NoWork]
  /\ UNCHANGED <<tokenRow, use, day>>

RevokeAll(e) ==
  /\ editor[e] = NoWork /\ tokenRev < MaxTokenRev
  /\ tokenRow' = [t \in Tokens |-> IF t = Boot THEN tokenRow[t] ELSE [tokenRow[t] EXCEPT !.there = FALSE]]
  /\ editor' = [editor EXCEPT ![e].step = "revoked", ![e].op = "revoke"]
  /\ UNCHANGED <<verified, tokenRev, mu, use, day>>

InvalidateAll(e) ==
  /\ editor[e].step = "revoked" /\ mu = Unlocked
  /\ tokenRev' = tokenRev + 1 /\ verified' = {}
  /\ editor' = [editor EXCEPT ![e] = NoWork]
  /\ UNCHANGED <<tokenRow, mu, use, day>>

\* A restart seeds the token of the environment anew, or removes it.
RestartTokens ==
  /\ \E there \in BOOLEAN, v \in TokenVersions :
       tokenRow' = [tokenRow EXCEPT ![Boot] = [Fresh EXCEPT !.there = there, !.version = v]]
  /\ verified' = {} /\ tokenRev' = 0 /\ mu' = Unlocked
  /\ use' = [u \in Uses |-> NoUse]
  /\ editor' = [e \in Editors |-> NoWork]
  /\ UNCHANGED day

NextDay ==
  /\ day < LastDay /\ day' = day + 1
  /\ UNCHANGED <<tokenRow, verified, tokenRev, mu, use, editor>>

ManagementTokensNext ==
  \/ \E u \in Uses : \/ \E c \in TokenCredentials : TokenHit(u, c) \/ TokenMiss(u, c)
                      \/ ReadToken(u) \/ PublishToken(u) \/ EndUse(u)
  \/ \E e \in Editors : \/ \E t \in Tokens : ReadForUpdate(e, t) \/ LockToReplace(e, t)
                         \/ LockForUpdate(e) \/ WriteRow(e) \/ WriteFails(e)
                         \/ InvalidateAndUnlock(e) \/ RevokeAll(e) \/ InvalidateAll(e)
  \/ Evict \/ RestartTokens \/ NextDay

ManagementTokensSpec == ManagementTokensInit /\ [][ManagementTokensNext]_tokenVars

-----------------------------------------------------------------------------
(* api_tokens.go:292: a token whose scopes were just narrowed cannot       *)
(* authorize from a stale entry.  A request is let in with the scopes and  *)
(* the expiry its token has at that moment, unexpired when it asked, or    *)
(* while the answer to a revoke-all is still to come.                      *)
GrantIsCurrent(u) ==
  use'[u].step = "admitted" /\ use[u].step # "admitted" =>
    LET grant == use'[u].grant
    IN  /\ ~Expired(grant.expires, use'[u].at)
        /\ RevokingAll \/ (Granted(grant.cred) /\ grant = Grant(grant.cred))

(* The same with the types.                                                *)
TokensAreCurrent ==
  []ManagementTokensTypeOK /\ [][\A u \in Uses : GrantIsCurrent(u)]_tokenVars
=============================================================================
