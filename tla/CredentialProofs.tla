--------------------------- MODULE CredentialProofs ---------------------------
(****************************************************************************)
(* Proofs about credentials: the keys of clients, the tokens and sessions   *)
(* of operators, the sessions and the sign-in methods of the customers of a *)
(* hosted instance.  They share no state.  Each section leads from the      *)
(* inductive invariant of one component to what the component promises.     *)
(****************************************************************************)
EXTENDS ClientKeys, ManagementTokens, AdminSessions, HostedSessions, Identity,
        FiniteSetTheorems, TLAPS

-----------------------------------------------------------------------------
(***************************************************************************)
(* Proof that no change of a key is overtaken by the cache or by a         *)
(* verification under way.                                                 *)
(***************************************************************************)
\* The database accepts it, or a handler has yet to answer for the change, or
\* a deletion was answered with an error.
Current(c) == Accepted(c) \/ BeingRevoked(c[1]) \/ c[1] \in forgotten

\* A verification that no invalidation has overtaken has seen a current key: it
\* is what Publish may put in the cache.
VerifiedIsCurrent ==
  \A r \in Calls : call[r].step = "verified" /\ call[r].rev = keyRev => Current(call[r].cred)

RevsAreRead == \A r \in Calls : call[r].rev <= keyRev

CachedIsCurrent == \A c \in keyCache : Current(c)

KeysInv == ClientKeysTypeOK /\ RevsAreRead /\ CachedIsCurrent /\ VerifiedIsCurrent

LEMMA KeysInit == ClientKeysInit => KeysInv
<1> SUFFICES ASSUME ClientKeysInit
             PROVE  KeysInv
  OBVIOUS
<1> USE ClientKeysAssumption DEF ClientKeysInit
<1>1. ClientKeysTypeOK
  <2>1. \A r \in Calls : \E c \in Credentials : call[r] = [step |-> "idle", cred |-> c, rev |-> 0]
    OBVIOUS
  <2>2. call \in [Calls -> CallStates]
    <3>1. \A r \in Calls : call[r] \in CallStates
      BY <2>1 DEF CallStates, CallSteps
    <3>2. \E S : call \in [Calls -> S]
      OBVIOUS
    <3> QED
      BY <3>1, <3>2
  <2>3. [version |-> 0, enabled |-> TRUE, deleted |-> FALSE] \in KeyRows
    BY DEF KeyRows, ClientKeysAssumption
  <2>4. keyRow \in [Keys -> KeyRows]
    BY <2>3
  <2>5. admin \in [Admins -> AdminStates]
    BY DEF AdminStates, IdleHandler
  <2> QED
    BY <2>2, <2>4, <2>5 DEF ClientKeysTypeOK
<1>2. RevsAreRead /\ CachedIsCurrent /\ VerifiedIsCurrent
  BY DEF RevsAreRead, CachedIsCurrent, VerifiedIsCurrent
<1> QED
  BY <1>1, <1>2 DEF KeysInv

-----------------------------------------------------------------------------
\* Types.

LEMMA CallTypes ==
  ASSUME ClientKeysTypeOK, NEW r \in Calls, CallStep(r)
  PROVE  ClientKeysTypeOK'
<1> USE DEF ClientKeysTypeOK
<1>1. UNCHANGED <<keyRow, status, keyRev, admin, forgotten>>
  BY DEF CallStep, CacheHit, BeginVerify, NoSlot, ReadKey, Publish, NextCall
<1>2. call' \in [Calls -> CallStates]
  <2>1. CASE CacheHit(r) \/ NoSlot(r) \/ ReadKey(r)
    BY <2>1 DEF CacheHit, NoSlot, ReadKey, Step, CallStates, CallSteps
  <2>2. CASE BeginVerify(r)
    BY <2>2 DEF BeginVerify, CallStates, CallSteps
  <2>3. CASE Publish(r)
    BY <2>3 DEF Publish, Step, CallStates, CallSteps
  <2>4. CASE NextCall(r)
    BY <2>4 DEF NextCall, CallStates, CallSteps
  <2> QED
    BY <2>1, <2>2, <2>3, <2>4 DEF CallStep
<1>3. keyCache' \subseteq Credentials
  <2>1. CASE Publish(r)
    <3>1. call[r].cred \in Credentials
      BY DEF CallStates
    <3> QED
      BY <2>1, <3>1 DEF Publish, EnsureCacheRoom
  <2>2. CASE UNCHANGED keyCache
    BY <2>2
  <2> QED
    BY <2>1, <2>2 DEF CallStep, CacheHit, BeginVerify, NoSlot, ReadKey, NextCall
<1> QED
  BY <1>1, <1>2, <1>3

LEMMA AdminTypes ==
  ASSUME ClientKeysTypeOK, NEW a \in Admins, AdminStep(a)
  PROVE  ClientKeysTypeOK'
<1> USE ClientKeysAssumption DEF ClientKeysTypeOK
<1>1. ASSUME NEW k \in Keys, UpdateClientKey(a, k) \/ RotateClientKey(a, k) \/ DeleteClientKey(a, k)
      PROVE  ClientKeysTypeOK'
  <2>1. keyRow' \in [Keys -> KeyRows]
    <3>1. CASE UpdateClientKey(a, k)
      BY <3>1 DEF UpdateClientKey, KeyRows
    <3>2. CASE RotateClientKey(a, k)
      BY <3>2 DEF RotateClientKey, KeyRows
    <3>3. CASE DeleteClientKey(a, k)
      BY <3>3 DEF DeleteClientKey, KeyRows
    <3> QED
      BY <1>1, <3>1, <3>2, <3>3
  <2>2. admin' \in [Admins -> AdminStates]
    BY <1>1 DEF UpdateClientKey, RotateClientKey, DeleteClientKey, Commit, AdminStates
  <2> QED
    BY <1>1, <2>1, <2>2 DEF UpdateClientKey, RotateClientKey, DeleteClientKey, Commit
<1>2. ASSUME NEW owner \in Accounts, SetAccountStatus(a, owner)
      PROVE  ClientKeysTypeOK'
  BY <1>2 DEF SetAccountStatus, Commit, AdminStates
<1>3. CASE CleanupFails(a)
  BY <1>3 DEF CleanupFails, AdminStates, IdleHandler
<1>4. CASE Invalidate(a)
  BY <1>4 DEF Invalidate, AdminStates, IdleHandler
<1> QED
  BY <1>1, <1>2, <1>3, <1>4 DEF AdminStep

-----------------------------------------------------------------------------
\* What becomes of a current credential.

\* A request changes nothing it depends on.
LEMMA CallsKeepCurrent ==
  ASSUME UNCHANGED <<keyRow, status, admin, forgotten>>, NEW c
  PROVE  Current(c)' <=> Current(c)
BY DEF Current, Accepted, BeingRevoked

\* A change is on its handler's list before anything else can see it, and a
\* handler that gives up leaves its keys with the forgotten ones.
LEMMA ChangesKeepCurrent ==
  ASSUME ClientKeysTypeOK, NEW a \in Admins, AdminStep(a), ~Invalidate(a),
         NEW c \in Credentials, Current(c)
  PROVE  Current(c)'
<1> USE DEF ClientKeysTypeOK
<1>0. PICK k \in Keys, v \in Versions : c = <<k, v>>
  BY DEF Credentials
<1>1. ASSUME admin[a] = IdleHandler, NEW keys \in SUBSET Keys, NEW op,
             admin' = [admin EXCEPT ![a] = [keys |-> keys, op |-> op]], UNCHANGED forgotten,
             k \notin keys => keyRow'[k] = keyRow[k] /\ status'[OwnerOf[k]] = status[OwnerOf[k]]
      PROVE  Current(c)'
  <2>1. CASE k \in keys
    BY <1>0, <1>1, <2>1 DEF Current, BeingRevoked
  <2>2. CASE k \notin keys
    <3>1. Accepted(c) => Accepted(c)'
      BY <1>0, <1>1, <2>2 DEF Accepted
    <3>2. BeingRevoked(k) => BeingRevoked(k)'
      BY <1>1 DEF BeingRevoked, IdleHandler
    <3> QED
      BY <1>0, <1>1, <3>1, <3>2 DEF Current
  <2> QED
    BY <2>1, <2>2
<1>2. ASSUME NEW j \in Keys, UpdateClientKey(a, j) \/ RotateClientKey(a, j) \/ DeleteClientKey(a, j)
      PROVE  Current(c)'
  <2>1. keyRow'[k] = keyRow[k] \/ k = j
    BY <1>2 DEF UpdateClientKey, RotateClientKey, DeleteClientKey
  <2>2. \E op : admin' = [admin EXCEPT ![a] = [keys |-> {j}, op |-> op]]
    BY <1>2 DEF UpdateClientKey, RotateClientKey, DeleteClientKey, Commit
  <2> QED
    BY <1>1, <1>2, <2>1, <2>2 DEF UpdateClientKey, RotateClientKey, DeleteClientKey, Commit
<1>3. ASSUME NEW owner \in Accounts, SetAccountStatus(a, owner)
      PROVE  Current(c)'
  <2> DEFINE owned == {j \in Keys : OwnerOf[j] = owner}
  <2>1. k \notin owned => status'[OwnerOf[k]] = status[OwnerOf[k]]
    BY <1>3, ClientKeysAssumption DEF SetAccountStatus
  <2>2. admin' = [admin EXCEPT ![a] = [keys |-> owned, op |-> "change"]]
    BY <1>3 DEF SetAccountStatus, Commit
  <2>3. admin[a] = IdleHandler /\ UNCHANGED <<keyRow, forgotten>>
    BY <1>3 DEF SetAccountStatus, Commit
  <2> HIDE DEF owned
  <2>4. owned \in SUBSET Keys
    BY DEF owned
  <2> QED
    BY <1>1, <2>1, <2>2, <2>3, <2>4
<1>4. CASE CleanupFails(a)
  <2>1. Accepted(c) => Accepted(c)'
    BY <1>4 DEF CleanupFails, Accepted
  <2>2. BeingRevoked(k) => BeingRevoked(k)' \/ k \in forgotten'
    <3>1. ASSUME NEW b \in Admins, k \in admin[b].keys
          PROVE  BeingRevoked(k)' \/ k \in forgotten'
      <4>1. CASE b = a
        BY <1>4, <3>1, <4>1 DEF CleanupFails
      <4>2. CASE b # a
        BY <1>4, <3>1, <4>2 DEF CleanupFails, BeingRevoked
      <4> QED
        BY <4>1, <4>2
    <3> QED
      BY <3>1 DEF BeingRevoked
  <2>3. forgotten \subseteq forgotten'
    BY <1>4 DEF CleanupFails
  <2> QED
    BY <1>0, <2>1, <2>2, <2>3 DEF Current
<1> QED
  BY <1>2, <1>3, <1>4 DEF AdminStep

\* Invalidation spares what it is not about.
LEMMA InvalidationKeepsOthers ==
  ASSUME ClientKeysTypeOK, NEW a \in Admins, Invalidate(a),
         NEW c \in Credentials, c[1] \notin admin[a].keys, Current(c)
  PROVE  Current(c)'
<1> USE DEF ClientKeysTypeOK
<1>1. Accepted(c) => Accepted(c)'
  BY DEF Invalidate, Accepted
<1>2. BeingRevoked(c[1]) => BeingRevoked(c[1])'
  BY DEF Invalidate, BeingRevoked
<1>3. c[1] \in forgotten => c[1] \in forgotten'
  BY DEF Invalidate
<1> QED
  BY <1>1, <1>2, <1>3 DEF Current

-----------------------------------------------------------------------------
LEMMA CallInvariance ==
  ASSUME KeysInv, NEW r \in Calls, CallStep(r)
  PROVE  KeysInv'
<1> USE DEF KeysInv
<1>1. ClientKeysTypeOK'
  BY CallTypes
<1>2. UNCHANGED <<keyRow, status, keyRev, admin, forgotten>>
  BY DEF CallStep, CacheHit, BeginVerify, NoSlot, ReadKey, Publish, NextCall
<1>3. \A c : Current(c)' <=> Current(c)
  BY <1>2, CallsKeepCurrent
<1>4. \A q \in Calls : q # r => call'[q] = call[q]
  BY DEF CallStep, CacheHit, BeginVerify, NoSlot, ReadKey, Publish, NextCall, Step, ClientKeysTypeOK
<1>5. call[r] \in CallStates /\ keyRev \in Nat
  BY DEF ClientKeysTypeOK
<1>6. call'[r].rev <= keyRev
  <2>1. CASE CacheHit(r) \/ NoSlot(r) \/ ReadKey(r) \/ Publish(r)
    <3>1. call'[r].rev = call[r].rev
      BY <2>1 DEF CacheHit, NoSlot, ReadKey, Publish, Step, ClientKeysTypeOK, CallStates
    <3> QED
      BY <3>1 DEF RevsAreRead
  <2>2. CASE BeginVerify(r)
    BY <1>5, <2>2 DEF BeginVerify, ClientKeysTypeOK, CallStates
  <2>3. CASE NextCall(r)
    BY <1>5, <2>3 DEF NextCall, ClientKeysTypeOK
  <2> QED
    BY <2>1, <2>2, <2>3 DEF CallStep
<1>7. RevsAreRead'
  BY <1>2, <1>4, <1>6 DEF RevsAreRead
<1>8. call'[r].step = "verified" => Current(call'[r].cred)
  <2>1. CASE ReadKey(r)
    BY <2>1 DEF ReadKey, Step, ClientKeysTypeOK, CallStates, Current
  <2>2. CASE CacheHit(r) \/ NoSlot(r)
    BY <2>2 DEF CacheHit, NoSlot, Step, ClientKeysTypeOK, CallStates
  <2>3. CASE BeginVerify(r)
    BY <2>3 DEF BeginVerify, ClientKeysTypeOK
  <2>4. CASE Publish(r)
    BY <2>4 DEF Publish, Step, ClientKeysTypeOK, CallStates
  <2>5. CASE NextCall(r)
    BY <2>5 DEF NextCall, ClientKeysTypeOK
  <2> QED
    BY <2>1, <2>2, <2>3, <2>4, <2>5 DEF CallStep
<1>9. VerifiedIsCurrent'
  BY <1>2, <1>3, <1>4, <1>8 DEF VerifiedIsCurrent
<1>10. CachedIsCurrent'
  <2>1. CASE Publish(r)
    <3>1. ASSUME NEW c \in keyCache', c \notin keyCache
          PROVE  Current(c)
      <4>1. call[r].step = "verified" /\ call[r].rev = keyRev /\ c = call[r].cred
        BY <2>1, <3>1 DEF Publish, EnsureCacheRoom, Step
      <4> QED
        BY <4>1 DEF VerifiedIsCurrent
    <3> QED
      BY <1>3, <3>1 DEF CachedIsCurrent
  <2>2. CASE UNCHANGED keyCache
    BY <1>3, <2>2 DEF CachedIsCurrent
  <2> QED
    BY <2>1, <2>2 DEF CallStep, CacheHit, BeginVerify, NoSlot, ReadKey, NextCall
<1> QED
  BY <1>1, <1>7, <1>9, <1>10

LEMMA AdminInvariance ==
  ASSUME KeysInv, NEW a \in Admins, AdminStep(a)
  PROVE  KeysInv'
<1> USE DEF KeysInv
<1>1. ClientKeysTypeOK'
  BY AdminTypes
<1>2. UNCHANGED call
  BY DEF AdminStep, UpdateClientKey, RotateClientKey, DeleteClientKey, SetAccountStatus, Commit,
         CleanupFails, Invalidate
<1>3. \A r \in Calls : call[r].cred \in Credentials /\ call[r].rev \in Nat
  BY DEF ClientKeysTypeOK, CallStates
<1>4. keyRev \in Nat /\ keyCache \subseteq Credentials
  BY DEF ClientKeysTypeOK
<1>5. CASE Invalidate(a)
  <2>1. keyRev' = keyRev + 1
    BY <1>5 DEF Invalidate
  <2>2. RevsAreRead' /\ VerifiedIsCurrent'
    BY <1>2, <1>3, <1>4, <2>1 DEF RevsAreRead, VerifiedIsCurrent
  <2>3. \A c \in keyCache' : c \in keyCache /\ c[1] \notin admin[a].keys
    BY <1>5 DEF Invalidate
  <2>4. CachedIsCurrent'
    BY <1>4, <1>5, <2>3, InvalidationKeepsOthers DEF CachedIsCurrent
  <2> QED
    BY <1>1, <2>2, <2>4
<1>6. CASE ~Invalidate(a)
  <2>1. UNCHANGED <<keyCache, keyRev>>
    BY <1>6 DEF AdminStep, UpdateClientKey, RotateClientKey, DeleteClientKey, SetAccountStatus,
                Commit, CleanupFails
  <2>2. \A c \in Credentials : Current(c) => Current(c)'
    BY <1>6, ChangesKeepCurrent
  <2>3. CachedIsCurrent'
    BY <1>4, <2>1, <2>2 DEF CachedIsCurrent
  <2>4. RevsAreRead' /\ VerifiedIsCurrent'
    BY <1>2, <1>3, <2>1, <2>2 DEF RevsAreRead, VerifiedIsCurrent
  <2> QED
    BY <1>1, <2>3, <2>4
<1> QED
  BY <1>5, <1>6

LEMMA KeysInvariance ==
  ASSUME KeysInv, [ClientKeysNext]_keyVars
  PROVE  KeysInv'
<1>1. ASSUME NEW r \in Calls, CallStep(r)
      PROVE  KeysInv'
  BY <1>1, CallInvariance
<1>2. ASSUME NEW a \in Admins, AdminStep(a)
      PROVE  KeysInv'
  BY <1>2, AdminInvariance
<1>3. CASE SweepExpired
  <2>1. keyCache' \subseteq keyCache /\ UNCHANGED <<keyRow, status, keyRev, call, admin, forgotten>>
    BY <1>3 DEF SweepExpired
  <2> QED
    BY <2>1 DEF KeysInv, ClientKeysTypeOK, RevsAreRead, CachedIsCurrent, VerifiedIsCurrent, Current,
                Accepted, BeingRevoked
<1>4. CASE UNCHANGED keyVars
  BY <1>4 DEF keyVars, KeysInv, ClientKeysTypeOK, RevsAreRead, CachedIsCurrent, VerifiedIsCurrent,
              Current, Accepted, BeingRevoked
<1> QED
  BY <1>1, <1>2, <1>3, <1>4 DEF ClientKeysNext

\* No revoked key is served from the cache or let in by a verification that
\* raced with the change, for any number of keys, requests and handlers
\* (ClientAuthenticator.Authenticate, Invalidate, InvalidateAccount).
THEOREM KeysStayCurrent == ClientKeysSpec => KeysAreCurrent
<1>1. KeysInv => ClientKeysTypeOK /\ CacheIsCurrent
  BY DEF KeysInv, CachedIsCurrent, CacheIsCurrent, Current
<1>2. ASSUME KeysInv, [ClientKeysNext]_keyVars, ~(UNCHANGED keyVars), NEW r \in Calls,
             call'[r].step = "admitted", call[r].step # "admitted"
      PROVE  Current(call[r].cred)
  <2>1. ASSUME NEW q \in Calls, CallStep(q)
        PROVE  Current(call[r].cred)
    <3>0. call \in [Calls -> CallStates]
      BY <1>2 DEF KeysInv, ClientKeysTypeOK
    <3>1. q = r
      BY <1>2, <2>1, <3>0 DEF CallStep, CacheHit, BeginVerify, NoSlot, ReadKey, Publish, NextCall, Step
    <3>2. CASE CacheHit(r)
      BY <1>2, <3>2 DEF CacheHit, KeysInv, CachedIsCurrent
    <3>3. CASE Publish(r)
      <4>1. call[r].step = "verified" /\ call[r].rev = keyRev
        BY <1>2, <3>0, <3>3 DEF Publish, Step, CallStates
      <4> QED
        BY <1>2, <4>1 DEF KeysInv, VerifiedIsCurrent
    <3>4. CASE BeginVerify(r) \/ NoSlot(r) \/ ReadKey(r) \/ NextCall(r)
      BY <1>2, <3>0, <3>4 DEF BeginVerify, NoSlot, ReadKey, NextCall, Step, CallStates
    <3> QED
      BY <2>1, <3>1, <3>2, <3>3, <3>4 DEF CallStep
  <2>2. ASSUME NEW a \in Admins, AdminStep(a)
        PROVE  UNCHANGED call
    BY <2>2 DEF AdminStep, UpdateClientKey, RotateClientKey, DeleteClientKey, SetAccountStatus,
                Commit, CleanupFails, Invalidate
  <2> QED
    BY <1>2, <2>1, <2>2 DEF ClientKeysNext, SweepExpired
<1>3. KeysInv /\ [ClientKeysNext]_keyVars =>
        [\A r \in Calls : call'[r].step = "admitted" /\ call[r].step # "admitted" =>
           \/ Accepted(call[r].cred) \/ BeingRevoked(call[r].cred[1])
           \/ call[r].cred[1] \in forgotten]_keyVars
  BY <1>2 DEF Current
<1> QED
  BY <1>1, <1>3, KeysInit, KeysInvariance, PTL DEF ClientKeysSpec, KeysAreCurrent, AdmittedIsCurrent

-----------------------------------------------------------------------------
(* The tokens of the management API.                                        *)

\* A token that a handler has written and not invalidated yet, under the lock.
BeingChanged(t) == \E e \in Editors : editor[e].step = "written" /\ editor[e].token = t

\* A grant is what the row says, or the answer to its change is still to come.
Answerable(g) ==
  \/ RevokingAll
  \/ Granted(g.cred) /\ g = Grant(g.cred)
  \/ BeingChanged(g.cred[1])

\* A token that a request has read, and no invalidation has overtaken since.
ReadIsAnswerable(u) ==
  use[u].step \in {"verifying", "verified"} =>
    /\ use[u].rev <= tokenRev
    /\ use[u].step = "verified" => /\ ~Expired(use[u].grant.expires, use[u].at)
                                   /\ use[u].rev = tokenRev => Answerable(use[u].grant)

LockIsHeld == \A e \in Editors : editor[e].step \in {"locked", "written"} => mu = e

TokensInv ==
  /\ ManagementTokensTypeOK /\ LockIsHeld
  /\ \A g \in verified : Answerable(g)
  /\ \A u \in Uses : ReadIsAnswerable(u)

UseStates == [step : {"verifying", "verified", "admitted", "idle"},
              grant : Grants, rev : Nat, at : 0..LastDay]
EditorStates == [step : EditorSteps, op : Ops, token : Tokens, merged : TokenRows]

LEMMA TokenConstants ==
  /\ Fresh \in TokenRows /\ NoUse \in UseStates /\ NoWork \in EditorStates
  /\ Fresh.enabled /\ Fresh.there
  BY ManagementTokensAssumption
     DEF ManagementTokensAssumption, Fresh, NoUse, NoWork, TokenRows, UseStates, EditorStates,
         Grants, TokenCredentials, TokenExpiries, EditorSteps, Ops

LEMMA TokensInit == ManagementTokensInit => TokensInv
<1> SUFFICES ASSUME ManagementTokensInit PROVE TokensInv
  OBVIOUS
<1> USE ManagementTokensAssumption, TokenConstants
        DEF ManagementTokensAssumption, ManagementTokensInit
<1>1. ManagementTokensTypeOK
  BY DEF ManagementTokensTypeOK, UseStates, EditorStates
<1>2. LockIsHeld /\ \A u \in Uses : ReadIsAnswerable(u)
  BY DEF LockIsHeld, ReadIsAnswerable, NoWork, NoUse
<1> QED
  BY <1>1, <1>2 DEF TokensInv

LEMMA GrantType == ASSUME ManagementTokensTypeOK, NEW c \in TokenCredentials PROVE Grant(c) \in Grants
  BY DEF Grant, Grants, ManagementTokensTypeOK, TokenCredentials, TokenRows

\* A step that changes no row and no handler.
LEMMA StillAnswerable ==
  ASSUME UNCHANGED <<tokenRow, editor>>, NEW g
  PROVE  Answerable(g)' <=> Answerable(g)
BY DEF Answerable, RevokingAll, Granted, Grant, BeingChanged

LEMMA UseKeeps ==
  ASSUME TokensInv, NEW u \in Uses,
         \/ \E c \in TokenCredentials : TokenHit(u, c) \/ TokenMiss(u, c)
         \/ ReadToken(u) \/ PublishToken(u) \/ EndUse(u)
  PROVE  TokensInv'
<1> USE DEF TokensInv
<1>1. UNCHANGED <<tokenRow, tokenRev, mu, editor, day>>
  BY DEF TokenHit, TokenMiss, ReadToken, PublishToken, EndUse
<1>2. use[u] \in UseStates /\ tokenRev \in Nat /\ day \in 0..LastDay
  BY DEF ManagementTokensTypeOK, UseStates
<1>3. ASSUME NEW to \in UseStates, use' = [use EXCEPT ![u] = to], verified' \subseteq Grants,
             \A g \in verified' : g \in verified \/ Answerable(g), ReadIsAnswerable(u)'
      PROVE  TokensInv'
  <2>1. ManagementTokensTypeOK'
    BY <1>1, <1>3 DEF ManagementTokensTypeOK, UseStates
  <2>2. LockIsHeld'
    BY <1>1 DEF LockIsHeld
  <2>3. \A g \in verified' : Answerable(g)'
    BY <1>1, <1>3, StillAnswerable
  <2>4. ASSUME NEW v \in Uses \ {u} PROVE ReadIsAnswerable(v)'
    <3>1. use'[v] = use[v]
      BY <1>3 DEF ManagementTokensTypeOK
    <3> QED
      BY <1>1, <3>1 DEF ReadIsAnswerable, Answerable, RevokingAll, Granted, Grant, BeingChanged
  <2> QED
    BY <1>3, <2>1, <2>2, <2>3, <2>4
<1>4. ASSUME RefuseUse(u), verified' \subseteq verified PROVE TokensInv'
  <2>1. use'[u] = NoUse
    BY <1>4 DEF RefuseUse, ManagementTokensTypeOK
  <2>2. ReadIsAnswerable(u)'
    BY <2>1 DEF ReadIsAnswerable, NoUse
  <2>3. verified' \subseteq Grants
    BY <1>4 DEF ManagementTokensTypeOK
  <2> QED
    BY <1>3, <1>4, <2>2, <2>3, TokenConstants DEF RefuseUse
<1>5. ASSUME NEW g \in Grants, NEW at \in 0..LastDay, Admit(u, g, at), verified' \subseteq verified \cup {g},
             g \in verified \/ Answerable(g)
      PROVE  TokensInv'
  <2> DEFINE to == [step |-> "admitted", grant |-> g, rev |-> 0, at |-> at]
  <2>1. to \in UseStates /\ use' = [use EXCEPT ![u] = to] /\ use'[u] = to
    BY <1>5 DEF Admit, UseStates, ManagementTokensTypeOK
  <2>2. ReadIsAnswerable(u)'
    BY <2>1 DEF ReadIsAnswerable
  <2>3. verified' \subseteq Grants
    BY <1>5 DEF ManagementTokensTypeOK
  <2> HIDE DEF to
  <2> QED
    BY <1>3, <1>5, <2>1, <2>2, <2>3
<1>6. ASSUME NEW c \in TokenCredentials, TokenHit(u, c) PROVE TokensInv'
  <2>1. PICK g \in CachedGrants(c) :
          IF Unexpired(g) THEN Admit(u, g, day) /\ UNCHANGED verified
          ELSE RefuseUse(u) /\ verified' = verified \ {g}
    BY <1>6 DEF TokenHit
  <2>2. g \in verified /\ g \in Grants
    BY <2>1 DEF CachedGrants, ManagementTokensTypeOK
  <2>3. CASE Unexpired(g)
    BY <1>2, <1>5, <2>1, <2>2, <2>3
  <2>4. CASE ~Unexpired(g)
    BY <1>4, <2>1, <2>4
  <2> QED
    BY <2>3, <2>4
<1>7. ASSUME NEW c \in TokenCredentials, TokenMiss(u, c) PROVE TokensInv'
  <2> DEFINE to == [step |-> "verifying", grant |-> Grant(c), rev |-> tokenRev, at |-> day]
  <2>1. to \in UseStates /\ use' = [use EXCEPT ![u] = to] /\ use'[u] = to /\ UNCHANGED verified
    BY <1>2, <1>7, GrantType DEF TokenMiss, UseStates, ManagementTokensTypeOK
  <2>2. ReadIsAnswerable(u)'
    BY <1>1, <1>2, <2>1 DEF ReadIsAnswerable
  <2> HIDE DEF to
  <2> QED
    BY <1>3, <2>1, <2>2 DEF ManagementTokensTypeOK
<1>8. CASE ReadToken(u)
  <2> DEFINE c == Credential(u)
             to == [use[u] EXCEPT !.step = "verified", !.grant = Grant(c)]
  <2>1. CASE RefuseUse(u)
    BY <1>4, <1>8, <2>1 DEF ReadToken
  <2>2. CASE /\ Granted(c) /\ ~Expired(tokenRow[c[1]].expires, use[u].at)
             /\ use' = [use EXCEPT ![u].step = "verified", ![u].grant = Grant(c)]
    <3>1. c \in TokenCredentials /\ Grant(c) \in Grants
      BY <1>2, GrantType DEF Credential, UseStates, Grants
    <3>2. /\ to \in UseStates /\ use' = [use EXCEPT ![u] = to] /\ use'[u] = to
          /\ to.step = "verified" /\ to.grant = Grant(c) /\ to.rev = use[u].rev /\ to.at = use[u].at
      BY <1>2, <2>2, <3>1 DEF UseStates, ManagementTokensTypeOK
    <3>3. Answerable(Grant(c)) /\ Grant(c).expires = tokenRow[c[1]].expires
      BY <2>2 DEF Answerable, Grant
    <3>4. use[u].rev <= tokenRev /\ UNCHANGED verified
      BY <1>8 DEF ReadToken, ReadIsAnswerable
    <3>5. ReadIsAnswerable(u)'
      <4>1. PICK g \in Grants : g = Grant(c)
        BY <3>1
      <4>2. Answerable(g)'
        BY <1>1, <3>3, <4>1, StillAnswerable
      <4>3. use'[u].grant = g /\ use'[u].rev <= tokenRev /\ ~Expired(g.expires, use'[u].at)
        BY <2>2, <3>2, <3>3, <3>4, <4>1
      <4> HIDE DEF to, c
      <4> QED
        BY <1>1, <4>2, <4>3 DEF ReadIsAnswerable
    <3> HIDE DEF to, c
    <3> QED
      BY <1>3, <3>2, <3>4, <3>5 DEF ManagementTokensTypeOK
  <2> QED
    BY <1>8, <2>1, <2>2 DEF ReadToken
<1>9. CASE PublishToken(u)
  <2>1. CASE use[u].rev = tokenRev
    <3>1. Answerable(use[u].grant) /\ use[u].grant \in Grants /\ use[u].at \in 0..LastDay
      BY <1>2, <1>9, <2>1 DEF PublishToken, ReadIsAnswerable, UseStates
    <3> QED
      BY <1>5, <1>9, <2>1, <3>1 DEF PublishToken
  <2>2. CASE use[u].rev # tokenRev
    BY <1>4, <1>9, <2>2 DEF PublishToken
  <2> QED
    BY <2>1, <2>2
<1>10. CASE EndUse(u)
  BY <1>4, <1>10 DEF EndUse, RefuseUse
<1> QED
  BY <1>6, <1>7, <1>8, <1>9, <1>10

LEMMA EditorKeeps ==
  ASSUME TokensInv, NEW e \in Editors,
         \/ \E t \in Tokens : ReadForUpdate(e, t) \/ LockToReplace(e, t)
         \/ LockForUpdate(e) \/ WriteRow(e) \/ WriteFails(e)
         \/ InvalidateAndUnlock(e) \/ RevokeAll(e) \/ InvalidateAll(e)
  PROVE  TokensInv'
<1> USE ManagementTokensAssumption DEF ManagementTokensAssumption, TokensInv
<1>1. editor[e] \in EditorStates /\ tokenRev \in Nat
  BY DEF ManagementTokensTypeOK, EditorStates
\* What a handler does without touching a row or an entry.
<1>2. ASSUME UNCHANGED <<tokenRow, verified, tokenRev, use, day>>,
             NEW to \in EditorStates, editor' = [editor EXCEPT ![e] = to],
             editor[e].step \notin {"written", "revoked"}, to.step \notin {"written", "revoked"},
             \/ to.step # "locked" /\ mu' = mu
             \/ to.step # "locked" /\ mu = e /\ mu' = Unlocked
             \/ to.step = "locked" /\ mu = Unlocked /\ mu' = e
      PROVE  TokensInv'
  <2>1. ManagementTokensTypeOK'
    BY <1>2 DEF ManagementTokensTypeOK, EditorStates
  <2>2. \A f \in Editors \ {e} : editor'[f] = editor[f]
    BY <1>2 DEF ManagementTokensTypeOK
  <2>3. editor'[e] = to
    BY <1>2 DEF ManagementTokensTypeOK
  <2>4. LockIsHeld'
    BY <1>2, <2>2, <2>3 DEF LockIsHeld
  <2>5. /\ RevokingAll' <=> RevokingAll
        /\ \A t : BeingChanged(t)' <=> BeingChanged(t)
    BY <1>2, <2>2, <2>3 DEF RevokingAll, BeingChanged
  <2>6. \A g : Answerable(g)' <=> Answerable(g)
    BY <1>2, <2>5 DEF Answerable, Granted, Grant
  <2>7. \A u \in Uses : ReadIsAnswerable(u)'
    BY <1>2, <2>6 DEF ReadIsAnswerable
  <2> QED
    BY <1>2, <2>1, <2>4, <2>6, <2>7
<1>3. ASSUME NEW t \in Tokens, ReadForUpdate(e, t) PROVE TokensInv'
  <2>1. PICK on \in BOOLEAN, sc \in TokenScopes, exp \in TokenExpiries :
          editor' = [editor EXCEPT ![e] = [step |-> "read", op |-> "update", token |-> t,
                       merged |-> [tokenRow[t] EXCEPT !.enabled = on, !.scopes = sc, !.expires = exp]]]
    BY <1>3 DEF ReadForUpdate
  <2>2. [tokenRow[t] EXCEPT !.enabled = on, !.scopes = sc, !.expires = exp] \in TokenRows
    <3> DEFINE row == tokenRow[t]
    <3>1. row \in TokenRows
      BY DEF ManagementTokensTypeOK
    <3> HIDE DEF row
    <3>2. [row EXCEPT !.enabled = on, !.scopes = sc, !.expires = exp] \in TokenRows
      BY <3>1 DEF TokenRows
    <3> QED
      BY <3>2 DEF row
  <2> DEFINE merged == [tokenRow[t] EXCEPT !.enabled = on, !.scopes = sc, !.expires = exp]
             to == [step |-> "read", op |-> "update", token |-> t, merged |-> merged]
  <2>3. to \in EditorStates /\ to.step = "read" /\ editor' = [editor EXCEPT ![e] = to]
    BY <1>3, <2>1, <2>2 DEF EditorStates, EditorSteps, Ops
  <2>4. editor[e] = NoWork /\ UNCHANGED <<tokenRow, verified, tokenRev, mu, use, day>>
    BY <1>3 DEF ReadForUpdate
  <2>5. editor[e].step = "idle"
    BY <2>4 DEF NoWork
  <2> HIDE DEF to
  <2> QED
    BY <1>2, <2>3, <2>4, <2>5
<1>4. ASSUME NEW op \in Ops, NEW t \in Tokens, TakeCacheLock(e, op, t),
             editor[e].step \notin {"written", "revoked"}
      PROVE  TokensInv'
  <2> DEFINE to == [editor[e] EXCEPT !.step = "locked", !.op = op, !.token = t]
  <2>1. to \in EditorStates /\ editor' = [editor EXCEPT ![e] = to] /\ to.step = "locked"
    BY <1>1, <1>4 DEF TakeCacheLock, EditorStates, EditorSteps, ManagementTokensTypeOK
  <2> HIDE DEF to
  <2> QED
    BY <1>2, <1>4, <2>1 DEF TakeCacheLock
<1>5. CASE LockForUpdate(e) \/ \E t \in Tokens : LockToReplace(e, t)
  BY <1>1, <1>4, <1>5 DEF LockForUpdate, LockToReplace, NoWork, Ops, EditorStates
<1>6. CASE WriteFails(e)
  BY <1>2, <1>6, TokenConstants DEF WriteFails, LockIsHeld, NoWork
<1>7. CASE WriteRow(e)
  <2> DEFINE to == [editor[e] EXCEPT !.step = "written"]
             t == editor[e].token
  <2>1. /\ to \in EditorStates /\ editor' = [editor EXCEPT ![e] = to] /\ editor'[e] = to
        /\ to.step = "written" /\ to.token = t /\ t \in Tokens
    BY <1>1, <1>7 DEF WriteRow, EditorStates, EditorSteps, ManagementTokensTypeOK
  <2>2. PICK row \in TokenRows : tokenRow' = [tokenRow EXCEPT ![t] = row]
    BY <1>7 DEF WriteRow
  <2>3. \A f \in Editors \ {e} : editor'[f] = editor[f]
    BY <2>1 DEF ManagementTokensTypeOK
  <2>4. UNCHANGED <<verified, tokenRev, mu, use, day>> /\ editor[e].step = "locked"
    BY <1>7 DEF WriteRow
  <2>5. ManagementTokensTypeOK'
    BY <2>1, <2>2, <2>4 DEF ManagementTokensTypeOK, EditorStates
  <2>6. LockIsHeld'
    BY <2>1, <2>3, <2>4 DEF LockIsHeld
  <2>7. ASSUME NEW g \in Grants, Answerable(g) PROVE Answerable(g)'
    <3>1. g.cred[1] \in Tokens
      BY DEF Grants, TokenCredentials
    <3>2. RevokingAll => RevokingAll'
      BY <2>3, <2>4 DEF RevokingAll
    <3>3. \A x : BeingChanged(x) => BeingChanged(x)'
      BY <2>3, <2>4 DEF BeingChanged
    <3>4. CASE g.cred[1] = t
      BY <2>1, <3>4 DEF Answerable, BeingChanged
    <3>5. CASE g.cred[1] # t
      <4>1. tokenRow'[g.cred[1]] = tokenRow[g.cred[1]]
        BY <2>2, <3>1, <3>5 DEF ManagementTokensTypeOK
      <4> QED
        BY <2>7, <3>2, <3>3, <4>1 DEF Answerable, Granted, Grant
    <3> QED
      BY <3>4, <3>5
  <2>8. \A g \in verified' : Answerable(g)'
    BY <2>4, <2>7 DEF ManagementTokensTypeOK
  <2>9. \A u \in Uses : ReadIsAnswerable(u)'
    <3>1. \A u \in Uses : use[u].grant \in Grants
      BY DEF ManagementTokensTypeOK
    <3> HIDE DEF to, t
    <3> QED
      BY <2>4, <2>7, <3>1 DEF ReadIsAnswerable
  <2> QED
    BY <2>5, <2>6, <2>8, <2>9
<1>8. CASE RevokeAll(e)
  <2> DEFINE to == [editor[e] EXCEPT !.step = "revoked", !.op = "revoke"]
  <2>1. /\ to \in EditorStates /\ editor' = [editor EXCEPT ![e] = to] /\ editor'[e] = to
        /\ to.step = "revoked"
    BY <1>1, <1>8 DEF RevokeAll, EditorStates, EditorSteps, Ops, ManagementTokensTypeOK
  <2>2. UNCHANGED <<verified, tokenRev, mu, use, day>>
    BY <1>8 DEF RevokeAll
  <2>3. tokenRow' \in [Tokens -> TokenRows]
    <3>1. \A row \in TokenRows : [row EXCEPT !.there = FALSE] \in TokenRows
      BY DEF TokenRows
    <3>2. \A t \in Tokens : tokenRow[t] \in TokenRows
      BY DEF ManagementTokensTypeOK
    <3>3. \A t \in Tokens :
             (IF t = Boot THEN tokenRow[t] ELSE [tokenRow[t] EXCEPT !.there = FALSE]) \in TokenRows
      BY <3>1, <3>2
    <3>4. tokenRow' = [t \in Tokens |-> IF t = Boot THEN tokenRow[t]
                                                   ELSE [tokenRow[t] EXCEPT !.there = FALSE]]
      BY <1>8 DEF RevokeAll
    <3> HIDE DEF to
    <3> QED
      BY <3>3, <3>4
  <2>4. ManagementTokensTypeOK'
    BY <2>1, <2>2, <2>3 DEF ManagementTokensTypeOK, EditorStates
  <2>5. \A f \in Editors \ {e} : editor'[f] = editor[f]
    BY <2>1 DEF ManagementTokensTypeOK
  <2>6. LockIsHeld'
    BY <2>1, <2>2, <2>5 DEF LockIsHeld
  <2>7. \A g : Answerable(g)'
    BY <2>1 DEF Answerable, RevokingAll
  <2>8. \A u \in Uses : ReadIsAnswerable(u)'
    BY <2>2, <2>7 DEF ReadIsAnswerable
  <2> QED
    BY <2>4, <2>6, <2>7, <2>8
<1>9. CASE InvalidateAndUnlock(e) \/ InvalidateAll(e)
  <2>1. /\ tokenRev' = tokenRev + 1 /\ editor' = [editor EXCEPT ![e] = NoWork]
        /\ UNCHANGED <<tokenRow, use, day>> /\ verified' \subseteq verified
        /\ editor'[e] = NoWork /\ \A f \in Editors \ {e} : editor'[f] = editor[f]
        /\ mu' \in {mu, Unlocked}
    BY <1>9 DEF InvalidateAndUnlock, InvalidateAll, ManagementTokensTypeOK
  <2>2. ManagementTokensTypeOK'
    BY <2>1, TokenConstants DEF ManagementTokensTypeOK, EditorStates
  <2>3. \A u \in Uses : ReadIsAnswerable(u)'
    <3>1. \A u \in Uses : use[u].rev \in Nat /\ (use[u].rev <= tokenRev => use[u].rev <= tokenRev' /\ use[u].rev # tokenRev')
      BY <1>1, <2>1 DEF ManagementTokensTypeOK
    <3> QED
      BY <2>1, <3>1 DEF ReadIsAnswerable
  <2>4. CASE InvalidateAll(e)
    BY <2>1, <2>2, <2>3, <2>4 DEF InvalidateAll, LockIsHeld, NoWork
  <2>5. CASE InvalidateAndUnlock(e)
    <3>1. editor[e].step = "written" /\ mu = e /\ mu' = Unlocked
      BY <2>5 DEF InvalidateAndUnlock, LockIsHeld
    <3>2. LockIsHeld'
      BY <2>1, <3>1 DEF LockIsHeld, NoWork
    <3>3. RevokingAll => RevokingAll'
      BY <2>1, <3>1 DEF RevokingAll
    <3>4. \A x : BeingChanged(x) => x = editor[e].token
      BY <3>1 DEF BeingChanged, LockIsHeld
    <3>5. ASSUME NEW g \in verified' PROVE Answerable(g)'
      <4>1. g.cred[1] # editor[e].token /\ g \in verified
        BY <2>5 DEF InvalidateAndUnlock
      <4> QED
        BY <2>1, <3>3, <3>4, <4>1 DEF Answerable, Granted, Grant
    <3> QED
      BY <2>2, <2>3, <3>2, <3>5
  <2> QED
    BY <1>9, <2>4, <2>5
<1> QED
  BY <1>3, <1>5, <1>6, <1>7, <1>8, <1>9

LEMMA TokensInvariance == TokensInv /\ [ManagementTokensNext]_tokenVars => TokensInv'
<1> SUFFICES ASSUME TokensInv, [ManagementTokensNext]_tokenVars PROVE TokensInv'
  OBVIOUS
<1> USE DEF TokensInv
<1>1. CASE Evict \/ NextDay \/ UNCHANGED tokenVars
  <2>1. UNCHANGED <<tokenRow, tokenRev, mu, use, editor>> /\ verified' \subseteq verified
    BY <1>1 DEF Evict, NextDay, tokenVars
  <2>2. day' \in 0..LastDay
    BY <1>1, ManagementTokensAssumption
       DEF ManagementTokensAssumption, Evict, NextDay, tokenVars, ManagementTokensTypeOK
  <2>3. ManagementTokensTypeOK'
    BY <2>1, <2>2 DEF ManagementTokensTypeOK
  <2> QED
    BY <2>1, <2>3, StillAnswerable DEF LockIsHeld, ReadIsAnswerable
<1>2. CASE RestartTokens
  <2>1. /\ verified' = {} /\ tokenRev' = 0 /\ mu' = Unlocked
        /\ use' = [u \in Uses |-> NoUse] /\ editor' = [f \in Editors |-> NoWork] /\ UNCHANGED day
    BY <1>2 DEF RestartTokens
  <2>2. tokenRow' \in [Tokens -> TokenRows]
    <3>1. PICK there \in BOOLEAN, v \in TokenVersions :
            tokenRow' = [tokenRow EXCEPT ![Boot] = [Fresh EXCEPT !.there = there, !.version = v]]
      BY <1>2 DEF RestartTokens
    <3>2. [Fresh EXCEPT !.there = there, !.version = v] \in TokenRows
      BY TokenConstants DEF TokenRows
    <3> QED
      BY <3>1, <3>2 DEF ManagementTokensTypeOK
  <2>3. ManagementTokensTypeOK'
    BY <2>1, <2>2, TokenConstants DEF ManagementTokensTypeOK, UseStates, EditorStates
  <2>4. LockIsHeld' /\ \A u \in Uses : ReadIsAnswerable(u)'
    BY <2>1 DEF LockIsHeld, ReadIsAnswerable, NoWork, NoUse
  <2> QED
    BY <2>1, <2>3, <2>4
<1> QED
  BY <1>1, <1>2, UseKeeps, EditorKeeps DEF ManagementTokensNext

\* No entry of the cache and no verification under way lets a token in with
\* scopes, an expiry or a secret it no longer has: the writes are made under
\* the lock of the cache, and the revision stops what was read before them.
THEOREM GrantsStayCurrent == ManagementTokensSpec => TokensAreCurrent
<1>1. ASSUME TokensInv, [ManagementTokensNext]_tokenVars, NEW u \in Uses
      PROVE  GrantIsCurrent(u)
  <2> SUFFICES ASSUME use'[u].step = "admitted", use[u].step # "admitted"
               PROVE  /\ ~Expired(use'[u].grant.expires, use'[u].at)
                      /\ \/ RevokingAll
                         \/ Granted(use'[u].grant.cred) /\ use'[u].grant = Grant(use'[u].grant.cred)
    BY DEF GrantIsCurrent
  <2>0. use \in [Uses -> UseStates]
    BY <1>1 DEF TokensInv, ManagementTokensTypeOK, UseStates
  <2>1. ASSUME mu = Unlocked, NEW g, Answerable(g)
        PROVE  RevokingAll \/ (Granted(g.cred) /\ g = Grant(g.cred))
    BY <1>1, <2>1, ManagementTokensAssumption
       DEF ManagementTokensAssumption, TokensInv, Answerable, BeingChanged, LockIsHeld
  <2>2. ASSUME NEW v \in Uses, NEW c \in TokenCredentials, TokenHit(v, c)
        PROVE  v = u /\ mu = Unlocked /\ ~Expired(use'[u].grant.expires, use'[u].at)
               /\ use'[u].grant \in verified
    <3>1. PICK g \in CachedGrants(c) :
            IF Unexpired(g) THEN Admit(v, g, day) /\ UNCHANGED verified
            ELSE RefuseUse(v) /\ verified' = verified \ {g}
      BY <2>2 DEF TokenHit
    <3>2. Unexpired(g) /\ v = u
      BY <2>0, <3>1 DEF Admit, RefuseUse, NoUse
    <3>3. use'[u] = [step |-> "admitted", grant |-> g, rev |-> 0, at |-> day]
      BY <2>0, <3>1, <3>2 DEF Admit
    <3> QED
      BY <2>2, <3>1, <3>2, <3>3 DEF TokenHit, CachedGrants, Unexpired
  <2>3. ASSUME NEW v \in Uses, PublishToken(v)
        PROVE  /\ mu = Unlocked /\ ~Expired(use'[u].grant.expires, use'[u].at)
               /\ Answerable(use[u].grant) /\ use'[u].grant = use[u].grant
    <3>1. Admit(v, use[v].grant, use[v].at) /\ use[v].rev = tokenRev /\ v = u /\ use[v].step = "verified"
      BY <2>0, <2>3 DEF PublishToken, RefuseUse, NoUse, Admit
    <3>2. use'[u] = [step |-> "admitted", grant |-> use[u].grant, rev |-> 0, at |-> use[u].at]
      BY <2>0, <3>1 DEF Admit
    <3> QED
      BY <1>1, <2>3, <3>1, <3>2 DEF PublishToken, TokensInv, ReadIsAnswerable
  <2>4. ASSUME NEW v \in Uses, (\E c \in TokenCredentials : TokenMiss(v, c)) \/ ReadToken(v) \/ EndUse(v)
        PROVE  FALSE
    BY <2>0, <2>4 DEF TokenMiss, ReadToken, EndUse, RefuseUse, NoUse, UseStates
  <2>5. UNCHANGED use \/ RestartTokens \/ \E v \in Uses :
          \/ \E c \in TokenCredentials : TokenHit(v, c) \/ TokenMiss(v, c)
          \/ ReadToken(v) \/ PublishToken(v) \/ EndUse(v)
    <3>1. ASSUME NEW e \in Editors, NEW t \in Tokens, ReadForUpdate(e, t) \/ LockToReplace(e, t)
          PROVE  UNCHANGED use
      BY <3>1 DEF ReadForUpdate, LockToReplace, TakeCacheLock
    <3>2. ASSUME NEW e \in Editors,
                 LockForUpdate(e) \/ WriteRow(e) \/ WriteFails(e) \/ InvalidateAndUnlock(e)
                   \/ RevokeAll(e) \/ InvalidateAll(e)
          PROVE  UNCHANGED use
      BY <3>2 DEF LockForUpdate, TakeCacheLock, WriteRow, WriteFails, InvalidateAndUnlock, RevokeAll,
         InvalidateAll
    <3>3. Evict \/ NextDay => UNCHANGED use
      BY DEF Evict, NextDay
    <3>4. UNCHANGED tokenVars => UNCHANGED use
      BY DEF tokenVars
    <3> QED
      BY <1>1, <3>1, <3>2, <3>3, <3>4, Zenon DEF ManagementTokensNext
  <2>6. ~RestartTokens
    <3>1. RestartTokens => use'[u] = NoUse
      BY DEF RestartTokens
    <3> QED
      BY <3>1 DEF NoUse
  <2> QED
    BY <1>1, <2>1, <2>2, <2>3, <2>4, <2>5, <2>6 DEF TokensInv
<1>2. TokensInv /\ [ManagementTokensNext]_tokenVars => [\A u \in Uses : GrantIsCurrent(u)]_tokenVars
  BY <1>1
<1>3. TokensInv => ManagementTokensTypeOK
  BY DEF TokensInv
<1> QED
  BY <1>2, <1>3, TokensInit, TokensInvariance, PTL DEF ManagementTokensSpec, TokensAreCurrent

-----------------------------------------------------------------------------
(* The sessions of the operator.                                            *)

\* An expiry that the row of the session honours, if it is still to come.
Honoured(s, exp) == hour < exp => sessRow[s] # NoTime /\ exp <= sessRow[s]

\* What a request may have in hand: nothing that a revocation has not
\* overtaken outlives the row, and it renews what is due only.
InHand(g) ==
  /\ get[g].step # "idle" => get[g].sess \in Sessions
  /\ get[g].gen <= sessRev
  /\ get[g].now <= hour
  /\ get[g].step \in {"renewHit", "renew"} => Due(get[g].exp, get[g].now)
  /\ get[g].step \in {"renewHit", "renew", "publish"} /\ get[g].gen = sessRev =>
       Honoured(get[g].sess, get[g].exp)

\* Whoever is let in, and the operator's row, are those of the credential; a start
\* that is about to replace it has dropped every session, and nobody claims then.
Claimed ==
  /\ start = "up" => operator \in {Nobody, credential}
  /\ start # "up" => \A b \in Browsers : claim[b] = "idle"
  /\ start = "write" => env # Nobody /\ \A s \in Sessions : sessRow[s] = NoTime
  /\ credential = Nobody => operator = Nobody
  /\ \A b \in Browsers : claim[b] \in {"claimed", "owner", "passed", "verified"} => credential = b
  /\ \A s \in Sessions : sessRow[s] # NoTime => opener[s] = credential /\ opener[s] # Nobody

AdminInv ==
  /\ AdminSessionsTypeOK
  /\ \A s \in Sessions : Cached(s) => Honoured(s, sessCache[s])
  /\ \A g \in Gets : InHand(g)
  /\ Claimed

LEMMA TimesAreNat == Times \subseteq Nat /\ NoTime \notin Times /\ 0 \in Times
  BY AdminSessionsAssumption DEF AdminSessionsAssumption, Times

LEMMA AdminInit == AdminSessionsInit => AdminInv
<1> SUFFICES ASSUME AdminSessionsInit PROVE AdminInv
  OBVIOUS
<1> USE AdminSessionsAssumption, TimesAreNat DEF AdminSessionsAssumption, AdminSessionsInit, NoGet
<1>1. AdminSessionsTypeOK
  BY DEF AdminSessionsTypeOK, ClaimSteps, GetSteps
<1>2. \A g \in Gets : InHand(g)
  BY DEF InHand
<1>3. Claimed /\ \A s \in Sessions : ~Cached(s)
  BY DEF Claimed, Cached
<1> QED
  BY <1>1, <1>2, <1>3 DEF AdminInv

\* A session that no step takes away is honoured as it was.
LEMMA StillHonoured ==
  ASSUME AdminSessionsTypeOK, NEW s \in Sessions, NEW exp \in Times, Honoured(s, exp),
         hour' \in Nat, hour <= hour',
         \/ sessRow'[s] = sessRow[s]
         \/ sessRow[s] # NoTime /\ sessRow[s] < hour
         \/ sessRow'[s] \in Times /\ (sessRow[s] # NoTime => sessRow[s] <= sessRow'[s])
  PROVE  Honoured(s, exp)'
<1>1. /\ exp \in Nat /\ hour \in Nat /\ NoTime \notin Nat
      /\ sessRow[s] \in Nat \cup {NoTime}
      /\ sessRow'[s] \in Times => sessRow'[s] \in Nat
  <2>1. Times \subseteq Nat /\ NoTime \notin Nat /\ LastHour \in Nat
    BY TimesAreNat, AdminSessionsAssumption DEF AdminSessionsAssumption
  <2>2. exp \in Nat
    BY <2>1
  <2>3. sessRow[s] \in Times \cup {NoTime} /\ hour \in 0..LastHour
    BY DEF AdminSessionsTypeOK
  <2>4. sessRow[s] \in Nat \cup {NoTime}
    BY <2>1, <2>3
  <2>5. hour \in Nat
    BY <2>1, <2>3
  <2>6. sessRow'[s] \in Times => sessRow'[s] \in Nat
    BY <2>1
  <2> QED
    BY <2>1, <2>2, <2>4, <2>5, <2>6
<1>2. SUFFICES ASSUME hour' < exp PROVE sessRow'[s] # NoTime /\ exp <= sessRow'[s]
  BY DEF Honoured
<1>3. sessRow[s] # NoTime /\ exp <= sessRow[s]
  BY <1>1, <1>2 DEF Honoured
<1>4. ~(sessRow[s] < hour)
  BY <1>1, <1>2, <1>3
<1>5. CASE sessRow'[s] = sessRow[s]
  BY <1>3, <1>5
<1>6. CASE sessRow'[s] \in Times /\ sessRow[s] <= sessRow'[s]
  BY <1>1, <1>3, <1>6
<1> QED
  BY <1>3, <1>4, <1>5, <1>6

LEMMA ClaimKeeps ==
  ASSUME AdminInv, NEW b \in Browsers,
         \/ Setup(b) \/ SetCredential(b) \/ InvalidateAllSessions(b) \/ EnsureLocalOperator(b)
         \/ Login(b) \/ ReconcileLocalOperator(b) \/ TryAgain(b)
         \/ \E s \in Sessions : Create(b, s),
         start = "up", UNCHANGED startVars
  PROVE  AdminInv'
<1> USE AdminSessionsAssumption, TimesAreNat
    DEF AdminSessionsAssumption, AdminInv, ClaimStep, startVars
<1>1. AdminSessionsTypeOK'
  <2>1. CASE Setup(b) \/ SetCredential(b) \/ Login(b) \/ TryAgain(b)
    BY <2>1 DEF Setup, SetCredential, Login, TryAgain, AdminSessionsTypeOK, ClaimSteps, sessionVars
  <2>2. CASE EnsureLocalOperator(b) \/ ReconcileLocalOperator(b)
    BY <2>2 DEF EnsureLocalOperator, ReconcileLocalOperator, AdminSessionsTypeOK, ClaimSteps, sessionVars
  <2>3. CASE InvalidateAllSessions(b)
    BY <2>3 DEF InvalidateAllSessions, DropSessions, AdminSessionsTypeOK, ClaimSteps
  <2>4. CASE \E s \in Sessions : Create(b, s)
    <3>1. hour + SessionTTL \in Times
      BY DEF AdminSessionsTypeOK, Times
    <3> QED
      BY <2>4, <3>1 DEF Create, AdminSessionsTypeOK, ClaimSteps
  <2> QED
    BY <2>1, <2>2, <2>3, <2>4
<1>2. Claimed'
  <2> USE DEF Claimed, AdminSessionsTypeOK
  <2>1. CASE Setup(b) \/ Login(b) \/ TryAgain(b)
    BY <2>1 DEF Setup, Login, TryAgain, sessionVars
  <2>2. CASE SetCredential(b)
    BY <2>2 DEF SetCredential, sessionVars
  <2>3. CASE EnsureLocalOperator(b) \/ ReconcileLocalOperator(b)
    BY <2>3 DEF EnsureLocalOperator, ReconcileLocalOperator, sessionVars
  <2>4. CASE InvalidateAllSessions(b)
    BY <2>4 DEF InvalidateAllSessions, DropSessions
  <2>5. CASE \E s \in Sessions : Create(b, s)
    BY <2>5 DEF Create
  <2> QED
    BY <2>1, <2>2, <2>3, <2>4, <2>5
<1>3. CASE UNCHANGED <<sessionVars, get, hour>>
  BY <1>1, <1>2, <1>3 DEF sessionVars, Cached, Honoured, InHand, Due
<1>4. CASE InvalidateAllSessions(b)
  <2>1. UNCHANGED <<get, hour>> /\ sessRev' = sessRev + 1 /\ \A s \in Sessions : ~Cached(s)'
    BY <1>4 DEF InvalidateAllSessions, DropSessions, Cached
  <2>2. \A g \in Gets : InHand(g)'
    BY <2>1 DEF InHand, Due, AdminSessionsTypeOK
  <2> QED
    BY <1>1, <1>2, <2>1, <2>2
<1>5. ASSUME NEW s \in Sessions, Create(b, s) PROVE AdminInv'
  <2>1. UNCHANGED <<sessCache, sessRev, get, hour>> /\ sessRow[s] = NoTime
        /\ \A t \in Sessions \ {s} : sessRow'[t] = sessRow[t]
    BY <1>5 DEF Create, Claimed, AdminSessionsTypeOK
  <2>2. hour + SessionTTL \in Times /\ sessRow'[s] = hour + SessionTTL /\ hour \in Nat
    BY <1>5 DEF Create, AdminSessionsTypeOK, Times
  <2>3. ASSUME NEW t \in Sessions, NEW exp \in Times, Honoured(t, exp) PROVE Honoured(t, exp)'
    <3>1. \/ sessRow'[t] = sessRow[t]
          \/ sessRow'[t] \in Times /\ sessRow[t] = NoTime
      BY <2>1, <2>2
    <3>2. hour' \in Nat /\ hour <= hour'
      BY <2>1, <2>2
    <3> QED
      BY <2>3, <3>1, <3>2, StillHonoured
  <2>4. \A t \in Sessions : Cached(t)' => Honoured(t, sessCache[t])'
    BY <2>1, <2>3 DEF Cached, AdminSessionsTypeOK
  <2>5. \A g \in Gets : InHand(g)'
    BY <2>1, <2>3 DEF InHand, Due, AdminSessionsTypeOK
  <2> QED
    BY <1>1, <1>2, <2>1, <2>4, <2>5
<1> QED
  BY <1>3, <1>4, <1>5 DEF Setup, SetCredential, EnsureLocalOperator, Login,
     ReconcileLocalOperator, TryAgain

LEMMA GetKeeps ==
  ASSUME AdminInv, NEW g \in Gets,
         \/ \E s \in Sessions : CachedGet(g, s) \/ UncachedGet(g, s)
         \/ RenewCached(g) \/ Renew(g) \/ LoadSession(g) \/ RevokeExpired(g)
         \/ PublishSession(g) \/ EndGet(g),
         start = "up", UNCHANGED startVars
  PROVE  AdminInv'
<1> USE AdminSessionsAssumption, TimesAreNat DEF AdminSessionsAssumption, AdminInv, startVars
<1>1. UNCHANGED <<credential, operator, claim, hour, opener>>
  BY DEF CachedGet, UncachedGet, RenewCached, Renew, LoadSession, RevokeExpired, Revoke,
     PublishSession, EndGet, claimVars, sessionVars
<1>2. /\ get[g] \in [step : GetSteps, sess : Sessions \cup {NoTime}, now : 0..LastHour,
                     gen : Nat, exp : Times]
      /\ hour \in 0..LastHour /\ sessRev \in Nat
      /\ \A s \in Sessions : sessRow[s] \in Times \cup {NoTime} /\ sessCache[s] \in Times \cup {NoTime}
  BY DEF AdminSessionsTypeOK
<1>3. \A e \in Gets \ {g} : get'[e] = get[e]
  BY DEF CachedGet, UncachedGet, RenewCached, Renew, LoadSession, RevokeExpired, Revoke,
     PublishSession, EndGet, Extend, Move, Out, AdminSessionsTypeOK
<1>4. ASSUME get'[g] \in [step : GetSteps, sess : Sessions \cup {NoTime}, now : 0..LastHour,
                          gen : Nat, exp : Times],
             InHand(g)',
             \E f : get' = [get EXCEPT ![g] = f],
             sessRev' \in Nat /\ sessRev <= sessRev',
             sessRow' \in [Sessions -> Times \cup {NoTime}],
             sessCache' \in [Sessions -> Times \cup {NoTime}],
             \A s \in Sessions : (Cached(s) => Honoured(s, sessCache[s]))',
             \A s \in Sessions : sessRow'[s] # NoTime => sessRow[s] # NoTime,
             \/ sessRev < sessRev'
             \/ \A s \in Sessions : sessRow[s] # NoTime => sessRow'[s] # NoTime /\ sessRow[s] <= sessRow'[s]
      PROVE  AdminInv'
  <2>1. AdminSessionsTypeOK'
    BY <1>1, <1>3, <1>4 DEF AdminSessionsTypeOK
  <2>2. Claimed'
    BY <1>1, <1>4 DEF Claimed
  <2>3. ASSUME NEW e \in Gets \ {g} PROVE InHand(e)'
    <3>1. get'[e] = get[e] /\ InHand(e) /\ get[e].gen \in Nat /\ get[e].exp \in Times
      BY <1>3 DEF AdminSessionsTypeOK
    <3>2. CASE sessRev < sessRev'
      BY <1>1, <1>2, <1>4, <3>1, <3>2 DEF InHand, Due
    <3>3. CASE ~(sessRev < sessRev')
      <4>1. sessRev' = sessRev
        BY <1>2, <1>4, <3>3
      <4>2. get[e].step \in {"renewHit", "renew", "publish"} /\ get[e].gen = sessRev =>
              Honoured(get[e].sess, get[e].exp)'
        <5> SUFFICES ASSUME get[e].step \in {"renewHit", "renew", "publish"}, get[e].gen = sessRev
                     PROVE  Honoured(get[e].sess, get[e].exp)'
          OBVIOUS
        <5> DEFINE s == get[e].sess
        <5>1. s \in Sessions /\ Honoured(s, get[e].exp)
          BY <3>1 DEF InHand
        <5>2. \/ sessRow'[s] = sessRow[s]
              \/ sessRow'[s] \in Times /\ (sessRow[s] # NoTime => sessRow[s] <= sessRow'[s])
          BY <1>4, <3>3, <5>1
        <5>3. hour' \in Nat /\ hour <= hour'
          BY <1>1, <1>2
        <5> QED
          BY <3>1, <5>1, <5>2, <5>3, StillHonoured
      <4> QED
        BY <1>1, <3>1, <4>1, <4>2 DEF InHand, Due
    <3> QED
      BY <3>2, <3>3
  <2>4. \A e \in Gets : InHand(e)'
    BY <1>4, <2>3
  <2>5. \A s \in Sessions : Cached(s)' => Honoured(s, sessCache[s])'
    BY <1>4 DEF Cached
  <2> QED
    BY <2>1, <2>2, <2>4, <2>5
<1>5. \A s \in Sessions : sessRow[s] # NoTime => sessRow[s] <= sessRow[s]
  <2>1. \A s \in Sessions : sessRow[s] # NoTime => sessRow[s] \in Nat
    BY <1>2
  <2> QED
    BY <2>1
<1>6. sessRev <= sessRev /\ \A s \in Sessions : Cached(s) => Honoured(s, sessCache[s])
  BY <1>2
<1>7. NoGet \in [step : GetSteps, sess : Sessions \cup {NoTime}, now : 0..LastHour,
                 gen : Nat, exp : Times]
  BY <1>2 DEF NoGet, GetSteps
<1>8. ASSUME Out(g) PROVE get'[g] = NoGet /\ InHand(g)' /\ \E f : get' = [get EXCEPT ![g] = f]
  <2>1. get'[g] = NoGet
    BY <1>8 DEF Out, AdminSessionsTypeOK
  <2>2. sessRev' \in Nat /\ hour' \in Nat
    <3>1. sessRev' = sessRev \/ sessRev' = sessRev + 1
      BY DEF CachedGet, UncachedGet, RenewCached, Renew, LoadSession, RevokeExpired, Revoke,
         PublishSession, EndGet, sessionVars
    <3> QED
      BY <1>1, <1>2, <3>1
  <2>3. InHand(g)'
    BY <2>1, <2>2 DEF InHand, NoGet
  <2> QED
    BY <1>8, <2>1, <2>3 DEF Out
<1>9. CASE EndGet(g) \/ (Out(g) /\ UNCHANGED <<sessRow, sessCache, sessRev>>)
  <2>1. Out(g) /\ UNCHANGED <<sessRow, sessCache, sessRev>>
    BY <1>9 DEF EndGet, sessionVars
  <2>2. \A s \in Sessions : (Cached(s) => Honoured(s, sessCache[s]))'
    BY <1>1, <1>6, <2>1 DEF Cached, Honoured
  <2> QED
    BY <1>2, <1>4, <1>5, <1>6, <1>7, <1>8, <2>1, <2>2 DEF AdminSessionsTypeOK
<1>10. ASSUME NEW s \in Sessions, CachedGet(g, s) PROVE AdminInv'
  <2>1. /\ UNCHANGED <<sessRow, sessCache, sessRev>> /\ Cached(s)
        /\ \E step \in GetSteps : /\ get' = [get EXCEPT ![g] = GetOf(step, s, sessCache[s])]
                                  /\ step = "renewHit" => Due(sessCache[s], hour)
                                  /\ step # "renew"
    BY <1>10 DEF CachedGet, GetSteps, sessionVars
  <2>2. PICK step \in GetSteps : /\ get' = [get EXCEPT ![g] = GetOf(step, s, sessCache[s])]
                                 /\ step = "renewHit" => Due(sessCache[s], hour)
                                 /\ step # "renew"
    BY <2>1
  <2>3. get'[g] = [step |-> step, sess |-> s, now |-> hour, gen |-> sessRev, exp |-> sessCache[s]]
    BY <2>2 DEF AdminSessionsTypeOK, GetOf
  <2>4. sessCache[s] \in Times
    BY <1>2, <2>1 DEF Cached
  <2>5. InHand(g)'
    BY <1>1, <1>2, <2>1, <2>2, <2>3, <2>4 DEF InHand, Due, Honoured
  <2>6. \A t \in Sessions : (Cached(t) => Honoured(t, sessCache[t]))'
    BY <1>1, <1>6, <2>1 DEF Cached, Honoured
  <2>7. get'[g] \in [step : GetSteps, sess : Sessions \cup {NoTime}, now : 0..LastHour,
                     gen : Nat, exp : Times]
    BY <1>2, <2>3, <2>4
  <2> QED
    BY <1>2, <1>4, <1>5, <1>6, <2>1, <2>2, <2>5, <2>6, <2>7 DEF AdminSessionsTypeOK
<1>11. ASSUME NEW s \in Sessions, UncachedGet(g, s) PROVE AdminInv'
  <2>1. /\ UNCHANGED <<sessRow, sessRev>> /\ sessCache' = [sessCache EXCEPT ![s] = NoTime]
        /\ get' = [get EXCEPT ![g] = GetOf("load", s, 0)]
    BY <1>11 DEF UncachedGet
  <2>2. get'[g] = [step |-> "load", sess |-> s, now |-> hour, gen |-> sessRev, exp |-> 0]
    BY <2>1 DEF AdminSessionsTypeOK, GetOf
  <2>3. InHand(g)'
    BY <1>1, <1>2, <2>1, <2>2 DEF InHand
  <2>4. \A t \in Sessions : (Cached(t) => Honoured(t, sessCache[t]))'
    BY <1>1, <1>6, <2>1 DEF Cached, Honoured, AdminSessionsTypeOK
  <2>5. "load" \in GetSteps
    BY DEF GetSteps
  <2>6. get'[g] \in [step : GetSteps, sess : Sessions \cup {NoTime}, now : 0..LastHour,
                     gen : Nat, exp : Times]
    BY <1>2, <2>2, <2>5
  <2>7. sessCache' \in [Sessions -> Times \cup {NoTime}]
    BY <2>1 DEF AdminSessionsTypeOK
  <2> QED
    BY <1>2, <1>4, <1>5, <1>6, <2>1, <2>3, <2>4, <2>6, <2>7 DEF AdminSessionsTypeOK
<1>12. ASSUME NEW step \in {"publish", "reload", "revoke"}, Move(g, step),
              step = "publish" => get[g].step = "renewHit",
              get[g].step # "idle", UNCHANGED <<sessRow, sessCache, sessRev>>
       PROVE  AdminInv'
  <2>1. get'[g] = [get[g] EXCEPT !.step = step]
    BY <1>12 DEF Move, AdminSessionsTypeOK
  <2>2. /\ get'[g].step = step /\ get'[g].sess = get[g].sess /\ get'[g].now = get[g].now
        /\ get'[g].gen = get[g].gen /\ get'[g].exp = get[g].exp
        /\ get'[g] \in [step : GetSteps, sess : Sessions \cup {NoTime}, now : 0..LastHour,
                        gen : Nat, exp : Times]
    BY <1>2, <2>1 DEF GetSteps
  <2>3. InHand(g)'
    BY <1>1, <1>12, <2>2 DEF InHand, Honoured
  <2>4. \A t \in Sessions : (Cached(t) => Honoured(t, sessCache[t]))'
    BY <1>1, <1>6, <1>12 DEF Cached, Honoured
  <2>5. \E f : get' = [get EXCEPT ![g] = f]
    BY <1>12, <2>1 DEF Move
  <2> QED
    BY <1>2, <1>4, <1>5, <1>6, <1>12, <2>2, <2>3, <2>4, <2>5 DEF AdminSessionsTypeOK
<1>13. ASSUME Extend(g), get[g].step \in {"renewHit", "renew"}, UNCHANGED <<sessCache, sessRev>>
       PROVE  AdminInv'
  <2> DEFINE s == get[g].sess
             exp == get[g].now + SessionTTL
  <2>1. CASE sessRow[s] = get[g].exp
    <3>1. /\ sessRow' = [sessRow EXCEPT ![s] = exp]
          /\ get' = [get EXCEPT ![g].step = "publish", ![g].exp = exp]
      BY <1>13, <2>1 DEF Extend
    <3>2. s \in Sessions /\ get[g].now \in Nat /\ get[g].exp \in Nat /\ exp \in Nat /\ exp \in Times
      BY <1>2, <1>13 DEF InHand, Times
    <3>3. sessRow[s] # NoTime /\ sessRow[s] \in Nat /\ sessRow[s] <= exp
      <4>1. 2 * (get[g].exp - get[g].now) < SessionTTL
        BY <1>13 DEF InHand, Due
      <4> QED
        BY <2>1, <3>2, <4>1
    <3>4. get'[g] = [get[g] EXCEPT !.step = "publish", !.exp = exp]
      BY <3>1 DEF AdminSessionsTypeOK
    <3> HIDE DEF exp
    <3>5. /\ get'[g].step = "publish" /\ get'[g].sess = s /\ get'[g].now = get[g].now
          /\ get'[g].gen = get[g].gen /\ get'[g].exp = exp
          /\ get'[g] \in [step : GetSteps, sess : Sessions \cup {NoTime}, now : 0..LastHour,
                          gen : Nat, exp : Times]
      BY <1>2, <3>2, <3>4 DEF GetSteps
    <3>6. sessRow'[s] = exp
      BY <3>1, <3>2 DEF AdminSessionsTypeOK
    <3>7. InHand(g)'
      BY <1>1, <1>13, <3>2, <3>5, <3>6 DEF InHand, Honoured
    <3>8. \A t \in Sessions : /\ sessRow'[t] # NoTime => sessRow[t] # NoTime
                              /\ sessRow[t] # NoTime => sessRow'[t] # NoTime /\ sessRow[t] <= sessRow'[t]
      BY <1>5, <3>1, <3>2, <3>3, <3>6 DEF AdminSessionsTypeOK
    <3>9. ASSUME NEW t \in Sessions, Cached(t)' PROVE Honoured(t, sessCache[t])'
      <4>1. Cached(t) /\ sessCache[t] \in Times /\ Honoured(t, sessCache[t])
        BY <1>2, <1>13, <3>9 DEF Cached
      <4>2. \/ sessRow'[t] = sessRow[t]
            \/ sessRow'[t] \in Times /\ (sessRow[t] # NoTime => sessRow[t] <= sessRow'[t])
        BY <3>1, <3>2, <3>3, <3>6 DEF AdminSessionsTypeOK
      <4>3. hour' \in Nat /\ hour <= hour' /\ sessCache' = sessCache
        BY <1>1, <1>2, <1>13
      <4>4. ASSUME NEW e \in Times, e = sessCache[t] PROVE Honoured(t, e)'
        BY <4>1, <4>2, <4>3, <4>4, StillHonoured
      <4> QED
        BY <4>1, <4>3, <4>4 DEF Honoured
    <3>10. \E f : get' = [get EXCEPT ![g] = f]
      BY <3>1
    <3>11. sessRow' \in [Sessions -> Times \cup {NoTime}]
      BY <3>1, <3>2 DEF AdminSessionsTypeOK
    <3> QED
      BY <1>2, <1>4, <1>6, <1>13, <3>5, <3>7, <3>8, <3>9, <3>10, <3>11 DEF AdminSessionsTypeOK
  <2>2. CASE sessRow[s] # get[g].exp
    BY <1>12, <1>13, <2>2 DEF Extend
  <2> QED
    BY <2>1, <2>2
<1>14. CASE RenewCached(g)
  BY <1>12, <1>13, <1>14 DEF RenewCached
<1>15. CASE Renew(g)
  BY <1>9, <1>13, <1>15 DEF Renew
<1>16. CASE LoadSession(g)
  <2> DEFINE s == get[g].sess
             exp == sessRow[s]
             next == IF get[g].step = "load" /\ Due(exp, get[g].now) THEN "renew" ELSE "publish"
  <2>1. CASE Out(g)
    BY <1>9, <1>16, <2>1 DEF LoadSession, sessionVars
  <2>2. CASE Move(g, "revoke")
    BY <1>12, <1>16, <2>2 DEF LoadSession, sessionVars
  <2>3. CASE exp # NoTime /\ get' = [get EXCEPT ![g].step = next, ![g].exp = exp]
    <3>1. s \in Sessions /\ exp \in Times /\ UNCHANGED <<sessRow, sessCache, sessRev>>
      BY <1>2, <1>16, <2>3 DEF LoadSession, sessionVars, InHand
    <3>2. /\ next \in {"renew", "publish"} /\ next \in GetSteps
          /\ next = "renew" => Due(exp, get[g].now)
      BY DEF GetSteps
    <3> HIDE DEF exp, next
    <3>3. get'[g] = [get[g] EXCEPT !.step = next, !.exp = exp]
      BY <2>3 DEF AdminSessionsTypeOK
    <3>4. /\ get'[g].step = next /\ get'[g].sess = s /\ get'[g].now = get[g].now
          /\ get'[g].gen = get[g].gen /\ get'[g].exp = exp
          /\ get'[g] \in [step : GetSteps, sess : Sessions \cup {NoTime}, now : 0..LastHour,
                          gen : Nat, exp : Times]
      BY <1>2, <3>1, <3>2, <3>3
    <3>5. exp <= exp
      <4>1. exp \in Nat
        BY <3>1
      <4> QED
        BY <4>1
    <3>6. InHand(g)'
      BY <1>1, <2>3, <3>1, <3>2, <3>4, <3>5 DEF InHand, Honoured, Due, exp
    <3>7. \A t \in Sessions : (Cached(t) => Honoured(t, sessCache[t]))'
      BY <1>1, <1>6, <3>1 DEF Cached, Honoured
    <3>8. \E f : get' = [get EXCEPT ![g] = f]
      BY <2>3
    <3> QED
      BY <1>2, <1>4, <1>5, <1>6, <3>1, <3>4, <3>6, <3>7, <3>8 DEF AdminSessionsTypeOK
  <2> QED
    BY <1>16, <2>1, <2>2, <2>3 DEF LoadSession
<1>17. CASE RevokeExpired(g)
  <2>0. PICK s \in Sessions : s = get[g].sess
    BY <1>17 DEF RevokeExpired, InHand
  <2>1. /\ Out(g) /\ sessRev' = sessRev + 1 /\ sessCache' = [sessCache EXCEPT ![s] = NoTime]
        /\ sessRow' = [sessRow EXCEPT ![s] = NoTime] \/ UNCHANGED sessRow
    BY <1>17, <2>0 DEF RevokeExpired, Revoke
  <2>2. \A t \in Sessions \ {s} : sessRow'[t] = sessRow[t]
    BY <2>1 DEF AdminSessionsTypeOK
  <2>3. ~Cached(s)' /\ \A t \in Sessions \ {s} : sessCache'[t] = sessCache[t]
    BY <2>1 DEF Cached, AdminSessionsTypeOK
  <2>4. \A t \in Sessions : (Cached(t) => Honoured(t, sessCache[t]))'
    BY <1>1, <1>6, <2>2, <2>3 DEF Cached, Honoured
  <2>5. /\ sessRow' \in [Sessions -> Times \cup {NoTime}]
        /\ sessCache' \in [Sessions -> Times \cup {NoTime}]
        /\ \A t \in Sessions : sessRow'[t] # NoTime => sessRow[t] # NoTime
    BY <2>1 DEF AdminSessionsTypeOK
  <2>6. sessRev' \in Nat /\ sessRev < sessRev' /\ sessRev <= sessRev'
    BY <1>2, <2>1
  <2> QED
    BY <1>4, <1>7, <1>8, <2>1, <2>4, <2>5, <2>6
<1>18. CASE PublishSession(g)
  <2> DEFINE s == get[g].sess
             exp == Latest(get[g].exp, s)
  <2>1. s \in Sessions /\ get[g].step = "publish"
    BY <1>18 DEF PublishSession, InHand
  <2>2. CASE sessRev = get[g].gen
    <3>1. /\ sessCache' = [sessCache EXCEPT ![s] = exp] /\ UNCHANGED <<sessRow, sessRev>>
          /\ get' = [get EXCEPT ![g].step = "in", ![g].exp = exp]
      BY <1>18, <2>2 DEF PublishSession
    <3>2. exp \in Times /\ Honoured(s, exp)
      BY <1>2, <2>1, <2>2 DEF Latest, Cached, InHand
    <3> HIDE DEF exp
    <3>3. get'[g] = [get[g] EXCEPT !.step = "in", !.exp = exp]
      BY <3>1 DEF AdminSessionsTypeOK
    <3>4. /\ get'[g].step = "in" /\ get'[g].sess = s /\ get'[g].now = get[g].now
          /\ get'[g].gen = get[g].gen
          /\ get'[g] \in [step : GetSteps, sess : Sessions \cup {NoTime}, now : 0..LastHour,
                          gen : Nat, exp : Times]
      BY <1>2, <3>2, <3>3 DEF GetSteps
    <3>5. InHand(g)'
      BY <1>1, <2>1, <3>1, <3>4 DEF InHand
    <3>6. \A t \in Sessions : (Cached(t) => Honoured(t, sessCache[t]))'
      BY <1>1, <1>6, <2>1, <3>1, <3>2 DEF Cached, Honoured, AdminSessionsTypeOK
    <3>7. \E f : get' = [get EXCEPT ![g] = f]
      BY <3>1
    <3>8. sessCache' \in [Sessions -> Times \cup {NoTime}]
      BY <3>1, <3>2 DEF AdminSessionsTypeOK
    <3> QED
      BY <1>2, <1>4, <1>5, <1>6, <3>1, <3>4, <3>5, <3>6, <3>7, <3>8 DEF AdminSessionsTypeOK
  <2>3. CASE sessRev # get[g].gen
    BY <1>9, <1>18, <2>3 DEF PublishSession
  <2> QED
    BY <2>2, <2>3
<1> QED
  BY <1>9, <1>10, <1>11, <1>14, <1>15, <1>16, <1>17, <1>18

LEMMA StartKeeps ==
  ASSUME AdminInv, Restart \/ SyncCredential \/ WriteCredential \/ SyncLocalOperator
  PROVE  AdminInv'
<1> USE AdminSessionsAssumption, TimesAreNat DEF AdminSessionsAssumption, AdminInv
<1>1. CASE Restart
  <2>1. AdminSessionsTypeOK'
    BY <1>1 DEF Restart, AdminSessionsTypeOK, ClaimSteps, GetSteps, NoGet
  <2>2. Claimed'
    BY <1>1 DEF Restart, Claimed
  <2>3. \A g \in Gets : get'[g] = NoGet
    BY <1>1 DEF Restart
  <2>4. \A g \in Gets : InHand(g)'
    BY <2>1, <2>3 DEF InHand, NoGet, AdminSessionsTypeOK
  <2>5. \A s \in Sessions : ~Cached(s)'
    BY <1>1 DEF Restart, Cached
  <2> QED
    BY <2>1, <2>2, <2>4, <2>5
<1>2. CASE SyncCredential /\ UNCHANGED sessionVars
  <2>1. AdminSessionsTypeOK'
    BY <1>2 DEF SyncCredential, AdminSessionsTypeOK, claimVars, sessionVars
  <2>2. Claimed'
    BY <1>2 DEF SyncCredential, Claimed, claimVars, sessionVars, DropSessions, AdminSessionsTypeOK
  <2> QED
    BY <1>2, <2>1, <2>2 DEF SyncCredential, sessionVars, Cached, Honoured, InHand, Due
<1>3. CASE SyncCredential /\ DropSessions
  <2>1. AdminSessionsTypeOK'
    BY <1>3 DEF SyncCredential, DropSessions, AdminSessionsTypeOK, claimVars
  <2>2. Claimed'
    BY <1>3 DEF SyncCredential, DropSessions, Claimed, claimVars
  <2>3. UNCHANGED <<get, hour>> /\ sessRev' = sessRev + 1 /\ \A s \in Sessions : ~Cached(s)'
    BY <1>3 DEF SyncCredential, DropSessions, Cached
  <2>4. \A g \in Gets : InHand(g)'
    BY <2>3 DEF InHand, Due, AdminSessionsTypeOK
  <2> QED
    BY <2>1, <2>2, <2>3, <2>4
<1>4. CASE WriteCredential \/ SyncLocalOperator
  <2>1. AdminSessionsTypeOK'
    BY <1>4 DEF WriteCredential, SyncLocalOperator, AdminSessionsTypeOK, Claimed, sessionVars
  <2>2. Claimed'
    BY <1>4 DEF WriteCredential, SyncLocalOperator, Claimed, sessionVars
  <2> QED
    BY <1>4, <2>1, <2>2 DEF WriteCredential, SyncLocalOperator, sessionVars, Cached, Honoured, InHand, Due
<1> QED
  BY <1>1, <1>2, <1>3, <1>4 DEF SyncCredential

LEMMA AdminInvariant == AdminInv /\ [AdminSessionsNext]_adminVars => AdminInv'
<1> SUFFICES ASSUME AdminInv, [AdminSessionsNext]_adminVars PROVE AdminInv'
  OBVIOUS
<1> USE AdminSessionsAssumption, TimesAreNat DEF AdminSessionsAssumption, AdminInv, startVars
<1>1. ASSUME UNCHANGED <<claimVars, opener, sessRev, get, startVars>>,
             hour' \in 0..LastHour, hour <= hour',
             sessRow' \in [Sessions -> Times \cup {NoTime}],
             \A s \in Sessions : sessCache'[s] \in {sessCache[s], NoTime},
             sessCache' \in [Sessions -> Times \cup {NoTime}],
             \A s \in Sessions : \/ sessRow'[s] = sessRow[s]
                                 \/ sessRow[s] # NoTime /\ sessRow[s] < hour /\ sessRow'[s] = NoTime
      PROVE  AdminInv'
  <2>1. AdminSessionsTypeOK' /\ Claimed'
    BY <1>1 DEF AdminSessionsTypeOK, Claimed, claimVars
  <2>2. hour' \in Nat
    BY <1>1
  <2>3. ASSUME NEW s \in Sessions, NEW exp \in Times, Honoured(s, exp) PROVE Honoured(s, exp)'
    <3>1. sessRow'[s] = sessRow[s] \/ (sessRow[s] # NoTime /\ sessRow[s] < hour)
      BY <1>1
    <3> QED
      BY <1>1, <2>2, <2>3, <3>1, StillHonoured
  <2>4. ASSUME NEW g \in Gets PROVE InHand(g)'
    <3>1. get[g].exp \in Times /\ get[g].now \in Nat /\ hour \in Nat
      BY DEF AdminSessionsTypeOK
    <3>2. get' = get /\ sessRev' = sessRev /\ get[g].now <= hour'
      BY <1>1, <2>2, <3>1 DEF InHand
    <3> QED
      BY <2>3, <3>1, <3>2 DEF InHand, Due
  <2>5. ASSUME NEW s \in Sessions, Cached(s)' PROVE Honoured(s, sessCache[s])'
    <3>1. sessCache'[s] = sessCache[s] /\ sessCache[s] \in Times /\ Honoured(s, sessCache[s])
      BY <1>1, <2>5 DEF Cached, AdminSessionsTypeOK
    <3>2. ASSUME NEW exp \in Times, exp = sessCache[s] PROVE Honoured(s, exp)'
      BY <2>3, <3>1, <3>2
    <3> QED
      BY <3>1, <3>2 DEF Honoured
  <2> QED
    BY <2>1, <2>4, <2>5
<1>2. ASSUME NEW s \in Sessions, Logout(s), UNCHANGED startVars PROVE AdminInv'
  <2>1. /\ sessRev' = sessRev + 1 /\ sessCache' = [sessCache EXCEPT ![s] = NoTime]
        /\ sessRow' = [sessRow EXCEPT ![s] = NoTime] \/ UNCHANGED sessRow
        /\ UNCHANGED <<claimVars, opener, get, hour>>
    BY <1>2 DEF Logout, Revoke
  <2>2. AdminSessionsTypeOK' /\ Claimed'
    <3>1. AdminSessionsTypeOK'
      BY <1>2, <2>1 DEF AdminSessionsTypeOK, claimVars
    <3>2. UNCHANGED <<credential, operator, claim, opener, start, env>>
      BY <1>2, <2>1 DEF claimVars
    <3>3. \A t \in Sessions : sessRow'[t] \in {sessRow[t], NoTime}
      BY <2>1 DEF AdminSessionsTypeOK
    <3>4. Claimed'
      BY <3>2, <3>3 DEF Claimed
    <3> QED
      BY <3>1, <3>4
  <2>3. \A g \in Gets : InHand(g)'
    <3>1. \A g \in Gets : get[g].gen \in Nat /\ get[g].gen # sessRev' /\ get[g].gen <= sessRev'
      BY <2>1 DEF AdminSessionsTypeOK, InHand
    <3> QED
      BY <2>1, <3>1 DEF InHand, Due
  <2>4. \A t \in Sessions : (Cached(t) => Honoured(t, sessCache[t]))'
    BY <2>1 DEF Cached, Honoured, AdminSessionsTypeOK
  <2> QED
    BY <2>2, <2>3, <2>4
<1>3. CASE ((SweepSessions \/ PruneExpiredSessions) /\ UNCHANGED startVars) \/ UNCHANGED adminVars
  <2>1. hour <= hour
    <3>1. hour \in Nat
      BY DEF AdminSessionsTypeOK
    <3> QED
      BY <3>1
  <2>2. sessRow' \in [Sessions -> Times \cup {NoTime}] /\ sessCache' \in [Sessions -> Times \cup {NoTime}]
    BY <1>3 DEF SweepSessions, PruneExpiredSessions, AdminSessionsTypeOK, adminVars
  <2>3. /\ \A s \in Sessions : sessCache'[s] \in {sessCache[s], NoTime}
        /\ \A s \in Sessions : \/ sessRow'[s] = sessRow[s]
                               \/ sessRow[s] # NoTime /\ sessRow[s] < hour /\ sessRow'[s] = NoTime
    BY <1>3 DEF SweepSessions, PruneExpiredSessions, AdminSessionsTypeOK, adminVars
  <2>4. UNCHANGED <<claimVars, opener, sessRev, get, hour, startVars>>
    BY <1>3 DEF SweepSessions, PruneExpiredSessions, adminVars, claimVars
  <2> QED
    BY <1>1, <2>1, <2>2, <2>3, <2>4 DEF AdminSessionsTypeOK
<1>4. CASE NextHour /\ UNCHANGED startVars
  <2>1. hour' \in 0..LastHour /\ hour <= hour'
    BY <1>4 DEF NextHour, AdminSessionsTypeOK
  <2> QED
    BY <1>1, <1>4, <2>1 DEF NextHour, sessionVars, AdminSessionsTypeOK
<1> QED
  BY <1>2, <1>3, <1>4, ClaimKeeps, GetKeeps, StartKeeps DEF AdminSessionsNext, Serves

\* No logout, no new credential and no renewal leaves the cache with a session
\* that outlives its row, and nobody but the holder of the stored credential
\* gets a session, however a start that replaces it is cut short, for any number
\* of browsers, sessions and racing requests.
THEOREM AdminSessionsAreSound == AdminSessionsSpec => []AdminSessionsHold
<1>1. AdminInv => AdminSessionsHold
  BY DEF AdminInv, AdminSessionsHold, CacheNeverOutlivesRow, SessionsOfTheOperator, Honoured,
     Claimed
<1> QED
  BY <1>1, AdminInit, AdminInvariant, PTL DEF AdminSessionsSpec

-----------------------------------------------------------------------------
(* The sessions of a hosted instance.                                       *)

Acceptable(s) == s \in Customers => accepted

\* An expiry that the row honours and the state of the account allows, or its
\* revocation is still under way.
Kept(s, exp) ==
  /\ Acceptable(s) \/ BeingRevokedNow(s)
  /\ tick < exp => (hostedRow[s] # NoRow /\ exp <= hostedRow[s]) \/ BeingRevokedNow(s)

\* What a reader may have in hand, unless a revocation has overtaken it.
Held(r) ==
  /\ reader[r].step # "idle" =>
       reader[r].sess \in AllSessions /\ reader[r].rev <= hostedRev[Store(reader[r].sess)]
  /\ reader[r].now <= tick
  /\ reader[r].step \in {"renewHit", "renew"} =>
       reader[r].exp # NoRow /\ HalfGone(reader[r].exp, reader[r].now)
  /\ /\ reader[r].step \in {"renewHit", "renew", "check", "publish"}
     /\ reader[r].rev = hostedRev[Store(reader[r].sess)]
     => reader[r].exp # NoRow /\ Kept(reader[r].sess, reader[r].exp)

CacheKept == \A s \in AllSessions : hostedCache[s] # NoRow => Kept(s, hostedCache[s])

HostedInv == HostedSessionsTypeOK /\ CacheKept /\ \A r \in Readers : Held(r)

ReaderStates == [step : ReaderSteps, sess : AllSessions \cup {NoRow}, now : 0..LastTick,
                 rev : 0..MaxHostedRev, exp : SessionExpiries]

LEMMA ExpiryTypes ==
  /\ SessionExpiries \subseteq Nat \cup {NoRow} /\ NoRow \in SessionExpiries /\ NoRow \notin Nat
  /\ \A n \in 0..LastTick : n + HostedTTL \in SessionExpiries /\ n + HostedTTL \in Nat
  /\ \A s \in AllSessions : Store(s) \in {"user", "platform"}
  BY HostedSessionsAssumption DEF HostedSessionsAssumption, SessionExpiries, Store

LEMMA HostedInit == HostedSessionsInit => HostedInv
<1> SUFFICES ASSUME HostedSessionsInit PROVE HostedInv
  OBVIOUS
<1> USE HostedSessionsAssumption, ExpiryTypes DEF HostedSessionsAssumption, HostedSessionsInit, NoReader
<1>1. HostedSessionsTypeOK
  BY DEF HostedSessionsTypeOK, ReaderSteps
<1>2. \A r \in Readers : Held(r)
  BY DEF Held
<1>3. CacheKept
  BY DEF CacheKept
<1> QED
  BY <1>1, <1>2, <1>3 DEF HostedInv

Undisturbed(s) ==
  /\ BeingRevokedNow(s) => BeingRevokedNow(s)'
  /\ Acceptable(s) => Acceptable(s)' \/ BeingRevokedNow(s)'
  /\ \/ hostedRow'[s] = hostedRow[s]
     \/ hostedRow[s] # NoRow /\ hostedRow[s] < tick
     \/ BeingRevokedNow(s)'
     \/ hostedRow'[s] \in Nat /\ hostedRow[s] <= hostedRow'[s]

\* What is kept stays so, as long as no row goes but one that has expired or
\* is being revoked, and no revocation ends.
LEMMA StillKept ==
  ASSUME HostedSessionsTypeOK, NEW s \in AllSessions, NEW exp \in SessionExpiries \ {NoRow},
         Kept(s, exp), tick' \in Nat, tick <= tick',
         Undisturbed(s)
  PROVE  Kept(s, exp)'
<1>1. exp \in Nat /\ tick \in Nat /\ NoRow \notin Nat /\ hostedRow[s] \in Nat \cup {NoRow}
  <2>1. LastTick \in Nat
    BY HostedSessionsAssumption DEF HostedSessionsAssumption
  <2>2. exp \in Nat /\ NoRow \notin Nat
    BY ExpiryTypes
  <2>3. tick \in 0..LastTick /\ hostedRow[s] \in SessionExpiries
    BY DEF HostedSessionsTypeOK
  <2>4. tick \in Nat
    BY <2>1, <2>3
  <2>5. hostedRow[s] \in Nat \cup {NoRow}
    BY <2>3, ExpiryTypes
  <2> QED
    BY <2>2, <2>4, <2>5
<1>2. SUFFICES ASSUME ~BeingRevokedNow(s)', tick' < exp
               PROVE  hostedRow'[s] # NoRow /\ exp <= hostedRow'[s]
  BY DEF Kept, Undisturbed
<1>3. hostedRow[s] # NoRow /\ exp <= hostedRow[s] /\ tick < exp
  BY <1>1, <1>2 DEF Kept, Undisturbed
<1>4. ~(hostedRow[s] < tick)
  BY <1>1, <1>3
<1>5. CASE hostedRow'[s] = hostedRow[s]
  BY <1>3, <1>5
<1>6. CASE hostedRow'[s] \in Nat /\ hostedRow[s] <= hostedRow'[s]
  BY <1>1, <1>3, <1>6
<1> QED
  BY <1>2, <1>4, <1>5, <1>6 DEF Undisturbed

\* The cache and the readers after a step that raises the revision of every
\* store it revokes from.
LEMMA RestKept ==
  ASSUME HostedInv, HostedSessionsTypeOK', tick <= tick',
         \A k \in {"user", "platform"} : hostedRev[k] <= hostedRev'[k],
         \A s \in AllSessions :
           \/ hostedRev[Store(s)] < hostedRev'[Store(s)]
           \/ Undisturbed(s)
           \/ \A q \in Readers : reader[q].sess # s,
         NEW r \in Readers, reader'[r] = reader[r]
  PROVE  Held(r)'
<1> DEFINE s == reader[r].sess
           exp == reader[r].exp
<1>1. /\ reader[r] \in ReaderStates /\ Held(r) /\ tick \in Nat /\ tick' \in Nat
      /\ \A k \in {"user", "platform"} : hostedRev[k] \in Nat /\ hostedRev'[k] \in Nat
  BY HostedSessionsAssumption DEF HostedSessionsAssumption, HostedInv, HostedSessionsTypeOK,
     ReaderStates
<1>2. reader[r].now \in Nat /\ reader[r].rev \in Nat /\ exp \in SessionExpiries
  BY <1>1, HostedSessionsAssumption DEF HostedSessionsAssumption, ReaderStates
<1>3. reader[r].now <= tick'
  BY <1>1, <1>2 DEF Held
<1>4. reader[r].step # "idle" => s \in AllSessions /\ reader[r].rev <= hostedRev'[Store(s)]
  BY <1>1, <1>2, ExpiryTypes DEF Held
<1>5. ASSUME reader[r].step \in {"renewHit", "renew", "check", "publish"},
             reader[r].rev = hostedRev'[Store(s)]
      PROVE  exp # NoRow /\ Kept(s, exp)'
  <2>1. s \in AllSessions /\ reader[r].rev <= hostedRev[Store(s)] /\ Store(s) \in {"user", "platform"}
    BY <1>1, <1>5, ExpiryTypes DEF Held
  <2>2. ~(hostedRev[Store(s)] < hostedRev'[Store(s)]) /\ reader[r].rev = hostedRev[Store(s)]
    BY <1>1, <1>2, <1>5, <2>1
  <2>3. exp # NoRow /\ Kept(s, exp)
    BY <1>1, <1>5, <2>2 DEF Held
  <2>4. PICK x \in AllSessions, e \in SessionExpiries \ {NoRow} : x = s /\ e = exp
    BY <1>2, <2>1, <2>3
  <2>5. Undisturbed(x)
    BY <2>2, <2>4
  <2>6. Kept(x, e)'
    <3>1. HostedSessionsTypeOK /\ Kept(x, e)
      BY <2>3, <2>4 DEF HostedInv
    <3> HIDE DEF s, exp
    <3> QED
      BY <1>1, <2>5, <3>1, StillKept
  <2>7. Kept(s, exp)'
    BY <2>4, <2>6
  <2> QED
    BY <2>3, <2>7
<1>6. UNCHANGED <<s, exp>> /\ reader'[r] = reader[r]
  OBVIOUS
<1> HIDE DEF s
<1> QED
  BY <1>1, <1>3, <1>4, <1>5, <1>6 DEF Held, HalfGone, s

LEMMA CacheStaysKept ==
  ASSUME HostedInv, HostedSessionsTypeOK', tick <= tick', NEW s \in AllSessions,
         hostedCache'[s] \in {hostedCache[s], NoRow}, hostedCache'[s] # NoRow => Undisturbed(s)
  PROVE  (hostedCache[s] # NoRow => Kept(s, hostedCache[s]))'
<1> SUFFICES ASSUME hostedCache'[s] # NoRow PROVE Kept(s, hostedCache[s])'
  OBVIOUS
<1>1. PICK e \in SessionExpiries \ {NoRow} : e = hostedCache[s]
  BY DEF HostedInv, HostedSessionsTypeOK
<1>2. Kept(s, e) /\ hostedCache'[s] = e
  BY <1>1 DEF HostedInv, CacheKept
<1>3. tick' \in Nat
  BY HostedSessionsAssumption DEF HostedSessionsAssumption, HostedSessionsTypeOK
<1>4. Kept(s, e)'
  BY <1>2, <1>3, StillKept DEF HostedInv
<1> QED
  BY <1>2, <1>4

\* A step that no reader takes.
LEMMA OutsideStep ==
  ASSUME HostedInv, HostedSessionsTypeOK', tick <= tick', UNCHANGED reader,
         \A k \in {"user", "platform"} : hostedRev[k] <= hostedRev'[k],
         \A s \in AllSessions : hostedCache'[s] \in {hostedCache[s], NoRow},
         \A s \in AllSessions :
           \/ Undisturbed(s)
           \/ /\ hostedCache'[s] = NoRow
              /\ \/ hostedRev[Store(s)] < hostedRev'[Store(s)]
                 \/ \A q \in Readers : reader[q].sess # s
  PROVE  HostedInv'
<1>1. CacheKept'
  BY CacheStaysKept DEF CacheKept
<1>2. \A r \in Readers : Held(r)'
  BY RestKept
<1> QED
  BY <1>1, <1>2 DEF HostedInv

LEMMA RevokeKeeps ==
  ASSUME HostedInv, NEW o \in Revokers,
         \/ DeleteHostedSession(o) \/ RevokeOtherSessions(o)
         \/ Suspend(o) \/ DeleteAccountSessions(o) \/ InvalidateCache(o)
  PROVE  HostedInv'
<1> USE ExpiryTypes DEF HostedInv
<1>0. tick <= tick /\ \A k \in {"user", "platform"} : hostedRev[k] <= hostedRev[k] /\ hostedRev[k] \in Nat
  BY HostedSessionsAssumption DEF HostedSessionsAssumption, HostedSessionsTypeOK
<1>1. ASSUME NEW sessions \in SUBSET AllSessions, DeleteRows(o, sessions) PROVE HostedInv'
  <2>1. HostedSessionsTypeOK'
    BY <1>1 DEF DeleteRows, BeginRevoke, HostedSessionsTypeOK
  <2>2. \A s \in AllSessions : BeingRevokedNow(s) => BeingRevokedNow(s)'
    BY <1>1 DEF DeleteRows, BeginRevoke, BeingRevokedNow, HostedSessionsTypeOK
  <2>3. \A s \in sessions : BeingRevokedNow(s)'
    BY <1>1 DEF DeleteRows, BeginRevoke, BeingRevokedNow, HostedSessionsTypeOK
  <2>4. \A s \in AllSessions : Undisturbed(s)
    BY <1>1, <2>2, <2>3 DEF DeleteRows, Undisturbed, Acceptable
  <2> QED
    BY <1>0, <1>1, <2>1, <2>4, OutsideStep DEF DeleteRows
<1>2. CASE DeleteHostedSession(o) \/ RevokeOtherSessions(o)
  <2>1. \A s \in AllSessions : {s} \in SUBSET AllSessions
    OBVIOUS
  <2>2. \A kept \in SUBSET Customers : Customers \ kept \in SUBSET AllSessions
    BY DEF AllSessions
  <2> QED
    BY <1>1, <1>2, <2>1, <2>2 DEF DeleteHostedSession, RevokeOtherSessions
<1>3. CASE Suspend(o)
  <2>1. HostedSessionsTypeOK'
    BY <1>3 DEF Suspend, BeginRevoke, HostedSessionsTypeOK, AllSessions
  <2>2. \A s \in AllSessions : BeingRevokedNow(s) => BeingRevokedNow(s)'
    BY <1>3 DEF Suspend, BeginRevoke, BeingRevokedNow, HostedSessionsTypeOK
  <2>3. \A s \in Customers : BeingRevokedNow(s)'
    BY <1>3 DEF Suspend, BeginRevoke, BeingRevokedNow, HostedSessionsTypeOK
  <2>4. \A s \in AllSessions : Undisturbed(s)
    BY <1>3, <2>2, <2>3 DEF Suspend, Undisturbed, Acceptable
  <2> QED
    BY <1>0, <1>3, <2>1, <2>4, OutsideStep DEF Suspend
<1>4. CASE DeleteAccountSessions(o)
  <2>1. HostedSessionsTypeOK'
    BY <1>4 DEF DeleteAccountSessions, HostedSessionsTypeOK
  <2>2. \A s \in Customers : BeingRevokedNow(s)'
    BY <1>4 DEF DeleteAccountSessions, BeingRevokedNow
  <2>3. \A s \in AllSessions : Undisturbed(s)
    BY <1>4, <2>2 DEF DeleteAccountSessions, Undisturbed, Acceptable, BeingRevokedNow
  <2> QED
    BY <1>0, <1>4, <2>1, <2>3, OutsideStep DEF DeleteAccountSessions
<1>5. CASE InvalidateCache(o)
  <2>1. \A k \in {"user", "platform"} :
          hostedRev'[k] = IF \E s \in revoker[o] : Store(s) = k THEN hostedRev[k] + 1 ELSE hostedRev[k]
    BY <1>5 DEF InvalidateCache
  <2>2. HostedSessionsTypeOK'
    <3>1. \A k \in {"user", "platform"} : hostedRev'[k] \in 0..MaxHostedRev
      BY <1>5, <2>1, HostedSessionsAssumption
         DEF HostedSessionsAssumption, InvalidateCache, HostedSessionsTypeOK
    <3>2. hostedRev' \in [{"user", "platform"} -> 0..MaxHostedRev]
      BY <1>5, <3>1 DEF InvalidateCache
    <3> QED
      BY <1>5, <3>2 DEF InvalidateCache, Drop, HostedSessionsTypeOK
  <2>3. revoker[o] \subseteq AllSessions
    BY DEF HostedSessionsTypeOK
  <2>4. \A k \in {"user", "platform"} : hostedRev[k] <= hostedRev'[k]
    BY <1>0, <2>1
  <2>5. ASSUME NEW s \in revoker[o]
        PROVE  hostedCache'[s] = NoRow /\ hostedRev[Store(s)] < hostedRev'[Store(s)]
    BY <1>0, <1>5, <2>1, <2>3 DEF InvalidateCache, Drop
  <2>6. ASSUME NEW s \in AllSessions, s \notin revoker[o]
        PROVE  Undisturbed(s) /\ hostedCache'[s] = hostedCache[s]
    <3>1. BeingRevokedNow(s) => BeingRevokedNow(s)'
      BY <1>5, <2>6 DEF InvalidateCache, BeingRevokedNow, HostedSessionsTypeOK
    <3> QED
      BY <1>5, <2>6, <3>1 DEF InvalidateCache, Drop, Undisturbed, Acceptable
  <2> QED
    BY <1>0, <1>5, <2>2, <2>4, <2>5, <2>6, OutsideStep DEF InvalidateCache
<1> QED
  BY <1>2, <1>3, <1>4, <1>5

LEMMA SurroundingsKeep ==
  ASSUME HostedInv,
         \/ \E s \in AllSessions : CreateSession(s)
         \/ InvalidatePlatformAll \/ Resume \/ SweepHosted \/ PruneExpiredHosted \/ Tick
         \/ UNCHANGED hostedVars
  PROVE  HostedInv'
<1> USE ExpiryTypes DEF HostedInv
<1>0. /\ tick \in Nat /\ tick <= tick
      /\ \A k \in {"user", "platform"} : hostedRev[k] <= hostedRev[k] /\ hostedRev[k] \in Nat
  BY HostedSessionsAssumption DEF HostedSessionsAssumption, HostedSessionsTypeOK
<1>1. ASSUME NEW s \in AllSessions, CreateSession(s) PROVE HostedInv'
  <2>1. HostedSessionsTypeOK'
    BY <1>1 DEF CreateSession, HostedSessionsTypeOK
  <2>2. \A t \in AllSessions \ {s} : Undisturbed(t)
    BY <1>1 DEF CreateSession, Undisturbed, Acceptable, BeingRevokedNow, HostedSessionsTypeOK
  <2> QED
    BY <1>0, <1>1, <2>1, <2>2, OutsideStep DEF CreateSession
<1>2. CASE InvalidatePlatformAll
  <2>1. \A k \in {"user", "platform"} : hostedRev'[k] = IF k = "platform" THEN hostedRev[k] + 1 ELSE hostedRev[k]
    BY <1>2 DEF InvalidatePlatformAll, HostedSessionsTypeOK
  <2>2. HostedSessionsTypeOK'
    <3>1. hostedRev["platform"] + 1 \in 0..MaxHostedRev
      BY <1>2, HostedSessionsAssumption
         DEF HostedSessionsAssumption, InvalidatePlatformAll, HostedSessionsTypeOK
    <3> QED
      BY <1>2, <3>1 DEF InvalidatePlatformAll, Drop, HostedSessionsTypeOK
  <2>3. \A k \in {"user", "platform"} : hostedRev[k] <= hostedRev'[k]
    BY <1>0, <2>1
  <2>4. ASSUME NEW s \in Operators
        PROVE  hostedCache'[s] = NoRow /\ hostedRev[Store(s)] < hostedRev'[Store(s)]
    <3>1. Store(s) = "platform" /\ s \in AllSessions
      BY HostedSessionsAssumption DEF HostedSessionsAssumption, Store, AllSessions
    <3> QED
      BY <1>0, <1>2, <2>1, <3>1 DEF InvalidatePlatformAll, Drop
  <2>5. ASSUME NEW s \in AllSessions, s \notin Operators
        PROVE  Undisturbed(s) /\ hostedCache'[s] = hostedCache[s]
    BY <1>2, <2>5 DEF InvalidatePlatformAll, Drop, Undisturbed, Acceptable, BeingRevokedNow
  <2> QED
    BY <1>0, <1>2, <2>2, <2>3, <2>4, <2>5, OutsideStep DEF InvalidatePlatformAll
<1>3. CASE Resume \/ SweepHosted \/ PruneExpiredHosted \/ Tick \/ UNCHANGED hostedVars
  <2>1. HostedSessionsTypeOK'
    <3>1. CASE Tick
      <4>1. tick' \in 0..LastTick
        BY <3>1, HostedSessionsAssumption DEF HostedSessionsAssumption, Tick, HostedSessionsTypeOK
      <4> QED
        BY <3>1, <4>1 DEF Tick, HostedSessionsTypeOK
    <3>2. CASE Resume \/ SweepHosted \/ PruneExpiredHosted \/ UNCHANGED hostedVars
      BY <3>2 DEF Resume, SweepHosted, PruneExpiredHosted, hostedVars, Drop, HostedSessionsTypeOK
    <3> QED
      BY <1>3, <3>1, <3>2
  <2>2. \A s \in AllSessions : Undisturbed(s) /\ hostedCache'[s] \in {hostedCache[s], NoRow}
    BY <1>3 DEF Resume, SweepHosted, PruneExpiredHosted, Tick, hostedVars, Drop, Undisturbed,
       Acceptable, BeingRevokedNow, HostedSessionsTypeOK
  <2>3. tick <= tick'
    BY <1>0, <1>3 DEF Resume, SweepHosted, PruneExpiredHosted, Tick, hostedVars
  <2>4. UNCHANGED <<hostedRev, reader>>
    BY <1>3 DEF Resume, SweepHosted, PruneExpiredHosted, Tick, hostedVars
  <2> QED
    BY <1>0, <2>1, <2>2, <2>3, <2>4, OutsideStep
<1> QED
  BY <1>1, <1>2, <1>3

LEMMA ReaderKeeps ==
  ASSUME HostedInv, NEW r \in Readers,
         \/ GetUserSession(r) \/ GetPlatformSession(r) \/ RenewSession(r) \/ LoadHostedSession(r)
         \/ CheckRevision(r) \/ PublishHostedSession(r) \/ EndRequest(r)
  PROVE  HostedInv'
<1> USE ExpiryTypes DEF HostedInv
<1>0. /\ tick \in Nat /\ tick <= tick /\ tick \in 0..LastTick /\ 0 \in 0..LastTick
      /\ \A n \in 0..LastTick : n \in Nat
      /\ \A k \in {"user", "platform"} : /\ hostedRev[k] <= hostedRev[k] /\ hostedRev[k] \in Nat
                                         /\ hostedRev[k] \in 0..MaxHostedRev
      /\ 0 \in 0..MaxHostedRev
      /\ \A n \in 0..MaxHostedRev : n \in Nat
  BY HostedSessionsAssumption DEF HostedSessionsAssumption, HostedSessionsTypeOK
<1>1. reader[r] \in ReaderStates
  BY DEF HostedSessionsTypeOK, ReaderStates
<1>2. UNCHANGED <<accepted, hostedRev, revoker, tick>>
  BY DEF GetUserSession, GetPlatformSession, PresentSession, RenewSession, LoadHostedSession,
     CheckRevision, PublishHostedSession, EndRequest
<1>3. \A s \in AllSessions : /\ BeingRevokedNow(s)' <=> BeingRevokedNow(s)
                             /\ Acceptable(s)' <=> Acceptable(s)
  BY <1>2 DEF BeingRevokedNow, Acceptable
<1>4. ASSUME NEW to \in ReaderStates, reader' = [reader EXCEPT ![r] = to],
             hostedRow' \in [AllSessions -> SessionExpiries],
             hostedCache' \in [AllSessions -> SessionExpiries],
             \A s \in AllSessions : \/ hostedRow'[s] = hostedRow[s]
                                    \/ hostedRow'[s] \in Nat /\ hostedRow[s] <= hostedRow'[s],
             \A s \in AllSessions : \/ hostedCache'[s] \in {hostedCache[s], NoRow}
                                    \/ Kept(s, hostedCache[s])',
             Held(r)'
      PROVE  HostedInv'
  <2>1. HostedSessionsTypeOK'
    BY <1>2, <1>4 DEF HostedSessionsTypeOK, ReaderStates
  <2>2. \A s \in AllSessions : Undisturbed(s)
    BY <1>3, <1>4 DEF Undisturbed
  <2>3. CacheKept'
    BY <1>0, <1>2, <1>4, <2>1, <2>2, CacheStaysKept DEF CacheKept
  <2>4. ASSUME NEW q \in Readers \ {r} PROVE Held(q)'
    <3>1. reader'[q] = reader[q]
      BY <1>4 DEF HostedSessionsTypeOK
    <3> QED
      BY <1>0, <1>2, <2>1, <2>2, <3>1, RestKept
  <2> QED
    BY <1>4, <2>1, <2>3, <2>4
<1>5. NoReader \in ReaderStates
  BY <1>0 DEF NoReader, ReaderStates, ReaderSteps
<1>6. ASSUME RefuseReader(r), UNCHANGED <<hostedRow, hostedCache>> PROVE HostedInv'
  <2>1. reader'[r] = NoReader
    BY <1>6 DEF RefuseReader, HostedSessionsTypeOK
  <2>2. Held(r)'
    BY <1>0, <1>2, <2>1 DEF Held, NoReader
  <2> QED
    BY <1>4, <1>5, <1>6, <2>2 DEF RefuseReader, HostedSessionsTypeOK
<1>7. ASSUME NEW step \in {"check", "publish", "reload", "in"}, ReaderAt(r, step),
             reader[r].step # "idle", UNCHANGED hostedRow,
             step \in {"check", "publish"} => reader[r].step \in {"renewHit", "renew", "check", "publish"},
             hostedCache' \in [AllSessions -> SessionExpiries],
             \A s \in AllSessions : \/ hostedCache'[s] \in {hostedCache[s], NoRow}
                                    \/ Kept(s, hostedCache[s])'
      PROVE  HostedInv'
  <2> DEFINE to == [reader[r] EXCEPT !.step = step]
  <2>1. /\ reader' = [reader EXCEPT ![r] = to] /\ to \in ReaderStates
        /\ reader'[r].step = step /\ reader'[r].sess = reader[r].sess
        /\ reader'[r].now = reader[r].now /\ reader'[r].rev = reader[r].rev
        /\ reader'[r].exp = reader[r].exp
    BY <1>1, <1>7 DEF ReaderAt, HostedSessionsTypeOK, ReaderStates, ReaderSteps
  <2> HIDE DEF to
  <2>2. Held(r)'
    <3>1. Held(r) /\ reader[r].sess \in AllSessions
      BY <1>7 DEF Held
    <3>2. ASSUME step \in {"check", "publish"}, reader[r].rev = hostedRev[Store(reader[r].sess)]
          PROVE  reader[r].exp # NoRow /\ Kept(reader[r].sess, reader[r].exp)'
      <4>1. reader[r].exp # NoRow /\ Kept(reader[r].sess, reader[r].exp)
        BY <1>7, <3>1, <3>2 DEF Held
      <4> QED
        BY <1>2, <1>7, <2>1, <4>1 DEF Kept, Acceptable, BeingRevokedNow
    <3> QED
      BY <1>2, <1>7, <2>1, <3>1, <3>2 DEF Held
  <2> QED
    BY <1>4, <1>7, <2>1, <2>2 DEF HostedSessionsTypeOK
<1>8. ASSUME NEW s \in AllSessions, PresentSession(r, s) PROVE HostedInv'
  <2> DEFINE state(step) == [step |-> step, sess |-> s, now |-> tick, rev |-> hostedRev[Store(s)],
                             exp |-> hostedCache[s]]
  <2>1. \A step \in ReaderSteps : state(step) \in ReaderStates
    BY <1>0 DEF ReaderStates, HostedSessionsTypeOK
  <2>2. hostedCache[s] \in SessionExpiries
    BY DEF HostedSessionsTypeOK
  <2>3. CASE InCache(s)
    <3>1. UNCHANGED <<hostedRow, hostedCache>> /\ hostedCache[s] # NoRow /\ Kept(s, hostedCache[s])
      BY <1>8, <2>3 DEF PresentSession, InCache, CacheKept
    <3>2. PICK step \in {"renewHit", "check"} :
            /\ reader' = [reader EXCEPT ![r] = state(step)]
            /\ step = "renewHit" => HalfGone(hostedCache[s], tick)
      BY <1>8, <2>3 DEF PresentSession
    <3>3. reader'[r] = state(step) /\ state(step) \in ReaderStates
      BY <2>1, <3>2 DEF HostedSessionsTypeOK, ReaderSteps
    <3>4. Kept(s, hostedCache[s])'
      BY <1>2, <3>1 DEF Kept, Acceptable, BeingRevokedNow
    <3>5. Held(r)'
      BY <1>0, <1>2, <3>1, <3>2, <3>3, <3>4 DEF Held, HalfGone
    <3> QED
      BY <1>4, <3>1, <3>2, <3>3, <3>5 DEF HostedSessionsTypeOK
  <2>4. CASE ~InCache(s)
    <3>1. UNCHANGED hostedRow /\ reader' = [reader EXCEPT ![r] = state("load")] /\ Drop({s})
      BY <1>8, <2>4 DEF PresentSession
    <3>2. reader'[r] = state("load") /\ state("load") \in ReaderStates
      BY <2>1, <3>1 DEF HostedSessionsTypeOK, ReaderSteps
    <3>3. Held(r)'
      BY <1>0, <1>2, <3>2 DEF Held
    <3> QED
      BY <1>4, <3>1, <3>2, <3>3 DEF HostedSessionsTypeOK, Drop
  <2> QED
    BY <2>3, <2>4
<1>9. CASE GetUserSession(r) \/ GetPlatformSession(r)
  BY <1>8, <1>9 DEF GetUserSession, GetPlatformSession, AllSessions
<1>10. ASSUME NEW s \in AllSessions, s = reader[r].sess,
              NEW step \in {"renew", "check", "publish"}, NEW exp \in SessionExpiries \ {NoRow},
              reader' = [reader EXCEPT ![r].exp = exp, ![r].step = step],
              reader[r].step # "idle", UNCHANGED hostedCache,
              hostedRow' \in [AllSessions -> SessionExpiries],
              \A t \in AllSessions : \/ hostedRow'[t] = hostedRow[t]
                                     \/ hostedRow'[t] \in Nat /\ hostedRow[t] <= hostedRow'[t],
              step = "renew" => HalfGone(exp, reader[r].now),
              reader[r].rev = hostedRev[Store(s)] => Kept(s, exp)'
       PROVE  HostedInv'
  <2> DEFINE to == [reader[r] EXCEPT !.exp = exp, !.step = step]
  <2>1. /\ reader' = [reader EXCEPT ![r] = to] /\ to \in ReaderStates
        /\ reader'[r].step = step /\ reader'[r].sess = reader[r].sess
        /\ reader'[r].now = reader[r].now /\ reader'[r].rev = reader[r].rev
        /\ reader'[r].exp = exp
    BY <1>1, <1>10 DEF HostedSessionsTypeOK, ReaderStates, ReaderSteps
  <2> HIDE DEF to
  <2>2. Held(r) /\ reader[r].sess \in AllSessions
    BY <1>10 DEF Held
  <2>3. Held(r)'
    BY <1>2, <1>10, <2>1, <2>2 DEF Held, HalfGone
  <2> QED
    BY <1>4, <1>10, <2>1, <2>3 DEF HostedSessionsTypeOK
<1>11. CASE LoadHostedSession(r)
  <2>0. PICK s \in AllSessions : s = reader[r].sess
    BY <1>11 DEF LoadHostedSession, Held
  <2>1. CASE RefuseReader(r)
    BY <1>6, <1>11, <2>1 DEF LoadHostedSession
  <2>2. CASE ~RefuseReader(r)
    <3> DEFINE ok == /\ hostedRow[s] # NoRow /\ reader[r].now < hostedRow[s]
                     /\ s \in Customers => accepted
               next == IF reader[r].step = "load" /\ HalfGone(hostedRow[s], reader[r].now)
                       THEN "renew" ELSE "publish"
    <3>1. /\ ok /\ reader' = [reader EXCEPT ![r].step = next, ![r].exp = hostedRow[s]]
          /\ UNCHANGED <<hostedRow, hostedCache>> /\ reader[r].step # "idle"
      BY <1>11, <2>0, <2>2 DEF LoadHostedSession
    <3>2. PICK exp \in SessionExpiries \ {NoRow} : exp = hostedRow[s]
      BY <3>1 DEF HostedSessionsTypeOK
    <3>3. PICK step \in {"renew", "publish"} : step = next
      OBVIOUS
    <3>4. exp \in Nat /\ exp <= exp
      <4>1. exp \in Nat
        OBVIOUS
      <4> QED
        BY <4>1
    <3>5. Kept(s, exp)'
      BY <1>2, <3>1, <3>2, <3>4 DEF Kept, Acceptable
    <3>6. reader' = [reader EXCEPT ![r].exp = exp, ![r].step = step]
      BY <3>1, <3>2, <3>3 DEF HostedSessionsTypeOK
    <3>7. step = "renew" => HalfGone(exp, reader[r].now)
      BY <3>2, <3>3
    <3> HIDE DEF ok, next
    <3> QED
      BY <1>10, <2>0, <3>1, <3>5, <3>6, <3>7 DEF HostedSessionsTypeOK
  <2> QED
    BY <2>1, <2>2
<1>12. CASE RenewSession(r)
  <2>0. PICK s \in AllSessions : s = reader[r].sess
    BY <1>12 DEF RenewSession, Held
  <2>1. reader[r].now \in 0..LastTick /\ reader[r].now \in Nat
    BY <1>0, <1>1 DEF ReaderStates
  <2>2. PICK next \in SessionExpiries \cap Nat : next = reader[r].now + HostedTTL
    BY <2>1
  <2>3. CASE RefuseReader(r) /\ UNCHANGED hostedRow
    BY <1>6, <1>12, <2>3 DEF RenewSession
  <2>4. CASE ReaderAt(r, "reload") /\ UNCHANGED hostedRow
    BY <1>7, <1>12, <2>4 DEF RenewSession, HostedSessionsTypeOK
  <2>5. CASE /\ hostedRow[s] = reader[r].exp
             /\ hostedRow' = [hostedRow EXCEPT ![s] = next]
             /\ reader' = [reader EXCEPT ![r].exp = next,
                                         ![r].step = IF @ = "renewHit" THEN "check" ELSE "publish"]
    <3>1. /\ reader[r].step \in {"renewHit", "renew"} /\ UNCHANGED hostedCache
          /\ reader[r].exp # NoRow /\ reader[r].exp \in Nat
          /\ 2 * (reader[r].exp - reader[r].now) < HostedTTL
      BY <1>1, <1>12 DEF RenewSession, Held, HalfGone, ReaderStates
    <3>2. reader[r].exp <= next /\ HostedTTL \in Nat
      BY <2>1, <2>2, <3>1, HostedSessionsAssumption DEF HostedSessionsAssumption
    <3>3. PICK step \in {"check", "publish"} :
            step = IF reader[r].step = "renewHit" THEN "check" ELSE "publish"
      OBVIOUS
    <3>4. reader' = [reader EXCEPT ![r].exp = next, ![r].step = step]
      BY <2>5, <3>3 DEF HostedSessionsTypeOK
    <3>5. \A t \in AllSessions : \/ hostedRow'[t] = hostedRow[t]
                                 \/ hostedRow'[t] \in Nat /\ hostedRow[t] <= hostedRow'[t]
      BY <2>5, <3>2 DEF HostedSessionsTypeOK
    <3>6. hostedRow'[s] = next /\ next <= next
      BY <2>5 DEF HostedSessionsTypeOK
    <3>7. reader[r].rev = hostedRev[Store(s)] => Kept(s, next)'
      BY <1>2, <1>3, <2>0, <3>1, <3>6 DEF Kept, Held
    <3>8. hostedRow' \in [AllSessions -> SessionExpiries]
      BY <2>5 DEF HostedSessionsTypeOK
    <3> QED
      BY <1>10, <2>0, <3>1, <3>4, <3>5, <3>7, <3>8
  <2> QED
    BY <1>12, <2>0, <2>2, <2>3, <2>4, <2>5 DEF RenewSession
<1>13. CASE CheckRevision(r)
  BY <1>6, <1>7, <1>13 DEF CheckRevision, HostedSessionsTypeOK
<1>14. CASE PublishHostedSession(r)
  <2>0. PICK s \in AllSessions : s = reader[r].sess
    BY <1>14 DEF PublishHostedSession, Held
  <2>1. CASE hostedRev[Store(s)] = reader[r].rev
    <3>1. PICK e \in SessionExpiries \ {NoRow} : e = LaterOf(reader[r].exp, s)
      BY <1>1, <1>14, <2>0, <2>1 DEF LaterOf, PublishHostedSession, Held, ReaderStates,
         HostedSessionsTypeOK
    <3>2. hostedCache' = [hostedCache EXCEPT ![s] = e] /\ ReaderAt(r, "in") /\ UNCHANGED hostedRow
      BY <1>14, <2>0, <2>1, <3>1 DEF PublishHostedSession
    <3>3. Kept(s, e)
      BY <1>14, <2>0, <2>1, <3>1 DEF LaterOf, PublishHostedSession, Held, CacheKept
    <3>4. Kept(s, e)' /\ hostedCache'[s] = e
      BY <1>2, <1>3, <3>2, <3>3 DEF Kept, HostedSessionsTypeOK
    <3>5. \A t \in AllSessions : \/ hostedCache'[t] \in {hostedCache[t], NoRow}
                                 \/ Kept(t, hostedCache[t])'
      <4>1. Kept(s, hostedCache[s])'
        BY <3>4
      <4> QED
        BY <3>2, <4>1 DEF HostedSessionsTypeOK
    <3> QED
      BY <1>7, <1>14, <3>2, <3>5 DEF PublishHostedSession, HostedSessionsTypeOK
  <2>2. CASE hostedRev[Store(s)] # reader[r].rev
    BY <1>6, <1>14, <2>0, <2>2 DEF PublishHostedSession
  <2> QED
    BY <2>1, <2>2
<1> QED
  BY <1>6, <1>9, <1>11, <1>12, <1>13, <1>14 DEF EndRequest

\* What a cache serves, the database has and accepts, or its revocation has not
\* returned yet: for any number of sessions, readers and revocations, which
\* delete the rows before they invalidate the cache.
THEOREM HostedSessionsAreSound == HostedSessionsSpec => []HostedSessionsHold
<1>1. HostedInv => HostedSessionsHold
  BY DEF HostedInv, HostedSessionsHold, HostedCacheIsRevoked, CacheKept, Kept, InCache, Acceptable
<1>2. HostedInv /\ [HostedSessionsNext]_hostedVars => HostedInv'
  BY RevokeKeeps, SurroundingsKeep, ReaderKeeps DEF HostedSessionsNext
<1> QED
  BY <1>1, <1>2, HostedInit, PTL DEF HostedSessionsSpec

-----------------------------------------------------------------------------
(* The hosted identity.                                                     *)

UserRows ==
  [verified : BOOLEAN, password : Passwords, enabled : BOOLEAN, google : BOOLEAN,
   passkeys : SUBSET Passkeys, gen : Generations, address : 0..LastToken,
   account : {"pending", "active", "suspended", "deleting", "gone"}]

\* What an operation has read is still good for what it will do with it: a
\* password is left when Google is unlinked, a login of this generation typed the
\* password of now, and a link that is still there is the one that was opened.
VisitOK(x) ==
  /\ x.step = "unlink" => user.password # 0 \/ ~Exists
  /\ x.step = "requestChange" => user.verified \/ ~Exists
  /\ x.step \in {"typed", "opening"} /\ Exists => x.gen <= user.gen
  /\ x.step = "opening" /\ Exists /\ x.gen = user.gen => x.password \in {0, user.password}
  /\ x.step = "confirmChange" =>
       /\ x.id # 0 /\ x.id <= issued
       /\ link["change"].id = x.id => link["change"].password = x.password

\* The steps that rely on nothing they have read.
Quiet == VisitSteps \ {"unlink", "requestChange", "typed", "opening", "confirmChange"}

\* The row and the links that go with it.
UserOK ==
  /\ NeverLockedOut
  /\ ~Exists => /\ ~user.verified /\ ~user.google /\ user.passkeys = {}
                 /\ \A k \in Kinds : link[k].id = 0
  /\ ~user.verified => link["change"].id = 0 /\ \A s \in UserSessions : ~Live(s)
  /\ link["change"].id # 0 => link["change"].password = user.password
  /\ \A k \in Kinds : link[k].id <= issued

IdentityInv ==
  /\ IdentityTypeOK /\ UserOK /\ SessionsAreOfThisGeneration
  /\ \A v \in Visitors : VisitOK(visit[v])

\* What every step respects: a password changes with the generation and is never
\* unset, nothing is verified or deleted only for a while, and links have new numbers.
Progress ==
  /\ issued' >= issued
  /\ \/ link'["change"] = link["change"]
     \/ link'["change"].id = 0
     \/ link'["change"].id > issued
  /\ \/ ~Exists'
     \/ /\ Exists
        /\ user'.gen > user.gen \/ (user'.gen = user.gen /\ user'.password = user.password)
        /\ user.password # 0 => user'.password # 0
        /\ user.verified => user'.verified

LEMMA IdentityConstants ==
  /\ 0 \in Passwords /\ 0 \in Generations /\ 0 \in 0..LastToken /\ 1 \in 0..LastToken
  /\ NoLink \in LinkRows /\ NoSession \in SessionRows /\ NoVisit \in Visits
  /\ NewUser \in UserRows /\ NoVisit.step = "idle" /\ ~NoSession.live /\ NoLink.id = 0
  /\ \A x \in {"verify", "reset", "change"} : x \in Kinds
  BY IdentityAssumption
     DEF IdentityAssumption, Passwords, Generations, NoLink, LinkRows, NoSession, SessionRows,
         NoVisit, Visits, VisitSteps, NewUser, UserRows, Kinds

\* The numbers of an invariant state.
LEMMA IdentityNumbers ==
  ASSUME IdentityTypeOK
  PROVE  /\ user.gen \in Nat /\ user.password \in Nat /\ issued \in Nat
         /\ user \in UserRows /\ \A k \in Kinds : link[k].id \in Nat /\ link[k] \in LinkRows
         /\ \A x \in Visits : x.gen \in Nat /\ x.id \in Nat /\ x.step \in VisitSteps
         /\ \A v \in Visitors : visit[v] \in Visits
         /\ \A s \in UserSessions : userSession[s] \in SessionRows
<1>1. user \in UserRows /\ user.gen \in Generations /\ user.password \in Passwords
  BY DEF IdentityTypeOK, UserRows
<1>2. \A k \in Kinds : link[k] \in LinkRows /\ link[k].id \in 0..LastToken
  BY DEF IdentityTypeOK, LinkRows
<1>3. \A x \in Visits : x.gen \in Generations /\ x.id \in 0..LastToken /\ x.step \in VisitSteps
  BY DEF Visits
<1> QED
  BY <1>1, <1>2, <1>3, IdentityAssumption
     DEF IdentityAssumption, IdentityTypeOK, Generations, Passwords

\* What an operation has read stays good as long as every step makes progress.
LEMMA VisitStands ==
  ASSUME IdentityInv, IdentityTypeOK', Progress, NEW x \in Visits, VisitOK(x)
  PROVE  VisitOK(x)'
<1>1. /\ user.gen \in Nat /\ user.password \in Nat /\ issued \in Nat /\ x.gen \in Nat /\ x.id \in Nat
      /\ issued' \in Nat /\ user'.gen \in Nat
  <2>1. issued' \in 0..LastToken /\ user'.gen \in 0..LastGeneration
    BY DEF IdentityTypeOK, Generations
  <2> QED
    BY <2>1, IdentityNumbers, IdentityAssumption DEF IdentityInv, IdentityAssumption
<1>2. Exists' => Exists
  BY DEF Progress
<1>3. x.step = "unlink" => (user.password # 0 \/ ~Exists)'
  BY DEF Progress, VisitOK, Exists
<1>4. x.step = "requestChange" => (user.verified \/ ~Exists)'
  BY DEF Progress, VisitOK, Exists
<1>5. x.step \in {"typed", "opening"} /\ Exists' => x.gen <= user'.gen
  BY <1>1 DEF Progress, VisitOK
<1>6. x.step = "opening" /\ Exists' /\ x.gen = user'.gen => x.password \in {0, user'.password}
  BY <1>1 DEF Progress, VisitOK
<1>7. x.step = "confirmChange" =>
        /\ x.id # 0 /\ x.id <= issued'
        /\ link'["change"].id = x.id => link'["change"].password = x.password
  BY <1>1 DEF Progress, VisitOK
<1> QED
  BY <1>3, <1>4, <1>5, <1>6, <1>7 DEF VisitOK

\* A step after which the operations are where they were or rely on nothing.
LEMMA Assembled ==
  ASSUME IdentityInv, IdentityTypeOK', Progress, UserOK', SessionsAreOfThisGeneration',
         \A v \in Visitors : visit'[v] = visit[v] \/ visit'[v].step \in Quiet
  PROVE  IdentityInv'
<1>1. ASSUME NEW v \in Visitors PROVE VisitOK(visit[v])'
  <2>1. CASE visit'[v].step \in Quiet
    BY <2>1 DEF VisitOK, Quiet
  <2>2. CASE visit'[v] = visit[v]
    <3>1. PICK x \in Visits : x = visit[v]
      BY IdentityNumbers DEF IdentityInv
    <3>2. VisitOK(x)'
      BY <3>1, VisitStands DEF IdentityInv
    <3> QED
      BY <2>2, <3>1, <3>2 DEF VisitOK
  <2> QED
    BY <1>1, <2>1, <2>2
<1> QED
  BY <1>1 DEF IdentityInv

\* A step of one operation and nothing else.
LEMMA OnlyReads ==
  ASSUME IdentityInv, NEW v \in Visitors, NEW to \in Visits,
         visit' = [visit EXCEPT ![v] = to], VisitOK(to),
         visit[v].step \notin {"linked", "unlinked"}, methodsMu' \subseteq Visitors,
         UNCHANGED <<user, link, issued, userSession, unrevoked>>
  PROVE  IdentityInv'
<1>1. IdentityTypeOK'
  BY DEF IdentityInv, IdentityTypeOK
<1>2. visit'[v] = to /\ \A w \in Visitors \ {v} : visit'[w] = visit[w]
  BY DEF IdentityInv, IdentityTypeOK
<1>3. UserOK'
  BY DEF IdentityInv, UserOK, NeverLockedOut, Exists, Live
<1>4. SessionsAreOfThisGeneration'
  BY <1>2 DEF IdentityInv, SessionsAreOfThisGeneration, Live
<1>5. \A x : VisitOK(x) => VisitOK(x)'
  BY DEF VisitOK, Exists
<1>6. \A w \in Visitors : VisitOK(visit[w])'
  BY <1>2, <1>5 DEF IdentityInv, VisitOK, Exists
<1> QED
  BY <1>1, <1>3, <1>4, <1>6 DEF IdentityInv

\* Operations that begin, or look at what there is by now.
LEMMA ReadingKeeps ==
  ASSUME IdentityInv, NEW v \in Visitors,
         \/ \E p \in 1..user.password : TypePassword(v, p)
         \/ AuthenticatePassword(v) \/ FinishPasskeyLogin(v) \/ GoogleUserBySubject(v) \/ UserByID(v)
         \/ BeginIssueVerification(v) \/ BeginConsumeVerification(v)
         \/ BeginIssuePasswordReset(v) \/ ResetEligible(v) \/ BeginConsumeReset(v)
         \/ \E s \in UserSessions : BeginChangePassword(v, s) \/ BeginRequestEmailChange(v, s)
         \/ BeginConfirmEmailChange(v) \/ BeginLinkGoogle(v) \/ BeginUnlinkGoogle(v)
  PROVE  IdentityInv'
<1>1. /\ IdentityTypeOK /\ user.gen \in Generations /\ user.password \in Passwords
      /\ \A k \in Kinds : link[k] \in LinkRows
      /\ user.gen \in Nat /\ user.password \in Nat /\ issued \in Nat
      /\ visit[v] \in Visits /\ VisitOK(visit[v]) /\ methodsMu \subseteq Visitors
  BY IdentityNumbers DEF IdentityInv, UserRows, IdentityTypeOK
<1>2. ASSUME NEW to \in Visits, visit' = [visit EXCEPT ![v] = to], VisitOK(to),
             visit[v].step \notin {"linked", "unlinked"}, methodsMu' \subseteq Visitors,
             UNCHANGED <<user, link, issued, userSession, unrevoked>>
      PROVE  IdentityInv'
  BY <1>2, OnlyReads
\* Who begins, or goes on, with nothing to rely on.
<1>3. ASSUME NEW step \in Quiet, NEW g \in Generations, NEW i \in 0..LastToken, NEW kept \in SUBSET UserSessions
      PROVE  /\ [NoVisit EXCEPT !.step = step, !.gen = g] \in Visits
             /\ VisitOK([NoVisit EXCEPT !.step = step, !.gen = g])
             /\ [NoVisit EXCEPT !.step = step, !.id = i] \in Visits
             /\ VisitOK([NoVisit EXCEPT !.step = step, !.id = i])
             /\ [NoVisit EXCEPT !.step = step, !.keep = kept] \in Visits
             /\ VisitOK([NoVisit EXCEPT !.step = step, !.keep = kept])
             /\ [NoVisit EXCEPT !.step = step] \in Visits /\ VisitOK([NoVisit EXCEPT !.step = step])
  BY IdentityConstants DEF VisitOK, Quiet, Visits, NoVisit
<1>4. NoVisit \in Visits /\ VisitOK(NoVisit)
  BY IdentityConstants DEF VisitOK
<1>5. CASE \E p \in 1..user.password : TypePassword(v, p)
  <2>1. PICK p \in 1..user.password : TypePassword(v, p)
    BY <1>5
  <2> DEFINE to == [NoVisit EXCEPT !.step = "typed", !.gen = user.gen, !.password = p]
  <2>2. p \in Passwords
    BY <1>1, IdentityAssumption DEF IdentityAssumption, Passwords
  <2>3. to \in Visits
    BY <1>1, <2>2, IdentityConstants DEF Visits, VisitSteps, NoVisit
  <2>4. to.step = "typed" /\ to.gen = user.gen
    BY DEF NoVisit
  <2> HIDE DEF to
  <2>5. VisitOK(to)
    BY <1>1, <2>4 DEF VisitOK
  <2> QED
    BY <1>1, <1>2, <2>1, <2>3, <2>5 DEF TypePassword, Begin, At, to
<1>6. CASE AuthenticatePassword(v)
  <2>1. CASE user.enabled /\ user.password = visit[v].password
    <3> DEFINE to == [visit[v] EXCEPT !.step = "opening"]
    <3>1. /\ to \in Visits /\ to.step = "opening" /\ to.gen = visit[v].gen /\ to.password = user.password
          /\ visit' = [visit EXCEPT ![v] = to]
      BY <1>1, <1>6, <2>1 DEF AuthenticatePassword, Visits, VisitSteps
    <3> HIDE DEF to
    <3>2. VisitOK(to)
      BY <1>1, <1>6, <3>1 DEF VisitOK, AuthenticatePassword, At
    <3> QED
      BY <1>1, <1>2, <1>6, <3>1, <3>2 DEF AuthenticatePassword, At
  <2>2. CASE ~(user.enabled /\ user.password = visit[v].password)
    BY <1>1, <1>2, <1>4, <1>6, <2>2 DEF AuthenticatePassword, At, Finish
  <2> QED
    BY <2>1, <2>2
<1>7. ASSUME visit' = [visit EXCEPT ![v] = [NoVisit EXCEPT !.step = "opening", !.gen = user.gen]],
             visit[v].step \in {"idle", "reread"},
             UNCHANGED <<user, link, issued, userSession, methodsMu, unrevoked>>
      PROVE  IdentityInv'
  <2> DEFINE to == [NoVisit EXCEPT !.step = "opening", !.gen = user.gen]
  <2>1. to \in Visits
    BY <1>1, IdentityConstants DEF Visits, VisitSteps, NoVisit
  <2>2. to.step = "opening" /\ to.gen = user.gen /\ to.password = 0
    BY DEF NoVisit
  <2> HIDE DEF to
  <2>3. VisitOK(to)
    BY <1>1, <2>2 DEF VisitOK
  <2> QED
    BY <1>1, <1>2, <1>7, <2>1, <2>3 DEF to
<1>8. CASE FinishPasskeyLogin(v) \/ GoogleUserBySubject(v)
  BY <1>7, <1>8 DEF FinishPasskeyLogin, GoogleUserBySubject, Begin, At
<1>9. CASE UserByID(v)
  <2>1. CASE SignInAllowed
    BY <1>7, <1>9, <2>1 DEF UserByID, At
  <2>2. CASE ~SignInAllowed
    BY <1>1, <1>2, <1>4, <1>9, <2>2 DEF UserByID, At, Finish
  <2> QED
    BY <2>1, <2>2
<1>10. CASE BeginIssueVerification(v) \/ BeginIssuePasswordReset(v)
            \/ \E s \in UserSessions : BeginChangePassword(v, s)
  <2>1. {"issueVerify", "issueReset", "changePassword"} \subseteq Quiet /\ \A s \in UserSessions : {s} \in SUBSET UserSessions
    BY DEF Quiet, VisitSteps
  <2>2. CASE BeginIssueVerification(v)
    BY <1>1, <1>2, <1>3, <2>1, <2>2, IdentityConstants DEF BeginIssueVerification, Begin, At
  <2>3. CASE BeginIssuePasswordReset(v)
    BY <1>1, <1>2, <1>3, <2>1, <2>3, IdentityConstants DEF BeginIssuePasswordReset, Begin, At
  <2>4. CASE \E s \in UserSessions : BeginChangePassword(v, s)
    BY <1>1, <1>2, <1>3, <2>1, <2>4, IdentityConstants DEF BeginChangePassword, Begin, At
  <2> QED
    BY <1>10, <2>2, <2>3, <2>4
<1>11. CASE BeginConsumeVerification(v) \/ BeginConsumeReset(v)
  <2>1. {"consumeVerify", "consumeReset"} \subseteq Quiet
    BY DEF Quiet, VisitSteps
  <2>2. link["verify"].id \in 0..LastToken /\ link["reset"].id \in 0..LastToken
    BY <1>1 DEF LinkRows, Kinds
  <2>3. CASE BeginConsumeVerification(v)
    BY <1>1, <1>2, <1>3, <2>1, <2>2, <2>3, IdentityConstants DEF BeginConsumeVerification, Begin, At
  <2>4. CASE BeginConsumeReset(v)
    BY <1>1, <1>2, <1>3, <2>1, <2>2, <2>4, IdentityConstants DEF BeginConsumeReset, Begin, At
  <2> QED
    BY <1>11, <2>3, <2>4
<1>12. CASE ResetEligible(v)
  <2>1. CASE user.google
    BY <1>1, <1>2, <1>4, <1>12, <2>1 DEF ResetEligible, At, Finish
  <2>2. CASE ~user.google
    <3> DEFINE to == [visit[v] EXCEPT !.step = "resetEligible"]
    <3>1. to \in Visits /\ to.step = "resetEligible" /\ visit' = [visit EXCEPT ![v] = to]
      BY <1>1, <1>12, <2>2 DEF ResetEligible, Visits, VisitSteps
    <3> HIDE DEF to
    <3>2. VisitOK(to)
      BY <3>1 DEF VisitOK
    <3> QED
      BY <1>1, <1>2, <1>12, <3>1, <3>2 DEF ResetEligible, At
  <2> QED
    BY <2>1, <2>2
<1>13. CASE \E s \in UserSessions : BeginRequestEmailChange(v, s)
  <2>1. PICK s \in UserSessions : BeginRequestEmailChange(v, s)
    BY <1>13
  <2> DEFINE to == [NoVisit EXCEPT !.step = "requestChange", !.keep = {s}]
  <2>2. to \in Visits
    BY IdentityConstants DEF Visits, VisitSteps, NoVisit
  <2>3. to.step = "requestChange" /\ user.verified
    BY <2>1 DEF NoVisit, BeginRequestEmailChange, IdentityInv, UserOK
  <2> HIDE DEF to
  <2>4. VisitOK(to)
    BY <2>3 DEF VisitOK
  <2> QED
    BY <1>1, <1>2, <2>1, <2>2, <2>4 DEF BeginRequestEmailChange, Begin, At, to
<1>14. CASE BeginConfirmEmailChange(v)
  <2> DEFINE to == [NoVisit EXCEPT !.step = "confirmChange", !.id = link["change"].id,
                                   !.keep = link["change"].keep, !.password = link["change"].password]
  <2>1. link["change"] \in LinkRows /\ link["change"].id <= issued /\ link["change"].id # 0
    BY <1>1, <1>14, IdentityConstants DEF IdentityInv, UserOK, BeginConfirmEmailChange
  <2>2. to \in Visits
    BY <2>1, IdentityConstants DEF Visits, VisitSteps, NoVisit, LinkRows
  <2>3. /\ to.step = "confirmChange" /\ to.id = link["change"].id
        /\ to.password = link["change"].password
    BY DEF NoVisit
  <2> HIDE DEF to
  <2>4. VisitOK(to)
    BY <2>1, <2>3 DEF VisitOK
  <2> QED
    BY <1>1, <1>2, <1>14, <2>2, <2>4 DEF BeginConfirmEmailChange, Begin, At, to
<1>15. CASE BeginLinkGoogle(v)
  <2>1. "link" \in Quiet /\ {v} \subseteq Visitors
    BY DEF Quiet, VisitSteps
  <2> QED
    BY <1>1, <1>2, <1>3, <1>15, <2>1, IdentityConstants DEF BeginLinkGoogle, LockMethods, Begin, At
<1>16. CASE BeginUnlinkGoogle(v)
  <2> DEFINE to == [NoVisit EXCEPT !.step = "unlink"]
  <2>1. to \in Visits
    BY IdentityConstants DEF Visits, VisitSteps, NoVisit
  <2>2. to.step = "unlink" /\ user.password # 0
    BY <1>16 DEF NoVisit, BeginUnlinkGoogle
  <2> HIDE DEF to
  <2>3. VisitOK(to)
    BY <2>2 DEF VisitOK
  <2> QED
    BY <1>1, <1>2, <1>16, <2>1, <2>3 DEF BeginUnlinkGoogle, LockMethods, Begin, At, to
<1> QED
  BY <1>5, <1>6, <1>8, <1>9, <1>10, <1>11, <1>12, <1>13, <1>14, <1>15, <1>16

\* An operation that ends, or goes on with nothing to rely on.
LEMMA QuietVisit ==
  ASSUME IdentityTypeOK, NEW v \in Visitors, NEW to \in Visits, to.step \in Quiet,
         visit' = [visit EXCEPT ![v] = to]
  PROVE  /\ visit' \in [Visitors -> Visits] /\ visit'[v] = to
         /\ \A w \in Visitors \ {v} : visit'[w] = visit[w]
         /\ \A w \in Visitors : visit'[w] = visit[w] \/ visit'[w].step \in Quiet
  BY DEF IdentityTypeOK

LEMMA QuietSteps ==
  /\ NoVisit \in Visits /\ NoVisit.step \in Quiet /\ NoVisit.step \notin {"linked", "unlinked"}
  /\ \A step \in Quiet : /\ [NoVisit EXCEPT !.step = step] \in Visits
                         /\ [NoVisit EXCEPT !.step = step].step = step
  /\ {"reread", "invalidate", "linked", "unlinked", "revokeAccount", "idle"} \subseteq Quiet
  BY IdentityConstants DEF Visits, NoVisit, Quiet, VisitSteps

\* Sessions that come from a login of this generation, or go.
LEMMA SessionsKeep ==
  ASSUME IdentityInv, NEW s \in UserSessions,
         DeleteUserSession(s) \/ \E v \in Visitors : CreateUserSession(v, s)
  PROVE  IdentityInv'
<1> USE DEF IdentityInv
<1>1. UNCHANGED <<user, link, issued, methodsMu>>
  BY DEF DeleteUserSession, CreateUserSession
<1>2. Progress
  BY <1>1, IdentityNumbers DEF Progress, Exists
<1>3. CASE DeleteUserSession(s)
  <2>1. /\ userSession' \in [UserSessions -> SessionRows] /\ visit' = visit /\ unrevoked' = unrevoked \ {s}
        /\ \A t \in UserSessions : userSession'[t] = userSession[t] \/ (t = s /\ ~userSession'[t].live)
    BY <1>3, IdentityConstants DEF DeleteUserSession, IdentityTypeOK
  <2>2. IdentityTypeOK'
    BY <1>1, <2>1 DEF IdentityTypeOK
  <2>3. UserOK'
    BY <1>1, <2>1 DEF UserOK, NeverLockedOut, Exists, Live
  <2>4. ASSUME NEW t \in UserSessions, userSession'[t].live
        PROVE  t # s /\ userSession'[t] = userSession[t]
    BY <1>3, <2>4, IdentityConstants DEF DeleteUserSession, IdentityTypeOK
  <2>5. SessionsAreOfThisGeneration'
    BY <1>1, <2>1, <2>4 DEF SessionsAreOfThisGeneration, Live
  <2> QED
    BY <1>2, <2>1, <2>2, <2>3, <2>5, Assembled
<1>4. ASSUME NEW v \in Visitors, CreateUserSession(v, s) PROVE IdentityInv'
  <2>1. visit' = [visit EXCEPT ![v] = NoVisit] /\ visit[v].step = "opening" /\ UNCHANGED unrevoked
    BY <1>4 DEF CreateUserSession, Finish, At
  <2>2. /\ visit' \in [Visitors -> Visits]
        /\ \A w \in Visitors : visit'[w] = visit[w] \/ visit'[w].step \in Quiet
        /\ visit'[v] = NoVisit /\ \A w \in Visitors \ {v} : visit'[w] = visit[w]
    BY <2>1, QuietVisit, QuietSteps
  <2>3. CASE SignInAllowed /\ user.gen = visit[v].gen
    <3> DEFINE row == [live |-> TRUE, gen |-> user.gen, by |-> visit[v].password]
    <3>1. row \in SessionRows /\ row.gen = user.gen /\ row.by = visit[v].password
      BY IdentityNumbers DEF SessionRows, UserRows, Visits
    <3>2. userSession' = [userSession EXCEPT ![s] = row]
      BY <1>4, <2>3 DEF CreateUserSession
    <3>3. row.by \in {0, user.password} /\ user.verified
      BY <2>1, <2>3, <3>1 DEF VisitOK, SignInAllowed, Exists
    <3> HIDE DEF row
    <3>4. /\ userSession' \in [UserSessions -> SessionRows] /\ userSession'[s] = row
          /\ \A t \in UserSessions \ {s} : userSession'[t] = userSession[t]
      BY <3>1, <3>2 DEF IdentityTypeOK
    <3>5. IdentityTypeOK'
      BY <1>1, <2>1, <2>2, <3>4 DEF IdentityTypeOK
    <3>6. UserOK'
      BY <1>1, <3>3 DEF UserOK, NeverLockedOut, Exists, Live
    <3>7. SessionsAreOfThisGeneration'
      BY <1>1, <2>1, <2>2, <3>1, <3>3, <3>4 DEF SessionsAreOfThisGeneration, Live
    <3> QED
      BY <1>2, <2>2, <3>5, <3>6, <3>7, Assembled
  <2>4. CASE ~(SignInAllowed /\ user.gen = visit[v].gen)
    <3>1. UNCHANGED userSession
      BY <1>4, <2>4 DEF CreateUserSession
    <3>2. VisitOK(NoVisit)
      BY IdentityConstants DEF VisitOK
    <3> QED
      BY <1>1, <2>1, <3>1, <3>2, QuietSteps, OnlyReads DEF IdentityTypeOK
  <2> QED
    BY <2>3, <2>4
<1> QED
  BY <1>3, <1>4

\* Links that are sent, or pruned.
LEMMA LinksKeep ==
  ASSUME IdentityInv,
         \/ PruneExpiredTokens
         \/ \E v \in Visitors : IssueVerification(v) \/ IssuePasswordReset(v) \/ RequestEmailChange(v)
  PROVE  IdentityInv'
<1> USE IdentityNumbers DEF IdentityInv
<1>0. /\ UNCHANGED <<user, userSession, methodsMu, unrevoked>> /\ link \in [Kinds -> LinkRows]
      /\ issued \in Nat
  BY DEF PruneExpiredTokens, IssueVerification, IssuePasswordReset, RequestEmailChange, IdentityTypeOK
<1>1. ASSUME link' \in [Kinds -> LinkRows], issued' \in 0..LastToken, issued' >= issued,
             visit' \in [Visitors -> Visits],
             \A v \in Visitors : visit'[v] = visit[v] \/ visit'[v].step \in Quiet,
             \A v \in Visitors : visit[v].step \in {"linked", "unlinked"} => visit'[v] = visit[v],
             \A k \in Kinds : link'[k] = link[k] \/ link'[k].id = 0
                               \/ (link'[k].id > issued /\ link'[k].id = issued' /\ Exists),
             link'["change"] = link["change"] \/ link'["change"].id = 0
               \/ (user.verified /\ link'["change"].password = user.password)
      PROVE  IdentityInv'
  <2>1. IdentityTypeOK'
    BY <1>0, <1>1 DEF IdentityTypeOK
  <2>2. Progress
    BY <1>0, <1>1, IdentityConstants DEF Progress, Exists
  <2>3. \A k \in Kinds : link'[k].id <= issued'
    BY <1>0, <1>1 DEF UserOK
  <2>4. UserOK'
    BY <1>0, <1>1, <2>3, IdentityConstants DEF UserOK, NeverLockedOut, Exists, Live
  <2>5. SessionsAreOfThisGeneration'
    BY <1>0, <1>1 DEF SessionsAreOfThisGeneration, Live
  <2> QED
    BY <1>1, <2>1, <2>2, <2>4, <2>5, Assembled
<1>2. CASE PruneExpiredTokens
  <2>1. /\ UNCHANGED <<issued, visit>> /\ link' \in [Kinds -> LinkRows]
        /\ \A k \in Kinds : link'[k] = link[k] \/ link'[k].id = 0
    BY <1>0, <1>2, IdentityConstants DEF PruneExpiredTokens, DropLinks
  <2> QED
    BY <1>0, <1>1, <2>1, IdentityConstants DEF IdentityTypeOK
<1>3. ASSUME NEW v \in Visitors, visit[v].step \notin {"linked", "unlinked"}, Finish(v)
      PROVE  /\ visit' \in [Visitors -> Visits]
             /\ \A w \in Visitors : visit'[w] = visit[w] \/ visit'[w].step \in Quiet
             /\ \A w \in Visitors : visit[w].step \in {"linked", "unlinked"} => visit'[w] = visit[w]
  BY <1>3, QuietVisit, QuietSteps DEF Finish
<1>4. ASSUME NEW v \in Visitors, NEW kind \in Kinds, NEW new \in LinkRows, Exists,
             visit[v].step \notin {"linked", "unlinked"}, Finish(v), Issue(kind, new),
             kind = "change" => user.verified /\ new.password = user.password
      PROVE  IdentityInv'
  <2> DEFINE row == [new EXCEPT !.id = issued + 1]
  <2>1. /\ issued' \in 0..LastToken /\ issued' = issued + 1 /\ link' = [link EXCEPT ![kind] = row]
    BY <1>0, <1>4, IdentityAssumption DEF Issue, IdentityAssumption
  <2>2. row \in LinkRows /\ row.id = issued + 1 /\ row.password = new.password
    BY <1>4, <2>1 DEF LinkRows
  <2> HIDE DEF row
  <2>3. link' \in [Kinds -> LinkRows] /\ link'[kind] = row /\ \A k \in Kinds \ {kind} : link'[k] = link[k]
    BY <1>0, <2>1, <2>2
  <2>4. \A k \in Kinds : link'[k] = link[k] \/ (link'[k].id > issued /\ link'[k].id = issued')
    BY <1>0, <2>1, <2>2, <2>3
  <2> QED
    BY <1>0, <1>1, <1>3, <1>4, <2>1, <2>2, <2>3, <2>4, IdentityConstants
<1>5. ASSUME NEW v \in Visitors, visit[v].step \notin {"linked", "unlinked"}, Finish(v),
             UNCHANGED <<link, issued>>
      PROVE  IdentityInv'
  BY <1>0, <1>1, <1>3, <1>5 DEF IdentityTypeOK
<1>6. ASSUME NEW v \in Visitors, IssueVerification(v) PROVE IdentityInv'
  BY <1>4, <1>5, <1>6, IdentityConstants DEF IssueVerification, At
<1>7. ASSUME NEW v \in Visitors, IssuePasswordReset(v) PROVE IdentityInv'
  <2>1. visit[v].gen \in Generations
    BY DEF IdentityTypeOK, Visits
  <2>2. [NoLink EXCEPT !.gen = visit[v].gen] \in LinkRows
    BY <2>1, IdentityConstants DEF LinkRows
  <2> QED
    BY <1>4, <1>5, <1>7, <2>2, IdentityConstants DEF IssuePasswordReset, At
<1>8. ASSUME NEW v \in Visitors, RequestEmailChange(v) PROVE IdentityInv'
  <2> DEFINE new == [NoLink EXCEPT !.keep = visit[v].keep, !.password = user.password]
  <2>1. visit[v].keep \in SUBSET UserSessions /\ user.password \in Passwords
    BY DEF IdentityTypeOK, Visits
  <2>2. new \in LinkRows /\ new.password = user.password
    BY <2>1, IdentityConstants DEF LinkRows, NoLink
  <2>3. VisitOK(visit[v]) /\ visit[v].step = "requestChange"
    BY <1>8 DEF RequestEmailChange, At
  <2>4. Exists => user.verified
    BY <2>3 DEF VisitOK
  <2> HIDE DEF new
  <2> QED
    BY <1>4, <1>5, <1>8, <2>2, <2>3, <2>4, IdentityConstants DEF RequestEmailChange, new
<1> QED
  BY <1>2, <1>6, <1>7, <1>8

\* What KeepSessions leaves is of the generation that the transaction sets.
LEMMA KeptSessions ==
  ASSUME IdentityTypeOK, user'.gen \in Generations, NEW kept, KeepSessions(kept)
  PROVE  /\ userSession' \in [UserSessions -> SessionRows]
         /\ \A s \in UserSessions : userSession'[s].live =>
              s \in kept /\ Live(s) /\ userSession'[s].gen = user'.gen /\ userSession'[s].by = 0
<1> DEFINE row == [live |-> TRUE, gen |-> user'.gen, by |-> 0]
<1>1. row \in SessionRows
  BY IdentityConstants DEF SessionRows
<1>2. \A s \in UserSessions : userSession'[s] = IF s \in kept /\ Live(s) THEN row ELSE NoSession
  BY DEF KeepSessions
<1>3. userSession' \in [UserSessions -> SessionRows]
  BY <1>1, IdentityConstants DEF KeepSessions
<1>4. row.gen = user'.gen /\ row.by = 0
  OBVIOUS
<1> HIDE DEF row
<1> QED
  BY <1>2, <1>3, <1>4, IdentityConstants

\* InvalidateUser ends every session there is, or notes those it could not end.
LEMMA InvalidationKeeps ==
  ASSUME IdentityInv, NEW v \in Visitors,
         FinishInvalidate(v) \/ FinishLinkGoogle(v) \/ FinishUnlinkGoogle(v) \/ InvalidateAccount(v)
  PROVE  IdentityInv'
<1> USE DEF IdentityInv
<1>1. UNCHANGED <<user, link, issued>> /\ InvalidateUser /\ methodsMu' \subseteq Visitors
  BY DEF FinishInvalidate, FinishLinkGoogle, FinishUnlinkGoogle, InvalidateAccount, InvalidateUser, Unlock,
     IdentityTypeOK
<1>2. PICK to \in Visits : to.step \in Quiet /\ visit' = [visit EXCEPT ![v] = to]
  <2>1. "idle" \in Quiet /\ "reread" \in Quiet
    BY QuietSteps
  <2> QED
    BY <2>1, QuietSteps DEF FinishInvalidate, FinishLinkGoogle, FinishUnlinkGoogle, InvalidateAccount,
       Unlock, Finish
<1>3. /\ visit' \in [Visitors -> Visits]
      /\ \A w \in Visitors : visit'[w] = visit[w] \/ visit'[w].step \in Quiet
  BY <1>2, QuietVisit
<1>4. user'.gen \in Generations
  BY <1>1 DEF IdentityTypeOK
<1>5. /\ userSession' \in [UserSessions -> SessionRows] /\ unrevoked' \subseteq UserSessions
      /\ \A s \in UserSessions : userSession'[s].live => Live(s) /\ s \in unrevoked'
  <2>1. CASE KeepSessions({}) /\ unrevoked' = {}
    BY <1>4, <2>1, KeptSessions
  <2>2. CASE unrevoked' = {s \in UserSessions : Live(s)} /\ UNCHANGED userSession
    BY <2>2 DEF Live, IdentityTypeOK
  <2> QED
    BY <1>1, <2>1, <2>2 DEF InvalidateUser
<1>6. IdentityTypeOK'
  BY <1>1, <1>3, <1>5 DEF IdentityTypeOK
<1>7. Progress
  BY <1>1, IdentityNumbers DEF Progress, Exists
<1>8. UserOK'
  BY <1>1, <1>5 DEF UserOK, NeverLockedOut, Exists, Live
<1>9. SessionsAreOfThisGeneration'
  BY <1>5 DEF SessionsAreOfThisGeneration, Live
<1> QED
  BY <1>3, <1>6, <1>7, <1>8, <1>9, Assembled

\* Ways to sign in, and the status of the account.
LEMMA MethodsKeep ==
  ASSUME IdentityInv,
         \/ \E k \in Passkeys : AddPasskey(k) \/ DeletePasskey(k)
         \/ \E v \in Visitors : SetIdentityStatus(v)
  PROVE  IdentityInv'
<1> USE DEF IdentityInv
<1>1. /\ UNCHANGED <<link, issued, userSession, methodsMu, unrevoked>> /\ user \in UserRows
      /\ user.gen \in Nat
  BY IdentityNumbers DEF AddPasskey, DeletePasskey, SetIdentityStatus
<1>2. ASSUME NEW row \in UserRows, user' = row, row.gen = user.gen, row.password = user.password,
             row.verified = user.verified, row.enabled = user.enabled, row.google = user.google,
             row.account # "gone", Exists,
             user.passkeys # {} /\ ~user.enabled /\ ~user.google => row.passkeys # {},
             visit' \in [Visitors -> Visits],
             \A v \in Visitors : visit'[v] = visit[v] \/ visit'[v].step \in Quiet,
             \A v \in Visitors : visit[v].step \in {"linked", "unlinked"} => visit'[v] = visit[v]
      PROVE  IdentityInv'
  <2>1. IdentityTypeOK'
    BY <1>1, <1>2 DEF IdentityTypeOK, UserRows
  <2>2. Progress
    BY <1>1, <1>2, IdentityNumbers DEF Progress, Exists
  <2>3. UserOK'
    BY <1>1, <1>2 DEF UserOK, NeverLockedOut, Exists, Live
  <2>4. SessionsAreOfThisGeneration'
    BY <1>1, <1>2 DEF SessionsAreOfThisGeneration, Live
  <2> QED
    BY <1>2, <2>1, <2>2, <2>3, <2>4, Assembled
<1>3. ASSUME NEW k \in Passkeys, AddPasskey(k) PROVE IdentityInv'
  <2> DEFINE row == [user EXCEPT !.passkeys = @ \cup {k}]
  <2>1. /\ row \in UserRows /\ row.gen = user.gen /\ row.password = user.password
        /\ row.verified = user.verified /\ row.enabled = user.enabled /\ row.google = user.google
        /\ row.account = user.account /\ row.passkeys = user.passkeys \cup {k}
    BY <1>1, <1>3 DEF UserRows
  <2>2. user' = row /\ UNCHANGED visit /\ user.account = "active"
    BY <1>3 DEF AddPasskey, SignInAllowed
  <2> HIDE DEF row
  <2> QED
    BY <1>2, <2>1, <2>2 DEF Exists, IdentityTypeOK
<1>4. ASSUME NEW k \in Passkeys, DeletePasskey(k) PROVE IdentityInv'
  <2> DEFINE row == [user EXCEPT !.passkeys = @ \ {k}]
  <2>1. /\ row \in UserRows /\ row.gen = user.gen /\ row.password = user.password
        /\ row.verified = user.verified /\ row.enabled = user.enabled /\ row.google = user.google
        /\ row.account = user.account /\ row.passkeys = user.passkeys \ {k}
    BY <1>1 DEF UserRows
  <2>2. /\ user' = row /\ UNCHANGED visit /\ k \in user.passkeys
        /\ user.enabled \/ user.google \/ Cardinality(user.passkeys) > 1
    BY <1>4 DEF DeletePasskey
  <2> HIDE DEF row
  <2>3. row.passkeys = {} => user.enabled \/ user.google
    <3>1. row.passkeys = {} => user.passkeys = {k}
      BY <2>1, <2>2
    <3>2. Cardinality({k}) = 1
      BY FS_Singleton
    <3>3. row.passkeys = {} => Cardinality(user.passkeys) = 1
      BY <3>1, <3>2
    <3> QED
      BY <2>2, <3>3
  <2>4. user.passkeys # {} /\ UNCHANGED visit
    BY <2>2
  <2>5. Exists /\ row.account # "gone"
    BY <2>1, <2>4 DEF UserOK, Exists
  <2>6. visit \in [Visitors -> Visits]
    BY DEF IdentityTypeOK
  <2>7. \A v \in Visitors : visit'[v] = visit[v]
    BY <2>4
  <2>8. row \in UserRows /\ user' = row
    BY <2>1, <2>2
  <2> QED
    BY <1>2, <2>1, <2>3, <2>4, <2>5, <2>6, <2>7, <2>8
<1>5. ASSUME NEW v \in Visitors, SetIdentityStatus(v) PROVE IdentityInv'
  <2>1. PICK state \in {"active", "suspended", "deleting"} :
          /\ Exists /\ user' = [user EXCEPT !.account = state]
          /\ IF state = "active" THEN At(v, "idle") /\ UNCHANGED visit
             ELSE Begin(v, [NoVisit EXCEPT !.step = "revokeAccount"])
    BY <1>5 DEF SetIdentityStatus
  <2> DEFINE row == [user EXCEPT !.account = state]
  <2>2. /\ row \in UserRows /\ row.gen = user.gen /\ row.password = user.password
        /\ row.verified = user.verified /\ row.enabled = user.enabled /\ row.google = user.google
        /\ row.account = state /\ row.passkeys = user.passkeys
    BY <1>1 DEF UserRows
  <2>3. /\ visit' \in [Visitors -> Visits]
        /\ \A w \in Visitors : visit'[w] = visit[w] \/ visit'[w].step \in Quiet
        /\ \A w \in Visitors : visit[w].step \in {"linked", "unlinked"} => visit'[w] = visit[w]
    <3>1. CASE UNCHANGED visit
      BY <3>1 DEF IdentityTypeOK
    <3>2. CASE Begin(v, [NoVisit EXCEPT !.step = "revokeAccount"])
      <4>1. "revokeAccount" \in Quiet
        BY QuietSteps
      <4> QED
        BY <3>2, <4>1, QuietVisit, QuietSteps DEF Begin, At
    <3> QED
      BY <2>1, <3>1, <3>2
  <2> HIDE DEF row
  <2> QED
    BY <1>2, <2>1, <2>2, <2>3 DEF row
<1> QED
  BY <1>3, <1>4, <1>5

\* A transaction that raises the generation, with what it does to the rest.
LEMMA CredentialFrame ==
  ASSUME IdentityInv, Exists, user' \in UserRows, user'.gen = user.gen + 1, user'.account # "gone",
         user.password # 0 => user'.password # 0, user.verified => user'.verified,
         user'.verified => user'.enabled \/ user'.google \/ user'.passkeys # {},
         link' \in [Kinds -> LinkRows], \A k \in Kinds : link'[k] = link[k] \/ link'[k].id = 0,
         link'["change"].id = 0 \/ user'.password = user.password,
         userSession' \in [UserSessions -> SessionRows],
         \A s \in UserSessions : userSession'[s].live => Live(s),
         \/ \A s \in UserSessions : userSession'[s].live =>
              userSession'[s].gen = user'.gen /\ userSession'[s].by = 0
         \/ \E v \in Visitors : visit'[v].step \in {"linked", "unlinked"},
         visit' \in [Visitors -> Visits],
         \A v \in Visitors : visit'[v] = visit[v] \/ visit'[v].step \in Quiet,
         methodsMu' \subseteq Visitors, UNCHANGED <<issued, unrevoked>>
  PROVE  IdentityInv'
<1> USE DEF IdentityInv
<1>1. user.gen \in Nat /\ issued \in Nat
  BY IdentityNumbers
<1>2. IdentityTypeOK'
  BY DEF IdentityTypeOK, UserRows
<1>3. Progress
  BY <1>1, IdentityConstants DEF Progress, Exists
<1>4. UserOK'
  <2>1. NeverLockedOut'
    BY DEF NeverLockedOut
  <2>2. ~user'.verified => link'["change"].id = 0 /\ \A s \in UserSessions : ~userSession'[s].live
    BY IdentityConstants DEF UserOK
  <2>3. link'["change"].id # 0 => link'["change"].password = user'.password
    BY IdentityConstants DEF UserOK
  <2>4. \A k \in Kinds : link'[k].id <= issued'
    BY <1>1 DEF UserOK
  <2> QED
    BY <2>1, <2>2, <2>3, <2>4 DEF UserOK, Exists, Live
<1>5. SessionsAreOfThisGeneration'
  BY DEF SessionsAreOfThisGeneration, Live
<1> QED
  BY <1>2, <1>3, <1>4, <1>5, Assembled

\* The row that BumpTo writes.
LEMMA BumpedRow ==
  ASSUME IdentityTypeOK, NEW row \in UserRows, BumpTo(row)
  PROVE  /\ user' \in UserRows /\ user'.gen = user.gen + 1 /\ user'.gen \in Generations
         /\ user'.password = row.password /\ user'.verified = row.verified
         /\ user'.enabled = row.enabled /\ user'.google = row.google
         /\ user'.passkeys = row.passkeys /\ user'.account = row.account
         /\ user'.address = row.address
<1>1. user.gen + 1 \in Generations
  BY IdentityNumbers, IdentityAssumption DEF BumpTo, Generations, IdentityAssumption
<1> QED
  BY <1>1 DEF BumpTo, UserRows

LEMMA DroppedLinks ==
  ASSUME IdentityTypeOK, NEW kinds, DropLinks(kinds)
  PROVE  /\ link' \in [Kinds -> LinkRows] /\ \A k \in Kinds : link'[k] = link[k] \/ link'[k].id = 0
         /\ \A k \in Kinds \cap kinds : link'[k].id = 0
  BY IdentityConstants DEF DropLinks, IdentityTypeOK

\* The operations that change a credential.
LEMMA CredentialKeeps ==
  ASSUME IdentityInv,
         \/ \E v \in Visitors :
              \/ ConsumeVerification(v) \/ ConsumePasswordReset(v) \/ ChangePassword(v)
              \/ \E s \in UserSessions : RevokeAllUserSessions(v, s)
              \/ ConfirmEmailChange(v) \/ LinkGoogleIdentity(v) \/ UnlinkGoogleIdentity(v)
         \/ \E s \in UserSessions, on \in BOOLEAN : SetPasswordSignInEnabled(s, on)
  PROVE  IdentityInv'
<1>1. /\ IdentityTypeOK /\ UserOK /\ user \in UserRows /\ user.password \in Nat /\ user.gen \in Nat
      /\ link \in [Kinds -> LinkRows] /\ visit \in [Visitors -> Visits]
      /\ userSession \in [UserSessions -> SessionRows] /\ methodsMu \subseteq Visitors
  BY IdentityNumbers DEF IdentityInv, IdentityTypeOK
<1>2. \A k \in Kinds : link[k].id # 0 => Exists
  BY <1>1 DEF UserOK
<1>3. \A s \in UserSessions : Live(s) => Exists /\ user.verified
  BY <1>1 DEF UserOK
\* A transaction that found nothing to do.
<1>4. ASSUME NEW v \in Visitors, visit[v].step \notin {"linked", "unlinked"},
             visit' = [visit EXCEPT ![v] = NoVisit], methodsMu' \subseteq Visitors,
             UNCHANGED <<user, link, issued, userSession, unrevoked>>
      PROVE  IdentityInv'
  <2>1. VisitOK(NoVisit)
    BY IdentityConstants DEF VisitOK
  <2> QED
    BY <1>4, <2>1, QuietSteps, OnlyReads
<1>5. \A v \in Visitors : Finish(v) => visit' \in [Visitors -> Visits]
        /\ \A w \in Visitors : visit'[w] = visit[w] \/ visit'[w].step \in Quiet
  BY <1>1, QuietVisit, QuietSteps DEF Finish
<1>6. user.password < LastPassword => user.password + 1 \in Passwords
  BY <1>1, IdentityAssumption DEF IdentityAssumption, Passwords
<1>7. ASSUME NEW v \in Visitors, ConsumeVerification(v) PROVE IdentityInv'
  <2>1. CASE StillUnused(v, "verify") /\ ~user.verified
    <3> DEFINE row == [user EXCEPT !.verified = TRUE, !.password = @ + 1, !.enabled = TRUE,
                                   !.account = IF @ = "pending" THEN "active" ELSE @]
    <3>1. /\ BumpTo(row) /\ DropLinks({"verify"})
          /\ visit' = [visit EXCEPT ![v] = [NoVisit EXCEPT !.step = "reread"]]
          /\ UNCHANGED <<issued, userSession, methodsMu, unrevoked>> /\ user.password < LastPassword
      BY <1>7, <2>1 DEF ConsumeVerification
    <3>2. /\ row \in UserRows /\ row.password = user.password + 1 /\ row.verified /\ row.enabled
          /\ row.account = "gone" => user.account = "gone"
      BY <1>1, <1>6, <3>1 DEF UserRows
    <3> HIDE DEF row
    <3>3. Exists
      BY <1>2, <2>1, IdentityConstants DEF StillUnused
    <3>4. link'["change"].id = 0 /\ \A s \in UserSessions : ~userSession'[s].live
      BY <1>1, <2>1, <3>1, IdentityConstants, DroppedLinks DEF UserOK, Live
    <3>5. /\ visit' \in [Visitors -> Visits]
          /\ \A w \in Visitors : visit'[w] = visit[w] \/ visit'[w].step \in Quiet
      <4>1. "reread" \in Quiet
        BY QuietSteps
      <4> QED
        BY <1>1, <3>1, <4>1, QuietVisit, QuietSteps
    <3>6. user'.password # 0 /\ user'.account # "gone" /\ user'.verified /\ user'.enabled
      BY <1>1, <3>1, <3>2, <3>3, BumpedRow DEF Exists
    <3> QED
      BY <1>1, <3>1, <3>2, <3>3, <3>4, <3>5, <3>6, BumpedRow, DroppedLinks, CredentialFrame
  <2>2. CASE ~(StillUnused(v, "verify") /\ ~user.verified)
    BY <1>1, <1>4, <1>7, <2>2 DEF ConsumeVerification, At, Finish
  <2> QED
    BY <2>1, <2>2
<1>8. ASSUME NEW kept, Exists, BumpTo([user EXCEPT !.password = @ + 1, !.enabled = TRUE]),
             KeepSessions(kept), DropLinks({"reset", "change"}), user.password < LastPassword,
             visit' \in [Visitors -> Visits],
             \A w \in Visitors : visit'[w] = visit[w] \/ visit'[w].step \in Quiet,
             UNCHANGED <<issued, methodsMu, unrevoked>>
      PROVE  IdentityInv'
  <2> DEFINE row == [user EXCEPT !.password = @ + 1, !.enabled = TRUE]
  <2>1. BumpTo(row)
    BY <1>8
  <2>2. /\ row \in UserRows /\ row.password = user.password + 1 /\ row.enabled
        /\ row.verified = user.verified /\ row.account = user.account
    BY <1>1, <1>6, <1>8 DEF UserRows
  <2> HIDE DEF row
  <2>3. /\ user'.password # 0 /\ user'.account # "gone" /\ user'.verified = user.verified /\ user'.enabled
        /\ user' \in UserRows /\ user'.gen = user.gen + 1 /\ user'.gen \in Generations
    BY <1>1, <1>8, <2>1, <2>2, BumpedRow DEF Exists
  <2>4. link'["change"].id = 0
    BY <1>1, <1>8, IdentityConstants, DroppedLinks
  <2> QED
    BY <1>1, <1>8, <2>3, <2>4, KeptSessions, DroppedLinks, CredentialFrame
<1>9. ASSUME NEW v \in Visitors, ConsumePasswordReset(v) PROVE IdentityInv'
  <2>1. CASE StillUnused(v, "reset") /\ ~user.google
    <3>1. "invalidate" \in Quiet
      BY QuietSteps
    <3>2. /\ visit' \in [Visitors -> Visits]
          /\ \A w \in Visitors : visit'[w] = visit[w] \/ visit'[w].step \in Quiet
      BY <1>1, <1>9, <2>1, <3>1, QuietVisit, QuietSteps DEF ConsumePasswordReset
    <3> QED
      BY <1>2, <1>8, <1>9, <2>1, <3>2, IdentityConstants DEF ConsumePasswordReset, StillUnused
  <2>2. CASE ~(StillUnused(v, "reset") /\ ~user.google)
    BY <1>1, <1>4, <1>9, <2>2 DEF ConsumePasswordReset, At, Finish
  <2> QED
    BY <2>1, <2>2
<1>10. ASSUME NEW v \in Visitors, ChangePassword(v) PROVE IdentityInv'
  <2>1. CASE Exists
    BY <1>5, <1>8, <1>10, <2>1 DEF ChangePassword
  <2>2. CASE ~Exists
    BY <1>1, <1>4, <1>10, <2>2 DEF ChangePassword, At, Finish
  <2> QED
    BY <2>1, <2>2
<1>11. ASSUME NEW v \in Visitors, NEW s \in UserSessions, RevokeAllUserSessions(v, s) PROVE IdentityInv'
  <2>1. BumpTo(user) /\ KeepSessions({}) /\ DropLinks({"reset"}) /\ Exists
    BY <1>3, <1>11 DEF RevokeAllUserSessions
  <2>2. /\ user' \in UserRows /\ user'.gen = user.gen + 1 /\ user'.gen \in Generations
        /\ user'.password = user.password /\ user'.verified = user.verified
        /\ user'.enabled = user.enabled /\ user'.google = user.google
        /\ user'.passkeys = user.passkeys /\ user'.account = user.account
    BY <1>1, <2>1, BumpedRow
  <2>3. /\ visit' \in [Visitors -> Visits]
        /\ \A w \in Visitors : visit'[w] = visit[w] \/ visit'[w].step \in Quiet
    <3>1. "invalidate" \in Quiet
      BY QuietSteps
    <3> QED
      BY <1>1, <1>11, <3>1, QuietVisit, QuietSteps DEF RevokeAllUserSessions, Begin
  <2>4. UNCHANGED <<issued, methodsMu, unrevoked>>
    BY <1>11 DEF RevokeAllUserSessions
  <2>5. user'.verified => user'.enabled \/ user'.google \/ user'.passkeys # {}
    BY <1>1, <2>2 DEF UserOK, NeverLockedOut
  <2> QED
    BY <1>1, <2>1, <2>2, <2>3, <2>4, <2>5, KeptSessions, DroppedLinks, CredentialFrame DEF Exists
<1>12. ASSUME NEW v \in Visitors, ConfirmEmailChange(v) PROVE IdentityInv'
  <2>1. CASE StillUnused(v, "change")
    <3> DEFINE row == [user EXCEPT !.address = visit[v].id]
    <3>1. /\ BumpTo(row) /\ KeepSessions(visit[v].keep) /\ DropLinks({"reset", "change"}) /\ Finish(v)
          /\ UNCHANGED <<issued, methodsMu, unrevoked>>
      BY <1>12, <2>1 DEF ConfirmEmailChange
    <3>2. visit[v].id \in 0..LastToken
      BY <1>1 DEF Visits
    <3>3. /\ row \in UserRows /\ row.password = user.password /\ row.enabled = user.enabled
          /\ row.verified = user.verified /\ row.account = user.account
          /\ row.google = user.google /\ row.passkeys = user.passkeys
      BY <1>1, <3>2 DEF UserRows
    <3> HIDE DEF row
    <3>4. Exists
      BY <1>2, <2>1, IdentityConstants DEF StillUnused
    <3>5. /\ user' \in UserRows /\ user'.gen = user.gen + 1 /\ user'.gen \in Generations
          /\ user'.password = user.password /\ user'.verified = user.verified
          /\ user'.enabled = user.enabled /\ user'.google = user.google
          /\ user'.passkeys = user.passkeys /\ user'.account = user.account
      BY <1>1, <3>1, <3>3, BumpedRow
    <3>6. user'.verified => user'.enabled \/ user'.google \/ user'.passkeys # {}
      BY <1>1, <3>5 DEF UserOK, NeverLockedOut
    <3> QED
      BY <1>1, <1>5, <3>1, <3>4, <3>5, <3>6, KeptSessions, DroppedLinks, CredentialFrame DEF Exists
  <2>2. CASE ~StillUnused(v, "change")
    BY <1>1, <1>4, <1>12, <2>2 DEF ConfirmEmailChange, At, Finish
  <2> QED
    BY <2>1, <2>2
\* What LinkGoogleIdentity and UnlinkGoogleIdentity commit before they revoke.
<1>13. ASSUME NEW v \in Visitors, NEW row \in UserRows, BumpTo(row), NEW step \in {"linked", "unlinked"},
              visit' = [visit EXCEPT ![v].step = step], Exists,
              row.password = user.password, row.verified = user.verified, row.account = user.account,
              row.verified => row.enabled \/ row.google \/ row.passkeys # {},
              link' \in [Kinds -> LinkRows], \A k \in Kinds : link'[k] = link[k] \/ link'[k].id = 0,
              UNCHANGED <<issued, userSession, methodsMu, unrevoked>>
       PROVE  IdentityInv'
  <2>1. step \in Quiet /\ step \in VisitSteps
    BY QuietSteps DEF VisitSteps
  <2> DEFINE to == [visit[v] EXCEPT !.step = step]
  <2>2. to \in Visits /\ to.step = step /\ visit' = [visit EXCEPT ![v] = to]
    BY <1>1, <1>13, <2>1 DEF Visits
  <2> HIDE DEF to
  <2>3. /\ visit' \in [Visitors -> Visits] /\ visit'[v].step = step
        /\ \A w \in Visitors : visit'[w] = visit[w] \/ visit'[w].step \in Quiet
    BY <1>1, <2>1, <2>2, QuietVisit
  <2>4. /\ user' \in UserRows /\ user'.gen = user.gen + 1
        /\ user'.password = user.password /\ user'.verified = user.verified
        /\ user'.account = user.account
        /\ user'.verified => user'.enabled \/ user'.google \/ user'.passkeys # {}
    BY <1>1, <1>13, BumpedRow
  <2>5. \A s \in UserSessions : userSession'[s].live => Live(s)
    BY <1>13 DEF Live
  <2> QED
    BY <1>1, <1>13, <2>3, <2>4, <2>5, CredentialFrame DEF Exists
<1>14. ASSUME NEW v \in Visitors, LinkGoogleIdentity(v) PROVE IdentityInv'
  <2>1. CASE user.google \/ SignInAllowed
    <3> DEFINE row == [user EXCEPT !.google = TRUE, !.enabled = FALSE]
    <3>1. /\ BumpTo(row) /\ DropLinks({"reset"}) /\ visit' = [visit EXCEPT ![v].step = "linked"]
          /\ UNCHANGED <<issued, userSession, methodsMu, unrevoked>>
      BY <1>14, <2>1 DEF LinkGoogleIdentity
    <3>2. /\ row \in UserRows /\ row.password = user.password /\ row.verified = user.verified
          /\ row.account = user.account /\ row.google
      BY <1>1 DEF UserRows
    <3> HIDE DEF row
    <3>3. Exists
      BY <1>1, <2>1 DEF UserOK, SignInAllowed, Exists
    <3> QED
      BY <1>1, <1>13, <3>1, <3>2, <3>3, DroppedLinks
  <2>2. CASE ~(user.google \/ SignInAllowed)
    BY <1>1, <1>4, <1>14, <2>2 DEF LinkGoogleIdentity, At, Unlock, NoVisit
  <2> QED
    BY <2>1, <2>2
<1>15. ASSUME NEW v \in Visitors, UnlinkGoogleIdentity(v) PROVE IdentityInv'
  <2>1. CASE user.google
    <3> DEFINE row == [user EXCEPT !.google = FALSE, !.enabled = user.password # 0]
    <3>1. /\ BumpTo(row) /\ visit' = [visit EXCEPT ![v].step = "unlinked"]
          /\ UNCHANGED <<link, issued, userSession, methodsMu, unrevoked>> /\ visit[v].step = "unlink"
      BY <1>15, <2>1 DEF UnlinkGoogleIdentity, At
    <3>2. Exists
      BY <1>1, <2>1 DEF UserOK
    <3>3. VisitOK(visit[v])
      BY DEF IdentityInv
    <3>4. user.password # 0
      BY <3>1, <3>2, <3>3 DEF VisitOK
    <3>5. /\ row \in UserRows /\ row.password = user.password /\ row.verified = user.verified
          /\ row.account = user.account /\ row.enabled
      BY <1>1, <3>4 DEF UserRows
    <3> HIDE DEF row
    <3> QED
      BY <1>1, <1>13, <3>1, <3>2, <3>5
  <2>2. CASE ~user.google
    BY <1>1, <1>4, <1>15, <2>2 DEF UnlinkGoogleIdentity, At, Unlock, NoVisit
  <2> QED
    BY <2>1, <2>2
<1>16. ASSUME NEW s \in UserSessions, NEW on \in BOOLEAN, SetPasswordSignInEnabled(s, on)
       PROVE  IdentityInv'
  <2> DEFINE row == [user EXCEPT !.enabled = on]
  <2>1. /\ BumpTo(row) /\ KeepSessions({s}) /\ UNCHANGED <<link, issued, methodsMu, visit, unrevoked>>
        /\ IF on THEN ~user.google ELSE user.passkeys # {}
    BY <1>16 DEF SetPasswordSignInEnabled
  <2>2. /\ row \in UserRows /\ row.password = user.password /\ row.enabled = on
        /\ row.verified = user.verified /\ row.account = user.account
        /\ row.google = user.google /\ row.passkeys = user.passkeys
    BY <1>1 DEF UserRows
  <2> HIDE DEF row
  <2>3. /\ user' \in UserRows /\ user'.gen = user.gen + 1 /\ user'.gen \in Generations
        /\ user'.password = user.password /\ user'.verified = user.verified
        /\ user'.account = user.account
        /\ user'.enabled \/ user'.passkeys # {}
    BY <1>1, <2>1, <2>2, BumpedRow
  <2>4. Exists
    BY <1>3, <1>16 DEF SetPasswordSignInEnabled
  <2>5. \A k \in Kinds : link'[k] = link[k]
    BY <2>1
  <2>6. /\ visit' \in [Visitors -> Visits] /\ link' \in [Kinds -> LinkRows] /\ methodsMu' \subseteq Visitors
        /\ \A w \in Visitors : visit'[w] = visit[w]
    BY <1>1, <2>1
  <2> QED
    BY <1>1, <2>1, <2>3, <2>4, <2>5, <2>6, KeptSessions, CredentialFrame DEF Exists
<1> QED
  BY <1>7, <1>9, <1>10, <1>11, <1>12, <1>14, <1>15, <1>16

\* The end of the user: what an operation under way will commit finds no row.
LEMMA DeletionKeeps ==
  ASSUME IdentityInv, DeleteAccountIdentity
  PROVE  IdentityInv'
<1>1. /\ user' = [NewUser EXCEPT !.account = "gone"] /\ link' = [k \in Kinds |-> NoLink]
      /\ userSession' = [s \in UserSessions |-> NoSession] /\ unrevoked' = {}
      /\ UNCHANGED <<issued, methodsMu, visit>> /\ IdentityTypeOK /\ issued \in Nat
  BY IdentityNumbers DEF DeleteAccountIdentity, IdentityInv
<1>2. /\ user' \in UserRows /\ user'.account = "gone" /\ ~user'.verified /\ ~user'.google
      /\ user'.passkeys = {}
  BY <1>1, IdentityConstants DEF NewUser, UserRows
<1>3. \A s \in UserSessions : ~userSession'[s].live
  BY <1>1, IdentityConstants
<1>4. \A k \in Kinds : link'[k].id = 0
  BY <1>1, IdentityConstants
<1>5. IdentityTypeOK'
  BY <1>1, <1>2, IdentityConstants DEF IdentityTypeOK, UserRows
<1>6. Progress
  BY <1>1, <1>2, <1>4, IdentityConstants DEF Progress, Exists
<1>7. UserOK'
  BY <1>1, <1>2, <1>3, <1>4, IdentityConstants DEF UserOK, NeverLockedOut, Exists, Live
<1>8. SessionsAreOfThisGeneration'
  BY <1>3 DEF SessionsAreOfThisGeneration, Live
<1>9. \A v \in Visitors : visit'[v] = visit[v]
  BY <1>1
<1> QED
  BY <1>5, <1>6, <1>7, <1>8, <1>9, Assembled

LEMMA IdentityStart == IdentityInit => IdentityInv
<1> SUFFICES ASSUME IdentityInit PROVE IdentityInv
  OBVIOUS
<1>1. /\ userSession = [s \in UserSessions |-> NoSession] /\ methodsMu = {} /\ unrevoked = {}
      /\ visit = [v \in Visitors |-> NoVisit]
  BY DEF IdentityInit
<1>2. /\ user \in UserRows /\ user.account # "gone"
      /\ user.verified => user.google
      /\ link \in [Kinds -> LinkRows] /\ issued \in 0..LastToken
      /\ link["change"].id = 0 /\ \A k \in Kinds : link[k].id <= issued
  <2>1. CASE CreateSignup
    <3> DEFINE first == [NoLink EXCEPT !.id = 1]
    <3>1. first \in LinkRows /\ first.id = 1
      BY IdentityConstants DEF LinkRows, NoLink
    <3>2. user = NewUser /\ issued = 1 /\ link = [k \in Kinds |-> IF k = "verify" THEN first ELSE NoLink]
      BY <2>1 DEF CreateSignup
    <3> HIDE DEF first
    <3>3. link["change"].id = 0 /\ \A k \in Kinds : link[k].id \in {0, 1}
      BY <3>1, <3>2, IdentityConstants
    <3> QED
      BY <3>1, <3>2, <3>3, IdentityConstants DEF NewUser
  <2>2. CASE CreateGoogleSignup
    <3>1. /\ user = [NewUser EXCEPT !.verified = TRUE, !.google = TRUE, !.account = "active"]
          /\ link = [k \in Kinds |-> NoLink] /\ issued = 0
      BY <2>2 DEF CreateGoogleSignup
    <3>2. user \in UserRows /\ user.account # "gone" /\ user.google
      BY <3>1, IdentityConstants DEF NewUser, UserRows
    <3>3. link["change"].id = 0 /\ \A k \in Kinds : link[k].id = 0
      BY <3>1, IdentityConstants
    <3> QED
      BY <3>1, <3>2, <3>3, IdentityConstants
  <2> QED
    BY <2>1, <2>2 DEF IdentityInit
<1>3. IdentityTypeOK
  <2>1. userSession \in [UserSessions -> SessionRows] /\ visit \in [Visitors -> Visits]
    BY <1>1, IdentityConstants
  <2> QED
    BY <1>1, <1>2, <2>1 DEF IdentityTypeOK, UserRows
<1>4. UserOK
  <2>1. \A s \in UserSessions : ~userSession[s].live
    BY <1>1, IdentityConstants
  <2> QED
    BY <1>2, <2>1 DEF UserOK, NeverLockedOut, Exists, Live
<1>5. SessionsAreOfThisGeneration
  BY <1>1, IdentityConstants DEF SessionsAreOfThisGeneration, Live
<1>6. \A v \in Visitors : VisitOK(visit[v])
  BY <1>1, IdentityConstants DEF VisitOK
<1> QED
  BY <1>3, <1>4, <1>5, <1>6 DEF IdentityInv

LEMMA IdentityInvariance == IdentityInv /\ [IdentityNext]_identityVars => IdentityInv'
<1> SUFFICES ASSUME IdentityInv, [IdentityNext]_identityVars PROVE IdentityInv'
  OBVIOUS
<1>1. ASSUME NEW v \in Visitors, SignIn(v) \/ Recovery(v) \/ AccountChange(v) PROVE IdentityInv'
  <2>1. CASE SignIn(v)
    BY <2>1, ReadingKeeps, SessionsKeep DEF SignIn
  <2>2. CASE Recovery(v)
    BY <2>2, ReadingKeeps, LinksKeep, CredentialKeeps, InvalidationKeeps DEF Recovery
  <2>3. CASE AccountChange(v)
    BY <2>3, ReadingKeeps, LinksKeep, CredentialKeeps, InvalidationKeeps, MethodsKeep DEF AccountChange
  <2> QED
    BY <1>1, <2>1, <2>2, <2>3
<1>2. CASE \E k \in Passkeys : AddPasskey(k) \/ DeletePasskey(k)
  BY <1>2, MethodsKeep
<1>3. CASE \E s \in UserSessions :
             DeleteUserSession(s) \/ \E on \in BOOLEAN : SetPasswordSignInEnabled(s, on)
  BY <1>3, SessionsKeep, CredentialKeeps
<1>4. CASE DeleteAccountIdentity
  BY <1>4, DeletionKeeps
<1>5. CASE PruneExpiredTokens
  BY <1>5, LinksKeep
<1>6. CASE UNCHANGED identityVars
  BY <1>6 DEF identityVars, IdentityInv, IdentityTypeOK, UserOK, NeverLockedOut, Exists, Live,
     SessionsAreOfThisGeneration, VisitOK
<1> QED
  BY <1>1, <1>2, <1>3, <1>4, <1>5, <1>6 DEF IdentityNext

\* The address is written by one operation, and the deletion clears it.
LEMMA AddressChanges ==
  ASSUME IdentityInv, [IdentityNext]_identityVars
  PROVE  \/ user'.address = user.address
         \/ user'.account = "gone"
         \/ \E v \in Visitors : /\ visit[v].step = "confirmChange" /\ StillUnused(v, "change")
                                /\ user'.address = visit[v].id
<1> USE DEF SignInAllowed
<1>1. user \in UserRows
  BY IdentityNumbers DEF IdentityInv
<1>2. ASSUME NEW v \in Visitors, SignIn(v) PROVE UNCHANGED user
  BY <1>2 DEF SignIn, TypePassword, AuthenticatePassword, FinishPasskeyLogin, GoogleUserBySubject,
     UserByID, CreateUserSession
<1>3. ASSUME NEW row \in UserRows, BumpTo(row), row.address = user.address PROVE user'.address = user.address
  BY <1>3 DEF BumpTo, UserRows
<1>4. ASSUME NEW v \in Visitors, Recovery(v) PROVE user'.address = user.address
  <2>1. CASE ConsumeVerification(v) \/ ConsumePasswordReset(v)
    BY <1>1, <2>1 DEF ConsumeVerification, ConsumePasswordReset, BumpTo, UserRows
  <2>2. CASE ~(ConsumeVerification(v) \/ ConsumePasswordReset(v))
    BY <1>4, <2>2 DEF Recovery, BeginIssueVerification, IssueVerification, BeginConsumeVerification,
       BeginIssuePasswordReset, ResetEligible, IssuePasswordReset, BeginConsumeReset,
       FinishInvalidate, InvalidateUser
  <2> QED
    BY <2>1, <2>2
<1>5. ASSUME NEW v \in Visitors, AccountChange(v)
      PROVE  \/ user'.address = user.address
             \/ /\ visit[v].step = "confirmChange" /\ StillUnused(v, "change")
                /\ user'.address = visit[v].id
  <2>1. CASE \E s \in UserSessions :
               BeginChangePassword(v, s) \/ RevokeAllUserSessions(v, s) \/ BeginRequestEmailChange(v, s)
    BY <1>1, <2>1 DEF BeginChangePassword, RevokeAllUserSessions, BeginRequestEmailChange, BumpTo, UserRows
  <2>2. CASE ChangePassword(v) \/ LinkGoogleIdentity(v) \/ UnlinkGoogleIdentity(v)
    BY <1>1, <2>2 DEF ChangePassword, LinkGoogleIdentity, UnlinkGoogleIdentity, BumpTo, UserRows
  <2>3. CASE ConfirmEmailChange(v)
    BY <1>1, <2>3 DEF ConfirmEmailChange, At, BumpTo, UserRows
  <2>4. CASE SetIdentityStatus(v)
    BY <1>1, <2>4 DEF SetIdentityStatus, UserRows
  <2>5. CASE \/ RequestEmailChange(v) \/ BeginConfirmEmailChange(v) \/ BeginLinkGoogle(v)
             \/ FinishLinkGoogle(v) \/ BeginUnlinkGoogle(v) \/ FinishUnlinkGoogle(v)
             \/ InvalidateAccount(v)
    BY <2>5 DEF RequestEmailChange, BeginConfirmEmailChange, BeginLinkGoogle, BeginUnlinkGoogle,
       LockMethods, FinishLinkGoogle, FinishUnlinkGoogle, InvalidateAccount, InvalidateUser
  <2> QED
    BY <1>5, <2>1, <2>2, <2>3, <2>4, <2>5 DEF AccountChange
<1>6. CASE \E k \in Passkeys : AddPasskey(k) \/ DeletePasskey(k)
  BY <1>1, <1>6 DEF AddPasskey, DeletePasskey, UserRows
<1>7. CASE \E s \in UserSessions :
             DeleteUserSession(s) \/ \E on \in BOOLEAN : SetPasswordSignInEnabled(s, on)
  BY <1>1, <1>7 DEF DeleteUserSession, SetPasswordSignInEnabled, BumpTo, UserRows
<1>8. CASE DeleteAccountIdentity
  BY <1>8 DEF DeleteAccountIdentity, NewUser
<1>9. CASE PruneExpiredTokens \/ UNCHANGED identityVars
  BY <1>9 DEF PruneExpiredTokens, identityVars
<1> QED
  BY <1>2, <1>4, <1>5, <1>6, <1>7, <1>8, <1>9 DEF IdentityNext

\* A link that is unused was asked for under the password of now.
LEMMA EmailChangesAreCurrent ==
  ASSUME IdentityInv, [IdentityNext]_identityVars,
         user'.address # user.address, user'.account # "gone"
  PROVE  \E v \in Visitors : visit[v].step = "confirmChange" /\ visit[v].id = user'.address
                             /\ visit[v].password = user.password
<1>1. PICK v \in Visitors : /\ visit[v].step = "confirmChange" /\ StillUnused(v, "change")
                            /\ user'.address = visit[v].id
  BY AddressChanges
<1>2. VisitOK(visit[v])
  BY DEF IdentityInv
<1>3. link["change"].id = visit[v].id /\ visit[v].id # 0
  BY <1>1 DEF StillUnused
<1>4. visit[v].password = link["change"].password
  BY <1>1, <1>2, <1>3 DEF VisitOK
<1>5. link["change"].password = user.password
  BY <1>3 DEF IdentityInv, UserOK
<1> QED
  BY <1>1, <1>4, <1>5

(* identity.go:893,914, webauthn.go:380: at every state a user who got in   *)
(* once has a method to sign in, no session is of an older credential, and  *)
(* no change of the address takes effect that an older password asked for.  *)
THEOREM IdentityIsSound == IdentitySpec => IdentityHolds
<1>1. IdentityInv /\ [IdentityNext]_identityVars =>
        [user'.address # user.address /\ user'.account # "gone" =>
           \E v \in Visitors : visit[v].step = "confirmChange" /\ visit[v].id = user'.address
                               /\ visit[v].password = user.password]_identityVars
  BY EmailChangesAreCurrent
<1>2. IdentityInv => IdentityTypeOK /\ NeverLockedOut /\ SessionsAreOfThisGeneration
  BY DEF IdentityInv, UserOK
<1> QED
  BY IdentityStart, IdentityInvariance, <1>1, <1>2, PTL
     DEF IdentitySpec, IdentityHolds, EmailChangeIsCurrent
=============================================================================
