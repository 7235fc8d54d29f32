----------------------------- MODULE ClientKeys ------------------------------
(***************************************************************************)
(* Client keys (auth/keys.go ClientAuthenticator, server requireClient): a *)
(* key is verified against the database once and then served from a cache  *)
(* whose entries renew on use, so a revocation has to reach the cache.     *)
(* A mutation commits first and invalidates afterwards; a verification     *)
(* under way meanwhile is caught by the revision it read at its start.     *)
(***************************************************************************)
EXTENDS Naturals, FiniteSets

CONSTANTS
  Keys,       \* client keys, rows of client_keys
  Versions,   \* the secrets a key has one after the other, numbers from 0
  Accounts, OwnerOf,
  Calls,      \* requests that present a key
  Admins,     \* handlers that change keys or accounts
  Slots,      \* concurrent verifications (the semaphore)
  CacheSize,
  MaxRev      \* bound: invalidations

ClientKeysAssumption ==
  /\ OwnerOf \in [Keys -> Accounts]
  /\ Slots \in Nat \ {0} /\ CacheSize \in Nat \ {0} /\ MaxRev \in Nat
  /\ Versions \subseteq Nat /\ 0 \in Versions
ASSUME ClientKeysAssumption

VARIABLES
  keyRow,     \* the rows of client_keys
  status,     \* the status of each account
  keyCache,   \* the credentials that are served without the database
  keyRev,     \* rev: how many invalidations there were
  call,       \* the requests
  admin,      \* the handlers: keys that a committed change has still to invalidate
  forgotten   \* history: keys whose deletion failed after it had been committed

keyVars == <<keyRow, status, keyCache, keyRev, call, admin, forgotten>>

Credentials == Keys \X Versions
KeyRows == [version : Versions, enabled : BOOLEAN, deleted : BOOLEAN]
CallSteps == {"idle", "verifying", "verified", "admitted", "refused", "unavailable"}
AdminStates == [keys : SUBSET Keys, op : {"none", "change", "delete"}]
CallStates == [step : CallSteps, cred : Credentials, rev : Nat]

\* What the database accepts: one query joins the key and its account.
Accepted(c) ==
  LET row == keyRow[c[1]]
  IN  /\ ~row.deleted /\ row.enabled /\ row.version = c[2]
      /\ status[OwnerOf[c[1]]] = "active"

\* A change of the key is committed and its handler has not returned yet.
BeingRevoked(k) == \E a \in Admins : k \in admin[a].keys
IdleHandler == [keys |-> {}, op |-> "none"]

ClientKeysTypeOK ==
  /\ keyRow \in [Keys -> KeyRows]
  /\ status \in [Accounts -> {"active", "suspended", "deleting"}]
  /\ keyCache \subseteq Credentials /\ keyRev \in Nat
  /\ call \in [Calls -> CallStates]
  /\ admin \in [Admins -> AdminStates]
  /\ forgotten \subseteq Keys

ClientKeysInit ==
  /\ keyRow = [k \in Keys |-> [version |-> 0, enabled |-> TRUE, deleted |-> FALSE]]
  /\ status = [a \in Accounts |-> "active"]
  /\ keyCache = {} /\ keyRev = 0
  /\ call \in [Calls -> {[step |-> "idle", cred |-> c, rev |-> 0] : c \in Credentials}]
  /\ admin = [a \in Admins |-> IdleHandler]
  /\ forgotten = {}

-----------------------------------------------------------------------------
(* A request.                                                              *)

Step(r, from, to) == call[r].step = from /\ call' = [call EXCEPT ![r].step = to]

CacheHit(r) ==
  /\ call[r].cred \in keyCache
  /\ Step(r, "idle", "admitted")
  /\ UNCHANGED <<keyRow, status, keyCache, keyRev, admin, forgotten>>

Verifying == {r \in Calls : call[r].step \in {"verifying", "verified"}}

\* A miss takes a slot of the semaphore without waiting, and reads rev.
BeginVerify(r) ==
  /\ call[r].step = "idle" /\ call[r].cred \notin keyCache
  /\ Cardinality(Verifying) < Slots
  /\ call' = [call EXCEPT ![r].step = "verifying", ![r].rev = keyRev]
  /\ UNCHANGED <<keyRow, status, keyCache, keyRev, admin, forgotten>>

NoSlot(r) ==
  /\ call[r].cred \notin keyCache /\ Cardinality(Verifying) >= Slots
  /\ Step(r, "idle", "unavailable")
  /\ UNCHANGED <<keyRow, status, keyCache, keyRev, admin, forgotten>>

\* The query, and the hash after it. The upgrade of an old hash changes no row
\* that a rotation has changed meanwhile.
ReadKey(r) ==
  /\ \/ Accepted(call[r].cred) /\ Step(r, "verifying", "verified")
     \/ Step(r, "verifying", "refused")
  /\ UNCHANGED <<keyRow, status, keyCache, keyRev, admin, forgotten>>

\* At the cap, expired entries are swept and then arbitrary ones evicted.
EnsureCacheRoom(kept) ==
  /\ kept \subseteq keyCache
  /\ Cardinality(keyCache) < CacheSize => kept = keyCache
  /\ kept = keyCache \/ Cardinality(kept) < CacheSize

\* A mutant: the revision is not compared.
PublishAnyway(r) ==
  /\ Step(r, "verified", "admitted")
  /\ \E kept \in SUBSET keyCache : EnsureCacheRoom(kept) /\ keyCache' = kept \cup {call[r].cred}
  /\ UNCHANGED <<keyRow, status, keyRev, admin, forgotten>>

Publish(r) ==
  /\ IF call[r].rev = keyRev
     THEN /\ Step(r, "verified", "admitted")
          /\ \E kept \in SUBSET keyCache :
               EnsureCacheRoom(kept) /\ keyCache' = kept \cup {call[r].cred}
     ELSE Step(r, "verified", "refused") /\ UNCHANGED keyCache
  /\ UNCHANGED <<keyRow, status, keyRev, admin, forgotten>>

\* The next request on the connection, with any credential there ever was.
NextCall(r) ==
  /\ call[r].step \in {"admitted", "refused", "unavailable"}
  /\ \E c \in Credentials : call' = [call EXCEPT ![r] = [step |-> "idle", cred |-> c, rev |-> 0]]
  /\ UNCHANGED <<keyRow, status, keyCache, keyRev, admin, forgotten>>

\* Entries that no request has renewed for the TTL.
SweepExpired ==
  /\ \E old \in SUBSET keyCache : old # {} /\ keyCache' = keyCache \ old
  /\ UNCHANGED <<keyRow, status, keyRev, call, admin, forgotten>>

-----------------------------------------------------------------------------
(* Mutations.                                                              *)

Commit(a, op, keys) ==
  /\ admin[a] = IdleHandler /\ keyRev < MaxRev
  /\ admin' = [admin EXCEPT ![a] = [keys |-> keys, op |-> op]]
  /\ UNCHANGED <<keyCache, keyRev, call>>

\* PATCH writes the columns it was given, so that it undoes no other change.
UpdateClientKey(a, k) ==
  /\ ~keyRow[k].deleted
  /\ \E on \in BOOLEAN : keyRow' = [keyRow EXCEPT ![k].enabled = on]
  /\ Commit(a, "change", {k})
  /\ UNCHANGED <<status, forgotten>>

RotateClientKey(a, k) ==
  /\ ~keyRow[k].deleted /\ keyRow[k].version + 1 \in Versions
  /\ keyRow' = [keyRow EXCEPT ![k].version = @ + 1]
  /\ Commit(a, "change", {k})
  /\ UNCHANGED <<status, forgotten>>

\* A deletion whose cleanup of the history failed may be repeated, as long as
\* the record of the cleanup is there.
DeleteClientKey(a, k) ==
  /\ ~keyRow[k].deleted \/ k \in forgotten
  /\ keyRow' = [keyRow EXCEPT ![k].deleted = TRUE]
  /\ Commit(a, "delete", {k})
  /\ UNCHANGED <<status, forgotten>>

\* The handler then returns before it invalidates the key.
CleanupFails(a) ==
  /\ admin[a].op = "delete"
  /\ forgotten' = forgotten \cup admin[a].keys
  /\ admin' = [admin EXCEPT ![a] = IdleHandler]
  /\ UNCHANGED <<keyRow, status, keyCache, keyRev, call>>

\* Suspension, its end, and the first step of a purge, which is final.
SetAccountStatus(a, owner) ==
  /\ \E s \in {"active", "suspended", "deleting"} :
       /\ status[owner] # "deleting" \/ s = "deleting"
       /\ status' = [status EXCEPT ![owner] = s]
  /\ Commit(a, "change", {k \in Keys : OwnerOf[k] = owner})
  /\ UNCHANGED <<keyRow, forgotten>>

\* The end of a handler: Invalidate or InvalidateAccount.
Invalidate(a) ==
  /\ admin[a].op # "none"
  /\ keyRev' = keyRev + 1
  /\ keyCache' = {c \in keyCache : c[1] \notin admin[a].keys}
  /\ admin' = [admin EXCEPT ![a] = IdleHandler]
  /\ forgotten' = forgotten \ admin[a].keys
  /\ UNCHANGED <<keyRow, status, call>>

CallStep(r) ==
  CacheHit(r) \/ BeginVerify(r) \/ NoSlot(r) \/ ReadKey(r) \/ Publish(r) \/ NextCall(r)

AdminStep(a) ==
  \/ \E k \in Keys : UpdateClientKey(a, k) \/ RotateClientKey(a, k) \/ DeleteClientKey(a, k)
  \/ \E owner \in Accounts : SetAccountStatus(a, owner)
  \/ CleanupFails(a) \/ Invalidate(a)

ClientKeysNext ==
  \/ \E r \in Calls : CallStep(r)
  \/ SweepExpired
  \/ \E a \in Admins : AdminStep(a)

ClientKeysSpec == ClientKeysInit /\ [][ClientKeysNext]_keyVars

-----------------------------------------------------------------------------
(* SECURITY.md:98: revocation does not wait for the TTL. What is served    *)
(* without the database is what the database accepts, but for a key whose  *)
(* change is committed and whose handler has not answered yet, and for a   *)
(* deletion that was answered with an error before it got that far.        *)
CacheIsCurrent ==
  \A c \in keyCache : Accepted(c) \/ BeingRevoked(c[1]) \/ c[1] \in forgotten

(* No request is let in, from the cache or by a verification that raced    *)
(* with the change, with a key that a change has revoked for good.         *)
AdmittedIsCurrent ==
  [][\A r \in Calls : call'[r].step = "admitted" /\ call[r].step # "admitted" =>
       \/ Accepted(call[r].cred) \/ BeingRevoked(call[r].cred[1])
       \/ call[r].cred[1] \in forgotten]_keyVars

(* A deletion that has returned has taken the key out of the cache.        *)
DeletedIsRefused ==
  \A c \in keyCache : keyRow[c[1]].deleted => BeingRevoked(c[1])

(* What the verifier promises as a whole, of its cache and of the requests *)
(* it lets in.                                                             *)
KeysAreCurrent == [](ClientKeysTypeOK /\ CacheIsCurrent) /\ AdmittedIsCurrent
=============================================================================
