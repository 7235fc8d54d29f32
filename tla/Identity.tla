------------------------------- MODULE Identity -------------------------------
(***************************************************************************)
(* One hosted user (internal/identity): the sign-in methods, the one-time  *)
(* links, the sessions, and auth_generation, the number that every change  *)
(* of a credential raises.  Operations read the database, spend time on a  *)
(* hash or on Google, and commit later: what they have read is in `visit`, *)
(* and what may have changed since is what the generation is for.          *)
(***************************************************************************)
EXTENDS Naturals, FiniteSets

CONSTANTS
  Visitors,       \* operations under way at once
  UserSessions,   \* the selectors of sessions, each drawn once
  Passkeys,       \* passkeys the user may register
  LastPassword,   \* bound: passwords, numbered from 1 in the order they are set
  LastGeneration, \* bound: auth_generation
  LastToken       \* bound: one-time links, numbered as they are issued

IdentityAssumption ==
  LastPassword \in Nat /\ LastGeneration \in Nat /\ LastToken \in Nat \ {0}
ASSUME IdentityAssumption

VARIABLES
  user,       \* the row of users, its account and its sign-in methods
  link,       \* the one-time link of each kind that is in the database
  issued,     \* how many links were issued
  userSession,\* the rows of user_sessions
  methodsMu,  \* who holds authMethodsMu
  visit,      \* the operations
  unrevoked   \* history: sessions that a failed DELETE of InvalidateUser left

identityVars == <<user, link, issued, userSession, methodsMu, visit, unrevoked>>

Passwords == 0..LastPassword
Generations == 0..LastGeneration
Kinds == {"verify", "reset", "change"}
NoLink == [id |-> 0, gen |-> 0, password |-> 0, keep |-> {}]
LinkRows == [id : 0..LastToken, gen : Generations, password : Passwords, keep : SUBSET UserSessions]
\* `by` is the password that opened the session, 0 for any other proof.
NoSession == [live |-> FALSE, gen |-> 0, by |-> 0]
SessionRows == [live : BOOLEAN, gen : Generations, by : Passwords]
VisitSteps == {"idle", "typed", "opening", "reread", "issueVerify", "consumeVerify", "issueReset",
               "resetEligible", "consumeReset", "invalidate", "changePassword", "requestChange",
               "confirmChange", "link", "linked", "unlink", "unlinked", "revokeAccount"}
NoVisit == [step |-> "idle", gen |-> 0, password |-> 0, id |-> 0, keep |-> {}]
Visits == [step : VisitSteps, gen : Generations, password : Passwords, id : 0..LastToken,
           keep : SUBSET UserSessions]

IdentityTypeOK ==
  /\ user \in [verified : BOOLEAN, password : Passwords, enabled : BOOLEAN, google : BOOLEAN,
               passkeys : SUBSET Passkeys, gen : Generations, address : 0..LastToken,
               account : {"pending", "active", "suspended", "deleting", "gone"}]
  /\ link \in [Kinds -> LinkRows] /\ issued \in 0..LastToken
  /\ userSession \in [UserSessions -> SessionRows]
  /\ methodsMu \subseteq Visitors
  /\ visit \in [Visitors -> Visits]
  /\ unrevoked \subseteq UserSessions

NewUser ==
  [verified |-> FALSE, password |-> 0, enabled |-> FALSE, google |-> FALSE, passkeys |-> {},
   gen |-> 0, address |-> 0, account |-> "pending"]

\* A signup chooses no password: the holder of the link will.
CreateSignup ==
  /\ user = NewUser
  /\ link = [k \in Kinds |-> IF k = "verify" THEN [NoLink EXCEPT !.id = 1] ELSE NoLink]
  /\ issued = 1

CreateGoogleSignup ==
  /\ user = [NewUser EXCEPT !.verified = TRUE, !.google = TRUE, !.account = "active"]
  /\ link = [k \in Kinds |-> NoLink] /\ issued = 0

IdentityInit ==
  /\ CreateSignup \/ CreateGoogleSignup
  /\ userSession = [s \in UserSessions |-> NoSession]
  /\ methodsMu = {} /\ unrevoked = {}
  /\ visit = [v \in Visitors |-> NoVisit]

-----------------------------------------------------------------------------
Exists == user.account # "gone"
SignInAllowed == user.verified /\ user.account = "active"
At(v, step) == visit[v].step = step
Begin(v, next) == At(v, "idle") /\ visit' = [visit EXCEPT ![v] = next]
Finish(v) == visit' = [visit EXCEPT ![v] = NoVisit]
Live(s) == userSession[s].live

\* auth_generation = auth_generation + 1, with what else the UPDATE sets.
BumpTo(row) == user.gen < LastGeneration /\ user' = [row EXCEPT !.gen = user.gen + 1]

\* The transaction keeps these sessions; they are of the new generation now,
\* whatever opened them.
KeepSessions(kept) ==
  userSession' = [s \in UserSessions |->
    IF s \in kept /\ Live(s) THEN [live |-> TRUE, gen |-> user'.gen, by |-> 0]
    ELSE NoSession]

DropLinks(kinds) == link' = [k \in Kinds |-> IF k \in kinds THEN NoLink ELSE link[k]]

Issue(kind, new) ==
  /\ issued < LastToken /\ issued' = issued + 1
  /\ link' = [link EXCEPT ![kind] = [new EXCEPT !.id = issued + 1]]

\* UPDATE ... SET used_at WHERE id=? AND used_at IS NULL
StillUnused(v, kind) == visit[v].id # 0 /\ link[kind].id = visit[v].id

-----------------------------------------------------------------------------
(* Signing in.                                                             *)

\* AuthenticatePassword reads the user first, generation included.
TypePassword(v, p) ==
  /\ Exists /\ user.enabled /\ SignInAllowed
  /\ Begin(v, [NoVisit EXCEPT !.step = "typed", !.gen = user.gen, !.password = p])
  /\ UNCHANGED <<user, link, issued, userSession, methodsMu, unrevoked>>

\* It then reads the hash.
AuthenticatePassword(v) ==
  /\ At(v, "typed")
  /\ IF user.enabled /\ user.password = visit[v].password
     THEN visit' = [visit EXCEPT ![v].step = "opening"]
     ELSE Finish(v)
  /\ UNCHANGED <<user, link, issued, userSession, methodsMu, unrevoked>>

\* An assertion of a passkey, or a subject of Google that is linked.
FinishPasskeyLogin(v) ==
  /\ user.passkeys # {} /\ SignInAllowed
  /\ Begin(v, [NoVisit EXCEPT !.step = "opening", !.gen = user.gen])
  /\ UNCHANGED <<user, link, issued, userSession, methodsMu, unrevoked>>

GoogleUserBySubject(v) ==
  /\ user.google /\ SignInAllowed
  /\ Begin(v, [NoVisit EXCEPT !.step = "opening", !.gen = user.gen])
  /\ UNCHANGED <<user, link, issued, userSession, methodsMu, unrevoked>>

\* A link of Google or a verification ends with a session of its own.
UserByID(v) ==
  /\ At(v, "reread")
  /\ IF SignInAllowed
     THEN visit' = [visit EXCEPT ![v] = [NoVisit EXCEPT !.step = "opening", !.gen = user.gen]]
     ELSE Finish(v)
  /\ UNCHANGED <<user, link, issued, userSession, methodsMu, unrevoked>>

\* A mutant: the insert looks at the status only.
CreateUserSessionUnguarded(v, s) ==
  /\ At(v, "opening") /\ userSession[s] = NoSession /\ s \notin unrevoked /\ SignInAllowed
  /\ userSession' = [userSession EXCEPT ![s] = [live |-> TRUE, gen |-> visit[v].gen, by |-> visit[v].password]]
  /\ Finish(v)
  /\ UNCHANGED <<user, link, issued, methodsMu, unrevoked>>

\* INSERT ... WHERE the generation is the one that was authenticated.
CreateUserSession(v, s) ==
  /\ At(v, "opening") /\ userSession[s] = NoSession /\ s \notin unrevoked
  /\ IF SignInAllowed /\ user.gen = visit[v].gen
     THEN userSession' = [userSession EXCEPT ![s] = [live |-> TRUE, gen |-> user.gen, by |-> visit[v].password]]
     ELSE UNCHANGED userSession
  /\ Finish(v)
  /\ UNCHANGED <<user, link, issued, methodsMu, unrevoked>>

DeleteUserSession(s) ==
  /\ Live(s) /\ userSession' = [userSession EXCEPT ![s] = NoSession]
  /\ unrevoked' = unrevoked \ {s}
  /\ UNCHANGED <<user, link, issued, methodsMu, visit>>

-----------------------------------------------------------------------------
(* Verification and password reset.                                        *)

BeginIssueVerification(v) ==
  /\ Exists /\ ~user.verified
  /\ Begin(v, [NoVisit EXCEPT !.step = "issueVerify"])
  /\ UNCHANGED <<user, link, issued, userSession, methodsMu, unrevoked>>

IssueVerification(v) ==
  /\ At(v, "issueVerify") /\ Finish(v)
  /\ IF Exists THEN Issue("verify", NoLink) ELSE UNCHANGED <<link, issued>>
  /\ UNCHANGED <<user, userSession, methodsMu, unrevoked>>

BeginConsumeVerification(v) ==
  /\ link["verify"].id # 0
  /\ Begin(v, [NoVisit EXCEPT !.step = "consumeVerify", !.id = link["verify"].id])
  /\ UNCHANGED <<user, link, issued, userSession, methodsMu, unrevoked>>

ConsumeVerification(v) ==
  /\ At(v, "consumeVerify") /\ user.password < LastPassword
  /\ IF StillUnused(v, "verify") /\ ~user.verified
     THEN /\ BumpTo([user EXCEPT !.verified = TRUE, !.password = @ + 1, !.enabled = TRUE,
                                 !.account = IF @ = "pending" THEN "active" ELSE @])
          /\ DropLinks({"verify"})
          /\ visit' = [visit EXCEPT ![v] = [NoVisit EXCEPT !.step = "reread"]]
     ELSE Finish(v) /\ UNCHANGED <<user, link>>
  /\ UNCHANGED <<issued, userSession, methodsMu, unrevoked>>

BeginIssuePasswordReset(v) ==
  /\ Exists
  /\ Begin(v, [NoVisit EXCEPT !.step = "issueReset", !.gen = user.gen])
  /\ UNCHANGED <<user, link, issued, userSession, methodsMu, unrevoked>>

ResetEligible(v) ==
  /\ At(v, "issueReset")
  /\ IF user.google THEN Finish(v) ELSE visit' = [visit EXCEPT ![v].step = "resetEligible"]
  /\ UNCHANGED <<user, link, issued, userSession, methodsMu, unrevoked>>

IssuePasswordReset(v) ==
  /\ At(v, "resetEligible") /\ Finish(v)
  /\ IF Exists THEN Issue("reset", [NoLink EXCEPT !.gen = visit[v].gen]) ELSE UNCHANGED <<link, issued>>
  /\ UNCHANGED <<user, userSession, methodsMu, unrevoked>>

\* The generation of the link is compared here, before the hash and the
\* transaction.
BeginConsumeReset(v) ==
  /\ link["reset"].id # 0 /\ link["reset"].gen = user.gen
  /\ Begin(v, [NoVisit EXCEPT !.step = "consumeReset", !.id = link["reset"].id])
  /\ UNCHANGED <<user, link, issued, userSession, methodsMu, unrevoked>>

ConsumePasswordReset(v) ==
  /\ At(v, "consumeReset") /\ user.password < LastPassword
  /\ IF StillUnused(v, "reset") /\ ~user.google
     THEN /\ BumpTo([user EXCEPT !.password = @ + 1, !.enabled = TRUE])
          /\ KeepSessions({}) /\ DropLinks({"reset", "change"})
          /\ visit' = [visit EXCEPT ![v] = [NoVisit EXCEPT !.step = "invalidate"]]
     ELSE Finish(v) /\ UNCHANGED <<user, link, userSession>>
  /\ UNCHANGED <<issued, methodsMu, unrevoked>>

\* The sessions there are by now. That the delete may fail is not noticed.
InvalidateUser ==
  \/ KeepSessions({}) /\ unrevoked' = {} /\ UNCHANGED user
  \/ /\ unrevoked' = {s \in UserSessions : Live(s)}
     /\ UNCHANGED <<user, userSession>>

FinishInvalidate(v) ==
  /\ At(v, "invalidate") /\ InvalidateUser /\ Finish(v)
  /\ UNCHANGED <<link, issued, methodsMu>>

-----------------------------------------------------------------------------
(* What a signed-in user changes.                                          *)

\* The request is authenticated, and its password checked, by now.
BeginChangePassword(v, s) ==
  /\ Live(s) /\ ~user.google /\ Exists
  /\ Begin(v, [NoVisit EXCEPT !.step = "changePassword", !.keep = {s}])
  /\ UNCHANGED <<user, link, issued, userSession, methodsMu, unrevoked>>

ChangePassword(v) ==
  /\ At(v, "changePassword") /\ user.password < LastPassword
  /\ IF Exists
     THEN /\ BumpTo([user EXCEPT !.password = @ + 1, !.enabled = TRUE])
          /\ KeepSessions(visit[v].keep) /\ DropLinks({"reset", "change"})
     ELSE UNCHANGED <<user, userSession, link>>
  /\ Finish(v)
  /\ UNCHANGED <<issued, methodsMu, unrevoked>>

RevokeAllUserSessions(v, s) ==
  /\ Live(s) /\ Begin(v, [NoVisit EXCEPT !.step = "invalidate"])
  /\ BumpTo(user) /\ KeepSessions({}) /\ DropLinks({"reset"})
  /\ UNCHANGED <<issued, methodsMu, unrevoked>>

BeginRequestEmailChange(v, s) ==
  /\ Live(s) /\ Begin(v, [NoVisit EXCEPT !.step = "requestChange", !.keep = {s}])
  /\ UNCHANGED <<user, link, issued, userSession, methodsMu, unrevoked>>

\* The link remembers its session, and here the password it was asked under.
RequestEmailChange(v) ==
  /\ At(v, "requestChange") /\ Finish(v)
  /\ IF Exists THEN Issue("change", [NoLink EXCEPT !.keep = visit[v].keep, !.password = user.password])
     ELSE UNCHANGED <<link, issued>>
  /\ UNCHANGED <<user, userSession, methodsMu, unrevoked>>

BeginConfirmEmailChange(v) ==
  /\ link["change"].id # 0
  /\ Begin(v, [NoVisit EXCEPT !.step = "confirmChange", !.id = link["change"].id,
                              !.keep = link["change"].keep, !.password = link["change"].password])
  /\ UNCHANGED <<user, link, issued, userSession, methodsMu, unrevoked>>

ConfirmEmailChange(v) ==
  /\ At(v, "confirmChange")
  /\ IF StillUnused(v, "change")
     THEN /\ BumpTo([user EXCEPT !.address = visit[v].id])
          /\ KeepSessions(visit[v].keep) /\ DropLinks({"reset", "change"})
     ELSE UNCHANGED <<user, userSession, link>>
  /\ Finish(v)
  /\ UNCHANGED <<issued, methodsMu, unrevoked>>

-----------------------------------------------------------------------------
(* Sign-in methods, under authMethodsMu.                                   *)

AddPasskey(k) ==
  /\ k \notin user.passkeys /\ SignInAllowed
  /\ user' = [user EXCEPT !.passkeys = @ \cup {k}]
  /\ UNCHANGED <<link, issued, userSession, methodsMu, visit, unrevoked>>

DeletePasskey(k) ==
  /\ methodsMu = {} /\ k \in user.passkeys
  /\ user.enabled \/ user.google \/ Cardinality(user.passkeys) > 1
  /\ user' = [user EXCEPT !.passkeys = @ \ {k}]
  /\ UNCHANGED <<link, issued, userSession, methodsMu, visit, unrevoked>>

SetPasswordSignInEnabled(s, on) ==
  /\ methodsMu = {} /\ Live(s)
  /\ IF on THEN ~user.google ELSE user.passkeys # {}
  /\ BumpTo([user EXCEPT !.enabled = on]) /\ KeepSessions({s})
  /\ UNCHANGED <<link, issued, methodsMu, visit, unrevoked>>

LockMethods(v, step) ==
  /\ methodsMu = {} /\ methodsMu' = {v}
  /\ Begin(v, [NoVisit EXCEPT !.step = step])
  /\ UNCHANGED <<user, link, issued, userSession, unrevoked>>

BeginLinkGoogle(v) == Exists /\ LockMethods(v, "link")

Unlock(v, next) == methodsMu' = {} /\ visit' = [visit EXCEPT ![v] = [NoVisit EXCEPT !.step = next]]

\* A subject that is linked already turns the password off all the same.
LinkGoogleIdentity(v) ==
  /\ At(v, "link")
  /\ IF user.google \/ SignInAllowed
     THEN /\ BumpTo([user EXCEPT !.google = TRUE, !.enabled = FALSE]) /\ DropLinks({"reset"})
          /\ visit' = [visit EXCEPT ![v].step = "linked"] /\ UNCHANGED methodsMu
     ELSE Unlock(v, "idle") /\ UNCHANGED <<user, link>>
  /\ UNCHANGED <<issued, userSession, unrevoked>>

FinishLinkGoogle(v) ==
  /\ At(v, "linked") /\ InvalidateUser /\ Unlock(v, "reread")
  /\ UNCHANGED <<link, issued>>

\* The password that will be left is looked for before the transaction.
BeginUnlinkGoogle(v) == user.google /\ user.password # 0 /\ LockMethods(v, "unlink")

UnlinkGoogleIdentity(v) ==
  /\ At(v, "unlink")
  /\ IF user.google
     THEN /\ BumpTo([user EXCEPT !.google = FALSE, !.enabled = user.password # 0])
          /\ visit' = [visit EXCEPT ![v].step = "unlinked"] /\ UNCHANGED methodsMu
     ELSE Unlock(v, "idle") /\ UNCHANGED user
  /\ UNCHANGED <<link, issued, userSession, unrevoked>>

FinishUnlinkGoogle(v) ==
  /\ At(v, "unlinked") /\ InvalidateUser /\ Unlock(v, "idle")
  /\ UNCHANGED <<link, issued>>

-----------------------------------------------------------------------------
(* The operator and maintenance.                                           *)

SetIdentityStatus(v) ==
  /\ \E status \in {"active", "suspended", "deleting"} :
       /\ Exists /\ user.account # "pending"
       /\ user.account # "deleting" \/ status = "deleting"
       /\ user' = [user EXCEPT !.account = status]
       /\ IF status = "active" THEN At(v, "idle") /\ UNCHANGED visit
          ELSE Begin(v, [NoVisit EXCEPT !.step = "revokeAccount"])
  /\ UNCHANGED <<link, issued, userSession, methodsMu, unrevoked>>

InvalidateAccount(v) ==
  /\ At(v, "revokeAccount") /\ InvalidateUser /\ Finish(v)
  /\ UNCHANGED <<link, issued, methodsMu>>

\* The end of a purge, and of a signup that was never verified.
DeleteAccountIdentity ==
  /\ user.account \in {"deleting", "pending"}
  /\ user' = [NewUser EXCEPT !.account = "gone"]
  /\ link' = [k \in Kinds |-> NoLink]
  /\ userSession' = [s \in UserSessions |-> NoSession] /\ unrevoked' = {}
  /\ UNCHANGED <<issued, methodsMu, visit>>

PruneExpiredTokens ==
  /\ \E k \in Kinds : link[k] # NoLink /\ DropLinks({k})
  /\ UNCHANGED <<user, issued, userSession, methodsMu, visit, unrevoked>>

SignIn(v) ==
  \/ \E p \in 1..user.password : TypePassword(v, p)
  \/ AuthenticatePassword(v) \/ FinishPasskeyLogin(v) \/ GoogleUserBySubject(v) \/ UserByID(v)
  \/ \E s \in UserSessions : CreateUserSession(v, s)

Recovery(v) ==
  \/ BeginIssueVerification(v) \/ IssueVerification(v)
  \/ BeginConsumeVerification(v) \/ ConsumeVerification(v)
  \/ BeginIssuePasswordReset(v) \/ ResetEligible(v) \/ IssuePasswordReset(v)
  \/ BeginConsumeReset(v) \/ ConsumePasswordReset(v) \/ FinishInvalidate(v)

AccountChange(v) ==
  \/ \E s \in UserSessions :
       BeginChangePassword(v, s) \/ RevokeAllUserSessions(v, s) \/ BeginRequestEmailChange(v, s)
  \/ ChangePassword(v) \/ RequestEmailChange(v) \/ BeginConfirmEmailChange(v) \/ ConfirmEmailChange(v)
  \/ BeginLinkGoogle(v) \/ LinkGoogleIdentity(v) \/ FinishLinkGoogle(v)
  \/ BeginUnlinkGoogle(v) \/ UnlinkGoogleIdentity(v) \/ FinishUnlinkGoogle(v)
  \/ SetIdentityStatus(v) \/ InvalidateAccount(v)

IdentityNext ==
  \/ \E v \in Visitors : SignIn(v) \/ Recovery(v) \/ AccountChange(v)
  \/ \E k \in Passkeys : AddPasskey(k) \/ DeletePasskey(k)
  \/ \E s \in UserSessions :
       DeleteUserSession(s) \/ \E on \in BOOLEAN : SetPasswordSignInEnabled(s, on)
  \/ DeleteAccountIdentity \/ PruneExpiredTokens

IdentitySpec == IdentityInit /\ [][IdentityNext]_identityVars

-----------------------------------------------------------------------------
(* webauthn.go:380: no order of the operations leaves a user who got in    *)
(* once without any method to sign in.                                     *)
NeverLockedOut ==
  user.verified => user.enabled \/ user.google \/ user.passkeys # {}

(* identity.go:914: no session is of a credential state that is gone: a    *)
(* change leaves the session that asked for it, and no login that raced    *)
(* with the change adds one.  A link of Google revokes after it committed. *)
SessionsAreOfThisGeneration ==
  \A s \in UserSessions :
    \/ ~Live(s) \/ s \in unrevoked
    \/ userSession[s].gen = user.gen /\ userSession[s].by \in {0, user.password}
    \/ \E v \in Visitors : visit[v].step \in {"linked", "unlinked"}

(* identity.go:893: a password that was set since has cancelled a change   *)
(* of the address: none takes effect that was asked for under another.     *)
EmailChangeIsCurrent ==
  [][user'.address # user.address /\ user'.account # "gone" =>
       \E v \in Visitors : visit[v].step = "confirmChange" /\ visit[v].id = user'.address
                           /\ visit[v].password = user.password]_identityVars

(* webauthn.go:428: a linked Google identity means that there is no        *)
(* password to sign in with.                                               *)
GoogleMeansNoPassword == user.google => ~user.enabled

(* identity.go:864: a reset link from before a change of a credential      *)
(* resets nothing.                                                         *)
StaleResetNeverApplies ==
  [][\A v \in Visitors :
       visit[v].step = "consumeReset" /\ visit'[v].step = "invalidate" =>
         link["reset"].gen = user.gen]_identityVars

(* What the hosted identity promises as a whole: a way in that stays, no   *)
(* session of an older credential, no change of the address under one.     *)
IdentityHolds ==
  [](IdentityTypeOK /\ NeverLockedOut /\ SessionsAreOfThisGeneration) /\ EmailChangeIsCurrent
=============================================================================
