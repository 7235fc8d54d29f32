------------------------------ MODULE MCAccess ------------------------------
(***************************************************************************)
(* Who may call, with what and how much: the components that decide it,    *)
(* checked by one run.  They share no state, so each behaviour is that of  *)
(* one of them, `part`, and the others stay as they began.  Identity is    *)
(* seen from two sides: every way to sign in comes and goes and a link is  *)
(* spared, or the last link is sent and no passkey or Google is linked.    *)
(* Of a connection a forced refresh, to which the age of a token is        *)
(* nothing, meets browser flows and a disconnect; MCBackground looks at    *)
(* the refreshes that several callers share.                               *)
(***************************************************************************)
EXTENDS Admission, ClientKeys, ManagementTokens, AdminSessions, Identity,
        HostedSessions, LoginLimiter, OAuthConnection, TLC

CONSTANTS h1, h2,  \* handlers that run at once, in any component
          k1, k2,  \* the tickets of two clients, the first with two requests
          ac       \* the account of every key

VARIABLE part

Sides == {"methods", "recovery"}
Subjects == {"admission", "keys", "tokens", "sessions", "hosted", "limiter",
             "connection"} \cup Sides

Handlers == Permutations({h1, h2})

\* Plans with a limit of either kind, or of one kind.
MCPlanLimits ==
  {[streams |-> 2, monthly |-> Unlimited], [streams |-> 1, monthly |-> 1]}

MCOwnerOf == [k \in Keys |-> ac]

\* A component that is not looked at begins in one way.
Fixed(component) == part # component

AccessInit ==
  /\ part \in Subjects
  /\ Init /\ ticket = [r \in Requests |-> IF r \in {h1, h2} THEN k1 ELSE k2]
  /\ Fixed("admission") => enforcing /\ limits.streams = 1
  /\ ClientKeysInit
  /\ Fixed("keys") => \A r \in Calls : call[r].cred = CHOOSE c \in Credentials : TRUE
  /\ ManagementTokensInit
  /\ AdminSessionsInit /\ (Fixed("sessions") => env = Nobody)
  /\ IdentityInit /\ (part \notin Sides => ~user.google)
  /\ HostedSessionsInit /\ LimiterInit
  /\ ConnectionInit /\ (Fixed("connection") => connection = NoConnection)

IdentityFromSide ==
  /\ IdentityNext
  /\ part = "methods" => issued' < LastToken
  /\ part = "recovery" => UNCHANGED methodsMu /\ user'.passkeys = {}

AccessNext ==
  /\ UNCHANGED part
  /\ \/ part = "admission" /\ Next
     \/ part = "keys" /\ ClientKeysNext
     \/ part = "tokens" /\ ManagementTokensNext
     \/ part = "sessions" /\ AdminSessionsNext
     \/ part = "hosted" /\ HostedSessionsNext
     \/ part = "limiter" /\ LimiterNext
     \/ part \in Sides /\ IdentityFromSide
     \/ part = "connection" /\ ConnectionNext /\ connection'.age = "fresh"
  /\ part # "admission" => UNCHANGED vars
  /\ part # "keys" => UNCHANGED keyVars
  /\ part # "tokens" => UNCHANGED tokenVars
  /\ part # "sessions" => UNCHANGED adminVars
  /\ part \notin Sides => UNCHANGED identityVars
  /\ part # "hosted" => UNCHANGED hostedVars
  /\ part # "limiter" => UNCHANGED limiterVars
  /\ part # "connection" => UNCHANGED connectionVars

accessVars ==
  <<part, vars, keyVars, tokenVars, adminVars, identityVars, hostedVars, limiterVars,
    connectionVars>>

AccessSpec == AccessInit /\ [][AccessNext]_accessVars
=============================================================================
