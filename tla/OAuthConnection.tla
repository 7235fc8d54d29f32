-------------------------- MODULE OAuthConnection --------------------------
(***************************************************************************)
(* The OAuth connection of one provider: the single-flight refresh of      *)
(* internal/providers/oauth/refresh.go, the guarded row of                 *)
(* internal/store/oauth.go, and the browser flows and the disconnect of    *)
(* internal/server/admin_oauth.go that race it.                            *)
(*                                                                         *)
(* A refresh token is a pair of the login that granted it and a serial     *)
(* number that every rotation moves on; serial 0 stands for none.  The     *)
(* provider accepts the pairs in livePairs.                                *)
(***************************************************************************)
EXTENDS Naturals

CONSTANTS
  TokenCallers,   \* callers of Current and ForceRefresh, one call each
  Forced,         \* those that call ForceRefresh
  Flows,          \* browser flows, one start each
  NoOne,          \* no leader, no registered flow
  MaxSerial,      \* bound on the rotations of a login
  MaxGeneration   \* bound on the disconnects

ASSUME ConnectionAssumption ==
  /\ Forced \subseteq TokenCallers
  /\ NoOne \notin TokenCallers \cup Flows
  /\ MaxSerial \in Nat \ {0}
  /\ MaxGeneration \in Nat

VARIABLES
  \* provider_oauth_tokens and oauth_connection_generations
  connection, generation,
  \* Manager.calls, and per caller: where it is, whether its context ended,
  \* the record it loaded, the serial it was given, what it returns
  flight, position, departed, held, got, reply,
  \* FlowStore, and per flow: where it is, its generation, its login
  pending, fpc, fgen, flogin,
  \* disconnectProviderOAuth, and whether its delete failed
  dpc, undeleted,
  \* the provider: accepted pairs and the logins granted so far
  livePairs, logins,
  \* history: what befell which login
  fate

callerVars == <<flight, position, held, got, reply>>
flowVars == <<pending, fpc, fgen, flogin>>
disconnectVars == <<dpc, undeleted>>
connectionVars == <<connection, generation, callerVars, departed, flowVars,
                    disconnectVars, livePairs, logins, fate>>

Ages == {"fresh", "due", "expired"}
ConnectionRows ==
  [gen : Nat, login : Nat, serial : Nat,
   state : {"connected", "reconnect_required"}, age : Ages]
NoConnection ==
  [gen |-> 0, login |-> 0, serial |-> 0, state |-> "none", age |-> "fresh"]
Pairs == [login : Nat, serial : Nat]
Pair(l, s) == [login |-> l, serial |-> s]

\* MergeToken.  A reply that grants a short life, or none, is an AgeToken away.
GrantedRow(g, l, s) ==
  [gen |-> g, login |-> l, serial |-> s, state |-> "connected", age |-> "fresh"]

WithState(r, s) == [r EXCEPT !.state = s]
WithAge(r, a) == [r EXCEPT !.age = a]

Replies == {"none", "ok", "reconnect", "failed", "cancelled"}
Leading == {"load", "ask", "rotated", "put", "partial", "publish"}
CallerSteps == {"idle", "current", "join", "waiting", "mark", "done"} \cup Leading
FlowSteps == {"idle", "register", "recheck", "open", "exchange", "store", "done"}
Fates == {"revoked", "lost", "cancelled", "refused"}
Events == [login : Nat, what : Fates]
Event(l, f) == [login |-> l, what |-> f]

\* A provider that is connected or not, before anyone calls.
ConnectionInit ==
  /\ \/ connection = NoConnection /\ livePairs = {}
     \/ \E s \in {0, 1} :
          /\ connection = GrantedRow(0, 0, s)
          /\ livePairs = {Pair(0, s)}
  /\ generation = 0
  /\ flight = NoOne
  /\ position = [c \in TokenCallers |-> "idle"]
  /\ departed = [c \in TokenCallers |-> FALSE]
  /\ held = [c \in TokenCallers |-> NoConnection]
  /\ got = [c \in TokenCallers |-> 0]
  /\ reply = [c \in TokenCallers |-> "none"]
  /\ pending = NoOne
  /\ fpc = [f \in Flows |-> "idle"]
  /\ fgen = [f \in Flows |-> 0]
  /\ flogin = [f \in Flows |-> Pair(0, 0)]
  /\ dpc = "idle"
  /\ undeleted = FALSE
  /\ logins = 0
  /\ fate = {}

CallerAt(c, p) == position' = [position EXCEPT ![c] = p]
Suffers(l, f) == fate' = fate \cup {Event(l, f)}

-----------------------------------------------------------------------------
\* Callers: Manager.Current and Manager.ForceRefresh.

Call(c) ==
  /\ position[c] = "idle"
  /\ CallerAt(c, IF c \in Forced THEN "join" ELSE "current")
  /\ UNCHANGED <<connection, generation, flight, departed, held, got, reply,
                 flowVars, disconnectVars, livePairs, logins, fate>>

\* The context of the request ends.
Leave(c) ==
  /\ ~departed[c]
  /\ position[c] \notin {"idle", "done"}
  /\ departed' = [departed EXCEPT ![c] = TRUE]
  /\ UNCHANGED <<connection, generation, callerVars, flowVars, disconnectVars,
                 livePairs, logins, fate>>

\* A read or a write of the database fails when the context has ended, and
\* may fail anyway.
DatabaseError(c) == IF departed[c] THEN "cancelled" ELSE "failed"

\* Classify and RefreshNeeded: the row is connected, near its expiry and has a
\* refresh token.
NeedsRefresh(r) == r.state = "connected" /\ r.age # "fresh" /\ r.serial # 0

\* Current answers from the row, with a token or an error, or a failed read
\* ends it, or it goes on to refresh.
CurrentToken(c) ==
  /\ position[c] = "current"
  /\ \/ CallerAt(c, "done")
     \/ ~departed[c] /\ NeedsRefresh(connection) /\ CallerAt(c, "join")
  /\ UNCHANGED <<connection, generation, flight, departed, held, got, reply,
                 flowVars, disconnectVars, livePairs, logins, fate>>

\* Variant: callers do not join the refresh that is under way.
JoinNothing(c) ==
  /\ position[c] = "join"
  /\ flight' = c /\ CallerAt(c, "load")
  /\ UNCHANGED <<connection, generation, departed, held, got, reply, flowVars,
                 disconnectVars, livePairs, logins, fate>>

\* Under m.mu: wait for the call in flight, or lead one.
Join(c) ==
  /\ position[c] = "join"
  /\ \/ flight # NoOne /\ CallerAt(c, "waiting") /\ UNCHANGED flight
     \/ flight = NoOne /\ flight' = c /\ CallerAt(c, "load")
  /\ UNCHANGED <<connection, generation, departed, held, got, reply, flowVars,
                 disconnectVars, livePairs, logins, fate>>

\* A waiter whose own context ends gives up.
StopWaiting(c) ==
  /\ position[c] = "waiting"
  /\ departed[c]
  /\ CallerAt(c, "done")
  /\ UNCHANGED <<connection, generation, flight, departed, held, got, reply,
                 flowVars, disconnectVars, livePairs, logins, fate>>

\* The leader reads the row, whatever Current saw before.
LoadToken(c) ==
  /\ position[c] = "load"
  /\ \/ /\ CallerAt(c, "publish")
        /\ reply' = [reply EXCEPT ![c] = DatabaseError(c)]
        /\ UNCHANGED held
     \/ /\ ~departed[c] /\ connection = NoConnection
        /\ CallerAt(c, "publish")
        /\ reply' = [reply EXCEPT ![c] = "failed"]
        /\ UNCHANGED held
     \/ /\ ~departed[c] /\ connection # NoConnection
        /\ CallerAt(c, "ask")
        /\ held' = [held EXCEPT ![c] = connection]
        /\ UNCHANGED reply
  /\ UNCHANGED <<connection, generation, flight, departed, got, flowVars,
                 disconnectVars, livePairs, logins, fate>>

Presented(c) == Pair(held[c].login, held[c].serial)

\* The provider rotates the pair: from here on it takes the new one only.
Rotate(c) ==
  /\ position[c] = "ask"
  /\ Presented(c) \in livePairs
  /\ held[c].serial \in 1..(MaxSerial - 1)
  /\ livePairs' = (livePairs \ {Presented(c)})
                   \cup {Pair(held[c].login, held[c].serial + 1)}
  /\ got' = [got EXCEPT ![c] = held[c].serial + 1]
  /\ CallerAt(c, "rotated")
  /\ UNCHANGED <<connection, generation, flight, departed, held, reply, flowVars,
                 disconnectVars, logins, fate>>

\* The rotated pair arrives, and a later step of the refresh may still fail:
\* a PersistableRefreshError.
ReceiveToken(c) ==
  /\ position[c] = "rotated"
  /\ ~departed[c]
  /\ CallerAt(c, "put") \/ CallerAt(c, "partial")
  /\ UNCHANGED <<connection, generation, flight, departed, held, got, reply,
                 flowVars, disconnectVars, livePairs, logins, fate>>

\* A new access token for the same refresh token.
Keep(c) ==
  /\ position[c] = "ask"
  /\ ~departed[c]
  /\ Presented(c) \in livePairs
  /\ got' = [got EXCEPT ![c] = held[c].serial]
  /\ CallerAt(c, "put")
  /\ UNCHANGED <<connection, generation, flight, departed, held, reply, flowVars,
                 disconnectVars, livePairs, logins, fate>>

\* ErrReconnectRequired: the provider refuses the token for good.
Refuse(c) ==
  /\ position[c] = "ask"
  /\ ~departed[c]
  /\ Presented(c) \notin livePairs
  /\ reply' = [reply EXCEPT ![c] = "reconnect"]
  /\ CallerAt(c, "publish")
  /\ Suffers(held[c].login, "refused")
  /\ UNCHANGED <<connection, generation, flight, departed, held, got, flowVars,
                 disconnectVars, livePairs, logins>>

\* No usable answer arrives; one that carried a rotated pair is lost.
AskFails(c) ==
  /\ position[c] \in {"ask", "rotated"}
  /\ reply' = [reply EXCEPT ![c] = DatabaseError(c)]
  /\ CallerAt(c, "publish")
  /\ IF position[c] = "rotated" THEN Suffers(held[c].login, "lost") ELSE UNCHANGED fate
  /\ UNCHANGED <<connection, generation, flight, departed, held, got, flowVars,
                 disconnectVars, livePairs, logins>>

\* Variant: the guard of the write compares nothing.
WritableAlways(g) == TRUE

\* The guard of PutOAuthTokenIfGeneration, in one statement.
Writable(g) == generation = g /\ (connection = NoConnection \/ connection.gen = g)

\* Variant: the refresh token of the reply is not merged.
RefreshedStale(c) == GrantedRow(held[c].gen, held[c].login, held[c].serial)

Refreshed(c) == GrantedRow(held[c].gen, held[c].login, got[c])

\* The leader writes what it was given, on its own context.
PutToken(c) ==
  /\ position[c] \in {"put", "partial"}
  /\ \/ /\ ~departed[c] /\ Writable(held[c].gen)
        /\ connection' = Refreshed(c)
        /\ reply' = [reply EXCEPT ![c] = IF position[c] = "put" THEN "ok" ELSE "failed"]
        /\ UNCHANGED fate
     \/ /\ ~departed[c] /\ ~Writable(held[c].gen)
        /\ reply' = [reply EXCEPT ![c] = "failed"]
        /\ UNCHANGED <<connection, fate>>
     \/ /\ reply' = [reply EXCEPT ![c] = DatabaseError(c)]
        /\ Suffers(held[c].login, IF departed[c] THEN "cancelled" ELSE "lost")
        /\ UNCHANGED connection
  /\ CallerAt(c, "publish")
  /\ UNCHANGED <<generation, flight, departed, held, got, flowVars,
                 disconnectVars, livePairs, logins>>

\* The errors ForceRefresh takes for definitive.
Definitive(r) == r = "reconnect"

Settle(k, r) == IF k \in Forced /\ Definitive(r) THEN "mark" ELSE "done"

\* The locals of the leader are gone when it returns.
ForgetCall(c) ==
  /\ held' = [held EXCEPT ![c] = NoConnection]
  /\ got' = [got EXCEPT ![c] = 0]
  /\ reply' = [reply EXCEPT ![c] = "none"]

Tell(listeners, c) ==
  position' = [k \in TokenCallers |-> IF k \in listeners THEN Settle(k, reply[c]) ELSE position[k]]

Waiters == {k \in TokenCallers : position[k] = "waiting"}

\* Variant: a call that failed is left in the map.
PublishSuccess(c) ==
  /\ position[c] = "publish"
  /\ IF reply[c] = "ok" THEN flight' = NoOne /\ Tell({c} \cup Waiters, c)
                        ELSE Tell({c}, c) /\ UNCHANGED flight
  /\ ForgetCall(c)
  /\ UNCHANGED <<connection, generation, departed, flowVars, disconnectVars,
                 livePairs, logins, fate>>

\* The call leaves the map and its result goes to everyone who waited.
PublishRefresh(c) ==
  /\ position[c] = "publish"
  /\ flight' = NoOne
  /\ Tell({c} \cup Waiters, c)
  /\ ForgetCall(c)
  /\ UNCHANGED <<connection, generation, departed, flowVars, disconnectVars,
                 livePairs, logins, fate>>

\* SetOAuthState: an update of whatever row is there by now.
Mark(c) ==
  /\ position[c] = "mark"
  /\ \/ UNCHANGED connection
     \/ /\ ~departed[c] /\ connection # NoConnection
        /\ connection' = WithState(connection, "reconnect_required")
  /\ CallerAt(c, "done")
  /\ UNCHANGED <<generation, flight, departed, held, got, reply, flowVars,
                 disconnectVars, livePairs, logins, fate>>

-----------------------------------------------------------------------------
\* Browser flows: startProviderOAuth and its two completions.

FlowGoto(f, p) == fpc' = [fpc EXCEPT ![f] = p]

BeginFlow(f) ==
  /\ fpc[f] = "idle"
  /\ fgen' = [fgen EXCEPT ![f] = generation]
  /\ FlowGoto(f, "register")
  /\ UNCHANGED <<connection, generation, callerVars, departed, pending, flogin,
                 disconnectVars, livePairs, logins, fate>>

\* BeginWithGeneration: an open flow is in the way until its lifetime is over.
Register(f) ==
  /\ fpc[f] = "register"
  /\ \/ /\ pending # NoOne => fpc[pending] = "open"
        /\ pending' = f
        /\ FlowGoto(f, "recheck")
     \/ /\ pending # NoOne
        /\ FlowGoto(f, "done")
        /\ UNCHANGED pending
  /\ UNCHANGED <<connection, generation, callerVars, departed, fgen, flogin,
                 disconnectVars, livePairs, logins, fate>>

\* Variant: the generation is not read a second time.
RecheckNothing(f) ==
  /\ fpc[f] = "recheck"
  /\ FlowGoto(f, "open")
  /\ UNCHANGED <<connection, generation, callerVars, departed, pending, fgen,
                 flogin, disconnectVars, livePairs, logins, fate>>

\* The generation is read again: a disconnect meanwhile, or a failed read,
\* cancels the flow that is registered.
Recheck(f) ==
  /\ fpc[f] = "recheck"
  /\ \/ /\ generation = fgen[f]
        /\ FlowGoto(f, "open")
        /\ UNCHANGED pending
     \/ /\ pending' = NoOne
        /\ FlowGoto(f, "done")
  /\ UNCHANGED <<connection, generation, callerVars, departed, fgen, flogin,
                 disconnectVars, livePairs, logins, fate>>

\* Consume and TakeByState: the flow is used up, whatever becomes of it.  A
\* paste of an older flow's address uses up the one that is registered.
Callback(f) ==
  /\ fpc[f] = "open"
  /\ \/ pending = f /\ pending' = NoOne /\ FlowGoto(f, "exchange")
     \/ pending = f /\ pending' = NoOne /\ FlowGoto(f, "done")
     \/ pending # f /\ FlowGoto(f, "done") /\ pending' \in {pending, NoOne}
  /\ UNCHANGED <<connection, generation, callerVars, departed, fgen, flogin,
                 disconnectVars, livePairs, logins, fate>>

\* The provider grants a login, with a refresh token or without, or refuses.
Exchange(f) ==
  /\ fpc[f] = "exchange"
  /\ \/ \E s \in {0, 1} :
          /\ logins' = logins + 1
          /\ flogin' = [flogin EXCEPT ![f] = Pair(logins + 1, s)]
          /\ livePairs' = livePairs \cup {Pair(logins + 1, s)}
          /\ FlowGoto(f, "store")
     \/ FlowGoto(f, "done") /\ UNCHANGED <<logins, flogin, livePairs>>
  /\ UNCHANGED <<connection, generation, callerVars, departed, pending, fgen,
                 disconnectVars, fate>>

\* persistOAuthToken: the write is guarded by the generation of the flow.
Persist(f) ==
  /\ fpc[f] = "store"
  /\ \/ UNCHANGED connection
     \/ /\ Writable(fgen[f])
        /\ connection' = GrantedRow(fgen[f], flogin[f].login, flogin[f].serial)
  /\ FlowGoto(f, "done")
  /\ UNCHANGED <<generation, callerVars, departed, pending, fgen, flogin,
                 disconnectVars, livePairs, logins, fate>>

-----------------------------------------------------------------------------
\* disconnectProviderOAuth, the clock and the provider.

Advance ==
  /\ dpc = "idle"
  /\ generation < MaxGeneration
  /\ generation' = generation + 1
  /\ dpc' = "advanced"
  /\ UNCHANGED <<connection, callerVars, departed, flowVars, undeleted, livePairs,
                 logins, fate>>

\* A delete that fails ends the handler before it cancels the flows.
Delete ==
  /\ dpc = "advanced"
  /\ \/ connection' = NoConnection /\ dpc' = "deleted" /\ undeleted' = FALSE
     \/ undeleted' = TRUE /\ dpc' = "idle" /\ UNCHANGED connection
  /\ UNCHANGED <<generation, callerVars, departed, flowVars, livePairs, logins,
                 fate>>

CancelFlows ==
  /\ dpc = "deleted"
  /\ pending' = NoOne
  /\ dpc' = "idle"
  /\ UNCHANGED <<connection, generation, callerVars, departed, fpc, fgen, flogin,
                 undeleted, livePairs, logins, fate>>

\* The access token nears and passes its expiry.
AgeToken ==
  /\ connection # NoConnection
  /\ \/ connection.age = "fresh" /\ connection' = WithAge(connection, "due")
     \/ connection.age = "due" /\ connection' = WithAge(connection, "expired")
  /\ UNCHANGED <<generation, callerVars, departed, flowVars, disconnectVars,
                 livePairs, logins, fate>>

\* The user withdraws a login at the provider.
WithdrawLogin ==
  \E l \in 0..logins :
    /\ \E p \in livePairs : p.login = l
    /\ livePairs' = {p \in livePairs : p.login # l}
    /\ Suffers(l, "revoked")
    /\ UNCHANGED <<connection, generation, callerVars, departed, flowVars,
                   disconnectVars, logins>>

-----------------------------------------------------------------------------
\* What a caller does by itself, and what it waits for at the token endpoint.
OwnStep(c) ==
  \/ CurrentToken(c) \/ Join(c) \/ StopWaiting(c) \/ LoadToken(c)
  \/ PutToken(c) \/ PublishRefresh(c) \/ Mark(c)

EndpointStep(c) ==
  Rotate(c) \/ ReceiveToken(c) \/ Keep(c) \/ Refuse(c) \/ AskFails(c)

CallerStep(c) == OwnStep(c) \/ EndpointStep(c)

FlowStep(f) ==
  BeginFlow(f) \/ Register(f) \/ Recheck(f) \/ Callback(f) \/ Exchange(f) \/ Persist(f)

DisconnectProvider == Advance \/ Delete \/ CancelFlows

ConnectionNext ==
  \/ \E c \in TokenCallers : Call(c) \/ Leave(c) \/ CallerStep(c)
  \/ \E f \in Flows : FlowStep(f)
  \/ DisconnectProvider \/ AgeToken \/ WithdrawLogin

ConnectionSpec == ConnectionInit /\ [][ConnectionNext]_connectionVars

\* Fairness: a caller goes on by itself, and a call whose context has ended
\* fails.  The token endpoint owes nothing: the transport bounds the wait for
\* the headers of an answer, and nothing bounds the read of its body.
LiveSpec ==
  /\ ConnectionSpec
  /\ \A c \in TokenCallers : /\ WF_connectionVars(OwnStep(c))
                             /\ WF_connectionVars(departed[c] /\ AskFails(c))

-----------------------------------------------------------------------------
\* Every variable has its type, a leader past the load holds a real row and
\* only the caller in the map leads.
ConnectionTypeOK ==
  /\ connection \in ConnectionRows \cup {NoConnection}
  /\ generation \in Nat
  /\ flight \in TokenCallers \cup {NoOne}
  /\ position \in [TokenCallers -> CallerSteps]
  /\ departed \in [TokenCallers -> BOOLEAN]
  /\ held \in [TokenCallers -> ConnectionRows \cup {NoConnection}]
  /\ got \in [TokenCallers -> Nat]
  /\ reply \in [TokenCallers -> Replies]
  /\ pending \in Flows \cup {NoOne}
  /\ fpc \in [Flows -> FlowSteps]
  /\ fgen \in [Flows -> Nat]
  /\ flogin \in [Flows -> Pairs]
  /\ dpc \in {"idle", "advanced", "deleted"}
  /\ undeleted \in BOOLEAN
  /\ livePairs \subseteq Pairs
  /\ logins \in Nat
  /\ fate \subseteq Events
  /\ \A c \in TokenCallers :
       position[c] \in {"ask", "rotated", "put", "partial"} => held[c] \in ConnectionRows

\* A finished disconnect holds: no refresh, callback or dead-state write of an
\* earlier connection brings its row back (PutOAuthTokenIfGeneration).
DisconnectHolds ==
  connection # NoConnection /\ dpc # "advanced" /\ ~undeleted => connection.gen = generation

\* An open browser flow can still be stored: a disconnect that raced its start
\* has cancelled it (the second read of startProviderOAuth).
OpenFlowIsCurrent ==
  pending # NoOne /\ fpc[pending] = "open" /\ dpc = "idle" /\ ~undeleted
    => fgen[pending] = generation

\* A refresh token taken from the row of a standing connection has been spent
\* only if its login was withdrawn, or if the pair that replaced it was lost
\* on the way, or while the leader of the one call in flight still holds that
\* pair.
TokenSpent(r) == Pair(r.login, r.serial) \notin livePairs

Befell(l, f) == Event(l, f) \in fate

HeldByLeader ==
  /\ flight # NoOne
  /\ position[flight] \in {"rotated", "put", "partial"}
  /\ held[flight].login = connection.login

StoredTokenIsLive ==
  connection # NoConnection /\ connection.gen = generation /\ TokenSpent(connection)
    => \/ \E f \in {"revoked", "lost", "cancelled"} : Befell(connection.login, f)
       \/ HeldByLeader

\* What a connection promises while refreshes, flows and a disconnect write it.
ConnectionHolds == DisconnectHolds /\ OpenFlowIsCurrent /\ StoredTokenIsLive

\* The pair of a rotation that has arrived is stored, whatever else fails: a
\* standing connection is not left with a spent token because the client that
\* led the refresh went away.
RotatedPairIsKept ==
  connection # NoConnection /\ connection.gen = generation /\ TokenSpent(connection)
    => \/ \E f \in {"revoked", "lost"} : Befell(connection.login, f)
       \/ HeldByLeader

\* A connection is dead only on a definitive signal about that connection: the
\* provider has refused a token of the login that is stored.
DeadIsDefinitive ==
  connection.state = "reconnect_required" => Befell(connection.login, "refused")

\* What the shared refresh promises; of the dead state, as long as no new login
\* replaces the connection under it.
RefreshHolds == ConnectionTypeOK /\ StoredTokenIsLive /\ (logins = 0 => DeadIsDefinitive)

\* The write of a refresh never undoes a login that replaced the connection
\* meanwhile.
ReplacementStands ==
  [][connection # NoConnection /\ connection' # NoConnection
       => connection'.login >= connection.login]_connection

\* The leader waits for the token endpoint, whose answer may stall for ever.
Stalled ==
  /\ flight # NoOne
  /\ position[flight] \in {"ask", "rotated"}
  /\ ~departed[flight]

\* Nothing outside the process keeps a caller from its result: it has left, or it
\* asked for a token and no answer of the token endpoint is outstanding.
Owed(c) ==
  /\ position[c] \notin {"idle", "done"}
  /\ departed[c] \/ (position[c] \in {"join", "waiting"} /\ ~Stalled)

\* Whoever asks for a token returns, a waiter included, whatever becomes of the
\* leader, unless an answer of the token endpoint stalls for ever; and whoever
\* leaves returns even then (Manager.refresh): time and again nobody is owed.
Returns == []<>(\A c \in TokenCallers : ~Owed(c))
=============================================================================
