----------------------- MODULE OAuthConnectionProofs -----------------------
(***************************************************************************)
(* What holds of an OAuth connection for any number of callers, flows,     *)
(* rotations and disconnects.                                              *)
(*                                                                         *)
(* A finished disconnect holds because every row carries the generation it *)
(* was written under and generations only grow.  A stored refresh token is *)
(* live because at most one caller is past the map (OneLeader), the pair   *)
(* it was given is the one the provider takes (HandIsLive), and a login is *)
(* stored under one generation only (OneGeneration), so that a leader whose *)
(* write is refused holds no token of the row that stands.                 *)
(***************************************************************************)
EXTENDS OAuthConnection, TLAPS

USE ConnectionAssumption

-----------------------------------------------------------------------------
\* Rows, pairs and events are built from naturals and taken apart into them.
LEMMA RowTypes ==
  /\ NoConnection \notin ConnectionRows
  /\ \A g, l, s \in Nat : GrantedRow(g, l, s) \in ConnectionRows
  /\ \A r \in ConnectionRows : r.gen \in Nat /\ r.login \in Nat /\ r.serial \in Nat
  /\ \A r \in ConnectionRows, a \in Ages : WithAge(r, a) \in ConnectionRows
  /\ \A r \in ConnectionRows : WithState(r, "reconnect_required") \in ConnectionRows
  BY DEF ConnectionRows, NoConnection, GrantedRow, Ages, WithAge, WithState

LEMMA PairTypes ==
  /\ \A l, s \in Nat : Pair(l, s) \in Pairs
  /\ \A p \in Pairs : p.login \in Nat /\ p.serial \in Nat
  /\ \A l \in Nat, f \in Fates : Event(l, f) \in Events
  BY DEF Pair, Pairs, Event, Events

LEMMA InitType == ConnectionInit => ConnectionTypeOK
<1> SUFFICES ASSUME ConnectionInit PROVE ConnectionTypeOK
  OBVIOUS
<1>1. connection \in ConnectionRows \cup {NoConnection} /\ livePairs \subseteq Pairs
  BY RowTypes, PairTypes DEF ConnectionInit
<1>2. flogin \in [Flows -> Pairs]
  BY PairTypes DEF ConnectionInit
<1> QED
  BY <1>1, <1>2, RowTypes DEF ConnectionInit, ConnectionTypeOK, CallerSteps, FlowSteps, Replies

LEMMA CallerType ==
  ASSUME ConnectionTypeOK, NEW c \in TokenCallers, Call(c) \/ Leave(c) \/ CallerStep(c)
  PROVE  ConnectionTypeOK'
<1> USE RowTypes, PairTypes
    DEF ConnectionTypeOK, CallerAt, CallerSteps, Leading, Replies, callerVars, flowVars,
    disconnectVars
<1>1. CASE Call(c)
  BY <1>1 DEF Call
<1>2. CASE Leave(c)
  BY <1>2 DEF Leave
<1>3. CASE CurrentToken(c)
  BY <1>3 DEF CurrentToken
<1>4. CASE Join(c)
  BY <1>4 DEF Join
<1>5. CASE StopWaiting(c)
  BY <1>5 DEF StopWaiting
<1>6. CASE LoadToken(c)
  <2>1. CASE position'[c] = "ask"
    <3>1. connection \in ConnectionRows /\ held' = [held EXCEPT ![c] = connection] /\ UNCHANGED reply
      BY <1>6, <2>1 DEF LoadToken
    <3> QED
      BY <1>6, <2>1, <3>1 DEF LoadToken
  <2>2. CASE position'[c] # "ask"
    BY <1>6, <2>2 DEF LoadToken, DatabaseError
  <2> QED
    BY <2>1, <2>2
<1>7. CASE Rotate(c)
  <2>1. held[c] \in ConnectionRows
    BY <1>7 DEF Rotate
  <2>2. Pair(held[c].login, held[c].serial + 1) \in Pairs /\ held[c].serial + 1 \in Nat
    BY <2>1
  <2>3. livePairs' \subseteq Pairs
    BY <1>7, <2>2 DEF Rotate
  <2> QED
    BY <1>7, <2>1, <2>2, <2>3 DEF Rotate
<1>8. CASE ReceiveToken(c)
  <2>1. position' \in [TokenCallers -> CallerSteps]
    BY <1>8 DEF ReceiveToken
  <2> QED
    BY <1>8, <2>1 DEF ReceiveToken
<1>9. CASE Keep(c)
  BY <1>9 DEF Keep
<1>10. CASE Refuse(c)
  <2>1. fate' \subseteq Events
    BY <1>10 DEF Refuse, Suffers, Fates
  <2> QED
    BY <1>10, <2>1 DEF Refuse
<1>11. CASE AskFails(c)
  <2>1. CASE position[c] = "rotated"
    <3>1. Event(held[c].login, "lost") \in Events
      BY <2>1 DEF Fates
    <3>2. fate' \subseteq Events
      BY <1>11, <2>1, <3>1 DEF AskFails, Suffers
    <3> QED
      BY <1>11, <3>2 DEF AskFails, DatabaseError
  <2>2. CASE position[c] = "ask"
    BY <1>11, <2>2 DEF AskFails, DatabaseError
  <2> QED
    BY <1>11, <2>1, <2>2 DEF AskFails
<1>12. CASE PutToken(c)
  <2>1. fate' \subseteq Events /\ connection' \in ConnectionRows \cup {NoConnection}
    BY <1>12 DEF PutToken, Refreshed, Suffers, Fates
  <2> QED
    BY <1>12, <2>1 DEF PutToken, DatabaseError
<1>13. CASE PublishRefresh(c)
  BY <1>13 DEF PublishRefresh, Tell, ForgetCall, Settle, Waiters
<1>14. CASE Mark(c)
  <2>1. connection' \in ConnectionRows \cup {NoConnection}
    BY <1>14 DEF Mark
  <2> QED
    BY <1>14, <2>1 DEF Mark
<1> QED
  BY <1>1, <1>2, <1>3, <1>4, <1>5, <1>6, <1>7, <1>8, <1>9, <1>10, <1>11, <1>12,
     <1>13, <1>14 DEF CallerStep, OwnStep, EndpointStep

LEMMA OtherType ==
  ASSUME ConnectionTypeOK,
         \/ \E f \in Flows : FlowStep(f)
         \/ DisconnectProvider \/ AgeToken \/ WithdrawLogin \/ UNCHANGED connectionVars
  PROVE  ConnectionTypeOK'
<1> USE RowTypes, PairTypes DEF ConnectionTypeOK, FlowGoto, FlowSteps, callerVars, flowVars,
   disconnectVars
<1>1. ASSUME NEW f \in Flows, BeginFlow(f) PROVE ConnectionTypeOK'
  BY <1>1 DEF BeginFlow
<1>2. ASSUME NEW f \in Flows, Register(f) PROVE ConnectionTypeOK'
  BY <1>2 DEF Register
<1>3. ASSUME NEW f \in Flows, Recheck(f) PROVE ConnectionTypeOK'
  BY <1>3 DEF Recheck
<1>4. ASSUME NEW f \in Flows, Callback(f) PROVE ConnectionTypeOK'
  BY <1>4 DEF Callback
<1>5. ASSUME NEW f \in Flows, Exchange(f) PROVE ConnectionTypeOK'
  <2>1. CASE UNCHANGED <<logins, flogin, livePairs>>
    BY <1>5, <2>1 DEF Exchange
  <2>2. ASSUME NEW s \in {0, 1},
               logins' = logins + 1,
               flogin' = [flogin EXCEPT ![f] = Pair(logins + 1, s)],
               livePairs' = livePairs \cup {Pair(logins + 1, s)}
        PROVE  ConnectionTypeOK'
    <3>1. Pair(logins + 1, s) \in Pairs /\ logins + 1 \in Nat
      OBVIOUS
    <3> QED
      BY <1>5, <2>2, <3>1 DEF Exchange
  <2> QED
    BY <1>5, <2>1, <2>2 DEF Exchange
<1>6. ASSUME NEW f \in Flows, Persist(f) PROVE ConnectionTypeOK'
  <2>1. connection' \in ConnectionRows \cup {NoConnection}
    BY <1>6 DEF Persist
  <2> QED
    BY <1>6, <2>1 DEF Persist
<1>7. ASSUME DisconnectProvider PROVE ConnectionTypeOK'
  <2>1. CASE Advance
    BY <2>1 DEF Advance
  <2>2. CASE Delete
    <3>1. undeleted' \in BOOLEAN
      BY <2>2, Zenon DEF Delete
    <3>2. connection' \in ConnectionRows \cup {NoConnection} /\ dpc' \in {"idle", "advanced", "deleted"}
      BY <2>2 DEF Delete
    <3> QED
      BY <2>2, <3>1, <3>2 DEF Delete
  <2>3. CASE CancelFlows
    BY <2>3 DEF CancelFlows
  <2> QED
    BY <1>7, <2>1, <2>2, <2>3 DEF DisconnectProvider
<1>8. ASSUME AgeToken PROVE ConnectionTypeOK'
  <2>1. connection' \in ConnectionRows
    BY <1>8 DEF AgeToken, Ages
  <2> QED
    BY <1>8, <2>1 DEF AgeToken
<1>9. ASSUME WithdrawLogin PROVE ConnectionTypeOK'
  <2>1. livePairs' \subseteq Pairs /\ fate' \subseteq Events
    BY <1>9 DEF WithdrawLogin, Suffers, Fates
  <2> QED
    BY <1>9, <2>1 DEF WithdrawLogin
<1>10. CASE UNCHANGED connectionVars
  BY <1>10 DEF connectionVars
<1> QED
  BY <1>1, <1>2, <1>3, <1>4, <1>5, <1>6, <1>7, <1>8, <1>9, <1>10 DEF FlowStep

\* Every variable keeps its type, and a leader past its load holds a row.
THEOREM TypeCorrect == ConnectionSpec => []ConnectionTypeOK
<1>1. ConnectionTypeOK /\ [ConnectionNext]_connectionVars => ConnectionTypeOK'
  BY CallerType, OtherType DEF ConnectionNext
<1> QED
  BY InitType, <1>1, PTL DEF ConnectionSpec

-----------------------------------------------------------------------------
\* What the records are made of, so that the steps need not look inside.
LEMMA Fields ==
  /\ \A g, l, s : /\ GrantedRow(g, l, s).gen = g
                  /\ GrantedRow(g, l, s).login = l
                  /\ GrantedRow(g, l, s).serial = s
                  /\ GrantedRow(g, l, s) # NoConnection
  /\ NoConnection.gen = 0 /\ NoConnection.login = 0
  /\ \A r \in ConnectionRows : \A a : /\ WithAge(r, a).gen = r.gen
                              /\ WithAge(r, a).login = r.login
                              /\ WithAge(r, a).serial = r.serial
  /\ \A r \in ConnectionRows : \A s : /\ WithState(r, s).gen = r.gen
                              /\ WithState(r, s).login = r.login
                              /\ WithState(r, s).serial = r.serial
  /\ \A l, s : Pair(l, s).login = l /\ Pair(l, s).serial = s
  /\ \A p \in Pairs : Pair(p.login, p.serial) = p
  BY DEF GrantedRow, NoConnection, WithAge, WithState, Pair, ConnectionRows, Pairs

\* Everything was written under a generation that has begun, and belongs to a
\* login that has been granted.
Begun ==
  /\ connection.gen <= generation /\ connection.login <= logins
  /\ \A c \in TokenCallers : held[c].gen <= generation /\ held[c].login <= logins
  /\ \A f \in Flows : fgen[f] <= generation
  /\ \A f \in Flows : fpc[f] = "store" => flogin[f].login <= logins

\* Only the caller in the map leads, and only it holds a record.
OneLeader ==
  \A c \in TokenCallers : position[c] \in Leading \/ held[c] # NoConnection => flight = c

\* A login is stored under one generation.
OneGeneration ==
  \A c \in TokenCallers :
    connection # NoConnection /\ held[c] # NoConnection /\ held[c].login = connection.login
      => held[c].gen = connection.gen

\* A login on its way to the row is nobody else's yet.
FreshLogin ==
  \A f \in Flows : fpc[f] = "store" =>
    /\ connection # NoConnection => connection.login # flogin[f].login
    /\ \A c \in TokenCallers : held[c] # NoConnection => held[c].login # flogin[f].login
    /\ \A g \in Flows \ {f} : fpc[g] = "store" => flogin[g].login # flogin[f].login

LiveOrRevoked(p) == p \in livePairs \/ Befell(p.login, "revoked")

\* The pair a leader was given is the one the provider takes.
HandIsLive ==
  \A c \in TokenCallers :
    position[c] \in {"rotated", "put", "partial"} => LiveOrRevoked(Pair(held[c].login, got[c]))

FlowIsLive == \A f \in Flows : fpc[f] = "store" => LiveOrRevoked(flogin[f])

Guarded == Begun /\ DisconnectHolds /\ OpenFlowIsCurrent

Tracked ==
  /\ OneLeader /\ OneGeneration /\ FreshLogin
  /\ HandIsLive /\ FlowIsLive /\ StoredTokenIsLive

Inv == ConnectionTypeOK /\ Guarded /\ Tracked

LEMMA InitInv == ConnectionInit => Inv
<1> SUFFICES ASSUME ConnectionInit PROVE Inv
  OBVIOUS
<1>1. ConnectionTypeOK
  BY InitType
<1>2. connection.gen = 0 /\ connection.login = 0
  BY Fields DEF ConnectionInit
<1>3. Guarded
  BY <1>2, Fields DEF ConnectionInit, Guarded, Begun, DisconnectHolds, OpenFlowIsCurrent
<1>4. connection # NoConnection => ~TokenSpent(connection)
  BY Fields DEF ConnectionInit, TokenSpent
<1>5. Tracked
  BY <1>4 DEF ConnectionInit, Tracked, OneLeader, OneGeneration, FreshLogin, HandIsLive,
              FlowIsLive, StoredTokenIsLive, Leading
<1> QED
  BY <1>1, <1>3, <1>5 DEF Inv

-----------------------------------------------------------------------------
\* Naturals that the steps below compare.
LEMMA Sizes ==
  ASSUME ConnectionTypeOK
  PROVE  /\ connection.gen \in Nat /\ connection.login \in Nat /\ generation \in Nat /\ logins \in Nat
         /\ connection # NoConnection => connection \in ConnectionRows
         /\ \A c \in TokenCallers : held[c].gen \in Nat /\ held[c].login \in Nat
         /\ \A c \in TokenCallers :
              position[c] \in {"ask", "rotated", "put", "partial"} => held[c] \in ConnectionRows
         /\ \A f \in Flows : fgen[f] \in Nat /\ flogin[f].login \in Nat
<1>1. \A c \in TokenCallers : held[c] \in ConnectionRows \cup {NoConnection}
  BY DEF ConnectionTypeOK
<1>2. \A f \in Flows : flogin[f] \in Pairs
  BY DEF ConnectionTypeOK
<1> QED
  BY <1>1, <1>2, RowTypes, PairTypes, Fields DEF ConnectionTypeOK

LEMMA CallerGuarded ==
  ASSUME Inv, ConnectionTypeOK', NEW c \in TokenCallers, Call(c) \/ Leave(c) \/ CallerStep(c)
  PROVE  Guarded'
<1> USE Fields, Sizes DEF Inv, Guarded
<1> USE DEF callerVars, flowVars, disconnectVars
<1>1. CASE UNCHANGED <<connection, held, generation, logins, flowVars, disconnectVars>>
  BY <1>1 DEF Begun, DisconnectHolds, OpenFlowIsCurrent
<1>2. CASE LoadToken(c)
  <2>1. \A k \in TokenCallers : held'[k] = held[k] \/ held'[k] = connection
    BY <1>2 DEF LoadToken, ConnectionTypeOK
  <2>2. Begun'
    BY <1>2, <2>1 DEF LoadToken, Begun
  <2> QED
    BY <1>2, <2>2 DEF LoadToken, DisconnectHolds, OpenFlowIsCurrent
<1>3. CASE PutToken(c)
  <2>1. UNCHANGED <<held, generation, logins, flowVars, disconnectVars>>
    BY <1>3 DEF PutToken
  <2>2. connection' = connection \/ (connection'.gen = held[c].gen /\ connection'.login = held[c].login
                         /\ held[c].gen = generation)
    BY <1>3 DEF PutToken, Refreshed, Writable
  <2>3. Begun'
    BY <2>1, <2>2 DEF Begun
  <2>4. DisconnectHolds' /\ OpenFlowIsCurrent'
    BY <2>1, <2>2 DEF DisconnectHolds, OpenFlowIsCurrent
  <2> QED
    BY <2>3, <2>4
<1>4. CASE PublishRefresh(c)
  <2>1. UNCHANGED <<connection, generation, logins, flowVars, disconnectVars>>
    BY <1>4 DEF PublishRefresh
  <2>2. \A k \in TokenCallers : held'[k] = held[k] \/ held'[k] = NoConnection
    BY <1>4 DEF PublishRefresh, ForgetCall, ConnectionTypeOK
  <2>3. Begun'
    BY <2>1, <2>2 DEF Begun
  <2> QED
    BY <2>1, <2>3 DEF DisconnectHolds, OpenFlowIsCurrent
<1>5. CASE Mark(c)
  <2>1. UNCHANGED <<held, generation, logins, flowVars, disconnectVars>>
    BY <1>5 DEF Mark
  <2>2. \/ connection' = connection
        \/ /\ connection # NoConnection /\ connection'.gen = connection.gen
           /\ connection'.login = connection.login
    BY <1>5 DEF Mark
  <2>3. Begun'
    BY <2>1, <2>2 DEF Begun
  <2> QED
    BY <2>1, <2>2, <2>3 DEF DisconnectHolds, OpenFlowIsCurrent
<1>6. Call(c) \/ Leave(c) \/ CurrentToken(c) \/ Join(c) \/ StopWaiting(c) \/ Rotate(c)
        \/ ReceiveToken(c) \/ Keep(c) \/ Refuse(c) \/ AskFails(c)
      => UNCHANGED <<connection, held, generation, logins, flowVars, disconnectVars>>
  BY DEF Call, Leave, CurrentToken, Join, StopWaiting, Rotate, ReceiveToken, Keep, Refuse, AskFails
<1> QED
  BY <1>1, <1>2, <1>3, <1>4, <1>5, <1>6 DEF CallerStep, OwnStep, EndpointStep

LEMMA FlowGuarded ==
  ASSUME Inv, ConnectionTypeOK', NEW f \in Flows, FlowStep(f)
  PROVE  Guarded'
<1> USE Fields, Sizes DEF Inv, Guarded
<1> USE DEF callerVars, flowVars, disconnectVars, FlowGoto
<1>1. CASE BeginFlow(f)
  BY <1>1 DEF BeginFlow, ConnectionTypeOK, Begun, DisconnectHolds, OpenFlowIsCurrent
<1>2. CASE Register(f)
  BY <1>2 DEF Register, ConnectionTypeOK, Begun, DisconnectHolds, OpenFlowIsCurrent
<1>3. CASE Recheck(f)
  BY <1>3 DEF Recheck, ConnectionTypeOK, Begun, DisconnectHolds, OpenFlowIsCurrent
<1>4. CASE Callback(f)
  BY <1>4 DEF Callback, ConnectionTypeOK, Begun, DisconnectHolds, OpenFlowIsCurrent
<1>5. CASE Exchange(f)
  <2>1. UNCHANGED <<connection, generation, held, pending, fgen, dpc, undeleted>>
    BY <1>5 DEF Exchange
  <2>2. /\ logins' \in {logins, logins + 1}
        /\ \A g \in Flows : fpc'[g] = "store" =>
             \/ g # f /\ fpc[g] = "store" /\ flogin'[g] = flogin[g]
             \/ g = f /\ flogin'[f].login = logins + 1 /\ logins' = logins + 1
    BY <1>5 DEF Exchange, ConnectionTypeOK
  <2>3. Begun'
    BY <2>1, <2>2 DEF Begun
  <2>4. \A g \in Flows : fpc'[g] = "open" => fpc[g] = "open"
    BY <1>5 DEF Exchange, ConnectionTypeOK
  <2>5. DisconnectHolds' /\ OpenFlowIsCurrent'
    BY <2>1, <2>4 DEF DisconnectHolds, OpenFlowIsCurrent, ConnectionTypeOK
  <2> QED
    BY <2>3, <2>5
<1>6. CASE Persist(f)
  <2>1. UNCHANGED <<held, generation, logins, pending, fgen, flogin, disconnectVars>>
    BY <1>6 DEF Persist
  <2>2. connection' = connection \/ (connection'.gen = fgen[f] /\ connection'.login = flogin[f].login
                         /\ fgen[f] = generation)
    BY <1>6 DEF Persist, Writable
  <2>3. \A g \in Flows : fpc'[g] = fpc[g] \/ fpc'[g] = "done"
    BY <1>6 DEF Persist, ConnectionTypeOK
  <2>4. fpc[f] = "store"
    BY <1>6 DEF Persist
  <2>5. Begun'
    BY <2>1, <2>2, <2>3, <2>4 DEF Begun
  <2>6. DisconnectHolds' /\ OpenFlowIsCurrent'
    BY <2>1, <2>2, <2>3 DEF DisconnectHolds, OpenFlowIsCurrent, ConnectionTypeOK
  <2> QED
    BY <2>5, <2>6
<1> QED
  BY <1>1, <1>2, <1>3, <1>4, <1>5, <1>6 DEF FlowStep

LEMMA OtherGuarded ==
  ASSUME Inv, ConnectionTypeOK', DisconnectProvider \/ AgeToken \/ WithdrawLogin \/ UNCHANGED connectionVars
  PROVE  Guarded'
<1> USE Fields, Sizes DEF Inv, Guarded
<1> USE DEF callerVars, flowVars, disconnectVars
<1>1. CASE Advance
  <2>1. UNCHANGED <<connection, held, logins, flowVars>> /\ generation' = generation + 1
        /\ dpc' = "advanced"
    BY <1>1 DEF Advance
  <2>2. Begun'
    BY <2>1 DEF Begun
  <2> QED
    BY <2>1, <2>2 DEF DisconnectHolds, OpenFlowIsCurrent
<1>2. CASE Delete
  <2>1. UNCHANGED <<held, generation, logins, flowVars>> /\ connection' \in {connection, NoConnection}
    BY <1>2 DEF Delete
  <2>2. Begun'
    BY <2>1 DEF Begun
  <2>3. DisconnectHolds' /\ OpenFlowIsCurrent'
    BY <1>2 DEF Delete, DisconnectHolds, OpenFlowIsCurrent
  <2> QED
    BY <2>2, <2>3
<1>3. CASE CancelFlows
  <2>1. UNCHANGED <<connection, held, generation, logins, fpc, fgen, flogin, undeleted>>
        /\ pending' = NoOne /\ dpc = "deleted"
    BY <1>3 DEF CancelFlows
  <2>2. Begun'
    BY <2>1 DEF Begun
  <2> QED
    BY <2>1, <2>2 DEF DisconnectHolds, OpenFlowIsCurrent
<1>4. CASE AgeToken
  <2>1. UNCHANGED <<held, generation, logins, flowVars, disconnectVars>>
        /\ connection # NoConnection /\ connection'.gen = connection.gen /\ connection'.login = connection.login
    BY <1>4 DEF AgeToken
  <2>2. Begun'
    BY <2>1 DEF Begun
  <2> QED
    BY <2>1, <2>2 DEF DisconnectHolds, OpenFlowIsCurrent
<1>5. CASE WithdrawLogin \/ UNCHANGED connectionVars
  <2>1. UNCHANGED <<connection, held, generation, logins, flowVars, disconnectVars>>
    BY <1>5 DEF WithdrawLogin, connectionVars
  <2> QED
    BY <2>1 DEF Begun, DisconnectHolds, OpenFlowIsCurrent
<1> QED
  BY <1>1, <1>2, <1>3, <1>4, <1>5 DEF DisconnectProvider

-----------------------------------------------------------------------------
\* Steps of callers that move neither the row nor a token.
LEMMA QuietTracked ==
  ASSUME Inv, NEW c \in TokenCallers,
         \/ Call(c) \/ Leave(c) \/ CurrentToken(c) \/ Join(c) \/ StopWaiting(c)
         \/ ReceiveToken(c) \/ PublishRefresh(c)
  PROVE  Tracked'
<1> USE DEF Inv, Tracked, callerVars, flowVars, disconnectVars
<1>1. UNCHANGED <<connection, generation, fpc, flogin, livePairs, logins, fate>>
  BY DEF Call, Leave, CurrentToken, Join, StopWaiting, ReceiveToken, PublishRefresh
<1>2. \A k \in TokenCallers : held'[k] = held[k] \/ held'[k] = NoConnection
  BY DEF Call, Leave, CurrentToken, Join, StopWaiting, ReceiveToken, PublishRefresh, ForgetCall,
     ConnectionTypeOK
<1>3. OneLeader'
  <2>1. CASE Join(c)
    BY <2>1 DEF Join, CallerAt, OneLeader, ConnectionTypeOK, Leading
  <2>2. CASE PublishRefresh(c)
    BY <2>2 DEF PublishRefresh, Tell, ForgetCall, Settle, Waiters, OneLeader, ConnectionTypeOK,
       Leading
  <2>3. CASE Call(c) \/ Leave(c) \/ CurrentToken(c) \/ StopWaiting(c) \/ ReceiveToken(c)
    BY <2>3 DEF Call, Leave, CurrentToken, StopWaiting, ReceiveToken, CallerAt, OneLeader,
       ConnectionTypeOK,
                Leading
  <2> QED
    BY <2>1, <2>2, <2>3
<1>4. OneGeneration' /\ FreshLogin'
  BY <1>1, <1>2 DEF OneGeneration, FreshLogin
<1>5. FlowIsLive'
  BY <1>1 DEF FlowIsLive, LiveOrRevoked, Befell
<1>6. \A k \in TokenCallers : position'[k] \in {"rotated", "put", "partial"} =>
        position[k] \in {"rotated", "put", "partial"} /\ held'[k] = held[k] /\ got'[k] = got[k]
  BY DEF Call, Leave, CurrentToken, Join, StopWaiting, ReceiveToken, PublishRefresh, CallerAt, Tell,
     ForgetCall,
         Settle, Waiters, ConnectionTypeOK
<1>7. HandIsLive'
  BY <1>1, <1>6 DEF HandIsLive, LiveOrRevoked, Befell
<1>8. HeldByLeader => HeldByLeader'
  <2>1. CASE Join(c)
    BY <2>1 DEF Join, CallerAt, HeldByLeader, ConnectionTypeOK
  <2>2. CASE PublishRefresh(c)
    BY <2>2 DEF PublishRefresh, HeldByLeader, OneLeader, Leading
  <2>3. CASE Call(c) \/ Leave(c) \/ CurrentToken(c) \/ StopWaiting(c) \/ ReceiveToken(c)
    BY <2>3 DEF Call, Leave, CurrentToken, StopWaiting, ReceiveToken, CallerAt, HeldByLeader,
       ConnectionTypeOK
  <2> QED
    BY <2>1, <2>2, <2>3
<1>9. StoredTokenIsLive'
  BY <1>1, <1>8 DEF StoredTokenIsLive, TokenSpent, Befell
<1> QED
  BY <1>3, <1>4, <1>5, <1>7, <1>9

\* The leader reads the row: it holds the login of the row from here on.
LEMMA LoadTracked ==
  ASSUME Inv, NEW c \in TokenCallers, LoadToken(c)
  PROVE  Tracked'
<1> USE DEF Inv, Tracked, callerVars, flowVars, disconnectVars
<1>1. UNCHANGED <<connection, generation, flight, got, fpc, flogin, livePairs, logins, fate>>
  BY DEF LoadToken
<1>2. position[c] = "load" /\ flight = c
  BY DEF LoadToken, OneLeader, Leading
<1>3. \A k \in TokenCallers : held'[k] = held[k] \/ (k = c /\ held'[k] = connection)
  BY DEF LoadToken, ConnectionTypeOK
<1>4. \A k \in TokenCallers : position'[k] = position[k] \/ (k = c /\ position'[k] \in {"ask", "publish"})
  BY DEF LoadToken, CallerAt, ConnectionTypeOK
<1>5. OneLeader'
  BY <1>1, <1>2, <1>3, <1>4 DEF OneLeader
<1>6. OneGeneration' /\ FreshLogin'
  BY <1>1, <1>3 DEF OneGeneration, FreshLogin
<1>7. FlowIsLive'
  BY <1>1 DEF FlowIsLive, LiveOrRevoked, Befell
<1>8. \A k \in TokenCallers : position'[k] \in {"rotated", "put", "partial"} =>
        position[k] = position'[k] /\ held'[k] = held[k]
  BY <1>2, <1>3, <1>4, <1>5, <1>1 DEF OneLeader, Leading
<1>9. HandIsLive'
  BY <1>1, <1>8 DEF HandIsLive, LiveOrRevoked, Befell
<1>10. StoredTokenIsLive'
  BY <1>1, <1>2 DEF StoredTokenIsLive, TokenSpent, Befell, HeldByLeader
<1> QED
  BY <1>5, <1>6, <1>7, <1>9, <1>10

\* The provider takes the new pair of the leader instead of the one it
\* presented, and no pair of another login is touched.
LEMMA RotateTracked ==
  ASSUME Inv, NEW c \in TokenCallers, Rotate(c)
  PROVE  Tracked'
<1> USE DEF Inv, Tracked, callerVars, flowVars, disconnectVars
<1>1. UNCHANGED <<connection, generation, flight, held, fpc, flogin, logins, fate>>
  BY DEF Rotate
<1>2. position[c] = "ask" /\ flight = c /\ held[c] # NoConnection
  BY Sizes, RowTypes DEF Rotate, OneLeader, Leading
<1>3. position' = [position EXCEPT ![c] = "rotated"] /\ got'[c] = held[c].serial + 1
  BY DEF Rotate, CallerAt, ConnectionTypeOK
<1>4. /\ Pair(held[c].login, got'[c]) \in livePairs'
      /\ \A p \in livePairs : p # Presented(c) => p \in livePairs'
  BY <1>3 DEF Rotate
<1>5. OneLeader' /\ OneGeneration' /\ FreshLogin'
  BY <1>1, <1>2, <1>3 DEF OneLeader, OneGeneration, FreshLogin, ConnectionTypeOK
<1>6. \A k \in TokenCallers : position'[k] \in {"rotated", "put", "partial"} => k = c
  BY <1>1, <1>5 DEF OneLeader, Leading, Rotate
<1>7. HandIsLive'
  BY <1>1, <1>4, <1>6 DEF HandIsLive, LiveOrRevoked
<1>8. \A f \in Flows : fpc[f] = "store" => flogin[f] # Presented(c)
  BY <1>2, Fields DEF FreshLogin, Presented
<1>9. FlowIsLive'
  BY <1>1, <1>4, <1>8 DEF FlowIsLive, LiveOrRevoked, Befell
<1>10. position'[flight'] = "rotated" /\ flight' # NoOne
  BY <1>1, <1>2, <1>3 DEF ConnectionTypeOK
<1>11. Presented(c) = Pair(connection.login, connection.serial) => HeldByLeader'
  BY <1>1, <1>2, <1>10, Fields DEF Presented, HeldByLeader
<1>12. ~HeldByLeader
  BY <1>2 DEF HeldByLeader
<1>13. StoredTokenIsLive'
  BY <1>1, <1>4, <1>11, <1>12 DEF StoredTokenIsLive, TokenSpent, Befell
<1> QED
  BY <1>5, <1>7, <1>9, <1>13

\* An answer that carries no rotated pair, or none at all.  If a pair is lost
\* on the way the history says so.
LEMMA AnswerTracked ==
  ASSUME Inv, NEW c \in TokenCallers, Keep(c) \/ Refuse(c) \/ AskFails(c)
  PROVE  Tracked'
<1> USE DEF Inv, Tracked, callerVars, flowVars, disconnectVars
<1>1. UNCHANGED <<connection, generation, flight, held, fpc, flogin, livePairs, logins>>
  BY DEF Keep, Refuse, AskFails
<1>2. position[c] \in {"ask", "rotated"} /\ flight = c
  BY DEF Keep, Refuse, AskFails, OneLeader, Leading
<1>3. fate \subseteq fate'
  BY DEF Keep, Refuse, AskFails, Suffers
<1>4. \A k \in TokenCallers : position'[k] = position[k] \/ (k = c /\ position'[k] \in {"put", "publish"})
  BY DEF Keep, Refuse, AskFails, CallerAt, ConnectionTypeOK
<1>5. OneLeader' /\ OneGeneration' /\ FreshLogin'
  BY <1>1, <1>2, <1>4 DEF OneLeader, OneGeneration, FreshLogin
<1>6. FlowIsLive'
  BY <1>1, <1>3 DEF FlowIsLive, LiveOrRevoked, Befell
<1>7. \A k \in TokenCallers : position'[k] \in {"rotated", "put", "partial"} => k = c
  BY <1>1, <1>2, <1>5 DEF OneLeader, Leading
<1>8. HandIsLive'
  <2>1. CASE Keep(c)
    <3>1. Pair(held[c].login, got'[c]) \in livePairs
      BY <2>1 DEF Keep, Presented, ConnectionTypeOK
    <3> QED
      BY <1>1, <1>7, <3>1 DEF HandIsLive, LiveOrRevoked
  <2>2. CASE Refuse(c) \/ AskFails(c)
    <3>1. position'[c] = "publish"
      BY <2>2 DEF Refuse, AskFails, CallerAt, ConnectionTypeOK
    <3> QED
      BY <1>7, <3>1 DEF HandIsLive
  <2> QED
    BY <2>1, <2>2
<1>9. HeldByLeader => Event(connection.login, "lost") \in fate'
  BY <1>2 DEF HeldByLeader, Keep, Refuse, AskFails, Suffers
<1>10. StoredTokenIsLive'
  BY <1>1, <1>3, <1>9 DEF StoredTokenIsLive, TokenSpent, Befell
<1> QED
  BY <1>5, <1>6, <1>8, <1>10

\* The write of the leader: what it stores is what the provider takes, and it
\* is refused only when the row that stands is of another login.
LEMMA PutTracked ==
  ASSUME Inv, NEW c \in TokenCallers, PutToken(c)
  PROVE  Tracked'
<1> USE DEF Inv, Tracked, callerVars, flowVars, disconnectVars
<1>1. UNCHANGED <<generation, flight, held, got, fpc, flogin, livePairs, logins>>
  BY DEF PutToken
<1>2. position[c] \in {"put", "partial"} /\ flight = c /\ held[c] \in ConnectionRows /\ held[c] # NoConnection
  BY Sizes, RowTypes DEF PutToken, OneLeader, Leading
<1>3. position' = [position EXCEPT ![c] = "publish"]
  BY DEF PutToken, CallerAt
<1>4. fate \subseteq fate'
  BY DEF PutToken, Suffers
<1>5. \A k \in TokenCallers : k # c => held[k] = NoConnection
  BY <1>2 DEF OneLeader
<1>6. connection' = connection \/ connection' = Refreshed(c)
  BY DEF PutToken
<1>7. OneLeader'
  BY <1>1, <1>2, <1>3 DEF OneLeader, ConnectionTypeOK
<1>8. OneGeneration'
  BY <1>1, <1>5, <1>6, Fields DEF OneGeneration, Refreshed
<1>9. FreshLogin'
  BY <1>1, <1>2, <1>6, Fields DEF FreshLogin, Refreshed
<1>10. FlowIsLive'
  BY <1>1, <1>4 DEF FlowIsLive, LiveOrRevoked, Befell
<1>11. HandIsLive'
  <2>1. \A k \in TokenCallers : position'[k] \notin {"rotated", "put", "partial"}
    BY <1>1, <1>2, <1>3, <1>7 DEF OneLeader, Leading, ConnectionTypeOK
  <2> QED
    BY <2>1 DEF HandIsLive
<1>12. StoredTokenIsLive'
  <2>1. CASE connection' = Refreshed(c)
    <3>1. LiveOrRevoked(Pair(held[c].login, got[c]))
      BY <1>2 DEF HandIsLive
    <3>2. connection'.login = held[c].login /\ connection'.serial = got[c]
      BY <2>1, Fields DEF Refreshed
    <3>3. Pair(held[c].login, got[c]).login = held[c].login
      BY Fields
    <3> QED
      BY <1>1, <1>4, <3>1, <3>2, <3>3 DEF StoredTokenIsLive, TokenSpent, LiveOrRevoked, Befell
  <2>2. CASE connection' = connection /\ ~Writable(held[c].gen)
    <3>1. connection # NoConnection /\ connection.gen = generation => ~HeldByLeader
      BY <1>2, <2>2 DEF HeldByLeader, OneGeneration, Writable
    <3> QED
      BY <1>1, <1>4, <2>2, <3>1 DEF StoredTokenIsLive, TokenSpent, Befell
  <2>3. CASE /\ connection' = connection
             /\ \E f \in {"lost", "cancelled"} : Event(held[c].login, f) \in fate'
    <3>1. HeldByLeader => \E f \in {"lost", "cancelled"} : Event(connection.login, f) \in fate'
      BY <1>2, <2>3 DEF HeldByLeader
    <3> QED
      BY <1>1, <1>4, <2>3, <3>1 DEF StoredTokenIsLive, TokenSpent, Befell
  <2> QED
    BY <2>1, <2>2, <2>3 DEF PutToken, Suffers
<1> QED
  BY <1>7, <1>8, <1>9, <1>10, <1>11, <1>12

\* A row that keeps its generation and its pair, or goes, changes nothing here.
LEMMA MarkTracked ==
  ASSUME Inv,
         (\E c \in TokenCallers : Mark(c)) \/ AgeToken \/ Delete \/ CancelFlows \/ UNCHANGED connectionVars
  PROVE  Tracked'
<1> USE DEF Inv, Tracked, callerVars, flowVars, disconnectVars
<1>1. UNCHANGED <<generation, flight, held, got, fpc, flogin, livePairs, logins, fate>>
  BY DEF Mark, AgeToken, Delete, CancelFlows, connectionVars
<1>2. \/ connection' = connection
      \/ connection' = NoConnection
      \/ connection # NoConnection /\ connection'.gen = connection.gen /\ connection'.login = connection.login
           /\ connection'.serial = connection.serial
  BY Fields, Sizes DEF Mark, AgeToken, Delete, CancelFlows, connectionVars
<1>3. \A k \in TokenCallers : position'[k] = position[k] \/ (position[k] = "mark" /\ position'[k] = "done")
  BY DEF Mark, AgeToken, Delete, CancelFlows, connectionVars, CallerAt, ConnectionTypeOK
<1>4. OneLeader' /\ OneGeneration' /\ FreshLogin'
  BY <1>1, <1>2, <1>3 DEF OneLeader, OneGeneration, FreshLogin, Leading
<1>5. FlowIsLive' /\ HandIsLive'
  BY <1>1, <1>3 DEF FlowIsLive, HandIsLive, LiveOrRevoked, Befell
<1>6. flight # NoOne /\ position[flight] \in {"rotated", "put", "partial"} => position'[flight] = position[flight]
  BY <1>3 DEF ConnectionTypeOK
<1>7. StoredTokenIsLive'
  BY <1>1, <1>2, <1>6 DEF StoredTokenIsLive, TokenSpent, Befell, HeldByLeader
<1> QED
  BY <1>4, <1>5, <1>7

\* A flow stores a login that nobody has seen, and a pair the provider takes.
LEMMA FlowTracked ==
  ASSUME Inv, NEW f \in Flows, FlowStep(f)
  PROVE  Tracked'
<1> USE DEF Inv, Tracked, callerVars, flowVars, disconnectVars
<1>1. UNCHANGED <<generation, flight, position, held, got, fate>>
  BY DEF FlowStep, BeginFlow, Register, Recheck, Callback, Exchange, Persist
<1>2. OneLeader'
  BY <1>1 DEF OneLeader
<1>3. CASE BeginFlow(f) \/ Register(f) \/ Recheck(f) \/ Callback(f)
  <2>1. UNCHANGED <<connection, flogin, livePairs, logins>>
    BY <1>3 DEF BeginFlow, Register, Recheck, Callback
  <2>2. \A g \in Flows : fpc'[g] = "store" => fpc[g] = "store"
    BY <1>3 DEF BeginFlow, Register, Recheck, Callback, FlowGoto, ConnectionTypeOK
  <2> QED
    BY <1>1, <1>2, <2>1, <2>2
    DEF OneGeneration, FreshLogin, HandIsLive, FlowIsLive, LiveOrRevoked, Befell,
        StoredTokenIsLive, TokenSpent, HeldByLeader
<1>4. CASE Exchange(f)
  <2>1. UNCHANGED connection /\ livePairs \subseteq livePairs'
    BY <1>4 DEF Exchange
  <2>2. \A g \in Flows : fpc'[g] = "store" =>
          \/ g # f /\ fpc[g] = "store" /\ flogin'[g] = flogin[g]
          \/ g = f /\ flogin'[f].login = logins + 1 /\ flogin'[f] \in livePairs'
    BY <1>4, Fields DEF Exchange, FlowGoto, ConnectionTypeOK
  <2>3. FreshLogin'
    BY <1>1, <2>1, <2>2, Sizes DEF FreshLogin, Guarded, Begun
  <2>4. FlowIsLive'
    BY <1>1, <2>1, <2>2 DEF FlowIsLive, LiveOrRevoked, Befell
  <2> QED
    BY <1>1, <1>2, <2>1, <2>3, <2>4
    DEF OneGeneration, HandIsLive, LiveOrRevoked, Befell, StoredTokenIsLive, TokenSpent,
        HeldByLeader
<1>5. CASE Persist(f)
  <2>1. UNCHANGED <<flogin, livePairs, logins>> /\ fpc[f] = "store"
    BY <1>5 DEF Persist
  <2>2. \A g \in Flows : fpc'[g] = "store" => g # f /\ fpc[g] = "store"
    BY <1>5 DEF Persist, FlowGoto, ConnectionTypeOK
  <2>3. connection' = connection \/ connection' = GrantedRow(fgen[f], flogin[f].login, flogin[f].serial)
    BY <1>5 DEF Persist
  <2>4. OneGeneration'
    BY <1>1, <2>1, <2>3, Fields DEF OneGeneration, FreshLogin
  <2>5. FreshLogin'
    BY <1>1, <2>1, <2>2, <2>3, Fields DEF FreshLogin
  <2>6. FlowIsLive' /\ HandIsLive'
    BY <1>1, <2>1, <2>2 DEF FlowIsLive, HandIsLive, LiveOrRevoked, Befell
  <2>7. StoredTokenIsLive'
    <3>1. CASE connection' = connection
      BY <1>1, <2>1, <3>1 DEF StoredTokenIsLive, TokenSpent, Befell, HeldByLeader
    <3>2. CASE connection' = GrantedRow(fgen[f], flogin[f].login, flogin[f].serial)
      <4>1. LiveOrRevoked(flogin[f])
        BY <2>1 DEF FlowIsLive
      <4>2. flogin[f] \in Pairs
        BY DEF ConnectionTypeOK
      <4>3. Pair(connection'.login, connection'.serial) = flogin[f] /\ connection'.login = flogin[f].login
        BY <3>2, <4>2, Fields
      <4> QED
        BY <1>1, <2>1, <4>1, <4>3 DEF StoredTokenIsLive, TokenSpent, LiveOrRevoked, Befell
    <3> QED
      BY <2>3, <3>1, <3>2
  <2> QED
    BY <1>2, <2>4, <2>5, <2>6, <2>7
<1> QED
  BY <1>3, <1>4, <1>5 DEF FlowStep

\* After the generation has moved on no row of before it stands.
LEMMA AdvanceTracked ==
  ASSUME Inv, Advance
  PROVE  Tracked'
<1> USE DEF Inv, Tracked, callerVars, flowVars, disconnectVars
<1>1. UNCHANGED <<connection, flight, position, held, got, fpc, flogin, livePairs, logins, fate>>
      /\ generation' = generation + 1
  BY DEF Advance
<1>2. connection.gen # generation'
  BY <1>1, Sizes DEF Guarded, Begun
<1> QED
  BY <1>1, <1>2
  DEF OneLeader, OneGeneration, FreshLogin, HandIsLive, FlowIsLive, LiveOrRevoked, Befell,
      StoredTokenIsLive

\* A login that is withdrawn takes its pairs along and is on record.
LEMMA RevokeTracked ==
  ASSUME Inv, WithdrawLogin
  PROVE  Tracked'
<1> USE DEF Inv, Tracked, callerVars, flowVars, disconnectVars
<1>1. UNCHANGED <<connection, generation, flight, position, held, got, fpc, flogin, logins>>
  BY DEF WithdrawLogin
<1>2. PICK l \in 0..logins : /\ livePairs' = {p \in livePairs : p.login # l}
                             /\ fate' = fate \cup {Event(l, "revoked")}
  BY DEF WithdrawLogin, Suffers
<1>3. \A p : LiveOrRevoked(p) => LiveOrRevoked(p)'
  BY <1>2 DEF LiveOrRevoked, Befell
<1>4. OneLeader' /\ OneGeneration' /\ FreshLogin'
  BY <1>1 DEF OneLeader, OneGeneration, FreshLogin
<1>5. FlowIsLive' /\ HandIsLive'
  BY <1>1, <1>2 DEF FlowIsLive, HandIsLive, LiveOrRevoked, Befell
<1>6. TokenSpent(connection)' => TokenSpent(connection) \/ connection.login = l
  BY <1>1, <1>2, Fields DEF TokenSpent
<1>7. StoredTokenIsLive'
  BY <1>1, <1>2, <1>6 DEF StoredTokenIsLive, Befell, HeldByLeader
<1> QED
  BY <1>4, <1>5, <1>7

-----------------------------------------------------------------------------
LEMMA Invariance == ConnectionSpec => []Inv
<1>1. Inv /\ [ConnectionNext]_connectionVars => ConnectionTypeOK'
  BY CallerType, OtherType DEF ConnectionNext, Inv
<1>2. Inv /\ [ConnectionNext]_connectionVars /\ ConnectionTypeOK' => Guarded'
  BY CallerGuarded, FlowGuarded, OtherGuarded DEF ConnectionNext
<1>3. Inv /\ [ConnectionNext]_connectionVars => Tracked'
  BY QuietTracked, LoadTracked, RotateTracked, AnswerTracked, PutTracked, MarkTracked,
     FlowTracked, AdvanceTracked, RevokeTracked
  DEF ConnectionNext, CallerStep, OwnStep, EndpointStep, DisconnectProvider
<1>4. Inv /\ [ConnectionNext]_connectionVars => Inv'
  BY <1>1, <1>2, <1>3 DEF Inv
<1> QED
  BY InitInv, <1>4, PTL DEF ConnectionSpec

\* A finished disconnect holds, however many refreshes, callbacks and dead-state
\* writes were under way; an open browser flow carries the generation that is
\* current; and the stored refresh token of a standing connection is spent only in
\* the ways StoredTokenIsLive lists: two refreshes never use it up between them.
THEOREM ConnectionIsSound == ConnectionSpec => []ConnectionHolds
<1>1. Inv => ConnectionHolds
  BY DEF Inv, Guarded, Tracked, ConnectionHolds
<1> QED
  BY Invariance, <1>1, PTL

-----------------------------------------------------------------------------
\* As long as no browser flow has brought a new login, there is one login, 0. The
\* provider has refused it before any leader says so, before any caller of
\* ForceRefresh goes to mark the row, and before the row is marked.
Refused == Befell(0, "refused")

Condemned ==
  logins = 0 =>
    /\ connection.state = "reconnect_required" => Refused
    /\ \A c \in TokenCallers :
         position[c] = "mark" \/ (position[c] = "publish" /\ reply[c] = "reconnect") => Refused

LEMMA CallerCondemned ==
  ASSUME Inv, Condemned, NEW c \in TokenCallers, Call(c) \/ Leave(c) \/ CallerStep(c)
  PROVE  Condemned'
<1> USE DEF callerVars, flowVars, disconnectVars, CallerAt
<1>1. UNCHANGED logins /\ fate \subseteq fate'
  BY DEF Call, Leave, CallerStep, OwnStep, EndpointStep, CurrentToken, Join, StopWaiting, LoadToken,
     Rotate, ReceiveToken, Keep, Refuse,
     AskFails, PutToken, PublishRefresh, Mark, Suffers
<1> SUFFICES ASSUME logins = 0
             PROVE  /\ connection'.state = "reconnect_required" => Refused'
                    /\ \A k \in TokenCallers :
                         position'[k] = "mark" \/ (position'[k] = "publish" /\ reply'[k] = "reconnect") => Refused'
  BY <1>1 DEF Condemned
<1>2. Refused => Refused'
  BY <1>1 DEF Refused, Befell
<1>3. held[c].login = 0 /\ position \in [TokenCallers -> CallerSteps] /\ reply \in [TokenCallers -> Replies]
  BY Sizes DEF Inv, ConnectionTypeOK, Guarded, Begun
\* The other callers stay where they are, or hear what the leader has heard.
<1>4. CASE Refuse(c)
  <2>1. Refused'
    BY <1>3, <1>4 DEF Refuse, Suffers, Refused, Befell
  <2> QED
    BY <2>1
<1>5. CASE PublishRefresh(c)
  <2>1. connection' = connection /\ position[c] = "publish" /\ reply' = [reply EXCEPT ![c] = "none"]
        /\ position' = [k \in TokenCallers |-> IF k \in {c} \cup Waiters THEN Settle(k, reply[c]) ELSE position[k]]
    BY <1>5 DEF PublishRefresh, ForgetCall, Tell
  <2>2. ASSUME NEW k \in TokenCallers, k \in {c} \cup Waiters, position'[k] = "mark" PROVE Refused
    BY <2>1, <2>2 DEF Settle, Definitive, Condemned
  <2>3. ASSUME NEW k \in TokenCallers, k \in {c} \cup Waiters PROVE position'[k] # "publish"
    BY <2>1, <2>3 DEF Settle
  <2>4. ASSUME NEW k \in TokenCallers, k \notin {c} \cup Waiters PROVE position'[k] = position[k] /\ reply'[k] = reply[k]
    BY <1>3, <2>1, <2>4
  <2> QED
    BY <1>2, <2>1, <2>2, <2>3, <2>4 DEF Condemned
<1>6. CASE Mark(c)
  <2>1. Refused /\ UNCHANGED <<reply, fate>> /\ position' = [position EXCEPT ![c] = "done"]
    BY <1>6 DEF Mark, Condemned
  <2> QED
    BY <1>2, <2>1
<1>7. CASE PutToken(c)
  <2>1. /\ connection' = connection \/ connection'.state = "connected"
        /\ position' = [position EXCEPT ![c] = "publish"] /\ reply' = [reply EXCEPT ![c] = reply'[c]]
        /\ reply'[c] # "reconnect"
    BY <1>3, <1>7 DEF PutToken, Refreshed, GrantedRow, DatabaseError
  <2> QED
    BY <1>2, <1>3, <2>1 DEF Condemned
<1>8. CASE Call(c) \/ Leave(c) \/ CurrentToken(c) \/ Join(c) \/ StopWaiting(c) \/ LoadToken(c) \/ Rotate(c)
           \/ ReceiveToken(c) \/ Keep(c) \/ AskFails(c)
  <2>1. /\ connection' = connection /\ \A k \in TokenCallers \ {c} : position'[k] = position[k] /\ reply'[k] = reply[k]
        /\ position'[c] = "mark" => position[c] = "mark"
        /\ position'[c] = "publish" /\ reply'[c] = "reconnect" => position[c] = "publish" /\ reply[c] = "reconnect"
    BY <1>3, <1>8 DEF Call, Leave, CurrentToken, Join, StopWaiting, LoadToken, Rotate, ReceiveToken,
       Keep, AskFails,
       DatabaseError
  <2> QED
    BY <1>2, <2>1 DEF Condemned
<1> QED
  BY <1>4, <1>5, <1>6, <1>7, <1>8 DEF CallerStep, OwnStep, EndpointStep

LEMMA OtherCondemned ==
  ASSUME Inv, Condemned,
         \/ \E f \in Flows : FlowStep(f)
         \/ DisconnectProvider \/ AgeToken \/ WithdrawLogin \/ UNCHANGED connectionVars
  PROVE  Condemned'
<1> USE DEF callerVars, flowVars, disconnectVars
<1>1. UNCHANGED <<position, reply>> /\ fate \subseteq fate'
  BY DEF FlowStep, BeginFlow, Register, Recheck, Callback, Exchange, Persist,
     DisconnectProvider, Advance, Delete,
     CancelFlows, AgeToken, WithdrawLogin, Suffers, connectionVars
<1>2. logins' = logins \/ (logins' = logins + 1 /\ connection' = connection)
  BY DEF FlowStep, BeginFlow, Register, Recheck, Callback, Exchange, Persist,
     DisconnectProvider, Advance, Delete,
     CancelFlows, AgeToken, WithdrawLogin, connectionVars
<1>3. connection'.state = "reconnect_required" => connection.state = "reconnect_required"
  <2>1. connection' \in {connection, NoConnection} \/ connection'.state \in {connection.state, "connected"}
    <3>1. AgeToken => connection' # NoConnection /\ connection \in ConnectionRows /\ connection'.state = connection.state
      BY Sizes DEF AgeToken, WithAge, Inv, ConnectionRows, NoConnection
    <3> QED
      BY <3>1 DEF FlowStep, BeginFlow, Register, Recheck, Callback, Exchange, Persist,
         DisconnectProvider, Advance,
         Delete, CancelFlows, WithdrawLogin, GrantedRow, connectionVars
  <2> QED
    BY <2>1 DEF NoConnection
<1>4. logins' = 0 => logins = 0
  BY <1>2, Sizes DEF Inv
<1>5. Refused => Refused'
  BY <1>1 DEF Refused, Befell
<1> QED
  BY <1>1, <1>3, <1>4, <1>5 DEF Condemned

\* Whatever the number of callers, flows, rotations, disconnects and withdrawals:
\* the stored token of a standing connection is spent only in the ways
\* StoredTokenIsLive lists, and as long as no new login replaces the connection it
\* is dead only after the provider has refused its token.
THEOREM RefreshIsSound == ConnectionSpec => []RefreshHolds
<1>1. Inv /\ Condemned => RefreshHolds
  <2> SUFFICES ASSUME Inv, Condemned PROVE RefreshHolds
    OBVIOUS
  <2>1. logins = 0 => connection.login = 0
    BY Sizes DEF Inv, Guarded, Begun
  <2> QED
    BY <2>1 DEF Inv, Tracked, Condemned, RefreshHolds, DeadIsDefinitive, Refused
<1>2. ConnectionInit => Condemned
  BY DEF ConnectionInit, Condemned, NoConnection, GrantedRow
<1>3. Inv /\ Condemned /\ [ConnectionNext]_connectionVars => Condemned'
  BY CallerCondemned, OtherCondemned DEF ConnectionNext
<1> QED
  BY Invariance, <1>1, <1>2, <1>3, PTL DEF ConnectionSpec
=============================================================================
