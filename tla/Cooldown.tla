------------------------------ MODULE Cooldown ------------------------------
(***************************************************************************)
(* The per-target fallback cooldown store of internal/server/cooldown.go,  *)
(* for one account (every key of the Go map is prefixed by the account id, *)
(* so accounts never share an entry).                                      *)
(*                                                                         *)
(* A store is a function from targets to entries.  An entry keeps when the *)
(* window closes and which request opened it (originRequestLogID); the     *)
(* wording of the origin error is left out.  A key the map does not hold   *)
(* is the entry NoEntry, whose window closed at time 0.  Every operator    *)
(* below is one critical section under cooldownStore.mu.                   *)
(***************************************************************************)
EXTENDS Naturals

CONSTANTS
  Targets,      \* provider model ids
  Requests,     \* client request ids, the origin of an entry
  NoRequest,    \* the origin of no entry
  TargetName    \* the provider/model name pair the admin UI knows a target by

ASSUME OriginAssumption == NoRequest \notin Requests

Entry   == [until : Nat, origin : Requests \cup {NoRequest}]
NoEntry == [until |-> 0, origin |-> NoRequest]
Store   == [Targets -> Entry]

NoCooldowns == [t \in Targets |-> NoEntry]

\* cooled: an expired entry that is still in the map counts as not cooled.
Cooled(store, t, time) == time < store[t].until

\* pruneExpiredLocked: drop every entry whose window has closed.
Prune(store, time) ==
  [t \in Targets |-> IF Cooled(store, t, time) THEN store[t] ELSE NoEntry]

\* set: prune, then open or extend the window of t.  The longer window wins
\* and a tie keeps the newer origin.
Open(store, t, start, until, origin) ==
  LET kept == Prune(store, start)
  IN  IF kept[t].until > until
      THEN kept
      ELSE [kept EXCEPT ![t] = [until |-> until, origin |-> origin]]

\* remove: what a request served by t does.
Remove(store, t) == [store EXCEPT ![t] = NoEntry]

\* removeByName: a manual release addresses targets by name, so it drops the
\* entry of every target that carries the name.
Release(store, name) ==
  [t \in Targets |-> IF TargetName[t] = name THEN NoEntry ELSE store[t]]

\* statusByName: the targets whose live entry answers a status query for the
\* name, which are those of the earliest expiry.
Status(store, name, time) ==
  LET live == {t \in Targets : TargetName[t] = name /\ Cooled(store, t, time)}
  IN  {t \in live : \A u \in live : store[t].until <= store[u].until}
=============================================================================
