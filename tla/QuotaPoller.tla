---------------------------- MODULE QuotaPoller ----------------------------
(***************************************************************************)
(* The provider quota cache of internal/providerquota/poller.go and its    *)
(* endpoint, server/quota.go.  A view of the usage page reads the provider *)
(* rows, makes the registrations match them and starts the checks that are *)
(* due; a check fetches a credential, attaches an account header to the    *)
(* registration and publishes its snapshot if the generation it captured   *)
(* still stands.  The 60 s interval is MinInterval; the slower cadences    *)
(* belong to RefreshIfDue, which nothing but tests calls.                  *)
(***************************************************************************)
EXTENDS Integers, FiniteSets

CONSTANTS
  Quotas,        \* provider keys of one account
  Configs,       \* what a provider row may hold (name, type, base URL)
  Views,         \* views of the usage page
  Checks,        \* quotaRefreshGate: the checks that may run at once
  MinInterval,   \* MinInterval
  LastSecond,    \* bound on the clock
  MaxEdits,      \* bound on the edits of provider rows
  Absent         \* no row, no registration, no snapshot

Rowed == Configs \cup {Absent}
Ghost == "ghost"   \* the zero ProviderRef SetAccountHeader may create
NotYet == -1

Registration == [config : Configs \cup {Ghost}, header : BOOLEAN]
Snapshot     == [config : Configs, available : BOOLEAN]
Running      == [key : Quotas, config : Configs \cup {Ghost}, gen : Nat,
                 stage : {"started", "loaded", "hydrated"}]

QuotaAssumption ==
  /\ MinInterval \in Nat /\ LastSecond \in Nat /\ MaxEdits \in Nat
  /\ Absent \notin Configs /\ Absent \notin Registration /\ Absent \notin Snapshot
  /\ Absent \notin Running /\ Absent \notin [Quotas -> Rowed]
ASSUME QuotaAssumption

VARIABLES
  rows,      \* the provider rows
  edits,     \* how many edits they have seen
  refs,      \* Poller.refs: a registration and whether a header is attached
  gen,       \* Poller.gen
  inflight,  \* Poller.inflight
  last,      \* Poller.last
  snap,      \* Poller.snap: whose figures they are, and whether they are usable
  failed,    \* Poller.failed
  view,      \* what each view has read
  asks,      \* the keys it has yet to ask a check of, once it has reconciled
  check,     \* what each running check holds
  second     \* the clock

quotaVars == <<rows, edits, refs, gen, inflight, last, snap, failed, view, asks, check, second>>
cacheVars == <<refs, gen, inflight, last, snap, failed>>

QuotaTypeOK ==
  /\ rows \in [Quotas -> Rowed] /\ edits \in 0..MaxEdits
  /\ refs \in [Quotas -> Registration \cup {Absent}]
  /\ gen \in [Quotas -> Nat]
  /\ inflight \in [Quotas -> BOOLEAN] /\ failed \in [Quotas -> BOOLEAN]
  /\ last \in [Quotas -> NotYet..LastSecond]
  /\ snap \in [Quotas -> Snapshot \cup {Absent}]
  /\ view \in [Views -> [Quotas -> Rowed] \cup {Absent}]
  /\ asks \in [Views -> SUBSET Quotas]
  /\ check \in [Checks -> Running \cup {Absent}]
  /\ second \in 0..LastSecond

QuotaInit ==
  /\ rows \in [Quotas -> Rowed]
  /\ edits = 0
  /\ refs = [k \in Quotas |-> Absent]
  /\ gen = [k \in Quotas |-> 0]
  /\ inflight = [k \in Quotas |-> FALSE] /\ failed = [k \in Quotas |-> FALSE]
  /\ last = [k \in Quotas |-> NotYet]
  /\ snap = [k \in Quotas |-> Absent]
  /\ view = [v \in Views |-> Absent] /\ asks = [v \in Views |-> {}]
  /\ check = [c \in Checks |-> Absent]
  /\ second = 0

\* An administrator adds, changes, disables or removes a provider.
EditRow(k) ==
  /\ edits < MaxEdits /\ edits' = edits + 1
  /\ \E c \in Rowed \ {rows[k]} : rows' = [rows EXCEPT ![k] = c]
  /\ UNCHANGED <<cacheVars, view, asks, check, second>>

ReadRows(v) ==
  /\ view[v] = Absent /\ asks[v] = {}
  /\ view' = [view EXCEPT ![v] = rows]
  /\ UNCHANGED <<rows, edits, cacheVars, asks, check, second>>

\* The keys whose registration is not what the view has read.
Changed(want) ==
  {k \in Quotas : IF want[k] = Absent THEN refs[k] # Absent
                  ELSE refs[k] = Absent \/ refs[k].config # want[k]}

Reset(f, ks, value) == [k \in Quotas |-> IF k \in ks THEN value ELSE f[k]]

\* A header attached before stays attached.
Register(want, ks) ==
  [k \in Quotas |->
     IF k \notin ks THEN refs[k]
     ELSE IF want[k] = Absent THEN Absent
     ELSE [config |-> want[k], header |-> refs[k] # Absent /\ refs[k].header]]

Reconciled(v) ==
  /\ view' = [view EXCEPT ![v] = Absent]
  /\ asks' = [asks EXCEPT ![v] = {k \in Quotas : view[v][k] # Absent}]

\* Variant: the generation is not moved on.
ReconcileQuietly(v) ==
  /\ view[v] # Absent
  /\ LET ks == Changed(view[v]) IN
     /\ refs' = Register(view[v], ks)
     /\ inflight' = Reset(inflight, ks, FALSE) /\ failed' = Reset(failed, ks, FALSE)
     /\ last' = Reset(last, ks, NotYet) /\ snap' = Reset(snap, ks, Absent)
  /\ Reconciled(v)
  /\ UNCHANGED <<rows, edits, gen, check, second>>

\* ReconcileAccount, with rows that may be stale by now.
ReconcileRegistrations(v) ==
  /\ view[v] # Absent
  /\ LET ks == Changed(view[v]) IN
     /\ refs' = Register(view[v], ks)
     /\ gen' = [k \in Quotas |-> gen[k] + IF k \in ks THEN 1 ELSE 0]
     /\ inflight' = Reset(inflight, ks, FALSE) /\ failed' = Reset(failed, ks, FALSE)
     /\ last' = Reset(last, ks, NotYet) /\ snap' = Reset(snap, ks, Absent)
  /\ Reconciled(v)
  /\ UNCHANGED <<rows, edits, check, second>>

\* beginRefresh.
MayBegin(k) ==
  /\ refs[k] # Absent
  /\ ~inflight[k]
  /\ last[k] = NotYet \/ second - last[k] >= MinInterval

Asked(v, k) == k \in asks[v] /\ asks' = [asks EXCEPT ![v] = @ \ {k}]

\* TriggerIfDue, when the gate is full or the check is not due.
Skip(v, k) ==
  /\ Asked(v, k)
  /\ ~MayBegin(k) \/ \A c \in Checks : check[c] # Absent
  /\ UNCHANGED <<rows, edits, cacheVars, view, check, second>>

Trigger(v, k, c) ==
  /\ Asked(v, k)
  /\ check[c] = Absent
  /\ MayBegin(k)
  /\ inflight' = [inflight EXCEPT ![k] = TRUE]
  /\ last' = [last EXCEPT ![k] = second]
  /\ check' = [check EXCEPT ![c] =
       [key |-> k, config |-> refs[k].config, gen |-> gen[k], stage |-> "started"]]
  /\ UNCHANGED <<rows, edits, refs, gen, snap, failed, view, second>>

\* The credential comes from the row as it is by now.  A registration without
\* a provider type has no adapter and never gets here.
LoadProvider(c) ==
  /\ check[c] # Absent /\ check[c].stage = "started" /\ check[c].config # Ghost
  /\ rows[check[c].key] # Absent
  /\ check' = [check EXCEPT ![c].stage = "loaded"]
  /\ UNCHANGED <<rows, edits, cacheVars, view, asks, second>>

\* SetAccountHeader, once the token is fresh: the header is attached to what is
\* registered by now, and to a zero registration if nothing is.
Hydrate(c) ==
  LET k == check[c].key IN
  /\ check[c] # Absent /\ check[c].stage = "loaded"
  /\ check' = [check EXCEPT ![c].stage = "hydrated"]
  /\ refs' = [refs EXCEPT ![k] =
       [config |-> IF @ = Absent THEN Ghost ELSE @.config, header |-> TRUE]]
  /\ UNCHANGED <<rows, edits, gen, inflight, last, snap, failed, view, asks, second>>

\* A check that got no credential or no answer ends with an unusable snapshot.
\* One begun on a zero registration has lost its key and finishes nothing.
Finish(c) ==
  LET k == check[c].key
      mine == gen[k] = check[c].gen /\ check[c].config # Ghost
  IN
  /\ check[c] # Absent
  /\ \E available \in {check[c].stage = "hydrated", FALSE} :
       LET got == [config |-> check[c].config, available |-> available] IN
       IF mine
       THEN /\ inflight' = [inflight EXCEPT ![k] = FALSE]
            /\ snap' = IF available \/ snap[k] = Absent \/ ~snap[k].available
                       THEN [snap EXCEPT ![k] = got] ELSE snap
            /\ failed' = [failed EXCEPT ![k] = ~available]
       ELSE UNCHANGED <<inflight, snap, failed>>
  /\ check' = [check EXCEPT ![c] = Absent]
  /\ UNCHANGED <<rows, edits, refs, gen, last, view, asks, second>>

Elapse ==
  /\ second < LastSecond /\ second' = second + 1
  /\ UNCHANGED <<rows, edits, cacheVars, view, asks, check>>

QuotaNext ==
  \/ \E k \in Quotas : EditRow(k)
  \/ \E v \in Views : ReadRows(v) \/ ReconcileRegistrations(v)
  \/ \E v \in Views, k \in Quotas : Skip(v, k) \/ \E c \in Checks : Trigger(v, k, c)
  \/ \E c \in Checks : LoadProvider(c) \/ Hydrate(c) \/ Finish(c)
  \/ Elapse

QuotaSpec == QuotaInit /\ [][QuotaNext]_quotaVars

-----------------------------------------------------------------------------
Registered(k) == refs[k] # Absent /\ refs[k].config # Ghost

(* Poller.gen, "a poll that was already in flight cannot resurrect a       *)
(* snapshot": figures are only ever shown for the registration they were   *)
(* fetched under, a stale view, a late check and the zero registration a   *)
(* late header creates included; and the reservation of a registered       *)
(* provider has its one check.                                             *)
SnapshotIsOfItsRegistration ==
  \A k \in Quotas :
    /\ snap[k] # Absent => refs[k] # Absent /\ refs[k].config = snap[k].config
    /\ Registered(k) => (inflight[k] <=> \E c \in Checks :
         check[c] # Absent /\ check[c].key = k /\ check[c].gen = gen[k])

(* The same with the types.                                                *)
QuotaHolds == QuotaTypeOK /\ SnapshotIsOfItsRegistration
=============================================================================
