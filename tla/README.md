# A TLA+ model of tiller-router

tiller-router is an inference gateway in Go. Clients call one OpenAI- or
Anthropic-compatible endpoint with a client key and a virtual model name; the router
resolves the name to an ordered chain of provider targets, calls them in turn, translates
protocols where it must, and relays the first reply that is good enough. Around this path it
keeps accounts, plans, keys, sessions, OAuth connections, quotas, mail and logs.

This directory models the parts of the program whose correctness depends on the *order* of
things: concurrent requests over shared maps, a stream that is committed before its target is
known to work, a cached decision used after a wait, a slot that has to be given back on every
return path, a process that dies between two writes; and the pure conversions whose inputs are
too many to test. `PROJECT.json` lists the components, the runs, the hazards, the theorems and,
for each definition, the lines of `src/` it stands for.

## 1. The system

### Request path

| Component | State | Operations | Interaction |
|---|---|---|---|
| body gate (`bodyread.go`) | a lock-free counter, a read deadline per connection | acquire, read, release | first thing `proxy` and the JSON handlers do |
| plan admission (`client.go` `beginClientRequest`, `inflight.go`, `usage_counters.go`) | tickets per client and route under a mutex, monthly counters in SQLite | look the plan up, take a concurrency slot, reserve a monthly slot, stream, end | admits a request into the proxy; emits deltas to the live feed |
| inference proxy (`client.go` `proxy`) | locals of one handler; shares the cooldowns, target legs, buffer gate and last outcomes | try the candidates, refresh a token, preflight, probe, commit, relay, conclude | calls providers over HTTP and `ForceOAuthRefresh`; writes log rows |
| fallback cooldowns (`cooldown.go`) | a map from target to window under a mutex | cooled, set, remove, release by name, clear | read and written by every request of an ordered chain, by the admin API and by the settings |
| translation (`translate.go`, `reasoning_state.go`, `reasoning_response_state.go`) | a state machine per stream, functions of a body | translate a request, an answer, a stream; choose the reasoning controls | called by the proxy, which reacts to how they fail |
| SSE keepalive (`sse_keepalive.go`) | writer, timer and a closed flag under a mutex | start, write, comment, close | one writer per committed stream |

### Around it

| Component | State | Operations |
|---|---|---|
| client keys (`auth/keys.go`) | verified-key cache with a sliding expiry, revision counters | authenticate, change, invalidate |
| management tokens (`auth/api_tokens.go`) | verified-token cache with scopes and expiry | authenticate, edit, revoke, revoke all |
| operator (`setup_handlers.go`, `auth/keys.go` `SessionStore`) | one credential, session rows and their cache | take the credential of the environment at a start, claim, log in, renew, revoke |
| hosted identity (`identity`, `hostedauth`) | users with methods and a generation, one-time links, sessions and their cache | sign in, link, unlink, reset, change the address, sign out |
| login limiter (`login_limiter.go`) | two bounded tables, an overflow budget | allow, fail, succeed |
| OAuth connections (`providers/oauth`, `admin_oauth.go`) | token pairs and their generation, single-flight calls, dead state | current, refresh, force refresh, connect, disconnect |
| quota poller (`providerquota/poller.go`, `quota.go`) | registration, generation, in-flight mark and figures per provider | reconcile, check, publish |
| permissions, catalogue (`store/*.go`, `admin_*.go`) | providers, models, chains, keys, templates and a permission per owner and model | refresh, create, edit, link, delete |
| live feed (`live.go`, `live_requests.go`, `web/assets/live*.js`) | subscribers with bounded buffers, recent requests, the page's rows | publish, count, snapshot, reconcile |
| activity log (`logwriter.go`, `server.go`, `store.go`) | a queue, a batch, a flush barrier, intents to erase | enqueue, write, flush, stop, erase, recover |
| notifications (`notifications.go`) | slots, keys in flight, cooldown windows, hourly budgets | admit, post, release |
| mail outbox (`mailoutbox`) | rows with attempts and a next time | enqueue, send, record, retry, bury |
| secrets (`crypto`, `store/secrets.go`, `main.go`) | ciphertexts, a key file and its sidecar | start, migrate, rotate, restore |
| databases (`database.go`, `activity.go`, `identity.go` `BootstrapHostedCustomer`) | the ledger of migrations, the Activity file and its steps, the rollback snapshot, the bootstrap marker | snapshot, migrate, upgrade, move the logs, bootstrap |
| capabilities (`virtual_capabilities.go`, `client.go`) | none: what is known of the targets of a virtual model | merge, publish in the catalogue of either protocol |
| DNS fallback, web pages, wiring, client libraries | listed in `PROJECT.json` | |

### What is hard in it

* **Commit before success.** An ordered chain starts the client's event stream when a target's
  headers arrive and only then learns whether the target says anything.
* **Many return paths.** `proxy` has more than thirty, and each has to end a target leg, close a
  buffered body, record an attempt and answer exactly once.
* **Whose fault it was.** The same transport error means a dead target or a client that has left.
* **Verify, then cache.** Keys, tokens and both kinds of sessions are read from the database
  without a lock and cached afterwards; a revocation may commit in between.
* **Check, then commit.** A hash or a call to Google takes long; what was read before it is the
  base of what is written after it.
* **Limits.** Gates, tickets, tables and windows are checked in one step and used in another.
* **Lost events and crashes.** Deltas and snapshots are dropped and overtake each other; mail,
  erasures and key rotations stop half way.
* **Three protocols.** Arguments arrive up to three times, reasoning state must arrive exactly
  where it can be used, and the conversions compose.

`PROJECT.json` "hazards" gives each with its line and the properties about it.

## 2. The modules

| Module | Models | Uses |
|---|---|---|
| `Cooldown` | the critical sections of `cooldown.go`, as operators on a store | |
| `ProxyChain` | `proxy`: candidate loop, upstream call, preflight, probe, relay, end; the administrator, the clock and the client as environment | extends `Cooldown` |
| `BodyGate` | the gate and deadline of `bodyread.go` | |
| `Admission` | tickets, concurrency and monthly limits, deltas | |
| `KeepaliveWriter` | the writer of a stream and its timer | |
| `StreamTranslation` | the streaming translator between any two protocols, the probe, the aggregation | |
| `RequestTranslation`, `ResponseTranslation` | the conversions of a request and of a whole answer | the second extends the first |
| `ReasoningSelector` | what a catalogue says of a model's reasoning, and reading, limiting and writing the reasoning controls | |
| `ClientKeys`, `ManagementTokens`, `AdminSessions`, `HostedSessions` | the four caches in front of credentials, with everything that changes what they cache | |
| `Identity` | one hosted user: methods, links, sessions, generation | |
| `LoginLimiter` | the throttle of sign-ins | |
| `OAuthConnection` | one provider's connection: shared refresh, guarded row, browser flows, disconnect, and the provider's end of it | |
| `QuotaPoller` | quota registrations and checks | |
| `Permissions`, `Catalogue` | the store's transactions on models, chains, keys, templates | |
| `LiveFeed` | one account's feed from the handlers to the page | |
| `ActivityLog` | the log writer and the erasure of history | |
| `Notifications` | webhook deliveries | |
| `MailDelivery`, `MailOutbox` | what mail delivery promises, and the outbox that implements it | the second instantiates the first |
| `SecretKeys` | key files, start, migration, rotation, runbook | |
| `DatabaseOpen` | a start of the service on the databases that earlier starts and releases left | |
| `VirtualCapabilities` | what the catalogue says of a virtual model, merged from its targets | |
| `MCProxyChain`, `MCOneRequest`, `MCTwoRequests`, `MCAccess`, `MCContents`, `MCBackground` | instances for TLC | |
| `ProxyChainProofs`, `ProxyChainSafety`, `ProxyChainOutcomes` | theorems about `ProxyChain`: types; what a step may do; what a request has made of its chain | each extends the one before |
| `OAuthConnectionProofs` | theorems about `OAuthConnection` | extends it |
| `CredentialProofs` | theorems about `ClientKeys`, `ManagementTokens`, `AdminSessions`, `HostedSessions`, `Identity` | extends them |
| `LimitsProofs` | theorems about `LoginLimiter`, `Admission`, `Notifications` | extends them |
| `BackgroundProofs` | theorems about `MailOutbox`, `ActivityLog`, `BodyGate`, `DatabaseOpen` | extends them |
| `ContentsProofs` | theorems about `SecretKeys`, `KeepaliveWriter`, `Permissions`, `QuotaPoller`, `Catalogue`, `ReasoningSelector`, `RequestTranslation`, `VirtualCapabilities` | extends them |

How state and actions correspond to the code, where it is not obvious:

**Steps.** A step is one critical section, one database statement or transaction, or one side of
a wait. SQLite runs in WAL mode with one writer, so a transaction is atomic. Between two steps
everything else may run; a process may end at any step where something outlives it.

**ProxyChain.** `phase` says where in the handler a request waits; the other variables carry the
code's names where it has them (`attempts`, `refreshed` = `oauthRefreshed`, `serving` =
`activeTargetID`, `committed` = `streamKeepalive != nil`, `verdict` = the five flags that choose
the final error). A step is the code between two waits. A candidate has a *fit* (callable,
callable with a translation, or the first check that turns it away) chosen with the plan of the
request; HTTP statuses become the classes `classifyHTTPFailure` gives them. `blame` and
`starved` are history variables no action reads. The clock is that of the cooldown windows; the
timers of the handler appear as the steps they lead to. The wait for a token refresh has no timer
(`HeldByRefresh`): it ends when the endpoint answers or the client leaves.

**BodyGate.** `left` counts down to the read deadline that is set once, before the whole read; `silent`
counts up from the last bytes of the peer. `Trickle` is a read of some bytes, which ends the silence
and moves no deadline.

**Caches.** Each is modelled with the revision (or generation) its code compares, the row in the
database, and readers that are between their database read and their publication. Editors
commit and invalidate in the order of their handlers: client keys and customers' sessions
commit first, tokens and the operator's sessions are written under the cache lock. A clock that
only moves forward stands for the expiries.

**AdminSessions.** `start` says how far a start has come: it compares the credential of the environment
(`env`) with the stored one, drops every session and writes the new one, or goes on, and then gives it
to the operator's row; only then does the instance serve. `Restart` may happen at any step. There is
no other change of a credential: the handlers write one only where there is none.

**Identity.** `visit[v]` is what an operation has read before its long wait; `auth_generation`
is compared where the SQL compares it. One user, as no operation spans two.

**OAuthConnection.** `connection` and `generation` are the two tables, `flight` the entry of
`Manager.calls`, `pending` the entry of the flow store, `dpc` where a disconnect is. A refresh
token is a login and a serial number; `livePairs` is what the provider takes, which a rotation
changes *before* its answer arrives. `Leave` ends the context of a caller at any step. The steps of a
caller are its own (`OwnStep`) or wait for the token endpoint (`EndpointStep`). `fate` is
history. Device flows write under the same guard and are left out.

**Translations.** The stream is a state machine over canonical deltas, as in the code; a
text is a unit, an argument string a sequence of two fragments. The conversions of whole
requests and answers are functions, evaluated on every bounded conversation and compared with
what a reader of either protocol sees in them (`Seen`, `SpokenIn`), which is defined apart from
the conversion.

**LiveFeed.** The page is part of the model, since only it shows whether a drop was repaired:
`Take`, `Upsert`, `Merge` and the reconciliation are the functions of the page's scripts.

**MailOutbox.** The worker's pass, each send and each completion write are steps; a write may be
lost, the context cancelled, the key locked, and the process ended anywhere.

**SecretKeys.** Two stores that cannot commit together: files and database. A secret is empty,
plain or the key it is sealed with. `FollowsRunbook` says whether operators restore the key
after an interrupted rotation before they start another, as the runbook asks.

**DatabaseOpen.** `boot` says how far a start has come; each statement that commits on its own is a
step, and a start may be killed or fail before any of them. A log is one row; the sets `central`
and `acts` say where it is, `legacy`, `flagged`, `reported` and `estimated` what the upgrades have
made of it. The initial states are the databases that releases leave, and between two starts older
releases run, newer ones migrate, operators restore the snapshot, and the Activity file may be lost.
`moved`, `since`, `born` and `cut` are history. A snapshot of which the copying was cut short is gone,
partial or empty, and SQLite finds nothing wrong with an empty one (`Verifies`).

**VirtualCapabilities.** A pointer is a set of at most one element. `limit` stands for the two lengths and
`flag` for the four flags, which the code goes through in the same way; one step is one round of
the loops, over the targets in any order.

## 3. The runs

Five runs pass and seven, marked *violation*, refute a sentence of the repository. Components
that share no state are checked side by side in one run: the variable `part` names the one that
moves, the others stay as they began, so the states of a run are the sum and not the product of
its components'. A property of one component is untouched by that, as all its behaviours are
among those of the run. Each property of a passing run has a mutant in `PROJECT.json`, a plausible
bug in a mapped definition that breaks it.

| Run | Question | Bounds and why they are enough |
|---|---|---|
| `chain_one` | one request: one answer, SSE framing after a commit, honest blame, bounded calls, no splice, a decision in the end unless a token endpoint holds it. | every well-formed fit of a chain of two, whose second target shares the provider (and its refreshed credential) or not, and of direct and fixed routes; all reply classes; cooldown setting on and off. Two targets give a failure before and after any other. The waits of several requests do not depend on one another, as a full gate fails at once, so one request is enough for liveness. |
| `chain_two` | two requests: cooling and health blame the right party, legs and gate are exact (`ResourcesHeld`), windows are earned and never shortened, an exhausted chain has tried | scene *crossing*: a chain of two and one of one meet at a target, one setting, two instants of the clock, a gate of one slot; scene *sharing*: one target, settings 0, 1 and 2 that change between the starts. The action constraint `OneScene` keeps the two scenes apart; it belongs to this run only, which checks no liveness |
| `access` | admission; keys, tokens and sessions are current when used, the operator's through changes of the credential; the hosted user is never locked out, nor signed in by a superseded credential; lockouts stand; a disconnect holds, an open flow can be stored, the stored token is live (`ConnectionHolds`) | admission: three requests, two tickets, two months, limits of either kind. Caches: one credential with two versions, two readers and two editors, so that a read, a change and a second read overlap. The operator: two browsers, a start with either's credential or none at any moment. Identity: two visitors; side *methods*: all methods come and go, a link is spared; side *recovery*: the last link is sent, no passkey is linked. Limiter: two clients, one entry, two failures. Connection: one forced refresh, two flows, one disconnect, so that every writer of the row races every part of it |
| `contents` | the permission matrix is exact, the catalogue resolves and never goes back, secrets stay readable, no turn, call, argument, setting, reasoning state or usage is lost or doubled but for what section 5 lists, cache markers stay under their cap, a disable wins, the keepalive goes on and stops, figures belong to their registration, one notification per window, starts that are cut short anywhere lose no log, none migrates without a copy that `Verify` accepts (which an empty one is, see `snapshot_torn`), the catalogue claims of a virtual model what all its targets have | two models of two providers, one template, one key; two refreshes, one edit; two secrets, three keys; streams of five events with two calls; conversations of two turns; two checks, two stale views, two edits; two deliveries of one account in three minutes; databases: two logs, three migrations, which are those that do something here, and every state of the file that a release leaves; capabilities: three targets, of which one aspect at a time is known |
| `background` | rows of a deleted key stay erased and a flush is a barrier that returns; the body gate is exact and a peer that stalls or trickles holds no slot for ever; the outbox implements mail delivery and settles every mail; the page settles; concurrent refreshes of a token do not spend it, only a refusal marks it dead, every caller returns | gate: three requests for two slots. Log: a queue and a batch of one, two rows of one key, which may be deleted while shutdown and maintenance flush. Mail: two mails, two attempts, one lost write. Feed: one request, buffers of one, one reconnect. Refresh: three callers (leader, waiter, late caller), an endpoint that rotates the pair once or never, no new login (see section 5) |
| `chain_malformed` *violation* | the framing contract of `client.go:818` with a target whose normalization fails | one chain of two |
| `oauth_kept` *violation* | a rotated pair "must be persisted" | two callers |
| `keepalive_split` *violation* | a comment does not alter the event stream | one event of two writes |
| `translated_usage` *violation* | the completed event carries the usage | one call, one text, five events |
| `slow_upload` *violation* | "a slow but progressing upload on a poor link is never cut off" | three requests, a deadline of two ticks |
| `snapshot_torn` *violation* | a snapshot is proved a usable restore point before an irreversible migration | as `contents` |
| `rotation_retried` *violation* | "rotation is crash-safe" without the runbook's recovery step | one secret, three keys |

`chain_one` does not see the composition of two requests with liveness, and `contents` no stream
with more calls than `MaxToolCalls`, whose refusal therefore goes unchecked, and no conversation
longer than two turns: the conversions treat turns one by one, except for the
instructions, which move ahead, and the cache markers, which are counted over the whole.

`CHECK_DEADLOCK FALSE` is set throughout: requests, messages and edits are finite, so every model
stops when all are done. Named bounds are constants: clocks (`MaxTime`, `LastDay`, `LastHour`,
`LastTick`, `LastMoment`, `LastMinute`, `LastSecond`, `Deadline`), calendars (`LastMonth`),
revisions (`MaxRev`, `MaxTokenRev`, `MaxSessionRev`, `MaxHostedRev`, `MaxGeneration`,
`LastGeneration`, `MaxSerial`), and inputs (`LastToken`, `LastPassword`, `MaxEvents`, `MaxTurns`,
`MaxFrames`, `MaxFirings`, `MaxEdits`, `MaxCopies`, `MaxLostWrites`, `MaxBreaks`). Others are the
limits of the code made small: `GateSize`, `QueueSize`, `BatchSize`, `BufferSize`, `DeltaSize`,
`KeepDone`, `CacheSize`, `Slots`, `MaxEntries`, `MaxAttempts`, `BatchLimit`, `ProcessSlots`,
`TenantSlots`, `HourlyBudget`, `MaxToolCalls`, `MaxText`, `Newest`. `SYMMETRY` is used in `access`,
a safety run whose handlers are interchangeable.

### Fairness

Only the runs `chain_one` and `background` state fairness.

* `ProxyChain!FairSpec`: the steps of a handler up to the relay are weakly fair, but for a refresh.
  Each wait for a target has a timer in the code (time to first header, `upstreamErrorReadTimeout`,
  `idleTimeout`, a probe bounded by `maxOutputProbeBytes`), and Go runs deferred calls. The wait for a
  token refresh has none: `client.go:1216` stops the idle timer, the refresh runs on the context of the
  request (1234), the transport bounds the wait for the headers of the endpoint only
  (`registry.go:379`), and the token bodies are read without a deadline (`claude.go:144`,
  `codex.go:291`, `github.go:247`). Its end is therefore fair only once the client has left
  (`HeldByRefresh`), and `Decided` promises a decision to a request that the endpoint does not hold for
  ever. The relay is not fair either: a target may stream for ever.
* `OAuthConnection!LiveSpec`: a caller's own steps are fair, as Go runs it. The steps that wait for the
  token endpoint are not, but for the one that ends the call of a leader whose context has ended.
  `Returns` promises that callers return while no answer is outstanding, and that who leaves returns
  even then; a stalled answer holds a leader that stays, and its waiters until they leave. Nobody has
  to start, leave, log in or disconnect.
* gate: the handler's own code and the clock are fair and an expired deadline fires; peers owe
  nothing, and may trickle for ever.
* log: the writer goroutine goes on. Requests, readers and administrators owe nothing.
* mail: the worker goes on (its sends have a timeout) and backoffs end. `QueuedMailSettles` assumes
  that the process is at some point up for good with its key and a mail provider.
* feed: the dispatcher, the stream handler, the network and the browser go on. `PageSettles`
  assumes that the requests end.

In both runs these conditions are asked of the component that moves (`part`), so that no
fairness is stated of a component that stays as it began.

## 4. The proofs

Eight modules hold the proofs; TLC agrees with each theorem on the instance of its run. A proof
module treats several components side by side where they share no state. What is assumed are the
named `ASSUME`s of the modules, which TLC evaluates in every run: types of constants, sentinels
that are not values (`NoTarget`, `NoSend`, `Nobody` ...), disjoint sets of names, positive limits
and times to live, and finite sets where something is counted in the model (`Requests` and
`Tickets` of `Admission` and `BodyGate`, `Messages`). Of the others these say something about the
code:

* `DirectAssumption`: a direct route has a chain of one target (`client.go:780`);
* `CatalogueAssumption`: a provider lists its own models only (a model's identity in the store
  includes its provider);
* `ManagementTokensAssumption`: there is a scope to grant; `NotificationsAssumption`: there is an
  account; `IdentityAssumption`: some link may be issued;
* `SelectorAssumption`: the least thinking budget (`Floor`) is positive and below the greatest.

Nothing is assumed about the number of requests, targets, keys, callers, mails, rows or secrets, the
length of a chain, or the size of gates, queues and tables.

### Request path

**ProxyChain, types** (`TypeInvariance`). `TypeOK` needs `Located`: while a target is being called the
loop counter is inside the chain, an attempt to rewrite exists when a refresh or a relay may
rewrite it, and a selected target belongs to a request that is relayed or finishing.

**ProxyChain, safety.** Each theorem rests on a lemma that says what *any* step does to the
variables of the property.
* `OneAnswer`: a step answers only as it takes the request out of the chain (`Answering`).
* `CooldownIsSound`, from `CoolingIsDeserved` and `WindowsNeverShrink`: a step leaves a window, drops
  it, or opens one that is not shorter for a request its target has failed (`Window`); blame only
  grows.
* `NoSecondTarget`: a selected request is moved by its relay only, and other requests touch
  neither its attempts nor its target.
* `GateIsSound`: a step frees slots or takes a free one for a body that starts to be buffered
  (`GateStep`), and a slot's holder keeps its body until it gives the slot back (`SlotKept`).

**ProxyChain, outcomes** (`JourneyInvariance`). `Journey(r)` says what a request has made of its chain.
A step of one request leaves the others `Untouched`, and moves its own in one of a few ways
(`Moves`: it begins, skips a candidate, sends, repairs a credential, is failed by a target, starts
another pass, is selected, ends, is forgotten), whatever the handler's reason; each part of
`Journey` is kept by each of these moves, and the thirty return paths are only looked at once.
* `LoopEnds`: `Budget` counts the calls of the passes that are over, those of this pass up to the
  loop counter, and one for each refreshed provider.
* `TriedBeforeExhausted`: `Passed` says that what lies behind the loop counter was called, or was
  skipped as cooling in a pass that is not the last.
* `BlameIsHonest`: `Marked` ties the five flags of the final error to the history of the targets.
* `HealthIsFair`: `HealthInv` follows from the same moves, as each records at most one outcome.
* `LegsAreCounted`: a step lights a leg, moves it between phases or puts it out for one target
  (`LegInv` counts the lit legs as a finite set); with `GateIsSound` it makes up `ResourcesAreHeld`.
* `CommittedIsFramed`: what a client is told after the head of an event stream is an event. It needs
  the hypothesis that no candidate's normalizer refuses the body: without it the run
  `chain_malformed` refutes the property. `WellFormedFraming` is the same statement with the
  hypothesis made of the request at hand, so that others may be malformed.

**BodyGate** (`GateIsSound`). `GateBounded` is not inductive: between load and swap a request
carries a count that may be stale. The invariant adds `RoomSeen`, that a request only swaps a
count below the limit; a won swap then proves that the count is current. Types, bound and the
honesty of refusals follow and make up `GateSound`.

**Admission** (`CapsHold`). `AdmissionInv` says what each of the tracker's numbers counts: requests of a
ticket that hold a slot, that stream, that were announced; and, for every month and every limit,
that no more requests were admitted under it than the counter shows. That no burst passes a cap
follows, as the check and the reservation are one step and the rest only counts. The check adds
up the tickets of an account; that this sum is the number of requests that hold one
(`SumOfTickets`) is proved without induction: of the sets for which the sum is not the count, take
one of least size, and remove an element (`WFMin`). `Notifications` needs the same of the
charges of an hour (`SumIsCount`, `SumCovers`).

**KeepaliveWriter** (`KeepaliveIsSound`). A timer is set or a firing is on its way unless the writer is
closed, and the handler returns through `Close`.

**ReasoningSelector** (`SelectorIsSound`). The state is one wish and what was sent for it, so the
work is in the operators: one lemma for each protocol that a selector is written in says that what
is written is within what is advertised and off when it was asked off, and a lemma for the body
says that every mapped one is written over a body with no selector left in it.

### Credentials

**ClientKeys** (`KeysStayCurrent`). The cache is current because of what is about to be published:
`VerifiedIsCurrent` says that a verification whose revision still stands has seen a key that is
current, where *current* (`Current`) includes a change whose handler has yet to return. A change
of a row therefore breaks no entry, and the invalidation, which ends that excuse, removes the
entries and moves the revision in one step. The three other caches are proved the same way:

* **ManagementTokens** (`GrantsStayCurrent`): an editor writes under the cache's lock (`LockIsHeld`), so an
  entry is never behind its row but for a revocation of all, which has not returned.
* **AdminSessions** (`AdminSessionsAreSound`): what a request has in hand, between reading a session
  and renewing or publishing it, is honoured by the row unless a revocation has moved the
  generation (`InHand`); whoever is on the way to a session is the owner of the credential
  (`Claimed`); and a start that is about to write another credential has left no session
  (`StartKeeps`).
* **HostedSessions** (`HostedSessionsAreSound`): the same for two kinds of sessions, whose revocations
  commit before they invalidate (`Kept`, `Held`).

**Identity** (`IdentityIsSound`). `VisitOK` says what of an operation's reads still holds when it writes:
an unlink has seen a password that is never unset, a login of this generation has seen the
password of now, a change of the address carries the password its link was issued under. That
these survive the steps of others is one fact about all steps (`Progress`): generations, links and
passwords only move forward, and a password only with its generation.

**LoginLimiter** (`LockoutsStand`). Both tables are finite and within their bound; room is made only by
dropping an entry whose lockout is over. The count of failures of an entry is any natural.

**OAuthConnection** (`ConnectionIsSound`, `RefreshIsSound`). `Guarded` adds to the
properties that everything carries a generation and a login that have begun. `Tracked` adds
`OneLeader` (only the caller in the map leads and holds a record), `OneGeneration` (a login both
held and stored has one generation), `FreshLogin` (a login on its way to the row is nobody
else's) and `HandIsLive`, `FlowIsLive` (what is about to be stored is accepted by the provider, or
its login was withdrawn). `RefreshIsSound` adds that a connection which is dead, or about to be
marked so, was refused (`Condemned`), as long as no new login has replaced the connection
(`logins = 0` in `RefreshHolds`), since the dead-state write compares nothing (section 5).

**SecretKeys** (`StaysSealed`, `RunbookKeepsSecrets`). `SealedInv` adds to "one key for all" what the
running process knows of its key (`KeyIsKnown`), with no assumption on operators. `KeptInv` adds
`RotationIsCovered`: a rotation that may overwrite one key file has the key of every secret in the
other. It is only true of operators who restore the key after an interrupted rotation
(`FollowsRunbook`), and `rotation_retried` shows that it needs to be.

### Store and background

**MailOutbox** (`OutboxRefinesDelivery`: `MailSpec => OutboxImplementsDelivery`). The refinement needs
that what a pass has in hand nobody else settles (`BatchIsUnsettled`, `SendIsUnsettled`: one worker,
distinct rows, each as it was read or deleted since), and that attempts never exceed the errors
the provider gave (`AttemptsWereErrors`), as a write that is lost is not counted. Each step of the
worker then is one of `MailDelivery` or a stutter (`StepImplements`).

**ActivityLog** (`HistoryStaysErased`). How far a deletion is tells what is left of its rows
(`DeletionOK`): marked, none enters the queue; drained, none is in the writer; clean, none is in
the table. That a flush drained the queue is `WriterOK`: the lock belongs to the caller that waits,
and a writer that was asked has emptied the queue while nobody could enqueue.

**Notifications** (`OwnersAreNotFlooded`). `KeysInv`: a delivery under way has its topic reserved for
itself. `WindowsInv`: a topic may be posted again, or its window says until when it may not. The
floor of the window is the least cooldown in force since the last post, so a setting that is
changed, saved or pruned meanwhile is covered.

**QuotaPoller** (`FiguresAreCurrent`). Generations only grow, and a check that carries the generation
of now was started for the registration of now and is its only one (`ChecksOK`).

**Permissions** (`PermissionsAreSound`). The property is inductive as it stands, with the types: each
transaction restores it, a patch that was decided on an older read included.

**Catalogue** (`CatalogueIsSound`). `RefreshesInv`: one refresh at a time holds a provider's lock, and
the answer it has in hand is not older than what is applied. That references resolve is kept
because a transaction that removes a row removes what names it, or is refused.

**DatabaseOpen** (`DatabaseIsSound`, `RollbackIsThere`). `DatabaseInv` adds to the property: every log is
somewhere and the central tables hold no estimate (`PlacesInv`); an estimate is flagged, in a column
that is there, until the rewrite that reads it is recorded (`SourcesInv`); what each stage of a start
has behind it, whichever start did it (`StepsInv`); what a first start leaves when it is cut short
(`MarkerInv`); and that a complete copy holds what the tenancy migration is about to change, and only a
complete or an empty one lets a start get there (`ShelfInv`). That it is never the empty one is what
the repository says, and what `snapshot_torn` refutes. TLC checked `DatabaseInv` as an invariant before
it was proved. The one fact about the order of the columns, that the flag is added before the sources,
is `ColumnsAre`.

**VirtualCapabilities** (`CapabilitiesAreProved`). `CapabilityInv` says of the targets gone through what the
property says of all (`LimitKnown`, `FlagKnown`, `ReportKnown`); that two coherent reports merge to a
coherent one which tells the union and is mandatory only if both are is `MergedReport`, and what a
narrowest or widest bound is, `Bounds`.

**RequestTranslation** (`SettingsArrive`). Two conjuncts of `ConversationKept`, `SettingsKept` and
`ChoiceNotWeakened`, for conversations of any length: limits, options, tools and the choice of
them do not depend on the turns (`AnswerShape`), so that no induction is needed.

### What is only model-checked, and why

* Liveness: `Decided`, `Returns`, `Settled`, `FlushReturns`, `QueuedMailSettles`, `PageSettles`. Fairness
  and `ENABLED` are out of the prover's reach.
* `TranslationHolds`, `AnswerArrives` and what `ConversationKept` says of the turns: these are folds over sequences,
  and what they compute for every conversation needs an induction over data, which the installed
  provers cannot instantiate.

Where a helper of a sequence library is itself defined by recursion the models that are proved
about use a definition by its property instead (`Catalogue` takes the targets of a chain without a
model by `OthersOf`, the re-indexing of those that stay).

## 5. Findings and observations

With a run each (the quoted sentences are in `PROJECT.json`):

1. *chain_malformed*: a normalizer that refuses the body for a later target answers with a JSON
   error after an earlier target has committed the stream (`client.go:959-997`).
2. *oauth_kept*: the shared refresh writes its result on the context of the client that leads it,
   so a rotated pair is lost when that client leaves (`refresh.go:133`, `:146`).
3. *keepalive_split*: the timer may write its comment between the two lines of an event, and the
   blank line of the comment ends the event early (`sse_keepalive.go:49`).
4. *translated_usage*: a Responses client of a Chat or Messages upstream is told no usage, whenever it
   arrives: the Responses branch of `writeTranslatedEvent` (`translate.go:2281-2348`) has no case for it
   and never calls `accumulateUsage`, so `writeStreamDone` has nothing to put into
   `response.completed` (`:1503`).
5. *rotation_retried*: a rotation that is started again after an interrupted one overwrites the
   sidecar, the only copy of the key the secrets are sealed with (`main.go:285`).
6. *slow_upload*: the comment at `bodyread.go:29` says that every read resets the deadline of a body and
   a slow upload is never cut off, while `withBodyReadDeadline` sets one deadline for the whole of it
   (`bodyread.go:78`). That deadline is also what ends a body that trickles for ever (`Settled`): either
   the comment or the code has to give.
7. *snapshot_torn*: a `VACUUM INTO` that fails or is killed leaves an empty file, which the next start
   finds by its name, which `Verify` accepts and which lets the tenancy migration run without a rollback
   (`database.go:206`, `494`).

Without a run. A definition in parentheses states what a text of the repository or common sense
asks; it is kept next to the model it is about. TLC refutes it there, with the larger instance that is
named where one is needed:

* a non-streaming reply whose translation fails after the status went out is logged as an error
  and the client is told nothing (`ProxyChain!FailureIsReported`, `client.go:1672`);
* a login does not advance the generation, so a refresh under way overwrites the login that
  replaced it (`OAuthConnection!ReplacementStands`, `refresh.go:133`), and the dead-state write
  compares nothing and may hit the newer login (`DeadIsDefinitive` with a flow, `refresh.go:91`);
  when the delete of a disconnect fails, the row stays in use though nothing can be stored over
  it until a second disconnect (`admin_oauth.go:636`, `undeleted`);
* a deletion of a client key whose Activity cleanup fails returns an error before the cache is
  invalidated, so the deleted key goes on being served while its entry lives
  (`ClientKeys!DeletedIsRefused`, `admin_clients.go:476-483`); an intent may be retired while a
  request of the deleted scope has yet to write its row, when the handler of the deletion failed
  (`ActivityLog!NoOrphanedHistory`, `store.go:107-110`);
* a linked Google identity and an enabled password can end up side by side
  (`Identity!GoogleMeansNoPassword`, `account.go:130-183`), and a reset link older than the last
  change of a credential still works (`StaleResetNeverApplies`, `identity.go:864`);
* the hourly budget is charged on admission, so notifications that the cooldown then holds back
  use it up (`Notifications!BudgetCountsDeliveries`, `notifications.go:203`);
* two patches of one key may leave a single-model key with a template
  (`Permissions!SingleCarriesNoTemplate`, two `Patches`), a fixed chain with two targets
  (`Catalogue!FixedHasOneTarget`, two `Edits`); a patch that makes a key single has found its old
  binding and does not write it, and when the bound model is removed before it commits, the
  key ends up single and unbound (`SinglesAreBound`);
* an explicit disable reaches targets whose reasoning is mandatory
  (`ReasoningSelector!MandatoryNeverDisabled`, `translate.go:289`);
* in a translated request, a Messages client's tool choice "none" is dropped
  (`RequestTranslation!NoneIsHonoured`, `translate.go:794`); a file or a document among the parts of a
  message is dropped and the rest sent, except from Chat to Responses, though `README.md:360-363` says
  that translation rejects files (`FilesArriveOrAreRefused`, `translate.go:743`, `2808`); a Responses
  message whose content is a bare string arrives without it (`BareStringsArrive`, `translate.go:2806`);
  stop sequences are lost between Chat and Messages, whose names for them differ (`translate.go:712`,
  `851`);
* in a translated answer, one cut at its limit reaches clients of another protocol as complete
  (`ResponseTranslation!TruncationIsTold`, `translate.go:1356`), and one replayed on a committed
  stream loses its signatures and encrypted reasoning (`ReplayKeepsState`, `translate.go:1793`);
* in a translated stream, encrypted reasoning without a summary is missing from the completed
  response, and readable reasoning may fail a stream (`StreamTranslation!EncryptedStateCompletes`,
  `PlainReasoningIsPortable`);
* a rollback snapshot that was cut short and left in part blocks every start after it until it is
  removed (`DatabaseOpen!ReuseSnapshot`); one that an earlier release has
  written past is used again (`since`); logs moved from the central tables after the one-time rewrite
  was recorded keep `legacy` (`moved` in `UpgradesAreFaithful`, `activity.go:476`, against
  `store/activity.go:16`); a first hosted start that was cut short before the marker is not fresh at the
  next, which then converts the local account or refuses to run (`cut` in `BootstrapIsRecorded`,
  `database.go:146`, against `identity.go:422`);
* a target that reports nothing about its reasoning does not keep a virtual model from being
  published as mandatory (`VirtualCapabilities!MandatoryForAll` speaks of `Reports`,
  `virtual_capabilities.go:142`);
* a token endpoint that sends headers and stalls its body holds the leader of the shared refresh for as
  long as it stays, every waiter that stays, and with them requests in the middle of their chain
  (`OAuthConnection!Stalled`, `ProxyChain!HeldByRefresh`, `client.go:1216`, `1234`);
* a header attached after a provider was removed recreates its registration as a ghost
  (`QuotaPoller!Ghost`, `poller.go:110`); a snapshot built before a withdrawal shows the row again
  until the next reconciliation (`LiveFeed`); a mail whose completion could not be written is
  sent again (`MailDelivery` allows copies).

## 6. What is not modelled

* The bytes: wording, token counts, costs, context estimates, log columns, the wire form of the
  images of a conversation.
* Route resolution: a plan is an input of `ProxyChain`; it is immutable once resolved.
* Cryptography: hashes, ciphers, passkey ceremonies and signatures are assumed to work.
* What the SQL of a migration does to the other tables (a migration is a step of `DatabaseOpen`), backups
  by hand and the schedule of retention; parameters and effort aliases of a virtual model, which are
  unions for display.
* Device flows of OAuth (they write under the guard that is modelled), the file of the flow
  store, rate limits of HTTP handlers.
* `RefreshIfDue`, `MarkActive`, `Unregister` of the quota poller: nothing calls them.
* DNS fallback and transports, request validation and analytics of the admin API, the web pages
  but for the live one, configuration and privileges, the client libraries.

## 7. What could come next

The components that share state in the program and are checked apart here: `Admission` with
`LiveFeed` (the tracker's counts and the page), `ClientKeys` with `ActivityLog` (a key's deletion
and its history), `Catalogue` with `Permissions` (a refresh seeds permissions) and `KeepaliveWriter`
with `StreamTranslation` inside the relay of `ProxyChain`. An abstract promise of the proxy (a
request is answered by one target that worked, or told why none did), refined by `ProxyChain`.

Proofs that compose: what `ProxyChain` needs of the cooldown store and of the gate, stated once as
their promise and used instead of their steps. Lemmas about one turn or one event of the
translations, which need no induction and would carry their conversions for every value of a turn.
