----------------------------- MODULE Catalogue -----------------------------
(***************************************************************************)
(* The catalogue of an account: the providers with the models each lists,  *)
(* the virtual models (chains of targets) built from them, and the model a *)
(* single-model client key is bound to.  Refreshes of one provider         *)
(* (manual, scheduled or after an OAuth login: providers/manager.go) take  *)
(* its lock, ask the upstream and apply the answer; the administrator      *)
(* creates, edits and deletes the rows, every store call in a transaction  *)
(* of its own, while the two PATCH handlers decide on what they have read  *)
(* before (server/admin_virtual.go, admin_clients.go).  A provider that is *)
(* deleted never comes back; a model is named by its provider and its      *)
(* upstream name.                                                          *)
(***************************************************************************)
EXTENDS Naturals, Sequences, FiniteSets

CONSTANTS
  Backends,    \* providers
  RealModels,
  BackendOf,   \* the provider of each
  Listings,    \* bound: what each provider lists, from one change to the next
  Chains,      \* virtual models
  BoundKeys,   \* client keys
  Refreshes,   \* refreshes that may run at once
  Edits,       \* PATCH requests that may run at once
  Unbound,     \* no target
  NoEdit

CatalogueAssumption ==
  /\ BackendOf \in [RealModels -> Backends]
  /\ Listings \in [Backends -> Seq(SUBSET RealModels) \ {<<>>}]
  /\ \A p \in Backends : \A n \in DOMAIN Listings[p] : \A m \in Listings[p][n] : BackendOf[m] = p
  /\ RealModels \cap Chains = {} /\ Unbound \notin RealModels \cup Chains
ASSUME CatalogueAssumption

VARIABLES
  backend,   \* the row of each provider: enabled or not
  offer,     \* the list it gives now
  applied,   \* the list last applied, 0 for none
  realModel, \* how each model came in
  chain,     \* the virtual models
  boundKey,  \* the client keys: type and bound model
  refresh,   \* what each refresh is doing
  edit       \* what each PATCH has read and will write
catalogueVars == <<backend, offer, applied, realModel, chain, boundKey, refresh, edit>>

Modes == {"fixed", "ordered_fallback"}
Target == [model : RealModels, on : BOOLEAN]
\* Bound: a request names at most two targets.
TargetLists == {ts \in UNION {[1..n -> Target] : n \in 1..2} :
                  \A i, j \in DOMAIN ts : ts[i].model = ts[j].model => i = j}
NoChain(why) == [mode |-> why, targets |-> <<>>, primary |-> Unbound]
BoundTypes == {"catalogue", "single"}
Lifetime == {"none", "live", "gone"}
Bindings == RealModels \cup Chains \cup {Unbound}
NoKeyYet == [life |-> "none", type |-> "catalogue", binding |-> Unbound]
NoRefresh == [step |-> "idle"]

CatalogueTypeOK ==
  /\ backend \in [Backends -> {"none", "on", "off", "gone"}]
  /\ \A p \in Backends : offer[p] \in DOMAIN Listings[p] /\ applied[p] \in 0..offer[p]
  /\ realModel \in [RealModels -> {"absent", "manual", "listed", "retired"}]
  /\ chain \in [Chains -> [mode : Modes, targets : TargetLists, primary : RealModels]
                         \cup {NoChain("none"), NoChain("gone")}]
  /\ boundKey \in [BoundKeys -> [life : Lifetime, type : BoundTypes, binding : Bindings]]
  /\ refresh \in [Refreshes -> {NoRefresh}
       \cup [step : {"waiting", "asking"}, of : Backends]
       \cup [step : {"answered"}, of : Backends, list : Nat]]
  /\ edit \in [Edits -> {NoEdit}
       \cup [kind : {"chain"}, chain : Chains, modeSet : BOOLEAN, mode : Modes,
             targets : TargetLists \cup {<<>>}]
       \cup [kind : {"type"}, key : BoundKeys, type : BoundTypes]
       \cup [kind : {"key"}, key : BoundKeys, typeSet : BOOLEAN, type : BoundTypes,
             write : BOOLEAN, target : Bindings]]

CatalogueInit ==
  /\ backend = [p \in Backends |-> "none"]
  /\ offer = [p \in Backends |-> 1] /\ applied = [p \in Backends |-> 0]
  /\ realModel = [m \in RealModels |-> "absent"]
  /\ chain = [c \in Chains |-> NoChain("none")]
  /\ boundKey = [k \in BoundKeys |-> NoKeyYet]
  /\ refresh = [h \in Refreshes |-> NoRefresh]
  /\ edit = [e \in Edits |-> NoEdit]

BackendLives(p) == backend[p] \in {"on", "off"}
ModelExists(m) == realModel[m] # "absent"
ChainExists(c) == chain[c].mode \in Modes
KeyIsLive(k) == boundKey[k].life = "live"
TargetsOf(c) == {chain[c].targets[i].model : i \in DOMAIN chain[c].targets}
TargetExists(t) == IF t \in RealModels THEN ModelExists(t) ELSE t \in Chains /\ ChainExists(t)
ModelsOf(p) == {m \in RealModels : BackendOf[m] = p}

\* virtual_model_targets that may serve: enabled, listed, of an enabled provider.
Eligible(t) == t.on /\ realModel[t.model] \in {"manual", "listed"} /\ backend[BackendOf[t.model]] = "on"
Serves(c) == \E i \in DOMAIN chain[c].targets : Eligible(chain[c].targets[i])

-----------------------------------------------------------------------------
(* Providers and what they list.                                           *)

AddBackend(p) ==
  /\ backend[p] = "none"
  /\ backend' = [backend EXCEPT ![p] = "on"]
  /\ UNCHANGED <<offer, applied, realModel, chain, boundKey, refresh, edit>>

EnableBackend(p, value) ==
  /\ BackendLives(p)
  /\ backend' = [backend EXCEPT ![p] = value]
  /\ UNCHANGED <<offer, applied, realModel, chain, boundKey, refresh, edit>>

\* The upstream lists something else, or the base URL is edited.
ChangeOffer(p) ==
  /\ offer[p] < Len(Listings[p])
  /\ offer' = [offer EXCEPT ![p] = @ + 1]
  /\ UNCHANGED <<backend, applied, realModel, chain, boundKey, refresh, edit>>

\* The targets of other models, in their order.
OthersOf(targets, models) ==
  LET kept == {i \in DOMAIN targets : targets[i].model \notin models}
      Nth(n) == CHOOSE i \in kept : Cardinality({j \in kept : j <= i}) = n IN
  [n \in 1..Cardinality(kept) |-> targets[Nth(n)]]

\* The chain's targets without those of models, the first of the rest that may serve
\* as its primary.
Without(c, models) ==
  LET rest == OthersOf(chain[c].targets, models)
      may == {i \in DOMAIN rest : Eligible(rest[i])} IN
  [chain[c] EXCEPT !.targets = rest,
     !.primary = IF may = {} THEN chain[c].primary
                 ELSE rest[CHOOSE i \in may : \A j \in may : i <= j].model]

\* The chain has no other target that may serve.
Terminal(c, p) ==
  ~\E i \in DOMAIN chain[c].targets :
     LET t == chain[c].targets[i] IN Eligible(t) /\ BackendOf[t.model] # p

Unbind(keys) ==
  [k \in BoundKeys |-> IF k \in keys THEN [boundKey[k] EXCEPT !.binding = Unbound] ELSE boundKey[k]]
BoundTo(models) == {k \in BoundKeys : boundKey[k].binding \in models}
NoSingle(keys) == \A k \in keys : boundKey[k].type # "single"

\* DeleteProvider, one transaction; the lock of the provider is dropped after.
RemoveBackend(p) ==
  LET bound == BoundTo(ModelsOf(p))
      users == {c \in Chains : TargetsOf(c) \cap ModelsOf(p) # {}} IN
  /\ BackendLives(p) /\ NoSingle(bound)
  /\ \A c \in users : ~Terminal(c, p)
  /\ backend' = [backend EXCEPT ![p] = "gone"]
  /\ realModel' = [m \in RealModels |-> IF m \in ModelsOf(p) THEN "absent" ELSE realModel[m]]
  /\ chain' = [c \in Chains |-> IF c \in users THEN Without(c, ModelsOf(p)) ELSE chain[c]]
  /\ boundKey' = Unbind(bound)
  /\ UNCHANGED <<offer, applied, refresh, edit>>

AddManual(m) ==
  /\ BackendLives(BackendOf[m]) /\ realModel[m] = "absent"
  /\ realModel' = [realModel EXCEPT ![m] = "manual"]
  /\ UNCHANGED <<backend, offer, applied, chain, boundKey, refresh, edit>>

RemoveManual(m) ==
  /\ realModel[m] = "manual"
  /\ BoundTo({m}) = {} /\ \A c \in Chains : m \notin TargetsOf(c) \cup {chain[c].primary}
  /\ realModel' = [realModel EXCEPT ![m] = "absent"]
  /\ UNCHANGED <<backend, offer, applied, chain, boundKey, refresh, edit>>

-----------------------------------------------------------------------------
(* Manager.Refresh.                                                        *)

MoveRefresh(h, to) == refresh' = [refresh EXCEPT ![h] = to]

\* The first load only bounds the lock map.
BeginRefresh(h, p) ==
  /\ refresh[h] = NoRefresh /\ BackendLives(p)
  /\ MoveRefresh(h, [step |-> "waiting", of |-> p])
  /\ UNCHANGED <<backend, offer, applied, realModel, chain, boundKey, edit>>

Holds(h, p) == refresh[h].step \in {"asking", "answered"} /\ refresh[h].of = p

\* Under the lock the provider is loaded again.
TakeLock(h) ==
  /\ refresh[h].step = "waiting"
  /\ \A g \in Refreshes : ~Holds(g, refresh[h].of)
  /\ MoveRefresh(h, IF BackendLives(refresh[h].of)
                    THEN [step |-> "asking", of |-> refresh[h].of] ELSE NoRefresh)
  /\ UNCHANGED <<backend, offer, applied, realModel, chain, boundKey, edit>>

Discover(h) ==
  /\ refresh[h].step = "asking"
  /\ MoveRefresh(h, [step |-> "answered", of |-> refresh[h].of, list |-> offer[refresh[h].of]])
  /\ UNCHANGED <<backend, offer, applied, realModel, chain, boundKey, edit>>

\* A refused or failed request, a timeout, a transaction that fails.
RefreshFails(h) ==
  /\ refresh[h].step # "idle" /\ MoveRefresh(h, NoRefresh)
  /\ UNCHANGED <<backend, offer, applied, realModel, chain, boundKey, edit>>

\* What is listed is discovered and available (a manual model of that name is
\* adopted), what was listed and has vanished is retired.
Relist(p, list) ==
  [m \in RealModels |->
     IF m \in list THEN "listed"
     ELSE IF BackendOf[m] = p /\ realModel[m] = "listed" THEN "retired" ELSE realModel[m]]

\* ApplyCatalogue: of a provider that has gone nothing can be inserted.
ApplyListing(h) ==
  LET p == refresh[h].of IN
  /\ refresh[h].step = "answered" /\ BackendLives(p)
  /\ realModel' = Relist(p, Listings[p][refresh[h].list])
  /\ applied' = [applied EXCEPT ![p] = refresh[h].list]
  /\ MoveRefresh(h, NoRefresh)
  /\ UNCHANGED <<backend, offer, chain, boundKey, edit>>

-----------------------------------------------------------------------------
(* Virtual models.                                                         *)

Active(ts) == {i \in DOMAIN ts : ts[i].on}
ValidTargets(mode, ts) == mode = "fixed" => Cardinality(Active(ts)) = 1
AllExist(ts) == \A i \in DOMAIN ts : ModelExists(ts[i].model)
Replaced(c, ts) == [chain[c] EXCEPT !.targets = ts, !.primary = ts[1].model]

AddChain(c, mode, ts) ==
  /\ chain[c] = NoChain("none") /\ ValidTargets(mode, ts) /\ AllExist(ts)
  /\ chain' = [chain EXCEPT ![c] = [mode |-> mode, targets |-> ts, primary |-> ts[1].model]]
  /\ UNCHANGED <<backend, offer, applied, realModel, boundKey, refresh, edit>>

RemoveChain(c) ==
  /\ ChainExists(c) /\ NoSingle(BoundTo({c}))
  /\ chain' = [chain EXCEPT ![c] = NoChain("gone")]
  /\ boundKey' = Unbind(BoundTo({c}))
  /\ UNCHANGED <<backend, offer, applied, realModel, refresh, edit>>

\* updateVirtualModel validates against the mode it has read.
ReadChain(e, c, mode, ts) ==
  LET new == IF mode = "same" THEN chain[c].mode ELSE mode IN
  /\ edit[e] = NoEdit /\ ChainExists(c)
  /\ (new = "fixed" /\ chain[c].mode = "ordered_fallback") => ts # <<>>
  /\ ts # <<>> => ValidTargets(new, ts)
  /\ mode # "same" \/ ts # <<>>
  /\ edit' = [edit EXCEPT ![e] =
       [kind |-> "chain", chain |-> c, modeSet |-> mode # "same", mode |-> new, targets |-> ts]]
  /\ UNCHANGED <<backend, offer, applied, realModel, chain, boundKey, refresh>>

\* A mutant: the targets are not looked up.
WriteChainUnseen(e) ==
  LET d == edit[e]
      c == d.chain
      row == IF d.targets = <<>> THEN chain[c] ELSE Replaced(c, d.targets) IN
  /\ d # NoEdit /\ d.kind = "chain" /\ ChainExists(c)
  /\ chain' = [chain EXCEPT ![c] = [row EXCEPT !.mode = IF d.modeSet THEN d.mode ELSE @]]
  /\ edit' = [edit EXCEPT ![e] = NoEdit]
  /\ UNCHANGED <<backend, offer, applied, realModel, boundKey, refresh>>

\* UpdateVirtualModel: only what the request named is written.
WriteChain(e) ==
  LET d == edit[e]
      c == d.chain
      row == IF d.targets = <<>> THEN chain[c] ELSE Replaced(c, d.targets) IN
  /\ d # NoEdit /\ d.kind = "chain" /\ ChainExists(c) /\ AllExist(d.targets)
  /\ chain' = [chain EXCEPT ![c] = [row EXCEPT !.mode = IF d.modeSet THEN d.mode ELSE @]]
  /\ edit' = [edit EXCEPT ![e] = NoEdit]
  /\ UNCHANGED <<backend, offer, applied, realModel, boundKey, refresh>>

-----------------------------------------------------------------------------
(* Client keys and what a single-model key is bound to.                    *)

AddKey(k, type, target) ==
  /\ boundKey[k] = NoKeyYet
  /\ IF type = "single" THEN TargetExists(target) ELSE target = Unbound
  /\ boundKey' = [boundKey EXCEPT ![k] = [life |-> "live", type |-> type, binding |-> target]]
  /\ UNCHANGED <<backend, offer, applied, realModel, chain, refresh, edit>>

DropKey(k) ==
  /\ KeyIsLive(k)
  /\ boundKey' = [boundKey EXCEPT ![k] = [NoKeyYet EXCEPT !.life = "gone"]]
  /\ UNCHANGED <<backend, offer, applied, realModel, chain, refresh, edit>>

\* GetClientKeyEditable.
ReadKeyRow(e, k) ==
  /\ edit[e] = NoEdit /\ KeyIsLive(k)
  /\ edit' = [edit EXCEPT ![e] = [kind |-> "type", key |-> k, type |-> boundKey[k].type]]
  /\ UNCHANGED <<backend, offer, applied, realModel, chain, boundKey, refresh>>

\* GetSingleBinding.  A request that names a target, or only the model's name (and
\* then writes the target just read), writes the binding; so does one that makes a
\* key single for which no binding was found.
ReadBinding(e, type, target) ==
  LET d == edit[e]
      found == boundKey[d.key].binding
      new == IF type = "same" THEN d.type ELSE type IN
  /\ d # NoEdit /\ d.kind = "type"
  /\ edit' = [edit EXCEPT ![e] =
       [kind |-> "key", key |-> d.key, typeSet |-> type # "same", type |-> new,
        write |-> target # "none" \/ (type = "single" /\ found = Unbound),
        target |-> IF target \in {"none", "name"} THEN found ELSE target]]
  /\ UNCHANGED <<backend, offer, applied, realModel, chain, boundKey, refresh>>

\* UpdateClientKey: a target that is gone fails the transaction.
WriteKey(e) ==
  LET d == edit[e]
      row == boundKey[d.key] IN
  /\ d # NoEdit /\ d.kind = "key" /\ row.life = "live"
  /\ d.write => TargetExists(d.target)
  /\ boundKey' = [boundKey EXCEPT ![d.key] =
       [row EXCEPT !.type = IF d.typeSet THEN d.type ELSE @,
                   !.binding = IF d.write THEN d.target ELSE @]]
  /\ edit' = [edit EXCEPT ![e] = NoEdit]
  /\ UNCHANGED <<backend, offer, applied, realModel, chain, refresh>>

GiveUpEdit(e) ==
  /\ edit[e] # NoEdit /\ edit' = [edit EXCEPT ![e] = NoEdit]
  /\ UNCHANGED <<backend, offer, applied, realModel, chain, boundKey, refresh>>

BackendSteps ==
  \/ \E p \in Backends : \/ AddBackend(p) \/ ChangeOffer(p) \/ RemoveBackend(p)
                         \/ \E value \in {"on", "off"} : EnableBackend(p, value)
                         \/ \E h \in Refreshes : BeginRefresh(h, p)
  \/ \E m \in RealModels : AddManual(m) \/ RemoveManual(m)
  \/ \E h \in Refreshes : TakeLock(h) \/ Discover(h) \/ RefreshFails(h) \/ ApplyListing(h)

ChainSteps ==
  \/ \E c \in Chains :
       \/ \E mode \in Modes, ts \in TargetLists : AddChain(c, mode, ts)
       \/ RemoveChain(c)
       \/ \E e \in Edits, mode \in Modes \cup {"same"}, ts \in TargetLists \cup {<<>>} :
            ReadChain(e, c, mode, ts)
  \/ \E e \in Edits : WriteChain(e)

BindingSteps ==
  \/ \E k \in BoundKeys :
       \/ \E type \in BoundTypes, target \in Bindings : AddKey(k, type, target)
       \/ DropKey(k)
       \/ \E e \in Edits : ReadKeyRow(e, k)
  \/ \E e \in Edits :
       \/ \E type \in BoundTypes \cup {"same"}, target \in RealModels \cup Chains \cup {"none", "name"} :
            ReadBinding(e, type, target)
       \/ WriteKey(e) \/ GiveUpEdit(e)

CatalogueNext == BackendSteps \/ ChainSteps \/ BindingSteps

CatalogueSpec == CatalogueInit /\ [][CatalogueNext]_catalogueVars

-----------------------------------------------------------------------------
(* Nothing points at what is not there, through deletions, refreshes and   *)
(* edits decided on older reads: a chain has targets, all of them rows,    *)
(* with its primary among them, and a bound model exists.  The foreign     *)
(* keys are ON DELETE RESTRICT, so this is also what keeps a deletion that *)
(* the code has allowed from failing half way (migrations 001, 007, 010).  *)
ReferencesResolve ==
  /\ \A c \in Chains : ChainExists(c) =>
       /\ TargetsOf(c) # {} /\ chain[c].primary \in TargetsOf(c)
       /\ \A m \in TargetsOf(c) : ModelExists(m)
  /\ \A k \in BoundKeys : boundKey[k].binding # Unbound => TargetExists(boundKey[k].binding)
  /\ \A m \in RealModels : ModelExists(m) => BackendLives(BackendOf[m])

(* What is shown as discovered and available is exactly one answer of the  *)
(* provider: never a mixture of the answers of two refreshes, and a model  *)
(* the provider no longer lists is retired (store/models.go:63 "retires    *)
(* vanished ones").                                                        *)
ShowsOneListing ==
  \A p \in Backends : BackendLives(p) =>
    {m \in ModelsOf(p) : realModel[m] = "listed"} =
      IF applied[p] = 0 THEN {} ELSE Listings[p][applied[p]]

(* A refresh never puts back an older answer over a newer one: the reason  *)
(* for the provider's lock (manager.go:95-99).                           *)
CatalogueNeverGoesBack ==
  [][\A p \in Backends : applied[p] <= applied'[p]]_catalogueVars

(* Deleting a provider never takes the last target that may serve away     *)
(* from a virtual model (providers.go:337 "the last target in a virtual    *)
(* model chain").                                                          *)
DeletionLeavesChainsServing ==
  [][\A p \in Backends, c \in Chains :
       (BackendLives(p) /\ backend'[p] = "gone" /\ TargetsOf(c) \cap ModelsOf(p) # {})
         => Serves(c)']_catalogueVars

(* admin_virtual.go:46 "Fixed mode requires exactly one enabled target".   *)
FixedHasOneTarget ==
  \A c \in Chains : ChainExists(c) => ValidTargets(chain[c].mode, chain[c].targets)

(* A key that is single has a model to answer with (client.go refuses it   *)
(* with invalid_single_binding otherwise).                                 *)
SinglesAreBound ==
  \A k \in BoundKeys : boundKey[k].type = "single" => boundKey[k].binding # Unbound

(* What the catalogue promises as a whole, of its rows and of its steps.   *)
CatalogueHolds ==
  /\ [](CatalogueTypeOK /\ ReferencesResolve /\ ShowsOneListing)
  /\ CatalogueNeverGoesBack /\ DeletionLeavesChainsServing
=============================================================================
