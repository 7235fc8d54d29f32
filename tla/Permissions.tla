---------------------------- MODULE Permissions ----------------------------
(***************************************************************************)
(* Which models a client key may use (store/clients.go, templates.go and   *)
(* the seeding in providers.go, models.go, virtual.go).  A key and a       *)
(* catalogue template each own one row for every group of the account (a   *)
(* provider or a virtual group: whether its new models start enabled) and  *)
(* one for every model.  A key linked to a template holds a copy of the    *)
(* template's rows, rewritten whenever the template changes.  Every store  *)
(* call is one transaction; the PATCH of a key reads it first and writes   *)
(* in a transaction of its own.  Identifiers are never used again.         *)
(***************************************************************************)
EXTENDS FiniteSets

CONSTANTS
  Upstreams,      \* provider groups
  VirtualGroups,
  Models,         \* real and virtual
  GroupOf,        \* the group each model is of
  CatalogueKeys,  \* client keys
  Templates,
  Patches,        \* PATCH handlers that may run at once
  Custom          \* no template

PermissionsAssumption ==
  /\ GroupOf \in [Models -> Upstreams \cup VirtualGroups]
  /\ (Upstreams \cup VirtualGroups) \cap Models = {}
  /\ CatalogueKeys \cap Templates = {}
  /\ Custom \notin Templates
ASSUME PermissionsAssumption

VARIABLES
  item,       \* groups and models: has it been created, is it there still
  clientKey,  \* the row of client_keys
  template,
  matrix,     \* the rows of each owner
  patch       \* what each PATCH handler has read and will write
permissionVars == <<item, clientKey, template, matrix, patch>>

Groups == Upstreams \cup VirtualGroups
Items == Groups \cup Models
Owners == CatalogueKeys \cup Templates
Lives == {"none", "live", "gone"}
KeyTypes == {"catalogue", "single"}
Links == Templates \cup {Custom}
NoKey == [life |-> "none", type |-> "catalogue", template |-> Custom]
NoRows == [i \in Items |-> "absent"]
NoPatch == [step |-> "idle"]
PatchInputs == [type : KeyTypes \cup {"same"}, template : Links \cup {"same"}]

PermissionsTypeOK ==
  /\ item \in [Items -> Lives]
  /\ clientKey \in [CatalogueKeys -> [life : Lives, type : KeyTypes, template : Links]]
  /\ template \in [Templates -> Lives]
  /\ matrix \in [Owners -> [Items -> {"absent", "off", "on"}]]
  /\ patch \in [Patches -> {NoPatch} \cup
       [step : {"read"}, key : CatalogueKeys, typeSet : BOOLEAN, type : KeyTypes,
        templateSet : BOOLEAN, template : Links]]

PermissionsInit ==
  /\ item = [i \in Items |-> "none"]
  /\ clientKey = [k \in CatalogueKeys |-> NoKey]
  /\ template = [t \in Templates |-> "none"]
  /\ matrix = [o \in Owners |-> NoRows]
  /\ patch = [h \in Patches |-> NoPatch]

Present(i) == item[i] = "live"
KeyLives(k) == clientKey[k].life = "live"
OwnerLives(o) == IF o \in Templates THEN template[o] = "live" ELSE KeyLives(o)
LinkedTo(t) == {k \in CatalogueKeys : KeyLives(k) /\ clientKey[k].template = t}

-----------------------------------------------------------------------------
(* What comes and goes in the catalogue.                                   *)

\* A mutant: only the keys are seeded.
SeedKeysOnly(rows, o, new) ==
  [i \in Items |-> IF o \notin Templates /\ OwnerLives(o) /\ i \in new
                   THEN IF i \in Models THEN rows[GroupOf[i]] ELSE "off" ELSE rows[i]]

\* The rows of owner o when the items of new are inserted: a group starts off, a
\* model as its group says.
Seed(rows, o, new) ==
  LET start(i) == IF i \in Models /\ GroupOf[i] \notin new /\ rows[GroupOf[i]] = "on"
                  THEN "on" ELSE "off" IN
  [i \in Items |-> IF OwnerLives(o) /\ i \in new THEN start(i) ELSE rows[i]]

Insert(new) ==
  /\ new # {} /\ \A i \in new : item[i] = "none"
  /\ \A m \in new \cap Models : Present(GroupOf[m]) \/ GroupOf[m] \in new
  /\ item' = [i \in Items |-> IF i \in new THEN "live" ELSE item[i]]
  /\ matrix' = [o \in Owners |-> Seed(matrix[o], o, new)]
  /\ UNCHANGED <<clientKey, template, patch>>

CreateProvider(p) == Insert({p})
CreateVirtualGroup(g) == Insert({g})

\* With its group when the request names a new one.
CreateVirtualModel(m) ==
  /\ GroupOf[m] \in VirtualGroups
  /\ Insert({m}) \/ Insert({m, GroupOf[m]})

\* Discovery inserts what is new; a manual model is inserted alone.
ApplyCatalogue(p, new) ==
  /\ Present(p) /\ new \subseteq {m \in Models : GroupOf[m] = p}
  /\ Insert(new)

Delete(old) ==
  /\ item' = [i \in Items |-> IF i \in old THEN "gone" ELSE item[i]]
  /\ matrix' = [o \in Owners |->
       [i \in Items |-> IF i \in old THEN "absent" ELSE matrix[o][i]]]
  /\ UNCHANGED <<clientKey, template, patch>>

\* Refusals (a single key or a chain needs it) are Catalogue's.
DeleteProvider(p) ==
  /\ Present(p)
  /\ Delete({p} \cup {m \in Models : GroupOf[m] = p /\ Present(m)})

\* DeleteVirtualModel, and DeleteManualModel of a real one.
DeleteModel(m) == Present(m) /\ Delete({m})

DeleteVirtualGroup(g) ==
  /\ Present(g)
  /\ \A m \in Models : GroupOf[m] = g => ~Present(m)
  /\ Delete({g})

-----------------------------------------------------------------------------
(* Keys and templates.                                                     *)

FullRows(fill) == [i \in Items |-> IF Present(i) THEN fill ELSE "absent"]

\* The handler lets no single key name a template.
CreateClientKey(k, type, link) ==
  /\ clientKey[k].life = "none"
  /\ link # Custom => type = "catalogue" /\ template[link] = "live"
  /\ clientKey' = [clientKey EXCEPT ![k] = [life |-> "live", type |-> type, template |-> link]]
  /\ matrix' = [matrix EXCEPT ![k] = IF link = Custom THEN FullRows("off") ELSE matrix[link]]
  /\ UNCHANGED <<item, template, patch>>

\* The rows, the binding and the link go with the key.
RemoveClientKey(k) ==
  /\ KeyLives(k)
  /\ clientKey' = [clientKey EXCEPT ![k] = [NoKey EXCEPT !.life = "gone"]]
  /\ matrix' = [matrix EXCEPT ![k] = NoRows]
  /\ UNCHANGED <<item, template, patch>>

\* A key with a template is changed through the template only.
UpdatePermissions(k, i, value) ==
  /\ KeyLives(k) /\ clientKey[k].template = Custom /\ Present(i)
  /\ matrix' = [matrix EXCEPT ![k][i] = value]
  /\ UNCHANGED <<item, clientKey, template, patch>>

\* From nothing, everything, or a key; the rows the key lacks are filled.
CreateTemplate(t, source) ==
  /\ template[t] = "none"
  /\ source \in CatalogueKeys => KeyLives(source)
  /\ template' = [template EXCEPT ![t] = "live"]
  /\ matrix' = [matrix EXCEPT ![t] =
       IF source \in {"off", "on"} THEN FullRows(source)
       ELSE [i \in Items |-> IF matrix[source][i] = "absent" THEN FullRows("off")[i]
                             ELSE matrix[source][i]]]
  /\ UNCHANGED <<item, clientKey, patch>>

\* syncTemplateClients replaces every row of every linked key.
UpdateTemplatePermissions(t, i, value) ==
  /\ template[t] = "live" /\ Present(i)
  /\ LET rows == [matrix[t] EXCEPT ![i] = value] IN
     matrix' = [o \in Owners |-> IF o = t \/ o \in LinkedTo(t) THEN rows ELSE matrix[o]]
  /\ UNCHANGED <<item, clientKey, template, patch>>

\* The linked keys keep the rows they have.
DeleteTemplate(t) ==
  /\ template[t] = "live"
  /\ template' = [template EXCEPT ![t] = "gone"]
  /\ clientKey' = [k \in CatalogueKeys |->
       IF k \in LinkedTo(t) THEN [clientKey[k] EXCEPT !.template = Custom] ELSE clientKey[k]]
  /\ matrix' = [matrix EXCEPT ![t] = NoRows]
  /\ UNCHANGED <<item, patch>>

\* updateClientKey: the key's type and link as they are now decide what will be
\* written; becoming single clears a link that is seen.
ReadForPatch(h, k, input) ==
  LET current == clientKey[k]
      type == IF input.type = "same" THEN current.type ELSE input.type
      named == input.template \notin {"same", Custom} IN
  /\ patch[h] = NoPatch /\ KeyLives(k)
  /\ type = "single" => ~named
  /\ patch' = [patch EXCEPT ![h] =
       [step |-> "read", key |-> k,
        typeSet |-> input.type # "same", type |-> type,
        templateSet |-> input.template # "same" \/ (type = "single" /\ current.template # Custom),
        template |-> IF named THEN input.template ELSE Custom]]
  /\ UNCHANGED <<item, clientKey, template, matrix>>

\* A key or a template that has gone since fails the transaction.
WritePatch(h) ==
  LET p == patch[h]
      row == clientKey[p.key] IN
  /\ p.step = "read" /\ KeyLives(p.key)
  /\ p.templateSet /\ p.template # Custom => template[p.template] = "live"
  /\ clientKey' = [clientKey EXCEPT ![p.key] =
       [row EXCEPT !.type = IF p.typeSet THEN p.type ELSE row.type,
                   !.template = IF p.templateSet THEN p.template ELSE row.template]]
  /\ matrix' = IF p.templateSet /\ p.template # Custom
               THEN [matrix EXCEPT ![p.key] = matrix[p.template]] ELSE matrix
  /\ patch' = [patch EXCEPT ![h] = NoPatch]
  /\ UNCHANGED <<item, template>>

GiveUpPatch(h) ==
  /\ patch[h].step = "read"
  /\ patch' = [patch EXCEPT ![h] = NoPatch]
  /\ UNCHANGED <<item, clientKey, template, matrix>>

CatalogueChange ==
  \/ \E p \in Upstreams : \/ CreateProvider(p) \/ DeleteProvider(p)
                          \/ \E new \in SUBSET Models : ApplyCatalogue(p, new)
  \/ \E g \in VirtualGroups : CreateVirtualGroup(g) \/ DeleteVirtualGroup(g)
  \/ \E m \in Models : CreateVirtualModel(m) \/ DeleteModel(m)

KeyChange ==
  \/ \E k \in CatalogueKeys :
       \/ \E type \in KeyTypes, link \in Links : CreateClientKey(k, type, link)
       \/ RemoveClientKey(k)
       \/ \E i \in Items, value \in {"off", "on"} : UpdatePermissions(k, i, value)
       \/ \E h \in Patches, input \in PatchInputs : ReadForPatch(h, k, input)
  \/ \E h \in Patches : WritePatch(h) \/ GiveUpPatch(h)

TemplateChange ==
  \E t \in Templates :
    \/ \E source \in {"off", "on"} \cup CatalogueKeys : CreateTemplate(t, source)
    \/ \E i \in Items, value \in {"off", "on"} : UpdateTemplatePermissions(t, i, value)
    \/ DeleteTemplate(t)

PermissionsNext == CatalogueChange \/ KeyChange \/ TemplateChange

PermissionsSpec == PermissionsInit /\ [][PermissionsNext]_permissionVars

-----------------------------------------------------------------------------
(* Every key and template has a row for exactly the groups and models that *)
(* exist, whatever order they were created and deleted in: a missing row   *)
(* would leave a model out of a copied template, a leftover one would      *)
(* survive what it speaks of (templates.go:200 "complete matrix row set"). *)
RowsAreExact ==
  \A o \in Owners, i \in Items :
    matrix[o][i] # "absent" <=> OwnerLives(o) /\ Present(i)

(* templates.go:9-16: "a linked client's own ... rows always mirror its     *)
(* template", through discovery, deletions, links and edits of both.       *)
LinkedMirrorsTemplate ==
  \A k \in CatalogueKeys : KeyLives(k) /\ clientKey[k].template # Custom =>
    /\ template[clientKey[k].template] = "live"
    /\ matrix[k] = matrix[clientKey[k].template]

(* admin_clients.go: "A Single key never carries a template; changing to   *)
(* Single clears it."                                                      *)
SingleCarriesNoTemplate ==
  \A k \in CatalogueKeys : clientKey[k].type = "single" => clientKey[k].template = Custom

(* What the permission matrix promises as a whole.                         *)
PermissionsHold == PermissionsTypeOK /\ RowsAreExact /\ LinkedMirrorsTemplate
=============================================================================
