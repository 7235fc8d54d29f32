---------------------------- MODULE ContentsProofs ----------------------------
(****************************************************************************)
(* Proofs about what the router stores and passes on: the sealed secrets,   *)
(* the keepalive of a stream, the permission matrix, the quota figures, the *)
(* catalogue, the reasoning controls, the settings of a translated request  *)
(* and the capabilities of a virtual model.  They share no state.           *)
(****************************************************************************)
EXTENDS SecretKeys, KeepaliveWriter, Permissions, QuotaPoller, Catalogue, ReasoningSelector,
        RequestTranslation, VirtualCapabilities,
        FiniteSetTheorems, SequenceTheorems, WellFoundedInduction, TLAPS

-----------------------------------------------------------------------------
(***************************************************************************)
(* Proofs about the master key: that all ciphertext stays under one key,   *)
(* and, for operators who follow the runbook, that this key is never lost. *)
(***************************************************************************)
\* What the running process knows of the key it works with.
KeyIsKnown ==
  /\ stage \in {"resolved", "serving"} => key \in OperatorKeys \cup {master, NoMasterKey}
  /\ stage \in {"rotating", "preserved", "replaced", "failed"} => newKey \in OperatorKeys
  /\ stage = "rotating" => key = master
  /\ stage \in {"preserved", "failed"} \/ (stage = "replaced" /\ fromFile) => key = sidecar
  /\ stage = "failed" \/ (stage = "replaced" /\ fromFile) => master = newKey

\* A rotation that may overwrite a key file has the key of every secret in the
\* other one, or the operator has it.
RotationIsCovered ==
  /\ stage = "rotating" => \A s \in Secrets : cell[s] \in MasterKeys => cell[s] \in OperatorKeys \cup {master}
  /\ stage = "preserved" => \A s \in Secrets : cell[s] \in MasterKeys => cell[s] \in OperatorKeys \cup {sidecar}

SealedInv == SecretKeysTypeOK /\ SecretsStaySealed /\ KeyIsKnown

KeptInv == KeyNeverLost /\ RotationIsCovered

LEMMA SealedInit == SecretKeysInit => SealedInv
BY SecretKeysAssumption
   DEF SecretKeysInit, SealedInv, SecretKeysTypeOK, SecretsStaySealed, OneKeyForAll,
       ServedIsSealed, KeyIsKnown, Stages, MasterKeys

\* One key seals everything before and after each step.
LEMMA SealedStep ==
  ASSUME SealedInv, [SecretKeysNext]_secretVars
  PROVE  SealedInv'
<1> USE SecretKeysAssumption
    DEF SealedInv, SecretKeysTypeOK, SecretsStaySealed, OneKeyForAll, ServedIsSealed, KeyIsKnown,
        Stages, MasterKeys, Exit
<1>1. CASE StartWithKey
  BY <1>1 DEF StartWithKey, Resolved
<1>2. CASE StartGenerating
  BY <1>2 DEF StartGenerating
<1>3. CASE Migrate
  <2>1. CASE key # NoMasterKey /\ Decrypts(key)
    BY <1>3, <2>1 DEF Migrate, Decrypts, EncryptPlain
  <2>2. CASE ~(key # NoMasterKey /\ Decrypts(key))
    BY <1>3, <2>2 DEF Migrate
  <2> QED
    BY <2>1, <2>2
<1>4. ASSUME NEW s \in Secrets, SaveSecret(s) \/ DropSecret(s)
      PROVE  SealedInv'
  BY <1>4 DEF SaveSecret, DropSecret
<1>5. ASSUME NEW k \in OperatorKeys, BeginRotation(k)
      PROVE  SealedInv'
  BY <1>5 DEF BeginRotation, Resolved
<1>6. CASE PreserveKey \/ ReplaceKey
  BY <1>6 DEF PreserveKey, ReplaceKey
<1>7. CASE RotateSecrets
  BY <1>7 DEF RotateSecrets, Reencrypted
<1>8. CASE RotationFails \/ RestoreKey
  BY <1>8 DEF RotationFails, RestoreKey
<1>9. CASE CopySidecarBack
  BY <1>9 DEF CopySidecarBack
<1>10. ASSUME NEW k \in OperatorKeys \cup {NoMasterKey}, SetEnvironment(k)
       PROVE  SealedInv'
  BY <1>10 DEF SetEnvironment
<1>11. CASE Die
  BY <1>11 DEF Die
<1>12. CASE UNCHANGED secretVars
  BY <1>12 DEF secretVars
<1> QED
  BY <1>1, <1>2, <1>3, <1>4, <1>5, <1>6, <1>7, <1>8, <1>9, <1>10, <1>11, <1>12
     DEF SecretKeysNext, ServiceSteps, RotationSteps, OperatorSteps

\* All ciphertext is under one key and an unlocked service can read all of it,
\* at whatever step a start or a rotation dies, runbook or not (MigrateSecrets,
\* RotateSecrets).
THEOREM StaysSealed == SecretKeysSpec => []SecretsStaySealed
<1>1. SealedInv => SecretsStaySealed
  BY DEF SealedInv
<1> QED
  BY <1>1, SealedInit, SealedStep, PTL DEF SecretKeysSpec

-----------------------------------------------------------------------------
LEMMA KeptInit == SecretKeysInit => KeptInv
BY SecretKeysAssumption DEF SecretKeysInit, KeptInv, KeyNeverLost, RotationIsCovered, MasterKeys

\* A rotation that begins finds no secret that only the sidecar can read: such
\* an installation is Interrupted, and the runbook has the sidecar copied back.
LEMMA BeginsCovered ==
  ASSUME FollowsRunbook, SealedInv, KeptInv, NEW k \in OperatorKeys, BeginRotation(k),
         NEW s \in Secrets, cell[s] \in MasterKeys
  PROVE  cell[s] \in OperatorKeys \cup {master}
<1>1. ~Interrupted
  BY DEF BeginRotation
<1>2. SUFFICES ASSUME cell[s] = sidecar, cell[s] # master
              PROVE  Interrupted
  BY <1>1 DEF KeptInv, KeyNeverLost
<1>3. HasEncrypted
  BY DEF HasEncrypted
<1>4. Decrypts(sidecar)
  BY <1>2 DEF Decrypts, SealedInv, SecretsStaySealed, OneKeyForAll, SecretKeysTypeOK
<1>5. ~Decrypts(master)
  BY <1>2, SecretKeysAssumption DEF Decrypts, MasterKeys
<1> QED
  BY <1>3, <1>4, <1>5 DEF Interrupted

LEMMA KeptStep ==
  ASSUME FollowsRunbook, SealedInv, KeptInv, [SecretKeysNext]_secretVars
  PROVE  KeptInv'
<1> USE SecretKeysAssumption
    DEF KeptInv, KeyNeverLost, RotationIsCovered, SealedInv, SecretKeysTypeOK, KeyIsKnown,
        MasterKeys, Exit
<1>1. CASE StartWithKey
  BY <1>1 DEF StartWithKey
<1>2. CASE StartGenerating
  BY <1>2 DEF StartGenerating, HasEncrypted
<1>3. CASE Migrate
  BY <1>3 DEF Migrate, EncryptPlain
<1>4. ASSUME NEW s \in Secrets, SaveSecret(s) \/ DropSecret(s)
      PROVE  KeptInv'
  BY <1>4 DEF SaveSecret, DropSecret
<1>5. ASSUME NEW k \in OperatorKeys, BeginRotation(k)
      PROVE  KeptInv'
  <2>1. \A s \in Secrets : cell[s] \in MasterKeys => cell[s] \in OperatorKeys \cup {master}
    BY <1>5, BeginsCovered
  <2> QED
    BY <1>5, <2>1 DEF BeginRotation
<1>6. CASE PreserveKey
  BY <1>6 DEF PreserveKey
<1>7. CASE ReplaceKey
  BY <1>7 DEF ReplaceKey
<1>8. CASE RotateSecrets
  BY <1>8 DEF RotateSecrets, Reencrypted
<1>9. CASE RotationFails
  BY <1>9 DEF RotationFails
<1>10. CASE RestoreKey
  BY <1>10 DEF RestoreKey
<1>11. CASE CopySidecarBack
  BY <1>11 DEF CopySidecarBack, Interrupted, Decrypts
<1>12. ASSUME NEW k \in OperatorKeys \cup {NoMasterKey}, SetEnvironment(k)
       PROVE  KeptInv'
  BY <1>12 DEF SetEnvironment
<1>13. CASE Die
  BY <1>13 DEF Die
<1>14. CASE UNCHANGED secretVars
  BY <1>14 DEF secretVars
<1> QED
  BY <1>1, <1>2, <1>3, <1>4, <1>5, <1>6, <1>7, <1>8, <1>9, <1>10, <1>11, <1>12, <1>13, <1>14
     DEF SecretKeysNext, ServiceSteps, RotationSteps, OperatorSteps

\* With operators who follow the runbook no crash of a start or a rotation
\* costs the key of a stored secret (rotateMasterKey, the sidecar).
THEOREM RunbookKeepsSecrets == FollowsRunbook => (SecretKeysSpec => []SecretsHold)
<1> SUFFICES ASSUME FollowsRunbook
             PROVE  SecretKeysSpec => []SecretsHold
  OBVIOUS
<1>1. SecretKeysInit => SealedInv /\ KeptInv
  BY SealedInit, KeptInit
<1>2. (SealedInv /\ KeptInv) /\ [SecretKeysNext]_secretVars => (SealedInv /\ KeptInv)'
  BY SealedStep, KeptStep
<1>3. SealedInv /\ KeptInv => SecretsHold
  BY DEF SealedInv, KeptInv, SecretsHold
<1> QED
  BY <1>1, <1>2, <1>3, PTL DEF SecretKeysSpec

-----------------------------------------------------------------------------
(***************************************************************************)
(* Proof that the keepalive goes on while the handler runs and leaves the  *)
(* connection alone afterwards.                                            *)
(***************************************************************************)
\* The handler returns with Close, which stops the goroutines that wait.
KeepaliveInv ==
  /\ firing \in Nat
  /\ relay = "returned" => stopped
  /\ NeverFallsSilent

LEMMA KeepaliveInvariant == KeepaliveSpec => []KeepaliveInv
<1>1. KeepaliveInit => KeepaliveInv
  BY DEF KeepaliveInit, KeepaliveInv, NeverFallsSilent
<1>2. ASSUME KeepaliveInv, [KeepaliveNext]_keepaliveVars
      PROVE  KeepaliveInv'
  <2> USE <1>2 DEF KeepaliveInv, NeverFallsSilent
  <2>1. CASE TimerExpires
    BY <2>1 DEF TimerExpires
  <2>2. CASE Keepalive
    BY <2>2 DEF Keepalive
  <2>3. CASE Write
    BY <2>3 DEF Write
  <2>4. CASE Close
    BY <2>4 DEF Close
  <2>5. CASE UNCHANGED keepaliveVars
    BY <2>5 DEF keepaliveVars
  <2> QED
    BY <2>1, <2>2, <2>3, <2>4, <2>5 DEF KeepaliveNext
<1> QED
  BY <1>1, <1>2, PTL DEF KeepaliveSpec

\* While the handler runs there is always a comment on its way, and after it
\* nothing is written, whatever order the timer, the goroutines it starts and
\* the relay take the mutex in (keepalive, Close).
THEOREM KeepaliveIsSound == KeepaliveSpec => KeepaliveHolds
<1>1. KeepaliveInv => NeverFallsSilent
  BY DEF KeepaliveInv
<1>2. KeepaliveInv /\ [KeepaliveNext]_keepaliveVars
        => [relay = "returned" => wire' = wire]_keepaliveVars
  <2> SUFFICES ASSUME KeepaliveInv, [KeepaliveNext]_keepaliveVars, relay = "returned"
               PROVE  wire' = wire
    OBVIOUS
  <2>1. stopped
    BY DEF KeepaliveInv
  <2> QED
    BY <2>1 DEF KeepaliveNext, TimerExpires, Keepalive, Write, Close, keepaliveVars
<1> QED
  BY <1>1, <1>2, KeepaliveInvariant, PTL DEF KeepaliveSpec, KeepaliveHolds

-----------------------------------------------------------------------------
(* The permission matrix.                                                   *)

Cells == {"absent", "off", "on"}
PatchRows ==
  {NoPatch} \cup [step : {"read"}, key : CatalogueKeys, typeSet : BOOLEAN, type : KeyTypes,
                  templateSet : BOOLEAN, template : Links]
KeyRows == [life : Lives, type : KeyTypes, template : Links]

\* A group is no model, a key no template.
LEMMA PermissionsConstants ==
  /\ \A k \in CatalogueKeys : k \in Owners /\ k \notin Templates
  /\ \A t \in Templates : t \in Owners /\ t \in Links /\ t # Custom
  /\ Custom \in Links /\ NoKey \in KeyRows /\ [NoKey EXCEPT !.life = "gone"] \in KeyRows
  /\ \A m \in Models : GroupOf[m] \in Items /\ GroupOf[m] \notin Models
  /\ \A o \in Owners : o \in Templates \/ o \in CatalogueKeys
  BY PermissionsAssumption
     DEF PermissionsAssumption, Owners, Links, NoKey, KeyRows, Lives, KeyTypes, Items, Groups

PermissionsInv == PermissionsHold

\* What an invariant state says of one key, one owner and one patch.
LEMMA PermissionsRows ==
  ASSUME PermissionsInv
  PROVE  /\ \A k \in CatalogueKeys : clientKey[k] \in KeyRows
         /\ \A o \in Owners : matrix[o] \in [Items -> Cells]
         /\ \A h \in Patches : patch[h] \in PatchRows
         /\ \A o \in Owners, i \in Items : matrix[o][i] # "absent" <=> OwnerLives(o) /\ Present(i)
  BY DEF PermissionsInv, PermissionsHold, PermissionsTypeOK, RowsAreExact, KeyRows, Cells, PatchRows

\* New items bring their rows, in a linked key the same as in its template.
LEMMA InsertKeeps ==
  ASSUME PermissionsInv, NEW new \in SUBSET Items, Insert(new)
  PROVE  PermissionsInv'
<1> USE DEF PermissionsInv, PermissionsHold
<1>1. /\ item' = [i \in Items |-> IF i \in new THEN "live" ELSE item[i]]
      /\ matrix' = [o \in Owners |-> Seed(matrix[o], o, new)]
      /\ UNCHANGED <<clientKey, template, patch>>
  BY DEF Insert
<1>2. ASSUME NEW o \in Owners, NEW i \in Items
      PROVE  /\ matrix'[o] \in [Items -> Cells]
             /\ OwnerLives(o) /\ i \in new => matrix'[o][i] \in {"on", "off"}
             /\ ~(OwnerLives(o) /\ i \in new) => matrix'[o][i] = matrix[o][i]
  BY <1>1, <1>2, PermissionsRows DEF Seed, Cells
<1>3. PermissionsTypeOK'
  BY <1>1, <1>2 DEF PermissionsTypeOK, Cells, Lives, Seed
<1>4. RowsAreExact'
  <2>1. \A i \in Items : Present(i)' <=> i \in new \/ Present(i)
    BY <1>1 DEF Present
  <2>2. \A o \in Owners : OwnerLives(o)' <=> OwnerLives(o)
    BY <1>1 DEF OwnerLives, KeyLives
  <2> QED
    BY <1>2, <2>1, <2>2, PermissionsRows DEF RowsAreExact
<1>5. LinkedMirrorsTemplate'
  <2>1. ASSUME NEW k \in CatalogueKeys, KeyLives(k), clientKey[k].template # Custom
        PROVE  /\ template[clientKey[k].template] = "live"
               /\ matrix'[k] = matrix'[clientKey[k].template]
    <3>1. PICK t \in Templates : t = clientKey[k].template
      BY <2>1, PermissionsRows DEF KeyRows, Links
    <3>2. template[t] = "live" /\ matrix[k] = matrix[t]
      BY <2>1, <3>1 DEF LinkedMirrorsTemplate
    <3>3. OwnerLives(k) /\ OwnerLives(t)
      BY <2>1, <3>2, PermissionsConstants DEF OwnerLives
    <3>4. Seed(matrix[k], k, new) = Seed(matrix[t], t, new)
      BY <3>2, <3>3 DEF Seed
    <3> QED
      BY <1>1, <3>1, <3>2, <3>4, PermissionsConstants
  <2> QED
    BY <1>1, <2>1 DEF LinkedMirrorsTemplate, KeyLives
<1> QED
  BY <1>3, <1>4, <1>5

\* What goes takes its rows with it.
LEMMA DeleteKeeps ==
  ASSUME PermissionsInv, NEW old \in SUBSET Items, Delete(old)
  PROVE  PermissionsInv'
<1> USE DEF PermissionsInv, PermissionsHold
<1>1. /\ item' = [i \in Items |-> IF i \in old THEN "gone" ELSE item[i]]
      /\ matrix' = [o \in Owners |-> [i \in Items |-> IF i \in old THEN "absent" ELSE matrix[o][i]]]
      /\ UNCHANGED <<clientKey, template, patch>>
  BY DEF Delete
<1>2. PermissionsTypeOK'
  BY <1>1 DEF PermissionsTypeOK, Lives
<1>3. RowsAreExact'
  BY <1>1 DEF RowsAreExact, OwnerLives, KeyLives, Present
<1>4. LinkedMirrorsTemplate'
  <2>1. ASSUME NEW k \in CatalogueKeys, KeyLives(k), clientKey[k].template # Custom
        PROVE  /\ template[clientKey[k].template] = "live"
               /\ matrix'[k] = matrix'[clientKey[k].template]
    <3>1. PICK t \in Templates : t = clientKey[k].template
      BY <2>1, PermissionsRows DEF KeyRows, Links
    <3>2. template[t] = "live" /\ matrix[k] = matrix[t]
      BY <2>1, <3>1 DEF LinkedMirrorsTemplate
    <3> QED
      BY <1>1, <3>1, <3>2, PermissionsConstants
  <2> QED
    BY <1>1, <2>1 DEF LinkedMirrorsTemplate, KeyLives
<1> QED
  BY <1>2, <1>3, <1>4

LEMMA CatalogueChangeKeeps ==
  ASSUME PermissionsInv, CatalogueChange
  PROVE  PermissionsInv'
<1>1. CASE \E p \in Upstreams : CreateProvider(p) \/ \E new \in SUBSET Models : ApplyCatalogue(p, new)
  BY <1>1, InsertKeeps DEF CreateProvider, ApplyCatalogue, Items, Groups
<1>2. CASE \E g \in VirtualGroups : CreateVirtualGroup(g)
  BY <1>2, InsertKeeps DEF CreateVirtualGroup, Items, Groups
<1>3. ASSUME NEW m \in Models, CreateVirtualModel(m) PROVE PermissionsInv'
  <2>1. {m} \in SUBSET Items /\ {m, GroupOf[m]} \in SUBSET Items
    BY PermissionsConstants DEF Items
  <2> QED
    BY <1>3, <2>1, InsertKeeps DEF CreateVirtualModel
<1>4. ASSUME NEW p \in Upstreams, DeleteProvider(p) PROVE PermissionsInv'
  <2>1. ({p} \cup {m \in Models : GroupOf[m] = p /\ Present(m)}) \in SUBSET Items
    BY DEF Items, Groups
  <2> HIDE DEF PermissionsInv
  <2>2. PICK old \in SUBSET Items : old = {p} \cup {m \in Models : GroupOf[m] = p /\ Present(m)}
    BY <2>1
  <2> QED
    BY <1>4, <2>2, DeleteKeeps DEF DeleteProvider
<1>5. CASE \/ \E g \in VirtualGroups : DeleteVirtualGroup(g)
           \/ \E m \in Models : DeleteModel(m)
  BY <1>5, DeleteKeeps DEF DeleteVirtualGroup, DeleteModel, Items, Groups
<1> QED
  BY <1>1, <1>2, <1>3, <1>4, <1>5 DEF CatalogueChange

\* A step on keys and templates that leaves the catalogue alone.
LEMMA RowsAssembled ==
  ASSUME PermissionsInv, UNCHANGED item,
         clientKey' \in [CatalogueKeys -> KeyRows], template' \in [Templates -> Lives],
         matrix' \in [Owners -> [Items -> Cells]], patch' \in [Patches -> PatchRows],
         \A o \in Owners, i \in Items : matrix'[o][i] # "absent" <=> (OwnerLives(o))' /\ Present(i),
         \A k \in CatalogueKeys, t \in Templates :
           clientKey'[k].life = "live" /\ clientKey'[k].template = t =>
             template'[t] = "live" /\ matrix'[k] = matrix'[t]
  PROVE  PermissionsInv'
<1>1. PermissionsTypeOK'
  BY DEF PermissionsInv, PermissionsHold, PermissionsTypeOK, KeyRows, Cells, PatchRows
<1>2. RowsAreExact'
  BY DEF RowsAreExact, Present
<1>3. \A k \in CatalogueKeys : clientKey'[k].template # Custom => clientKey'[k].template \in Templates
  BY DEF KeyRows, Links
<1>4. LinkedMirrorsTemplate'
  BY <1>3 DEF LinkedMirrorsTemplate, KeyLives
<1> QED
  BY <1>1, <1>2, <1>4 DEF PermissionsInv, PermissionsHold

\* Everything a step on keys, templates and patches leaves as it was.
LEMMA PermissionsFrame ==
  ASSUME PermissionsInv
  PROVE  /\ clientKey \in [CatalogueKeys -> KeyRows] /\ template \in [Templates -> Lives]
         /\ matrix \in [Owners -> [Items -> Cells]] /\ patch \in [Patches -> PatchRows]
         /\ \A o \in Owners, i \in Items : matrix[o][i] # "absent" <=> OwnerLives(o) /\ Present(i)
         /\ \A k \in CatalogueKeys, t \in Templates :
              clientKey[k].life = "live" /\ clientKey[k].template = t =>
                template[t] = "live" /\ matrix[k] = matrix[t]
<1>1. \A t \in Templates : t # Custom
  BY PermissionsConstants
<1> QED
  BY <1>1, PermissionsRows
     DEF PermissionsInv, PermissionsHold, PermissionsTypeOK, KeyRows, Cells, PatchRows,
         LinkedMirrorsTemplate, KeyLives

\* The rows of a key that is written: those of what exists, and of its template.
GoWith(row, owned) ==
  /\ \A i \in Items : owned[i] # "absent" <=> row.life = "live" /\ Present(i)
  /\ \A t \in Templates : row.life = "live" /\ row.template = t =>
       template[t] = "live" /\ owned = matrix[t]

LEMMA KeyChangeKeeps ==
  ASSUME PermissionsInv, KeyChange
  PROVE  PermissionsInv'
<1>0. /\ clientKey \in [CatalogueKeys -> KeyRows] /\ template \in [Templates -> Lives]
      /\ matrix \in [Owners -> [Items -> Cells]] /\ patch \in [Patches -> PatchRows]
      /\ \A o \in Owners, i \in Items : matrix[o][i] # "absent" <=> OwnerLives(o) /\ Present(i)
      /\ \A k \in CatalogueKeys, t \in Templates :
           clientKey[k].life = "live" /\ clientKey[k].template = t =>
             template[t] = "live" /\ matrix[k] = matrix[t]
  BY PermissionsFrame
<1> USE PermissionsConstants, <1>0
<1>1. UNCHANGED <<item, template>> /\ \A i \in Items : Present(i)' <=> Present(i)
  BY DEF KeyChange, CreateClientKey, RemoveClientKey, UpdatePermissions, ReadForPatch, WritePatch,
     GiveUpPatch, Present
<1>2. ASSUME NEW k \in CatalogueKeys, NEW row \in KeyRows, NEW owned \in [Items -> Cells],
             clientKey' = [clientKey EXCEPT ![k] = row], matrix' = [matrix EXCEPT ![k] = owned],
             GoWith(row, owned), patch' \in [Patches -> PatchRows]
      PROVE  PermissionsInv'
  <2>1. clientKey' \in [CatalogueKeys -> KeyRows] /\ matrix' \in [Owners -> [Items -> Cells]]
    BY <1>2
  <2>2. \A o \in Owners : (OwnerLives(o))' <=> IF o = k THEN row.life = "live" ELSE OwnerLives(o)
    BY <1>1, <1>2 DEF OwnerLives, KeyLives
  <2>3. \A o \in Owners, i \in Items : matrix'[o][i] # "absent" <=> (OwnerLives(o))' /\ Present(i)
    BY <1>2, <2>2 DEF GoWith
  <2>4. \A j \in CatalogueKeys, t \in Templates :
           clientKey'[j].life = "live" /\ clientKey'[j].template = t =>
             template'[t] = "live" /\ matrix'[j] = matrix'[t]
    BY <1>1, <1>2 DEF GoWith
  <2> QED
    BY <1>1, <1>2, <2>1, <2>3, <2>4, RowsAssembled
<1>3. ASSUME NEW k \in CatalogueKeys, NEW type \in KeyTypes, NEW link \in Links,
             CreateClientKey(k, type, link)
      PROVE  PermissionsInv'
  <2> DEFINE row == [life |-> "live", type |-> type, template |-> link]
             owned == IF link = Custom THEN FullRows("off") ELSE matrix[link]
  <2>1. /\ clientKey' = [clientKey EXCEPT ![k] = row] /\ matrix' = [matrix EXCEPT ![k] = owned]
        /\ patch' = patch
        /\ link # Custom => link \in Templates /\ template[link] = "live"
    BY <1>3 DEF CreateClientKey, Links
  <2>2. row \in KeyRows /\ row.life = "live" /\ row.template = link
    BY DEF KeyRows, Lives
  <2>3. owned \in [Items -> Cells] /\ \A i \in Items : owned[i] # "absent" <=> Present(i)
    BY <2>1 DEF FullRows, Cells, OwnerLives
  <2>4. link # Custom => owned = matrix[link]
    OBVIOUS
  <2> HIDE DEF row, owned
  <2>5. GoWith(row, owned)
    BY <2>1, <2>2, <2>3, <2>4 DEF GoWith
  <2> QED
    BY <1>2, <1>3, <2>1, <2>2, <2>3, <2>5
<1>4. ASSUME NEW k \in CatalogueKeys, RemoveClientKey(k) PROVE PermissionsInv'
  <2> DEFINE row == [NoKey EXCEPT !.life = "gone"]
  <2>1. /\ clientKey' = [clientKey EXCEPT ![k] = row] /\ matrix' = [matrix EXCEPT ![k] = NoRows]
        /\ patch' = patch /\ row \in KeyRows
    BY <1>4 DEF RemoveClientKey
  <2>2. row.life = "gone"
    BY DEF NoKey
  <2>3. NoRows \in [Items -> Cells] /\ \A i \in Items : NoRows[i] = "absent"
    BY DEF NoRows, Cells
  <2> HIDE DEF row
  <2>4. GoWith(row, NoRows)
    BY <2>2, <2>3 DEF GoWith
  <2> QED
    BY <1>2, <2>1, <2>3, <2>4
<1>5. ASSUME NEW k \in CatalogueKeys, NEW i \in Items, NEW value \in {"off", "on"},
             UpdatePermissions(k, i, value)
      PROVE  PermissionsInv'
  <2> DEFINE owned == [matrix[k] EXCEPT ![i] = value]
  <2>1. /\ matrix' = [matrix EXCEPT ![k] = owned] /\ UNCHANGED <<clientKey, patch>>
        /\ KeyLives(k) /\ clientKey[k].template = Custom /\ Present(i)
    BY <1>5 DEF UpdatePermissions
  <2>2. clientKey' = [clientKey EXCEPT ![k] = clientKey[k]] /\ clientKey[k] \in KeyRows
    BY <2>1
  <2>3. /\ owned \in [Items -> Cells] /\ OwnerLives(k)
        /\ \A j \in Items : owned[j] = IF j = i THEN value ELSE matrix[k][j]
    BY <2>1 DEF Cells, OwnerLives
  <2>4. \A j \in Items : owned[j] # "absent" <=> Present(j)
    BY <2>1, <2>3
  <2> HIDE DEF owned
  <2>5. GoWith(clientKey[k], owned)
    BY <2>1, <2>4 DEF GoWith, KeyLives
  <2> QED
    BY <1>2, <1>5, <2>1, <2>2, <2>3, <2>5
<1>6. ASSUME UNCHANGED <<clientKey, matrix>>, patch' \in [Patches -> PatchRows] PROVE PermissionsInv'
  BY <1>1, <1>6, RowsAssembled DEF OwnerLives, KeyLives
<1>7. ASSUME NEW h \in Patches, NEW k \in CatalogueKeys, NEW input \in PatchInputs, ReadForPatch(h, k, input)
      PROVE  PermissionsInv'
  <2>1. PICK p : /\ patch' = [patch EXCEPT ![h] = p] /\ p \in PatchRows /\ UNCHANGED <<clientKey, matrix>>
    <3> DEFINE current == clientKey[k]
               type == IF input.type = "same" THEN current.type ELSE input.type
               named == input.template \notin {"same", Custom}
               p == [step |-> "read", key |-> k, typeSet |-> input.type # "same", type |-> type,
                     templateSet |-> input.template # "same" \/ (type = "single" /\ current.template # Custom),
                     template |-> IF named THEN input.template ELSE Custom]
    <3>1. type \in KeyTypes /\ (named => input.template \in Links)
      BY DEF PatchInputs, KeyRows
    <3>2. p \in PatchRows
      BY <3>1 DEF PatchRows
    <3>3. patch' = [patch EXCEPT ![h] = p] /\ UNCHANGED <<clientKey, matrix>>
      BY <1>7 DEF ReadForPatch
    <3> QED
      BY <3>2, <3>3
  <2> QED
    BY <1>6, <2>1
<1>8. ASSUME NEW h \in Patches, GiveUpPatch(h) PROVE PermissionsInv'
  BY <1>6, <1>8 DEF GiveUpPatch, PatchRows
<1>9. ASSUME NEW h \in Patches, WritePatch(h) PROVE PermissionsInv'
  <2>1. patch[h].step = "read" /\ patch[h] \in PatchRows /\ NoPatch.step # "read"
    BY <1>9 DEF WritePatch, NoPatch
  <2>2. PICK p \in [step : {"read"}, key : CatalogueKeys, typeSet : BOOLEAN, type : KeyTypes,
                    templateSet : BOOLEAN, template : Links] : p = patch[h]
    BY <2>1 DEF PatchRows
  <2>3. PICK k \in CatalogueKeys : k = p.key
    OBVIOUS
  <2> DEFINE linking == p.templateSet /\ p.template # Custom
             row == [clientKey[k] EXCEPT !.type = IF p.typeSet THEN p.type ELSE clientKey[k].type,
                       !.template = IF p.templateSet THEN p.template ELSE clientKey[k].template]
             owned == IF linking THEN matrix[p.template] ELSE matrix[k]
  <2>4. /\ clientKey' = [clientKey EXCEPT ![k] = row] /\ KeyLives(k)
        /\ matrix' = IF linking THEN [matrix EXCEPT ![k] = matrix[p.template]] ELSE matrix
        /\ linking => p.template \in Templates /\ template[p.template] = "live"
        /\ patch' = [patch EXCEPT ![h] = NoPatch]
    BY <1>9, <2>2, <2>3 DEF WritePatch, Links
  <2>5. /\ row \in KeyRows /\ row.life = "live"
        /\ row.template = IF p.templateSet THEN p.template ELSE clientKey[k].template
    <3>1. /\ clientKey[k] \in KeyRows /\ clientKey[k].life = "live"
          /\ p.type \in KeyTypes /\ p.template \in Links
      BY <2>4 DEF KeyLives
    <3> QED
      BY <3>1 DEF KeyRows
  <2>6. matrix' = [matrix EXCEPT ![k] = owned] /\ patch' \in [Patches -> PatchRows]
    BY <2>4 DEF PatchRows
  <2>7. /\ linking => owned = matrix[p.template] /\ row.template = p.template /\ OwnerLives(p.template)
        /\ ~linking => owned = matrix[k] /\ row.template \in {Custom, clientKey[k].template} /\ OwnerLives(k)
    BY <2>4, <2>5 DEF OwnerLives
  <2> HIDE DEF row, owned, linking
  <2>8. owned \in [Items -> Cells] /\ \A i \in Items : owned[i] # "absent" <=> Present(i)
    BY <2>4, <2>7
  <2>9. GoWith(row, owned)
    BY <2>4, <2>5, <2>7, <2>8 DEF GoWith, KeyLives
  <2> QED
    BY <1>2, <2>4, <2>5, <2>6, <2>8, <2>9
<1> QED
  BY <1>3, <1>4, <1>5, <1>7, <1>8, <1>9 DEF KeyChange

LEMMA TemplateChangeKeeps ==
  ASSUME PermissionsInv, TemplateChange
  PROVE  PermissionsInv'
<1>0. /\ clientKey \in [CatalogueKeys -> KeyRows] /\ template \in [Templates -> Lives]
      /\ matrix \in [Owners -> [Items -> Cells]] /\ patch \in [Patches -> PatchRows]
      /\ \A o \in Owners, i \in Items : matrix[o][i] # "absent" <=> OwnerLives(o) /\ Present(i)
      /\ \A k \in CatalogueKeys, t \in Templates :
           clientKey[k].life = "live" /\ clientKey[k].template = t =>
             template[t] = "live" /\ matrix[k] = matrix[t]
  BY PermissionsFrame
<1> USE PermissionsConstants, <1>0
<1>1. UNCHANGED <<item, patch>> /\ \A i \in Items : Present(i)' <=> Present(i)
  BY DEF TemplateChange, CreateTemplate, UpdateTemplatePermissions, DeleteTemplate, Present
<1>2. ASSUME NEW t \in Templates, NEW source \in {"off", "on"} \cup CatalogueKeys, CreateTemplate(t, source)
      PROVE  PermissionsInv'
  <2> DEFINE owned == IF source \in {"off", "on"} THEN FullRows(source)
                     ELSE [i \in Items |-> IF matrix[source][i] = "absent" THEN FullRows("off")[i]
                                           ELSE matrix[source][i]]
  <2>1. /\ template[t] = "none" /\ template' = [template EXCEPT ![t] = "live"]
        /\ matrix' = [matrix EXCEPT ![t] = owned] /\ UNCHANGED clientKey
        /\ source \in CatalogueKeys => KeyLives(source)
    BY <1>2 DEF CreateTemplate
  <2>2. owned \in [Items -> Cells] /\ \A i \in Items : owned[i] # "absent" <=> Present(i)
    <3>1. CASE source \in {"off", "on"}
      BY <3>1 DEF FullRows, Cells
    <3>2. CASE source \notin {"off", "on"}
      BY <2>1, <3>2 DEF FullRows, Cells, OwnerLives
    <3> QED
      BY <3>1, <3>2
  <2> HIDE DEF owned
  <2>3. template' \in [Templates -> Lives] /\ matrix' \in [Owners -> [Items -> Cells]]
    BY <2>1, <2>2 DEF Lives
  <2>4. \A o \in Owners : (OwnerLives(o))' <=> o = t \/ OwnerLives(o)
    BY <2>1 DEF OwnerLives, KeyLives
  <2>5. \A o \in Owners, i \in Items : matrix'[o][i] # "absent" <=> (OwnerLives(o))' /\ Present(i)
    BY <2>1, <2>2, <2>4
  <2>6. \A k \in CatalogueKeys, u \in Templates :
           clientKey'[k].life = "live" /\ clientKey'[k].template = u =>
             template'[u] = "live" /\ matrix'[k] = matrix'[u]
    BY <2>1
  <2> QED
    BY <1>1, <2>1, <2>3, <2>5, <2>6, RowsAssembled
<1>3. ASSUME NEW t \in Templates, NEW i \in Items, NEW value \in {"off", "on"},
             UpdateTemplatePermissions(t, i, value)
      PROVE  PermissionsInv'
  <2> DEFINE owned == [matrix[t] EXCEPT ![i] = value]
  <2>1. /\ template[t] = "live" /\ Present(i) /\ UNCHANGED <<clientKey, template>>
        /\ matrix' = [o \in Owners |-> IF o = t \/ o \in LinkedTo(t) THEN owned ELSE matrix[o]]
    BY <1>3 DEF UpdateTemplatePermissions
  <2>2. /\ owned \in [Items -> Cells] /\ OwnerLives(t)
        /\ \A j \in Items : owned[j] = IF j = i THEN value ELSE matrix[t][j]
    BY <2>1 DEF Cells, OwnerLives
  <2> HIDE DEF owned
  <2>3. \A j \in Items : owned[j] # "absent" <=> Present(j)
    BY <2>1, <2>2
  <2>4. \A o \in Owners : (OwnerLives(o))' <=> OwnerLives(o)
    BY <2>1 DEF OwnerLives, KeyLives
  <2>5. \A o \in LinkedTo(t) : OwnerLives(o)
    BY DEF LinkedTo, OwnerLives
  <2>6. \A o \in Owners, j \in Items : matrix'[o][j] # "absent" <=> (OwnerLives(o))' /\ Present(j)
    BY <2>1, <2>2, <2>3, <2>4, <2>5
  <2>7. \A k \in CatalogueKeys, u \in Templates :
           clientKey'[k].life = "live" /\ clientKey'[k].template = u =>
             template'[u] = "live" /\ matrix'[k] = matrix'[u]
    BY <2>1 DEF LinkedTo, KeyLives
  <2> QED
    BY <1>1, <2>1, <2>2, <2>6, <2>7, RowsAssembled
<1>4. ASSUME NEW t \in Templates, DeleteTemplate(t) PROVE PermissionsInv'
  <2>1. /\ template' = [template EXCEPT ![t] = "gone"] /\ matrix' = [matrix EXCEPT ![t] = NoRows]
        /\ clientKey' = [k \in CatalogueKeys |->
             IF k \in LinkedTo(t) THEN [clientKey[k] EXCEPT !.template = Custom] ELSE clientKey[k]]
    BY <1>4 DEF DeleteTemplate
  <2>2. NoRows \in [Items -> Cells] /\ \A i \in Items : NoRows[i] = "absent"
    BY DEF NoRows, Cells
  <2>3. ASSUME NEW k \in CatalogueKeys
        PROVE  /\ clientKey'[k] \in KeyRows /\ clientKey'[k].life = clientKey[k].life
               /\ clientKey'[k].template = IF k \in LinkedTo(t) THEN Custom ELSE clientKey[k].template
    <3> DEFINE row == clientKey[k]
    <3>1. row \in KeyRows
      BY <2>3
    <3>2. clientKey'[k] = IF k \in LinkedTo(t) THEN [row EXCEPT !.template = Custom] ELSE row
      BY <2>1, <2>3
    <3> HIDE DEF row
    <3>3. [row EXCEPT !.template = Custom] \in KeyRows /\ [row EXCEPT !.template = Custom].life = row.life
          /\ [row EXCEPT !.template = Custom].template = Custom
      BY <3>1 DEF KeyRows
    <3>4. /\ clientKey'[k] \in KeyRows /\ clientKey'[k].life = row.life
          /\ clientKey'[k].template = IF k \in LinkedTo(t) THEN Custom ELSE row.template
      BY <3>1, <3>2, <3>3
    <3> QED
      BY <3>4 DEF row
  <2>4. /\ clientKey' \in [CatalogueKeys -> KeyRows] /\ template' \in [Templates -> Lives]
        /\ matrix' \in [Owners -> [Items -> Cells]]
    <3>1. clientKey' = [k \in CatalogueKeys |-> clientKey'[k]]
      BY <2>1
    <3> QED
      BY <2>1, <2>2, <2>3, <3>1 DEF Lives
  <2>5. \A o \in Owners : (OwnerLives(o))' <=> o # t /\ OwnerLives(o)
    BY <2>1, <2>3 DEF OwnerLives, KeyLives
  <2>6. \A o \in Owners, i \in Items : matrix'[o][i] # "absent" <=> (OwnerLives(o))' /\ Present(i)
    BY <2>1, <2>2, <2>5
  <2>7. \A k \in CatalogueKeys, u \in Templates :
           clientKey'[k].life = "live" /\ clientKey'[k].template = u =>
             template'[u] = "live" /\ matrix'[k] = matrix'[u]
    BY <2>1, <2>3 DEF LinkedTo, KeyLives
  <2> QED
    BY <1>1, <2>4, <2>6, <2>7, RowsAssembled
<1> QED
  BY <1>2, <1>3, <1>4 DEF TemplateChange

(* templates.go:9-16,200: whatever is created, copied, linked and deleted,  *)
(* every key and template has exactly the rows of what exists, and those of *)
(* a linked key are its template's.                                         *)
THEOREM PermissionsAreSound == PermissionsSpec => []PermissionsHold
<1>1. PermissionsInit => PermissionsInv
  BY PermissionsConstants
     DEF PermissionsInit, PermissionsInv, PermissionsHold, PermissionsTypeOK, RowsAreExact,
         LinkedMirrorsTemplate, NoKey, NoRows, NoPatch, KeyRows, Lives, OwnerLives, KeyLives, Present
<1>2. PermissionsInv /\ [PermissionsNext]_permissionVars => PermissionsInv'
  <2>1. CASE UNCHANGED permissionVars
    BY <2>1 DEF permissionVars, PermissionsInv, PermissionsHold, PermissionsTypeOK, RowsAreExact,
       LinkedMirrorsTemplate, OwnerLives, KeyLives, Present
  <2> QED
    BY <2>1, CatalogueChangeKeeps, KeyChangeKeeps, TemplateChangeKeeps DEF PermissionsNext
<1> QED
  BY <1>1, <1>2, PTL DEF PermissionsSpec, PermissionsInv

-----------------------------------------------------------------------------
(* The quota poller.                                                        *)

\* A check whose result would still count.
Current(c, k) == check[c] # Absent /\ check[c].key = k /\ check[c].gen = gen[k]

\* Generations only grow, a check of the generation of now has the registration
\* of now, and a registered provider has one check for its reservation.
ChecksOK ==
  /\ \A c \in Checks : check[c] # Absent => check[c].gen <= gen[check[c].key]
  /\ \A c \in Checks, k \in Quotas : Current(c, k) =>
       refs[k] # Absent /\ refs[k].config = check[c].config
  /\ \A k \in Quotas : Registered(k) =>
       \A c, d \in Checks : Current(c, k) /\ Current(d, k) => c = d

QuotaInv == QuotaTypeOK /\ SnapshotIsOfItsRegistration /\ ChecksOK

\* The reservation of a provider, in the words of the invariant.
LEMMA ReservedOnce ==
  SnapshotIsOfItsRegistration <=>
    \A k \in Quotas :
      /\ snap[k] # Absent => refs[k] # Absent /\ refs[k].config = snap[k].config
      /\ Registered(k) => (inflight[k] <=> \E c \in Checks : Current(c, k))
  BY DEF SnapshotIsOfItsRegistration, Current

LEMMA QuotaRows ==
  ASSUME QuotaTypeOK
  PROVE  /\ \A k \in Quotas : /\ refs[k] # Absent => refs[k] \in Registration
                              /\ snap[k] # Absent => snap[k] \in Snapshot
                              /\ gen[k] \in Nat /\ rows[k] \in Rowed
         /\ \A c \in Checks : check[c] # Absent => check[c] \in Running
         /\ \A v \in Views : view[v] # Absent => view[v] \in [Quotas -> Rowed]
         /\ second \in Nat /\ second \in NotYet..LastSecond /\ NotYet \in NotYet..LastSecond
  BY QuotaAssumption DEF QuotaTypeOK, QuotaAssumption, NotYet

LEMMA QuotaStart == QuotaInit => QuotaInv
  BY QuotaAssumption
     DEF QuotaInit, QuotaInv, QuotaTypeOK, SnapshotIsOfItsRegistration, ChecksOK, Current, Registered,
         QuotaAssumption, NotYet, Rowed

\* A step that touches neither the cache nor the checks.
LEMMA CacheStands ==
  ASSUME QuotaInv, QuotaTypeOK', UNCHANGED <<cacheVars, check>>
  PROVE  QuotaInv'
  BY DEF QuotaInv, SnapshotIsOfItsRegistration, ChecksOK, Current, Registered, cacheVars

LEMMA OutsideKeeps ==
  ASSUME QuotaInv,
         \/ \E k \in Quotas : EditRow(k)
         \/ \E v \in Views : ReadRows(v) \/ \E k \in Quotas : Skip(v, k)
         \/ Elapse
  PROVE  QuotaInv'
<1> USE DEF QuotaInv
<1>1. UNCHANGED <<cacheVars, check>>
  BY DEF EditRow, ReadRows, Skip, Elapse
<1>2. ASSUME NEW k \in Quotas, EditRow(k) PROVE QuotaTypeOK'
  BY <1>1, <1>2, QuotaAssumption DEF EditRow, QuotaTypeOK, cacheVars, QuotaAssumption
<1>3. ASSUME NEW v \in Views, ReadRows(v) PROVE QuotaTypeOK'
  BY <1>1, <1>3 DEF ReadRows, QuotaTypeOK, cacheVars
<1>4. ASSUME NEW v \in Views, NEW k \in Quotas, Skip(v, k) PROVE QuotaTypeOK'
  BY <1>1, <1>4 DEF Skip, Asked, QuotaTypeOK, cacheVars
<1>5. CASE Elapse
  <2>1. second' \in 0..LastSecond
    BY <1>5, QuotaAssumption DEF Elapse, QuotaTypeOK, QuotaAssumption
  <2>2. UNCHANGED <<rows, edits, refs, gen, inflight, last, snap, failed, view, asks, check>>
    BY <1>5 DEF Elapse, cacheVars
  <2>3. QuotaTypeOK'
    BY <2>1, <2>2 DEF QuotaTypeOK
  <2> QED
    BY <1>1, <2>3, CacheStands
<1> QED
  BY <1>1, <1>2, <1>3, <1>4, <1>5, CacheStands

\* A registration that changes is of a new generation, with no check of its own.
LEMMA ReconcileKeeps ==
  ASSUME QuotaInv, NEW v \in Views, ReconcileRegistrations(v)
  PROVE  QuotaInv'
<1> USE DEF QuotaInv
<1>1. PICK want \in [Quotas -> Rowed] : want = view[v]
  BY QuotaRows DEF ReconcileRegistrations
<1>2. PICK ks \in SUBSET Quotas : ks = Changed(want)
  BY DEF Changed
<1>3. /\ refs' = Register(want, ks)
      /\ gen' = [k \in Quotas |-> gen[k] + IF k \in ks THEN 1 ELSE 0]
      /\ inflight' = Reset(inflight, ks, FALSE) /\ failed' = Reset(failed, ks, FALSE)
      /\ last' = Reset(last, ks, NotYet) /\ snap' = Reset(snap, ks, Absent)
      /\ Reconciled(v) /\ UNCHANGED <<rows, edits, check, second>>
  BY <1>1, <1>2 DEF ReconcileRegistrations
<1>4. ASSUME NEW k \in Quotas
      PROVE  /\ k \in ks => /\ gen'[k] = gen[k] + 1 /\ ~inflight'[k] /\ snap'[k] = Absent
                            /\ refs'[k] \in Registration \cup {Absent}
             /\ k \notin ks => /\ gen'[k] = gen[k] /\ inflight'[k] = inflight[k] /\ snap'[k] = snap[k]
                               /\ refs'[k] = refs[k]
             /\ gen[k] \in Nat
  <2>1. CASE k \in ks
    <3>1. refs'[k] = IF want[k] = Absent THEN Absent
                     ELSE [config |-> want[k], header |-> refs[k] # Absent /\ refs[k].header]
      BY <1>3, <1>4, <2>1 DEF Register
    <3>2. refs[k] # Absent => refs[k].header \in BOOLEAN
      BY <1>4, QuotaRows DEF Registration
    <3>3. refs'[k] \in Registration \cup {Absent}
      BY <1>1, <1>4, <3>1, <3>2 DEF Registration, Rowed
    <3>4. gen'[k] = gen[k] + 1 /\ ~inflight'[k] /\ snap'[k] = Absent /\ gen[k] \in Nat
      BY <1>3, <1>4, <2>1, QuotaRows DEF Reset
    <3> QED
      BY <2>1, <3>3, <3>4
  <2>2. CASE k \notin ks
    BY <1>3, <1>4, <2>2, QuotaRows DEF Reset, Register
  <2> QED
    BY <2>1, <2>2
<1>5. QuotaTypeOK'
  <2>1. refs' \in [Quotas -> Registration \cup {Absent}]
    <3>1. refs' = [k \in Quotas |-> refs'[k]]
      BY <1>3 DEF Register
    <3> QED
      BY <1>4, <3>1, QuotaRows
  <2>2. gen' \in [Quotas -> Nat] /\ snap' \in [Quotas -> Snapshot \cup {Absent}]
    BY <1>3 DEF Reset, QuotaTypeOK
  <2>3. /\ inflight' \in [Quotas -> BOOLEAN] /\ failed' \in [Quotas -> BOOLEAN]
        /\ last' \in [Quotas -> NotYet..LastSecond]
    BY <1>3, QuotaRows DEF Reset, QuotaTypeOK
  <2>4. /\ view' \in [Views -> [Quotas -> Rowed] \cup {Absent}]
        /\ asks' \in [Views -> SUBSET Quotas]
    BY <1>3 DEF Reconciled, QuotaTypeOK
  <2> QED
    BY <1>3, <2>1, <2>2, <2>3, <2>4 DEF QuotaTypeOK
<1>6. \A c \in Checks, k \in Quotas : Current(c, k)' => k \notin ks /\ Current(c, k)
  <2> SUFFICES ASSUME NEW c \in Checks, NEW k \in Quotas, Current(c, k)' PROVE k \notin ks /\ Current(c, k)
    OBVIOUS
  <2>1. check[c] # Absent /\ check[c].key = k /\ check[c].gen = gen'[k] /\ check[c].gen \in Nat
    BY <1>3, QuotaRows DEF Current, Running
  <2>2. check[c].gen <= gen[k]
    BY <2>1 DEF ChecksOK
  <2> QED
    BY <1>4, <2>1, <2>2 DEF Current
<1>7. \A c \in Checks, k \in Quotas : Current(c, k) /\ k \notin ks => Current(c, k)'
  BY <1>3, <1>4 DEF Current
<1>8. ChecksOK'
  <2>1. \A c \in Checks : check'[c] # Absent => check'[c].gen <= gen'[check'[c].key]
    <3> SUFFICES ASSUME NEW c \in Checks, check[c] # Absent PROVE check[c].gen <= gen'[check[c].key]
      BY <1>3
    <3>1. check[c].gen <= gen[check[c].key] /\ check[c].key \in Quotas /\ check[c].gen \in Nat
      BY QuotaRows DEF ChecksOK, Running
    <3> QED
      BY <1>4, <3>1
  <2>2. \A c \in Checks, k \in Quotas : Current(c, k)' =>
           refs'[k] # Absent /\ refs'[k].config = check'[c].config
    <3> SUFFICES ASSUME NEW c \in Checks, NEW k \in Quotas, Current(c, k)'
                 PROVE  refs'[k] # Absent /\ refs'[k].config = check[c].config
      BY <1>3
    <3>1. Current(c, k) /\ refs'[k] = refs[k]
      BY <1>4, <1>6
    <3> QED
      BY <3>1 DEF ChecksOK
  <2>3. \A k \in Quotas, c, d \in Checks : Registered(k)' /\ Current(c, k)' /\ Current(d, k)' => c = d
    BY <1>4, <1>6 DEF ChecksOK, Registered
  <2> QED
    BY <2>1, <2>2, <2>3 DEF ChecksOK
<1>9. ASSUME NEW k \in Quotas
      PROVE  /\ snap'[k] # Absent => refs'[k] # Absent /\ refs'[k].config = snap'[k].config
             /\ Registered(k)' => (inflight'[k] <=> \E c \in Checks : Current(c, k)')
  BY <1>4, <1>6, <1>7, <1>9, ReservedOnce DEF Registered
<1> QED
  BY <1>5, <1>8, <1>9 DEF SnapshotIsOfItsRegistration, Current

\* A check starts with what is registered, on a reservation nobody holds.
LEMMA TriggerKeeps ==
  ASSUME QuotaInv, NEW v \in Views, NEW k \in Quotas, NEW c \in Checks, Trigger(v, k, c)
  PROVE  QuotaInv'
<1> USE DEF QuotaInv
<1> DEFINE new == [key |-> k, config |-> refs[k].config, gen |-> gen[k], stage |-> "started"]
<1>1. /\ check[c] = Absent /\ refs[k] # Absent /\ ~inflight[k]
      /\ inflight' = [inflight EXCEPT ![k] = TRUE] /\ last' = [last EXCEPT ![k] = second]
      /\ check' = [check EXCEPT ![c] = new] /\ asks' = [asks EXCEPT ![v] = @ \ {k}]
      /\ UNCHANGED <<rows, edits, refs, gen, snap, failed, view, second>>
  BY DEF Trigger, MayBegin, Asked
<1>2. /\ new \in Running /\ new.key = k /\ new.config = refs[k].config /\ new.gen = gen[k]
      /\ new # Absent /\ gen[k] \in Nat
  BY <1>1, QuotaRows, QuotaAssumption DEF Running, Registration, QuotaAssumption
<1> HIDE DEF new
<1>3. check'[c] = new /\ \A d \in Checks \ {c} : check'[d] = check[d]
  BY <1>1 DEF QuotaTypeOK
<1>4. QuotaTypeOK'
  <2>1. /\ inflight' \in [Quotas -> BOOLEAN] /\ last' \in [Quotas -> NotYet..LastSecond]
        /\ check' \in [Checks -> Running \cup {Absent}] /\ asks' \in [Views -> SUBSET Quotas]
    BY <1>1, <1>2, QuotaRows DEF QuotaTypeOK
  <2> QED
    BY <1>1, <2>1 DEF QuotaTypeOK
<1>5. \A d \in Checks, j \in Quotas : Current(d, j)' <=> IF d = c THEN j = k ELSE Current(d, j)
  BY <1>1, <1>2, <1>3 DEF Current
<1>6. Registered(k) => \A d \in Checks : ~Current(d, k)
  BY <1>1, ReservedOnce
<1>7. ChecksOK'
  <2>1. \A d \in Checks : check'[d] # Absent => check'[d].gen <= gen'[check'[d].key]
    BY <1>1, <1>2, <1>3 DEF ChecksOK
  <2>2. \A d \in Checks, j \in Quotas : Current(d, j)' =>
           refs'[j] # Absent /\ refs'[j].config = check'[d].config
    BY <1>1, <1>2, <1>3, <1>5 DEF ChecksOK
  <2>3. \A j \in Quotas, d, e \in Checks : Registered(j)' /\ Current(d, j)' /\ Current(e, j)' => d = e
    BY <1>1, <1>5, <1>6 DEF ChecksOK, Registered
  <2> QED
    BY <2>1, <2>2, <2>3 DEF ChecksOK
<1>8. \A j \in Quotas : inflight'[j] <=> j = k \/ inflight[j]
  BY <1>1 DEF QuotaTypeOK
<1>9. \A j \in Quotas :
        /\ snap'[j] # Absent => refs'[j] # Absent /\ refs'[j].config = snap'[j].config
        /\ Registered(j)' => (inflight'[j] <=> \E d \in Checks : Current(d, j)')
  <2> SUFFICES ASSUME NEW j \in Quotas
               PROVE  /\ snap[j] # Absent => refs[j] # Absent /\ refs[j].config = snap[j].config
                      /\ Registered(j) => (inflight'[j] <=> \E d \in Checks : Current(d, j)')
    BY <1>1 DEF Registered
  <2>1. CASE j = k
    BY <1>5, <1>8, <2>1, ReservedOnce
  <2>2. CASE j # k
    <3>1. Current(c, j) = FALSE
      BY <1>1 DEF Current
    <3> QED
      BY <1>5, <1>8, <2>2, <3>1, ReservedOnce
  <2> QED
    BY <2>1, <2>2
<1> QED
  BY <1>4, <1>7, <1>9 DEF SnapshotIsOfItsRegistration, Current

\* A check that goes on keeps its key, its registration and its generation.
LEMMA LoadKeeps ==
  ASSUME QuotaInv, NEW c \in Checks, LoadProvider(c)
  PROVE  QuotaInv'
<1> USE DEF QuotaInv
<1>1. /\ check[c] # Absent /\ check' = [check EXCEPT ![c].stage = "loaded"]
      /\ UNCHANGED <<rows, edits, cacheVars, view, asks, second>>
  BY DEF LoadProvider
<1>2. PICK new \in Running : /\ new = [check[c] EXCEPT !.stage = "loaded"] /\ new.key = check[c].key
                             /\ new.config = check[c].config /\ new.gen = check[c].gen
  <2> DEFINE to == [check[c] EXCEPT !.stage = "loaded"]
  <2>1. check[c] \in Running
    BY <1>1, QuotaRows
  <2>2. to \in Running /\ to.key = check[c].key /\ to.config = check[c].config /\ to.gen = check[c].gen
    BY <2>1 DEF Running
  <2> QED
    BY <2>2
<1>3. /\ check' \in [Checks -> Running \cup {Absent}] /\ check'[c] = new /\ new # Absent
      /\ \A d \in Checks \ {c} : check'[d] = check[d]
  BY <1>1, <1>2, QuotaAssumption DEF QuotaTypeOK, QuotaAssumption
<1>4. QuotaTypeOK'
  BY <1>1, <1>3 DEF QuotaTypeOK, cacheVars
<1>5. \A d \in Checks, k \in Quotas : Current(d, k)' <=> Current(d, k)
  BY <1>1, <1>2, <1>3 DEF Current, cacheVars
<1>6. \A d \in Checks : /\ check'[d] # Absent <=> check[d] # Absent
                        /\ check[d] # Absent => /\ check'[d].key = check[d].key /\ check'[d].gen = check[d].gen
                                                /\ check'[d].config = check[d].config
  BY <1>1, <1>2, <1>3
<1>7. ChecksOK'
  <2>1. \A d \in Checks, k \in Quotas : Current(d, k) => check'[d].config = check[d].config
    BY <1>6 DEF Current
  <2> QED
    BY <1>1, <1>5, <1>6, <2>1 DEF ChecksOK, Registered, cacheVars
<1>8. \A j \in Quotas :
        /\ snap'[j] # Absent => refs'[j] # Absent /\ refs'[j].config = snap'[j].config
        /\ Registered(j)' => (inflight'[j] <=> \E d \in Checks : Current(d, j)')
  BY <1>1, <1>5, ReservedOnce DEF Registered, cacheVars
<1> QED
  BY <1>4, <1>7, <1>8 DEF SnapshotIsOfItsRegistration, Current

\* A header goes to what is registered by now; a registration that is made for it
\* is the zero one, which has no check and no figures.
LEMMA HydrateKeeps ==
  ASSUME QuotaInv, NEW c \in Checks, Hydrate(c)
  PROVE  QuotaInv'
<1> USE DEF QuotaInv
<1>1. /\ check[c] # Absent /\ check' = [check EXCEPT ![c].stage = "hydrated"]
      /\ UNCHANGED <<rows, edits, gen, inflight, last, snap, failed, view, asks, second>>
  BY DEF Hydrate
<1>2. PICK new \in Running : /\ new = [check[c] EXCEPT !.stage = "hydrated"] /\ new.key = check[c].key
                             /\ new.config = check[c].config /\ new.gen = check[c].gen
  <2> DEFINE to == [check[c] EXCEPT !.stage = "hydrated"]
  <2>1. check[c] \in Running
    BY <1>1, QuotaRows
  <2>2. to \in Running /\ to.key = check[c].key /\ to.config = check[c].config /\ to.gen = check[c].gen
    BY <2>1 DEF Running
  <2> QED
    BY <2>2
<1>3. /\ check' \in [Checks -> Running \cup {Absent}] /\ check'[c] = new /\ new # Absent
      /\ \A d \in Checks \ {c} : check'[d] = check[d]
  BY <1>1, <1>2, QuotaAssumption DEF QuotaTypeOK, QuotaAssumption
<1>4. PICK k \in Quotas : k = check[c].key
  BY <1>1, QuotaRows DEF Running
<1>5. PICK ref \in Registration :
        /\ refs' = [refs EXCEPT ![k] = ref]
        /\ ref.config = IF refs[k] = Absent THEN Ghost ELSE refs[k].config
  <2> DEFINE ref == [config |-> IF refs[k] = Absent THEN Ghost ELSE refs[k].config, header |-> TRUE]
  <2>1. ref \in Registration
    BY QuotaRows DEF Registration
  <2>2. refs' = [refs EXCEPT ![k] = ref]
    BY <1>4 DEF Hydrate
  <2> QED
    BY <2>1, <2>2
<1>6. refs'[k] = ref /\ ref # Absent /\ \A j \in Quotas \ {k} : refs'[j] = refs[j]
  BY <1>5, QuotaAssumption DEF QuotaTypeOK, QuotaAssumption
<1>7. QuotaTypeOK'
  BY <1>1, <1>3, <1>5 DEF QuotaTypeOK
<1>8. \A d \in Checks, j \in Quotas : Current(d, j)' <=> Current(d, j)
  BY <1>1, <1>2, <1>3 DEF Current
<1>9. \A j \in Quotas : /\ Registered(j)' <=> Registered(j)
                        /\ refs[j] # Absent => refs'[j] # Absent /\ refs'[j].config = refs[j].config
  BY <1>5, <1>6 DEF Registered
<1>10. \A d \in Checks : /\ check'[d] # Absent <=> check[d] # Absent
                         /\ check[d] # Absent => /\ check'[d].key = check[d].key /\ check'[d].gen = check[d].gen
                                                 /\ check'[d].config = check[d].config
  BY <1>1, <1>2, <1>3
<1>11. ChecksOK'
  <2>1. \A d \in Checks, j \in Quotas : Current(d, j) => check'[d].config = check[d].config
    BY <1>10 DEF Current
  <2> QED
    BY <1>1, <1>8, <1>9, <1>10, <2>1 DEF ChecksOK
<1>12. \A j \in Quotas :
        /\ snap'[j] # Absent => refs'[j] # Absent /\ refs'[j].config = snap'[j].config
        /\ Registered(j)' => (inflight'[j] <=> \E d \in Checks : Current(d, j)')
  BY <1>1, <1>8, <1>9, ReservedOnce
<1> QED
  BY <1>7, <1>11, <1>12 DEF SnapshotIsOfItsRegistration, Current

\* A check that ends gives back the reservation of its generation, if it stands.
LEMMA FinishKeeps ==
  ASSUME QuotaInv, NEW c \in Checks, Finish(c)
  PROVE  QuotaInv'
<1> USE DEF QuotaInv
<1>1. check[c] # Absent /\ check[c] \in Running
  BY QuotaRows DEF Finish
<1>2. PICK k \in Quotas, config \in Configs \cup {Ghost} : k = check[c].key /\ config = check[c].config
  BY <1>1 DEF Running
<1>3. PICK available \in BOOLEAN :
        /\ IF gen[k] = check[c].gen /\ config # Ghost
           THEN /\ inflight' = [inflight EXCEPT ![k] = FALSE]
                /\ snap' = IF available \/ snap[k] = Absent \/ ~snap[k].available
                           THEN [snap EXCEPT ![k] = [config |-> config, available |-> available]] ELSE snap
                /\ failed' = [failed EXCEPT ![k] = ~available]
           ELSE UNCHANGED <<inflight, snap, failed>>
        /\ check' = [check EXCEPT ![c] = Absent]
        /\ UNCHANGED <<rows, edits, refs, gen, last, view, asks, second>>
  BY <1>2 DEF Finish
<1>4. /\ check'[c] = Absent /\ check' \in [Checks -> Running \cup {Absent}]
      /\ \A d \in Checks \ {c} : check'[d] = check[d]
  BY <1>3 DEF QuotaTypeOK
<1>5. \A d \in Checks, j \in Quotas : Current(d, j)' <=> d # c /\ Current(d, j)
  BY <1>3, <1>4 DEF Current
<1>6. ChecksOK'
  <2>1. \A d \in Checks : check'[d] # Absent => check'[d].gen <= gen'[check'[d].key]
    BY <1>3, <1>4 DEF ChecksOK
  <2>2. \A d \in Checks, j \in Quotas : Current(d, j)' =>
           refs'[j] # Absent /\ refs'[j].config = check'[d].config
    BY <1>3, <1>4, <1>5 DEF ChecksOK
  <2> QED
    BY <1>3, <1>5, <2>1, <2>2 DEF ChecksOK, Registered
<1>7. CASE gen[k] = check[c].gen /\ config # Ghost
  <2>1. Current(c, k)
    BY <1>1, <1>2, <1>7 DEF Current
  <2>2. refs[k] # Absent /\ refs[k].config = config /\ Registered(k)
    BY <1>2, <1>7, <2>1 DEF ChecksOK, Registered
  <2>3. /\ inflight' \in [Quotas -> BOOLEAN] /\ failed' \in [Quotas -> BOOLEAN] /\ ~inflight'[k]
        /\ \A j \in Quotas \ {k} : inflight'[j] = inflight[j]
    BY <1>3, <1>7 DEF QuotaTypeOK
  <2> DEFINE got == [config |-> config, available |-> available]
  <2>4. got \in Snapshot /\ got.config = config
    BY <1>7 DEF Snapshot
  <2>5. snap' = snap \/ snap' = [snap EXCEPT ![k] = got]
    BY <1>3, <1>7
  <2> HIDE DEF got
  <2>6. /\ snap' \in [Quotas -> Snapshot \cup {Absent}]
        /\ \A j \in Quotas : snap'[j] = snap[j] \/ (j = k /\ snap'[j].config = config)
    BY <2>4, <2>5 DEF QuotaTypeOK
  <2>7. QuotaTypeOK'
    BY <1>3, <1>4, <2>3, <2>6 DEF QuotaTypeOK
  <2>8. \A d \in Checks : Current(d, k) => d = c
    BY <2>1, <2>2 DEF ChecksOK
  <2>9. ASSUME NEW j \in Quotas
        PROVE  /\ snap'[j] # Absent => refs'[j] # Absent /\ refs'[j].config = snap'[j].config
               /\ Registered(j)' => (inflight'[j] <=> \E d \in Checks : Current(d, j)')
    <3>1. snap'[j] # Absent => refs'[j] # Absent /\ refs'[j].config = snap'[j].config
      BY <1>3, <2>2, <2>6, <2>9 DEF SnapshotIsOfItsRegistration
    <3>2. CASE j = k
      BY <1>5, <2>3, <2>8, <3>1, <3>2
    <3>3. CASE j # k
      <4>1. ~Current(c, j)
        BY <1>2, <3>3 DEF Current
      <4>2. Registered(j)' <=> Registered(j)
        BY <1>3 DEF Registered
      <4> QED
        BY <1>5, <2>3, <2>9, <3>1, <3>3, <4>1, <4>2, ReservedOnce
    <3> QED
      BY <3>2, <3>3
  <2> QED
    BY <1>6, <2>7, <2>9 DEF SnapshotIsOfItsRegistration, Current
<1>8. CASE ~(gen[k] = check[c].gen /\ config # Ghost)
  <2>1. UNCHANGED <<inflight, snap, failed>>
    BY <1>3, <1>8
  <2>2. QuotaTypeOK'
    BY <1>3, <1>4, <2>1 DEF QuotaTypeOK
  <2>3. \A j \in Quotas : Registered(j) => ~Current(c, j)
    BY <1>2, <1>8 DEF Current, ChecksOK, Registered
  <2>4. \A j \in Quotas : Registered(j)' <=> Registered(j)
    BY <1>3 DEF Registered
  <2>5. \A j \in Quotas :
          /\ snap'[j] # Absent => refs'[j] # Absent /\ refs'[j].config = snap'[j].config
          /\ Registered(j)' => (inflight'[j] <=> \E d \in Checks : Current(d, j)')
    BY <1>3, <1>5, <2>1, <2>3, <2>4, ReservedOnce
  <2> QED
    BY <1>6, <2>2, <2>5 DEF SnapshotIsOfItsRegistration, Current
<1> QED
  BY <1>7, <1>8

LEMMA QuotaInvariance == QuotaInv /\ [QuotaNext]_quotaVars => QuotaInv'
<1> SUFFICES ASSUME QuotaInv, [QuotaNext]_quotaVars PROVE QuotaInv'
  OBVIOUS
<1>1. CASE UNCHANGED quotaVars
  BY <1>1 DEF quotaVars, QuotaInv, QuotaTypeOK, SnapshotIsOfItsRegistration, ChecksOK, Current, Registered
<1> QED
  BY <1>1, OutsideKeeps, ReconcileKeeps, TriggerKeeps, LoadKeeps, HydrateKeeps, FinishKeeps DEF QuotaNext

(* poller.go, "a poll that was already in flight cannot resurrect a         *)
(* snapshot": figures are shown for the registration they were fetched      *)
(* under, and a registered provider has one check for its reservation.      *)
THEOREM FiguresAreCurrent == QuotaSpec => []QuotaHolds
<1>1. QuotaInv => QuotaHolds
  BY DEF QuotaInv, QuotaHolds
<1> QED
  BY QuotaStart, QuotaInvariance, <1>1, PTL DEF QuotaSpec

-----------------------------------------------------------------------------
Row == [mode : Modes, targets : TargetLists, primary : RealModels]
NoRow == {NoChain("none"), NoChain("gone")}

ModelsIn(targets) == {targets[i].model : i \in DOMAIN targets}

\* Only a refresh of a provider that was there runs; an answer is one the provider
\* has given, and no older than what is applied while its lock is held.
RefreshesInv ==
  /\ \A h \in Refreshes : refresh[h] # NoRefresh => backend[refresh[h].of] # "none"
  /\ \A h \in Refreshes : refresh[h].step = "answered" =>
       applied[refresh[h].of] <= refresh[h].list /\ refresh[h].list \in 1..offer[refresh[h].of]
  /\ \A p \in Backends, g, h \in Refreshes : Holds(g, p) /\ Holds(h, p) => g = h
  /\ \A p \in Backends : backend[p] = "none" => applied[p] = 0

CatalogueInv ==
  /\ CatalogueTypeOK
  /\ offer \in [Backends -> Nat] /\ applied \in [Backends -> Nat]
  /\ ReferencesResolve
  /\ ShowsOneListing
  /\ RefreshesInv

-----------------------------------------------------------------------------
(* Lists of targets.                                                       *)

LEMMA TargetListFacts ==
  ASSUME NEW ts \in TargetLists
  PROVE  /\ DOMAIN ts \in {1..1, 1..2} /\ 1 \in DOMAIN ts
         /\ \A i \in DOMAIN ts : ts[i] \in Target /\ ts[i].model \in RealModels
         /\ \A i, j \in DOMAIN ts : ts[i].model = ts[j].model => i = j
         /\ ts # <<>>
<1>1. PICK n \in 1..2 : ts \in [1..n -> Target]
  BY DEF TargetLists
<1>2. n = 1 \/ n = 2
  BY <1>1
<1>3. DOMAIN ts \in {1..1, 1..2} /\ 1 \in DOMAIN ts
  BY <1>1, <1>2
<1>4. \A i, j \in DOMAIN ts : ts[i].model = ts[j].model => i = j
  BY DEF TargetLists
<1>5. \A i \in DOMAIN ts : ts[i] \in Target /\ ts[i].model \in RealModels
  BY <1>1 DEF Target
<1> QED
  BY <1>3, <1>4, <1>5

\* What is left of a list is a list: the targets of the other models, all of them.
LEMMA OthersAreKept ==
  ASSUME NEW ts \in TargetLists, NEW models,
         NEW i \in DOMAIN ts, ts[i].model \notin models
  PROVE  /\ OthersOf(ts, models) \in TargetLists
         /\ {OthersOf(ts, models)[n] : n \in DOMAIN OthersOf(ts, models)} =
              {ts[k] : k \in {j \in DOMAIN ts : ts[j].model \notin models}}
<1> DEFINE kept == {j \in DOMAIN ts : ts[j].model \notin models}
           Nth(n) == CHOOSE j \in kept : Cardinality({k \in kept : k <= j}) = n
           rest == [n \in 1..Cardinality(kept) |-> ts[Nth(n)]]
<1>1. OthersOf(ts, models) = rest
  BY DEF OthersOf
<1>2. kept \in {{1}, {2}, {1, 2}}
  <2>1. kept \subseteq {1, 2} /\ kept # {}
    BY TargetListFacts
  <2> QED
    BY <2>1
<1>3. /\ Cardinality({1}) = 1 /\ Cardinality({2}) = 1 /\ Cardinality({1, 2}) = 2
  <2>1. IsFiniteSet({1}) /\ Cardinality({1}) = 1 /\ Cardinality({2}) = 1
    BY FS_Singleton
  <2>2. Cardinality({1} \cup {2}) = IF 2 \in {1} THEN Cardinality({1}) ELSE Cardinality({1}) + 1
    BY <2>1, FS_AddElement
  <2>3. {1} \cup {2} = {1, 2}
    OBVIOUS
  <2> QED
    BY <2>1, <2>2, <2>3
<1>4. ts \in [DOMAIN ts -> Target] /\ \A j, k \in DOMAIN ts : ts[j].model = ts[k].model => j = k
  <2>1. PICK n \in 1..2 : ts \in [1..n -> Target]
    BY DEF TargetLists
  <2> QED
    BY <2>1, TargetListFacts
\* A list of one.
<1>5. ASSUME NEW j \in {1, 2}, kept = {j}
      PROVE  rest \in TargetLists /\ {rest[n] : n \in DOMAIN rest} = {ts[k] : k \in kept}
  <2>1. Cardinality(kept) = 1
    BY <1>3, <1>5
  <2>2. {k \in kept : k <= j} = {j}
    BY <1>5
  <2>3. Nth(1) = j
    BY <1>3, <1>5, <2>2
  <2>4. rest = [n \in 1..1 |-> ts[j]]
    <3>1. \A n \in 1..1 : n = 1
      OBVIOUS
    <3> HIDE DEF Nth, kept
    <3> QED
      BY <2>1, <2>3, <3>1
  <2>5. j \in DOMAIN ts /\ ts[j] \in Target
    BY <1>4, <1>5
  <2> HIDE DEF rest, Nth
  <2>6. rest \in [1..1 -> Target] /\ \A a, b \in DOMAIN rest : a = b
    BY <2>4, <2>5
  <2>7. rest \in TargetLists
    BY <2>6 DEF TargetLists
  <2> QED
    BY <1>5, <2>4, <2>7
\* Nothing is left out.
<1>6. ASSUME kept = {1, 2}
      PROVE  rest \in TargetLists /\ {rest[n] : n \in DOMAIN rest} = {ts[k] : k \in kept}
  <2>1. Cardinality(kept) = 2
    BY <1>3, <1>6
  <2>2. {k \in kept : k <= 1} = {1} /\ {k \in kept : k <= 2} = {1, 2}
    BY <1>6
  <2>3. Nth(1) = 1 /\ Nth(2) = 2
    <3>1. Cardinality({k \in kept : k <= 1}) = 1
      BY <1>3, <2>2
    <3>2. Cardinality({k \in kept : k <= 2}) = 2
      BY <1>3, <2>2
    <3>3. \A j \in kept : j = 1 \/ j = 2
      BY <1>6
    <3>4. 1 \in kept /\ 2 \in kept
      BY <1>6
    <3>5. Nth(1) = 1
      BY <3>1, <3>2, <3>3, <3>4
    <3>6. Nth(2) = 2
      BY <3>1, <3>2, <3>3, <3>4
    <3> QED
      BY <3>5, <3>6
  <2>4. rest = [n \in 1..2 |-> ts[n]]
    <3>1. \A n \in 1..2 : n = 1 \/ n = 2
      OBVIOUS
    <3> HIDE DEF Nth, kept
    <3> QED
      BY <2>1, <2>3, <3>1
  <2>5. 1 \in DOMAIN ts /\ 2 \in DOMAIN ts /\ DOMAIN ts = 1..2
    BY <1>6, TargetListFacts
  <2>6. rest = ts
    BY <1>4, <2>4, <2>5
  <2> HIDE DEF rest, Nth
  <2> QED
    BY <1>6, <2>5, <2>6
<1> HIDE DEF kept, rest, Nth
<1>7. rest \in TargetLists /\ {rest[n] : n \in DOMAIN rest} = {ts[k] : k \in kept}
  BY <1>2, <1>5, <1>6
<1> QED
  BY <1>1, <1>7 DEF kept

LEMMA ListedModels ==
  ASSUME NEW ts \in TargetLists
  PROVE  /\ ModelsIn(ts) # {} /\ ModelsIn(ts) \subseteq RealModels /\ ts[1].model \in ModelsIn(ts)
         /\ AllExist(ts) => \A m \in ModelsIn(ts) : ModelExists(m)
  BY TargetListFacts DEF ModelsIn, AllExist

-----------------------------------------------------------------------------
(* What a step of each kind leaves as it is.                               *)

BackendStates == {"none", "on", "off", "gone"}
ModelStates == {"absent", "manual", "listed", "retired"}
KeyRow == [life : Lifetime, type : BoundTypes, binding : Bindings]
RefreshRow == {NoRefresh} \cup [step : {"waiting", "asking"}, of : Backends]
                          \cup [step : {"answered"}, of : Backends, list : Nat]
ChainEdit == [kind : {"chain"}, chain : Chains, modeSet : BOOLEAN, mode : Modes,
              targets : TargetLists \cup {<<>>}]
TypeEdit == [kind : {"type"}, key : BoundKeys, type : BoundTypes]
KeyEdit == [kind : {"key"}, key : BoundKeys, typeSet : BOOLEAN, type : BoundTypes,
            write : BOOLEAN, target : Bindings]

RowsTyped ==
  /\ backend \in [Backends -> BackendStates] /\ realModel \in [RealModels -> ModelStates]
  /\ chain \in [Chains -> Row \cup NoRow] /\ boundKey \in [BoundKeys -> KeyRow]
ActorsTyped ==
  /\ refresh \in [Refreshes -> RefreshRow]
  /\ edit \in [Edits -> {NoEdit} \cup ChainEdit \cup TypeEdit \cup KeyEdit]
ListsTyped ==
  /\ offer \in [Backends -> Nat] /\ applied \in [Backends -> Nat]
  /\ \A p \in Backends : offer[p] \in DOMAIN Listings[p] /\ applied[p] \in 0..offer[p]

ChainResolves(c) ==
  ChainExists(c) => /\ TargetsOf(c) # {} /\ chain[c].primary \in TargetsOf(c)
                    /\ \A m \in TargetsOf(c) : ModelExists(m)
KeyResolves(k) == boundKey[k].binding # Unbound => TargetExists(boundKey[k].binding)
ModelResolves(m) == ModelExists(m) => BackendLives(BackendOf[m])

LEMMA CatalogueParts ==
  CatalogueInv <=>
    /\ RowsTyped /\ ActorsTyped /\ ListsTyped
    /\ \A c \in Chains : ChainResolves(c)
    /\ \A k \in BoundKeys : KeyResolves(k)
    /\ \A m \in RealModels : ModelResolves(m)
    /\ ShowsOneListing
    /\ RefreshesInv
  BY DEF CatalogueInv, CatalogueTypeOK, RowsTyped, ActorsTyped, ListsTyped, ReferencesResolve, ChainResolves,
         KeyResolves, ModelResolves, Row, NoRow, BackendStates, ModelStates, KeyRow, RefreshRow, ChainEdit,
         TypeEdit, KeyEdit

CatalogueAssembled ==
  /\ RowsTyped' /\ ActorsTyped' /\ ListsTyped'
  /\ \A c \in Chains : ChainResolves(c)'
  /\ \A k \in BoundKeys : KeyResolves(k)'
  /\ \A m \in RealModels : ModelResolves(m)'
  /\ ShowsOneListing'
  /\ RefreshesInv'

LEMMA CatalogueAssembles == CatalogueAssembled => CatalogueInv'
  BY DEF CatalogueInv, CatalogueTypeOK, RowsTyped, ActorsTyped, ListsTyped, ReferencesResolve, ChainResolves,
         KeyResolves, ModelResolves, Row, NoRow, BackendStates, ModelStates, KeyRow, RefreshRow, ChainEdit,
         TypeEdit, KeyEdit, CatalogueAssembled

\* The chains and the bindings find what they found.
LEMMA ReferencesKept ==
  ASSUME CatalogueInv, UNCHANGED <<chain, boundKey>>,
         \A m \in RealModels : ModelExists(m) => \/ ModelExists(m)'
                                                 \/ /\ \A c \in Chains : m \notin TargetsOf(c)
                                                    /\ \A k \in BoundKeys : boundKey[k].binding # m
  PROVE  (\A c \in Chains : ChainResolves(c)') /\ (\A k \in BoundKeys : KeyResolves(k)')
<1> USE CatalogueParts
<1>1. \A c \in Chains : TargetsOf(c)' = TargetsOf(c) /\ (ChainExists(c)' <=> ChainExists(c))
  BY DEF TargetsOf, ChainExists
<1>2. \A c \in Chains : ChainExists(c) => TargetsOf(c) \subseteq RealModels
  <2> SUFFICES ASSUME NEW c \in Chains, ChainExists(c) PROVE TargetsOf(c) \subseteq RealModels
    OBVIOUS
  <2>1. chain[c] \in Row
    BY DEF RowsTyped, ChainExists, NoRow, NoChain, Modes
  <2> QED
    BY <2>1, ListedModels DEF Row, TargetsOf, ModelsIn
<1>3. \A c \in Chains : ChainResolves(c)'
  BY <1>1, <1>2 DEF ChainResolves
<1>4. ASSUME NEW k \in BoundKeys PROVE KeyResolves(k)'
  <2>1. CASE boundKey[k].binding \in RealModels
    BY <2>1 DEF KeyResolves, TargetExists
  <2>2. CASE boundKey[k].binding \notin RealModels
    BY <1>1, <2>2 DEF KeyResolves, TargetExists
  <2> QED
    BY <2>1, <2>2
<1> QED
  BY <1>3, <1>4

\* The providers that live show what they showed.
LEMMA ShowsKept ==
  ASSUME CatalogueInv, UNCHANGED applied,
         \A m \in RealModels : BackendLives(BackendOf[m])' =>
            (realModel'[m] = "listed" <=> realModel[m] = "listed"),
         \A p \in Backends : BackendLives(p)' => BackendLives(p)
  PROVE  ShowsOneListing'
<1> SUFFICES ASSUME NEW p \in Backends, BackendLives(p)'
             PROVE  {m \in ModelsOf(p) : realModel'[m] = "listed"} =
                      IF applied[p] = 0 THEN {} ELSE Listings[p][applied[p]]
  BY DEF ShowsOneListing, ModelsOf
<1>1. {m \in ModelsOf(p) : realModel'[m] = "listed"} = {m \in ModelsOf(p) : realModel[m] = "listed"}
  BY DEF ModelsOf
<1> QED
  BY <1>1 DEF CatalogueInv, ShowsOneListing

\* No refresh moves, and no provider goes back to what it was before it was there.
LEMMA RefreshesKept ==
  ASSUME CatalogueInv, UNCHANGED <<refresh, offer, applied>>,
         \A p \in Backends : backend'[p] = "none" => backend[p] = "none"
  PROVE  RefreshesInv'
<1> USE DEF CatalogueInv, RefreshesInv
<1>1. \A p \in Backends, h \in Refreshes : Holds(h, p)' <=> Holds(h, p)
  BY DEF Holds
<1>2. \A h \in Refreshes : refresh[h] # NoRefresh => refresh[h].of \in Backends
  BY CatalogueParts DEF ActorsTyped, RefreshRow
<1> QED
  BY <1>1, <1>2

\* A refresh moves, or is at an end: what it needs to hold is its own.
LEMMA OneRefresh ==
  ASSUME CatalogueInv, NEW h \in Refreshes, NEW row \in RefreshRow, MoveRefresh(h, row),
         UNCHANGED <<backend, offer, edit>>,
         row # NoRefresh => backend[row.of] # "none" /\ row.of \in Backends,
         row.step = "answered" => applied'[row.of] <= row.list /\ row.list \in 1..offer[row.of],
         row.step \in {"asking", "answered"} => \A g \in Refreshes \ {h} : ~Holds(g, row.of),
         \A p \in Backends : applied'[p] = applied[p] \/
             (Holds(h, p) /\ row = NoRefresh /\ backend[p] # "none"),
         ListsTyped'
  PROVE  RefreshesInv' /\ ActorsTyped'
<1> USE CatalogueParts
<1>1. \A g \in Refreshes : refresh'[g] = IF g = h THEN row ELSE refresh[g]
  BY DEF MoveRefresh, ActorsTyped
<1>2. ActorsTyped'
  BY DEF MoveRefresh, ActorsTyped
<1>3. \A g \in Refreshes : refresh'[g] # NoRefresh => backend'[refresh'[g].of] # "none"
  BY <1>1 DEF RefreshesInv
<1>4. \A p \in Backends, g \in Refreshes \ {h} : Holds(g, p)' <=> Holds(g, p)
  BY <1>1 DEF Holds
<1>5. \A p \in Backends : Holds(h, p)' => row.step \in {"asking", "answered"} /\ row.of = p
  BY <1>1 DEF Holds
<1>6. \A p \in Backends, f, g \in Refreshes : Holds(f, p)' /\ Holds(g, p)' => f = g
  BY <1>4, <1>5 DEF RefreshesInv
<1>7. ASSUME NEW g \in Refreshes, refresh'[g].step = "answered"
      PROVE  applied'[refresh'[g].of] <= refresh'[g].list /\ refresh'[g].list \in 1..offer'[refresh'[g].of]
  <2>1. CASE g = h
    BY <1>1, <1>7, <2>1
  <2>2. CASE g # h
    <3>1. refresh'[g] = refresh[g]
      BY <1>1, <2>2
    <3>2. refresh[g] \in RefreshRow /\ refresh[g].step = "answered"
      BY <1>7, <3>1 DEF ActorsTyped
    <3>3. refresh[g].of \in Backends /\ Holds(g, refresh[g].of)
      BY <3>2 DEF RefreshRow, Holds, NoRefresh
    <3>4. applied'[refresh[g].of] = applied[refresh[g].of]
      BY <2>2, <3>3 DEF RefreshesInv
    <3> QED
      BY <3>1, <3>2, <3>4 DEF RefreshesInv
  <2> QED
    BY <2>1, <2>2
<1>8. \A p \in Backends : backend'[p] = "none" => applied'[p] = 0
  BY DEF RefreshesInv
<1> QED
  BY <1>2, <1>3, <1>6, <1>7, <1>8 DEF RefreshesInv

-----------------------------------------------------------------------------
(* The steps.                                                              *)

CatalogueStep ==
  /\ CatalogueInv'
  /\ \A p \in Backends : applied[p] <= applied'[p]
  /\ \A p \in Backends, c \in Chains :
       (BackendLives(p) /\ backend'[p] = "gone" /\ TargetsOf(c) \cap ModelsOf(p) # {}) => Serves(c)'

\* All steps but the deletion of a provider leave the third part alone.
LEMMA NothingDeleted ==
  ASSUME CatalogueInv, CatalogueAssembled, \A p \in Backends : applied[p] <= applied'[p],
         \A p \in Backends : BackendLives(p) => backend'[p] # "gone"
  PROVE  CatalogueStep
  BY CatalogueAssembles DEF CatalogueStep

LEMMA NeverLater ==
  ASSUME CatalogueInv, UNCHANGED applied
  PROVE  \A p \in Backends : applied[p] <= applied'[p]
<1>1. \A p \in Backends : applied[p] \in Nat
  BY CatalogueParts DEF ListsTyped
<1> QED
  BY <1>1

LEMMA BackendStays ==
  ASSUME CatalogueInv, UNCHANGED backend
  PROVE  \A p \in Backends : BackendLives(p) => backend'[p] # "gone"
  BY DEF BackendLives

LEMMA RefreshSteps ==
  ASSUME CatalogueInv, NEW h \in Refreshes,
         \/ \E p \in Backends : BeginRefresh(h, p)
         \/ TakeLock(h) \/ Discover(h) \/ RefreshFails(h) \/ ApplyListing(h)
  PROVE  CatalogueStep
<1> USE CatalogueParts
<1>0. refresh[h] \in RefreshRow /\ RefreshesInv /\ ListsTyped /\ RowsTyped /\ ActorsTyped
  BY DEF ActorsTyped
\* All but the last touch nothing but the refresh.
<1>1. ASSUME NEW row \in RefreshRow, MoveRefresh(h, row),
             UNCHANGED <<backend, offer, applied, realModel, chain, boundKey, edit>>,
             row # NoRefresh => backend[row.of] # "none" /\ row.of \in Backends,
             row.step = "answered" => applied[row.of] <= row.list /\ row.list \in 1..offer[row.of],
             row.step \in {"asking", "answered"} => \A g \in Refreshes \ {h} : ~Holds(g, row.of)
      PROVE  CatalogueStep
  <2>1. RowsTyped' /\ ListsTyped'
    BY <1>1 DEF RowsTyped, ListsTyped
  <2>2. RefreshesInv' /\ ActorsTyped'
    BY <1>1, <2>1, OneRefresh
  <2>3. (\A c \in Chains : ChainResolves(c)') /\ (\A k \in BoundKeys : KeyResolves(k)')
    BY <1>1, ReferencesKept DEF ModelExists
  <2>4. \A m \in RealModels : ModelResolves(m)'
    BY <1>1 DEF ModelResolves, ModelExists, BackendLives
  <2>5. ShowsOneListing'
    BY <1>1, ShowsKept DEF BackendLives
  <2>6. CatalogueAssembled
    BY <2>1, <2>2, <2>3, <2>4, <2>5 DEF CatalogueAssembled
  <2> QED
    BY <1>1, <2>6, NothingDeleted, NeverLater, BackendStays
<1>2. ASSUME NEW p \in Backends, BeginRefresh(h, p) PROVE CatalogueStep
  <2> DEFINE row == [step |-> "waiting", of |-> p]
  <2>1. row \in RefreshRow /\ row.of = p /\ row.step = "waiting" /\ backend[p] # "none"
    BY <1>2 DEF RefreshRow, BeginRefresh, BackendLives
  <2>2. MoveRefresh(h, row) /\ UNCHANGED <<backend, offer, applied, realModel, chain, boundKey, edit>>
    BY <1>2 DEF BeginRefresh
  <2> HIDE DEF row
  <2> QED
    BY <1>1, <2>1, <2>2
<1>3. ASSUME TakeLock(h) PROVE CatalogueStep
  <2> DEFINE p == refresh[h].of
             row == IF BackendLives(p) THEN [step |-> "asking", of |-> p] ELSE NoRefresh
  <2>1. p \in Backends /\ refresh[h] # NoRefresh
    BY <1>0, <1>3 DEF TakeLock, RefreshRow, NoRefresh
  <2>2. row \in RefreshRow /\ row.step # "answered"
    BY <2>1 DEF RefreshRow, NoRefresh
  <2>3. row # NoRefresh => row.of = p /\ BackendLives(p)
    OBVIOUS
  <2>4. row.step = "asking" => row # NoRefresh
    BY DEF NoRefresh
  <2>5. /\ MoveRefresh(h, row) /\ UNCHANGED <<backend, offer, applied, realModel, chain, boundKey, edit>>
        /\ \A g \in Refreshes : ~Holds(g, p)
    BY <1>3 DEF TakeLock
  <2> HIDE DEF p, row
  <2>6. row # NoRefresh => backend[row.of] # "none" /\ row.of \in Backends
    BY <2>1, <2>3 DEF BackendLives
  <2>7. row.step \in {"asking", "answered"} => \A g \in Refreshes \ {h} : ~Holds(g, row.of)
    BY <2>2, <2>3, <2>4, <2>5
  <2> QED
    BY <1>1, <2>2, <2>5, <2>6, <2>7
<1>4. ASSUME Discover(h) PROVE CatalogueStep
  <2> DEFINE p == refresh[h].of
             row == [step |-> "answered", of |-> p, list |-> offer[p]]
  <2>1. p \in Backends /\ refresh[h] # NoRefresh /\ Holds(h, p)
    BY <1>0, <1>4 DEF Discover, RefreshRow, NoRefresh, Holds
  <2>2. /\ offer[p] \in Nat /\ applied[p] \in Nat /\ applied[p] <= offer[p] /\ offer[p] \in 1..offer[p]
    <3>1. offer[p] \in Nat /\ offer[p] \in DOMAIN Listings[p] /\ applied[p] \in 0..offer[p] /\ Listings[p] \in Seq(SUBSET RealModels)
      BY <1>0, <2>1, CatalogueAssumption DEF ListsTyped, CatalogueAssumption
    <3> QED
      BY <3>1
  <2>3. row \in RefreshRow /\ row.step = "answered" /\ row.of = p /\ row.list = offer[p]
    BY <2>1, <2>2 DEF RefreshRow
  <2>4. MoveRefresh(h, row) /\ UNCHANGED <<backend, offer, applied, realModel, chain, boundKey, edit>>
    BY <1>4 DEF Discover
  <2>5. backend[p] # "none" /\ \A g \in Refreshes \ {h} : ~Holds(g, p)
    BY <1>0, <2>1 DEF RefreshesInv
  <2> HIDE DEF p, row
  <2> QED
    BY <1>1, <2>1, <2>2, <2>3, <2>4, <2>5
<1>5. ASSUME RefreshFails(h) PROVE CatalogueStep
  <2>1. NoRefresh \in RefreshRow /\ NoRefresh.step = "idle"
    BY DEF RefreshRow, NoRefresh
  <2>2. MoveRefresh(h, NoRefresh) /\ UNCHANGED <<backend, offer, applied, realModel, chain, boundKey, edit>>
    BY <1>5 DEF RefreshFails
  <2> QED
    BY <1>1, <2>1, <2>2
\* The answer of a refresh that holds the lock, no older than what it replaces.
<1>6. ASSUME ApplyListing(h) PROVE CatalogueStep
  <2>1. PICK p \in Backends, n \in Nat :
          p = refresh[h].of /\ n = refresh[h].list /\ Holds(h, p)
    BY <1>0, <1>6 DEF ApplyListing, RefreshRow, NoRefresh, Holds
  <2>2. PICK list \in SUBSET RealModels : list = Listings[p][n] /\ \A m \in list : BackendOf[m] = p
    <3>1. n \in 1..offer[p] /\ offer[p] \in DOMAIN Listings[p] /\ Listings[p] \in Seq(SUBSET RealModels)
      BY <1>0, <1>6, <2>1, CatalogueAssumption DEF ListsTyped, CatalogueAssumption, ApplyListing, RefreshesInv
    <3>2. n \in DOMAIN Listings[p]
      BY <3>1
    <3>3. Listings[p][n] \in SUBSET RealModels
      BY <3>1, <3>2
    <3> QED
      BY <3>2, <3>3, CatalogueAssumption DEF CatalogueAssumption
  <2>3. /\ realModel' = Relist(p, list) /\ applied' = [applied EXCEPT ![p] = n]
        /\ MoveRefresh(h, NoRefresh) /\ BackendLives(p)
        /\ UNCHANGED <<backend, offer, chain, boundKey, edit>>
    BY <1>6, <2>1, <2>2 DEF ApplyListing
  <2>4. applied[p] <= n /\ n \in 1..offer[p] /\ offer[p] \in Nat /\ applied[p] \in Nat
    BY <1>0, <1>6, <2>1 DEF ApplyListing, RefreshesInv, ListsTyped
  <2>5. \A q \in Backends : applied'[q] = IF q = p THEN n ELSE applied[q]
    BY <1>0, <2>3 DEF ListsTyped
  <2>6. ListsTyped'
    BY <1>0, <2>3, <2>4, <2>5 DEF ListsTyped
  <2>7. NoRefresh \in RefreshRow /\ NoRefresh.step = "idle"
    BY DEF RefreshRow, NoRefresh
  <2>8. \A q \in Backends : applied'[q] = applied[q] \/ (Holds(h, q) /\ backend[q] # "none")
    BY <2>1, <2>3, <2>5 DEF BackendLives
  <2>9. RefreshesInv' /\ ActorsTyped'
    BY <2>3, <2>6, <2>7, <2>8, OneRefresh
  <2>10. \A m \in RealModels :
           realModel'[m] = IF m \in list THEN "listed"
                           ELSE IF BackendOf[m] = p /\ realModel[m] = "listed" THEN "retired" ELSE realModel[m]
    BY <2>3 DEF Relist
  <2>11. RowsTyped'
    <3>1. realModel' \in [RealModels -> ModelStates]
      BY <1>0, <2>3 DEF Relist, RowsTyped, ModelStates
    <3> QED
      BY <1>0, <2>3, <3>1 DEF RowsTyped
  <2>12. \A m \in RealModels : ModelExists(m) => ModelExists(m)'
    BY <2>10 DEF ModelExists
  <2>13. (\A c \in Chains : ChainResolves(c)') /\ (\A k \in BoundKeys : KeyResolves(k)')
    BY <2>3, <2>12, ReferencesKept
  <2>14. \A m \in RealModels : ModelResolves(m)'
    BY <2>2, <2>3, <2>10 DEF ModelResolves, ModelExists, BackendLives
  <2>15. ShowsOneListing'
    <3> SUFFICES ASSUME NEW q \in Backends, BackendLives(q)
                 PROVE  {m \in ModelsOf(q) : realModel'[m] = "listed"} =
                          IF applied'[q] = 0 THEN {} ELSE Listings[q][applied'[q]]
      BY <2>3 DEF ShowsOneListing, ModelsOf, BackendLives
    <3>1. CASE q = p
      <4>1. {m \in ModelsOf(q) : realModel'[m] = "listed"} = list
        BY <2>2, <2>10, <3>1 DEF ModelsOf
      <4> QED
        BY <2>2, <2>4, <2>5, <3>1, <4>1
    <3>2. CASE q # p
      <4>1. {m \in ModelsOf(q) : realModel'[m] = "listed"} = {m \in ModelsOf(q) : realModel[m] = "listed"}
        BY <2>2, <2>10, <3>2 DEF ModelsOf
      <4> QED
        BY <2>5, <3>2, <4>1 DEF ShowsOneListing
    <3> QED
      BY <3>1, <3>2
  <2>16. CatalogueAssembled
    BY <2>6, <2>9, <2>11, <2>13, <2>14, <2>15 DEF CatalogueAssembled
  <2>17. \A q \in Backends : applied[q] <= applied'[q]
    BY <1>0, <2>4, <2>5 DEF ListsTyped
  <2> QED
    BY <2>3, <2>16, <2>17, NothingDeleted, BackendStays
<1> QED
  BY <1>2, <1>3, <1>4, <1>5, <1>6

\* What the administrator decides, and does not write yet.
LEMMA EditSteps ==
  ASSUME CatalogueInv, NEW e \in Edits,
         \/ \E c \in Chains, mode \in Modes \cup {"same"}, ts \in TargetLists \cup {<<>>} :
              ReadChain(e, c, mode, ts)
         \/ \E k \in BoundKeys : ReadKeyRow(e, k)
         \/ \E type \in BoundTypes \cup {"same"}, target \in RealModels \cup Chains \cup {"none", "name"} :
              ReadBinding(e, type, target)
         \/ GiveUpEdit(e)
  PROVE  CatalogueStep
<1> USE CatalogueParts
<1>1. UNCHANGED <<backend, offer, applied, realModel, chain, boundKey, refresh>>
  BY DEF ReadChain, ReadKeyRow, ReadBinding, GiveUpEdit
<1>2. \E row \in {NoEdit} \cup ChainEdit \cup TypeEdit \cup KeyEdit : edit' = [edit EXCEPT ![e] = row]
  <2>1. ASSUME NEW c \in Chains, NEW mode \in Modes \cup {"same"}, NEW ts \in TargetLists \cup {<<>>},
               ReadChain(e, c, mode, ts)
        PROVE  \E row \in ChainEdit : edit' = [edit EXCEPT ![e] = row]
    <3> DEFINE new == IF mode = "same" THEN chain[c].mode ELSE mode
               row == [kind |-> "chain", chain |-> c, modeSet |-> mode # "same", mode |-> new, targets |-> ts]
    <3>1. new \in Modes
      BY <2>1 DEF ReadChain, ChainExists
    <3>2. row \in ChainEdit
      <4> HIDE DEF new
      <4> QED
        BY <3>1 DEF ChainEdit
    <3> QED
      BY <2>1, <3>2 DEF ReadChain
  <2>2. ASSUME NEW k \in BoundKeys, ReadKeyRow(e, k)
        PROVE  \E row \in TypeEdit : edit' = [edit EXCEPT ![e] = row]
    <3>1. boundKey[k].type \in BoundTypes
      BY DEF RowsTyped, KeyRow
    <3>2. [kind |-> "type", key |-> k, type |-> boundKey[k].type] \in TypeEdit
      BY <3>1 DEF TypeEdit
    <3> QED
      BY <2>2, <3>2 DEF ReadKeyRow
  <2>3. ASSUME NEW type \in BoundTypes \cup {"same"}, NEW target \in RealModels \cup Chains \cup {"none", "name"},
               ReadBinding(e, type, target)
        PROVE  \E row \in KeyEdit : edit' = [edit EXCEPT ![e] = row]
    <3> DEFINE found == boundKey[edit[e].key].binding
               new == IF type = "same" THEN edit[e].type ELSE type
               goal == IF target \in {"none", "name"} THEN found ELSE target
               write == target # "none" \/ (type = "single" /\ found = Unbound)
               row == [kind |-> "key", key |-> edit[e].key, typeSet |-> type # "same", type |-> new,
                       write |-> write, target |-> goal]
    <3>1. edit[e] \in TypeEdit
      BY <2>3 DEF ReadBinding, ActorsTyped, ChainEdit, KeyEdit
    <3>2. found \in Bindings /\ edit[e].key \in BoundKeys /\ edit[e].type \in BoundTypes
      BY <3>1 DEF RowsTyped, KeyRow, TypeEdit
    <3>3. new \in BoundTypes /\ goal \in Bindings /\ write \in BOOLEAN /\ (type # "same") \in BOOLEAN
      <4> HIDE DEF found
      <4> QED
        BY <3>2 DEF Bindings
    <3>4. row \in KeyEdit
      <4> HIDE DEF new, goal, write
      <4> QED
        BY <3>2, <3>3 DEF KeyEdit
    <3>5. edit' = [edit EXCEPT ![e] = row]
      BY <2>3 DEF ReadBinding
    <3> HIDE DEF row
    <3> QED
      BY <3>4, <3>5
  <2>4. ASSUME GiveUpEdit(e) PROVE edit' = [edit EXCEPT ![e] = NoEdit]
    BY <2>4 DEF GiveUpEdit
  <2> QED
    BY <2>1, <2>2, <2>3, <2>4
<1>3. RowsTyped' /\ ListsTyped'
  BY <1>1 DEF RowsTyped, ListsTyped
<1>4. ActorsTyped'
  BY <1>1, <1>2 DEF ActorsTyped
<1>5. (\A c \in Chains : ChainResolves(c)') /\ (\A k \in BoundKeys : KeyResolves(k)')
  BY <1>1, ReferencesKept DEF ModelExists
<1>6. \A m \in RealModels : ModelResolves(m)'
  BY <1>1 DEF ModelResolves, ModelExists, BackendLives
<1>7. ShowsOneListing' /\ RefreshesInv'
  BY <1>1, ShowsKept, RefreshesKept DEF BackendLives
<1>8. CatalogueAssembled
  BY <1>3, <1>4, <1>5, <1>6, <1>7 DEF CatalogueAssembled
<1> QED
  BY <1>1, <1>8, NothingDeleted, NeverLater, BackendStays

\* The rows of providers and of models that come, and the models that go.
LEMMA RowSteps ==
  ASSUME CatalogueInv,
         \/ \E p \in Backends : \/ AddBackend(p) \/ ChangeOffer(p)
                                \/ \E value \in {"on", "off"} : EnableBackend(p, value)
         \/ \E m \in RealModels : AddManual(m) \/ RemoveManual(m)
  PROVE  CatalogueStep
<1> USE CatalogueParts
<1>0. RowsTyped /\ ListsTyped /\ ActorsTyped /\ RefreshesInv
  OBVIOUS
<1>1. /\ UNCHANGED <<applied, chain, boundKey, refresh, edit>>
      /\ ActorsTyped'
  BY <1>0 DEF AddBackend, ChangeOffer, EnableBackend, AddManual, RemoveManual, ActorsTyped
<1>2. ASSUME NEW p \in Backends, NEW value \in {"on", "off"}, AddBackend(p) \/ EnableBackend(p, value)
      PROVE  CatalogueStep
  <2>1. PICK v \in {"on", "off"} : backend' = [backend EXCEPT ![p] = v]
    BY <1>2 DEF AddBackend, EnableBackend
  <2>2. /\ \A q \in Backends : backend'[q] = IF q = p THEN v ELSE backend[q]
        /\ UNCHANGED <<offer, realModel>>
    BY <1>0, <1>2, <2>1 DEF AddBackend, EnableBackend, RowsTyped
  <2>3. RowsTyped' /\ ListsTyped'
    BY <1>0, <1>1, <2>1, <2>2 DEF RowsTyped, ListsTyped, BackendStates
  <2>4. RefreshesInv'
    BY <1>1, <2>2, RefreshesKept
  <2>5. (\A c \in Chains : ChainResolves(c)') /\ (\A k \in BoundKeys : KeyResolves(k)')
    BY <1>1, <2>2, ReferencesKept DEF ModelExists
  <2>6. \A m \in RealModels : ModelResolves(m)'
    BY <2>2, CatalogueAssumption DEF ModelResolves, ModelExists, BackendLives, CatalogueAssumption
  <2>7. ShowsOneListing'
    <3> SUFFICES ASSUME NEW q \in Backends, BackendLives(q)'
                 PROVE  {m \in ModelsOf(q) : realModel[m] = "listed"} =
                          IF applied[q] = 0 THEN {} ELSE Listings[q][applied[q]]
      BY <1>1, <2>2 DEF ShowsOneListing, ModelsOf
    <3>1. CASE BackendLives(q)
      BY <3>1 DEF ShowsOneListing
    \* One that was not there has nothing.
    <3>2. CASE ~BackendLives(q)
      <4>1. q = p /\ backend[q] = "none"
        BY <1>2, <2>2, <3>2 DEF BackendLives, AddBackend, EnableBackend
      <4>2. applied[q] = 0
        BY <1>0, <4>1 DEF RefreshesInv
      <4>3. \A m \in ModelsOf(q) : realModel[m] = "absent"
        BY <3>2 DEF ModelsOf, ModelResolves, ModelExists
      <4> QED
        BY <4>2, <4>3
    <3> QED
      BY <3>1, <3>2
  <2>8. CatalogueAssembled
    BY <1>1, <2>3, <2>4, <2>5, <2>6, <2>7 DEF CatalogueAssembled
  <2> QED
    BY <1>1, <2>2, <2>8, NothingDeleted, NeverLater DEF BackendLives
<1>3. ASSUME NEW p \in Backends, ChangeOffer(p) PROVE CatalogueStep
  <2>1. offer' = [offer EXCEPT ![p] = @ + 1] /\ offer[p] < Len(Listings[p]) /\ UNCHANGED <<backend, realModel>>
    BY <1>3 DEF ChangeOffer
  <2>2. \A q \in Backends : Listings[q] \in Seq(SUBSET RealModels)
    BY CatalogueAssumption DEF CatalogueAssumption
  <2>3. \A q \in Backends : offer'[q] = IF q = p THEN offer[q] + 1 ELSE offer[q]
    BY <1>0, <2>1 DEF ListsTyped
  <2>4. ListsTyped'
    <3>1. ASSUME NEW q \in Backends
          PROVE  offer'[q] \in Nat /\ offer'[q] \in DOMAIN Listings[q] /\ applied[q] \in 0..offer'[q]
      <4>1. /\ offer[q] \in Nat /\ applied[q] \in Nat /\ applied[q] <= offer[q]
            /\ Len(Listings[q]) \in Nat /\ DOMAIN Listings[q] = 1..Len(Listings[q]) /\ offer[q] \in DOMAIN Listings[q]
        BY <1>0, <2>2 DEF ListsTyped
      <4> QED
        BY <2>1, <2>3, <4>1
    <3>2. offer' \in [Backends -> Nat]
      BY <1>0, <2>1 DEF ListsTyped
    <3> QED
      BY <1>0, <1>1, <3>1, <3>2 DEF ListsTyped
  <2>5. RowsTyped'
    BY <1>0, <1>1, <2>1 DEF RowsTyped
  <2>6. RefreshesInv'
    <3>1. \A h \in Refreshes : refresh[h].step = "answered" => refresh[h].of \in Backends /\ refresh[h].list \in Nat
      BY <1>0 DEF ActorsTyped, RefreshRow, NoRefresh
    <3>2. \A h \in Refreshes : refresh[h].step = "answered" => refresh[h].list \in 1..offer'[refresh[h].of]
      BY <1>0, <2>3, <3>1 DEF RefreshesInv, ListsTyped
    <3>3. \A q \in Backends, h \in Refreshes : Holds(h, q)' <=> Holds(h, q)
      BY <1>1 DEF Holds
    <3> QED
      BY <1>0, <1>1, <2>1, <3>2, <3>3 DEF RefreshesInv
  <2>7. (\A c \in Chains : ChainResolves(c)') /\ (\A k \in BoundKeys : KeyResolves(k)')
    BY <1>1, <2>1, ReferencesKept DEF ModelExists
  <2>8. (\A m \in RealModels : ModelResolves(m)') /\ ShowsOneListing'
    BY <1>1, <2>1, ShowsKept DEF ModelResolves, ModelExists, BackendLives
  <2>9. CatalogueAssembled
    BY <1>1, <2>4, <2>5, <2>6, <2>7, <2>8 DEF CatalogueAssembled
  <2> QED
    BY <1>1, <2>1, <2>9, NothingDeleted, NeverLater, BackendStays
\* A model of one name comes by hand, or goes when nothing names it.
<1>4. ASSUME NEW m \in RealModels, AddManual(m) \/ RemoveManual(m) PROVE CatalogueStep
  <2>1. PICK v \in {"manual", "absent"} :
          /\ realModel' = [realModel EXCEPT ![m] = v] /\ realModel[m] # "listed"
          /\ v = "manual" => BackendLives(BackendOf[m])
          /\ v = "absent" => BoundTo({m}) = {} /\ \A c \in Chains : m \notin TargetsOf(c)
    BY <1>4 DEF AddManual, RemoveManual
  <2>2. UNCHANGED <<backend, offer>> /\ \A o \in RealModels : realModel'[o] = IF o = m THEN v ELSE realModel[o]
    BY <1>0, <1>4, <2>1 DEF AddManual, RemoveManual, RowsTyped
  <2>3. RowsTyped' /\ ListsTyped'
    BY <1>0, <1>1, <2>1, <2>2 DEF RowsTyped, ListsTyped, ModelStates
  <2>4. RefreshesInv'
    BY <1>1, <2>2, RefreshesKept
  <2>5. \A o \in RealModels : ModelExists(o) => \/ ModelExists(o)'
                                                \/ /\ \A c \in Chains : o \notin TargetsOf(c)
                                                   /\ \A k \in BoundKeys : boundKey[k].binding # o
    BY <2>1, <2>2 DEF ModelExists, BoundTo
  <2>6. (\A c \in Chains : ChainResolves(c)') /\ (\A k \in BoundKeys : KeyResolves(k)')
    BY <1>1, <2>5, ReferencesKept
  <2>7. \A o \in RealModels : ModelResolves(o)'
    BY <2>1, <2>2 DEF ModelResolves, ModelExists, BackendLives
  <2>8. \A o \in RealModels : realModel'[o] = "listed" <=> realModel[o] = "listed"
    BY <2>1, <2>2
  <2>9. ShowsOneListing'
    BY <1>1, <2>2, <2>8, ShowsKept DEF BackendLives
  <2>10. CatalogueAssembled
    BY <1>1, <2>3, <2>4, <2>6, <2>7, <2>9 DEF CatalogueAssembled
  <2> QED
    BY <1>1, <2>2, <2>10, NothingDeleted, NeverLater, BackendStays
<1> QED
  BY <1>2, <1>3, <1>4

\* A chain or a binding is written: every other one finds what it found.
LEMMA WritesKeep ==
  ASSUME CatalogueInv, UNCHANGED <<backend, offer, applied, realModel, refresh>>,
         RowsTyped', ActorsTyped',
         \A c \in Chains : chain'[c] = chain[c] \/ ChainResolves(c)',
         \A k \in BoundKeys : boundKey'[k] = boundKey[k] \/ KeyResolves(k)',
         \A c \in Chains : ChainExists(c) => \/ ChainExists(c)'
                                             \/ \A k \in BoundKeys : boundKey'[k].binding # c
  PROVE  CatalogueStep
<1> USE CatalogueParts
<1>1. \A m \in RealModels : ModelExists(m)' = ModelExists(m)
  BY DEF ModelExists
<1>2. \A c \in Chains : ChainResolves(c)'
  <2> TAKE c \in Chains
  <2>1. CASE chain'[c] = chain[c]
    <3>1. ChainResolves(c) /\ TargetsOf(c)' = TargetsOf(c) /\ ChainExists(c)' = ChainExists(c)
      BY <2>1 DEF TargetsOf, ChainExists
    <3>2. ChainExists(c) => TargetsOf(c) \subseteq RealModels
      <4>1. ChainExists(c) => chain[c] \in Row
        BY DEF RowsTyped, ChainExists, NoRow, NoChain, Modes
      <4> QED
        BY <4>1, ListedModels DEF Row, TargetsOf, ModelsIn
    <3> QED
      BY <1>1, <2>1, <3>1, <3>2 DEF ChainResolves
  <2> QED
    BY <2>1
<1>3. \A k \in BoundKeys : KeyResolves(k)'
  <2> TAKE k \in BoundKeys
  <2>1. CASE boundKey'[k] = boundKey[k]
    <3>1. KeyResolves(k)
      OBVIOUS
    <3> QED
      BY <1>1, <2>1, <3>1 DEF KeyResolves, TargetExists
  <2> QED
    BY <2>1
<1>4. (\A m \in RealModels : ModelResolves(m)') /\ ShowsOneListing' /\ RefreshesInv' /\ ListsTyped'
  BY ShowsKept, RefreshesKept DEF ModelResolves, ModelExists, BackendLives, ListsTyped
<1>5. CatalogueAssembled
  BY <1>2, <1>3, <1>4 DEF CatalogueAssembled
<1> QED
  BY <1>5, NothingDeleted, NeverLater, BackendStays

LEMMA ChainWrites ==
  ASSUME CatalogueInv,
         \/ \E c \in Chains : \/ \E mode \in Modes, ts \in TargetLists : AddChain(c, mode, ts)
                              \/ RemoveChain(c)
         \/ \E e \in Edits : WriteChain(e)
  PROVE  CatalogueStep
<1> USE CatalogueParts
<1>0. RowsTyped /\ ActorsTyped /\ UNCHANGED <<backend, offer, applied, realModel, refresh>>
  BY DEF AddChain, RemoveChain, WriteChain
\* A row that is well formed and resolves.
<1>1. ASSUME NEW c \in Chains, NEW row \in Row, chain' = [chain EXCEPT ![c] = row], UNCHANGED boundKey,
             ActorsTyped',
             row.primary \in ModelsIn(row.targets), \A m \in ModelsIn(row.targets) : ModelExists(m)
      PROVE  CatalogueStep
  <2>1. \A d \in Chains : chain'[d] = IF d = c THEN row ELSE chain[d]
    BY <1>0, <1>1 DEF RowsTyped
  <2>2. RowsTyped'
    BY <1>0, <1>1 DEF RowsTyped
  <2>3. ChainExists(c)' /\ TargetsOf(c)' = ModelsIn(row.targets)
    BY <2>1 DEF ChainExists, Row, TargetsOf, ModelsIn
  <2>4. ChainResolves(c)'
    BY <1>0, <1>1, <2>1, <2>3 DEF ChainResolves, ModelExists
  <2>5. \A d \in Chains : ChainExists(d) => ChainExists(d)'
    BY <2>1, <2>3 DEF ChainExists
  <2> QED
    BY <1>0, <1>1, <2>1, <2>2, <2>4, <2>5, WritesKeep
<1>2. ASSUME NEW c \in Chains, NEW mode \in Modes, NEW ts \in TargetLists, AddChain(c, mode, ts)
      PROVE  CatalogueStep
  <2> DEFINE row == [mode |-> mode, targets |-> ts, primary |-> ts[1].model]
  <2>1. row \in Row /\ row.targets = ts /\ row.primary \in ModelsIn(ts)
    BY ListedModels DEF Row
  <2>2. chain' = [chain EXCEPT ![c] = row] /\ UNCHANGED boundKey /\ AllExist(ts) /\ ActorsTyped'
    BY <1>0, <1>2 DEF AddChain, ActorsTyped
  <2> HIDE DEF row
  <2> QED
    BY <1>1, <2>1, <2>2, ListedModels
<1>3. ASSUME NEW e \in Edits, WriteChain(e) PROVE CatalogueStep
  <2>1. PICK d \in ChainEdit : d = edit[e]
    BY <1>0, <1>3 DEF WriteChain, ActorsTyped, TypeEdit, KeyEdit
  <2> DEFINE c == d.chain
             old == IF d.targets = <<>> THEN chain[c] ELSE Replaced(c, d.targets)
             row == [old EXCEPT !.mode = IF d.modeSet THEN d.mode ELSE @]
  <2>2. /\ c \in Chains /\ d.mode \in Modes /\ d.targets \in TargetLists \cup {<<>>} /\ ChainExists(c)
        /\ AllExist(d.targets) /\ chain' = [chain EXCEPT ![c] = row] /\ UNCHANGED boundKey /\ ActorsTyped'
    BY <1>0, <1>3, <2>1 DEF WriteChain, ActorsTyped, ChainEdit
  <2>3. chain[c] \in Row
    BY <1>0, <2>2 DEF RowsTyped, ChainExists, NoRow, NoChain, Modes
  <2>4. old \in Row /\ old.primary \in ModelsIn(old.targets) /\ \A m \in ModelsIn(old.targets) : ModelExists(m)
    <3>1. CASE d.targets = <<>>
      <4>1. ChainResolves(c) /\ old = chain[c]
        BY <2>2, <3>1
      <4> QED
        BY <2>2, <2>3, <4>1 DEF ChainResolves, TargetsOf, ModelsIn
    <3>2. CASE d.targets # <<>>
      <4>1. PICK ts \in TargetLists : ts = d.targets
        BY <2>2, <3>2
      <4>2. old = [chain[c] EXCEPT !.targets = ts, !.primary = ts[1].model]
        BY <3>2, <4>1 DEF Replaced
      <4>3. old \in Row /\ old.targets = ts /\ old.primary = ts[1].model
        BY <2>3, <4>2, ListedModels DEF Row
      <4> HIDE DEF old
      <4> QED
        BY <2>2, <4>1, <4>3, ListedModels
    <3> QED
      BY <3>1, <3>2
  <2> HIDE DEF old
  <2>5. row \in Row /\ row.targets = old.targets /\ row.primary = old.primary
    BY <2>2, <2>4 DEF Row
  <2> HIDE DEF row, c
  <2> QED
    BY <1>1, <2>2, <2>4, <2>5
\* A chain goes with the bindings to it.
<1>4. ASSUME NEW c \in Chains, RemoveChain(c) PROVE CatalogueStep
  <2>1. /\ chain' = [chain EXCEPT ![c] = NoChain("gone")] /\ boundKey' = Unbind(BoundTo({c}))
        /\ ActorsTyped'
    BY <1>0, <1>4 DEF RemoveChain, ActorsTyped
  <2>2. \A d \in Chains : chain'[d] = IF d = c THEN NoChain("gone") ELSE chain[d]
    BY <1>0, <2>1 DEF RowsTyped
  <2>3. \A k \in BoundKeys :
          boundKey'[k] = IF boundKey[k].binding = c THEN [boundKey[k] EXCEPT !.binding = Unbound] ELSE boundKey[k]
    BY <2>1 DEF Unbind, BoundTo
  <2>4. \A k \in BoundKeys : boundKey'[k].binding # c /\ (boundKey'[k] = boundKey[k] \/ boundKey'[k].binding = Unbound)
    BY <1>0, <2>3, CatalogueAssumption DEF RowsTyped, KeyRow, CatalogueAssumption
  <2>5. RowsTyped'
    <3>1. chain' \in [Chains -> Row \cup NoRow]
      BY <1>0, <2>1 DEF RowsTyped, NoRow
    <3>2. ASSUME NEW k \in BoundKeys PROVE boundKey'[k] \in KeyRow
      <4>1. PICK row \in KeyRow : row = boundKey[k]
        BY <1>0 DEF RowsTyped
      <4>2. [row EXCEPT !.binding = Unbound] \in KeyRow
        BY DEF KeyRow, Bindings
      <4> QED
        BY <2>3, <4>1, <4>2
    <3>3. boundKey' = [k \in BoundKeys |-> boundKey'[k]]
      BY <2>1 DEF Unbind
    <3> QED
      BY <1>0, <3>1, <3>2, <3>3 DEF RowsTyped
  <2>6. ~ChainExists(c)'
    BY <2>2 DEF ChainExists, NoChain, Modes
  <2>7. \A d \in Chains : chain'[d] = chain[d] \/ ChainResolves(d)'
    BY <2>2, <2>6 DEF ChainResolves
  <2>8. \A k \in BoundKeys : boundKey'[k] = boundKey[k] \/ KeyResolves(k)'
    BY <2>4 DEF KeyResolves
  <2>9. \A d \in Chains : ChainExists(d) => ChainExists(d)' \/ \A k \in BoundKeys : boundKey'[k].binding # d
    BY <2>2, <2>4 DEF ChainExists
  <2> QED
    BY <1>0, <2>1, <2>5, <2>7, <2>8, <2>9, WritesKeep
<1> QED
  BY <1>2, <1>3, <1>4

LEMMA KeyWrites ==
  ASSUME CatalogueInv,
         \/ \E k \in BoundKeys : \/ \E type \in BoundTypes, target \in Bindings : AddKey(k, type, target)
                                 \/ DropKey(k)
         \/ \E e \in Edits : WriteKey(e)
  PROVE  CatalogueStep
<1> USE CatalogueParts
<1>0. RowsTyped /\ ActorsTyped /\ UNCHANGED <<backend, offer, applied, realModel, refresh, chain>>
  BY DEF AddKey, DropKey, WriteKey
<1>1. ASSUME NEW k \in BoundKeys, NEW row \in KeyRow, boundKey' = [boundKey EXCEPT ![k] = row], ActorsTyped',
             row.binding # Unbound => TargetExists(row.binding)
      PROVE  CatalogueStep
  <2>1. \A o \in BoundKeys : boundKey'[o] = IF o = k THEN row ELSE boundKey[o]
    BY <1>0, <1>1 DEF RowsTyped
  <2>2. RowsTyped'
    BY <1>0, <1>1 DEF RowsTyped
  <2>3. KeyResolves(k)'
    BY <1>0, <1>1, <2>1 DEF KeyResolves, TargetExists, ModelExists, ChainExists
  <2>4. \A c \in Chains : ChainExists(c)' = ChainExists(c)
    BY <1>0 DEF ChainExists
  <2> QED
    BY <1>0, <1>1, <2>1, <2>2, <2>3, <2>4, WritesKeep
<1>2. ASSUME NEW k \in BoundKeys, NEW type \in BoundTypes, NEW target \in Bindings, AddKey(k, type, target)
      PROVE  CatalogueStep
  <2> DEFINE row == [life |-> "live", type |-> type, binding |-> target]
  <2>1. row \in KeyRow /\ row.binding = target
    BY DEF KeyRow, Lifetime
  <2>2. boundKey' = [boundKey EXCEPT ![k] = row] /\ ActorsTyped' /\ (target # Unbound => TargetExists(target))
    BY <1>0, <1>2 DEF AddKey, ActorsTyped
  <2> HIDE DEF row
  <2> QED
    BY <1>1, <2>1, <2>2
<1>3. ASSUME NEW k \in BoundKeys, DropKey(k) PROVE CatalogueStep
  <2> DEFINE row == [NoKeyYet EXCEPT !.life = "gone"]
  <2>1. row \in KeyRow /\ row.binding = Unbound
    BY DEF KeyRow, Lifetime, NoKeyYet, BoundTypes, Bindings
  <2>2. boundKey' = [boundKey EXCEPT ![k] = row] /\ ActorsTyped'
    BY <1>0, <1>3 DEF DropKey, ActorsTyped
  <2> HIDE DEF row
  <2> QED
    BY <1>1, <2>1, <2>2
<1>4. ASSUME NEW e \in Edits, WriteKey(e) PROVE CatalogueStep
  <2>1. PICK d \in KeyEdit : d = edit[e]
    BY <1>0, <1>4 DEF WriteKey, ActorsTyped, TypeEdit, ChainEdit
  <2> DEFINE k == d.key
             old == boundKey[k]
             row == [old EXCEPT !.type = IF d.typeSet THEN d.type ELSE @,
                                !.binding = IF d.write THEN d.target ELSE @]
  <2>2. /\ k \in BoundKeys /\ d.type \in BoundTypes /\ d.target \in Bindings /\ (d.write => TargetExists(d.target))
        /\ boundKey' = [boundKey EXCEPT ![k] = row] /\ ActorsTyped'
    BY <1>0, <1>4, <2>1 DEF WriteKey, ActorsTyped, KeyEdit
  <2>3. old \in KeyRow /\ KeyResolves(k)
    BY <1>0, <2>2 DEF RowsTyped
  <2> HIDE DEF k
  <2>4. row \in KeyRow /\ row.binding = (IF d.write THEN d.target ELSE old.binding)
    <3> HIDE DEF old
    <3> QED
      BY <2>2, <2>3 DEF KeyRow
  <2>5. row.binding # Unbound => TargetExists(row.binding)
    <3> HIDE DEF row
    <3> QED
      BY <2>2, <2>3, <2>4 DEF KeyResolves
  <2> HIDE DEF row, old
  <2> QED
    BY <1>1, <2>2, <2>4, <2>5
<1> QED
  BY <1>2, <1>3, <1>4

\* What is left of a chain that uses a provider, when another target may serve.
LEMMA ChainOutlives ==
  ASSUME CatalogueInv, NEW p \in Backends, NEW c \in Chains, ChainExists(c), ~Terminal(c, p)
  PROVE  /\ Without(c, ModelsOf(p)) \in Row
         /\ ModelsIn(Without(c, ModelsOf(p)).targets) \subseteq TargetsOf(c) \ ModelsOf(p)
         /\ Without(c, ModelsOf(p)).primary \in ModelsIn(Without(c, ModelsOf(p)).targets)
         /\ \E n \in DOMAIN Without(c, ModelsOf(p)).targets :
              LET t == Without(c, ModelsOf(p)).targets[n] IN Eligible(t) /\ t.model \in RealModels \ ModelsOf(p)
<1> USE CatalogueParts
<1>1. chain[c] \in Row
  BY DEF RowsTyped, ChainExists, NoRow, NoChain, Modes
<1>2. PICK ts \in TargetLists : ts = chain[c].targets
  BY <1>1 DEF Row
<1>3. PICK i \in DOMAIN ts : Eligible(ts[i]) /\ BackendOf[ts[i].model] # p
  BY <1>2 DEF Terminal
<1>4. ts[i].model \notin ModelsOf(p)
  BY <1>3 DEF ModelsOf
<1> DEFINE rest == OthersOf(chain[c].targets, ModelsOf(p))
           may == {n \in DOMAIN rest : Eligible(rest[n])}
           least == CHOOSE n \in may : \A j \in may : n <= j
<1>5. /\ rest \in TargetLists
      /\ {rest[n] : n \in DOMAIN rest} = {ts[k] : k \in {j \in DOMAIN ts : ts[j].model \notin ModelsOf(p)}}
  <2>1. /\ OthersOf(ts, ModelsOf(p)) \in TargetLists
        /\ {OthersOf(ts, ModelsOf(p))[n] : n \in DOMAIN OthersOf(ts, ModelsOf(p))} =
             {ts[k] : k \in {j \in DOMAIN ts : ts[j].model \notin ModelsOf(p)}}
    BY <1>4, OthersAreKept
  <2> QED
    BY <1>2, <2>1
<1> HIDE DEF rest
<1>6. PICK n \in DOMAIN rest : rest[n] = ts[i]
  BY <1>4, <1>5
<1>7. n \in may /\ may \subseteq {1, 2}
  BY <1>3, <1>5, <1>6, TargetListFacts
<1>8. least \in may
  <2>1. \E m \in may : \A j \in may : m <= j
    <3> HIDE DEF may
    <3> QED
      BY <1>7
  <2> HIDE DEF may
  <2> QED
    BY <2>1
<1>9. Without(c, ModelsOf(p)) = [chain[c] EXCEPT !.targets = rest, !.primary = rest[least].model]
  BY <1>7 DEF Without, rest
<1> HIDE DEF least
<1>10. least \in DOMAIN rest
  BY <1>8
<1>11. rest[least].model \in ModelsIn(rest) /\ rest[least].model \in RealModels
  BY <1>5, <1>10, TargetListFacts DEF ModelsIn
<1>12. /\ Without(c, ModelsOf(p)) \in Row
       /\ Without(c, ModelsOf(p)).targets = rest
       /\ Without(c, ModelsOf(p)).primary = rest[least].model
  BY <1>1, <1>5, <1>9, <1>11 DEF Row
<1>13. ModelsIn(rest) \subseteq TargetsOf(c) \ ModelsOf(p)
  <2>1. \A k \in DOMAIN rest : \E j \in DOMAIN ts : rest[k] = ts[j] /\ ts[j].model \notin ModelsOf(p)
    BY <1>5
  <2> QED
    BY <1>2, <2>1 DEF ModelsIn, TargetsOf
<1>14. Eligible(rest[n]) /\ rest[n].model \in RealModels \ ModelsOf(p)
  BY <1>3, <1>4, <1>6, TargetListFacts
<1> QED
  BY <1>11, <1>12, <1>13, <1>14

\* A provider goes with its models, and nothing that is left names them.
LEMMA ProviderGoes ==
  ASSUME CatalogueInv, NEW p \in Backends, RemoveBackend(p)
  PROVE  CatalogueStep
<1> USE CatalogueParts
<1> DEFINE gone == ModelsOf(p)
           users == {c \in Chains : TargetsOf(c) \cap gone # {}}
<1>0. RowsTyped /\ ListsTyped /\ ActorsTyped
  OBVIOUS
<1>1. /\ BackendLives(p) /\ \A c \in users : ~Terminal(c, p)
      /\ backend' = [backend EXCEPT ![p] = "gone"]
      /\ realModel' = [m \in RealModels |-> IF m \in gone THEN "absent" ELSE realModel[m]]
      /\ chain' = [c \in Chains |-> IF c \in users THEN Without(c, gone) ELSE chain[c]]
      /\ boundKey' = Unbind(BoundTo(gone))
      /\ UNCHANGED <<offer, applied, refresh, edit>>
  BY DEF RemoveBackend
<1>2. \A q \in Backends : backend'[q] = IF q = p THEN "gone" ELSE backend[q]
  BY <1>0, <1>1 DEF RowsTyped
<1>3. \A m \in RealModels : ModelExists(m)' <=> ModelExists(m) /\ m \notin gone
  BY <1>1 DEF ModelExists
<1>4. gone \subseteq RealModels /\ \A m \in RealModels : m \in gone <=> BackendOf[m] = p
  BY DEF ModelsOf
<1>5. ASSUME NEW c \in users PROVE ChainExists(c)
  <2>1. chain[c] \in Row \cup NoRow
    BY <1>0 DEF RowsTyped
  <2>2. chain[c] \notin NoRow
    BY DEF NoRow, NoChain, TargetsOf
  <2> QED
    BY <2>1, <2>2 DEF Row, ChainExists
<1>6. ASSUME NEW c \in users
      PROVE  /\ chain'[c] \in Row /\ ModelsIn(chain'[c].targets) \subseteq TargetsOf(c) \ gone
             /\ chain'[c].primary \in ModelsIn(chain'[c].targets)
             /\ \E n \in DOMAIN chain'[c].targets :
                  Eligible(chain'[c].targets[n]) /\ chain'[c].targets[n].model \in RealModels \ gone
  <2>1. chain'[c] = Without(c, gone) /\ ~Terminal(c, p) /\ ChainExists(c)
    BY <1>1, <1>5
  <2> QED
    BY <2>1, ChainOutlives
<1>7. \A c \in Chains \ users : chain'[c] = chain[c] /\ TargetsOf(c) \cap gone = {}
  BY <1>1
<1> HIDE DEF gone, users
<1>8. \A k \in BoundKeys :
        boundKey'[k] = IF boundKey[k].binding \in gone THEN [boundKey[k] EXCEPT !.binding = Unbound] ELSE boundKey[k]
  BY <1>1 DEF Unbind, BoundTo
<1>9. RowsTyped'
  <2>1. backend' \in [Backends -> BackendStates] /\ realModel' \in [RealModels -> ModelStates]
    BY <1>0, <1>1 DEF RowsTyped, BackendStates, ModelStates
  <2>2. chain' \in [Chains -> Row \cup NoRow]
    <3>1. \A c \in Chains : chain'[c] \in Row \cup NoRow
      BY <1>0, <1>6, <1>7 DEF RowsTyped
    <3>2. chain' = [c \in Chains |-> chain'[c]]
      BY <1>1
    <3> QED
      BY <3>1, <3>2
  <2>3. boundKey' \in [BoundKeys -> KeyRow]
    <3>1. ASSUME NEW k \in BoundKeys PROVE boundKey'[k] \in KeyRow
      <4>1. PICK row \in KeyRow : row = boundKey[k]
        BY <1>0 DEF RowsTyped
      <4>2. [row EXCEPT !.binding = Unbound] \in KeyRow
        BY DEF KeyRow, Bindings
      <4> QED
        BY <1>8, <4>1, <4>2
    <3>2. boundKey' = [k \in BoundKeys |-> boundKey'[k]]
      BY <1>1 DEF Unbind
    <3> QED
      BY <3>1, <3>2
  <2> QED
    BY <2>1, <2>2, <2>3 DEF RowsTyped
<1>10. ActorsTyped' /\ ListsTyped'
  BY <1>0, <1>1 DEF ActorsTyped, ListsTyped
<1>11. RefreshesInv'
  BY <1>1, <1>2, RefreshesKept
<1>12. ASSUME NEW c \in Chains PROVE ChainResolves(c)'
  <2>1. CASE c \in users
    <3>1. TargetsOf(c)' = ModelsIn(chain'[c].targets)
      BY DEF TargetsOf, ModelsIn
    <3>2. \A m \in TargetsOf(c) : m \in RealModels /\ ModelExists(m)
      <4>1. chain[c] \in Row
        BY <1>0, <1>5, <2>1 DEF RowsTyped, ChainExists, NoRow, NoChain, Modes
      <4>2. TargetsOf(c) \subseteq RealModels
        BY <4>1, ListedModels DEF Row, TargetsOf, ModelsIn
      <4>3. ChainResolves(c)
        OBVIOUS
      <4> QED
        BY <1>5, <2>1, <4>2, <4>3 DEF ChainResolves
    <3> QED
      BY <1>3, <1>6, <2>1, <3>1, <3>2 DEF ChainResolves
  <2>2. CASE c \notin users
    <3>1. ChainResolves(c) /\ TargetsOf(c)' = TargetsOf(c) /\ ChainExists(c)' = ChainExists(c)
      BY <1>7, <2>2 DEF TargetsOf, ChainExists
    <3>2. ChainExists(c) => TargetsOf(c) \subseteq RealModels
      <4>1. ChainExists(c) => chain[c] \in Row
        BY <1>0 DEF RowsTyped, ChainExists, NoRow, NoChain, Modes
      <4> QED
        BY <4>1, ListedModels DEF Row, TargetsOf, ModelsIn
    <3> QED
      BY <1>3, <1>7, <2>2, <3>1, <3>2 DEF ChainResolves
  <2> QED
    BY <2>1, <2>2
<1>13. ASSUME NEW k \in BoundKeys PROVE KeyResolves(k)'
  <2>1. CASE boundKey[k].binding \in gone
    <3>1. boundKey'[k].binding = Unbound
      BY <1>0, <1>8, <2>1 DEF RowsTyped, KeyRow
    <3> QED
      BY <3>1 DEF KeyResolves
  <2>2. CASE boundKey[k].binding \notin gone
    <3>1. boundKey'[k] = boundKey[k] /\ KeyResolves(k)
      BY <1>8, <2>2
    <3>2. \A c \in Chains : ChainExists(c) => ChainExists(c)'
      BY <1>6, <1>7 DEF ChainExists, Row
    <3> QED
      BY <1>3, <2>2, <3>1, <3>2 DEF KeyResolves, TargetExists
  <2> QED
    BY <2>1, <2>2
<1>14. \A m \in RealModels : ModelResolves(m)'
  BY <1>2, <1>3, <1>4, CatalogueAssumption DEF ModelResolves, BackendLives, CatalogueAssumption
<1>15. ShowsOneListing'
  <2>1. \A m \in RealModels : BackendLives(BackendOf[m])' => (realModel'[m] = "listed" <=> realModel[m] = "listed")
    <3>1. \A m \in gone : ~BackendLives(BackendOf[m])'
      BY <1>2, <1>4 DEF BackendLives
    <3>2. \A m \in RealModels \ gone : realModel'[m] = realModel[m]
      BY <1>1
    <3> QED
      BY <3>1, <3>2
  <2>2. \A q \in Backends : BackendLives(q)' => BackendLives(q)
    BY <1>2 DEF BackendLives
  <2> QED
    BY <1>1, <2>1, <2>2, ShowsKept
<1>16. CatalogueAssembled
  BY <1>9, <1>10, <1>11, <1>12, <1>13, <1>14, <1>15 DEF CatalogueAssembled
<1>17. ASSUME NEW q \in Backends, NEW c \in Chains,
              BackendLives(q), backend'[q] = "gone", TargetsOf(c) \cap ModelsOf(q) # {}
       PROVE  Serves(c)'
  <2>1. q = p
    BY <1>2, <1>17 DEF BackendLives
  <2>2. c \in users
    BY <1>17, <2>1 DEF users, gone
  <2>3. PICK n \in DOMAIN chain'[c].targets :
          Eligible(chain'[c].targets[n]) /\ chain'[c].targets[n].model \in RealModels \ gone
    BY <1>6, <2>2
  <2>4. PICK t : t = chain'[c].targets[n]
    OBVIOUS
  <2>5. realModel'[t.model] = realModel[t.model] /\ backend'[BackendOf[t.model]] = backend[BackendOf[t.model]]
    BY <1>1, <1>2, <1>4, <2>3, <2>4, CatalogueAssumption DEF CatalogueAssumption
  <2>6. Eligible(t)'
    BY <2>3, <2>4, <2>5 DEF Eligible
  <2> QED
    BY <2>3, <2>4, <2>6 DEF Serves
<1>18. \A q \in Backends : applied[q] <= applied'[q]
  BY <1>1, NeverLater
<1> QED
  BY <1>16, <1>17, <1>18, CatalogueAssembles DEF CatalogueStep

LEMMA CatalogueMoves ==
  ASSUME CatalogueInv, [CatalogueNext]_catalogueVars
  PROVE  CatalogueStep
<1>1. CASE BackendSteps
  BY <1>1, RefreshSteps, RowSteps, ProviderGoes DEF BackendSteps
<1>2. CASE ChainSteps
  BY <1>2, ChainWrites, EditSteps DEF ChainSteps
<1>3. CASE BindingSteps
  BY <1>3, KeyWrites, EditSteps DEF BindingSteps
<1>4. CASE UNCHANGED catalogueVars
  <2>1. UNCHANGED <<backend, offer, applied, realModel, refresh, chain, boundKey, edit>>
    BY <1>4 DEF catalogueVars
  <2>2. RowsTyped' /\ ActorsTyped'
    BY <2>1, CatalogueParts DEF RowsTyped, ActorsTyped
  <2>3. \A c \in Chains : ChainExists(c) => ChainExists(c)'
    BY <2>1 DEF ChainExists
  <2> QED
    BY <2>1, <2>2, <2>3, WritesKeep
<1> QED
  BY <1>1, <1>2, <1>3, <1>4 DEF CatalogueNext

LEMMA CatalogueStart == CatalogueInit => CatalogueInv
<1> SUFFICES ASSUME CatalogueInit PROVE CatalogueInv
  OBVIOUS
<1> USE DEF CatalogueInit
<1>1. RowsTyped
  BY DEF RowsTyped, BackendStates, ModelStates, NoRow, KeyRow, NoKeyYet, Lifetime, BoundTypes, Bindings
<1>2. ActorsTyped
  BY DEF ActorsTyped, RefreshRow
<1>3. ListsTyped
  <2>1. \A p \in Backends : 1 \in DOMAIN Listings[p]
    <3>1. ASSUME NEW p \in Backends PROVE 1 \in DOMAIN Listings[p]
      <4>1. Listings[p] \in Seq(SUBSET RealModels) /\ Listings[p] # <<>>
        BY CatalogueAssumption DEF CatalogueAssumption
      <4> QED
        BY <4>1
    <3> QED
      BY <3>1
  <2> QED
    BY <2>1 DEF ListsTyped
<1>4. \A c \in Chains : ChainResolves(c)
  BY DEF ChainResolves, ChainExists, NoChain, Modes
<1>5. \A k \in BoundKeys : KeyResolves(k)
  BY DEF KeyResolves, NoKeyYet
<1>6. (\A m \in RealModels : ModelResolves(m)) /\ ShowsOneListing
  BY DEF ModelResolves, ModelExists, ShowsOneListing, BackendLives
<1>7. RefreshesInv
  BY DEF RefreshesInv, NoRefresh, Holds
<1> QED
  BY <1>1, <1>2, <1>3, <1>4, <1>5, <1>6, <1>7, CatalogueParts

\* For any providers, models, chains, refreshes and edits at once: nothing names a
\* row that is not there, a provider shows exactly one of its answers and never an
\* older one again, and deleting it leaves every chain that used it serving.
THEOREM CatalogueIsSound == CatalogueSpec => CatalogueHolds
<1>1. CatalogueInv => CatalogueTypeOK /\ ReferencesResolve /\ ShowsOneListing
  BY DEF CatalogueInv
<1>2. CatalogueInv /\ [CatalogueNext]_catalogueVars => CatalogueInv'
  BY CatalogueMoves DEF CatalogueStep
<1>3. CatalogueInv /\ [CatalogueNext]_catalogueVars =>
        [\A p \in Backends : applied[p] <= applied'[p]]_catalogueVars
  BY CatalogueMoves DEF CatalogueStep
<1>4. CatalogueInv /\ [CatalogueNext]_catalogueVars =>
        [\A p \in Backends, c \in Chains :
           (BackendLives(p) /\ backend'[p] = "gone" /\ TargetsOf(c) \cap ModelsOf(p) # {})
             => Serves(c)']_catalogueVars
  BY CatalogueMoves DEF CatalogueStep
<1> QED
  BY <1>1, <1>2, <1>3, <1>4, CatalogueStart, PTL
     DEF CatalogueSpec, CatalogueHolds, CatalogueNeverGoesBack, DeletionLeavesChainsServing

-----------------------------------------------------------------------------
USE SelectorAssumption DEF SelectorAssumption

(***************************************************************************)
(* The reasoning selector.  Every body that is mapped is written over a    *)
(* blank one: a translated body carries no controls, and the client's own  *)
(* body is blank or stripped first.  What is left is one lemma for each    *)
(* protocol's writer.                                                      *)
(***************************************************************************)
Words == {"", "none", "low", "high", "on", "off", "adaptive"}
TokenBudgets == 0..TopBudget \cup {Unset}

WishTyped(w) ==
  /\ w.from \in {"chat", "responses", "messages"} /\ w.to \in {"chat", "responses", "messages"}
  /\ w.asked \in [effort : Words, nested : Words, switch : Words, budget : TokenBudgets]
  /\ w.caps.known \in BOOLEAN
  /\ MinsOf(w.caps) \subseteq 0..TopBudget

(* The options that are enumerated have budgets of the model.              *)
LEMMA OptionListsTyped ==
  \A o \in OptionLists : \A i \in DOMAIN o : o[i].min \in TokenBudgets
<1> DEFINE Effort == {EffortOption({}), EffortOption({"high"}), EffortOption({"none", "high"})}
           Budget == {BudgetOption(Unset, Unset), BudgetOption(Floor + 1, Unset), BudgetOption(Unset, Floor),
                      BudgetOption(Floor + 1, TopBudget), BudgetOption(Floor, Floor)}
           All == Effort \cup Budget \cup {ToggleOption}
<1>1. \A r \in All : r.min \in TokenBudgets
  BY DEF EffortOption, BudgetOption, ToggleOption, TokenBudgets
<1>2. /\ EffortOption({}) \in All /\ EffortOption({"high"}) \in All /\ EffortOption({"none", "high"}) \in All
      /\ BudgetOption(Unset, Unset) \in All /\ BudgetOption(Floor + 1, Unset) \in All
      /\ BudgetOption(Unset, Floor) \in All /\ BudgetOption(Floor + 1, TopBudget) \in All
      /\ BudgetOption(Floor, Floor) \in All /\ ToggleOption \in All
  OBVIOUS
<1> HIDE DEF All
<1>3. ASSUME NEW o \in OptionLists PROVE o \in Seq(All)
  <2>1. \A e \in EffortLists :
          \/ e = <<>> \/ e = <<EffortOption({})>> \/ e = <<EffortOption({"high"})>>
          \/ e = <<EffortOption({"none", "high"})>>
          \/ e = <<EffortOption({"none", "high"}), EffortOption({"high"})>>
    BY DEF EffortLists
  <2>2. \A b \in BudgetLists :
          \/ b = <<>> \/ b = <<BudgetOption(Unset, Unset)>> \/ b = <<BudgetOption(Floor + 1, Unset)>>
          \/ b = <<BudgetOption(Unset, Floor)>>
          \/ b = <<BudgetOption(Floor + 1, TopBudget), BudgetOption(Floor, Floor)>>
    BY DEF BudgetLists
  <2>3. \A t \in ToggleLists : t = <<>> \/ t = <<ToggleOption>> BY DEF ToggleLists
  <2>4. PICK e \in EffortLists, b \in BudgetLists, t \in ToggleLists : o = e \o b \o t BY DEF OptionLists
  <2>5. e \in Seq(All)
    <3>1. /\ <<>> \in Seq(All) /\ <<EffortOption({})>> \in Seq(All) /\ <<EffortOption({"high"})>> \in Seq(All)
          /\ <<EffortOption({"none", "high"})>> \in Seq(All)
      BY <1>2
    <3>2. <<EffortOption({"none", "high"}), EffortOption({"high"})>> \in Seq(All) BY <1>2
    <3> QED BY <2>1, <3>1, <3>2, Zenon
  <2>6. b \in Seq(All)
    <3>1. /\ <<>> \in Seq(All) /\ <<BudgetOption(Unset, Unset)>> \in Seq(All)
          /\ <<BudgetOption(Floor + 1, Unset)>> \in Seq(All) /\ <<BudgetOption(Unset, Floor)>> \in Seq(All)
      BY <1>2
    <3>2. <<BudgetOption(Floor + 1, TopBudget), BudgetOption(Floor, Floor)>> \in Seq(All) BY <1>2
    <3> QED BY <2>2, <3>1, <3>2, Zenon
  <2>7. t \in Seq(All)
    <3>1. <<>> \in Seq(All) /\ <<ToggleOption>> \in Seq(All) BY <1>2
    <3> QED BY <2>3, <3>1, Zenon
  <2> QED BY <2>4, <2>5, <2>6, <2>7
<1>4. \A q \in Seq(All) : \A i \in DOMAIN q : q[i] \in All OBVIOUS
<1> QED BY <1>1, <1>3, <1>4

LEMMA CapabilitiesTyped ==
  \A to : \A caps \in CapabilitiesOf(to) : caps.known \in BOOLEAN /\ MinsOf(caps) \subseteq 0..TopBudget
<1> SUFFICES ASSUME NEW to, NEW caps \in CapabilitiesOf(to)
    PROVE caps.known \in BOOLEAN /\ MinsOf(caps) \subseteq 0..TopBudget
  OBVIOUS
<1>1. caps.known \in BOOLEAN /\ (caps.options = <<>> \/ caps.options \in OptionLists)
  <2>1. CASE caps = Unknown BY <2>1 DEF Unknown
  <2>2. CASE caps # Unknown BY <2>2 DEF CapabilitiesOf
  <2> QED BY <2>1, <2>2
<1>2. \A i \in DOMAIN caps.options : caps.options[i].min \in TokenBudgets
  BY <1>1, OptionListsTyped
<1> QED BY <1>1, <1>2 DEF MinsOf, OptionsOf, TokenBudgets

LEMMA WishesTyped ==
  \A from \in {"chat", "responses", "messages"} : \A wanted \in WishesOf(from) :
    wanted \in [effort : Words, nested : Words, switch : Words, budget : TokenBudgets]
<1>1. /\ 1 \in TokenBudgets /\ TopBudget \in TokenBudgets /\ Unset \in TokenBudgets
  BY DEF TokenBudgets
<1> QED BY <1>1 DEF WishesOf, ChatWishes, ResponsesWishes, MessagesWishes, Words

LEMMA BlankFields ==
  ASSUME NEW body, body = NoWish
  PROVE body.effort = "" /\ body.nested = "" /\ body.switch = "" /\ body.budget = Unset
BY DEF NoWish

LEMMA OffFields ==
  ASSUME NEW body, body = [NoWish EXCEPT !.switch = "off"]
  PROVE body.effort = "" /\ body.nested = "" /\ body.switch = "off" /\ body.budget = Unset
BY DEF NoWish

Fields == {"effort", "nested", "switch", "budget"}

(* An explicit disable is written as such or not at all.                   *)
Off(body) ==
  /\ body.effort \in {"", "none"} /\ body.nested = "" /\ body.switch \in {"", "off"} /\ body.budget = Unset

(* Chat and Responses bodies that ask only for what is offered.            *)
Legal(body, caps) ==
  /\ body.nested = ""
  /\ caps.known =>
       /\ body.effort # "" => EffortSupported(Extracted(caps), body.effort)
       /\ body.switch # "" => Extracted(caps).toggle
       /\ body.budget # Unset => BudgetSupported(Extracted(caps), body.budget)

(* Messages bodies that do, with a budget just where thinking is on.       *)
LegalThinking(body, caps, cap) ==
  /\ body.nested = ""
  /\ body.switch = "on" <=> body.budget # Unset
  /\ body.budget # Unset => body.budget < cap
  /\ caps.known =>
       /\ body.effort # "" => EffortSupported(Extracted(caps), body.effort)
       /\ body.switch = "adaptive" => Extracted(caps).adaptive
       /\ body.switch = "off" => Extracted(caps).disable
       /\ body.switch = "on" => Extracted(caps).enabled \/ Extracted(caps).toggle \/ Extracted(caps).budget

(* A disable written over a blank body asks for nothing else, and only for *)
(* what the model offers.                                                  *)
LEMMA DisableWrites ==
  ASSUME NEW caps, caps.known \in BOOLEAN
  PROVE Off(DisableByEffort(NoWish, caps)) /\ Legal(DisableByEffort(NoWish, caps), caps)
BY DEF DisableByEffort, NoWish, Off, EffortPasses, Legal

(* An effort is added where it passes, and nothing else is touched.        *)
LEMMA EffortWrites ==
  ASSUME NEW body, DOMAIN body = Fields, NEW sel, NEW caps
  PROVE /\ WithEffort(body, sel, caps).nested = body.nested
        /\ WithEffort(body, sel, caps).switch = body.switch
        /\ WithEffort(body, sel, caps).budget = body.budget
        /\ \/ WithEffort(body, sel, caps).effort = body.effort
           \/ EffortPasses(caps, WithEffort(body, sel, caps).effort)
BY DEF WithEffort, Fields

LEMMA ChatWrites ==
  ASSUME NEW caps, caps.known \in BOOLEAN, NEW sel
  PROVE /\ Disabled(sel) => Off(ChatControls(NoWish, sel, caps))
        /\ Legal(ChatControls(NoWish, sel, caps), caps)
<1>1. CASE Disabled(sel)
  <2>1. ChatControls(NoWish, sel, caps) = DisableByEffort(NoWish, caps) BY <1>1 DEF ChatControls
  <2> QED BY <2>1, DisableWrites
<1>2. CASE ~Disabled(sel)
  <2> DEFINE t == TurnOnChat(NoWish, sel, caps)
             b == WithEffort(t, sel, caps)
  <2>1. /\ DOMAIN t = Fields
        /\ t.nested = "" /\ t.budget = Unset
        /\ caps.known => /\ t.effort # "" => EffortSupported(Extracted(caps), t.effort)
                         /\ t.switch # "" => Extracted(caps).toggle
    BY DEF TurnOnChat, NoWish, DefaultEffortServes, Fields
  <2> HIDE DEF t
  <2>2. /\ DOMAIN b = Fields
        /\ b.nested = "" /\ b.switch = t.switch /\ b.budget = Unset
        /\ caps.known => (b.effort # "" => EffortSupported(Extracted(caps), b.effort))
    BY <2>1 DEF WithEffort, EffortPasses, Fields
  <2> HIDE DEF b
  <2>3. ChatControls(NoWish, sel, caps) =
          IF sel.budget # Unset /\ BudgetPasses(caps, sel.budget) THEN [b EXCEPT !.budget = sel.budget] ELSE b
    BY <1>2 DEF ChatControls, b, t
  <2> QED BY <1>2, <2>1, <2>2, <2>3 DEF BudgetPasses, Fields, Legal
<1> QED BY <1>1, <1>2

LEMMA ResponsesWrites ==
  ASSUME NEW caps, caps.known \in BOOLEAN, NEW sel
  PROVE /\ Disabled(sel) => Off(ResponsesControls(NoWish, sel, caps))
        /\ Legal(ResponsesControls(NoWish, sel, caps), caps)
<1>1. CASE Disabled(sel)
  <2>1. ResponsesControls(NoWish, sel, caps) = DisableByEffort(NoWish, caps) BY <1>1 DEF ResponsesControls
  <2> QED BY <2>1, DisableWrites
<1>2. CASE ~Disabled(sel) BY <1>2 DEF ResponsesControls, WithEffort, EffortPasses, NoWish, Legal
<1> QED BY <1>1, <1>2

(* The least of the advertised minima is one of them.                      *)
LEMMA LeastMin == \A S \in SUBSET Nat : S # {} => Min(S) \in S
<1> SUFFICES ASSUME NEW S \in SUBSET Nat, S # {} PROVE \E m \in S : \A y \in S : m =< y
  BY DEF Min
<1> DEFINE R == OpToRel(<, Nat)
<1>1. IsWellFoundedOn(R, Nat) BY NatLessThanWellFounded, Zenon
<1>2. R = {ss \in Nat \X Nat : ss[1] < ss[2]} BY Zenon DEF OpToRel
<1> HIDE DEF R
<1>3. PICK m \in S : \A y \in S : <<y, m>> \notin R BY <1>1, WFMin, Zenon
<1>4. \A x \in Nat, y \in Nat : x < y => <<x, y>> \in R BY <1>2
<1>5. m \in Nat /\ \A y \in S : y \in Nat /\ ~(y < m) BY <1>3, <1>4
<1> QED BY <1>5

LEMMA DefaultBudgetIsSet ==
  ASSUME NEW caps, MinsOf(caps) \subseteq 0..TopBudget
  PROVE DefaultBudget(Extracted(caps)) \in 0..TopBudget
<1>1. MinsOf(caps) # {} => Min(MinsOf(caps)) \in MinsOf(caps) BY LeastMin
<1> QED BY <1>1 DEF DefaultBudget, Extracted

LEMMA MessagesWrites ==
  ASSUME NEW caps, caps.known \in BOOLEAN, MinsOf(caps) \subseteq 0..TopBudget, NEW sel, NEW cap
  PROVE /\ Disabled(sel) => Off(MessagesControls(NoWish, sel, caps, cap))
        /\ LegalThinking(MessagesControls(NoWish, sel, caps, cap), caps, cap)
<1> DEFINE opts == Extracted(caps)
           budget == IF sel.budget # Unset THEN sel.budget ELSE DefaultBudget(opts)
           bounded == opts.enabled \/ opts.toggle \/ opts.budget \/ ~caps.known
           r == MessagesControls(NoWish, sel, caps, cap)
<1>1. budget # Unset BY DefaultBudgetIsSet
<1> HIDE DEF budget, opts
<1>2. \/ /\ Disabled(sel)
         /\ r = IF opts.disable \/ ~caps.known THEN [NoWish EXCEPT !.switch = "off"] ELSE NoWish
      \/ /\ ~Disabled(sel) /\ bounded
         /\ r = IF BudgetFits(budget, cap)
                THEN WithEffort([NoWish EXCEPT !.switch = "on", !.budget = budget], sel, caps) ELSE NoWish
      \/ /\ ~Disabled(sel) /\ (opts.adaptive \/ ~caps.known)
         /\ r = WithEffort([NoWish EXCEPT !.switch = "adaptive"], sel, caps)
      \/ /\ ~Disabled(sel)
         /\ r = WithEffort(NoWish, sel, caps)
  BY DEF MessagesControls, opts, budget
<1> SUFFICES (Disabled(sel) => Off(r)) /\ LegalThinking(r, caps, cap) OBVIOUS
<1> HIDE DEF r
<1>3. CASE Disabled(sel)
  <2>1. CASE r = NoWish
    <3>1. r.effort = "" /\ r.nested = "" /\ r.switch = "" /\ r.budget = Unset BY <2>1, BlankFields
    <3> QED BY <3>1 DEF Off, LegalThinking
  <2>2. CASE (opts.disable \/ ~caps.known) /\ r = [NoWish EXCEPT !.switch = "off"]
    <3>1. r.effort = "" /\ r.nested = "" /\ r.switch = "off" /\ r.budget = Unset BY <2>2, OffFields
    <3> QED BY <2>2, <3>1 DEF Off, LegalThinking, opts
  <2> QED BY <1>2, <1>3, <2>1, <2>2
<1>4. CASE ~Disabled(sel)
  <2> DEFINE on == [NoWish EXCEPT !.switch = "on", !.budget = budget]
             adaptive == [NoWish EXCEPT !.switch = "adaptive"]
  <2>1. /\ DOMAIN on = Fields /\ DOMAIN adaptive = Fields /\ DOMAIN NoWish = Fields
        /\ on.effort = "" /\ on.nested = "" /\ on.switch = "on" /\ on.budget = budget
        /\ adaptive.effort = "" /\ adaptive.nested = "" /\ adaptive.switch = "adaptive" /\ adaptive.budget = Unset
        /\ NoWish.effort = "" /\ NoWish.nested = "" /\ NoWish.switch = "" /\ NoWish.budget = Unset
    BY DEF NoWish, Fields
  <2> HIDE DEF on, adaptive
  <2>2. CASE r = NoWish BY <1>4, <2>1, <2>2 DEF LegalThinking
  <2>3. CASE bounded /\ BudgetFits(budget, cap) /\ r = WithEffort(on, sel, caps)
    <3>1. r.nested = "" /\ r.switch = "on" /\ r.budget = budget /\ (r.effort = "" \/ EffortPasses(caps, r.effort))
      <4>0. DOMAIN on = Fields BY <2>1
      <4> DEFINE w == WithEffort(on, sel, caps)
      <4>2. /\ w.nested = on.nested /\ w.switch = on.switch /\ w.budget = on.budget
            /\ w.effort = on.effort \/ EffortPasses(caps, w.effort)
        BY <4>0, EffortWrites
      <4>3. r = w BY <2>3
      <4> HIDE DEF w
      <4>1. /\ r.nested = on.nested /\ r.switch = on.switch /\ r.budget = on.budget
            /\ r.effort = on.effort \/ EffortPasses(caps, r.effort)
        BY <4>2, <4>3
      <4> QED BY <2>1, <4>1
    <3>2. caps.known => (r.effort # "" => EffortSupported(Extracted(caps), r.effort)) BY <3>1 DEF EffortPasses
    <3> QED BY <1>1, <1>4, <2>3, <3>1, <3>2 DEF LegalThinking, BudgetFits, opts
  <2>4. CASE (opts.adaptive \/ ~caps.known) /\ r = WithEffort(adaptive, sel, caps)
    <3>1. r.nested = "" /\ r.switch = "adaptive" /\ r.budget = Unset
          /\ (r.effort = "" \/ EffortPasses(caps, r.effort))
      <4>0. DOMAIN adaptive = Fields BY <2>1
      <4> DEFINE w == WithEffort(adaptive, sel, caps)
      <4>2. /\ w.nested = adaptive.nested /\ w.switch = adaptive.switch /\ w.budget = adaptive.budget
            /\ w.effort = adaptive.effort \/ EffortPasses(caps, w.effort)
        BY <4>0, EffortWrites
      <4>3. r = w BY <2>4
      <4> HIDE DEF w
      <4>1. /\ r.nested = adaptive.nested /\ r.switch = adaptive.switch /\ r.budget = adaptive.budget
            /\ r.effort = adaptive.effort \/ EffortPasses(caps, r.effort)
        BY <4>2, <4>3
      <4> QED BY <2>1, <4>1
    <3>2. caps.known => (r.effort # "" => EffortSupported(Extracted(caps), r.effort)) BY <3>1 DEF EffortPasses
    <3> QED BY <1>4, <2>4, <3>1, <3>2 DEF LegalThinking, opts
  <2>5. CASE r = WithEffort(NoWish, sel, caps)
    <3>1. r.nested = "" /\ r.switch = "" /\ r.budget = Unset /\ (r.effort = "" \/ EffortPasses(caps, r.effort))
      <4>0. DOMAIN NoWish = Fields BY <2>1
      <4> DEFINE w == WithEffort(NoWish, sel, caps)
      <4>2. /\ w.nested = NoWish.nested /\ w.switch = NoWish.switch /\ w.budget = NoWish.budget
            /\ w.effort = NoWish.effort \/ EffortPasses(caps, w.effort)
        BY <4>0, EffortWrites
      <4>3. r = w BY <2>5
      <4> HIDE DEF w
      <4>1. /\ r.nested = NoWish.nested /\ r.switch = NoWish.switch /\ r.budget = NoWish.budget
            /\ r.effort = NoWish.effort \/ EffortPasses(caps, r.effort)
        BY <4>2, <4>3
      <4> QED BY <2>1, <4>1
    <3>2. caps.known => (r.effort # "" => EffortSupported(Extracted(caps), r.effort)) BY <3>1 DEF EffortPasses
    <3> QED BY <1>4, <3>1, <3>2 DEF LegalThinking
  <2> QED BY <1>2, <1>4, <2>2, <2>3, <2>4, <2>5 DEF on, adaptive
<1> QED BY <1>3, <1>4

(* What is sent to a target is written over a blank body.                  *)
LEMMA MappedIsWritten ==
  ASSUME NEW w, WishTyped(w), w.from # w.to \/ w.to = "chat"
  PROVE LET sel == Selector(w.asked)
        IN /\ \/ SentFor(w) = NoWish
              \/ SentFor(w) = Controls(NoWish, sel, w)
              \/ ~sel.present /\ w.to = "chat" /\ SentFor(w) = DisableByEffort(NoWish, w.caps)
<1> DEFINE sel == Selector(w.asked)
<1>1. \A to : StrippedBody(NoWish, to) = NoWish BY DEF StrippedBody, NoWish
<1>2. StrippedBody(w.asked, "chat") = NoWish BY DEF StrippedBody, NoWish, WishTyped
<1>3. ~sel.present => w.asked = NoWish BY DEF Selector
<1>4. w.caps.known \in BOOLEAN BY DEF WishTyped
<1>5. sel.present \in BOOLEAN BY DEF Selector
<1> HIDE DEF sel
<1>6. \A body : StrippedBody(body, w.to) = NoWish /\ (~w.caps.known \/ ~sel.present => body = NoWish) =>
        ApplySelector(body, sel, w) \in {NoWish, Controls(NoWish, sel, w)}
  BY <1>4, <1>5 DEF ApplySelector
<1>7. CASE w.from # w.to
  <2>1. SentFor(w) = ApplySelector(NoWish, sel, w) BY <1>7 DEF SentFor, sel
  <2> QED BY <1>1, <1>6, <2>1 DEF sel
<1>8. CASE w.from = w.to /\ sel.present
  <2>1. SentFor(w) = IF w.caps.known THEN ApplySelector(w.asked, sel, w) ELSE StrippedBody(w.asked, w.to)
    BY <1>8 DEF SentFor, sel
  <2> QED BY <1>2, <1>6, <1>8, <2>1 DEF sel
<1>9. CASE w.from = w.to /\ ~sel.present
  <2>1. SentFor(w) = InjectDisable(NoWish, w.caps) BY <1>3, <1>9 DEF SentFor, sel
  <2> QED BY <1>9, <2>1 DEF InjectDisable, sel
<1> QED BY <1>5, <1>7, <1>8, <1>9

SelectorInvariant == WishTyped(wish) /\ (sent = Undecided \/ sent = SentFor(wish))

(* Every reachable decision keeps what the selector promises.              *)
LEMMA DecisionHolds == SelectorInvariant => SelectorHolds
<1> SUFFICES ASSUME WishTyped(wish), sent = SentFor(wish), Mapped PROVE SelectorHolds
  BY DEF SelectorInvariant, SelectorHolds, DisableWins, OnlyAdvertised, ThinkingLeavesRoom, Decided
<1> DEFINE sel == Selector(wish.asked)
<1>0. wish.caps.known \in BOOLEAN /\ MinsOf(wish.caps) \subseteq 0..TopBudget
      /\ wish.to \in {"chat", "responses", "messages"}
  BY DEF WishTyped
<1>1. AskedOff => Disabled(sel) /\ sel.present
  <2>1. wish.asked = NoWish => wish.asked.effort = "" /\ wish.asked.switch = "" BY BlankFields
  <2> QED BY <2>1 DEF AskedOff, Selector, Disabled
<1>2. \/ sent = NoWish
      \/ sent = Controls(NoWish, sel, wish)
      \/ ~sel.present /\ wish.to = "chat" /\ sent = DisableByEffort(NoWish, wish.caps)
  BY MappedIsWritten DEF Mapped
<1>3. CASE sent = NoWish
  <2>1. sent.effort = "" /\ sent.nested = "" /\ sent.switch = "" /\ sent.budget = Unset BY <1>3, BlankFields
  <2> QED BY <2>1 DEF SelectorHolds, DisableWins, OnlyAdvertised, ThinkingLeavesRoom, Positive
<1>4. CASE ~sel.present /\ wish.to = "chat" /\ sent = DisableByEffort(NoWish, wish.caps)
  <2>1. Off(sent) /\ Legal(sent, wish.caps) BY <1>0, <1>4, DisableWrites
  <2> QED BY <1>4, <2>1 DEF SelectorHolds, DisableWins, OnlyAdvertised, ThinkingLeavesRoom, Off, Positive, Opts, Legal
<1>5. CASE sent = Controls(NoWish, sel, wish)
  <2> HIDE DEF sel
  <2>1. CASE wish.to = "chat"
    <3>1. sent = ChatControls(NoWish, sel, wish.caps) BY <1>5, <2>1 DEF Controls
    <3>2. (Disabled(sel) => Off(sent)) /\ Legal(sent, wish.caps) BY <1>0, <3>1, ChatWrites
    <3> QED BY <1>1, <2>1, <3>2 DEF SelectorHolds, DisableWins, OnlyAdvertised, ThinkingLeavesRoom, Off, Positive, Opts, Legal
  <2>2. CASE wish.to = "responses"
    <3>1. sent = ResponsesControls(NoWish, sel, wish.caps) BY <1>5, <2>2 DEF Controls
    <3>2. (Disabled(sel) => Off(sent)) /\ Legal(sent, wish.caps) BY <1>0, <3>1, ResponsesWrites
    <3> QED BY <1>1, <2>2, <3>2 DEF SelectorHolds, DisableWins, OnlyAdvertised, ThinkingLeavesRoom, Off, Positive, Opts, Legal
  <2>3. CASE wish.to = "messages"
    <3>1. sent = MessagesControls(NoWish, sel, wish.caps, wish.cap) BY <1>5, <2>3 DEF Controls
    <3>2. (Disabled(sel) => Off(sent)) /\ LegalThinking(sent, wish.caps, wish.cap)
      BY <1>0, <3>1, MessagesWrites
    <3> QED BY <1>1, <2>3, <3>2 DEF SelectorHolds, DisableWins, OnlyAdvertised, ThinkingLeavesRoom, Off, Positive, Opts, LegalThinking
  <2> QED BY <1>0, <2>1, <2>2, <2>3
<1> QED BY <1>2, <1>3, <1>4, <1>5

(* Whatever a client asks for and whatever the target's model advertises,  *)
(* a disable wins, a known target gets only what it advertises, and        *)
(* thinking leaves room for the answer (applyReasoningSelector).           *)
THEOREM SelectorIsSound == SelectorSpec => []SelectorHolds
<1>1. SelectorInit => SelectorInvariant
  BY CapabilitiesTyped, WishesTyped DEF SelectorInit, SelectorInvariant, WishTyped
<1>2. SelectorInvariant /\ [SelectorNext]_selectorVars => SelectorInvariant'
  BY DEF SelectorInvariant, SelectorNext, Decide, selectorVars
<1> QED BY <1>1, <1>2, DecisionHolds, PTL DEF SelectorSpec
-----------------------------------------------------------------------------
(***************************************************************************)
(* Proofs about the settings of a translated request: they do not depend   *)
(* on the turns of the conversation, which only TLC compares.              *)
(***************************************************************************)
\* The settings that a client of a dialect can give.
SettingsTyped(a) ==
  /\ a.from \in Dialects /\ a.to \in Dialects
  /\ a.limits \in [tokens : Nat, completion : Nat]
  /\ a.modelLimit \in Nat
  /\ a.options \subseteq CarriedOptions(a.from)

(* A request that is not refused carries the settings that the two          *)
(* conversions make of them, whatever its conversation is.                  *)
LEMMA AnswerShape ==
  ASSUME NEW a, SettingsTyped(a), TranslateRequest(a).ok
  PROVE  LET r == TranslateRequest(a)
             choice == ChoiceToChat(a.from, a.choice)
         IN /\ r.choice = ChoiceFromChat(a.to, choice)
            /\ r.tools = ToolsFromChat(a.to, choice, ToolsToChat(a.from, a.tools))
            /\ r.limits = LimitsFromChat(a.to, a.limits, a.modelLimit)
            /\ r.options = OptionsFromChat(a.to, OptionsToChat(a.from, a.options))
            /\ r.choice # "refused"
            /\ r.tools # "refused"
<1> DEFINE turns == RequestToChat(a.from, a.history)
           choice == ChoiceToChat(a.from, a.choice)
           kept == ChoiceFromChat(a.to, choice)
           tools == ToolsFromChat(a.to, choice, ToolsToChat(a.from, a.tools))
           body == CASE a.to = "chat" -> [Waiting EXCEPT !.talk = turns]
                     [] a.to = "messages" -> ChatToMessages(turns)
                     [] a.to = "responses" -> ChatToResponses(turns)
           limits == LimitsFromChat(a.to, a.limits, a.modelLimit)
           options == OptionsFromChat(a.to, OptionsToChat(a.from, a.options))
           built == [body EXCEPT !.choice = kept, !.tools = tools, !.limits = limits, !.options = options]
<1>1. TranslateRequest(a) = IF Untranslatable(a) \/ ~body.ok \/ "refused" \in {kept, tools} THEN Refusal ELSE built
  BY DEF TranslateRequest
<1>2. Refusal.ok = FALSE
  BY DEF Refusal, Waiting
<1>3. {"choice", "tools", "limits", "options"} \subseteq DOMAIN body
  <2>1. CASE a.to = "chat"
    BY <2>1 DEF Waiting
  <2>2. CASE a.to = "messages"
    <3>1. body = ChatToMessages(turns) BY <2>2
    <3> HIDE DEF body, turns
    <3>2. body = Refusal \/ \E st, sy, ta : body = [Waiting EXCEPT !.stripped = st, !.system = sy, !.talk = ta]
      BY ONLY <3>1, Zenon DEF ChatToMessages
    <3> QED BY <3>2 DEF Refusal, Waiting
  <2>3. CASE a.to = "responses"
    <3>1. body = ChatToResponses(turns) BY <2>3
    <3> HIDE DEF body, turns
    <3>2. body = Refusal \/ \E sy, ta : body = [Waiting EXCEPT !.system = sy, !.talk = ta]
      BY ONLY <3>1, Zenon DEF ChatToResponses
    <3> QED BY <3>2 DEF Refusal, Waiting
  <2> QED BY <2>1, <2>2, <2>3 DEF SettingsTyped, Dialects
<1> HIDE DEF body, kept, tools, limits, options
<1>4. TranslateRequest(a) = built /\ kept # "refused" /\ tools # "refused"
  BY <1>1, <1>2
<1>5. built.choice = kept /\ built.tools = tools /\ built.limits = limits /\ built.options = options
  BY <1>3
<1> QED BY <1>4, <1>5 DEF kept, tools, limits, options

\* The request keeps its types, and the answer is its translation.
RequestInv == SettingsTyped(asked) /\ (answered = Waiting \/ answered = TranslateRequest(asked))

(* For conversations of any length: the limit and the options of a request  *)
(* arrive, but for the stop sequences and a missing limit, and so do its     *)
(* choice of tools and the tools, but for the two choices that their own     *)
(* protocol loses on the way to chat (translate.go: chatToMessagesRequest,   *)
(* chatToResponsesRequest, convertToolChoice).                               *)
THEOREM SettingsArrive == RequestSpec => [](SettingsKept /\ ChoiceNotWeakened)
<1>1. RequestInit => RequestInv
  <2> SUFFICES ASSUME RequestInit PROVE SettingsTyped(asked)
    BY DEF RequestInit, RequestInv
  <2>1. PICK from \in Dialects, to \in Dialects : \E history, s :
          /\ asked = Request(from, to, history, s)
          /\ s.limits \in LimitsOf(from) /\ s.modelLimit \in Nat /\ s.options \subseteq CarriedOptions(from)
    <3>1. ASSUME NEW from \in Dialects
          PROVE  LET s == PlainSettings(from)
                 IN s.limits \in LimitsOf(from) /\ s.modelLimit \in Nat /\ s.options \subseteq CarriedOptions(from)
      <4>1. LimitsOf(from) # {} BY DEF LimitsOf, Dialects
      <4> QED BY <4>1 DEF PlainSettings
    <3>2. ASSUME NEW from \in Dialects, NEW s \in Settings(from)
          PROVE  s.limits \in LimitsOf(from) /\ s.modelLimit \in Nat /\ s.options \subseteq CarriedOptions(from)
      BY DEF Settings
    <3> QED BY <3>1, <3>2 DEF RequestInit
  <2>2. \A l \in LimitsOf(from) : l \in [tokens : Nat, completion : Nat]
    BY <2>1 DEF LimitsOf, Unlimited, Dialects
  <2> QED BY <2>1, <2>2 DEF Request, SettingsTyped
<1>2. RequestInv /\ [RequestNext]_requestVars => RequestInv'
  BY DEF RequestInv, RequestNext, Translate, requestVars
<1>3. RequestInv => SettingsKept /\ ChoiceNotWeakened
  <2> SUFFICES ASSUME RequestInv, Translated PROVE SettingsKept /\ ChoiceNotWeakened
    BY DEF SettingsKept, ChoiceNotWeakened
  <2>0. answered = TranslateRequest(asked) /\ answered.ok /\ SettingsTyped(asked)
    BY DEF RequestInv, Translated
  <2>1. /\ answered.choice = ChoiceFromChat(asked.to, ChoiceToChat(asked.from, asked.choice))
        /\ answered.tools = ToolsFromChat(asked.to, ChoiceToChat(asked.from, asked.choice), ToolsToChat(asked.from, asked.tools))
        /\ answered.limits = LimitsFromChat(asked.to, asked.limits, asked.modelLimit)
        /\ answered.options = OptionsFromChat(asked.to, OptionsToChat(asked.from, asked.options))
        /\ answered.choice # "refused"
        /\ answered.tools # "refused"
    BY <2>0, AnswerShape
  <2>2. /\ asked.limits \in [tokens : Nat, completion : Nat] /\ asked.modelLimit \in Nat
        /\ asked.from \in Dialects /\ asked.to \in Dialects /\ asked.options \subseteq CarriedOptions(asked.from)
    BY <2>0 DEF SettingsTyped
  <2>3. SettingsKept
    <3>1. asked.to = "chat" => answered.limits = asked.limits
      BY <2>1 DEF LimitsFromChat
    <3>2. asked.to # "chat" =>
            answered.limits.tokens + answered.limits.completion =
              (CASE asked.limits.completion # 0 -> asked.limits.completion
                 [] asked.limits.completion = 0 /\ asked.limits.tokens # 0 -> asked.limits.tokens
                 [] asked.limits = Unlimited /\ asked.to = "responses" -> 0
                 [] OTHER -> IF asked.modelLimit # 0 THEN asked.modelLimit ELSE 4096)
      <4>1. CASE asked.to = "messages"
        BY <2>1, <2>2, <4>1 DEF LimitsFromChat, Limit, DefaultLimit, Unlimited
      <4>2. CASE asked.to = "responses"
        BY <2>1, <2>2, <4>2 DEF LimitsFromChat, Limit, DefaultLimit, Unlimited
      <4> QED BY <2>2, <4>1, <4>2 DEF Dialects
    <3>3. /\ asked.options \ {"stop", "stop_sequences"} \subseteq answered.options
          /\ answered.options \subseteq asked.options
      BY <2>1, <2>2 DEF OptionsFromChat, OptionsToChat, CarriedOptions, Dialects
    <3> QED BY <3>1, <3>2, <3>3 DEF SettingsKept
  <2>4. ChoiceNotWeakened
    <3> SUFFICES ASSUME <<asked.from, asked.choice>> \notin {<<"responses", "named">>, <<"messages", "none">>}
                 PROVE  \/ answered.choice = asked.choice /\ (asked.tools = "functions" => answered.tools = "functions")
                        \/ asked.choice = "none" /\ answered.choice = "withheld" /\ answered.tools = "none"
      BY DEF ChoiceNotWeakened
    <3>1. ChoiceToChat(asked.from, asked.choice) = asked.choice
      <4>1. ~(asked.from = "responses" /\ asked.choice = "named") /\ ~(asked.from = "messages" /\ asked.choice = "none")
        OBVIOUS
      <4> QED BY <4>1 DEF ChoiceToChat
    <3>2. asked.tools = "functions" => ToolsToChat(asked.from, asked.tools) = "functions"
      BY DEF ToolsToChat
    <3>3. CASE asked.to = "responses"
      BY <2>1, <3>1, <3>2, <3>3 DEF ChoiceFromChat, ToolsFromChat
    <3>4. CASE asked.to # "responses"
      BY <2>1, <3>1, <3>2, <3>4 DEF ChoiceFromChat, ToolsFromChat
    <3> QED BY <3>3, <3>4
  <2> QED BY <2>3, <2>4
<1> QED BY <1>1, <1>2, <1>3, PTL DEF RequestSpec
-----------------------------------------------------------------------------
(***************************************************************************)
(* The capabilities of a virtual model.  The loops over its targets are    *)
(* followed by what they know of the targets gone through so far.          *)
(***************************************************************************)
LEMMA Bounds ==
  ASSUME NEW p \in Maybe(Limits), NEW q \in Maybe(Limits)
  PROVE  /\ Smallest(p \cup q) \in Maybe(Limits) /\ Greatest(p \cup q) \in Maybe(Limits)
         /\ p \cup q # {} => Smallest(p \cup q) # {} /\ Greatest(p \cup q) # {}
         /\ Smallest(p \cup q) \cup Greatest(p \cup q) \subseteq p \cup q
         /\ \A n \in p \cup q : \A k \in Smallest(p \cup q) : k <= n
         /\ \A n \in p \cup q : \A k \in Greatest(p \cup q) : k >= n
<1>2. ASSUME NEW x \in Nat
      PROVE  Smallest({x}) = {x} /\ Greatest({x}) = {x}
  BY <1>2 DEF Smallest, Greatest
<1>3. Smallest({}) = {} /\ Greatest({}) = {}
  BY DEF Smallest, Greatest
<1>4. ASSUME NEW s \in Maybe(Limits) PROVE s = {} \/ \E x \in Limits : s = {x}
  BY DEF Maybe
<1>5. Limits \subseteq Nat /\ {} \in Maybe(Limits) /\ \A x \in Limits : {x} \in Maybe(Limits)
  BY CapabilitiesAssumption DEF Maybe
<1>6. ASSUME NEW x \in Limits, p \cup q = {x}
      PROVE  /\ Smallest(p \cup q) = {x} /\ Greatest(p \cup q) = {x}
             /\ \A n \in p \cup q : n <= n /\ n >= n
  BY <1>2, <1>5, <1>6
<1>7. ASSUME NEW x \in Limits, NEW y \in Limits, p \cup q = {x, y}
      PROVE  /\ x <= y => Smallest(p \cup q) = {x}
             /\ ~(x <= y) => Smallest(p \cup q) = {y}
             /\ x >= y => Greatest(p \cup q) = {x}
             /\ ~(x >= y) => Greatest(p \cup q) = {y}
             /\ \A n \in p \cup q : n = x \/ n = y
  <2>1. x \in Nat /\ y \in Nat
    BY <1>5
  <2>2. /\ x <= y => Smallest({x, y}) = {x}
        /\ ~(x <= y) => Smallest({x, y}) = {y}
        /\ x >= y => Greatest({x, y}) = {x}
        /\ ~(x >= y) => Greatest({x, y}) = {y}
    BY <2>1 DEF Smallest, Greatest
  <2> QED
    BY <1>7, <2>2, Zenon
<1>8. CASE p = {} /\ q = {}
  <2>1. p \cup q = {}
    BY <1>8
  <2> QED
    BY <1>3, <1>5, <2>1
<1>9. CASE \E x \in Limits : p \cup q = {x}
  <2>1. PICK x \in Limits : p \cup q = {x}
    BY <1>9
  <2> QED
    BY <1>5, <1>6, <2>1
<1>10. CASE \E x, y \in Limits : p = {x} /\ q = {y}
  <2>1. PICK x \in Limits, y \in Limits : p = {x} /\ q = {y}
    BY <1>10
  <2>2. p \cup q = {x, y}
    BY <2>1
  <2>3. x \in Nat /\ y \in Nat /\ x \in p \cup q /\ y \in p \cup q
    BY <1>5, <2>2
  <2>4. x <= y \/ y <= x
    BY <2>3
  <2>5. /\ Smallest(p \cup q) \in {{x}, {y}} /\ Greatest(p \cup q) \in {{x}, {y}}
        /\ \A k \in Smallest(p \cup q) : k <= x /\ k <= y
        /\ \A k \in Greatest(p \cup q) : k >= x /\ k >= y
        /\ \A n \in p \cup q : n = x \/ n = y
    BY <1>7, <2>2, <2>3
  <2> QED
    BY <1>5, <2>3, <2>5
<1>11. (p = {} /\ q = {}) \/ (\E x \in Limits : p \cup q = {x}) \/ \E x, y \in Limits : p = {x} /\ q = {y}
  <2>1. CASE p = {}
    BY <1>4, <2>1
  <2>2. CASE q = {}
    BY <1>4, <2>2
  <2> QED
    BY <1>4, <2>1, <2>2
<1> QED
  BY <1>8, <1>9, <1>10, <1>11

\* Two coherent reports make one that says what either says, and is mandatory
\* only if both are.
LEMMA MergedReport ==
  ASSUME NEW a, NEW b, Coherent(a), Coherent(b)
  PROVE  LET c == MergeReasoning(a, b)
         IN  /\ Coherent(c)
             /\ Unrestricted(c) <=> Unrestricted(a) \/ Unrestricted(b)
             /\ ~Unrestricted(c) => Told(c) = Told(a) \cup Told(b)
             /\ Unrestricted(c) => Told(c) = {}
             /\ \A d \in {a, b} : /\ \A n \in d.least : \E k \in c.least : k <= n
                                  /\ \A n \in d.most : \E k \in c.most : k >= n
                                  /\ TRUE \in c.mandatory => TRUE \in d.mandatory
<1> DEFINE c == MergeReasoning(a, b)
           open == Unrestricted(a) \/ Unrestricted(b)
           narrow == ~open /\ (a.narrowed \/ b.narrowed)
<1>1. /\ a.options \subseteq Selectors /\ a.values \subseteq Levels /\ a.narrowed \in BOOLEAN
      /\ a.least \in Maybe(Limits) /\ a.most \in Maybe(Limits) /\ a.modes \subseteq ThinkingModes
      /\ a.mandatory \in Maybe(BOOLEAN) /\ a.enabled \in Maybe(BOOLEAN) /\ a.default \in Maybe(Levels)
      /\ a.clients \subseteq Levels
      /\ a.values # {} => "effort" \in a.options
      /\ a.narrowed => a.values # {} /\ a.clients \subseteq a.values
      /\ a.least \cup a.most # {} => "budget" \in a.options
  BY DEF Coherent, Report, HasEffort
<1>2. /\ b.options \subseteq Selectors /\ b.values \subseteq Levels /\ b.narrowed \in BOOLEAN
      /\ b.least \in Maybe(Limits) /\ b.most \in Maybe(Limits) /\ b.modes \subseteq ThinkingModes
      /\ b.mandatory \in Maybe(BOOLEAN) /\ b.enabled \in Maybe(BOOLEAN) /\ b.default \in Maybe(Levels)
      /\ b.clients \subseteq Levels
      /\ b.values # {} => "effort" \in b.options
      /\ b.narrowed => b.values # {} /\ b.clients \subseteq b.values
      /\ b.least \cup b.most # {} => "budget" \in b.options
  BY DEF Coherent, Report, HasEffort
<1>3. /\ c.options = a.options \cup b.options /\ c.values = IF open THEN {} ELSE a.values \cup b.values
      /\ c.narrowed = narrow /\ c.clients = IF narrow THEN Told(a) \cup Told(b) ELSE {}
      /\ c.least = Smallest(a.least \cup b.least) /\ c.most = Greatest(a.most \cup b.most)
      /\ c.modes = a.modes \cup b.modes /\ c.mandatory = BothMandatory(a, b)
      /\ c.enabled = EitherEnabled(a.enabled, b.enabled) /\ c.default = FirstOf(a.default, b.default)
  BY DEF MergeReasoning
<1>18. c = [options |-> c.options, values |-> c.values, narrowed |-> c.narrowed, clients |-> c.clients,
            least |-> c.least, most |-> c.most, modes |-> c.modes, mandatory |-> c.mandatory,
            enabled |-> c.enabled, default |-> c.default]
  BY DEF MergeReasoning
<1> HIDE DEF c
<1>4. open \in BOOLEAN /\ narrow \in BOOLEAN
  BY <1>1, <1>2 DEF Unrestricted, HasEffort
<1>5. /\ Told(a) \subseteq a.values /\ Told(b) \subseteq b.values
      /\ open = (("effort" \in a.options /\ a.values = {}) \/ ("effort" \in b.options /\ b.values = {}))
  BY <1>1, <1>2 DEF Told, Unrestricted, HasEffort
<1> HIDE DEF open
<1>6. c.mandatory \in Maybe(BOOLEAN) /\ (TRUE \in c.mandatory => TRUE \in a.mandatory /\ TRUE \in b.mandatory)
  <2>1. \A x \in Maybe(BOOLEAN) : x = {} \/ x = {TRUE} \/ x = {FALSE}
    BY DEF Maybe
  <2>2. a.mandatory = {} \/ b.mandatory = {} => c.mandatory = {}
    BY <1>3 DEF BothMandatory
  <2>3. \A x, y \in BOOLEAN : a.mandatory = {x} /\ b.mandatory = {y} => c.mandatory = {x /\ y}
    BY <1>3 DEF BothMandatory
  <2>4. \/ a.mandatory = {} \/ b.mandatory = {}
        \/ \E x, y \in BOOLEAN : a.mandatory = {x} /\ b.mandatory = {y}
    BY <1>1, <1>2, <2>1
  <2>5. CASE a.mandatory = {} \/ b.mandatory = {}
    BY <2>2, <2>5 DEF Maybe
  <2>6. CASE \E x, y \in BOOLEAN : a.mandatory = {x} /\ b.mandatory = {y}
    <3>1. PICK x, y \in BOOLEAN : a.mandatory = {x} /\ b.mandatory = {y}
      BY <2>6
    <3>2. c.mandatory = {x /\ y}
      BY <2>3, <3>1
    <3>3. (x /\ y) \in BOOLEAN
      OBVIOUS
    <3>4. c.mandatory \in Maybe(BOOLEAN)
      BY <3>2, <3>3 DEF Maybe
    <3>5. TRUE \in c.mandatory => x /\ y
      BY <3>2
    <3>6. x => x = TRUE
      OBVIOUS
    <3>7. y => y = TRUE
      OBVIOUS
    <3> QED
      BY <3>1, <3>4, <3>5, <3>6, <3>7
  <2> QED
    BY <2>4, <2>5, <2>6
<1>7. c.enabled \in Maybe(BOOLEAN)
  <2>1. \A x \in Maybe(BOOLEAN) : x = {} \/ x = {TRUE} \/ x = {FALSE}
    BY DEF Maybe
  <2>2. \A x, y \in BOOLEAN : a.enabled = {x} /\ b.enabled = {y} => c.enabled = {x \/ y}
    BY <1>3 DEF EitherEnabled
  <2>3. a.enabled = {} \/ b.enabled = {} => c.enabled \in {a.enabled, b.enabled}
    BY <1>3 DEF EitherEnabled
  <2> QED
    BY <1>1, <1>2, <2>1, <2>2, <2>3 DEF Maybe
<1>8. c.default \in Maybe(Levels)
  BY <1>1, <1>2, <1>3 DEF FirstOf
<1>9. /\ c.least \in Maybe(Limits) /\ c.most \in Maybe(Limits)
      /\ c.least \cup c.most # {} => "budget" \in c.options
  <2>1. /\ Smallest(a.least \cup b.least) \in Maybe(Limits)
        /\ Smallest(a.least \cup b.least) \subseteq a.least \cup b.least
    BY <1>1, <1>2, Bounds
  <2>2. /\ Greatest(a.most \cup b.most) \in Maybe(Limits)
        /\ Greatest(a.most \cup b.most) \subseteq a.most \cup b.most
    BY <1>1, <1>2, Bounds
  <2>3. /\ c.least \in Maybe(Limits) /\ c.least \subseteq a.least \cup b.least
        /\ c.most \in Maybe(Limits) /\ c.most \subseteq a.most \cup b.most
    BY <1>3, <2>1, <2>2
  <2> QED
    BY <1>1, <1>2, <1>3, <2>3
<1>10. /\ c.values \subseteq Levels /\ c.clients \subseteq Levels
       /\ c.values # {} => "effort" \in c.options
       /\ c.narrowed => c.values # {} /\ c.clients \subseteq c.values
       /\ c.narrowed \in BOOLEAN
  BY <1>1, <1>2, <1>3, <1>4, <1>5
<1>11. Coherent(c)
  <2>1. c \in Report
    BY <1>1, <1>2, <1>3, <1>6, <1>7, <1>8, <1>9, <1>10, <1>18 DEF Report
  <2> QED
    BY <1>9, <1>10, <2>1 DEF Coherent, HasEffort
<1>12. Unrestricted(c) <=> open
  BY <1>1, <1>2, <1>3, <1>5 DEF Unrestricted, HasEffort
<1>13. ~open => Told(c) = Told(a) \cup Told(b)
  BY <1>3, <1>4 DEF Told
<1>14. open => Told(c) = {}
  BY <1>3 DEF Told
<1>15. ASSUME NEW d \in {a, b}
       PROVE  /\ \A n \in d.least : \E k \in c.least : k <= n
              /\ \A n \in d.most : \E k \in c.most : k >= n
  <2>1. ASSUME NEW p \in Maybe(Limits), NEW q \in Maybe(Limits), NEW n \in p \cup q
        PROVE  /\ \E k \in Smallest(p \cup q) : k <= n
               /\ \E k \in Greatest(p \cup q) : k >= n
    <3>1. Smallest(p \cup q) # {} /\ Greatest(p \cup q) # {}
      BY Bounds
    <3>2. (\A k \in Smallest(p \cup q) : k <= n) /\ \A k \in Greatest(p \cup q) : k >= n
      BY Bounds
    <3> QED
      BY <3>1, <3>2
  <2>2. /\ \A n \in a.least \cup b.least : \E k \in c.least : k <= n
        /\ \A n \in a.most \cup b.most : \E k \in c.most : k >= n
    <3>1. \A n \in a.least \cup b.least : \E k \in Smallest(a.least \cup b.least) : k <= n
      BY <1>1, <1>2, <2>1
    <3>2. \A n \in a.most \cup b.most : \E k \in Greatest(a.most \cup b.most) : k >= n
      BY <1>1, <1>2, <2>1
    <3> QED
      BY <1>3, <3>1, <3>2
  <2> QED
    BY <2>2
<1>17. open <=> Unrestricted(a) \/ Unrestricted(b)
  BY DEF open
<1> QED
  BY <1>6, <1>11, <1>12, <1>13, <1>14, <1>15, <1>17 DEF c

\* What the loops know of the targets they have gone through.
Reporting == {m \in merged : known[m].report # {}}

LimitKnown ==
  /\ summary.limit \in Maybe(Limits) /\ summary.sure \in BOOLEAN
  /\ summary.sure <=> \A m \in merged : PositiveLimit(known[m].limit)
  /\ summary.sure /\ merged # {} => summary.limit # {}
  /\ summary.sure => \A n \in summary.limit, m \in merged : \E k \in known[m].limit : n <= k

FlagKnown ==
  /\ summary.lacking \in BOOLEAN /\ summary.unsure \in BOOLEAN
  /\ summary.lacking <=> \E m \in merged : FALSE \in known[m].flag
  /\ summary.unsure <=> \E m \in merged : known[m].flag = {}

ReportKnown ==
  /\ AtMostOne(summary.report)
  /\ summary.report = {} <=> Reporting = {}
  /\ \A c \in summary.report :
       /\ Coherent(c)
       /\ Unrestricted(c) <=> \E m \in Reporting : Open(m)
       /\ \A l \in Told(c) : \E m \in Reporting : Tells(m, l)
       /\ ~Unrestricted(c) => \A m \in Reporting, l \in Levels : Tells(m, l) => l \in Told(c)
       /\ \A m \in Reporting : \A d \in known[m].report :
            /\ \A n \in d.least : \E k \in c.least : k <= n
            /\ \A n \in d.most : \E k \in c.most : k >= n
            /\ TRUE \in c.mandatory => TRUE \in d.mandatory

CapabilityInv ==
  /\ known \in [Members -> TargetViews] /\ merged \subseteq Serving
  /\ LimitKnown /\ FlagKnown /\ ReportKnown
  /\ entry # {} => merged = Serving /\ \E dialect \in {"openai", "anthropic"} : entry = {BuildCatalogueEntry(dialect)}

\* One more target.
LEMMA LimitMerged ==
  ASSUME CapabilityInv, NEW m \in Members, Aggregate(m)
  PROVE  LimitKnown'
<1> DEFINE v == known[m]
<1>1. /\ v.limit \in Maybe(Limits) /\ merged' = merged \cup {m} /\ known' = known
      /\ summary' = AddTo(summary, v)
  BY CapabilitiesAssumption DEF CapabilityInv, Aggregate, View
<1>2. /\ summary'.limit = IF PositiveLimit(v.limit) /\ summary.sure THEN Smallest(summary.limit \cup v.limit)
                                                                    ELSE summary.limit
      /\ summary'.sure = (summary.sure /\ PositiveLimit(v.limit))
  BY <1>1 DEF AddTo
<1>3. LimitKnown
  BY DEF CapabilityInv
<1> HIDE DEF v
<1>4. summary'.limit \in Maybe(Limits) /\ summary'.sure \in BOOLEAN
  <2>1. Smallest(summary.limit \cup v.limit) \in Maybe(Limits)
    BY <1>1, <1>3, Bounds DEF LimitKnown
  <2> QED
    BY <1>1, <1>2, <1>3, <2>1 DEF LimitKnown, PositiveLimit
<1>5. summary'.sure <=> \A k \in merged' : PositiveLimit(known'[k].limit)
  BY <1>1, <1>2, <1>3 DEF LimitKnown, v
<1>6. ASSUME summary'.sure
      PROVE  /\ summary'.limit # {}
             /\ \A n \in summary'.limit, k \in merged' : \E j \in known'[k].limit : n <= j
  <2>1. PositiveLimit(v.limit) /\ summary.sure /\ summary'.limit = Smallest(summary.limit \cup v.limit)
    BY <1>2, <1>3, <1>6 DEF LimitKnown, PositiveLimit
  <2>2. /\ summary.limit \in Maybe(Limits) /\ v.limit \in Maybe(Limits) /\ v.limit # {}
        /\ summary.limit \cup v.limit # {}
    BY <1>1, <1>3, <2>1 DEF LimitKnown, PositiveLimit
  <2>3. /\ summary'.limit # {}
        /\ \A n \in summary.limit \cup v.limit : \A k \in summary'.limit : k <= n
    <3>1. Smallest(summary.limit \cup v.limit) # {}
      BY <2>2, Bounds
    <3>2. \A n \in summary.limit \cup v.limit : \A k \in Smallest(summary.limit \cup v.limit) : k <= n
      BY <2>2, Bounds
    <3> QED
      BY <2>1, <3>1, <3>2
  <2>4. ASSUME NEW n \in summary'.limit PROVE \E j \in v.limit : n <= j
    BY <2>2, <2>3
  <2>5. ASSUME NEW n \in summary'.limit, NEW k \in merged PROVE \E j \in known[k].limit : n <= j
    <3>1. PICK s \in summary.limit : n <= s
      BY <1>3, <2>1, <2>3, <2>5 DEF LimitKnown
    <3>2. PICK j \in known[k].limit : s <= j
      BY <1>3, <2>1, <2>5, <3>1 DEF LimitKnown
    <3>3. known[k].limit \in Maybe(Limits)
      BY CapabilitiesAssumption DEF CapabilityInv, View, Serving
    <3>4. \A z \in Maybe(Limits) : z \subseteq Nat
      BY CapabilitiesAssumption DEF Maybe
    <3>5. n \in Nat /\ s \in Nat /\ j \in Nat
      BY <1>4, <2>2, <2>5, <3>1, <3>2, <3>3, <3>4
    <3> QED
      BY <3>1, <3>2, <3>5
  <2> QED
    BY <1>1, <2>3, <2>4, <2>5 DEF v
<1> QED
  BY <1>4, <1>5, <1>6 DEF LimitKnown

LEMMA FlagMerged ==
  ASSUME CapabilityInv, NEW m \in Members, Aggregate(m)
  PROVE  FlagKnown'
<1>1. /\ merged' = merged \cup {m} /\ known' = known
      /\ summary'.lacking = (summary.lacking \/ FALSE \in known[m].flag)
      /\ summary'.unsure = (summary.unsure \/ known[m].flag = {})
  BY DEF Aggregate, AddTo
<1>2. FlagKnown
  BY DEF CapabilityInv
<1> QED
  BY <1>1, <1>2 DEF FlagKnown

LEMMA ReportMerged ==
  ASSUME CapabilityInv, NEW m \in Members, Aggregate(m)
  PROVE  ReportKnown'
<1> DEFINE v == known[m]
<1>1. /\ AtMostOne(v.report) /\ \A c \in v.report : Coherent(c)
      /\ merged' = merged \cup {m} /\ m \notin merged /\ known' = known
      /\ summary'.report = MergeReports(summary.report, v.report)
      /\ Reporting' = Reporting \cup (IF v.report = {} THEN {} ELSE {m})
  BY CapabilitiesAssumption DEF CapabilityInv, Aggregate, AddTo, Reporting
<1>2. ReportKnown
  BY DEF CapabilityInv
<1>3. \A k \in Members : (Open(k)' <=> Open(k)) /\ \A l : Tells(k, l)' <=> Tells(k, l)
  BY <1>1 DEF Open, Tells
<1>4. merged \subseteq Members
  BY DEF CapabilityInv, Serving
<1>5. CASE v.report = {}
  <2>1. summary'.report = summary.report /\ Reporting' = Reporting
    BY <1>1, <1>5 DEF MergeReports
  <2> QED
    BY <1>1, <1>2, <1>3, <1>4, <2>1 DEF ReportKnown, Reporting
<1>6. CASE v.report # {} /\ summary.report = {}
  <2>1. summary'.report = v.report /\ Reporting = {} /\ Reporting' = {m}
    BY <1>1, <1>2, <1>6 DEF MergeReports, ReportKnown
  <2>2. ASSUME NEW c \in v.report
        PROVE  /\ Unrestricted(c) <=> Open(m)
               /\ \A l \in Levels : Tells(m, l) <=> l \in Told(c)
               /\ \A d \in v.report : d = c
               /\ Coherent(c) /\ Told(c) \subseteq Levels
               /\ \A n \in c.least \cup c.most : n <= n /\ n >= n
    BY <1>1, <2>2, CapabilitiesAssumption DEF Open, Tells, Told, AtMostOne, Coherent, Report, Maybe
  <2>3. AtMostOne(summary'.report) /\ ~(summary'.report = {}) /\ ~(Reporting' = {})
    BY <1>1, <1>6, <2>1
  <2>4. ASSUME NEW c \in summary'.report
        PROVE  /\ Coherent(c)
               /\ Unrestricted(c) <=> \E k \in Reporting' : Open(k)'
               /\ \A l \in Told(c) : \E k \in Reporting' : Tells(k, l)'
               /\ ~Unrestricted(c) => \A k \in Reporting', l \in Levels : Tells(k, l)' => l \in Told(c)
    BY <1>3, <2>1, <2>2, <2>4
  <2>5. ASSUME NEW c \in summary'.report, NEW k \in Reporting', NEW d \in known'[k].report
        PROVE  /\ \A n \in d.least : \E j \in c.least : j <= n
               /\ \A n \in d.most : \E j \in c.most : j >= n
               /\ TRUE \in c.mandatory => TRUE \in d.mandatory
    <3>1. d = c
      BY <1>1, <2>1, <2>2, <2>5
    <3>2. \A n \in c.least \cup c.most : n <= n /\ n >= n
      BY <2>1, <2>2, <2>5
    <3> QED
      BY <3>1, <3>2
  <2> QED
    BY <2>3, <2>4, <2>5 DEF ReportKnown
<1>7. CASE v.report # {} /\ summary.report # {}
  <2>1. PICK a \in summary.report, b \in v.report : summary.report = {a} /\ v.report = {b}
    BY <1>1, <1>2, <1>7 DEF AtMostOne, ReportKnown
  <2>2. summary'.report = {MergeReasoning(a, b)} /\ Reporting' = Reporting \cup {m} /\ Reporting # {}
    BY <1>1, <1>2, <1>7, <2>1 DEF MergeReports, ReportKnown
  <2> DEFINE c == MergeReasoning(a, b)
  <2>3. Coherent(a) /\ Coherent(b)
    BY <1>1, <1>2, <2>1 DEF ReportKnown
  <2>4. /\ Coherent(c)
        /\ Unrestricted(c) <=> Unrestricted(a) \/ Unrestricted(b)
        /\ ~Unrestricted(c) => Told(c) = Told(a) \cup Told(b)
        /\ Unrestricted(c) => Told(c) = {}
        /\ \A d \in {a, b} : /\ \A n \in d.least : \E k \in c.least : k <= n
                             /\ \A n \in d.most : \E k \in c.most : k >= n
                             /\ TRUE \in c.mandatory => TRUE \in d.mandatory
    BY <2>3, MergedReport
  <2> HIDE DEF c
  <2>5. /\ Unrestricted(b) <=> Open(m)
        /\ \A l \in Levels : Tells(m, l) <=> l \in Told(b)
        /\ Told(a) \subseteq Levels /\ Told(b) \subseteq Levels
    BY <2>1, <2>3 DEF Open, Tells, Told, Coherent, Report
  <2>6. /\ Unrestricted(a) <=> \E k \in Reporting : Open(k)
        /\ \A l \in Told(a) : \E k \in Reporting : Tells(k, l)
        /\ ~Unrestricted(a) => \A k \in Reporting, l \in Levels : Tells(k, l) => l \in Told(a)
    BY <1>2, <2>1 DEF ReportKnown
  <2>7. /\ Unrestricted(c) <=> \E k \in Reporting' : Open(k)
        /\ \A l \in Told(c) : \E k \in Reporting' : Tells(k, l)
        /\ ~Unrestricted(c) => \A k \in Reporting', l \in Levels : Tells(k, l) => l \in Told(c)
    BY <2>2, <2>4, <2>5, <2>6
  <2>8. ASSUME NEW k \in Reporting', NEW d \in known[k].report
        PROVE  /\ \A n \in d.least : \E j \in c.least : j <= n
               /\ \A n \in d.most : \E j \in c.most : j >= n
               /\ TRUE \in c.mandatory => TRUE \in d.mandatory
    <3>1. CASE k = m
      BY <2>1, <2>4, <2>8, <3>1
    <3>2. CASE k \in Reporting
      <4>1. /\ \A n \in d.least : \E j \in a.least : j <= n
            /\ \A n \in d.most : \E j \in a.most : j >= n
            /\ TRUE \in a.mandatory => TRUE \in d.mandatory
        BY <1>2, <2>1, <2>8, <3>2 DEF ReportKnown
      <4>2. /\ \A n \in a.least : \E j \in c.least : j <= n
            /\ \A n \in a.most : \E j \in c.most : j >= n
            /\ TRUE \in c.mandatory => TRUE \in a.mandatory
        BY <2>4
      <4>3. d \in Report /\ a \in Report /\ c \in Report
        <5>1. k \in Members
          BY <1>4, <3>2 DEF Reporting
        <5> QED
          BY <2>3, <2>4, <2>8, <5>1, CapabilitiesAssumption DEF Coherent, CapabilityInv
      <4>4. d.least \cup d.most \cup a.least \cup a.most \cup c.least \cup c.most \subseteq Nat
        BY <4>3, CapabilitiesAssumption DEF Report, Maybe
      <4>5. \A n \in d.least : \E j \in c.least : j <= n
        <5> SUFFICES ASSUME NEW n \in d.least PROVE \E j \in c.least : j <= n
          OBVIOUS
        <5>1. PICK i \in a.least : i <= n
          BY <4>1
        <5>2. PICK j \in c.least : j <= i
          BY <4>2
        <5> QED
          BY <4>4, <5>1, <5>2
      <4>6. \A n \in d.most : \E j \in c.most : j >= n
        <5> SUFFICES ASSUME NEW n \in d.most PROVE \E j \in c.most : j >= n
          OBVIOUS
        <5>1. PICK i \in a.most : i >= n
          BY <4>1
        <5>2. PICK j \in c.most : j >= i
          BY <4>2
        <5> QED
          BY <4>4, <5>1, <5>2
      <4> QED
        BY <4>1, <4>2, <4>5, <4>6
    <3> QED
      BY <2>2, <2>8, <3>1, <3>2
  <2>9. AtMostOne(summary'.report)
    BY <2>2 DEF AtMostOne
  <2>10. Reporting' \subseteq Members
    BY <1>1, <1>4 DEF Reporting
  <2> QED
    BY <1>1, <1>3, <2>2, <2>4, <2>7, <2>8, <2>9, <2>10 DEF ReportKnown, c
<1> QED
  BY <1>5, <1>6, <1>7

LEMMA CapabilityStep ==
  ASSUME CapabilityInv, [CapabilitiesNext]_capabilityVars
  PROVE  CapabilityInv'
<1>1. ASSUME NEW m \in Members, Aggregate(m) PROVE CapabilityInv'
  <2>1. LimitKnown' /\ FlagKnown' /\ ReportKnown'
    BY <1>1, LimitMerged, FlagMerged, ReportMerged
  <2>2. entry' = {} /\ known' = known /\ merged' \subseteq Serving'
    BY <1>1 DEF Aggregate, CapabilityInv, Serving, TargetEligible
  <2> QED
    BY <2>1, <2>2 DEF CapabilityInv
<1>2. ASSUME NEW dialect \in {"openai", "anthropic"}, Publish(dialect) PROVE CapabilityInv'
  <2>1. UNCHANGED <<known, merged, summary>> /\ merged = Serving /\ entry' = {BuildCatalogueEntry(dialect)}
    BY <1>2 DEF Publish
  <2>2. LimitKnown' /\ FlagKnown' /\ ReportKnown'
    BY <2>1 DEF CapabilityInv, LimitKnown, FlagKnown, ReportKnown, Reporting, Open, Tells
  <2>3. entry' = {BuildCatalogueEntry(dialect)'} /\ merged' = Serving'
    BY <2>1 DEF BuildCatalogueEntry, FinalLimit, FinalFlag, Serving, TargetEligible
  <2> QED
    BY <2>1, <2>2, <2>3 DEF CapabilityInv
<1>3. CASE UNCHANGED capabilityVars
  <2>1. LimitKnown' /\ FlagKnown' /\ ReportKnown'
    BY <1>3 DEF CapabilityInv, LimitKnown, FlagKnown, ReportKnown, Reporting, Open, Tells, capabilityVars
  <2>2. \A dialect : BuildCatalogueEntry(dialect)' = BuildCatalogueEntry(dialect)
    BY <1>3 DEF BuildCatalogueEntry, FinalLimit, FinalFlag, capabilityVars
  <2> QED
    BY <1>3, <2>1, <2>2 DEF CapabilityInv, Serving, TargetEligible, capabilityVars
<1> QED
  BY <1>1, <1>2, <1>3 DEF CapabilitiesNext

LEMMA EntryHolds ==
  ASSUME CapabilityInv
  PROVE  CapabilitiesHold
<1>1. CapabilitiesTypeOK
  BY DEF CapabilityInv, LimitKnown, FlagKnown, ReportKnown, CapabilitiesTypeOK, Coherent
<1>2. SUFFICES ASSUME NEW e \in entry
               PROVE  LimitFitsAll(e) /\ FlagIsProved(e) /\ EffortsAreServed(e) /\ BudgetIsWidest(e)
                      /\ MandatoryForAll(e)
  BY <1>1 DEF CapabilitiesHold
<1>3. PICK dialect \in {"openai", "anthropic"} : merged = Serving /\ e = BuildCatalogueEntry(dialect)
  BY <1>2 DEF CapabilityInv
<1>4. /\ e.limit = FinalLimit /\ e.flag = FinalFlag /\ e.dialect = dialect
      /\ Reporting = Reports
  BY <1>3 DEF BuildCatalogueEntry, Reporting, Reports
<1>5. ASSUME NEW r \in e.reasoning
      PROVE  \/ summary.report = {} /\ r = NoSelector
             \/ \E c \in summary.report : \/ dialect = "anthropic" /\ r = ForAnthropic(c)
                                          \/ dialect = "openai" /\ r = ForOpenAI(c)
  BY <1>3, <1>5 DEF BuildCatalogueEntry
<1>6. LimitKnown /\ FlagKnown /\ ReportKnown
  BY DEF CapabilityInv
<1>7. LimitFitsAll(e)
  BY <1>3, <1>4, <1>6 DEF LimitFitsAll, LimitKnown, FinalLimit
<1>8. FlagIsProved(e)
  <2>1. \A m \in Serving : known[m].flag \in Maybe(BOOLEAN)
    BY CapabilitiesAssumption DEF CapabilityInv, Serving, View
  <2>2. \A m \in Serving : known[m].flag = {} \/ TRUE \in known[m].flag \/ FALSE \in known[m].flag
    BY <2>1 DEF Maybe
  <2> QED
    BY <1>3, <1>4, <1>6, <2>2 DEF FlagIsProved, FlagKnown, FinalFlag
<1>9. ASSUME NEW c \in summary.report
      PROVE  /\ CatalogueEfforts(c) = Told(c)
             /\ Told(c) \subseteq Levels /\ (Unrestricted(c) => Told(c) = {})
  BY <1>6, <1>9 DEF ReportKnown, CatalogueEfforts, Told, Coherent, Report, Unrestricted
<1>10. EffortsAreServed(e)
  <2> SUFFICES ASSUME NEW r \in e.reasoning
               PROVE  /\ \A l \in r.efforts : \E m \in Reports : Tells(m, l)
                      /\ dialect = "openai" /\ r.efforts # {} =>
                           \A m \in Reports, l \in Levels : Tells(m, l) => l \in r.efforts
                      /\ dialect = "openai" /\ r.effort /\ r.efforts = {} =>
                           (\E m \in Reports : Open(m)) \/ \A m \in Reports, l \in Levels : ~Tells(m, l)
    BY <1>4 DEF EffortsAreServed
  <2>1. CASE summary.report = {} /\ r = NoSelector
    BY <2>1 DEF NoSelector
  <2>2. CASE \E c \in summary.report : \/ dialect = "anthropic" /\ r = ForAnthropic(c)
                                       \/ dialect = "openai" /\ r = ForOpenAI(c)
    <3>1. PICK c \in summary.report : \/ dialect = "anthropic" /\ r = ForAnthropic(c)
                                      \/ dialect = "openai" /\ r = ForOpenAI(c)
      BY <2>2
    <3>2. /\ Unrestricted(c) <=> \E m \in Reports : Open(m)
          /\ \A l \in Told(c) : \E m \in Reports : Tells(m, l)
          /\ ~Unrestricted(c) => \A m \in Reports, l \in Levels : Tells(m, l) => l \in Told(c)
      BY <1>4, <1>6, <3>1 DEF ReportKnown
    <3>3. r.efforts \subseteq Told(c) /\ (dialect = "openai" => r.efforts = Told(c))
      BY <1>9, <3>1 DEF ForAnthropic, ForOpenAI
    <3> QED
      BY <1>9, <3>1, <3>2, <3>3
  <2> QED
    BY <1>5, <2>1, <2>2
<1>11. BudgetIsWidest(e)
  <2> SUFFICES ASSUME dialect = "openai", NEW r \in e.reasoning, NEW m \in Reports, NEW d \in known[m].report
               PROVE  /\ \A n \in d.least : \E k \in r.least : k <= n
                      /\ \A n \in d.most : \E k \in r.most : k >= n
    BY <1>4 DEF BudgetIsWidest
  <2>1. PICK c \in summary.report : r = ForOpenAI(c)
    BY <1>4, <1>5, <1>6 DEF ReportKnown
  <2> QED
    BY <1>4, <1>6, <2>1 DEF ReportKnown, ForOpenAI
<1>12. MandatoryForAll(e)
  <2> SUFFICES ASSUME NEW r \in e.reasoning, TRUE \in r.mandatory, NEW m \in Reports
               PROVE  \E d \in known[m].report : TRUE \in d.mandatory
    BY DEF MandatoryForAll
  <2>1. PICK c \in summary.report : r = ForOpenAI(c)
    <3>1. NoSelector.mandatory = {} /\ \A c : ForAnthropic(c).mandatory = {}
      BY DEF NoSelector, ForAnthropic
    <3>2. r # NoSelector /\ \A c : r # ForAnthropic(c)
      BY <3>1
    <3> QED
      BY <1>5, <3>2
  <2>2. known[m].report # {}
    BY DEF Reports
  <2> QED
    BY <1>4, <1>6, <2>1, <2>2 DEF ReportKnown, ForOpenAI
<1> QED
  BY <1>7, <1>8, <1>10, <1>11, <1>12

(* Whatever is known of the targets and in whatever order they are gone     *)
(* through, the published entry claims what every target has, and sends its *)
(* clients only levels that some target's own clients are told.             *)
THEOREM CapabilitiesAreProved == CapabilitiesSpec => []CapabilitiesHold
<1>1. CapabilitiesInit => CapabilityInv
  <2> SUFFICES ASSUME CapabilitiesInit PROVE CapabilityInv
    OBVIOUS
  <2>1. Reporting = {} /\ merged = {} /\ summary = NoSummary /\ entry = {} /\ known \in [Members -> TargetViews]
    BY DEF CapabilitiesInit, Reporting
  <2>2. LimitKnown /\ FlagKnown /\ ReportKnown
    BY <2>1 DEF LimitKnown, FlagKnown, ReportKnown, NoSummary, Maybe, AtMostOne
  <2> QED
    BY <2>1, <2>2 DEF CapabilityInv
<1> QED
  BY <1>1, CapabilityStep, EntryHolds, PTL DEF CapabilitiesSpec
=============================================================================
