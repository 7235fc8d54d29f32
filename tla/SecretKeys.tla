----------------------------- MODULE SecretKeys -----------------------------
(***************************************************************************)
(* The master key and the secrets it encrypts: the start of the service    *)
(* (prepareSecrets: find or generate the key, verify the ciphertext,       *)
(* encrypt what is still plain), the writes of the running store, and      *)
(* rotate-master-key, which touches two stores that cannot commit          *)
(* together: the key files (WriteKeyFile is atomic and durable) and the    *)
(* database.  Any of these processes may die between two steps.            *)
(*                                                                         *)
(* A stored secret is Empty, Plain or the key it is encrypted with.  The   *)
(* service and the rotation do not run at once ("service stopped").        *)
(***************************************************************************)
EXTENDS FiniteSets

CONSTANTS
  Secrets,
  OperatorKeys,     \* keys an operator supplies, and so has a copy of
  GeneratedKeys,    \* keys the service generates: only its files hold them
  NoMasterKey, Empty, Plain,
  FollowsRunbook    \* after an interrupted rotation the operator first copies
                    \* the sidecar back

MasterKeys == OperatorKeys \cup GeneratedKeys

ASSUME SecretKeysAssumption ==
  /\ OperatorKeys \cap GeneratedKeys = {}
  /\ {NoMasterKey, Empty, Plain} \cap MasterKeys = {}
  /\ Empty # Plain
  /\ FollowsRunbook \in BOOLEAN

VARIABLES
  cell,       \* the secret columns of the database
  master,     \* <data dir>/master.key
  sidecar,    \* <data dir>/master.key.previous
  env,        \* TILLER_MASTER_KEY or TILLER_MASTER_KEY_FILE
  made,       \* the keys generated so far
  stage,      \* where the running process is
  key,        \* the key it works with; NoMasterKey while serving means locked
  newKey,     \* the key a rotation goes to
  fromFile    \* the active key is the data-directory file

secretVars == <<cell, master, sidecar, env, made, stage, key, newKey, fromFile>>

Stages == {"stopped", "resolved", "serving", "rotating", "preserved", "replaced", "failed"}

SecretKeysTypeOK ==
  /\ cell \in [Secrets -> MasterKeys \cup {Empty, Plain}]
  /\ master \in MasterKeys \cup {NoMasterKey} /\ sidecar \in MasterKeys \cup {NoMasterKey}
  /\ env \in OperatorKeys \cup {NoMasterKey} /\ made \subseteq GeneratedKeys
  /\ stage \in Stages /\ fromFile \in BOOLEAN
  /\ key \in MasterKeys \cup {NoMasterKey} /\ newKey \in MasterKeys \cup {NoMasterKey}

HasEncrypted == \E s \in Secrets : cell[s] \in MasterKeys
Decrypts(k) == \A s \in Secrets : cell[s] \in {Empty, Plain, k}
Resolved == IF env # NoMasterKey THEN env ELSE master

Reencrypted(k) == [s \in Secrets |-> IF cell[s] = Empty THEN Empty ELSE k]
EncryptPlain(k) == [s \in Secrets |-> IF cell[s] = Plain THEN k ELSE cell[s]]

Exit ==
  /\ stage' = "stopped" /\ key' = NoMasterKey /\ newKey' = NoMasterKey /\ fromFile' = FALSE

(* An installation that ran before encryption has plain secrets. *)
SecretKeysInit ==
  /\ cell \in [Secrets -> {Empty, Plain}]
  /\ master = NoMasterKey /\ sidecar = NoMasterKey /\ env = NoMasterKey /\ made = {}
  /\ stage = "stopped" /\ key = NoMasterKey /\ newKey = NoMasterKey /\ fromFile = FALSE

-----------------------------------------------------------------------------
(* prepareSecrets: Resolve.  Without any key one is generated, but never   *)
(* when there is ciphertext it could not decrypt.                          *)
StartWithKey ==
  /\ stage = "stopped"
  /\ Resolved # NoMasterKey \/ HasEncrypted
  /\ stage' = "resolved" /\ key' = Resolved
  /\ UNCHANGED <<cell, master, sidecar, env, made, newKey, fromFile>>

StartGenerating ==
  /\ stage = "stopped" /\ Resolved = NoMasterKey /\ ~HasEncrypted
  /\ \E k \in GeneratedKeys \ made :
       /\ master' = k /\ key' = k /\ made' = made \cup {k}
  /\ stage' = "resolved"
  /\ UNCHANGED <<cell, sidecar, env, newKey, fromFile>>

(* MigrateSecrets: one transaction, rolled back when a stored ciphertext   *)
(* cannot be decrypted; the service then starts locked.                    *)
Migrate ==
  /\ stage = "resolved"
  /\ stage' = "serving"
  /\ IF key # NoMasterKey /\ Decrypts(key)
     THEN cell' = EncryptPlain(key) /\ UNCHANGED key
     ELSE key' = NoMasterKey /\ UNCHANGED cell
  /\ UNCHANGED <<master, sidecar, env, made, newKey, fromFile>>

(* The store: writing needs an unlocked cipher, deleting does not. *)
SaveSecret(s) ==
  /\ stage = "serving" /\ key # NoMasterKey
  /\ cell' = [cell EXCEPT ![s] = key]
  /\ UNCHANGED <<master, sidecar, env, made, stage, key, newKey, fromFile>>

DropSecret(s) ==
  /\ stage = "serving" /\ cell[s] # Empty
  /\ cell' = [cell EXCEPT ![s] = Empty]
  /\ UNCHANGED <<master, sidecar, env, made, stage, key, newKey, fromFile>>

(* A stop, a crash, or an error that ends the process. *)
Die ==
  /\ stage # "stopped"
  /\ Exit
  /\ UNCHANGED <<cell, master, sidecar, env, made>>

-----------------------------------------------------------------------------
(* What an interrupted rotation leaves: the sidecar's key decrypts, the    *)
(* file's does not.                                                        *)
Interrupted == HasEncrypted /\ Decrypts(sidecar) /\ ~Decrypts(master)

(* rotateMasterKey.  When the active key comes from the environment the    *)
(* key files are left alone.                                               *)
BeginRotation(k) ==
  /\ stage = "stopped" /\ HasEncrypted /\ Resolved # NoMasterKey
  /\ FollowsRunbook => ~Interrupted
  /\ key' = Resolved /\ newKey' = k
  /\ fromFile' = (env = NoMasterKey)
  /\ stage' = IF env = NoMasterKey THEN "rotating" ELSE "replaced"
  /\ UNCHANGED <<cell, master, sidecar, env, made>>

SkipPreserve ==
  /\ stage = "rotating"
  /\ stage' = "preserved"
  /\ UNCHANGED <<cell, master, sidecar, env, made, key, newKey, fromFile>>

PreserveKey ==
  /\ stage = "rotating"
  /\ sidecar' = master
  /\ stage' = "preserved"
  /\ UNCHANGED <<cell, master, env, made, key, newKey, fromFile>>

ReplaceKey ==
  /\ stage = "preserved"
  /\ master' = newKey
  /\ stage' = "replaced"
  /\ UNCHANGED <<cell, sidecar, env, made, key, newKey, fromFile>>

(* RotateSecrets: one transaction. *)
RotateSecrets ==
  /\ stage = "replaced" /\ Decrypts(key)
  /\ cell' = Reencrypted(newKey)
  /\ Exit
  /\ UNCHANGED <<master, sidecar, env, made>>

(* A secret the old key cannot decrypt, or any error of the database. *)
RotationFails ==
  /\ stage = "replaced"
  /\ IF fromFile THEN stage' = "failed" /\ UNCHANGED <<key, newKey, fromFile>> ELSE Exit
  /\ UNCHANGED <<cell, master, sidecar, env, made>>

RestoreKey ==
  /\ stage = "failed"
  /\ master' = key
  /\ Exit
  /\ UNCHANGED <<cell, sidecar, env, made>>

(* The operator, between two processes: the environment, and the runbook's *)
(* cp master.key.previous master.key.                                      *)
SetEnvironment(k) ==
  /\ stage = "stopped" /\ env # k
  /\ env' = k
  /\ UNCHANGED <<cell, master, sidecar, made, stage, key, newKey, fromFile>>

CopySidecarBack ==
  /\ stage = "stopped" /\ sidecar # NoMasterKey /\ Interrupted
  /\ master' = sidecar
  /\ UNCHANGED <<cell, sidecar, env, made, stage, key, newKey, fromFile>>

ServiceSteps ==
  \/ StartWithKey \/ StartGenerating \/ Migrate
  \/ \E s \in Secrets : SaveSecret(s) \/ DropSecret(s)

RotationSteps ==
  \/ \E k \in OperatorKeys : BeginRotation(k)
  \/ PreserveKey \/ ReplaceKey \/ RotateSecrets \/ RotationFails \/ RestoreKey

OperatorSteps == CopySidecarBack \/ \E k \in OperatorKeys \cup {NoMasterKey} : SetEnvironment(k)

SecretKeysNext == ServiceSteps \/ RotationSteps \/ OperatorSteps \/ Die

SecretKeysSpec == SecretKeysInit /\ [][SecretKeysNext]_secretVars

-----------------------------------------------------------------------------
(* All ciphertext is under one key, whatever step a start or a rotation    *)
(* dies at: "a wrong key must change nothing" (MigrateSecrets), "a wrong   *)
(* old key cannot silently corrupt credentials" (RotateSecrets).           *)
OneKeyForAll ==
  \A s, t \in Secrets : (cell[s] \in MasterKeys /\ cell[t] \in MasterKeys) => cell[s] = cell[t]

(* An unlocked service can read every secret and keeps none in plain text. *)
ServedIsSealed ==
  (stage = "serving" /\ key # NoMasterKey) => \A s \in Secrets : cell[s] \in {Empty, key}

SecretsStaySealed == OneKeyForAll /\ ServedIsSealed

(* "Rotation is crash-safe": a stored secret can always be decrypted with  *)
(* a key that is in a key file, or that an operator supplied.  It holds    *)
(* when operators follow the runbook; a rotation started again after an    *)
(* interrupted one overwrites the only copy of a generated key.            *)
KeyNeverLost ==
  \A s \in Secrets : cell[s] \in MasterKeys => cell[s] \in OperatorKeys \cup {master, sidecar}

(* What the key files and the sealed columns promise as a whole.           *)
SecretsHold == SecretKeysTypeOK /\ SecretsStaySealed /\ KeyNeverLost
=============================================================================
