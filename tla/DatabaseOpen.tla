---------------------------- MODULE DatabaseOpen ----------------------------
(***************************************************************************)
(* A start of the service: database.Open takes the rollback snapshot,      *)
(* migrates the central database, opens and upgrades the Activity file and *)
(* moves the request logs of older releases into it; server.New then       *)
(* bootstraps a hosted instance.  Each statement commits on its own, and   *)
(* the process may fail or be killed between any two of them, so every     *)
(* start resumes what the ones before left.                                *)
(*                                                                         *)
(* A log is one row of request_logs; the ones in Tried have an attempt in  *)
(* request_attempts too.  A log carries a count of input tokens that the   *)
(* provider reported (Counted), or one that was estimated (Guessed), or    *)
(* none; a log of Old was written by a release that left its route_status  *)
(* 'legacy'.  The sources of output counts follow the same statements.     *)
(***************************************************************************)
EXTENDS Naturals, FiniteSets, Sequences

CONSTANTS
  Logs, Counted, Guessed, Old, Tried,
  LogsMigration,   \* creates the central request_logs (003)
  Tenancy,         \* 028_accounts.sql
  Split,           \* the first release with an Activity file (035)
  Newest           \* the migrations this release knows are 1..Newest

ASSUME DatabaseAssumption ==
  /\ Counted \cup Guessed \cup Old \cup Tried \subseteq Logs
  /\ Counted \cap Guessed = {} /\ Old \cap Guessed = {}
  /\ {LogsMigration, Tenancy, Split, Newest} \subseteq Nat
  /\ 0 < LogsMigration /\ LogsMigration < Tenancy /\ Tenancy < Split /\ Split <= Newest

VARIABLES
  \* the central database
  ledger,       \* the table schema_migrations is there
  schema,       \* the migrations applied are 1..schema
  unknown,      \* a newer release has applied its own
  installed,    \* PRAGMA application_id is set
  marker,       \* platform_settings.hosted_bootstrap_complete
  owner,        \* who owns the local account
  table,        \* the central request_logs and request_attempts are there
  central, centralTries,
  \* the Activity file
  file, columns, versions, acts, actTries,
  legacy,       \* its rows with route_status 'legacy'
  flagged,      \* its rows with input_tokens_estimated = 1
  reported, estimated,   \* its rows with that input_tokens_source
  \* the snapshots in the backup directory, this installation's and another's
  shelf, saved,
  \* the process
  boot, fresh, hostedMode, override, handle,
  \* history
  logged,      \* the logs there ever were
  removed,      \* those an operator or the retention removed
  moved,        \* those of the Activity file that came from the central one
  since,        \* those an earlier release wrote after the snapshot
  born,         \* how the database was created
  cut           \* its first start, a hosted one, did not reach the marker

schemaVars == <<ledger, schema, unknown, installed, marker, owner>>
centralVars == <<table, central, centralTries>>
rowVars == <<acts, actTries, legacy, flagged, reported, estimated>>
fileVars == <<file, columns, versions, rowVars>>
shelfVars == <<shelf, saved>>
processVars == <<fresh, hostedMode, override, handle>>
historyVars == <<logged, removed, moved, since, born, cut>>
databaseVars == <<schemaVars, centralVars, fileVars, shelfVars, boot, processVars, historyVars>>

\* The additive columns in the order they are added; "cost" stands for the two
\* of 002.  The data rewrites in theirs; "005" is the provenance backfill.
Upgrades == <<"cost", "estimated", "input_source", "output_source", "stripped">>
Columns == {Upgrades[i] : i \in DOMAIN Upgrades}
CurrentColumns == Columns \ {"estimated"}
Rewrites == <<"003", "005", "007">>
Versions == {"003", "005", "006", "007"}

Boots == {"stopped", "opened", "copying", "ledger", "migrating", "marking", "activity", "columns",
          "rewriting", "dropping", "dropped", "move", "copied", "verify", "bootstrap", "serving"}
CopyStates == {"none", "empty", "partial", "whole"}
Saved == [schema : 0..Newest, logs : SUBSET Logs, tries : SUBSET Logs]
NoSave == [schema |-> 0, logs |-> {}, tries |-> {}]

-----------------------------------------------------------------------------
(* The databases that releases leave: none; a central one that still holds *)
(* the logs; or one whose Activity file has the columns and the rewrites   *)
(* of some earlier release.                                                *)
Shapes ==
  {[columns |-> {}, versions |-> {}],
   [columns |-> {"cost", "estimated"}, versions |-> {}],
   [columns |-> {"cost", "estimated"}, versions |-> {"003"}],
   [columns |-> {"cost", "input_source", "output_source"}, versions |-> {"003", "005", "006"}],
   [columns |-> {"cost", "input_source", "output_source"}, versions |-> Versions],
   [columns |-> CurrentColumns, versions |-> Versions]}

NoFile ==
  /\ file = FALSE /\ columns = {} /\ versions = {} /\ acts = {} /\ actTries = {}
  /\ legacy = {} /\ flagged = {} /\ reported = {} /\ estimated = {}

NoDatabase ==
  /\ ledger = FALSE /\ schema = 0 /\ table = FALSE /\ central = {} /\ owner = "nobody" /\ NoFile

CentralRelease ==
  /\ ledger = TRUE /\ schema \in LogsMigration..(Split - 1) /\ table = TRUE
  /\ central \in SUBSET (Logs \ Guessed) /\ owner = "nobody" /\ NoFile

SplitRelease ==
  /\ ledger = TRUE /\ schema \in Split..Newest /\ table = FALSE /\ central = {}
  /\ owner \in {"nobody", "operator"}
  /\ file = TRUE /\ \E shape \in Shapes : columns = shape.columns /\ versions = shape.versions
  /\ acts \in SUBSET (IF columns = {} THEN Logs \ Guessed ELSE Logs) /\ actTries = acts \cap Tried
  /\ legacy = IF "003" \in versions THEN {} ELSE acts \cap Old
  /\ flagged = IF "005" \in versions THEN {} ELSE acts \cap Guessed
  /\ reported = IF "005" \in versions THEN acts \cap Counted ELSE {}
  /\ estimated = IF "005" \in versions THEN acts \cap Guessed ELSE {}

DatabaseInit ==
  /\ NoDatabase \/ CentralRelease \/ SplitRelease
  /\ centralTries = central \cap Tried
  /\ unknown = FALSE /\ installed = FALSE /\ marker = FALSE
  /\ shelf \in [{"this", "other"} -> CopyStates] /\ shelf["this"] = "none" /\ saved = NoSave
  /\ boot = "stopped" /\ fresh = FALSE /\ hostedMode = FALSE /\ override = FALSE
  /\ handle = FALSE
  /\ logged = central \cup acts /\ removed = {} /\ moved = {} /\ since = {}
  /\ born = "before" /\ cut = FALSE

-----------------------------------------------------------------------------
(* Between two starts.                                                     *)

\* An earlier release, of before the tenancy, runs for a while.
OlderRelease ==
  /\ boot = "stopped" /\ ledger /\ schema < Tenancy
  /\ \E to \in schema..(Tenancy - 1) :
       /\ to >= LogsMigration /\ schema' = to /\ table' = TRUE
       /\ \E new \in SUBSET (Logs \ (logged \cup Guessed)) :
            /\ central' = central \cup new /\ centralTries' = centralTries \cup (new \cap Tried)
            /\ logged' = logged \cup new /\ since' = since \cup new
  /\ UNCHANGED <<ledger, unknown, installed, marker, owner, fileVars, shelfVars, boot, processVars,
                 removed, moved, born, cut>>

\* A later release applies a migration this one does not know.
NewerRelease ==
  /\ boot = "stopped" /\ ledger /\ schema = Newest
  /\ unknown' = TRUE
  /\ UNCHANGED <<ledger, schema, installed, marker, owner, centralVars, fileVars, shelfVars, boot,
                 processVars, historyVars>>

\* The runbook's downgrade: the snapshot takes the place of the database.
Restore ==
  /\ boot = "stopped" /\ shelf["this"] = "whole"
  /\ ledger' = TRUE /\ schema' = saved.schema /\ unknown' = FALSE /\ installed' = TRUE
  /\ marker' = FALSE /\ owner' = "nobody"
  /\ table' = (saved.schema >= LogsMigration)
  /\ central' = saved.logs /\ centralTries' = saved.tries
  /\ removed' = removed \cup {l \in central \ saved.logs : l \notin acts \/ l \in Tried \ actTries}
  /\ born' = "before"
  /\ UNCHANGED <<fileVars, shelfVars, boot, processVars, logged, moved, since, cut>>

\* The Activity file is disposable: it may be lost or removed.
LoseFile ==
  /\ boot = "stopped" /\ file
  /\ file' = FALSE /\ columns' = {} /\ versions' = {} /\ acts' = {} /\ actTries' = {}
  /\ legacy' = {} /\ flagged' = {} /\ reported' = {} /\ estimated' = {}
  /\ removed' = removed \cup (acts \ central) /\ moved' = {}
  /\ UNCHANGED <<schemaVars, centralVars, shelfVars, boot, processVars, logged, since, born,
                 cut>>

-----------------------------------------------------------------------------
(* The start: the rollback snapshot.                                       *)
Go(to) == boot' = to

OpenDatabase ==
  /\ boot = "stopped"
  /\ hostedMode' \in BOOLEAN /\ override' \in BOOLEAN
  /\ fresh' = ~ledger /\ born' = IF ledger THEN born ELSE IF hostedMode' THEN "hosted" ELSE "local"
  /\ cut' = (ledger /\ cut)
  /\ Go("opened")
  /\ UNCHANGED <<schemaVars, centralVars, fileVars, shelfVars, handle, logged, removed,
                 moved, since>>

\* The process is killed, or returns the error of a statement.
Halt ==
  /\ Go("stopped") /\ fresh' = FALSE /\ hostedMode' = FALSE /\ override' = FALSE
  /\ handle' = FALSE
  /\ cut' = (cut \/ (fresh /\ hostedMode /\ ledger /\ ~marker))

SnapshotNeeded == ledger /\ schema < Tenancy

NoSnapshot ==
  /\ boot = "opened" /\ ~SnapshotNeeded /\ Go("ledger")
  /\ UNCHANGED <<schemaVars, centralVars, fileVars, shelfVars, processVars, historyVars>>

SetInstallationID ==
  /\ boot = "opened" /\ SnapshotNeeded /\ ~installed /\ installed' = TRUE
  /\ UNCHANGED <<ledger, schema, unknown, marker, owner, centralVars, fileVars, shelfVars, boot,
                 processVars, historyVars>>

\* A file of this installation is taken for its snapshot when SQLite finds
\* nothing wrong with it: neither with a complete one nor with an empty one.
AnyCandidate(name) == IF shelf["other"] # "none" THEN shelf["other"] ELSE shelf[name]  \* a mutant
Candidate(name) == shelf[name]
Verifies(state) == state \in {"empty", "whole"}

ReuseSnapshot ==
  /\ boot = "opened" /\ SnapshotNeeded /\ installed /\ Candidate("this") # "none"
  /\ Verifies(Candidate("this")) /\ Go("ledger")
  /\ UNCHANGED <<schemaVars, centralVars, fileVars, shelfVars, processVars, historyVars>>

\* VACUUM INTO has begun.
BeginSnapshot ==
  /\ boot = "opened" /\ SnapshotNeeded /\ installed /\ Candidate("this") = "none"
  /\ Go("copying")
  /\ UNCHANGED <<schemaVars, centralVars, fileVars, shelfVars, processVars, historyVars>>

FinishSnapshot ==
  /\ boot = "copying" /\ Go("ledger")
  /\ shelf' = [shelf EXCEPT !["this"] = "whole"]
  /\ saved' = [schema |-> schema, logs |-> central, tries |-> centralTries] /\ since' = {}
  /\ UNCHANGED <<schemaVars, centralVars, fileVars, processVars, logged, removed, moved, born, cut>>

\* It fails, and leaves the file empty, or it is killed half way.
BreakSnapshot ==
  /\ boot = "copying" /\ Halt
  /\ \E left \in {"none", "empty", "partial"} :
       shelf' = [shelf EXCEPT !["this"] = left]
  /\ UNCHANGED <<schemaVars, centralVars, fileVars, saved, logged, removed, moved, since,
                 born>>

\* An error, which closes the database and ends the process, or a kill.
CutShort ==
  /\ boot \notin {"stopped", "copying"} /\ Halt
  /\ UNCHANGED <<schemaVars, centralVars, fileVars, shelfVars, logged, removed, moved, since,
                 born>>

-----------------------------------------------------------------------------
(* The start: the migrations of the central database.  The ledger is       *)
(* created before an unknown migration is refused.                         *)
CreateLedger ==
  /\ boot = "ledger" /\ ledger' = TRUE
  /\ IF unknown /\ ~override
       THEN Halt
       ELSE Go("migrating") /\ UNCHANGED <<processVars, cut>>
  /\ UNCHANGED <<schema, unknown, installed, marker, owner, centralVars, fileVars, shelfVars,
                 logged, removed, moved, since, born>>

\* One migration and its row of the ledger, in one transaction.
ApplyMigration ==
  /\ boot = "migrating" /\ schema < Newest
  /\ schema' = schema + 1
  /\ table' = (table \/ schema' = LogsMigration)
  /\ UNCHANGED <<ledger, unknown, installed, marker, owner, central, centralTries, fileVars,
                 shelfVars, boot, processVars, historyVars>>

\* All are applied and checkForeignKeys finds nothing.
Migrated ==
  /\ boot = "migrating" /\ schema = Newest /\ Go("marking")
  /\ UNCHANGED <<schemaVars, centralVars, fileVars, shelfVars, processVars, historyVars>>

MarkFresh ==
  /\ boot = "marking" /\ Go("activity")
  /\ marker' = (marker \/ (fresh /\ hostedMode))
  /\ UNCHANGED <<ledger, schema, unknown, installed, owner, centralVars, fileVars, shelfVars,
                 processVars, historyVars>>

-----------------------------------------------------------------------------
(* The start: OpenActivity.  A failure anywhere leaves the service without *)
(* Activity, and the file as it is.                                        *)
OpenFile ==
  /\ boot = "activity" /\ Go("columns") /\ file' = TRUE
  /\ columns' = IF file THEN columns ELSE CurrentColumns
  /\ UNCHANGED <<schemaVars, centralVars, versions, rowVars, shelfVars, processVars, historyVars>>

Wanted == {c \in Columns \ columns : c = "estimated" => "006" \notin versions}
Position(c) == CHOOSE i \in DOMAIN Upgrades : Upgrades[i] = c
NextColumn(c) == c \in Wanted /\ \A d \in Wanted : Position(c) <= Position(d)

\* The column begins with its default: nothing is flagged, no source is known.
AddColumn ==
  /\ boot = "columns"
  /\ \E c \in Columns :
       /\ NextColumn(c) /\ columns' = columns \cup {c}
       /\ flagged' = IF c = "estimated" THEN {} ELSE flagged
  /\ UNCHANGED <<schemaVars, centralVars, file, versions, acts, actTries, legacy, reported, estimated,
                 shelfVars, boot, processVars, historyVars>>

ColumnsThere ==
  /\ boot = "columns" /\ Wanted = {} /\ Go("rewriting")
  /\ UNCHANGED <<schemaVars, centralVars, fileVars, shelfVars, processVars, historyVars>>

Unsourced == acts \ (reported \cup estimated)

\* A rewrite and its version row, in one transaction.
Rewrite ==
  /\ boot = "rewriting"
  /\ \E i \in DOMAIN Rewrites :
       /\ Rewrites[i] \notin versions /\ \A j \in 1..(i - 1) : Rewrites[j] \in versions
       /\ versions' = versions \cup {Rewrites[i]}
       /\ legacy' = IF Rewrites[i] = "003" THEN {} ELSE legacy
       /\ IF Rewrites[i] = "005"
            THEN /\ estimated' = estimated \cup (Unsourced \cap flagged)
                 /\ reported' = reported \cup ((Unsourced \ flagged) \cap (Counted \cup Guessed))
            ELSE UNCHANGED <<estimated, reported>>
  /\ UNCHANGED <<schemaVars, centralVars, file, columns, acts, actTries, flagged, shelfVars, boot,
                 processVars, historyVars>>

\* A mutant: the retired column is dropped before it is read.
RewrittenInPart ==
  /\ boot = "rewriting" /\ "003" \in versions /\ Go("dropping")
  /\ UNCHANGED <<schemaVars, centralVars, fileVars, shelfVars, processVars, historyVars>>

Rewritten ==
  /\ boot = "rewriting" /\ {Rewrites[i] : i \in DOMAIN Rewrites} \subseteq versions
  /\ Go("dropping")
  /\ UNCHANGED <<schemaVars, centralVars, fileVars, shelfVars, processVars, historyVars>>

\* The version is recorded by another statement, once the column is gone.
DropColumn ==
  /\ boot = "dropping" /\ "estimated" \in columns /\ Go("dropped")
  /\ columns' = columns \ {"estimated"} /\ flagged' = {}
  /\ UNCHANGED <<schemaVars, centralVars, file, versions, acts, actTries, legacy, reported, estimated,
                 shelfVars, processVars, historyVars>>

FileIsReady ==
  /\ \/ boot = "dropping" /\ "estimated" \notin columns /\ UNCHANGED versions
     \/ boot = "dropped" /\ versions' = versions \cup {"006"}
  /\ Go("move") /\ handle' = TRUE
  /\ UNCHANGED <<schemaVars, centralVars, file, columns, rowVars, shelfVars, fresh, hostedMode, override,
                 historyVars>>

ActivityFails ==
  /\ boot \in {"activity", "columns", "rewriting", "dropping", "dropped"}
  /\ Go("move") /\ handle' = FALSE
  /\ UNCHANGED <<schemaVars, centralVars, fileVars, shelfVars, fresh, hostedMode, override,
                 historyVars>>

-----------------------------------------------------------------------------
(* The start: migrateActivity, whose statements commit one by one.         *)
NothingToMove ==
  /\ boot = "move" /\ (~handle \/ ~table) /\ Go("bootstrap")
  /\ UNCHANGED <<schemaVars, centralVars, fileVars, shelfVars, processVars, historyVars>>

\* INSERT OR REPLACE: the copied row takes the place of one that is there, and
\* has the defaults in the columns the central table never had.
CopyLogs ==
  /\ boot = "move" /\ handle /\ table /\ Go("copied")
  /\ acts' = acts \cup central
  /\ legacy' = (legacy \ central) \cup (central \cap Old)
  /\ flagged' = flagged \ central /\ reported' = reported \ central
  /\ estimated' = estimated \ central
  /\ moved' = moved \cup central
  /\ UNCHANGED <<schemaVars, centralVars, file, columns, versions, actTries, shelfVars, processVars,
                 logged, removed, since, born, cut>>

CopyTries ==
  /\ boot = "copied" /\ Go("verify")
  /\ actTries' = actTries \cup centralTries
  /\ UNCHANGED <<schemaVars, centralVars, file, columns, versions, acts, legacy, flagged, reported,
                 estimated, shelfVars, processVars, historyVars>>

\* Both tables are dropped, in one transaction, if no row of either is missing.
Copied == central \subseteq acts /\ centralTries \subseteq actTries

DropCentral ==
  /\ boot = "verify" /\ Copied /\ Go("bootstrap")
  /\ table' = FALSE /\ central' = {} /\ centralTries' = {}
  /\ UNCHANGED <<schemaVars, fileVars, shelfVars, processVars, historyVars>>

-----------------------------------------------------------------------------
(* The start: server.New.  A hosted one whose bootstrap is not recorded    *)
(* converts the local account if it is given credentials; without them a   *)
(* fresh one records that there is nothing to convert, any other fails.    *)
Local ==
  /\ boot = "bootstrap" /\ ~hostedMode /\ Go("serving")
  /\ UNCHANGED <<schemaVars, centralVars, fileVars, shelfVars, processVars, historyVars>>

BootstrapSkipped == boot = "bootstrap" /\ hostedMode /\ marker
BootstrapFresh == boot = "bootstrap" /\ hostedMode /\ ~marker /\ fresh
BootstrapConverts == boot = "bootstrap" /\ hostedMode /\ ~marker /\ owner # "customer"

BootstrapHostedCustomer ==
  /\ \/ BootstrapSkipped /\ UNCHANGED owner
     \/ BootstrapFresh /\ UNCHANGED owner
     \/ BootstrapConverts /\ owner' = "customer"
  /\ marker' = TRUE /\ Go("serving")
  /\ UNCHANGED <<ledger, schema, unknown, installed, centralVars, fileVars, shelfVars, processVars,
                 historyVars>>

-----------------------------------------------------------------------------
(* The service runs: what it writes of all this.                           *)
EnsureLocalOperator ==
  /\ boot = "serving" /\ ~hostedMode /\ owner = "nobody" /\ owner' = "operator"
  /\ UNCHANGED <<ledger, schema, unknown, installed, marker, centralVars, fileVars, shelfVars, boot,
                 processVars, historyVars>>

\* Without the Activity file nothing is logged.
Log(l) ==
  /\ boot = "serving" /\ handle /\ l \notin logged \cup Old
  /\ acts' = acts \cup {l} /\ actTries' = actTries \cup ({l} \cap Tried)
  /\ reported' = reported \cup ({l} \cap Counted) /\ estimated' = estimated \cup ({l} \cap Guessed)
  /\ logged' = logged \cup {l}
  /\ UNCHANGED <<schemaVars, centralVars, file, columns, versions, legacy, flagged, shelfVars, boot,
                 processVars, removed, moved, since, born, cut>>

\* The retention, or an erasure, removes a row and its attempts.
RemoveLog(l) ==
  /\ boot = "serving" /\ handle /\ l \in acts
  /\ acts' = acts \ {l} /\ actTries' = actTries \ {l} /\ legacy' = legacy \ {l}
  /\ flagged' = flagged \ {l} /\ reported' = reported \ {l} /\ estimated' = estimated \ {l}
  /\ removed' = removed \cup {l} /\ moved' = moved \ {l}
  /\ UNCHANGED <<schemaVars, centralVars, file, columns, versions, shelfVars, boot, processVars,
                 logged, since, born, cut>>

DatabaseNext ==
  \/ OlderRelease \/ NewerRelease \/ Restore \/ LoseFile
  \/ OpenDatabase \/ CutShort
  \/ NoSnapshot \/ SetInstallationID \/ ReuseSnapshot
  \/ BeginSnapshot \/ FinishSnapshot \/ BreakSnapshot
  \/ CreateLedger \/ ApplyMigration \/ Migrated \/ MarkFresh
  \/ OpenFile \/ AddColumn \/ ColumnsThere \/ Rewrite \/ Rewritten
  \/ DropColumn \/ FileIsReady \/ ActivityFails
  \/ NothingToMove \/ CopyLogs \/ CopyTries \/ DropCentral
  \/ Local \/ BootstrapHostedCustomer
  \/ EnsureLocalOperator \/ \E l \in Logs : Log(l) \/ RemoveLog(l)

DatabaseSpec == DatabaseInit /\ [][DatabaseNext]_databaseVars

-----------------------------------------------------------------------------
SchemaTypes ==
  /\ ledger \in BOOLEAN /\ schema \in 0..Newest /\ unknown \in BOOLEAN /\ installed \in BOOLEAN
  /\ marker \in BOOLEAN /\ owner \in {"nobody", "operator", "customer"}
CentralTypes == table \in BOOLEAN /\ central \subseteq Logs /\ centralTries \subseteq Tried
FileTypes ==
  /\ file \in BOOLEAN /\ columns \subseteq Columns /\ versions \subseteq Versions
  /\ acts \subseteq Logs /\ actTries \subseteq Tried
  /\ legacy \cup flagged \cup reported \cup estimated \subseteq acts
ShelfTypes == shelf \in [{"this", "other"} -> CopyStates] /\ saved \in Saved
ProcessTypes ==
  /\ boot \in Boots /\ fresh \in BOOLEAN /\ hostedMode \in BOOLEAN /\ override \in BOOLEAN
  /\ handle \in BOOLEAN
HistoryTypes ==
  /\ logged \subseteq Logs /\ removed \subseteq Logs /\ moved \subseteq Logs /\ since \subseteq Logs
  /\ born \in {"before", "hosted", "local"} /\ cut \in BOOLEAN

DatabaseTypeOK ==
  SchemaTypes /\ CentralTypes /\ FileTypes /\ ShelfTypes /\ ProcessTypes /\ HistoryTypes

(* activity.go:469-475: whatever start is interrupted and wherever, no log *)
(* and no attempt of one is lost on its way from one file to the other.    *)
LogsSurvive ==
  /\ logged \ removed \subseteq central \cup acts
  /\ (logged \ removed) \cap Tried \subseteq centralTries \cup actTries

(* activity.go:268-312: the upgrade steps that several starts may share    *)
(* never take an estimate for a provider's count or the other way round;   *)
(* a log that was in the file when its step was recorded has lost neither  *)
(* its source nor kept 'legacy'; and a service that reads the file reads   *)
(* one of the current shape, with nothing left in the central tables.      *)
UpgradesAreFaithful ==
  /\ reported \subseteq Counted /\ estimated \subseteq Guessed
  /\ "005" \in versions =>
       acts \ moved \subseteq reported \cup estimated \cup (Logs \ (Counted \cup Guessed))
  /\ "003" \in versions => legacy \subseteq moved
  /\ boot = "serving" => schema = Newest /\ (unknown => override)
  /\ boot = "serving" /\ handle => columns = CurrentColumns /\ versions = Versions /\ ~table

(* identity.go:407-416: a customer is made of the local account only by a  *)
(* bootstrap that is recorded with it; a hosted install whose first start  *)
(* reached the record never makes one, and no hosted service runs without. *)
BootstrapIsRecorded ==
  /\ owner = "customer" => marker
  /\ owner = "customer" /\ born = "hosted" => cut
  /\ boot = "serving" /\ hostedMode => marker

(* database.go:173-188: an existing database crosses the tenancy migration *)
(* only with a copy of this installation that Verify accepts: a whole one  *)
(* holds every log of it but those an earlier release has written since,   *)
(* and the one other is the empty file a VACUUM INTO leaves that failed or *)
(* was killed.  A copy of another installation, or half of one, never is.  *)
TenancyHasRollback ==
  schema < Tenancy /\ schema' = Tenancy /\ boot = "migrating" =>
    \/ fresh
    \/ shelf["this"] = "empty"
    \/ shelf["this"] = "whole" /\ saved.schema < Tenancy /\ central \subseteq saved.logs \cup since

(* database.go:173, 187-188 and 491-493: an existing database is migrated  *)
(* only with a rollback snapshot that is proved a usable restore point,    *)
(* whatever start took it and wherever that start was cut short.           *)
RollbackIsVerified ==
  boot = "migrating" /\ SnapshotNeeded /\ ~fresh => shelf["this"] = "whole"

DatabaseHolds == DatabaseTypeOK /\ LogsSurvive /\ UpgradesAreFaithful /\ BootstrapIsRecorded
RollbackHolds == [][TenancyHasRollback]_databaseVars
=============================================================================
