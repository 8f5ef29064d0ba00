----------------------------- MODULE HostBackup -----------------------------
(***************************************************************************)
(* internal/backup's Create and Restore, over the state the operators'      *)
(* commands keep: the store, the key file and the authorized_keys files in   *)
(* the data directory, and the two Caddy files beside it.  Each step can     *)
(* fail, or be the last before a crash.  As the documentation asks, no       *)
(* command runs meanwhile, and a restore that broke off is repeated.         *)
(***************************************************************************)
EXTENDS AppConfig, SSHAccess

CONSTANT MaxBackups  \* bound: backups created

ASSUME HostBackupAssumption == MaxBackups \in Nat

VARIABLES
  caddy,    \* [CaddyFiles -> content]
  whole,    \* the data directory is there, complete
  archive,  \* [Places -> what an archive at such a path holds, None without one]
  backup,   \* step of `sshdock backup`
  place,    \* the archive it writes or restores
  stage,    \* what its temporary directory holds, None without one
  lost,     \* history: a restore of an archive in the data directory broke off
            \* after removing it
  backups

backupVars == <<caddy, whole, archive, backup, place, stage, lost, backups>>
dataVars == <<keyFile, sealed, table, file>>
commandVars == <<pc, started, generated, staged, held, naming, reading, listed, alone>>
vars == <<processVars, configVars, accessVars, backupVars>>

CaddyFiles == {"generated", "main"}
CaddyContents == {"absent", "old", "new", "torn"}
Places == {"inside", "outside"}  \* of the data directory; inside is the default
BackupSteps == {"idle", "publish", "remove", "move", "open generated", "write generated",
                "open main", "write main", "restored"}
Snapshots ==
  [key : Keys \cup {None}, sealed : [Names -> Keys \cup {None}], table : SUBSET KeyNames,
   file : [Files -> [names : SUBSET KeyNames, mixed : BOOLEAN]], caddy : [CaddyFiles -> CaddyContents]]

TypeOK ==
  /\ pc \in [Workers -> {"idle"} \cup ConfigSteps \cup AccessSteps]
  /\ paused \in BOOLEAN
  /\ started \in 0 .. MaxCommands
  /\ ConfigTypeOK /\ AccessTypeOK
  /\ caddy \in [CaddyFiles -> CaddyContents]
  /\ whole \in BOOLEAN
  /\ archive \in [Places -> Snapshots \cup {None}]
  /\ backup \in BackupSteps
  /\ place \in Places
  /\ stage \in Snapshots \cup {None}
  /\ lost \in BOOLEAN
  /\ backups \in 0 .. MaxBackups

Init ==
  /\ pc = [w \in Workers |-> "idle"] /\ paused = FALSE /\ started = 0
  /\ ConfigInit /\ AccessInit
  /\ caddy \in {[f \in CaddyFiles |-> c] : c \in {"absent", "old"}}
  /\ whole = TRUE
  /\ archive = [p \in Places |-> None]
  /\ backup = "idle" /\ place = "inside" /\ stage = None
  /\ lost = FALSE /\ backups = 0

-----------------------------------------------------------------------------
Live == [key |-> keyFile, sealed |-> sealed, table |-> table, file |-> file, caddy |-> caddy]

Continue(here, next) == backup = here /\ backup' = next

(* RouteService rewrites the generated Caddyfile. *)
WriteRoutes ==
  /\ ~paused
  /\ caddy' \in {[caddy EXCEPT !["generated"] = c] : c \in {"old", "new"}}
  /\ UNCHANGED <<processVars, configVars, accessVars, whole, archive, backup, place, stage, lost, backups>>

-----------------------------------------------------------------------------
(* Create copies into a file beside the destination, then renames it.  The  *)
(* backups directory and the destination are left out.                      *)
BeginBackup(p) ==
  /\ ~paused /\ AllIdle /\ backups < MaxBackups
  /\ Continue("idle", "publish")
  /\ paused' = TRUE /\ place' = p /\ backups' = backups + 1
  /\ UNCHANGED <<pc, started, configVars, accessVars, caddy, whole, archive, stage, lost>>

PublishArchive ==
  /\ Continue("publish", "idle")
  /\ paused' = FALSE
  /\ archive' = [archive EXCEPT ![place] = Live]
  /\ UNCHANGED <<pc, started, configVars, accessVars, caddy, whole, place, stage, lost, backups>>

BackupFails ==
  /\ Continue("publish", "idle")
  /\ paused' = FALSE
  /\ UNCHANGED <<pc, started, configVars, accessVars, caddy, whole, archive, place, stage, lost, backups>>

-----------------------------------------------------------------------------
(* Restore extracts and validates into a directory beside the data, before  *)
(* it touches anything.                                                     *)
BeginRestore(p) ==
  /\ AllIdle
  /\ archive[p] # None
  /\ Continue("idle", "remove")
  /\ paused' = TRUE /\ place' = p
  /\ stage' = archive[p]
  /\ UNCHANGED <<pc, started, configVars, accessVars, caddy, whole, archive, lost, backups>>

(* What os.RemoveAll has removed of the data directory. *)
Gone(parts) ==
  /\ keyFile' = IF "key" \in parts THEN None ELSE keyFile
  /\ sealed' = IF "store" \in parts THEN [n \in Names |-> None] ELSE sealed
  /\ table' = IF "store" \in parts THEN {} ELSE table
  /\ file' = IF "files" \in parts THEN [f \in Files |-> Empty] ELSE file
  /\ archive' = IF "backups" \in parts THEN [archive EXCEPT !["inside"] = None] ELSE archive
  /\ whole' = FALSE /\ settled' = FALSE
Parts == {"key", "store", "files", "backups"}

StageRemovedToo == None
StageKept == stage
RemoveData ==
  /\ Continue("remove", "move")
  /\ Gone(Parts)
  /\ stage' = StageKept
  /\ UNCHANGED <<commandVars, paused, caddy, place, lost, backups>>

(* The deferred removal of the temporary directory runs on every error; a   *)
(* crash leaves it.                                                         *)
BreaksOff(kept) ==
  /\ backup' = "idle"
  /\ stage' = kept
  /\ lost' = (lost \/ (kept = None /\ place = "inside" /\ archive'["inside"] = None))
  /\ UNCHANGED <<commandVars, caddy, place, backups>>

RemoveBreaksOff(parts, kept) ==
  /\ backup = "remove"
  /\ Gone(parts)
  /\ BreaksOff(kept) /\ UNCHANGED paused

(* The rename of the extracted data into its place. *)
MoveData ==
  /\ stage # None
  /\ Continue("move", "open generated")
  /\ keyFile' = stage.key /\ sealed' = stage.sealed
  /\ table' = stage.table /\ file' = stage.file
  /\ whole' = TRUE
  /\ UNCHANGED <<commandVars, settled, paused, caddy, archive, place, stage, lost, backups>>

MoveBreaksOff(kept) ==
  /\ backup = "move"
  /\ UNCHANGED <<dataVars, settled, paused, whole, archive>>
  /\ BreaksOff(kept)

(* restoreOptionalFile: what the archive lacks is left as it is. *)
IsArchived(f) == stage.caddy[f] # "absent"
OpenCaddyFile(f, here, write, next) ==
  /\ backup = here
  /\ IF IsArchived(f)
     THEN Continue(here, write) /\ caddy' = [caddy EXCEPT ![f] = "torn"]
     ELSE Continue(here, next) /\ UNCHANGED caddy
  /\ UNCHANGED <<processVars, configVars, accessVars, whole, archive, place, stage, lost, backups>>
WriteCaddyFile(f, here, next) ==
  /\ Continue(here, next)
  /\ caddy' = [caddy EXCEPT ![f] = stage.caddy[f]]
  /\ UNCHANGED <<processVars, configVars, accessVars, whole, archive, place, stage, lost, backups>>

LeaveGenerated ==
  /\ Continue("open generated", "open main")
  /\ UNCHANGED <<processVars, configVars, accessVars, caddy, whole, archive, place, stage, lost, backups>>
OpenGenerated == OpenCaddyFile("generated", "open generated", "write generated", "open main")
WriteGenerated == WriteCaddyFile("generated", "write generated", "open main")
OpenMain == OpenCaddyFile("main", "open main", "write main", "restored")
WriteMain == WriteCaddyFile("main", "write main", "restored")

(* The data is restored, a Caddy file may not be: the operator is told. *)
CaddyBreaksOff ==
  /\ backup \in {"open generated", "write generated", "open main", "write main"}
  /\ backup' = "idle" /\ stage' = None /\ paused' = FALSE
  /\ UNCHANGED <<pc, started, configVars, accessVars, caddy, whole, archive, place, lost, backups>>

EndRestore ==
  /\ Continue("restored", "idle")
  /\ stage' = None /\ paused' = FALSE
  /\ UNCHANGED <<pc, started, configVars, accessVars, caddy, whole, archive, place, lost, backups>>

Next ==
  \/ \E w \in Workers :
       \/ ConfigCommand(w) /\ UNCHANGED <<accessVars, backupVars>>
       \/ AccessCommand(w) /\ UNCHANGED <<configVars, backupVars>>
  \/ WriteRoutes
  \/ \E p \in Places : BeginBackup(p) \/ BeginRestore(p)
  \/ PublishArchive \/ BackupFails
  \/ RemoveData \/ MoveData
  \/ \E kept \in {stage, None} :
       \/ \E parts \in SUBSET Parts : RemoveBreaksOff(parts, kept)
       \/ MoveBreaksOff(kept)
  \/ CaddyBreaksOff \/ OpenGenerated \/ WriteGenerated \/ OpenMain \/ WriteMain \/ EndRestore

Spec == Init /\ [][Next]_vars

-----------------------------------------------------------------------------
(* A restore that reports success has replaced all of it: the store, its    *)
(* key and the authorized_keys files by those of one archive, and each Caddy *)
(* file the archive has.                                                    *)
RestoreIsWhole ==
  backup = "restored" =>
    /\ whole
    /\ [Live EXCEPT !.caddy = stage.caddy] = stage
    /\ \A f \in CaddyFiles : stage.caddy[f] # "absent" => caddy[f] = stage.caddy[f]

(* There is always something to go on from: the data directory, an archive,  *)
(* or the copy in the temporary directory.  The one exception is a restore   *)
(* of an archive within the data directory, the default place, that breaks   *)
(* off once RemoveAll has taken that archive too.                           *)
StateIsRecoverable ==
  whole \/ stage # None \/ lost \/ \E p \in Places : archive[p] # None
=============================================================================
