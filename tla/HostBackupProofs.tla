-------------------------- MODULE HostBackupProofs --------------------------
(***************************************************************************)
(* Theorems about AppConfig, SSHAccess and HostBackup together, for every   *)
(* set of commands, config names and SSH keys and every bound: what is       *)
(* sealed stays readable, one SSH key command alone heals the key files, and  *)
(* a restore is whole or can be repeated.                                   *)
(***************************************************************************)
EXTENDS HostBackup, FiniteSetTheorems, SequenceTheorems, TLAPS

Opens(key, values) == \A n \in Names : values[n] # None => values[n] = key
Usable(snapshot) == Opens(snapshot.key, snapshot.sealed) /\ IsFiniteSet(snapshot.table)
Exact == [names |-> table, mixed |-> FALSE]

(* Backups and restores have the host to themselves, and the data directory *)
(* is complete but while a restore replaces it, or after one broke off.     *)
WindowAgrees ==
  /\ backup # "idle" \/ ~whole => paused
  /\ paused => AllIdle
  /\ ~whole => backup \in {"idle", "remove", "move"}

(* A command that seals has the key that is in the file, and one that opens  *)
(* has read what that key sealed.                                           *)
ConfigAgrees ==
  /\ whole => Opens(keyFile, sealed)
  /\ \A w \in Workers :
       /\ pc[w] \in {"stage key", "link key", "load key", "seal"} => naming[w] \in Names
       /\ pc[w] = "link key" => staged[w] \in Keys
       /\ pc[w] = "seal" => held[w] \in Keys /\ held[w] = keyFile
       /\ pc[w] = "open" => reading[w] \subseteq {keyFile}

(* A key command that is alone knows the table, and leaves in each file     *)
(* what it lists there.                                                     *)
LoneCommand(w) ==
  /\ pc[w] \in AccessSteps /\ ~Overlaps(w)
  /\ pc[w] # "list" => listed[w] = table
  /\ pc[w] = "write git" => file["git"] = Empty
  /\ pc[w] \in {"open operator", "write operator"} => file["git"] = Exact
  /\ pc[w] = "write operator" => file["operator"] = Empty

AccessAgrees ==
  /\ IsFiniteSet(table)
  /\ settled => whole /\ (\A w \in Workers : pc[w] \notin AccessSteps) /\ (\A f \in Files : file[f] = Exact)
  /\ \A w \in alone : LoneCommand(w)

(* What a restore goes on from, and what it has replaced so far. *)
Writing == {"open generated", "write generated", "open main", "write main", "restored"}
Replaced == keyFile = stage.key /\ sealed = stage.sealed /\ table = stage.table /\ file = stage.file
CaddyReplaced(f) == stage.caddy[f] # "absent" => caddy[f] = stage.caddy[f]

RestoreAgrees ==
  /\ \A p \in Places : archive[p] # None => Usable(archive[p])
  /\ stage # None => Usable(stage)
  /\ backup \in Writing \cup {"remove", "move"} => stage # None
  /\ backup \in {"remove", "move"} /\ place = "outside" => archive["outside"] # None
  /\ backup = "move" => ~whole
  /\ backup \in Writing => Replaced
  /\ backup \in {"open main", "write main", "restored"} => CaddyReplaced("generated")
  /\ backup = "restored" => CaddyReplaced("main")
  /\ StateIsRecoverable

Agrees == TypeOK /\ WindowAgrees /\ ConfigAgrees /\ AccessAgrees /\ RestoreAgrees

(* A host that is set up, without backups. *)
LEMMA InitAgrees == Init => Agrees
<1> SUFFICES ASSUME Init
             PROVE  Agrees
  OBVIOUS
<1> USE DEF Init, ConfigInit, AccessInit
<1>1. TypeOK
  <2>1. ConfigTypeOK
    BY AppConfigAssumption DEF ConfigTypeOK
  <2>2. AccessTypeOK
    BY DEF AccessTypeOK, Empty
  <2>3. caddy \in [CaddyFiles -> CaddyContents]
    BY DEF CaddyContents
  <2>4. 0 \in 0 .. MaxCommands /\ 0 \in 0 .. MaxBackups
    BY OperatorCommandsAssumption, HostBackupAssumption
  <2>5. pc \in [Workers -> {"idle"} \cup ConfigSteps \cup AccessSteps]
    OBVIOUS
  <2>6. archive \in [Places -> Snapshots \cup {None}]
    OBVIOUS
  <2> QED
    BY <2>1, <2>2, <2>3, <2>4, <2>5, <2>6 DEF TypeOK, BackupSteps, Places
<1>2. WindowAgrees
  BY DEF WindowAgrees, AllIdle
<1>3. ConfigAgrees
  BY DEF ConfigAgrees, Opens
<1>4. AccessAgrees
  BY FS_EmptySet DEF AccessAgrees, Exact, Empty, AccessSteps, Files
<1>5. RestoreAgrees
  BY DEF RestoreAgrees, Writing, Places, StateIsRecoverable
<1> QED
  BY <1>1, <1>2, <1>3, <1>4, <1>5 DEF Agrees

-----------------------------------------------------------------------------
(* Commands of operators. *)

(* A command runs outside of a maintenance window. *)
LEMMA CommandsRunOpen ==
  ASSUME Agrees, NEW w \in Workers, ConfigCommand(w) \/ AccessCommand(w), UNCHANGED backupVars
  PROVE  /\ ~paused /\ UNCHANGED paused /\ whole /\ backup = "idle" /\ backup' = "idle"
         /\ started' \in 0 .. MaxCommands
         /\ \E s : pc' = [pc EXCEPT ![w] = s]
<1>1. ~paused /\ UNCHANGED paused /\ started' \in 0 .. MaxCommands
  <2>1. pc[w] # "idle" => ~paused
    BY DEF Agrees, WindowAgrees, AllIdle
  <2>2. started \in 0 .. MaxCommands /\ MaxCommands \in Nat
    BY OperatorCommandsAssumption DEF Agrees, TypeOK
  <2>3. ASSUME NEW s, Start(w, s)
        PROVE  ~paused /\ UNCHANGED paused /\ started' \in 0 .. MaxCommands
    BY <2>2, <2>3 DEF Start
  <2>4. ASSUME NEW h, NEW s, h # "idle", Goto(w, h, s)
        PROVE  ~paused /\ UNCHANGED paused /\ started' \in 0 .. MaxCommands
    BY <2>1, <2>2, <2>4 DEF Goto
  <2>5. CASE ConfigCommand(w)
    BY <2>3, <2>4, <2>5 DEF ConfigCommand, BeginSet, Unset, Reveal, ResolveEnv, BeginRead, StageKey, LinkKey, LoadKey,
       SealValue, Open, StopConfig, Stops
  <2>6. CASE AccessCommand(w)
    BY <2>3, <2>4, <2>6 DEF AccessCommand, AddSSHKey, RemoveSSHKey, ChangeTable, ListSSHKeys, OpenGitFile, WriteGitFile,
       OpenOperatorFile, WriteOperatorFile, Truncate, Write, StopAccess, Stops
  <2> QED
    BY <2>5, <2>6
<1>2. whole /\ backup = "idle" /\ backup' = "idle"
  BY <1>1 DEF Agrees, WindowAgrees, backupVars
<1>3. \E s : pc' = [pc EXCEPT ![w] = s]
  BY DEF ConfigCommand, BeginSet, Unset, Reveal, ResolveEnv, BeginRead, StageKey, LinkKey, LoadKey, SealValue, Open,
     StopConfig, AccessCommand, AddSSHKey, RemoveSSHKey, ChangeTable, ListSSHKeys, OpenGitFile, WriteGitFile,
     OpenOperatorFile, WriteOperatorFile, Truncate, Write, StopAccess, Start, Goto, Stops
<1> QED
  BY <1>1, <1>2, <1>3

(* It leaves alone what backups and restores rely on. *)
LEMMA CommandsKeepBackups ==
  ASSUME Agrees, NEW w \in Workers, ConfigCommand(w) \/ AccessCommand(w), UNCHANGED backupVars
  PROVE  WindowAgrees' /\ RestoreAgrees'
<1>1. ~paused' /\ whole /\ backup = "idle" /\ UNCHANGED <<caddy, whole, archive, backup, place, stage, lost, backups>>
  BY CommandsRunOpen DEF backupVars
<1>2. WindowAgrees'
  BY <1>1 DEF WindowAgrees
<1>3. RestoreAgrees'
  BY <1>1 DEF Agrees, RestoreAgrees, Writing, StateIsRecoverable, Usable, Opens
<1> QED
  BY <1>2, <1>3

(* The config commands. *)
ConfigTyped ==
  /\ ConfigTypeOK
  /\ pc \in [Workers -> {"idle"} \cup ConfigSteps \cup AccessSteps]

(* A config command has nothing of the key commands' steps, before or after. *)
LEMMA ConfigSteppingKinds ==
  ASSUME Agrees, NEW w \in Workers, ConfigCommand(w)
  PROVE  pc[w] \notin AccessSteps /\ \E s \in {"idle"} \cup ConfigSteps : pc' = [pc EXCEPT ![w] = s]
<1> USE DEF ConfigSteps, AccessSteps, Start, Goto, Stops
<1>1. CASE (\E n \in Names : BeginSet(w, n) \/ Unset(w, n) \/ Reveal(w, n)) \/ ResolveEnv(w)
  BY <1>1 DEF BeginSet, LoadOrCreateHostKey, Unset, Reveal, ResolveEnv, BeginRead
<1>2. CASE StageKey(w) \/ LinkKey(w) \/ LoadKey(w) \/ SealValue(w) \/ Open(w) \/ StopConfig(w)
  BY <1>2 DEF StageKey, LinkKey, LoadKey, SealValue, Open, StopConfig
<1> QED
  BY <1>1, <1>2 DEF ConfigCommand

(* The key files are not theirs. *)
LEMMA ConfigKeepsAccess ==
  ASSUME Agrees, NEW w \in Workers, ConfigCommand(w), UNCHANGED <<accessVars, backupVars>>
  PROVE  AccessAgrees'
<1>1. PICK s \in {"idle"} \cup ConfigSteps : pc' = [pc EXCEPT ![w] = s]
  BY ConfigSteppingKinds
<1>2. /\ pc[w] \notin AccessSteps /\ s \notin AccessSteps /\ pc \in [Workers -> {"idle"} \cup ConfigSteps \cup AccessSteps]
      /\ alone \subseteq Workers /\ UNCHANGED <<table, file, listed, alone, settled, whole>>
  BY ConfigSteppingKinds DEF ConfigSteps, AccessSteps, Agrees, TypeOK, AccessTypeOK, accessVars, backupVars
<1>3. \A v \in Workers : v # w => pc'[v] = pc[v]
  BY <1>1, <1>2
<1>4. pc'[w] \notin AccessSteps
  BY <1>1, <1>2
<1>5. w \notin alone
  BY <1>2 DEF Agrees, AccessAgrees, LoneCommand
<1>6. ASSUME NEW v \in alone
      PROVE  LoneCommand(v)'
  <2>1. v # w /\ v \in Workers /\ LoneCommand(v)
    BY <1>2, <1>5, <1>6 DEF Agrees, AccessAgrees
  <2>2. ~Overlaps(v)'
    BY <1>3, <1>4, <2>1 DEF LoneCommand, Overlaps
  <2> QED
    BY <1>2, <1>3, <2>1, <2>2 DEF LoneCommand, Exact
<1> QED
  BY <1>2, <1>3, <1>4, <1>6 DEF Agrees, AccessAgrees, Exact

(* The steps of a config command that read or prepare. *)
LEMMA ConfigReads ==
  ASSUME Agrees, NEW w \in Workers, UNCHANGED backupVars,
         \/ \E n \in Names : BeginSet(w, n) \/ Reveal(w, n)
         \/ ResolveEnv(w) \/ StageKey(w) \/ LoadKey(w) \/ Open(w) \/ StopConfig(w)
  PROVE  ConfigTyped' /\ ConfigAgrees'
<1>1. /\ ConfigTypeOK /\ ConfigAgrees /\ pc \in [Workers -> {"idle"} \cup ConfigSteps \cup AccessSteps]
      /\ UNCHANGED whole /\ MaxKeys \in Nat /\ None \notin Names /\ None \notin Keys
  BY AppConfigAssumption DEF Agrees, TypeOK, backupVars, Keys
<1>2. CASE \E n \in Names : BeginSet(w, n)
  <2>1. PICK n \in Names : BeginSet(w, n)
    BY <1>2
  <2>2. PICK s \in {"stage key", "seal"} : pc' = [pc EXCEPT ![w] = s] /\ (s = "seal" => keyFile # None)
    BY <2>1 DEF BeginSet, LoadOrCreateHostKey, Start
  <2>3. /\ naming' = [naming EXCEPT ![w] = n] /\ held' = [held EXCEPT ![w] = keyFile]
        /\ UNCHANGED <<keyFile, generated, staged, reading, sealed>>
    BY <2>1 DEF BeginSet
  <2>4. ConfigTyped'
    BY <1>1, <2>2, <2>3 DEF ConfigTyped, ConfigTypeOK, ConfigSteps
  <2>5. ConfigAgrees'
    BY <1>1, <2>2, <2>3 DEF ConfigAgrees, ConfigTypeOK, Opens
  <2> QED
    BY <2>4, <2>5
<1>3. ASSUME NEW names \in SUBSET Names, BeginRead(w, names)
      PROVE  ConfigTyped' /\ ConfigAgrees'
  <2>1. whole
    <3>1. ~paused
      BY <1>3 DEF BeginRead, Start
    <3> QED
      BY <3>1 DEF Agrees, WindowAgrees
  <2>2. PICK r : r = {sealed[n] : n \in names} \ {None}
    OBVIOUS
  <2>3. r \subseteq {keyFile} /\ r \subseteq Keys
    BY <1>1, <2>1, <2>2 DEF ConfigAgrees, Opens, ConfigTypeOK
  <2>4. /\ pc' = [pc EXCEPT ![w] = "open"] /\ reading' = [reading EXCEPT ![w] = r]
        /\ UNCHANGED <<keyFile, generated, staged, held, naming, sealed>>
    BY <1>3, <2>2 DEF BeginRead, Start
  <2>5. ConfigTyped'
    BY <1>1, <2>3, <2>4 DEF ConfigTyped, ConfigTypeOK, ConfigSteps
  <2>6. ConfigAgrees'
    BY <1>1, <2>3, <2>4 DEF ConfigAgrees, ConfigTypeOK, Opens
  <2> QED
    BY <2>5, <2>6
<1>4. CASE StageKey(w)
  <2>1. /\ pc[w] = "stage key" /\ pc' = [pc EXCEPT ![w] = "link key"] /\ generated < MaxKeys /\ generated' = generated + 1
        /\ staged' = [staged EXCEPT ![w] = generated + 1] /\ UNCHANGED <<keyFile, held, naming, reading, sealed>>
    BY <1>4 DEF StageKey, Goto
  <2>2. generated + 1 \in Keys /\ generated + 1 \in 0 .. MaxKeys
    <3>1. generated \in 0 .. MaxKeys /\ MaxKeys \in Nat
      BY <1>1 DEF ConfigTypeOK
    <3>2. generated < MaxKeys
      BY <2>1
    <3> QED
      BY <3>1, <3>2 DEF Keys
  <2>3. ConfigTyped'
    BY <1>1, <2>1, <2>2 DEF ConfigTyped, ConfigTypeOK, ConfigSteps
  <2>4. ConfigAgrees'
    BY <1>1, <2>1, <2>2 DEF ConfigAgrees, ConfigTypeOK, Opens
  <2> QED
    BY <2>3, <2>4
<1>5. CASE LoadKey(w)
  <2>1. /\ pc[w] = "load key" /\ pc' = [pc EXCEPT ![w] = "seal"] /\ keyFile # None /\ held' = [held EXCEPT ![w] = keyFile]
        /\ UNCHANGED <<keyFile, generated, staged, naming, reading, sealed>>
    BY <1>5 DEF LoadKey, Goto
  <2>2. naming[w] \in Names /\ keyFile \in Keys
    BY <1>1, <2>1 DEF ConfigAgrees, ConfigTypeOK
  <2>3. ConfigTyped'
    BY <1>1, <2>1, <2>2 DEF ConfigTyped, ConfigTypeOK, ConfigSteps
  <2>4. ConfigAgrees'
    BY <1>1, <2>1, <2>2 DEF ConfigAgrees, ConfigTypeOK, Opens
  <2> QED
    BY <2>3, <2>4
<1>6. CASE Open(w) \/ StopConfig(w)
  <2>1. /\ pc' = [pc EXCEPT ![w] = "idle"] /\ reading' = [reading EXCEPT ![w] = {}]
        /\ naming' \in {naming, [naming EXCEPT ![w] = None]} /\ held' \in {held, [held EXCEPT ![w] = None]}
        /\ staged' \in {staged, [staged EXCEPT ![w] = None]} /\ UNCHANGED <<keyFile, generated, sealed>>
    BY <1>6 DEF Open, StopConfig, Stops, Goto, Forgets
  <2>2. ConfigTyped'
    BY <1>1, <2>1 DEF ConfigTyped, ConfigTypeOK
  <2>3. ConfigAgrees'
    BY <1>1, <2>1 DEF ConfigAgrees, ConfigTypeOK, Opens
  <2> QED
    BY <2>2, <2>3
<1> QED
  BY <1>2, <1>3, <1>4, <1>5, <1>6 DEF Reveal, ResolveEnv

(* The key file is written once: the values are none yet, and whoever seals  *)
(* or opens has its key from the file.                                      *)
LEMMA LinkAgrees ==
  ASSUME Agrees, NEW w \in Workers, UNCHANGED backupVars, LinkKey(w)
  PROVE  ConfigTyped' /\ ConfigAgrees'
<1>1. /\ ConfigTypeOK /\ ConfigAgrees /\ pc \in [Workers -> {"idle"} \cup ConfigSteps \cup AccessSteps]
      /\ UNCHANGED whole /\ whole /\ None \notin Keys /\ None \notin Names
  <2>1. whole
    BY CommandsRunOpen DEF ConfigCommand
  <2> QED
    BY <2>1, AppConfigAssumption DEF Agrees, TypeOK, backupVars, Keys
<1>2. naming[w] \in Names /\ staged[w] \in Keys /\ staged' = [staged EXCEPT ![w] = None] /\ UNCHANGED <<generated, reading, sealed>>
  BY <1>1 DEF LinkKey, Goto, ConfigAgrees
<1>3. CASE keyFile # None
  <2>1. /\ pc' = [pc EXCEPT ![w] = "load key"] /\ UNCHANGED <<keyFile, held, naming>>
    BY <1>3 DEF LinkKey, Goto, Vacant
  <2>2. ConfigTyped'
    BY <1>1, <1>2, <2>1 DEF ConfigTyped, ConfigTypeOK, ConfigSteps
  <2>3. ConfigAgrees'
    BY <1>1, <1>2, <2>1 DEF ConfigAgrees, ConfigTypeOK, Opens
  <2> QED
    BY <2>2, <2>3
<1>4. CASE keyFile = None
  <2>1. keyFile' = staged[w]
    BY <1>4 DEF LinkKey, Vacant
  <2>2. PICK s \in {"seal", "idle"} :
          /\ pc' = [pc EXCEPT ![w] = s]
          /\ s = "seal" => held' = [held EXCEPT ![w] = staged[w]] /\ naming' = naming
          /\ s = "idle" => held' = [held EXCEPT ![w] = None] /\ naming' = [naming EXCEPT ![w] = None]
    BY <1>4 DEF LinkKey, Vacant, Goto, Forgets
  <2>3. \A n \in Names : sealed[n] = None
    BY <1>1, <1>4 DEF ConfigAgrees, Opens
  <2>4. \A v \in Workers : pc[v] # "seal" /\ (pc[v] = "open" => reading[v] = {})
    <3>1. \A v \in Workers : pc[v] # "seal"
      BY <1>1, <1>4 DEF ConfigAgrees
    <3>2. ASSUME NEW v \in Workers, pc[v] = "open"
          PROVE  reading[v] = {}
      <4>1. reading[v] \subseteq Keys /\ reading[v] \subseteq {keyFile}
        BY <1>1, <3>2 DEF ConfigAgrees, ConfigTypeOK
      <4> QED
        BY <1>1, <1>4, <4>1
    <3> QED
      BY <3>1, <3>2
  <2>5. ConfigTyped'
    BY <1>1, <1>2, <2>1, <2>2 DEF ConfigTyped, ConfigTypeOK, ConfigSteps
  <2>6. ConfigAgrees'
    BY <1>1, <1>2, <2>1, <2>2, <2>3, <2>4 DEF ConfigAgrees, ConfigTypeOK, Opens
  <2> QED
    BY <2>5, <2>6
<1> QED
  BY <1>3, <1>4

(* A value is sealed with the key in the file, or removed; what others have *)
(* read of it, they read with that key.                                     *)
LEMMA SealAgrees ==
  ASSUME Agrees, NEW w \in Workers, UNCHANGED backupVars, SealValue(w) \/ \E n \in Names : Unset(w, n)
  PROVE  ConfigTyped' /\ ConfigAgrees'
<1>1. /\ ConfigTypeOK /\ ConfigAgrees /\ pc \in [Workers -> {"idle"} \cup ConfigSteps \cup AccessSteps]
      /\ UNCHANGED whole /\ whole
  <2>1. whole
    BY CommandsRunOpen DEF ConfigCommand
  <2> QED
    BY <2>1 DEF Agrees, TypeOK, backupVars
<1>2. CASE SealValue(w)
  <2>1. naming[w] \in Names /\ held[w] \in Keys /\ held[w] = keyFile
    BY <1>1, <1>2 DEF SealValue, Goto, ConfigAgrees
  <2>2. /\ pc' = [pc EXCEPT ![w] = "idle"] /\ sealed' = [sealed EXCEPT ![naming[w]] = held[w]]
        /\ held' = [held EXCEPT ![w] = None] /\ naming' = [naming EXCEPT ![w] = None]
        /\ UNCHANGED <<keyFile, generated, staged, reading>>
    BY <1>2 DEF SealValue, Goto, Forgets
  <2>3. ConfigTyped'
    BY <1>1, <2>1, <2>2 DEF ConfigTyped, ConfigTypeOK
  <2>4. ConfigAgrees'
    BY <1>1, <2>1, <2>2 DEF ConfigAgrees, ConfigTypeOK, Opens
  <2> QED
    BY <2>3, <2>4
<1>3. CASE \E n \in Names : Unset(w, n)
  <2>1. PICK n \in Names : Unset(w, n)
    BY <1>3
  <2>2. /\ pc' = [pc EXCEPT ![w] = "idle"] /\ sealed' = [sealed EXCEPT ![n] = None]
        /\ UNCHANGED <<keyFile, generated, staged, held, naming, reading>>
    BY <2>1 DEF Unset, Start
  <2>3. ConfigTyped'
    BY <1>1, <2>2 DEF ConfigTyped, ConfigTypeOK
  <2>4. ConfigAgrees'
    BY <1>1, <2>2 DEF ConfigAgrees, ConfigTypeOK, Opens
  <2> QED
    BY <2>3, <2>4
<1> QED
  BY <1>2, <1>3

(* Every config command keeps the invariant. *)
LEMMA ConfigCommandAgrees ==
  ASSUME Agrees, NEW w \in Workers, ConfigCommand(w), UNCHANGED <<accessVars, backupVars>>
  PROVE  Agrees'
<1>1. ConfigTyped' /\ ConfigAgrees'
  BY ConfigReads, LinkAgrees, SealAgrees DEF ConfigCommand
<1>2. WindowAgrees' /\ RestoreAgrees'
  BY CommandsKeepBackups
<1>3. AccessAgrees'
  BY ConfigKeepsAccess
<1>4. TypeOK'
  <2>1. started' \in 0 .. MaxCommands /\ paused' \in BOOLEAN
    BY CommandsRunOpen DEF Agrees, TypeOK
  <2> QED
    BY <1>1, <2>1 DEF ConfigTyped, Agrees, TypeOK, AccessTypeOK, accessVars, backupVars
<1> QED
  BY <1>1, <1>2, <1>3, <1>4 DEF Agrees

-----------------------------------------------------------------------------
(* The key commands. *)

(* A key command has nothing of the config commands' steps. *)
LEMMA AccessSteppingKinds ==
  ASSUME Agrees, NEW w \in Workers, AccessCommand(w)
  PROVE  pc[w] \notin ConfigSteps /\ \E s \in {"idle"} \cup AccessSteps : pc' = [pc EXCEPT ![w] = s]
<1> USE DEF ConfigSteps, AccessSteps, Start, Goto, Stops
<1>1. CASE \E k \in KeyNames : AddSSHKey(w, k) \/ RemoveSSHKey(w, k)
  BY <1>1 DEF AddSSHKey, RemoveSSHKey, ChangeTable
<1>2. CASE ListSSHKeys(w) \/ StopAccess(w)
  BY <1>2 DEF ListSSHKeys, StopAccess
<1>3. CASE OpenGitFile(w) \/ WriteGitFile(w) \/ OpenOperatorFile(w) \/ WriteOperatorFile(w)
  BY <1>3 DEF OpenGitFile, WriteGitFile, OpenOperatorFile, WriteOperatorFile, Truncate, Write
<1> QED
  BY <1>1, <1>2, <1>3 DEF AccessCommand

(* Keys and values are not theirs. *)
LEMMA AccessKeepsConfig ==
  ASSUME Agrees, NEW w \in Workers, AccessCommand(w), UNCHANGED <<configVars, backupVars>>
  PROVE  ConfigTyped' /\ ConfigAgrees'
<1>1. PICK s \in {"idle"} \cup AccessSteps : pc' = [pc EXCEPT ![w] = s]
  BY AccessSteppingKinds
<1>2. /\ ConfigTypeOK /\ ConfigAgrees /\ pc \in [Workers -> {"idle"} \cup ConfigSteps \cup AccessSteps]
      /\ UNCHANGED <<keyFile, generated, staged, held, naming, reading, sealed, whole>>
      /\ s \notin ConfigSteps
  BY <1>1 DEF Agrees, TypeOK, configVars, backupVars, ConfigSteps, AccessSteps
<1>3. ConfigTyped'
  BY <1>1, <1>2 DEF ConfigTyped, ConfigTypeOK, ConfigSteps
<1>4. ConfigAgrees'
  BY <1>1, <1>2 DEF ConfigAgrees, Opens, ConfigSteps
<1> QED
  BY <1>3, <1>4

(* A command that overlaps with no other changes the table as one. *)
LEMMA ChangeTableAgrees ==
  ASSUME Agrees, NEW w \in Workers, UNCHANGED backupVars, NEW rows \in SUBSET KeyNames, IsFiniteSet(rows), ChangeTable(w, rows)
  PROVE  AccessTypeOK' /\ AccessAgrees'
<1>1. /\ pc' = [pc EXCEPT ![w] = "list"] /\ table' = rows /\ alone' = (IF Overlaps(w) THEN {} ELSE {w})
      /\ settled' = FALSE /\ UNCHANGED <<file, listed>>
  BY DEF ChangeTable, Start
<1>2. AccessTypeOK /\ pc \in [Workers -> {"idle"} \cup ConfigSteps \cup AccessSteps]
  BY DEF Agrees, TypeOK
<1>3. AccessTypeOK'
  BY <1>1, <1>2 DEF AccessTypeOK
<1>4. ASSUME NEW v \in alone'
      PROVE  LoneCommand(v)'
  <2>1. v = w /\ ~Overlaps(w) /\ pc'[w] = "list"
    BY <1>1, <1>2, <1>4
  <2>2. ~Overlaps(w)'
    BY <1>1, <1>2, <2>1 DEF Overlaps
  <2> QED
    BY <2>1, <2>2 DEF LoneCommand, AccessSteps
<1> QED
  BY <1>1, <1>3, <1>4 DEF AccessAgrees

(* What writing what is listed makes of an empty file. *)
LEMMA OverlayEmpty ==
  ASSUME NEW names, IsFiniteSet(names)
  PROVE  Overlay(Empty, names) = [names |-> names, mixed |-> FALSE]
<1>1. Cardinality(names) \in Nat /\ Cardinality({}) = 0
  BY FS_CardinalityType, FS_EmptySet
<1>2. ~(Cardinality({}) > Cardinality(names))
  BY <1>1
<1> QED
  BY <1>2 DEF Overlay, Empty

(* While a key command works, no other is alone and nothing is settled. *)
LEMMA OnlyItself ==
  ASSUME Agrees, NEW w \in Workers, pc[w] \in AccessSteps
  PROVE  alone \subseteq {w} /\ ~settled
<1>1. ASSUME NEW v \in alone, v # w
      PROVE  FALSE
  BY <1>1 DEF Agrees, AccessAgrees, LoneCommand, Overlaps
<1> QED
  BY <1>1 DEF Agrees, AccessAgrees

(* The steps of a key command: alone, it goes from its list to its files.   *)
LEMMA AccessStepsAgree ==
  ASSUME Agrees, NEW w \in Workers, UNCHANGED backupVars, whole,
         \/ ListSSHKeys(w) \/ OpenGitFile(w) \/ WriteGitFile(w) \/ OpenOperatorFile(w)
         \/ WriteOperatorFile(w) \/ StopAccess(w)
  PROVE  AccessTypeOK' /\ AccessAgrees'
<1>1. /\ AccessTypeOK /\ pc \in [Workers -> {"idle"} \cup ConfigSteps \cup AccessSteps]
      /\ IsFiniteSet(table) /\ UNCHANGED <<table, whole>>
  BY DEF Agrees, TypeOK, AccessAgrees, ListSSHKeys, OpenGitFile, WriteGitFile, OpenOperatorFile, WriteOperatorFile,
     Truncate, Write, StopAccess, backupVars
<1>2. pc[w] \in AccessSteps
  BY DEF ListSSHKeys, OpenGitFile, WriteGitFile, OpenOperatorFile, WriteOperatorFile, Truncate, Write, StopAccess,
     Goto, AccessSteps
<1>3. alone \subseteq {w} /\ ~settled /\ (w \in alone => LoneCommand(w))
  BY <1>2, OnlyItself DEF Agrees, AccessAgrees
<1>4. PICK s \in {"idle"} \cup AccessSteps : pc' = [pc EXCEPT ![w] = s]
  BY AccessSteppingKinds DEF AccessCommand
<1>5. Overlaps(w)' <=> Overlaps(w)
  BY <1>1, <1>4 DEF Overlaps
<1>6. "git" \in Files /\ "operator" \in Files /\ Files = {"git", "operator"}
  BY DEF Files
<1>7. Overlay(Empty, table) = Exact
  BY <1>1, OverlayEmpty DEF Exact
<1>8. AccessTypeOK'
  <2>1. \A old \in [names : SUBSET KeyNames, mixed : BOOLEAN], names \in SUBSET KeyNames :
          Overlay(old, names) \in [names : SUBSET KeyNames, mixed : BOOLEAN]
    BY DEF Overlay
  <2>2. Empty \in [names : SUBSET KeyNames, mixed : BOOLEAN]
    BY DEF Empty
  <2>3. listed' \in [Workers -> SUBSET KeyNames]
    BY <1>1 DEF AccessTypeOK, ListSSHKeys, OpenGitFile, WriteGitFile, OpenOperatorFile, WriteOperatorFile, Truncate,
       Write, StopAccess, Leaves
  <2>4. file' \in [Files -> [names : SUBSET KeyNames, mixed : BOOLEAN]]
    <3>1. ASSUME NEW f \in Files, NEW c \in [names : SUBSET KeyNames, mixed : BOOLEAN], file' = [file EXCEPT ![f] = c]
          PROVE  file' \in [Files -> [names : SUBSET KeyNames, mixed : BOOLEAN]]
      BY <1>1, <3>1 DEF AccessTypeOK
    <3>2. ASSUME NEW f \in Files, NEW h, NEW t, Write(w, f, h, t)
          PROVE  file' \in [Files -> [names : SUBSET KeyNames, mixed : BOOLEAN]]
      <4>1. file[f] \in [names : SUBSET KeyNames, mixed : BOOLEAN] /\ listed[w] \in SUBSET KeyNames
        BY <1>1 DEF AccessTypeOK
      <4>2. file' = [file EXCEPT ![f] = Overlay(file[f], listed[w])]
        BY <1>1, <3>2 DEF Write, AccessTypeOK
      <4> QED
        BY <2>1, <3>1, <4>1, <4>2
    <3>3. ASSUME NEW f \in Files, NEW h, NEW t, Truncate(w, f, h, t)
          PROVE  file' \in [Files -> [names : SUBSET KeyNames, mixed : BOOLEAN]]
      BY <2>2, <3>1, <3>3 DEF Truncate
    <3>4. CASE ListSSHKeys(w) \/ StopAccess(w)
      BY <1>1, <3>4 DEF AccessTypeOK, ListSSHKeys, StopAccess
    <3> QED
      BY <1>6, <3>2, <3>3, <3>4 DEF OpenGitFile, WriteGitFile, OpenOperatorFile, WriteOperatorFile
  <2>5. alone' \subseteq alone /\ settled' \in BOOLEAN
    BY <1>1 DEF AccessTypeOK, ListSSHKeys, OpenGitFile, WriteGitFile, OpenOperatorFile, WriteOperatorFile, Truncate,
       Write, StopAccess, Leaves
  <2> QED
    BY <1>1, <2>3, <2>4, <2>5 DEF AccessTypeOK
<1> DEFINE Kept == alone' = alone /\ settled' = settled /\ pc'[w] \in AccessSteps
<1>9. ASSUME Kept, w \in alone => LoneCommand(w)'
      PROVE  AccessAgrees'
  BY <1>1, <1>3, <1>9 DEF AccessAgrees
<1>10. CASE ListSSHKeys(w)
  <2>1. pc'[w] = "open git" /\ listed'[w] = table /\ alone' = alone /\ settled' = settled
    BY <1>1, <1>10 DEF ListSSHKeys, Goto, AccessTypeOK
  <2>2. w \in alone => LoneCommand(w)'
    BY <1>1, <1>3, <1>5, <2>1 DEF LoneCommand, AccessSteps
  <2> QED
    BY <1>8, <1>9, <2>1, <2>2 DEF AccessSteps
<1>11. CASE OpenGitFile(w)
  <2>1. /\ pc[w] = "open git" /\ pc'[w] = "write git" /\ listed' = listed /\ file'["git"] = Empty
        /\ alone' = alone /\ settled' = settled
    BY <1>1, <1>6, <1>11 DEF OpenGitFile, Truncate, Goto, AccessTypeOK
  <2>2. w \in alone => LoneCommand(w)'
    BY <1>1, <1>3, <1>5, <2>1 DEF LoneCommand, AccessSteps
  <2> QED
    BY <1>8, <1>9, <2>1, <2>2 DEF AccessSteps
<1>12. CASE WriteGitFile(w)
  <2>1. /\ pc[w] = "write git" /\ pc'[w] = "open operator" /\ listed' = listed
        /\ file'["git"] = Overlay(file["git"], listed[w])
        /\ alone' = alone /\ settled' = settled
    BY <1>1, <1>6, <1>12 DEF WriteGitFile, Write, Goto, AccessTypeOK
  <2>2. w \in alone => LoneCommand(w)'
    BY <1>1, <1>3, <1>5, <1>7, <2>1 DEF LoneCommand, AccessSteps, Exact
  <2> QED
    BY <1>8, <1>9, <2>1, <2>2 DEF AccessSteps
<1>13. CASE OpenOperatorFile(w)
  <2>1. /\ pc[w] = "open operator" /\ pc'[w] = "write operator" /\ listed' = listed
        /\ file'["git"] = file["git"] /\ file'["operator"] = Empty
        /\ alone' = alone /\ settled' = settled
    BY <1>1, <1>6, <1>13 DEF OpenOperatorFile, Truncate, Goto, AccessTypeOK
  <2>2. w \in alone => LoneCommand(w)'
    BY <1>1, <1>3, <1>5, <2>1 DEF LoneCommand, AccessSteps, Exact
  <2> QED
    BY <1>8, <1>9, <2>1, <2>2 DEF AccessSteps
<1>14. CASE WriteOperatorFile(w)
  <2>1. /\ pc[w] = "write operator" /\ pc' = [pc EXCEPT ![w] = "idle"]
        /\ file'["git"] = file["git"] /\ file'["operator"] = Overlay(file["operator"], listed[w])
        /\ alone' = alone \ {w} /\ settled' = (settled \/ w \in alone)
    BY <1>1, <1>6, <1>14 DEF WriteOperatorFile, Write, Leaves, Goto, AccessTypeOK
  <2>2. alone' = {}
    BY <1>3, <2>1
  <2>3. ASSUME w \in alone
        PROVE  (\A v \in Workers : pc'[v] \notin AccessSteps) /\ (\A f \in Files : file'[f] = Exact)
    <3>1. LoneCommand(w)
      BY <1>3, <2>3
    <3>2. \A f \in Files : file'[f] = Exact
      BY <1>6, <1>7, <2>1, <3>1 DEF LoneCommand
    <3>3. \A v \in Workers : pc'[v] \notin AccessSteps
      BY <1>1, <2>1, <3>1 DEF LoneCommand, Overlaps, AccessSteps
    <3> QED
      BY <3>2, <3>3
  <2>4. AccessAgrees'
    BY <1>1, <1>3, <2>1, <2>2, <2>3 DEF AccessAgrees, Exact
  <2> QED
    BY <1>8, <2>4
<1>15. CASE StopAccess(w)
  <2>1. alone' = alone \ {w} /\ settled' = settled
    BY <1>15 DEF StopAccess, Leaves
  <2>2. AccessAgrees'
    BY <1>1, <1>3, <2>1 DEF AccessAgrees
  <2> QED
    BY <1>8, <2>2
<1> QED
  BY <1>10, <1>11, <1>12, <1>13, <1>14, <1>15

(* Every key command keeps the invariant. *)
LEMMA AccessCommandAgrees ==
  ASSUME Agrees, NEW w \in Workers, AccessCommand(w), UNCHANGED <<configVars, backupVars>>
  PROVE  Agrees'
<1>1. ConfigTyped' /\ ConfigAgrees'
  BY AccessKeepsConfig
<1>2. WindowAgrees' /\ RestoreAgrees'
  BY CommandsKeepBackups
<1>3. AccessTypeOK' /\ AccessAgrees'
  <2>1. whole /\ table \subseteq KeyNames /\ IsFiniteSet(table)
    BY CommandsRunOpen DEF Agrees, TypeOK, AccessTypeOK, AccessAgrees
  <2>2. CASE \E k \in KeyNames : AddSSHKey(w, k) \/ RemoveSSHKey(w, k)
    <3>1. PICK k \in KeyNames : AddSSHKey(w, k) \/ RemoveSSHKey(w, k)
      BY <2>2
    <3>2. /\ IsFiniteSet(table \cup {k}) /\ table \cup {k} \in SUBSET KeyNames
          /\ IsFiniteSet(table \ {k}) /\ table \ {k} \in SUBSET KeyNames
      BY <2>1, FS_AddElement, FS_RemoveElement
    <3>3. CASE AddSSHKey(w, k)
      BY <3>2, <3>3, ChangeTableAgrees DEF AddSSHKey
    <3>4. CASE RemoveSSHKey(w, k)
      BY <3>2, <3>4, ChangeTableAgrees DEF RemoveSSHKey
    <3> QED
      BY <3>1, <3>3, <3>4
  <2> QED
    BY <2>1, <2>2, AccessStepsAgree DEF AccessCommand
<1>4. TypeOK'
  <2>1. started' \in 0 .. MaxCommands /\ paused' \in BOOLEAN
    BY CommandsRunOpen DEF Agrees, TypeOK
  <2> QED
    BY <1>1, <1>3, <2>1 DEF ConfigTyped, Agrees, TypeOK, backupVars
<1> QED
  BY <1>1, <1>2, <1>3, <1>4 DEF Agrees

-----------------------------------------------------------------------------
(* Backups and restores. *)

(* No command runs in their window: what they put in place has to agree by  *)
(* itself.                                                                  *)
LEMMA WindowStep ==
  ASSUME Agrees, AllIdle, UNCHANGED commandVars,
         keyFile' \in Keys \cup {None}, sealed' \in [Names -> Keys \cup {None}],
         table' \subseteq KeyNames, file' \in [Files -> [names : SUBSET KeyNames, mixed : BOOLEAN]], settled' \in BOOLEAN,
         whole' => Opens(keyFile, sealed)', IsFiniteSet(table'),
         settled' => whole' /\ \A f \in Files : (file[f] = Exact)'
  PROVE  /\ AllIdle' /\ ConfigAgrees' /\ AccessAgrees'
         /\ ConfigTypeOK' /\ AccessTypeOK'
<1>1. UNCHANGED <<pc, started, generated, staged, held, naming, reading, listed, alone>>
  BY DEF commandVars
<1>2. \A w \in Workers : pc[w] = "idle"
  BY DEF AllIdle
<1>3. alone = {}
  BY <1>2 DEF Agrees, TypeOK, AccessTypeOK, AccessAgrees, LoneCommand, AccessSteps
<1>4. ConfigAgrees' /\ AllIdle'
  BY <1>1, <1>2 DEF ConfigAgrees, AllIdle
<1>5. AccessAgrees'
  BY <1>1, <1>2, <1>3 DEF AccessAgrees, AccessSteps
<1>6. ConfigTypeOK'
  BY <1>1 DEF Agrees, TypeOK, ConfigTypeOK
<1>7. AccessTypeOK'
  BY <1>1 DEF Agrees, TypeOK, AccessTypeOK
<1> QED
  BY <1>4, <1>5, <1>6, <1>7

(* A step that leaves the data directory alone. *)
LEMMA DataKept ==
  ASSUME Agrees, AllIdle, UNCHANGED <<commandVars, dataVars, settled, whole>>
  PROVE  /\ AllIdle' /\ ConfigAgrees' /\ AccessAgrees'
         /\ ConfigTypeOK' /\ AccessTypeOK'
<1>1. UNCHANGED <<keyFile, sealed, table, file, settled, whole>>
  BY DEF dataVars
<1>2. /\ ConfigTypeOK /\ AccessTypeOK /\ ConfigAgrees /\ AccessAgrees
  BY DEF Agrees, TypeOK
<1>3. /\ keyFile \in Keys \cup {None} /\ sealed \in [Names -> Keys \cup {None}]
      /\ table \subseteq KeyNames /\ file \in [Files -> [names : SUBSET KeyNames, mixed : BOOLEAN]] /\ settled \in BOOLEAN
  BY <1>2 DEF ConfigTypeOK, AccessTypeOK
<1>4. (whole => Opens(keyFile, sealed)) /\ IsFiniteSet(table) /\ (settled => whole /\ \A f \in Files : file[f] = Exact)
  BY <1>2 DEF ConfigAgrees, AccessAgrees
<1>5. /\ whole' => Opens(keyFile, sealed)'
      /\ settled' => whole' /\ \A f \in Files : (file[f] = Exact)'
  <2>1. Exact' = Exact
    BY <1>1 DEF Exact
  <2>2. Opens(keyFile, sealed)' <=> Opens(keyFile, sealed)
    BY <1>1 DEF Opens
  <2> QED
    BY <1>1, <1>4, <2>1, <2>2
<1> QED
  BY <1>1, <1>3, <1>4, <1>5, WindowStep

(* The routes are written outside of a window. *)
LEMMA RoutesAgree == Agrees /\ WriteRoutes => Agrees'
<1> SUFFICES ASSUME Agrees, WriteRoutes
             PROVE  Agrees'
  OBVIOUS
<1>1. /\ ~paused /\ caddy' \in [CaddyFiles -> CaddyContents]
      /\ UNCHANGED <<pc, paused, started, configVars, accessVars, whole, archive, backup, place, stage, lost, backups>>
  BY DEF WriteRoutes, processVars, Agrees, TypeOK, CaddyContents
<1>2. UNCHANGED <<keyFile, generated, staged, held, naming, reading, sealed, table, file, listed, alone, settled>>
  BY <1>1 DEF configVars, accessVars
<1>3. backup = "idle" /\ whole
  BY <1>1 DEF Agrees, WindowAgrees
<1>4. TypeOK'
  BY <1>1, <1>2 DEF Agrees, TypeOK, ConfigTypeOK, AccessTypeOK
<1>5. WindowAgrees'
  BY <1>1 DEF Agrees, WindowAgrees, AllIdle
<1>6. ConfigAgrees'
  BY <1>1, <1>2 DEF Agrees, ConfigAgrees, Opens
<1>7. AccessAgrees'
  BY <1>1, <1>2 DEF Agrees, AccessAgrees, LoneCommand, Overlaps, Exact
<1>8. RestoreAgrees'
  BY <1>1, <1>3 DEF Agrees, RestoreAgrees, Writing, StateIsRecoverable, Usable, Opens
<1> QED
  BY <1>4, <1>5, <1>6, <1>7, <1>8 DEF Agrees

(* A backup reads what is on disk, and the whole of it. *)
LEMMA BackupStepsAgree ==
  ASSUME Agrees, (\E p \in Places : BeginBackup(p)) \/ PublishArchive \/ BackupFails
  PROVE  Agrees'
<1>1. AllIdle
  BY DEF Agrees, WindowAgrees, BeginBackup, PublishArchive, BackupFails, Continue
<1>2. /\ UNCHANGED <<commandVars, dataVars, settled, whole, caddy, stage, lost>>
  BY DEF BeginBackup, PublishArchive, BackupFails, configVars, accessVars, commandVars, dataVars
<1>3. AllIdle' /\ ConfigAgrees' /\ AccessAgrees' /\ ConfigTypeOK' /\ AccessTypeOK'
  BY <1>1, <1>2, DataKept
<1>4. whole /\ paused' \in BOOLEAN /\ backup' \in {"idle", "publish"} /\ (backup' # "idle" => paused')
  BY DEF Agrees, WindowAgrees, BeginBackup, PublishArchive, BackupFails, Continue
<1>5. /\ Usable(Live) /\ Live \in Snapshots
  BY <1>4 DEF Agrees, TypeOK, ConfigTypeOK, AccessTypeOK, ConfigAgrees, AccessAgrees, Usable, Live, Snapshots
<1>6. /\ archive' \in [Places -> Snapshots \cup {None}] /\ \A p \in Places : archive'[p] # None => Usable(archive'[p])
  <2>1. CASE UNCHANGED archive
    BY <2>1 DEF Agrees, TypeOK, RestoreAgrees
  <2>2. CASE archive' = [archive EXCEPT ![place] = Live]
    BY <1>5, <2>2 DEF Agrees, TypeOK, RestoreAgrees
  <2> QED
    BY <2>1, <2>2 DEF BeginBackup, PublishArchive, BackupFails
<1>7. /\ place' \in Places /\ backups' \in 0 .. MaxBackups
  BY HostBackupAssumption DEF BeginBackup, PublishArchive, BackupFails, Agrees, TypeOK
<1>8. TypeOK'
  <2>1. UNCHANGED <<pc, started>>
    BY <1>2 DEF commandVars
  <2> QED
    BY <1>2, <1>3, <1>4, <1>6, <1>7, <2>1 DEF Agrees, TypeOK, BackupSteps
<1>9. WindowAgrees'
  BY <1>2, <1>3, <1>4 DEF WindowAgrees
<1>10. RestoreAgrees'
  <2>1. \A p \in Places : (archive[p] # None => Usable(archive[p]))'
    BY <1>6 DEF Usable, Opens
  <2>2. (stage # None => Usable(stage))'
    BY <1>2 DEF Agrees, RestoreAgrees, Usable, Opens
  <2> QED
    BY <1>2, <1>4, <2>1, <2>2 DEF RestoreAgrees, Writing, StateIsRecoverable
<1> QED
  BY <1>3, <1>8, <1>9, <1>10 DEF Agrees

(* The steps of a restore, and of what breaks it off. *)
RestoreStep ==
  \/ \E p \in Places : BeginRestore(p)
  \/ RemoveData \/ MoveData
  \/ \E kept \in {stage, None} :
       \/ \E parts \in SUBSET Parts : RemoveBreaksOff(parts, kept)
       \/ MoveBreaksOff(kept)
  \/ CaddyBreaksOff \/ OpenGenerated \/ WriteGenerated \/ OpenMain \/ WriteMain \/ EndRestore

(* No command runs beside one. *)
LEMMA RestoreAlone ==
  ASSUME Agrees, RestoreStep
  PROVE  AllIdle /\ UNCHANGED <<commandVars, backups>>
<1>1. CASE \E p \in Places : BeginRestore(p)
  BY <1>1 DEF BeginRestore, configVars, accessVars, commandVars
<1>2. backup # "idle" => AllIdle
  BY DEF Agrees, WindowAgrees
<1>3. CASE RemoveData \/ MoveData
  BY <1>2, <1>3 DEF RemoveData, MoveData, Continue
<1>4. CASE \E kept \in {stage, None} :
             (\E parts \in SUBSET Parts : RemoveBreaksOff(parts, kept)) \/ MoveBreaksOff(kept)
  BY <1>2, <1>4 DEF RemoveBreaksOff, MoveBreaksOff, BreaksOff
<1>5. CASE CaddyBreaksOff \/ OpenGenerated \/ WriteGenerated \/ OpenMain \/ WriteMain \/ EndRestore
  <2>1. UNCHANGED <<pc, started, configVars, accessVars, backups>>
    BY <1>5 DEF CaddyBreaksOff, OpenGenerated, WriteGenerated, OpenMain, WriteMain, EndRestore, OpenCaddyFile, WriteCaddyFile,
       processVars
  <2>2. backup # "idle"
    BY <1>5 DEF CaddyBreaksOff, OpenGenerated, WriteGenerated, OpenMain, WriteMain, EndRestore, OpenCaddyFile, WriteCaddyFile,
       Continue
  <2> QED
    BY <1>2, <2>1, <2>2 DEF configVars, accessVars, commandVars
<1> QED
  BY <1>1, <1>3, <1>4, <1>5 DEF RestoreStep

(* The parts of the invariant that a step of a restore has to establish. *)
LEMMA RestoreStepAgrees ==
  ASSUME Agrees, RestoreStep,
         ConfigAgrees', AccessAgrees', AllIdle', ConfigTypeOK', AccessTypeOK', RestoreAgrees',
         caddy' \in [CaddyFiles -> CaddyContents], whole' \in BOOLEAN, lost' \in BOOLEAN, paused' \in BOOLEAN,
         archive' \in [Places -> Snapshots \cup {None}], stage' \in Snapshots \cup {None},
         backup' \in BackupSteps, place' \in Places,
         backup' # "idle" \/ ~whole' => paused', ~whole' => backup' \in {"idle", "remove", "move"}
  PROVE  Agrees'
<1>1. UNCHANGED <<pc, started, backups>>
  BY RestoreAlone DEF commandVars
<1>2. TypeOK'
  BY <1>1 DEF Agrees, TypeOK
<1>3. WindowAgrees'
  BY DEF WindowAgrees
<1> QED
  BY <1>2, <1>3 DEF Agrees

(* What the snapshots say stays true of them as long as they are there. *)
LEMMA SnapshotsKept ==
  ASSUME Agrees, archive' \in [Places -> Snapshots \cup {None}],
         \A p \in Places : archive'[p] \in {archive[p], None}, stage' = None \/ stage' = stage \/ \E p \in Places : stage' = archive[p]
  PROVE  /\ \A p \in Places : (archive[p] # None => Usable(archive[p]))'
         /\ (stage # None => Usable(stage))'
<1>1. /\ \A p \in Places : archive[p] # None => Usable(archive[p])
      /\ stage # None => Usable(stage)
  BY DEF Agrees, RestoreAgrees
<1> QED
  BY <1>1 DEF Usable, Opens

(* A restore begins with an archive, *)
LEMMA BeginRestoreAgrees ==
  ASSUME Agrees, NEW p \in Places, BeginRestore(p)
  PROVE  Agrees'
<1>1. /\ archive[p] # None /\ backup' = "remove" /\ paused' = TRUE /\ place' = p /\ stage' = archive[p]
      /\ UNCHANGED <<configVars, accessVars, caddy, whole, archive, lost>> /\ RestoreStep
  BY DEF BeginRestore, Continue, RestoreStep
<1>2. /\ AllIdle' /\ ConfigAgrees' /\ AccessAgrees' /\ ConfigTypeOK' /\ AccessTypeOK'
  BY <1>1, RestoreAlone, DataKept DEF configVars, accessVars, dataVars
<1>3. /\ \A q \in Places : (archive[q] # None => Usable(archive[q]))'
      /\ (stage # None => Usable(stage))'
  BY <1>1, SnapshotsKept DEF Agrees, TypeOK
<1>4. RestoreAgrees'
  BY <1>1, <1>3 DEF RestoreAgrees, Writing, StateIsRecoverable
<1> QED
  BY <1>1, <1>2, <1>4, RestoreStepAgrees DEF Agrees, TypeOK, BackupSteps

(* What is left of the data directory keeps its types; archives elsewhere   *)
(* stay.                                                                    *)
LEMMA GoneLeaves ==
  ASSUME Agrees, NEW parts, Gone(parts)
  PROVE  /\ keyFile' \in Keys \cup {None} /\ sealed' \in [Names -> Keys \cup {None}]
         /\ table' \subseteq KeyNames /\ file' \in [Files -> [names : SUBSET KeyNames, mixed : BOOLEAN]]
         /\ settled' = FALSE /\ whole' = FALSE /\ IsFiniteSet(table')
         /\ archive' \in [Places -> Snapshots \cup {None}]
         /\ \A p \in Places : archive'[p] \in {archive[p], None}
         /\ archive'["outside"] = archive["outside"]
<1>1. ConfigTypeOK /\ AccessTypeOK /\ archive \in [Places -> Snapshots \cup {None}] /\ IsFiniteSet(table)
  BY DEF Agrees, TypeOK, AccessAgrees
<1>2. keyFile' \in Keys \cup {None} /\ sealed' \in [Names -> Keys \cup {None}]
  BY <1>1 DEF Gone, ConfigTypeOK
<1>3. table' \subseteq KeyNames /\ file' \in [Files -> [names : SUBSET KeyNames, mixed : BOOLEAN]] /\ IsFiniteSet(table')
  BY <1>1, FS_EmptySet DEF Gone, AccessTypeOK, Empty
<1>4. archive' \in {archive, [archive EXCEPT !["inside"] = None]} /\ settled' = FALSE /\ whole' = FALSE
  BY DEF Gone
<1> QED
  BY <1>1, <1>2, <1>3, <1>4 DEF Places

(* removes the data directory, with what is in it, *)
LEMMA RemoveAgrees ==
  ASSUME Agrees, RemoveData
  PROVE  Agrees'
<1>1. /\ backup = "remove" /\ backup' = "move" /\ Gone(Parts) /\ stage' = stage /\ UNCHANGED <<paused, caddy, place, lost>>
      /\ RestoreStep
  BY DEF RemoveData, Continue, StageKept, RestoreStep
<1>2. /\ keyFile' \in Keys \cup {None} /\ sealed' \in [Names -> Keys \cup {None}]
      /\ table' \subseteq KeyNames /\ file' \in [Files -> [names : SUBSET KeyNames, mixed : BOOLEAN]]
      /\ settled' = FALSE /\ whole' = FALSE /\ IsFiniteSet(table')
      /\ archive' \in [Places -> Snapshots \cup {None}]
      /\ \A p \in Places : archive'[p] \in {archive[p], None}
      /\ archive'["outside"] = archive["outside"]
  BY <1>1, GoneLeaves
<1>3. /\ AllIdle' /\ ConfigAgrees' /\ AccessAgrees' /\ ConfigTypeOK' /\ AccessTypeOK'
  BY <1>1, <1>2, RestoreAlone, WindowStep
<1>4. /\ \A p \in Places : (archive[p] # None => Usable(archive[p]))'
      /\ (stage # None => Usable(stage))'
  BY <1>1, <1>2, SnapshotsKept
<1>5. RestoreAgrees'
  BY <1>1, <1>2, <1>4 DEF Agrees, RestoreAgrees, Writing, StateIsRecoverable
<1>6. paused
  BY <1>1 DEF Agrees, WindowAgrees
<1> QED
  BY <1>1, <1>2, <1>3, <1>5, <1>6, RestoreStepAgrees DEF Agrees, TypeOK, BackupSteps

(* and when it breaks off there, what it restored from is still there, in   *)
(* its place or in the copy, but for the one case that `lost` records.      *)
LEMMA BreakOffAgrees ==
  ASSUME Agrees, NEW kept \in {stage, None},
         (\E parts \in SUBSET Parts : RemoveBreaksOff(parts, kept)) \/ MoveBreaksOff(kept)
  PROVE  Agrees'
<1>1. /\ backup \in {"remove", "move"} /\ backup' = "idle" /\ stage' = kept /\ UNCHANGED <<paused, caddy, place>>
      /\ lost' = (lost \/ (kept = None /\ place = "inside" /\ archive'["inside"] = None)) /\ RestoreStep
  BY DEF RemoveBreaksOff, MoveBreaksOff, BreaksOff, RestoreStep
<1>2. /\ keyFile' \in Keys \cup {None} /\ sealed' \in [Names -> Keys \cup {None}]
      /\ table' \subseteq KeyNames /\ file' \in [Files -> [names : SUBSET KeyNames, mixed : BOOLEAN]]
      /\ settled' = FALSE /\ whole' = FALSE /\ IsFiniteSet(table')
      /\ archive' \in [Places -> Snapshots \cup {None}]
      /\ \A p \in Places : archive'[p] \in {archive[p], None}
      /\ archive'["outside"] = archive["outside"]
  <2>1. CASE MoveBreaksOff(kept)
    <3>1. /\ UNCHANGED <<keyFile, sealed, table, file, settled, whole, archive>> /\ backup = "move"
      BY <2>1 DEF MoveBreaksOff, dataVars
    <3>2. whole = FALSE /\ settled = FALSE
      BY <3>1 DEF Agrees, TypeOK, AccessTypeOK, AccessAgrees, RestoreAgrees
    <3> QED
      BY <3>1, <3>2 DEF Agrees, TypeOK, ConfigTypeOK, AccessTypeOK, AccessAgrees
  <2>2. CASE \E parts \in SUBSET Parts : RemoveBreaksOff(parts, kept)
    <3>1. PICK parts \in SUBSET Parts : Gone(parts)
      BY <2>2 DEF RemoveBreaksOff
    <3> QED
      BY <3>1, GoneLeaves
  <2> QED
    BY <2>1, <2>2
<1>3. /\ AllIdle' /\ ConfigAgrees' /\ AccessAgrees' /\ ConfigTypeOK' /\ AccessTypeOK'
  BY <1>1, <1>2, RestoreAlone, WindowStep
<1>4. /\ \A p \in Places : (archive[p] # None => Usable(archive[p]))'
      /\ (stage # None => Usable(stage))'
  BY <1>1, <1>2, SnapshotsKept
<1>5. StateIsRecoverable'
  <2>1. CASE kept = stage
    BY <1>1, <2>1 DEF Agrees, RestoreAgrees, StateIsRecoverable
  <2>2. CASE kept = None /\ place = "inside"
    BY <1>1, <2>2 DEF StateIsRecoverable, Places
  <2>3. CASE place # "inside"
    <3>1. place = "outside"
      BY <2>3 DEF Agrees, TypeOK, Places
    <3> QED
      BY <1>1, <1>2, <3>1 DEF Agrees, RestoreAgrees, StateIsRecoverable, Places
  <2> QED
    BY <2>1, <2>2, <2>3
<1>6. RestoreAgrees'
  BY <1>1, <1>4, <1>5 DEF RestoreAgrees, Writing
<1>7. paused /\ lost' \in BOOLEAN
  BY <1>1 DEF Agrees, WindowAgrees, TypeOK
<1> QED
  BY <1>1, <1>2, <1>3, <1>6, <1>7, RestoreStepAgrees DEF Agrees, TypeOK, BackupSteps

(* It moves the extracted data into place, which agrees in itself, *)
LEMMA MoveAgrees ==
  ASSUME Agrees, MoveData
  PROVE  Agrees'
<1>1. /\ stage # None /\ backup = "move" /\ backup' = "open generated" /\ whole' = TRUE
      /\ keyFile' = stage.key /\ sealed' = stage.sealed /\ table' = stage.table /\ file' = stage.file
      /\ UNCHANGED <<settled, paused, caddy, archive, place, stage, lost>> /\ RestoreStep
  BY DEF MoveData, Continue, RestoreStep
<1>2. stage \in Snapshots /\ Usable(stage)
  BY <1>1 DEF Agrees, TypeOK, RestoreAgrees
<1>3. /\ keyFile' \in Keys \cup {None} /\ sealed' \in [Names -> Keys \cup {None}]
      /\ table' \subseteq KeyNames /\ file' \in [Files -> [names : SUBSET KeyNames, mixed : BOOLEAN]]
      /\ IsFiniteSet(table')
  BY <1>1, <1>2 DEF Snapshots, Usable
<1>4. settled' = FALSE
  BY <1>1 DEF Agrees, TypeOK, AccessTypeOK, AccessAgrees, RestoreAgrees
<1>5. Opens(keyFile, sealed)'
  BY <1>1, <1>2 DEF Usable, Opens
<1>6. /\ AllIdle' /\ ConfigAgrees' /\ AccessAgrees' /\ ConfigTypeOK' /\ AccessTypeOK'
  BY <1>1, <1>3, <1>4, <1>5, RestoreAlone, WindowStep
<1>7. /\ \A p \in Places : (archive[p] # None => Usable(archive[p]))'
      /\ (stage # None => Usable(stage))'
  BY <1>1, SnapshotsKept DEF Agrees, TypeOK
<1>8. RestoreAgrees'
  BY <1>1, <1>7 DEF RestoreAgrees, Writing, StateIsRecoverable, Replaced
<1>9. paused
  BY <1>1 DEF Agrees, WindowAgrees
<1> QED
  BY <1>1, <1>6, <1>8, <1>9, RestoreStepAgrees DEF Agrees, TypeOK, BackupSteps

(* and then the Caddy files, one after the other. *)
LEMMA CaddyAgrees ==
  ASSUME Agrees, CaddyBreaksOff \/ OpenGenerated \/ WriteGenerated \/ OpenMain \/ WriteMain \/ EndRestore
  PROVE  Agrees'
<1>1. /\ UNCHANGED <<configVars, accessVars, whole, archive, place, lost>> /\ RestoreStep /\ backup \in Writing
      /\ (stage' = stage /\ UNCHANGED paused /\ backup' \in Writing) \/ (stage' = None /\ paused' = FALSE /\ backup' = "idle")
  BY DEF CaddyBreaksOff, OpenGenerated, WriteGenerated, OpenMain, WriteMain, EndRestore, OpenCaddyFile, WriteCaddyFile,
     Continue, RestoreStep, Writing, processVars
<1>2. /\ AllIdle' /\ ConfigAgrees' /\ AccessAgrees' /\ ConfigTypeOK' /\ AccessTypeOK'
  BY <1>1, RestoreAlone, DataKept DEF configVars, accessVars, dataVars
<1>3. /\ \A q \in Places : (archive[q] # None => Usable(archive[q]))'
      /\ (stage # None => Usable(stage))'
  BY <1>1, SnapshotsKept DEF Agrees, TypeOK
<1>4. /\ whole /\ stage # None /\ stage \in Snapshots /\ paused /\ Replaced
  BY <1>1 DEF Agrees, TypeOK, WindowAgrees, RestoreAgrees, Writing
<1>5. caddy \in [CaddyFiles -> CaddyContents] /\ stage.caddy \in [CaddyFiles -> CaddyContents] /\ "torn" \in CaddyContents
  BY <1>4 DEF Agrees, TypeOK, Snapshots, CaddyContents
<1>6. "generated" \in CaddyFiles /\ "main" \in CaddyFiles
  BY DEF CaddyFiles
<1>7. caddy' \in [CaddyFiles -> CaddyContents]
  <2>1. ASSUME NEW f \in CaddyFiles, NEW c \in CaddyContents, caddy' = [caddy EXCEPT ![f] = c]
        PROVE  caddy' \in [CaddyFiles -> CaddyContents]
    BY <1>5, <2>1
  <2>2. CASE UNCHANGED caddy
    BY <1>5, <2>2
  <2>3. CASE OpenGenerated \/ OpenMain
    BY <1>5, <1>6, <2>1, <2>2, <2>3 DEF OpenGenerated, OpenMain, OpenCaddyFile
  <2>4. CASE WriteGenerated \/ WriteMain
    <3>1. stage.caddy["generated"] \in CaddyContents /\ stage.caddy["main"] \in CaddyContents
      BY <1>5, <1>6
    <3> QED
      BY <1>6, <2>1, <2>4, <3>1 DEF WriteGenerated, WriteMain, WriteCaddyFile
  <2> QED
    BY <2>2, <2>3, <2>4 DEF CaddyBreaksOff, EndRestore
<1>8. UNCHANGED <<keyFile, sealed, table, file>>
  BY <1>1 DEF configVars, accessVars
<1>9. CASE stage' = None /\ paused' = FALSE /\ backup' = "idle"
  <2>1. RestoreAgrees'
    BY <1>1, <1>3, <1>4, <1>9 DEF RestoreAgrees, Writing, StateIsRecoverable
  <2> QED
    BY <1>1, <1>2, <1>4, <1>7, <1>9, <2>1, RestoreStepAgrees DEF Agrees, TypeOK, BackupSteps
<1>10. CASE stage' = stage /\ UNCHANGED paused /\ backup' \in Writing
  <2>1. backup' \in {"open main", "write main", "restored"} => CaddyReplaced("generated")'
    <3>1. CASE OpenGenerated
      BY <1>10, <3>1 DEF OpenGenerated, OpenCaddyFile, Continue, IsArchived, CaddyReplaced
    <3>2. CASE WriteGenerated
      BY <1>5, <1>6, <1>10, <3>2 DEF WriteGenerated, WriteCaddyFile, CaddyReplaced
    <3>3. CASE OpenMain \/ WriteMain
      <4>1. CaddyReplaced("generated")
        BY <3>3 DEF OpenMain, WriteMain, OpenCaddyFile, WriteCaddyFile, Continue, Agrees, RestoreAgrees
      <4>2. caddy'["generated"] = caddy["generated"]
        BY <1>5, <1>6, <3>3 DEF OpenMain, WriteMain, OpenCaddyFile, WriteCaddyFile
      <4> QED
        BY <1>10, <4>1, <4>2 DEF CaddyReplaced
    <3> QED
      BY <1>10, <3>1, <3>2, <3>3 DEF CaddyBreaksOff, EndRestore, Continue, Writing
  <2>2. backup' = "restored" => CaddyReplaced("main")'
    <3>1. CASE OpenMain
      BY <1>10, <3>1 DEF OpenMain, OpenCaddyFile, Continue, IsArchived, CaddyReplaced
    <3>2. CASE WriteMain
      BY <1>5, <1>6, <1>10, <3>2 DEF WriteMain, WriteCaddyFile, CaddyReplaced
    <3>3. CASE OpenGenerated \/ WriteGenerated
      BY <3>3 DEF OpenGenerated, WriteGenerated, OpenCaddyFile, WriteCaddyFile, Continue
    <3> QED
      BY <1>10, <3>1, <3>2, <3>3 DEF CaddyBreaksOff, EndRestore, Continue, Writing
  <2>3. Replaced'
    BY <1>4, <1>8, <1>10 DEF Replaced
  <2>4. RestoreAgrees'
    BY <1>1, <1>3, <1>4, <1>10, <2>1, <2>2, <2>3 DEF RestoreAgrees, Writing, StateIsRecoverable
  <2> QED
    BY <1>1, <1>2, <1>4, <1>7, <1>10, <2>4, RestoreStepAgrees DEF Agrees, TypeOK, BackupSteps, Writing
<1> QED
  BY <1>1, <1>9, <1>10

(* Every step keeps the invariant, *)
LEMMA NextAgrees == Agrees /\ [Next]_vars => Agrees'
<1> SUFFICES ASSUME Agrees, [Next]_vars
             PROVE  Agrees'
  OBVIOUS
<1>1. ASSUME NEW w \in Workers, ConfigCommand(w), UNCHANGED <<accessVars, backupVars>>
      PROVE  Agrees'
  BY <1>1, ConfigCommandAgrees
<1>2. ASSUME NEW w \in Workers, AccessCommand(w), UNCHANGED <<configVars, backupVars>>
      PROVE  Agrees'
  BY <1>2, AccessCommandAgrees
<1>3. CASE WriteRoutes
  BY <1>3, RoutesAgree
<1>4. CASE (\E p \in Places : BeginBackup(p)) \/ PublishArchive \/ BackupFails
  BY <1>4, BackupStepsAgree
<1>5. CASE RestoreStep
  BY <1>5, BeginRestoreAgrees, RemoveAgrees, MoveAgrees, BreakOffAgrees, CaddyAgrees DEF RestoreStep
<1>6. CASE UNCHANGED vars
  <2>1. /\ UNCHANGED <<pc, paused, started, keyFile, generated, staged, held, naming, reading, sealed>>
        /\ UNCHANGED <<table, file, listed, alone, settled>>
        /\ UNCHANGED <<caddy, whole, archive, backup, place, stage, lost, backups>>
    BY <1>6 DEF vars, processVars, configVars, accessVars, backupVars
  <2>2. TypeOK'
    BY <2>1 DEF Agrees, TypeOK, ConfigTypeOK, AccessTypeOK
  <2>3. WindowAgrees' /\ ConfigAgrees'
    BY <2>1 DEF Agrees, WindowAgrees, AllIdle, ConfigAgrees, Opens
  <2>4. AccessAgrees'
    BY <2>1 DEF Agrees, AccessAgrees, LoneCommand, Overlaps, Exact
  <2>5. RestoreAgrees'
    BY <2>1 DEF Agrees, RestoreAgrees, Usable, Opens, Replaced, CaddyReplaced, StateIsRecoverable
  <2> QED
    BY <2>2, <2>3, <2>4, <2>5 DEF Agrees
<1> QED
  BY <1>1, <1>2, <1>3, <1>4, <1>5, <1>6 DEF Next, RestoreStep

(* in every behaviour. *)
LEMMA AlwaysAgrees == Spec => []Agrees
  BY InitAgrees, NextAgrees, PTL DEF Spec

-----------------------------------------------------------------------------
(* Every variable of the host keeps its type. *)
THEOREM TypeCorrect == Spec => []TypeOK
<1>1. Agrees => TypeOK
  BY DEF Agrees
<1> QED
  BY <1>1, AlwaysAgrees, PTL

(* Whatever commands find the key missing at once, fail or are killed, and   *)
(* whatever is restored: outside of maintenance every stored config value    *)
(* opens with the key on disk, and so does what a command has read.          *)
THEOREM ValuesStayOpen == Spec => []SealedValuesOpen
<1>1. Agrees => SealedValuesOpen
  BY DEF Agrees, WindowAgrees, ConfigAgrees, Opens, SealedValuesOpen, ValuesOpen, ReadValuesOpen
<1> QED
  BY <1>1, AlwaysAgrees, PTL

(* One key command that runs alone to its end leaves both authorized_keys    *)
(* files equal to the table, however many overlapped or died before it.      *)
THEOREM LoneCommandsHeal == Spec => []LoneCommandHeals
<1>1. Agrees => LoneCommandHeals
  BY DEF Agrees, AccessAgrees, LoneCommandHeals, Exact
<1> QED
  BY <1>1, AlwaysAgrees, PTL

(* A restore that reports success has put all of one archive in place. *)
THEOREM RestoresAreWhole == Spec => []RestoreIsWhole
<1>1. ASSUME Agrees, backup = "restored"
      PROVE  /\ whole /\ [Live EXCEPT !.caddy = stage.caddy] = stage
             /\ \A f \in CaddyFiles : stage.caddy[f] # "absent" => caddy[f] = stage.caddy[f]
  <2>1. whole /\ stage \in Snapshots /\ Replaced /\ CaddyReplaced("generated") /\ CaddyReplaced("main")
    BY <1>1 DEF Agrees, TypeOK, WindowAgrees, RestoreAgrees, Writing
  <2>2. [Live EXCEPT !.caddy = stage.caddy] = stage
    BY <2>1 DEF Live, Replaced, Snapshots
  <2> QED
    BY <2>1, <2>2 DEF CaddyReplaced, CaddyFiles
<1>2. Agrees => RestoreIsWhole
  BY <1>1 DEF RestoreIsWhole
<1> QED
  BY <1>2, AlwaysAgrees, PTL

(* Wherever a restore breaks off, there is something to go on from, unless   *)
(* it had removed the very archive it restored and its copy too.            *)
THEOREM StaysRecoverable == Spec => []StateIsRecoverable
<1>1. Agrees => StateIsRecoverable
  BY DEF Agrees, RestoreAgrees
<1> QED
  BY <1>1, AlwaysAgrees, PTL

(* No command replaces the key file, however they race to create it. *)
THEOREM KeysAreKept == Spec => KeyIsKept
<1>1. ASSUME Agrees, [Next]_vars, keyFile # None, ~paused
      PROVE  keyFile' = keyFile
  <2>1. backup = "idle"
    BY <1>1 DEF Agrees, WindowAgrees
  <2>2. ASSUME NEW w \in Workers, ConfigCommand(w)
        PROVE  keyFile' = keyFile
    BY <1>1, <2>2 DEF ConfigCommand, BeginSet, Unset, Reveal, ResolveEnv, BeginRead, StageKey, LinkKey, Vacant, LoadKey,
       SealValue, Open, StopConfig
  <2>3. CASE UNCHANGED configVars
    BY <2>3 DEF configVars
  <2>4. CASE UNCHANGED vars
    BY <2>4 DEF vars, configVars
  <2>5. ~RemoveData /\ ~MoveData /\ \A kept, parts : ~RemoveBreaksOff(parts, kept) /\ ~MoveBreaksOff(kept)
    BY <2>1 DEF RemoveData, MoveData, RemoveBreaksOff, MoveBreaksOff, Continue
  <2>6. ~CaddyBreaksOff /\ ~OpenGenerated /\ ~WriteGenerated /\ ~OpenMain /\ ~WriteMain /\ ~EndRestore
    BY <2>1 DEF CaddyBreaksOff, OpenGenerated, WriteGenerated, OpenMain, WriteMain, EndRestore, OpenCaddyFile,
       WriteCaddyFile, Continue
  <2> QED
    BY <1>1, <2>2, <2>3, <2>4, <2>5, <2>6 DEF Next, WriteRoutes, BeginBackup, BeginRestore, PublishArchive, BackupFails
<1>2. Agrees /\ [Next]_vars => [keyFile # None /\ ~paused => keyFile' = keyFile]_<<keyFile, paused>>
  BY <1>1
<1> QED
  BY <1>2, AlwaysAgrees, PTL DEF Spec, KeyIsKept
=============================================================================
