----------------------------- MODULE AppConfig -----------------------------
(***************************************************************************)
(* internal/appconfig: config values sealed in the store by a key that is a *)
(* file beside it, created by the first command that needs it.              *)
(***************************************************************************)
EXTENDS OperatorCommands

CONSTANTS
  Names,   \* names of config values, over all apps
  MaxKeys  \* bound: keys ever generated

ASSUME AppConfigAssumption == MaxKeys \in Nat /\ None \notin 1 .. MaxKeys /\ None \notin Names

Keys == 1 .. MaxKeys

VARIABLES
  keyFile,   \* the key in the file, None when there is no file
  generated, \* keys generated so far
  staged,    \* [Workers -> the key in its temporary file]
  held,      \* [Workers -> the key it seals with]
  naming,    \* [Workers -> the name it sets]
  reading,   \* [Workers -> keys of the sealed values it has read]
  sealed     \* [Names -> the key the stored value is sealed with]

configVars == <<keyFile, generated, staged, held, naming, reading, sealed>>

ConfigSteps == {"stage key", "link key", "load key", "seal", "open"}

ConfigTypeOK ==
  /\ keyFile \in Keys \cup {None}
  /\ generated \in 0 .. MaxKeys
  /\ staged \in [Workers -> Keys \cup {None}]
  /\ held \in [Workers -> Keys \cup {None}]
  /\ naming \in [Workers -> Names \cup {None}]
  /\ reading \in [Workers -> SUBSET Keys]
  /\ sealed \in [Names -> Keys \cup {None}]
  /\ \A w \in Workers : pc[w] = "seal" => held[w] # None /\ naming[w] # None

ConfigInit ==
  /\ keyFile = None /\ generated = 0
  /\ staged = [w \in Workers |-> None] /\ held = [w \in Workers |-> None]
  /\ naming = [w \in Workers |-> None] /\ reading = [w \in Workers |-> {}]
  /\ sealed = [n \in Names |-> None]

(* Service.Set reads the key file, and creates a missing one.  An import is *)
(* one Set after the other; a failure leaves the lines before it done.       *)
LoadOrCreateHostKey == IF keyFile = None THEN "stage key" ELSE "seal"
BeginSet(w, n) ==
  /\ Start(w, LoadOrCreateHostKey)
  /\ naming' = [naming EXCEPT ![w] = n]
  /\ held' = [held EXCEPT ![w] = keyFile]
  /\ UNCHANGED <<keyFile, generated, staged, reading, sealed>>

(* A complete key is written to a file of its own ... *)
StageKey(w) ==
  /\ Goto(w, "stage key", "link key")
  /\ generated < MaxKeys
  /\ generated' = generated + 1
  /\ staged' = [staged EXCEPT ![w] = generated + 1]
  /\ UNCHANGED <<keyFile, held, naming, reading, sealed>>

(* What a command that ended had in memory. *)
Forgets(w) == held' = [held EXCEPT ![w] = None] /\ naming' = [naming EXCEPT ![w] = None]

(* ... and published by a hard link, which loses to one that exists; then    *)
(* the directory is synced, which may fail.                                 *)
Replaceable == TRUE
Vacant == keyFile = None
LinkKey(w) ==
  /\ staged' = [staged EXCEPT ![w] = None]
  /\ \/ /\ Vacant
        /\ keyFile' = staged[w]
        /\ \/ /\ Goto(w, "link key", "seal")
              /\ held' = [held EXCEPT ![w] = staged[w]] /\ UNCHANGED naming
           \/ Goto(w, "link key", "idle") /\ Forgets(w)
     \/ /\ ~Vacant
        /\ Goto(w, "link key", "load key")
        /\ UNCHANGED <<keyFile, held, naming>>
  /\ UNCHANGED <<generated, reading, sealed>>

KeepOwnKey(w) ==
  /\ Goto(w, "load key", "seal")
  /\ held' = [held EXCEPT ![w] = generated]
  /\ UNCHANGED <<keyFile, generated, staged, naming, reading, sealed>>
LoadKey(w) ==
  /\ keyFile # None
  /\ Goto(w, "load key", "seal")
  /\ held' = [held EXCEPT ![w] = keyFile]
  /\ UNCHANGED <<keyFile, generated, staged, naming, reading, sealed>>

(* SetAppConfigValue, in one transaction with its event. *)
SealValue(w) ==
  /\ Goto(w, "seal", "idle")
  /\ sealed' = [sealed EXCEPT ![naming[w]] = held[w]]
  /\ Forgets(w)
  /\ UNCHANGED <<keyFile, generated, staged, reading>>

Unset(w, n) ==
  /\ Start(w, "idle") /\ sealed[n] # None
  /\ sealed' = [sealed EXCEPT ![n] = None]
  /\ UNCHANGED <<keyFile, generated, staged, held, naming, reading>>

(* Reveal reads one value, ResolveEnv and RedactionValues read all: then     *)
(* they load the key and open what they have read.                          *)
BeginRead(w, names) ==
  /\ \E n \in names : sealed[n] # None
  /\ Start(w, "open")
  /\ reading' = [reading EXCEPT ![w] = {sealed[n] : n \in names} \ {None}]
  /\ UNCHANGED <<keyFile, generated, staged, held, naming, sealed>>
Reveal(w, n) == BeginRead(w, {n})
ResolveEnv(w) == BeginRead(w, Names)

Open(w) ==
  /\ Goto(w, "open", "idle")
  /\ reading' = [reading EXCEPT ![w] = {}]
  /\ UNCHANGED <<keyFile, generated, staged, held, naming, sealed>>

(* A failure, or a kill, which leaves the temporary file: nothing reads it.  *)
StopConfig(w) ==
  /\ pc[w] \in ConfigSteps
  /\ Stops(w)
  /\ Forgets(w) /\ reading' = [reading EXCEPT ![w] = {}]
  /\ staged' = [staged EXCEPT ![w] = None]
  /\ UNCHANGED <<keyFile, generated, sealed>>

ConfigCommand(w) ==
  \/ \E n \in Names : BeginSet(w, n) \/ Unset(w, n) \/ Reveal(w, n)
  \/ StageKey(w) \/ LinkKey(w) \/ LoadKey(w) \/ SealValue(w)
  \/ ResolveEnv(w) \/ Open(w) \/ StopConfig(w)

-----------------------------------------------------------------------------
(* Every stored value opens with the key on disk, however many commands      *)
(* found the key missing at once, and after every restore: what was sealed   *)
(* with a key that lost would be gone for good.                             *)
ValuesOpen == ~paused => \A n \in Names : sealed[n] # None => sealed[n] = keyFile

(* A command that has read values can open them: between its two reads the   *)
(* key is not another one.                                                  *)
ReadValuesOpen == \A w \in Workers : pc[w] = "open" => reading[w] \subseteq {keyFile}

(* Whatever was sealed can be opened, in the store and in a command's hands. *)
SealedValuesOpen == ValuesOpen /\ ReadValuesOpen

(* Outside a maintenance window the key file never changes once it exists.  *)
KeyIsKept == [][keyFile # None /\ ~paused => keyFile' = keyFile]_<<keyFile, paused>>
=============================================================================
