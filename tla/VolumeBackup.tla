---------------------------- MODULE VolumeBackup ----------------------------
(***************************************************************************)
(* internal/backup's ExportVolume and RestoreVolume among deployments that *)
(* create and mount volumes of the same names.  Every docker command is a   *)
(* step: between two of them the host goes on, and each may fail with or    *)
(* without having taken effect.  An operation killed at any step leaves its  *)
(* helper container to itself.                                              *)
(***************************************************************************)
EXTENDS Naturals

CONSTANTS
  Ops,     \* operations, each an export or a restore
  Names,   \* volume names
  Paths,   \* archive paths
  None

ASSUME VolumeAssumption ==
  /\ None \notin Ops \cup Names \cup Paths
  /\ Ops \cap {"absent", "foreign"} = {}

VARIABLES
  volume,    \* [Names -> "absent", "foreign" or the token of its operation label]
  content,   \* [Names -> what the volume holds]
  app,       \* [Names -> the deployed read/write container that mounts it]
  archive,   \* [Paths -> what the file holds, None when there is none]
  kind, target, path, \* the request of each operation
  pc,        \* [Ops -> its next command]
  copy,      \* [Ops -> what its staged tar holds]
  spoiled,   \* operations whose volume was written by another while they copied
  helper,    \* [Ops -> its helper container]
  failed,    \* operations that met an error
  incomplete,\* operations whose clean-up reported that it could not finish
  slipped    \* history: a writer came and went while the operation copied

hostVars == <<volume, content, app, archive>>
request == <<kind, target, path>>
opVars == <<pc, copy, spoiled, helper, failed, incomplete, slipped>>
vars == <<hostVars, request, opVars>>

Contents == {"empty", "saved", "written", "partial", "mixed"}
ASSUME VolumeNoneAssumption == None \notin Contents
Copying == {"copy", "copying", "clean helper", "reinspect", "last check"}
Commands == {"inspect", "check", "recheck", "stage", "exists", "create", "own", "publish",
             "find volume", "inspect volume", "remove volume"} \cup Copying
Idle == {"idle", "done", "killed"}
Working(o) == pc[o] \notin Idle

TypeOK ==
  /\ volume \in [Names -> {"absent", "foreign"} \cup Ops]
  /\ content \in [Names -> Contents]
  /\ app \in [Names -> {"none", "stopped", "running"}]
  /\ archive \in [Paths -> Contents \cup {None}]
  /\ kind \in [Ops -> {"none", "export", "restore"}]
  /\ target \in [Ops -> Names \cup {None}]
  /\ path \in [Ops -> Paths \cup {None}]
  /\ pc \in [Ops -> Commands \cup Idle]
  /\ copy \in [Ops -> Contents]
  /\ helper \in [Ops -> {"none", "stopped", "running"}]
  /\ spoiled \subseteq Ops /\ failed \subseteq Ops /\ incomplete \subseteq Ops /\ slipped \subseteq Ops

Init ==
  /\ volume \in [Names -> {"absent", "foreign"}]
  /\ content = [n \in Names |-> "empty"]
  /\ app = [n \in Names |-> "none"]
  /\ archive \in [Paths -> {None, "saved"}]
  /\ kind = [o \in Ops |-> "none"]
  /\ target = [o \in Ops |-> None] /\ path = [o \in Ops |-> None]
  /\ pc = [o \in Ops |-> "idle"]
  /\ copy = [o \in Ops |-> "empty"]
  /\ helper = [o \in Ops |-> "none"]
  /\ spoiled = {} /\ failed = {} /\ incomplete = {} /\ slipped = {}

-----------------------------------------------------------------------------
(* Docker. *)

On(n) == {o \in Ops : target[o] = n}
Exists(n) == volume[n] # "absent"
HasWriter(n) == app[n] = "running" \/ \E o \in On(n) : kind[o] = "restore" /\ helper[o] = "running"
InUse(n) == app[n] # "none" \/ \E o \in On(n) : helper[o] # "none"

(* A write to volume n spoils the copies under way, but that of the writer. *)
Spoil(n, writers) ==
  spoiled' = spoiled \cup {o \in On(n) \ writers : helper[o] = "running"}

(* A writer of volume n ends while operations copy it. *)
Leaves(n, writers) == slipped' = slipped \cup {o \in On(n) \ writers : pc[o] \in Copying}

-----------------------------------------------------------------------------
(* Steps of an operation. *)

Goto(o, s) == pc' = [pc EXCEPT ![o] = s]

(* Where an error leads: RestoreVolume registers the removal of its volume  *)
(* before it creates it.                                                    *)
OnErrorOnceCreated(o) ==
  IF kind[o] = "restore" /\ pc[o] \notin {"stage", "exists", "recheck", "create"} THEN "find volume" ELSE "done"
OnError(o) ==
  IF kind[o] = "restore" /\ pc[o] \notin {"stage", "exists", "recheck"} THEN "find volume" ELSE "done"

Fail(o) == Goto(o, OnError(o)) /\ failed' = failed \cup {o}

Request(o, k, n, p) ==
  /\ pc[o] = "idle"
  /\ kind' = [kind EXCEPT ![o] = k]
  /\ target' = [target EXCEPT ![o] = n]
  /\ path' = [path EXCEPT ![o] = p]
  /\ Goto(o, IF k = "export" THEN "inspect" ELSE "stage")
  /\ UNCHANGED <<hostVars, copy, spoiled, helper, failed, incomplete, slipped>>

BeginExport(o, n, p) == Request(o, "export", n, p)
BeginRestore(o, n, p) == Request(o, "restore", n, p)

(* stageVolumeArchive validates and normalizes all of the archive before     *)
(* any Docker mutation.                                                     *)
HasArchive(o) == archive[path[o]] \in Contents
Stage(o) ==
  /\ pc[o] = "stage"
  /\ \/ /\ HasArchive(o)
        /\ copy' = [copy EXCEPT ![o] = archive[path[o]]]
        /\ Goto(o, "exists") /\ UNCHANGED failed
     \/ /\ Fail(o) /\ UNCHANGED copy
  /\ UNCHANGED <<hostVars, request, spoiled, helper, incomplete, slipped>>

(* A command that only reads: it goes on when `good`, and may always fail. *)
Query(o, here, good, next) ==
  /\ pc[o] = here
  /\ \/ good /\ Goto(o, next) /\ UNCHANGED failed
     \/ Fail(o)
  /\ UNCHANGED <<hostVars, request, copy, spoiled, helper, incomplete, slipped>>

InspectVolume(o) == Query(o, "inspect", Exists(target[o]), "check")
CheckWriters(o) == Query(o, "check", ~HasWriter(target[o]), IF kind[o] = "export" THEN "recheck" ELSE "copy")
VolumeExists(o) == Query(o, "exists", ~Exists(target[o]), "recheck")

(* The pull of the helper image may take time; an export then looks for    *)
(* writers again, a restore creates its volume.                             *)
PullHelper(o) ==
  IF kind[o] = "export" THEN Query(o, "recheck", ~HasWriter(target[o]), "copy")
  ELSE Query(o, "recheck", TRUE, "create")

(* docker volume create is a no-op on a volume that exists. *)
CreateVolume(o) ==
  LET n == target[o] IN
  /\ pc[o] = "create"
  /\ \/ /\ volume' = [volume EXCEPT ![n] = IF @ = "absent" THEN o ELSE @]
        /\ content' = [content EXCEPT ![n] = IF Exists(n) THEN @ ELSE "empty"]
        /\ ((Goto(o, "own") /\ UNCHANGED failed) \/ Fail(o))
     \/ /\ Fail(o) /\ UNCHANGED <<volume, content>>
  /\ UNCHANGED <<app, archive, request, copy, spoiled, helper, incomplete, slipped>>

(* inspectOrdinaryVolume, and the comparison of its label with the token. *)
IsThere(o) == Exists(target[o])
IsOwn(o) == volume[target[o]] = o
Own(o) == Query(o, "own", IsOwn(o), "check")

(* docker run of the helper, which creates a volume that is gone; the       *)
(* container may be left created but not started.                           *)
StartHelper(o) ==
  LET n == target[o] IN
  /\ pc[o] = "copy"
  /\ \/ /\ helper' = [helper EXCEPT ![o] = "running"]
        /\ volume' = [volume EXCEPT ![n] = IF @ = "absent" THEN "foreign" ELSE @]
        /\ IF kind[o] = "restore"
           THEN content' = [content EXCEPT ![n] = "partial"] /\ Spoil(n, {o})
           ELSE UNCHANGED <<content, spoiled>>
        /\ copy' = [copy EXCEPT ![o] = IF kind[o] = "export" THEN content[n] ELSE @]
        /\ Goto(o, "copying") /\ UNCHANGED failed
     \/ /\ helper' \in {helper, [helper EXCEPT ![o] = "stopped"]}
        /\ Goto(o, "clean helper") /\ failed' = failed \cup {o}
        /\ UNCHANGED <<volume, content, copy, spoiled>>
  /\ UNCHANGED <<app, archive, request, incomplete, slipped>>

(* tar ends, with or without an error or diagnostics, and --rm removes its *)
(* container; or the client loses the container, which goes on by itself.   *)
(* A helper whose operation was killed ends the same way.                   *)
HelperEnds(o) ==
  LET n == target[o] IN
  /\ helper[o] = "running"
  /\ helper' \in {[helper EXCEPT ![o] = s] : s \in {"none", "stopped"}}
  /\ Leaves(n, IF kind[o] = "restore" THEN {o} ELSE Ops)
  /\ IF kind[o] = "restore" THEN Spoil(n, {o}) ELSE UNCHANGED spoiled
  /\ \/ /\ content' = IF kind[o] = "restore" THEN [content EXCEPT ![n] = IF o \in spoiled THEN "mixed" ELSE copy[o]] ELSE content
        /\ IF pc[o] = "copying" THEN Goto(o, "clean helper") ELSE UNCHANGED pc
        /\ UNCHANGED failed
     \/ /\ UNCHANGED content
        /\ IF pc[o] = "copying"
           THEN Goto(o, "clean helper") /\ failed' = failed \cup {o}
           ELSE UNCHANGED <<pc, failed>>
  /\ UNCHANGED <<volume, app, archive, request, copy, incomplete>>

ClientLosesHelper(o) ==
  /\ pc[o] = "copying"
  /\ Goto(o, "clean helper") /\ failed' = failed \cup {o}
  /\ UNCHANGED <<hostVars, request, copy, spoiled, helper, incomplete, slipped>>

(* cleanupHelper runs on every path out of runHelper, under a context of   *)
(* its own.                                                                 *)
AfterHelper(o) ==
  IF o \in failed THEN (IF kind[o] = "restore" THEN "find volume" ELSE "done")
  ELSE IF kind[o] = "restore" THEN "last check" ELSE "reinspect"
CleanHelper(o) ==
  /\ pc[o] = "clean helper"
  /\ \/ /\ helper' = [helper EXCEPT ![o] = "none"]
        /\ Goto(o, AfterHelper(o))
        /\ IF helper[o] = "running" /\ kind[o] = "restore"
           THEN Spoil(target[o], {o}) /\ Leaves(target[o], {o})
           ELSE UNCHANGED <<spoiled, slipped>>
        /\ UNCHANGED <<failed, incomplete>>
     \/ /\ Fail(o) /\ incomplete' = incomplete \cup {o}
        /\ UNCHANGED <<spoiled, helper, slipped>>
  /\ UNCHANGED <<hostVars, request, copy>>

Reinspect(o) == Query(o, "reinspect", Exists(target[o]), "last check")
LastCheck(o) == Query(o, "last check", ~HasWriter(target[o]), IF kind[o] = "export" THEN "publish" ELSE "done")

(* packVolumeArchive publishes by a hard link, which replaces nothing. *)
MayBeReplaced(p) == TRUE
IsFree(p) == archive[p] = None
Publish(o) ==
  /\ pc[o] = "publish"
  /\ \/ /\ IsFree(path[o])
        /\ archive' = [archive EXCEPT ![path[o]] = copy[o]]
        /\ Goto(o, "done") /\ UNCHANGED failed
     \/ /\ Fail(o) /\ UNCHANGED archive
  /\ UNCHANGED <<volume, content, app, request, copy, spoiled, helper, incomplete, slipped>>

(* cleanupVolume removes the volume when it carries the operation's token. *)
FindVolume(o) ==
  /\ pc[o] = "find volume"
  /\ \/ /\ Goto(o, IF Exists(target[o]) THEN "inspect volume" ELSE "done")
        /\ UNCHANGED incomplete
     \/ /\ Goto(o, "done") /\ incomplete' = incomplete \cup {o}
  /\ UNCHANGED <<hostVars, request, copy, spoiled, helper, failed, slipped>>

InspectOwner(o) ==
  /\ pc[o] = "inspect volume"
  /\ \/ /\ Exists(target[o])
        /\ Goto(o, IF IsOwn(o) THEN "remove volume" ELSE "done")
        /\ UNCHANGED incomplete
     \/ /\ Goto(o, "done") /\ incomplete' = incomplete \cup {o}
  /\ UNCHANGED <<hostVars, request, copy, spoiled, helper, failed, slipped>>

RemoveOwnVolume(o) ==
  LET n == target[o] IN
  /\ pc[o] = "remove volume"
  /\ Goto(o, "done")
  /\ \/ /\ Exists(n) /\ ~InUse(n)
        /\ volume' = [volume EXCEPT ![n] = "absent"]
        /\ content' = [content EXCEPT ![n] = "empty"]
        /\ UNCHANGED incomplete
     \/ /\ incomplete' = incomplete \cup {o} /\ UNCHANGED <<volume, content>>
  /\ UNCHANGED <<app, archive, request, copy, spoiled, helper, failed, slipped>>

Kill(o) ==
  /\ Working(o)
  /\ Goto(o, "killed")
  /\ UNCHANGED <<hostVars, request, copy, spoiled, helper, failed, incomplete, slipped>>

-----------------------------------------------------------------------------
(* The rest of the host. *)

(* A deployment creates the volume when it is missing, and mounts it. *)
ComposeUp(n) ==
  /\ app[n] # "running"
  /\ app' = [app EXCEPT ![n] = "running"]
  /\ volume' = [volume EXCEPT ![n] = IF @ = "absent" THEN "foreign" ELSE @]
  /\ UNCHANGED <<content, archive, request, opVars>>

AppWrites(n) ==
  /\ app[n] = "running"
  /\ content' = [content EXCEPT ![n] = "written"]
  /\ Spoil(n, {})
  /\ UNCHANGED <<volume, app, archive, request, pc, copy, helper, failed, incomplete, slipped>>

ComposeStop(n) ==
  /\ app[n] = "running"
  /\ app' \in {[app EXCEPT ![n] = s] : s \in {"none", "stopped"}}
  /\ Leaves(n, {})
  /\ UNCHANGED <<volume, content, archive, request, pc, copy, spoiled, helper, failed, incomplete>>

ComposeDown(n) ==
  /\ app[n] = "stopped"
  /\ app' = [app EXCEPT ![n] = "none"]
  /\ UNCHANGED <<volume, content, archive, request, opVars>>

(* Assumption: nobody removes a volume while an operation works on it. *)
OperatorRemoves(n) ==
  /\ Exists(n) /\ ~InUse(n)
  /\ \A o \in On(n) : ~Working(o)
  /\ volume' = [volume EXCEPT ![n] = "absent"]
  /\ content' = [content EXCEPT ![n] = "empty"]
  /\ UNCHANGED <<app, archive, request, opVars>>

Command(o) ==
  \/ Stage(o) \/ InspectVolume(o) \/ CheckWriters(o) \/ VolumeExists(o) \/ PullHelper(o)
  \/ CreateVolume(o) \/ Own(o) \/ StartHelper(o) \/ HelperEnds(o) \/ ClientLosesHelper(o)
  \/ CleanHelper(o) \/ Reinspect(o) \/ LastCheck(o) \/ Publish(o)
  \/ FindVolume(o) \/ InspectOwner(o) \/ RemoveOwnVolume(o) \/ Kill(o)

Host(n) == ComposeUp(n) \/ AppWrites(n) \/ ComposeStop(n) \/ ComposeDown(n) \/ OperatorRemoves(n)

Next ==
  \/ \E o \in Ops, n \in Names, p \in Paths : BeginExport(o, n, p) \/ BeginRestore(o, n, p)
  \/ \E o \in Ops : Command(o)
  \/ \E n \in Names : Host(n)

Spec == Init /\ [][Next]_vars

-----------------------------------------------------------------------------
Succeeded(o) == pc[o] = "done" /\ o \notin failed

(* A restore's helper, which runs as root with write access, only ever      *)
(* mounts the volume its own operation created: RestoreVolume compares the   *)
(* label after a create that is silent about an existing volume.            *)
OnlyOwnVolumeIsWritten ==
  \A o \in Ops : kind[o] = "restore" /\ helper[o] = "running" => volume[target[o]] = o

(* An operation that returns without reporting an incomplete clean-up has   *)
(* left no container behind, and a restore that failed no volume: the       *)
(* deferred clean-ups run on every path, the helper's before the volume's.   *)
ReturnLeavesNothing ==
  \A o \in Ops : pc[o] = "done" /\ o \notin incomplete =>
    /\ helper[o] = "none"
    /\ kind[o] = "restore" /\ o \in failed => volume[target[o]] # o

(* An operation that comes to report success has copied one moment of the    *)
(* volume: an export's archive was not written into beneath it, a restored   *)
(* volume holds what its archive still holds, unless a writer came and went  *)
(* between the two looks at the containers.  One that is still there is seen *)
(* by the last rejectVolumeWriters, and no export replaces an archive.       *)
CopyIsExact ==
  [][\A o \in Ops : ~Succeeded(o) /\ Succeeded(o)' /\ o \notin slipped =>
       \/ kind[o] = "export" /\ o \notin spoiled'
       \/ kind[o] = "restore" /\ content[target[o]] = archive[path[o]]]_vars

(* The operations implement VolumeOwnership. *)
Ownership == INSTANCE VolumeOwnership WITH
  owner <- volume,
  busy <- [o \in Ops |-> IF Working(o) THEN target[o] ELSE None],
  kept <- {o \in Ops : kind[o] = "restore" /\ Succeeded(o)}

(* Only the restore that created a volume removes it, and never after it    *)
(* reported success: the claim is docker's create with the token as label,   *)
(* the removal cleanupVolume's.                                             *)
ImplementsOwnership == Ownership!Spec
=============================================================================
