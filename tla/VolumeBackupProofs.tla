------------------------- MODULE VolumeBackupProofs -------------------------
(***************************************************************************)
(* Theorems about VolumeBackup, for every set of operations, volumes and    *)
(* paths: a restore writes only the volume it created, an operation that     *)
(* returns leaves nothing behind, one that reports success has copied one    *)
(* moment of its volume, and the operations implement VolumeOwnership.       *)
(***************************************************************************)
EXTENDS VolumeBackup, TLAPS

Cleaning == {"find volume", "inspect volume", "remove volume"}
Owned == {"check", "copy", "copying", "clean helper", "last check", "remove volume"}

(* The request of an operation stays as it was made, each kind takes its own *)
(* commands, and only a restore that failed cleans up.                      *)
RequestAgrees ==
  \A o \in Ops :
    /\ pc[o] = "idle" => kind[o] = "none" /\ target[o] = None /\ helper[o] = "none"
    /\ pc[o] # "idle" => kind[o] \in {"export", "restore"} /\ target[o] \in Names /\ path[o] \in Paths
    /\ kind[o] = "restore" => pc[o] \notin {"inspect", "reinspect", "publish"}
    /\ kind[o] = "export" => pc[o] \notin {"stage", "exists", "create", "own"} \cup Cleaning
    /\ pc[o] \in Cleaning => o \in failed

(* A volume with an operation's token is the one that the operation works   *)
(* on; from the comparison of the label on, and wherever its helper runs, a  *)
(* restore's volume has its token.                                          *)
TokenAgrees ==
  /\ \A n \in Names : volume[n] \in Ops => target[volume[n]] = n /\ kind[volume[n]] = "restore"
  /\ \A o \in Ops : kind[o] = "restore" /\ (pc[o] \in Owned \/ helper[o] = "running") => volume[target[o]] = o

Sound == TypeOK /\ RequestAgrees /\ TokenAgrees

(* Nothing is requested, and no volume has a token, in the beginning. *)
LEMMA InitSound == Init => Sound
  BY VolumeAssumption DEF Init, Sound, TypeOK, RequestAgrees, TokenAgrees, Contents, Idle, Owned, Cleaning

-----------------------------------------------------------------------------
(* A step that changes the command of one operation and nothing of the host *)
(* keeps the invariant when the new command fits its kind and its volume.   *)
LEMMA NextCommand ==
  ASSUME Sound, NEW o \in Ops, pc[o] # "idle",
         NEW s \in Commands \cup {"done", "killed"}, Goto(o, s), UNCHANGED <<volume, request, helper>>,
         failed' \in {failed, failed \cup {o}},
         kind[o] = "restore" => s \notin {"inspect", "reinspect", "publish"},
         kind[o] = "export" => s \notin {"stage", "exists", "create", "own"} \cup Cleaning,
         s \in Cleaning => o \in failed',
         kind[o] = "restore" /\ s \in Owned => volume[target[o]] = o,
         content' \in [Names -> Contents], UNCHANGED app, archive' \in [Paths -> Contents \cup {None}],
         copy' \in [Ops -> Contents], spoiled' \subseteq Ops, incomplete' \subseteq Ops, slipped' \subseteq Ops
  PROVE  Sound'
<1> USE DEF Sound
<1>1. /\ pc' = [pc EXCEPT ![o] = s] /\ pc \in [Ops -> Commands \cup Idle]
      /\ UNCHANGED <<volume, kind, target, path, helper>>
  BY DEF Goto, request, TypeOK
<1>2. TypeOK'
  BY <1>1 DEF TypeOK, Idle
<1>3. ASSUME NEW q \in Ops
      PROVE  /\ (pc[q] = "idle" => kind[q] = "none" /\ target[q] = None /\ helper[q] = "none")'
             /\ (pc[q] # "idle" => kind[q] \in {"export", "restore"} /\ target[q] \in Names /\ path[q] \in Paths)'
             /\ (kind[q] = "restore" => pc[q] \notin {"inspect", "reinspect", "publish"})'
             /\ (kind[q] = "export" => pc[q] \notin {"stage", "exists", "create", "own"} \cup Cleaning)'
             /\ (pc[q] \in Cleaning => q \in failed)'
  <2>1. CASE q = o
    BY <1>1, <2>1 DEF RequestAgrees, Commands, Copying, Cleaning
  <2>2. CASE q # o
    BY <1>1, <2>2 DEF RequestAgrees, Cleaning
  <2> QED
    BY <2>1, <2>2
<1>4. RequestAgrees'
  BY <1>3 DEF RequestAgrees
<1>5. TokenAgrees'
  BY <1>1 DEF TokenAgrees, Owned
<1> QED
  BY <1>2, <1>4, <1>5

(* Where an error leads fits the operation. *)
LEMMA ErrorFits ==
  ASSUME Sound, NEW o \in Ops, pc[o] # "idle"
  PROVE  /\ OnError(o) \in {"find volume", "done"}
         /\ kind[o] = "export" => OnError(o) = "done"
  BY DEF OnError

(* An operation that fails, whatever else of its own it has changed. *)
LEMMA FailSound ==
  ASSUME Sound, NEW o \in Ops, pc[o] # "idle", Fail(o), UNCHANGED <<hostVars, request, helper>>,
         copy' \in [Ops -> Contents], spoiled' \subseteq Ops, incomplete' \subseteq Ops, slipped' \subseteq Ops
  PROVE  Sound'
<1>1. OnError(o) \in {"find volume", "done"} /\ (kind[o] = "export" => OnError(o) = "done")
  BY ErrorFits
<1>2. Goto(o, OnError(o)) /\ failed' = failed \cup {o} /\ UNCHANGED <<volume, content, app, archive>>
  BY DEF Fail, hostVars
<1>3. OnError(o) \in Commands \cup {"done", "killed"}
  BY <1>1 DEF Commands
<1>4. content' \in [Names -> Contents] /\ archive' \in [Paths -> Contents \cup {None}]
  BY <1>2 DEF Sound, TypeOK
<1> QED
  BY <1>1, <1>2, <1>3, <1>4, NextCommand DEF Owned, Cleaning

(* A query goes on to a command that fits, or fails. *)
LEMMA QuerySound ==
  ASSUME Sound, NEW o \in Ops, NEW here \in Commands, NEW good \in BOOLEAN,
         NEW next \in Commands \cup {"done"}, Query(o, here, good, next),
         kind[o] = "restore" => next \notin {"inspect", "reinspect", "publish"},
         kind[o] = "export" => next \notin {"stage", "exists", "create", "own"} \cup Cleaning,
         next \notin Cleaning,
         good /\ kind[o] = "restore" /\ next \in Owned => volume[target[o]] = o
  PROVE  Sound'
<1>1. pc[o] = here /\ pc[o] # "idle"
  BY DEF Query, Commands, Copying
<1>2. UNCHANGED <<volume, content, app, archive, request, copy, spoiled, helper, incomplete, slipped>>
  BY DEF Query, hostVars
<1>3. /\ content' \in [Names -> Contents] /\ archive' \in [Paths -> Contents \cup {None}]
      /\ copy' \in [Ops -> Contents] /\ spoiled' \subseteq Ops /\ incomplete' \subseteq Ops /\ slipped' \subseteq Ops
  BY <1>2 DEF Sound, TypeOK
<1>4. CASE good /\ Goto(o, next) /\ UNCHANGED failed
  BY <1>1, <1>2, <1>3, <1>4, NextCommand
<1>5. CASE Fail(o)
  BY <1>1, <1>2, <1>3, <1>5, FailSound DEF hostVars
<1> QED
  BY <1>4, <1>5 DEF Query

-----------------------------------------------------------------------------
(* The steps, in the order of VolumeBackup. *)

(* A step of one operation that leaves the volumes alone, fits the kind and *)
(* keeps a claim where it had one; its own helper may go or stay.           *)
LEMMA OwnStep ==
  ASSUME Sound, NEW o \in Ops, pc[o] # "idle", NEW s \in Commands \cup Idle, s # "idle", Goto(o, s),
         UNCHANGED <<volume, app, archive, request>>,
         failed \subseteq failed', failed' \subseteq Ops,
         NEW h \in {"none", "stopped", "running"}, helper' = [helper EXCEPT ![o] = h],
         h = "running" => helper[o] = "running",
         kind[o] = "restore" => s \notin {"inspect", "reinspect", "publish"},
         kind[o] = "export" => s \notin {"stage", "exists", "create", "own"} \cup Cleaning,
         s \in Cleaning => o \in failed',
         kind[o] = "restore" /\ s \in Owned => volume[target[o]] = o,
         content' \in [Names -> Contents],
         copy' \in [Ops -> Contents], spoiled' \subseteq Ops, incomplete' \subseteq Ops, slipped' \subseteq Ops
  PROVE  Sound'
<1> USE DEF Sound
<1>1. /\ pc' = [pc EXCEPT ![o] = s] /\ pc \in [Ops -> Commands \cup Idle]
      /\ helper \in [Ops -> {"none", "stopped", "running"}]
      /\ UNCHANGED <<volume, kind, target, path>>
  BY DEF Goto, request, TypeOK
<1>2. TypeOK'
  BY <1>1 DEF TypeOK
<1>3. ASSUME NEW q \in Ops
      PROVE  /\ (pc[q] = "idle" => kind[q] = "none" /\ target[q] = None /\ helper[q] = "none")'
             /\ (pc[q] # "idle" => kind[q] \in {"export", "restore"} /\ target[q] \in Names /\ path[q] \in Paths)'
             /\ (kind[q] = "restore" => pc[q] \notin {"inspect", "reinspect", "publish"})'
             /\ (kind[q] = "export" => pc[q] \notin {"stage", "exists", "create", "own"} \cup Cleaning)'
             /\ (pc[q] \in Cleaning => q \in failed)'
  <2>1. CASE q = o
    BY <1>1, <2>1 DEF RequestAgrees, Cleaning
  <2>2. CASE q # o
    BY <1>1, <2>2 DEF RequestAgrees, Cleaning
  <2> QED
    BY <2>1, <2>2
<1>4. RequestAgrees'
  BY <1>3 DEF RequestAgrees
<1>5. TokenAgrees'
  BY <1>1 DEF TokenAgrees
<1> QED
  BY <1>2, <1>4, <1>5

(* A request is made by an operation that had none: no volume has its token. *)
LEMMA RequestSound ==
  ASSUME Sound, NEW o \in Ops, NEW k \in {"export", "restore"}, NEW n \in Names, NEW p \in Paths, Request(o, k, n, p)
  PROVE  Sound'
<1> USE DEF Sound
<1>1. /\ pc[o] = "idle" /\ kind' = [kind EXCEPT ![o] = k]
      /\ target' = [target EXCEPT ![o] = n] /\ path' = [path EXCEPT ![o] = p]
      /\ pc' = [pc EXCEPT ![o] = IF k = "export" THEN "inspect" ELSE "stage"]
      /\ UNCHANGED <<volume, content, app, archive, copy, spoiled, helper, failed, incomplete, slipped>>
  BY DEF Request, Goto, hostVars
<1>2. TypeOK'
  BY <1>1 DEF TypeOK, Commands
<1>3. kind[o] = "none" /\ helper[o] = "none"
  BY <1>1 DEF RequestAgrees
<1>4. RequestAgrees'
  <2>1. ASSUME NEW q \in Ops
        PROVE  /\ (pc[q] = "idle" => kind[q] = "none" /\ target[q] = None /\ helper[q] = "none")'
               /\ (pc[q] # "idle" => kind[q] \in {"export", "restore"} /\ target[q] \in Names /\ path[q] \in Paths)'
               /\ (kind[q] = "restore" => pc[q] \notin {"inspect", "reinspect", "publish"})'
               /\ (kind[q] = "export" => pc[q] \notin {"stage", "exists", "create", "own"} \cup Cleaning)'
               /\ (pc[q] \in Cleaning => q \in failed)'
    <3>1. CASE q = o
      BY <1>1, <1>3, <3>1 DEF TypeOK, Cleaning
    <3>2. CASE q # o
      BY <1>1, <3>2 DEF RequestAgrees, TypeOK, Cleaning
    <3> QED
      BY <3>1, <3>2
  <2> QED
    BY <2>1 DEF RequestAgrees
<1>5. TokenAgrees'
  <2>1. \A q \in Ops : q # o => pc'[q] = pc[q] /\ kind'[q] = kind[q] /\ target'[q] = target[q]
    BY <1>1 DEF TypeOK
  <2>2. pc'[o] \notin Owned /\ helper'[o] # "running"
    BY <1>1, <1>3 DEF TypeOK, Owned
  <2>3. ASSUME NEW m \in Names, volume[m] \in Ops
        PROVE  target'[volume[m]] = m /\ kind'[volume[m]] = "restore"
    <3>1. target[volume[m]] = m /\ kind[volume[m]] = "restore"
      BY <2>3 DEF TokenAgrees
    <3>2. volume[m] # o
      BY <1>3, <3>1
    <3> QED
      BY <2>1, <2>3, <3>1, <3>2
  <2>4. ASSUME NEW q \in Ops, kind'[q] = "restore", pc'[q] \in Owned \/ helper'[q] = "running"
        PROVE  volume[target'[q]] = q
    BY <1>1, <2>1, <2>2, <2>4 DEF TokenAgrees
  <2> QED
    BY <1>1, <2>3, <2>4 DEF TokenAgrees
<1> QED
  BY <1>2, <1>4, <1>5

(* Copying an archive in keeps the bookkeeping sound, *)
LEMMA StageSound ==
  ASSUME Sound, NEW o \in Ops, Stage(o)
  PROVE  Sound'
<1>1. pc[o] = "stage" /\ pc[o] # "idle" /\ kind[o] = "restore"
  BY DEF Stage, Sound, RequestAgrees
<1>2. archive \in [Paths -> Contents \cup {None}] /\ path[o] \in Paths /\ copy \in [Ops -> Contents]
  BY <1>1 DEF Sound, TypeOK, RequestAgrees
<1>3. copy' \in [Ops -> Contents]
  BY <1>2 DEF Stage, HasArchive
<1>4. /\ content' \in [Names -> Contents] /\ archive' \in [Paths -> Contents \cup {None}]
      /\ spoiled' \subseteq Ops /\ incomplete' \subseteq Ops /\ slipped' \subseteq Ops
  BY DEF Stage, hostVars, Sound, TypeOK
<1>5. UNCHANGED <<hostVars, request, helper>>
  BY DEF Stage
<1>6. CASE Goto(o, "exists") /\ UNCHANGED failed
  BY <1>1, <1>3, <1>4, <1>5, <1>6, NextCommand DEF Commands, Owned, Cleaning, hostVars
<1>7. CASE Fail(o)
  BY <1>1, <1>3, <1>4, <1>5, <1>7, FailSound
<1> QED
  BY <1>6, <1>7 DEF Stage

(* The commands that only read. *)
LEMMA QueriesSound ==
  ASSUME Sound, NEW o \in Ops,
         \/ InspectVolume(o) \/ CheckWriters(o) \/ VolumeExists(o) \/ PullHelper(o)
         \/ Own(o) \/ Reinspect(o) \/ LastCheck(o)
  PROVE  Sound'
<1> DEFINE Export == kind[o] = "export"
<1>0. pc[o] # "idle" => kind[o] \in {"export", "restore"}
  BY DEF Sound, RequestAgrees
<1>1. CASE InspectVolume(o)
  <2>1. kind[o] = "export"
    BY <1>1, <1>0 DEF InspectVolume, Query, Sound, RequestAgrees
  <2> QED
    BY <1>1, <2>1, QuerySound DEF InspectVolume, Exists, Commands, Cleaning
<1>2. CASE CheckWriters(o)
  <2>1. kind[o] = "restore" => volume[target[o]] = o
    BY <1>2 DEF CheckWriters, Query, Sound, TokenAgrees, Owned
  <2>2. CASE kind[o] = "export"
    BY <1>2, <2>2, QuerySound DEF CheckWriters, HasWriter, Commands, Cleaning
  <2>3. CASE kind[o] # "export"
    BY <1>2, <2>1, <2>3, QuerySound DEF CheckWriters, HasWriter, Commands, Copying, Cleaning
  <2> QED
    BY <2>2, <2>3
<1>3. CASE VolumeExists(o)
  BY <1>3, QuerySound DEF VolumeExists, Exists, Commands, Cleaning, Owned
<1>4. CASE PullHelper(o)
  <2>1. CASE kind[o] = "export"
    BY <1>4, <2>1, QuerySound DEF PullHelper, HasWriter, Commands, Copying, Cleaning
  <2>2. CASE kind[o] # "export"
    BY <1>4, <2>2, QuerySound DEF PullHelper, Commands, Cleaning, Owned
  <2> QED
    BY <2>1, <2>2
<1>5. CASE Own(o)
  BY <1>5, QuerySound DEF Own, IsOwn, Commands, Cleaning
<1>6. CASE Reinspect(o)
  <2>1. kind[o] = "export"
    BY <1>6, <1>0 DEF Reinspect, Query, Sound, RequestAgrees
  <2> QED
    BY <1>6, <2>1, QuerySound DEF Reinspect, Exists, Commands, Copying, Cleaning
<1>7. CASE LastCheck(o)
  <2>1. CASE kind[o] = "export"
    BY <1>7, <2>1, QuerySound DEF LastCheck, HasWriter, Commands, Copying, Cleaning
  <2>2. CASE kind[o] # "export"
    BY <1>7, <2>2, QuerySound DEF LastCheck, HasWriter, Commands, Copying, Cleaning, Owned
  <2> QED
    BY <2>1, <2>2
<1> QED
  BY <1>1, <1>2, <1>3, <1>4, <1>5, <1>6, <1>7

(* docker create gives the token to an absent volume only. *)
LEMMA CreateSound ==
  ASSUME Sound, NEW o \in Ops, CreateVolume(o)
  PROVE  Sound'
<1> USE DEF Sound
<1>1. /\ pc[o] = "create" /\ kind[o] = "restore" /\ target[o] \in Names
      /\ volume \in [Names -> {"absent", "foreign"} \cup Ops] /\ content \in [Names -> Contents]
      /\ pc \in [Ops -> Commands \cup Idle]
  BY DEF CreateVolume, RequestAgrees, TypeOK
<1>2. PICK s \in {"own", "find volume"} : Goto(o, s) /\ failed' \in {failed, failed \cup {o}} /\ (s = "find volume" => o \in failed')
  BY <1>1 DEF CreateVolume, Fail, OnError
<1>3. /\ pc' = [pc EXCEPT ![o] = s]
      /\ UNCHANGED <<app, archive, kind, target, path, copy, spoiled, helper, incomplete, slipped>>
  BY <1>2 DEF Goto, CreateVolume, request
<1>4. /\ volume' \in {volume, [volume EXCEPT ![target[o]] = IF @ = "absent" THEN o ELSE @]}
      /\ content' \in [Names -> Contents]
  BY <1>1 DEF CreateVolume, Contents
<1>5. TypeOK'
  BY <1>1, <1>2, <1>3, <1>4 DEF TypeOK, Commands
<1>6. RequestAgrees'
  BY <1>1, <1>2, <1>3 DEF RequestAgrees, Cleaning
<1>7. \A n \in Names : volume'[n] = volume[n] \/ (n = target[o] /\ volume[n] = "absent" /\ volume'[n] = o)
  BY <1>1, <1>4
<1>8. TokenAgrees'
  <2>1. ASSUME NEW n \in Names, volume'[n] \in Ops
        PROVE  target'[volume'[n]] = n /\ kind'[volume'[n]] = "restore"
    BY <1>1, <1>3, <1>7, <2>1 DEF TokenAgrees
  <2>2. ASSUME NEW q \in Ops, kind'[q] = "restore", pc'[q] \in Owned \/ helper'[q] = "running"
        PROVE  volume'[target'[q]] = q
    <3>1. volume[target[q]] = q
      BY <1>1, <1>2, <1>3, <2>2 DEF TokenAgrees, Owned
    <3>2. target[q] \in Names
      BY <1>3, <2>2 DEF RequestAgrees, TypeOK
    <3> QED
      BY <1>3, <1>7, <3>1, <3>2, VolumeAssumption
  <2> QED
    BY <2>1, <2>2 DEF TokenAgrees
<1> QED
  BY <1>5, <1>6, <1>8

(* A volume that appears has no token, and takes none away. *)
LEMMA TokensSurvive ==
  ASSUME Sound, NEW n \in Names, volume' \in {volume, [volume EXCEPT ![n] = IF @ = "absent" THEN "foreign" ELSE @]}
  PROVE  /\ volume' \in [Names -> {"absent", "foreign"} \cup Ops]
         /\ \A m \in Names : volume'[m] # volume[m] => volume[m] = "absent" /\ volume'[m] = "foreign"
         /\ \A m \in Names, o \in Ops : volume'[m] = o <=> volume[m] = o
  BY VolumeAssumption DEF Sound, TypeOK

(* and so does the start of a helper, *)
LEMMA StartSound ==
  ASSUME Sound, NEW o \in Ops, StartHelper(o)
  PROVE  Sound'
<1> USE DEF Sound
<1>1. /\ pc[o] = "copy" /\ kind[o] \in {"export", "restore"} /\ target[o] \in Names
      /\ content \in [Names -> Contents] /\ copy \in [Ops -> Contents] /\ pc \in [Ops -> Commands \cup Idle]
      /\ helper \in [Ops -> {"none", "stopped", "running"}]
      /\ kind[o] = "restore" => volume[target[o]] = o
  BY DEF StartHelper, RequestAgrees, TypeOK, TokenAgrees, Owned
<1>2. PICK s \in {"copying", "clean helper"}, h \in {"none", "stopped", "running"} :
         /\ pc' = [pc EXCEPT ![o] = s] /\ helper' = [helper EXCEPT ![o] = h]
  <2>1. CASE helper' = [helper EXCEPT ![o] = "running"] /\ Goto(o, "copying")
    BY <2>1 DEF Goto
  <2>2. CASE helper' \in {helper, [helper EXCEPT ![o] = "stopped"]} /\ Goto(o, "clean helper")
    <3>1. helper = [helper EXCEPT ![o] = helper[o]] /\ helper[o] \in {"none", "stopped", "running"}
      BY <1>1
    <3> QED
      BY <2>2, <3>1 DEF Goto
  <2> QED
    BY <2>1, <2>2 DEF StartHelper
<1>3. /\ volume' \in {volume, [volume EXCEPT ![target[o]] = IF @ = "absent" THEN "foreign" ELSE @]}
      /\ UNCHANGED <<app, archive, kind, target, path, incomplete, slipped>>
      /\ failed' \in {failed, failed \cup {o}}
  BY DEF StartHelper, request
<1>4. content' \in [Names -> Contents] /\ copy' \in [Ops -> Contents] /\ spoiled' \subseteq Ops
  <2>1. content' \in {content, [content EXCEPT ![target[o]] = "partial"]}
    BY DEF StartHelper
  <2>2. copy' \in {copy, [copy EXCEPT ![o] = content[target[o]]]}
    BY <1>1 DEF StartHelper
  <2>3. spoiled' = spoiled \/ Spoil(target[o], {o})
    BY DEF StartHelper
  <2>4. content' \in [Names -> Contents]
    BY <1>1, <2>1 DEF Contents
  <2>5. copy' \in [Ops -> Contents]
    <3>1. content[target[o]] \in Contents
      BY <1>1
    <3> QED
      BY <1>1, <2>2, <3>1
  <2>6. spoiled' \subseteq Ops
    BY <2>3 DEF Spoil, On, TypeOK
  <2> QED
    BY <2>4, <2>5, <2>6
<1>5. /\ volume' \in [Names -> {"absent", "foreign"} \cup Ops]
      /\ \A m \in Names, q \in Ops : volume'[m] = q <=> volume[m] = q
  BY <1>1, <1>3, TokensSurvive
<1>6. TypeOK'
  BY <1>2, <1>3, <1>4, <1>5 DEF TypeOK, Commands, Copying
<1>7. RequestAgrees'
  BY <1>1, <1>2, <1>3 DEF RequestAgrees, Cleaning, TypeOK
<1>8. TokenAgrees'
  <2>1. ASSUME NEW n \in Names, volume'[n] \in Ops
        PROVE  target'[volume'[n]] = n /\ kind'[volume'[n]] = "restore"
    BY <1>3, <1>5, <2>1 DEF TokenAgrees
  <2>2. ASSUME NEW q \in Ops, kind'[q] = "restore", pc'[q] \in Owned \/ helper'[q] = "running"
        PROVE  volume'[target'[q]] = q
    <3>1. volume[target[q]] = q
      BY <1>1, <1>2, <1>3, <2>2 DEF TokenAgrees
    <3>2. target[q] \in Names
      BY <1>3, <2>2 DEF RequestAgrees, TypeOK
    <3> QED
      BY <1>3, <1>5, <3>1, <3>2
  <2> QED
    BY <2>1, <2>2 DEF TokenAgrees
<1> QED
  BY <1>6, <1>7, <1>8

(* A helper that ends, that of a killed operation included. *)
LEMMA HelperEndsSound ==
  ASSUME Sound, NEW o \in Ops, HelperEnds(o)
  PROVE  Sound'
<1> USE DEF Sound
<1>1. helper[o] = "running" /\ pc[o] # "idle" /\ target[o] \in Names
  BY DEF HelperEnds, RequestAgrees
<1>2. PICK h \in {"none", "stopped"} : helper' = [helper EXCEPT ![o] = h]
  BY DEF HelperEnds
<1>3. /\ UNCHANGED <<volume, app, archive, request, copy, incomplete>>
      /\ failed' \in {failed, failed \cup {o}}
  BY DEF HelperEnds
<1>4. content' \in [Names -> Contents] /\ spoiled' \subseteq Ops /\ slipped' \subseteq Ops
  <2>1. content' \in {content, [content EXCEPT ![target[o]] = IF o \in spoiled THEN "mixed" ELSE copy[o]]}
    BY DEF HelperEnds
  <2>2. spoiled' = spoiled \/ Spoil(target[o], {o})
    BY DEF HelperEnds
  <2>3. slipped' \subseteq slipped \cup On(target[o])
    BY DEF HelperEnds, Leaves
  <2> QED
    BY <1>1, <2>1, <2>2, <2>3 DEF Spoil, On, TypeOK, Contents
<1>5. copy' \in [Ops -> Contents] /\ incomplete' \subseteq Ops /\ failed' \subseteq Ops /\ pc \in [Ops -> Commands \cup Idle]
  BY <1>3 DEF TypeOK
<1>6. PICK s \in Commands \cup Idle : Goto(o, s) /\ s \in {pc[o], "clean helper"} /\ (s # pc[o] => pc[o] = "copying")
  <2>1. CASE pc[o] = "copying"
    <3>1. Goto(o, "clean helper") /\ "clean helper" \in Commands \cup Idle
      BY <2>1 DEF HelperEnds, Commands, Copying
    <3> QED
      BY <2>1, <3>1
  <2>2. CASE pc[o] # "copying"
    <3>1. Goto(o, pc[o]) /\ pc[o] \in Commands \cup Idle
      BY <1>5, <2>2 DEF HelperEnds, Goto
    <3> QED
      BY <3>1
  <2> QED
    BY <2>1, <2>2
<1>7. /\ s # "idle"
      /\ kind[o] = "restore" => s \notin {"inspect", "reinspect", "publish"}
      /\ kind[o] = "export" => s \notin {"stage", "exists", "create", "own"} \cup Cleaning
      /\ s \in Cleaning => o \in failed'
      /\ kind[o] = "restore" /\ s \in Owned => volume[target[o]] = o
  <2>1. /\ pc[o] = "idle" => kind[o] = "none"
        /\ kind[o] = "restore" => pc[o] \notin {"inspect", "reinspect", "publish"}
        /\ kind[o] = "export" => pc[o] \notin {"stage", "exists", "create", "own"} \cup Cleaning
        /\ pc[o] \in Cleaning => o \in failed
    BY DEF RequestAgrees
  <2>2. kind[o] = "restore" => volume[target[o]] = o
    BY <1>1 DEF TokenAgrees
  <2>3. o \in failed => o \in failed'
    BY <1>3
  <2>4. CASE s = pc[o]
    BY <1>1, <2>1, <2>2, <2>3, <2>4
  <2>5. CASE s = "clean helper"
    BY <2>2, <2>5 DEF Cleaning
  <2> QED
    BY <1>6, <2>4, <2>5
<1>8. failed \subseteq failed'
  BY <1>3
<1>9. h \in {"none", "stopped", "running"} /\ h # "running" /\ UNCHANGED <<volume, app, archive, request>>
  BY <1>2, <1>3
<1> HIDE DEF Sound
<1> QED
  BY <1>1, <1>2, <1>4, <1>5, <1>6, <1>7, <1>8, <1>9, OwnStep

(* a docker client that loses its daemon, *)
LEMMA ClientLosesSound ==
  ASSUME Sound, NEW o \in Ops, ClientLosesHelper(o)
  PROVE  Sound'
<1>1. /\ pc[o] = "copying" /\ Goto(o, "clean helper") /\ failed' = failed \cup {o}
      /\ UNCHANGED <<volume, content, app, archive, request, copy, spoiled, helper, incomplete, slipped>>
  BY DEF ClientLosesHelper, hostVars
<1>2. kind[o] = "restore" => volume[target[o]] = o
  BY <1>1 DEF Sound, TokenAgrees, Owned
<1>3. /\ content' \in [Names -> Contents] /\ archive' \in [Paths -> Contents \cup {None}]
      /\ copy' \in [Ops -> Contents] /\ spoiled' \subseteq Ops /\ incomplete' \subseteq Ops /\ slipped' \subseteq Ops
  BY <1>1 DEF Sound, TypeOK
<1> QED
  BY <1>1, <1>2, <1>3, NextCommand DEF Commands, Copying, Cleaning

(* the removal of a helper, *)
LEMMA CleanHelperSound ==
  ASSUME Sound, NEW o \in Ops, CleanHelper(o)
  PROVE  Sound'
<1>1. /\ pc[o] = "clean helper" /\ UNCHANGED <<volume, content, app, archive, request, copy>>
      /\ kind[o] \in {"export", "restore"} /\ target[o] \in Names
      /\ failed \subseteq Ops /\ incomplete' \subseteq Ops
  BY DEF CleanHelper, hostVars, Sound, RequestAgrees, TypeOK
<1>2. spoiled' \subseteq Ops /\ slipped' \subseteq Ops
  <2>1. spoiled' = spoiled \/ Spoil(target[o], {o})
    BY DEF CleanHelper
  <2>2. slipped' = slipped \/ Leaves(target[o], {o})
    BY DEF CleanHelper
  <2> QED
    BY <2>1, <2>2 DEF Spoil, Leaves, On, Sound, TypeOK
<1>3. /\ content' \in [Names -> Contents] /\ archive' \in [Paths -> Contents \cup {None}] /\ copy' \in [Ops -> Contents]
  BY <1>1 DEF Sound, TypeOK
<1>4. CASE helper' = [helper EXCEPT ![o] = "none"] /\ Goto(o, AfterHelper(o)) /\ UNCHANGED <<failed, incomplete>>
  <2>1. kind[o] = "restore" => volume[target[o]] = o
    BY <1>1 DEF Sound, TokenAgrees, Owned
  <2>2. /\ AfterHelper(o) \in {"find volume", "done", "last check", "reinspect"}
        /\ kind[o] = "restore" => AfterHelper(o) \notin {"reinspect", "done"}
        /\ kind[o] = "export" => AfterHelper(o) \in {"done", "reinspect"}
        /\ AfterHelper(o) = "find volume" => o \in failed
    BY <1>1 DEF AfterHelper
  <2>3. AfterHelper(o) \in Commands \cup Idle /\ AfterHelper(o) # "idle" /\ (AfterHelper(o) \in Cleaning => o \in failed')
    BY <1>4, <2>2 DEF Commands, Copying, Idle, Cleaning
  <2>4. /\ kind[o] = "restore" => AfterHelper(o) \notin {"inspect", "reinspect", "publish"}
        /\ kind[o] = "export" => AfterHelper(o) \notin {"stage", "exists", "create", "own"} \cup Cleaning
    BY <2>2 DEF Cleaning
  <2> QED
    BY <1>1, <1>2, <1>3, <1>4, <2>1, <2>3, <2>4, OwnStep
<1>5. CASE Fail(o) /\ UNCHANGED <<spoiled, helper, slipped>>
  BY <1>1, <1>2, <1>3, <1>5, FailSound DEF hostVars
<1> QED
  BY <1>4, <1>5 DEF CleanHelper

(* the publication of an archive, *)
LEMMA PublishSound ==
  ASSUME Sound, NEW o \in Ops, Publish(o)
  PROVE  Sound'
<1>1. /\ pc[o] = "publish" /\ kind[o] = "export" /\ path[o] \in Paths
      /\ UNCHANGED <<volume, content, app, request, copy, spoiled, helper, incomplete, slipped>>
  BY DEF Publish, Sound, RequestAgrees
<1>2. /\ content' \in [Names -> Contents] /\ copy' \in [Ops -> Contents]
      /\ spoiled' \subseteq Ops /\ incomplete' \subseteq Ops /\ slipped' \subseteq Ops
      /\ archive \in [Paths -> Contents \cup {None}] /\ copy[o] \in Contents
  BY <1>1 DEF Sound, TypeOK
<1>3. CASE archive' = [archive EXCEPT ![path[o]] = copy[o]] /\ Goto(o, "done") /\ UNCHANGED failed
  <2>1. archive' \in [Paths -> Contents \cup {None}]
    BY <1>1, <1>2, <1>3
  <2> QED
    BY <1>1, <1>2, <1>3, <2>1, NextCommand DEF Cleaning
<1>4. CASE Fail(o) /\ UNCHANGED archive
  BY <1>1, <1>2, <1>4, FailSound DEF hostVars
<1> QED
  BY <1>3, <1>4 DEF Publish

(* The clean-up of a volume, up to its removal. *)
LEMMA LookingSound ==
  ASSUME Sound, NEW o \in Ops, FindVolume(o) \/ InspectOwner(o)
  PROVE  Sound'
<1>1. /\ pc[o] \in Cleaning /\ pc[o] # "idle" /\ kind[o] = "restore" /\ o \in failed
  BY DEF FindVolume, InspectOwner, Sound, RequestAgrees, Cleaning
<1>2. /\ UNCHANGED <<volume, content, app, archive, request, copy, spoiled, helper, failed, slipped>>
      /\ incomplete' \subseteq incomplete \cup {o}
  BY DEF FindVolume, InspectOwner, hostVars
<1>3. PICK s \in {"done", "inspect volume", "remove volume"} :
        Goto(o, s) /\ (s = "remove volume" => volume[target[o]] = o)
  BY DEF FindVolume, InspectOwner, IsOwn
<1>4. /\ content' \in [Names -> Contents] /\ archive' \in [Paths -> Contents \cup {None}]
      /\ copy' \in [Ops -> Contents] /\ spoiled' \subseteq Ops /\ incomplete' \subseteq Ops /\ slipped' \subseteq Ops
  BY <1>2 DEF Sound, TypeOK
<1> QED
  BY <1>1, <1>2, <1>3, <1>4, NextCommand DEF Commands, Cleaning, Owned

(* The volume that is removed is the operation's own, and in nobody's use. *)
LEMMA RemoveSound ==
  ASSUME Sound, NEW o \in Ops, RemoveOwnVolume(o)
  PROVE  Sound'
<1> USE DEF Sound
<1>1. /\ pc[o] = "remove volume" /\ kind[o] = "restore" /\ volume[target[o]] = o /\ target[o] \in Names
      /\ pc' = [pc EXCEPT ![o] = "done"]
      /\ UNCHANGED <<app, archive, kind, target, path, copy, spoiled, helper, failed, slipped>>
  BY DEF RemoveOwnVolume, Goto, request, RequestAgrees, TokenAgrees, Cleaning, Owned
<1>2. \/ ~InUse(target[o]) /\ volume' = [volume EXCEPT ![target[o]] = "absent"]
         /\ content' = [content EXCEPT ![target[o]] = "empty"] /\ UNCHANGED incomplete
      \/ incomplete' = incomplete \cup {o} /\ UNCHANGED <<volume, content>>
  BY DEF RemoveOwnVolume
<1>3. TypeOK'
  <2>1. volume' \in [Names -> {"absent", "foreign"} \cup Ops]
    BY <1>2 DEF TypeOK
  <2>2. content' \in [Names -> Contents]
    BY <1>2 DEF TypeOK, Contents
  <2>3. incomplete' \subseteq Ops
    BY <1>2 DEF TypeOK
  <2>4. pc' \in [Ops -> Commands \cup Idle]
    BY <1>1 DEF TypeOK, Idle
  <2> QED
    BY <1>1, <2>1, <2>2, <2>3, <2>4 DEF TypeOK
<1>4. RequestAgrees'
  <2>1. pc \in [Ops -> Commands \cup Idle] /\ pc[o] # "idle"
    BY <1>1 DEF TypeOK
  <2> QED
    BY <1>1, <2>1 DEF RequestAgrees, Cleaning
<1>5. TokenAgrees'
  <2>1. ASSUME NEW n \in Names, volume'[n] \in Ops
        PROVE  target'[volume'[n]] = n /\ kind'[volume'[n]] = "restore"
    <3>1. volume \in [Names -> {"absent", "foreign"} \cup Ops] /\ volume'[n] # "absent"
      BY <2>1, VolumeAssumption DEF TypeOK
    <3>2. volume'[n] = volume[n]
      BY <1>2, <3>1
    <3> QED
      BY <1>1, <2>1, <3>2 DEF TokenAgrees
  <2>2. ASSUME NEW q \in Ops, kind'[q] = "restore", pc'[q] \in Owned \/ helper'[q] = "running"
        PROVE  volume'[target'[q]] = q
    <3>1. volume[target[q]] = q /\ target[q] \in Names
      <4>1. pc[q] \in Owned \/ helper[q] = "running"
        BY <1>1, <2>2 DEF TypeOK, Owned
      <4>2. kind[q] = "restore"
        BY <1>1, <2>2
      <4> QED
        BY <4>1, <4>2 DEF TokenAgrees, RequestAgrees
    <3>2. CASE target[q] # target[o]
      BY <1>1, <1>2, <3>1, <3>2 DEF TypeOK
    <3>3. CASE target[q] = target[o]
      <4>1. q = o /\ helper[o] = "running"
        BY <1>1, <2>2, <3>1, <3>3 DEF Owned, TypeOK
      <4>2. InUse(target[o])
        BY <4>1 DEF InUse, On
      <4> QED
        BY <1>1, <1>2, <3>1, <3>3, <4>2
    <3> QED
      BY <3>2, <3>3
  <2> QED
    BY <2>1, <2>2 DEF TokenAgrees
<1> QED
  BY <1>3, <1>4, <1>5

(* the death of an operation, *)
LEMMA KillSound ==
  ASSUME Sound, NEW o \in Ops, Kill(o)
  PROVE  Sound'
<1>1. /\ pc[o] # "idle" /\ Goto(o, "killed")
      /\ UNCHANGED <<volume, content, app, archive, request, copy, spoiled, helper, failed, incomplete, slipped>>
  BY DEF Kill, Working, Idle, hostVars
<1>2. /\ content' \in [Names -> Contents] /\ archive' \in [Paths -> Contents \cup {None}]
      /\ copy' \in [Ops -> Contents] /\ spoiled' \subseteq Ops /\ incomplete' \subseteq Ops /\ slipped' \subseteq Ops
  BY <1>1 DEF Sound, TypeOK
<1> QED
  BY <1>1, <1>2, NextCommand DEF Cleaning, Owned

(* What the rest of the host does touches no claim: a volume that appears   *)
(* was absent, and one that an operator removes is in nobody's work or use.  *)
LEMMA HostSound ==
  ASSUME Sound, NEW n \in Names, Host(n)
  PROVE  Sound'
<1> USE DEF Sound
<1>1. UNCHANGED <<archive, kind, target, path, pc, copy, helper, failed, incomplete>>
  BY DEF Host, ComposeUp, AppWrites, ComposeStop, ComposeDown, OperatorRemoves, request, opVars
<1>2. /\ app' \in [Names -> {"none", "stopped", "running"}]
      /\ content' \in [Names -> Contents]
  BY DEF Host, ComposeUp, AppWrites, ComposeStop, ComposeDown, OperatorRemoves, TypeOK, Contents
<1>3. spoiled' \subseteq Ops /\ slipped' \subseteq Ops
  BY DEF Host, ComposeUp, AppWrites, ComposeStop, ComposeDown, OperatorRemoves, opVars, Spoil, Leaves, On, TypeOK
<1>4. \/ volume' \in {volume, [volume EXCEPT ![n] = IF @ = "absent" THEN "foreign" ELSE @]}
      \/ OperatorRemoves(n)
  BY DEF Host, ComposeUp, AppWrites, ComposeStop, ComposeDown
<1>5. RequestAgrees'
  BY <1>1 DEF RequestAgrees
<1>6. CASE volume' \in {volume, [volume EXCEPT ![n] = IF @ = "absent" THEN "foreign" ELSE @]}
  <2>1. /\ volume' \in [Names -> {"absent", "foreign"} \cup Ops]
        /\ \A m \in Names, o \in Ops : volume'[m] = o <=> volume[m] = o
    BY <1>6, TokensSurvive
  <2>2. TypeOK'
    BY <1>1, <1>2, <1>3, <2>1 DEF TypeOK
  <2>3. \A o \in Ops : kind[o] = "restore" => target[o] \in Names
    BY DEF RequestAgrees, TypeOK
  <2>4. TokenAgrees'
    BY <1>1, <2>1, <2>3 DEF TokenAgrees
  <2> QED
    BY <1>5, <2>2, <2>4
<1>7. CASE OperatorRemoves(n)
  <2>1. /\ volume' = [volume EXCEPT ![n] = "absent"] /\ ~InUse(n)
        /\ \A o \in On(n) : ~Working(o)
    BY <1>7 DEF OperatorRemoves
  <2>2. TypeOK'
    <3>1. volume' \in [Names -> {"absent", "foreign"} \cup Ops]
      BY <2>1 DEF TypeOK
    <3> QED
      BY <1>1, <1>2, <1>3, <3>1 DEF TypeOK
  <2>3. TokenAgrees'
    <3>1. ASSUME NEW m \in Names, volume'[m] \in Ops
          PROVE  target'[volume'[m]] = m /\ kind'[volume'[m]] = "restore"
      BY <1>1, <2>1, <3>1, VolumeAssumption DEF TokenAgrees, TypeOK
    <3>2. ASSUME NEW o \in Ops, kind'[o] = "restore", pc'[o] \in Owned \/ helper'[o] = "running"
          PROVE  volume'[target'[o]] = o
      <4>1. volume[target[o]] = o /\ target[o] \in Names
        BY <1>1, <3>2 DEF TokenAgrees, RequestAgrees, TypeOK
      <4>2. target[o] # n
        BY <1>1, <2>1, <3>2 DEF InUse, On, Working, Owned, Idle
      <4> QED
        BY <1>1, <2>1, <4>1, <4>2 DEF TypeOK
    <3> QED
      BY <3>1, <3>2 DEF TokenAgrees
  <2> QED
    BY <1>5, <2>2, <2>3
<1> QED
  BY <1>4, <1>6, <1>7

(* and a stuttering step. *)
LEMMA StutterSound == Sound /\ UNCHANGED vars => Sound'
<1> SUFFICES ASSUME Sound, UNCHANGED vars PROVE Sound'
  OBVIOUS
<1> USE DEF vars, hostVars, request, opVars, Sound
<1>1. TypeOK'
  BY DEF TypeOK
<1>2. RequestAgrees'
  BY DEF RequestAgrees
<1>3. TokenAgrees'
  BY DEF TokenAgrees
<1> QED
  BY <1>1, <1>2, <1>3

(* Hence every step does, *)
LEMMA NextSound == Sound /\ [Next]_vars => Sound'
<1> SUFFICES ASSUME Sound, [Next]_vars PROVE Sound'
  OBVIOUS
<1>1. ASSUME NEW o \in Ops, NEW n \in Names, NEW p \in Paths, BeginExport(o, n, p) \/ BeginRestore(o, n, p)
      PROVE  Sound'
  BY <1>1, RequestSound DEF BeginExport, BeginRestore
<1>2. ASSUME NEW o \in Ops, Command(o)
      PROVE  Sound'
  BY <1>2, StageSound, QueriesSound, CreateSound, StartSound, HelperEndsSound, ClientLosesSound,
     CleanHelperSound, PublishSound, LookingSound, RemoveSound, KillSound DEF Command
<1>3. ASSUME NEW n \in Names, Host(n)
      PROVE  Sound'
  BY <1>3, HostSound
<1>4. CASE UNCHANGED vars
  BY <1>4, StutterSound
<1> QED
  BY <1>1, <1>2, <1>3, <1>4 DEF Next

(* in every behaviour. *)
LEMMA AlwaysSound == Spec => []Sound
  BY InitSound, NextSound, PTL DEF Spec

-----------------------------------------------------------------------------
(* Every variable keeps its type. *)
THEOREM TypeCorrect == Spec => []TypeOK
<1>1. Sound => TypeOK
  BY DEF Sound
<1> QED
  BY <1>1, AlwaysSound, PTL

(* Whatever the host and other operations do between two docker commands,   *)
(* and wherever an operation fails or is killed, the helper of a restore     *)
(* writes only the volume that this restore created.                        *)
THEOREM OnlyOwnWritten == Spec => []OnlyOwnVolumeIsWritten
<1>1. Sound => OnlyOwnVolumeIsWritten
  BY DEF Sound, TokenAgrees, OnlyOwnVolumeIsWritten
<1> QED
  BY <1>1, AlwaysSound, PTL

-----------------------------------------------------------------------------
(* What an operation leaves behind. *)

Before == {"inspect", "check", "recheck", "stage", "exists", "create", "own", "copy"}

(* There is no helper before the copy, and none after its clean-up, unless  *)
(* that clean-up reported an error; an operation that failed goes to its     *)
(* clean-ups and nowhere else.                                              *)
HelperLeft(o) ==
  /\ pc[o] \in Before \cup {"idle", "reinspect", "last check", "publish"} => helper[o] = "none"
  /\ pc[o] \in Cleaning \cup {"done"} => helper[o] = "none" \/ o \in incomplete
  /\ pc[o] = "clean helper" /\ o \notin failed => helper[o] # "running"
  /\ o \in failed => pc[o] \in Cleaning \cup {"clean helper", "done", "killed"}

(* A restore has no volume before it creates one, nor once it has failed and *)
(* its clean-up is complete.                                                *)
VolumeLeft(o) ==
  kind[o] = "restore" =>
    /\ pc[o] \in {"stage", "exists", "recheck", "create"} => volume[target[o]] # o
    /\ pc[o] = "done" /\ o \in failed /\ o \notin incomplete => volume[target[o]] # o

Left(o) == HelperLeft(o) /\ VolumeLeft(o)
LeftAgrees == \A o \in Ops : Left(o)

(* A step that is none of operation q's. *)
Untouched(q) ==
  /\ pc'[q] = pc[q] /\ kind'[q] = kind[q] /\ target'[q] = target[q] /\ path'[q] = path[q]
  /\ helper'[q] = helper[q] /\ copy'[q] = copy[q]
  /\ (q \in failed' <=> q \in failed)
  /\ (q \in incomplete' <=> q \in incomplete)
  /\ \A n \in Names : volume'[n] = q => volume[n] = q

(* A command of one operation is no step of another. *)
LEMMA OthersUntouched ==
  ASSUME Sound, NEW o \in Ops, Command(o), NEW q \in Ops, q # o
  PROVE  Untouched(q)
<1> USE DEF Untouched, request, hostVars, Goto, Fail
<1>0. TypeOK /\ q \notin {"absent", "foreign"}
  BY VolumeAssumption DEF Sound
<1>1. CASE Stage(o)
  BY <1>0, <1>1 DEF Stage, TypeOK
<1>2. ASSUME NEW here, NEW good, NEW next, Query(o, here, good, next)
      PROVE  Untouched(q)
  BY <1>0, <1>2 DEF Query, TypeOK
<1>3. CASE InspectVolume(o) \/ CheckWriters(o) \/ VolumeExists(o) \/ PullHelper(o) \/ Own(o) \/ Reinspect(o) \/ LastCheck(o)
  BY <1>2, <1>3 DEF InspectVolume, CheckWriters, VolumeExists, PullHelper, Own, Reinspect, LastCheck
<1>4. CASE CreateVolume(o)
  BY <1>0, <1>4 DEF CreateVolume, TypeOK
<1>5. CASE StartHelper(o)
  <2>1. /\ UNCHANGED <<kind, target, path, incomplete>> /\ \E s : pc' = [pc EXCEPT ![o] = s]
        /\ failed' \in {failed, failed \cup {o}}
    BY <1>5 DEF StartHelper
  <2>2. \A n \in Names : volume'[n] = q => volume[n] = q
    BY <1>0, <1>5 DEF StartHelper, TypeOK
  <2>3. helper'[q] = helper[q] /\ copy'[q] = copy[q]
    BY <1>0, <1>5 DEF StartHelper, TypeOK
  <2> QED
    BY <1>0, <2>1, <2>2, <2>3 DEF TypeOK
<1>6. CASE HelperEnds(o)
  <2>1. UNCHANGED <<volume, kind, target, path, copy, incomplete>> /\ helper'[q] = helper[q]
    BY <1>0, <1>6 DEF HelperEnds, TypeOK
  <2>2. pc' \in {pc, [pc EXCEPT ![o] = "clean helper"]} /\ failed' \in {failed, failed \cup {o}}
    BY <1>6 DEF HelperEnds
  <2> QED
    BY <1>0, <2>1, <2>2 DEF TypeOK
<1>7. CASE ClientLosesHelper(o)
  BY <1>0, <1>7 DEF ClientLosesHelper, TypeOK
<1>8. CASE CleanHelper(o)
  BY <1>0, <1>8 DEF CleanHelper, TypeOK
<1>9. CASE Publish(o)
  BY <1>0, <1>9 DEF Publish, TypeOK
<1>10. CASE FindVolume(o) \/ InspectOwner(o)
  BY <1>0, <1>10 DEF FindVolume, InspectOwner, TypeOK
<1>11. CASE RemoveOwnVolume(o)
  BY <1>0, <1>11 DEF RemoveOwnVolume, TypeOK
<1>12. CASE Kill(o)
  BY <1>0, <1>12 DEF Kill, TypeOK
<1> QED
  BY <1>1, <1>3, <1>4, <1>5, <1>6, <1>7, <1>8, <1>9, <1>10, <1>11, <1>12 DEF Command

(* A request is no step of another operation, *)
LEMMA RequestUntouched ==
  ASSUME Sound, NEW o \in Ops, NEW k, NEW n \in Names, NEW p \in Paths, Request(o, k, n, p), NEW q \in Ops, q # o
  PROVE  Untouched(q)
  BY DEF Untouched, Request, Goto, hostVars, Sound, TypeOK

(* and the host's steps are none of any. *)
LEMMA HostUntouched ==
  ASSUME Sound, NEW n \in Names, Host(n), NEW q \in Ops
  PROVE  Untouched(q)
<1>1. UNCHANGED <<request, pc, copy, helper, failed, incomplete>>
  BY DEF Host, ComposeUp, AppWrites, ComposeStop, ComposeDown, OperatorRemoves, request, opVars
<1>2. \A m \in Names : volume'[m] = q => volume[m] = q
  BY VolumeAssumption DEF Host, ComposeUp, AppWrites, ComposeStop, ComposeDown, OperatorRemoves, Sound, TypeOK
<1> QED
  BY <1>1, <1>2 DEF Untouched, request

(* What an operation left, nobody brings back. *)
LEMMA UntouchedLeft ==
  ASSUME Sound, NEW q \in Ops, Left(q), Untouched(q)
  PROVE  Left(q)'
<1>1. kind[q] = "restore" => target[q] \in Names
  BY DEF Sound, RequestAgrees
<1>2. HelperLeft(q)'
  BY DEF Untouched, Left, HelperLeft
<1>3. VolumeLeft(q)'
  BY <1>1 DEF Untouched, Left, VolumeLeft
<1> QED
  BY <1>2, <1>3 DEF Left

(* An operation that fails before its helper runs leaves none, *)
LEMMA FailLeft ==
  ASSUME Sound, NEW o \in Ops, Left(o), Fail(o), UNCHANGED <<hostVars, request, helper>>,
         \/ pc[o] \in Before \cup {"reinspect", "last check", "publish"} /\ UNCHANGED incomplete
         \/ pc[o] = "clean helper" /\ incomplete' = incomplete \cup {o}
  PROVE  Left(o)'
<1>1. /\ pc'[o] = OnError(o) /\ failed' = failed \cup {o} /\ UNCHANGED <<volume, kind, target>>
      /\ OnError(o) \in {"find volume", "done"}
  BY DEF Fail, Goto, OnError, hostVars, request, Sound, TypeOK
<1>2. HelperLeft(o)'
  BY <1>1 DEF Left, HelperLeft, Before, Cleaning
<1>3. kind[o] = "restore" /\ OnError(o) = "done" => pc[o] \in {"stage", "exists", "recheck"}
  BY DEF OnError
<1>4. VolumeLeft(o)'
  BY <1>1, <1>3 DEF Left, VolumeLeft
<1> QED
  BY <1>2, <1>4 DEF Left

(* and a command that only reads takes it on with what it had. *)
LEMMA QueryLeft ==
  ASSUME Sound, NEW o \in Ops, Left(o), NEW good \in BOOLEAN,
         NEW here \in Before \cup {"reinspect", "last check"},
         NEW next \in Before \cup {"last check", "publish", "done"}, Query(o, here, good, next),
         kind[o] = "restore" /\ next \in {"stage", "exists", "recheck", "create"} =>
           here \in {"stage", "exists", "recheck"}
  PROVE  Left(o)'
<1>1. pc[o] = here /\ UNCHANGED <<hostVars, request, helper, incomplete>>
  BY DEF Query
<1>2. CASE Fail(o)
  BY <1>1, <1>2, FailLeft
<1>3. CASE good /\ Goto(o, next) /\ UNCHANGED failed
  <2>1. pc'[o] = next /\ UNCHANGED <<volume, kind, target, helper, incomplete, failed>>
    BY <1>1, <1>3 DEF Goto, hostVars, request, Sound, TypeOK
  <2>2. HelperLeft(o)'
    BY <1>1, <2>1 DEF Left, HelperLeft, Before, Cleaning
  <2>3. VolumeLeft(o)'
    BY <1>1, <2>1 DEF Left, HelperLeft, VolumeLeft, Before, Cleaning
  <2> QED
    BY <2>2, <2>3 DEF Left
<1> QED
  BY <1>2, <1>3 DEF Query

(* Every command that reads leaves what there was. *)
LEMMA QueriesLeft ==
  ASSUME Sound, NEW o \in Ops, Left(o),
         \/ InspectVolume(o) \/ CheckWriters(o) \/ VolumeExists(o) \/ PullHelper(o)
         \/ Own(o) \/ Reinspect(o) \/ LastCheck(o)
  PROVE  Left(o)'
<1> USE DEF Before
<1>1. CASE InspectVolume(o)
  BY <1>1, QueryLeft DEF InspectVolume, Exists
<1>2. CASE CheckWriters(o)
  <2>1. CASE kind[o] = "export"
    BY <1>2, <2>1, QueryLeft DEF CheckWriters, HasWriter
  <2>2. CASE kind[o] # "export"
    BY <1>2, <2>2, QueryLeft DEF CheckWriters, HasWriter
  <2> QED
    BY <2>1, <2>2
<1>3. CASE VolumeExists(o)
  BY <1>3, QueryLeft DEF VolumeExists, Exists
<1>4. CASE PullHelper(o)
  <2>1. CASE kind[o] = "export"
    BY <1>4, <2>1, QueryLeft DEF PullHelper, HasWriter
  <2>2. CASE kind[o] # "export"
    BY <1>4, <2>2, QueryLeft DEF PullHelper
  <2> QED
    BY <2>1, <2>2
<1>5. CASE Own(o)
  BY <1>5, QueryLeft DEF Own, IsOwn
<1>6. CASE Reinspect(o)
  BY <1>6, QueryLeft DEF Reinspect, Exists
<1>7. CASE LastCheck(o)
  <2>1. CASE kind[o] = "export"
    BY <1>7, <2>1, QueryLeft DEF LastCheck, HasWriter
  <2>2. CASE kind[o] # "export"
    BY <1>7, <2>2, QueryLeft DEF LastCheck, HasWriter
  <2> QED
    BY <2>1, <2>2
<1> QED
  BY <1>1, <1>2, <1>3, <1>4, <1>5, <1>6, <1>7

(* The helper's own steps: it is removed before the operation goes on. *)
LEMMA HelperStepsLeft ==
  ASSUME Sound, NEW o \in Ops, Left(o), StartHelper(o) \/ HelperEnds(o) \/ ClientLosesHelper(o) \/ CleanHelper(o)
  PROVE  Left(o)'
<1> USE DEF Left, HelperLeft, VolumeLeft, Before, Cleaning, Goto, hostVars, request
<1>0. TypeOK
  BY DEF Sound
<1>1. CASE StartHelper(o)
  BY <1>0, <1>1 DEF StartHelper, TypeOK
<1>2. CASE HelperEnds(o)
  <2>1. /\ helper[o] = "running" /\ helper'[o] \in {"none", "stopped"}
        /\ UNCHANGED <<volume, kind, target, incomplete>>
    BY <1>0, <1>2 DEF HelperEnds, TypeOK
  <2>2. CASE pc[o] = "copying"
    <3>1. pc'[o] = "clean helper"
      BY <1>0, <1>2, <2>2 DEF HelperEnds, TypeOK
    <3> QED
      BY <2>1, <3>1
  <2>3. CASE pc[o] # "copying"
    <3>1. UNCHANGED <<pc, failed>>
      BY <1>2, <2>3 DEF HelperEnds
    <3> QED
      BY <2>1, <2>3, <3>1
  <2> QED
    BY <2>2, <2>3
<1>3. CASE ClientLosesHelper(o)
  BY <1>0, <1>3 DEF ClientLosesHelper, TypeOK
<1>4. CASE CleanHelper(o) /\ Fail(o) /\ incomplete' = incomplete \cup {o} /\ UNCHANGED helper
  BY <1>4, FailLeft DEF CleanHelper
<1>5. CASE CleanHelper(o) /\ ~(Fail(o) /\ incomplete' = incomplete \cup {o} /\ UNCHANGED helper)
  <2>1. /\ pc'[o] = AfterHelper(o) /\ helper'[o] = "none" /\ UNCHANGED <<failed, incomplete, volume, kind, target>>
        /\ AfterHelper(o) \in {"find volume", "done", "last check", "reinspect"}
    BY <1>0, <1>5 DEF CleanHelper, AfterHelper, TypeOK
  <2>2. HelperLeft(o)'
    BY <1>0, <1>5, <2>1 DEF CleanHelper, AfterHelper
  <2>3. VolumeLeft(o)'
    BY <2>1 DEF AfterHelper
  <2> QED
    BY <2>2, <2>3
<1> QED
  BY <1>1, <1>2, <1>3, <1>4, <1>5

(* The other commands: a volume with the token is found, and removed or     *)
(* reported.                                                                *)
LEMMA VolumeStepsLeft ==
  ASSUME Sound, NEW o \in Ops, Left(o),
         \/ Stage(o) \/ CreateVolume(o) \/ Publish(o)
         \/ FindVolume(o) \/ InspectOwner(o) \/ RemoveOwnVolume(o) \/ Kill(o)
  PROVE  Left(o)'
<1> USE DEF Left, HelperLeft, VolumeLeft, Before, Cleaning, hostVars, request
<1>0. TypeOK /\ o \notin {"absent", "foreign"}
  BY VolumeAssumption DEF Sound
<1>1. CASE Stage(o)
  <2>1. CASE Fail(o)
    BY <1>1, <2>1, FailLeft DEF Stage
  <2>2. CASE Goto(o, "exists") /\ UNCHANGED failed
    BY <1>0, <1>1, <2>2 DEF Stage, Goto, TypeOK
  <2> QED
    BY <1>1, <2>1, <2>2 DEF Stage
<1>2. CASE CreateVolume(o)
  BY <1>0, <1>2 DEF CreateVolume, Fail, Goto, OnError, TypeOK
<1>3. CASE Publish(o)
  <2>1. kind[o] # "restore" /\ pc[o] = "publish"
    BY <1>3 DEF Publish, Sound, RequestAgrees
  <2> QED
    BY <1>0, <1>3, <2>1 DEF Publish, Fail, Goto, OnError, TypeOK
<1>4. CASE FindVolume(o)
  BY <1>0, <1>4 DEF FindVolume, Goto, Exists, TypeOK
<1>5. CASE InspectOwner(o)
  BY <1>0, <1>5 DEF InspectOwner, Goto, IsOwn, TypeOK
<1>6. CASE RemoveOwnVolume(o)
  <2>1. target[o] \in Names
    BY <1>6 DEF RemoveOwnVolume, Sound, RequestAgrees
  <2> QED
    BY <1>0, <1>6, <2>1 DEF RemoveOwnVolume, Goto, TypeOK
<1>7. CASE Kill(o)
  BY <1>0, <1>7 DEF Kill, Goto, TypeOK
<1> QED
  BY <1>1, <1>2, <1>3, <1>4, <1>5, <1>6, <1>7

(* A request starts with nothing to leave: no volume has its token. *)
LEMMA RequestLeft ==
  ASSUME Sound, NEW o \in Ops, Left(o), NEW k \in {"export", "restore"}, NEW n \in Names, NEW p \in Paths,
         Request(o, k, n, p)
  PROVE  Left(o)'
<1>1. /\ pc[o] = "idle" /\ target'[o] = n /\ pc'[o] \in {"inspect", "stage"}
      /\ UNCHANGED <<volume, helper, failed, incomplete>>
  BY DEF Request, Goto, hostVars, Sound, TypeOK
<1>2. volume[n] # o
  BY <1>1 DEF Sound, RequestAgrees, TokenAgrees
<1> QED
  BY <1>1, <1>2 DEF Left, HelperLeft, VolumeLeft, Before, Cleaning

(* Every step keeps what an operation leaves behind, *)
LEMMA NextLeft == Sound /\ LeftAgrees /\ [Next]_vars => LeftAgrees'
<1> SUFFICES ASSUME Sound, LeftAgrees, [Next]_vars, NEW q \in Ops
             PROVE  Left(q)'
  BY DEF LeftAgrees
<1>1. Left(q)
  BY DEF LeftAgrees
<1>2. ASSUME NEW o \in Ops, NEW n \in Names, NEW p \in Paths, BeginExport(o, n, p) \/ BeginRestore(o, n, p)
      PROVE  Left(q)'
  <2>1. PICK k \in {"export", "restore"} : Request(o, k, n, p)
    BY <1>2 DEF BeginExport, BeginRestore
  <2>2. CASE q = o
    BY <1>1, <2>1, <2>2, RequestLeft
  <2>3. CASE q # o
    BY <1>1, <2>1, <2>3, RequestUntouched, UntouchedLeft
  <2> QED
    BY <2>2, <2>3
<1>3. ASSUME NEW o \in Ops, Command(o)
      PROVE  Left(q)'
  <2>1. CASE q = o
    BY <1>1, <1>3, <2>1, QueriesLeft, HelperStepsLeft, VolumeStepsLeft DEF Command
  <2>2. CASE q # o
    BY <1>1, <1>3, <2>2, OthersUntouched, UntouchedLeft
  <2> QED
    BY <2>1, <2>2
<1>4. ASSUME NEW n \in Names, Host(n)
      PROVE  Left(q)'
  BY <1>1, <1>4, HostUntouched, UntouchedLeft
<1>5. CASE UNCHANGED vars
  BY <1>1, <1>5 DEF vars, hostVars, request, opVars, Left, HelperLeft, VolumeLeft
<1> QED
  BY <1>2, <1>3, <1>4, <1>5 DEF Next

(* in every behaviour. *)
LEMMA AlwaysLeft == Spec => []LeftAgrees
<1>1. Init => LeftAgrees
  BY DEF Init, LeftAgrees, Left, HelperLeft, VolumeLeft, Before, Cleaning
<1> QED
  BY <1>1, NextLeft, AlwaysSound, PTL DEF Spec

(* An operation that returns without reporting an incomplete clean-up has   *)
(* left no container behind, and no volume when it is a restore that failed, *)
(* at whichever docker command it failed.                                   *)
THEOREM ReturnsLeaveNothing == Spec => []ReturnLeavesNothing
<1>1. LeftAgrees => ReturnLeavesNothing
  BY DEF LeftAgrees, Left, HelperLeft, VolumeLeft, ReturnLeavesNothing
<1> QED
  BY <1>1, AlwaysLeft, PTL

-----------------------------------------------------------------------------
(* What an operation copies. *)

(* Another writer has the volume open. *)
Disturbed(o) ==
  \/ app[target[o]] = "running"
  \/ \E q \in On(target[o]) \ {o} : kind[q] = "restore" /\ helper[q] = "running"

(* A copy that was written into was written by somebody who is still there, *)
(* for the last look at the containers to find, or who slipped away.        *)
SpoilingSeen(o) ==
  /\ pc[o] \in Before \cup {"idle"} => o \notin spoiled
  /\ pc[o] \in Copying /\ o \in spoiled => o \in slipped \/ Disturbed(o)
  /\ pc[o] = "publish" /\ o \in spoiled => o \in slipped

(* A restore holds what its archive holds, and so does its volume once the  *)
(* helper is done, unless somebody else writes there.                       *)
CopyAgrees(o) ==
  kind[o] = "restore" =>
    /\ pc[o] \in {"exists", "recheck", "create", "own", "check"} \cup Copying =>
         archive[path[o]] \in Contents /\ copy[o] = archive[path[o]]
    /\ pc[o] \in {"clean helper", "last check"} /\ o \notin failed /\ o \notin slipped =>
         content[target[o]] = copy[o] \/ app[target[o]] = "running"

Copied(o) == SpoilingSeen(o) /\ CopyAgrees(o)
CopiesAgree == \A o \in Ops : Copied(o)

(* What the steps of others may do to the copy of operation q. *)
SpoiledInSight(q) ==
  /\ q \in slipped => q \in slipped'
  /\ q \in spoiled' /\ q \notin spoiled => helper[q] = "running"
  /\ pc[q] \in Copying /\ (Disturbed(q) \/ (q \in spoiled' /\ q \notin spoiled)) => q \in slipped' \/ Disturbed(q)'

WrittenInSight(q) ==
  /\ path[q] \in Paths /\ archive[path[q]] \in Contents => archive'[path[q]] = archive[path[q]]
  /\ kind[q] = "restore" /\ pc[q] \in {"clean helper", "last check"} =>
       /\ content'[target[q]] = content[target[q]] \/ app'[target[q]] = "running" \/ q \in slipped'
       /\ app[target[q]] = "running" => app'[target[q]] = "running" \/ q \in slipped'

Beside(q) == Untouched(q) /\ SpoiledInSight(q) /\ WrittenInSight(q)

(* A copy survives the steps of others. *)
LEMMA BesideCopied ==
  ASSUME Sound, NEW q \in Ops, Left(q), Copied(q), Beside(q)
  PROVE  Copied(q)'
<1>1. /\ pc'[q] = pc[q] /\ kind'[q] = kind[q] /\ target'[q] = target[q] /\ path'[q] = path[q]
      /\ helper'[q] = helper[q] /\ copy'[q] = copy[q] /\ (q \in failed' <=> q \in failed)
  BY DEF Beside, Untouched
<1>2. SpoilingSeen(q)'
  <2>1. SpoilingSeen(q) /\ SpoiledInSight(q)
    BY DEF Copied, Beside
  <2>2. pc[q] \in Before \cup {"idle", "publish"} => helper[q] # "running"
    BY DEF Left, HelperLeft
  <2>3. /\ (pc[q] \in Before \cup {"idle"} => q \notin spoiled)'
        /\ (pc[q] = "publish" /\ q \in spoiled => q \in slipped)'
    BY <1>1, <2>1, <2>2 DEF SpoilingSeen, SpoiledInSight
  <2>4. pc[q] \in Copying /\ q \in spoiled' => q \in slipped' \/ Disturbed(q)'
    BY <2>1 DEF SpoilingSeen, SpoiledInSight
  <2> QED
    BY <1>1, <2>3, <2>4 DEF SpoilingSeen
<1>3. CopyAgrees(q)'
  <2>1. CopyAgrees(q) /\ WrittenInSight(q) /\ (q \in slipped => q \in slipped')
    BY DEF Copied, Beside, SpoiledInSight
  <2>2. pc[q] # "idle" => path[q] \in Paths
    BY DEF Sound, RequestAgrees
  <2> QED
    BY <1>1, <2>1, <2>2 DEF CopyAgrees, WrittenInSight, Copying
<1> QED
  BY <1>2, <1>3 DEF Copied

(* Who comes and goes at a volume is seen: a writer that starts is there,   *)
(* one that ends has slipped away under the copies in progress.             *)
LEMMA CommandInSight ==
  ASSUME Sound, LeftAgrees, NEW o \in Ops, Command(o), NEW q \in Ops, q # o
  PROVE  SpoiledInSight(q)
<1>1. \A r \in Ops : r # o => kind'[r] = kind[r] /\ target'[r] = target[r] /\ helper'[r] = helper[r]
  BY OthersUntouched DEF Untouched
<1>2. UNCHANGED <<kind, target, path, app>>
  BY DEF Command, Stage, InspectVolume, CheckWriters, VolumeExists, PullHelper, CreateVolume, Own, StartHelper, HelperEnds,
     ClientLosesHelper, CleanHelper, Reinspect, LastCheck, Publish, FindVolume, InspectOwner, RemoveOwnVolume, Kill,
     Query, hostVars, request
<1>3. ASSUME Disturbed(q), ~Disturbed(q)'
      PROVE  o \in On(target[q]) /\ kind[o] = "restore" /\ helper[o] = "running" /\ helper'[o] # "running"
  BY <1>1, <1>2, <1>3 DEF Disturbed, On
<1>4. CASE UNCHANGED <<helper, spoiled, slipped>>
  BY <1>3, <1>4 DEF SpoiledInSight
<1>5. CASE StartHelper(o)
  <2>1. pc[o] = "copy" /\ helper[o] = "none" /\ slipped' = slipped
    BY <1>5 DEF StartHelper, LeftAgrees, Left, HelperLeft, Before
  <2>2. CASE spoiled' = spoiled
    BY <1>3, <2>1, <2>2 DEF SpoiledInSight
  <2>3. CASE spoiled' # spoiled
    <3>1. kind[o] = "restore" /\ Spoil(target[o], {o}) /\ helper' = [helper EXCEPT ![o] = "running"]
      BY <1>5, <2>3 DEF StartHelper
    <3>2. helper'[o] = "running"
      BY <3>1 DEF Sound, TypeOK
    <3>3. q \in spoiled' /\ q \notin spoiled => q \in On(target[o]) /\ helper[q] = "running"
      BY <3>1 DEF Spoil
    <3>4. q \in On(target[o]) => Disturbed(q)'
      BY <1>2, <3>1, <3>2 DEF Disturbed, On
    <3> QED
      BY <1>3, <2>1, <3>3, <3>4 DEF SpoiledInSight
  <2> QED
    BY <2>2, <2>3
<1>6. ASSUME Leaves(target[o], IF kind[o] = "restore" THEN {o} ELSE Ops),
             IF kind[o] = "restore" THEN Spoil(target[o], {o}) ELSE UNCHANGED spoiled
      PROVE  SpoiledInSight(q)
  <2>1. CASE kind[o] = "restore"
    <3>1. /\ spoiled' = spoiled \cup {r \in On(target[o]) \ {o} : helper[r] = "running"}
          /\ slipped' = slipped \cup {r \in On(target[o]) \ {o} : pc[r] \in Copying}
      BY <1>6, <2>1 DEF Spoil, Leaves
    <3>2. o \in On(target[q]) => q \in On(target[o])
      BY DEF On
    <3> QED
      BY <1>3, <3>1, <3>2 DEF SpoiledInSight
  <2>2. CASE kind[o] # "restore"
    BY <1>3, <1>6, <2>2 DEF SpoiledInSight, Leaves
  <2> QED
    BY <2>1, <2>2
<1>7. CASE HelperEnds(o)
  BY <1>6, <1>7 DEF HelperEnds
<1>8. CASE CleanHelper(o)
  <2>1. CASE helper[o] = "running" /\ kind[o] = "restore"
    BY <1>4, <1>6, <1>8, <2>1 DEF CleanHelper
  <2>2. CASE ~(helper[o] = "running" /\ kind[o] = "restore")
    BY <1>3, <1>8, <2>2 DEF CleanHelper, SpoiledInSight
  <2> QED
    BY <2>1, <2>2
<1> QED
  BY <1>4, <1>5, <1>7, <1>8 DEF Command, Stage, InspectVolume, CheckWriters, VolumeExists, PullHelper, CreateVolume, Own,
     ClientLosesHelper, Reinspect, LastCheck, Publish, FindVolume, InspectOwner, RemoveOwnVolume, Kill, Query

(* A command writes only the volume that its operation created, or none; an *)
(* archive that is there stays.                                             *)
LEMMA CommandWrites ==
  ASSUME Sound, LeftAgrees, NEW o \in Ops, Command(o), NEW q \in Ops, q # o
  PROVE  WrittenInSight(q)
<1>1. UNCHANGED app
  BY DEF Command, Stage, InspectVolume, CheckWriters, VolumeExists, PullHelper, CreateVolume, Own, StartHelper, HelperEnds,
     ClientLosesHelper, CleanHelper, Reinspect, LastCheck, Publish, FindVolume, InspectOwner, RemoveOwnVolume, Kill,
     Query, hostVars
<1>2. path[q] \in Paths /\ archive[path[q]] \in Contents => archive'[path[q]] = archive[path[q]]
  <2>1. CASE UNCHANGED archive
    BY <2>1
  <2>2. CASE Publish(o)
    <3>1. archive \in [Paths -> Contents \cup {None}] /\ path[o] \in Paths
      BY <2>2 DEF Publish, Sound, TypeOK, RequestAgrees
    <3> QED
      BY <2>2, <3>1, VolumeNoneAssumption DEF Publish, IsFree
  <2> QED
    BY <2>1, <2>2 DEF Command, Stage, InspectVolume, CheckWriters, VolumeExists, PullHelper, CreateVolume, Own,
       StartHelper, HelperEnds, ClientLosesHelper, CleanHelper, Reinspect, LastCheck, FindVolume, InspectOwner,
       RemoveOwnVolume, Kill, Query, hostVars
<1>3. ASSUME kind[q] = "restore", pc[q] \in {"clean helper", "last check"}
      PROVE  content'[target[q]] = content[target[q]]
  <2>1. volume[target[q]] = q /\ target[q] \in Names /\ content \in [Names -> Contents]
    BY <1>3 DEF Sound, TypeOK, RequestAgrees, TokenAgrees, Owned
  <2>2. ASSUME NEW c, content' = [content EXCEPT ![target[o]] = c], volume[target[o]] = o
        PROVE  content'[target[q]] = content[target[q]]
    BY <2>1, <2>2
  <2>3. CASE UNCHANGED content
    BY <2>3
  <2>4. CASE CreateVolume(o)
    <3>1. Exists(target[q])
      BY <2>1, VolumeAssumption DEF Exists
    <3> QED
      BY <2>1, <2>4, <3>1 DEF CreateVolume
  <2>5. CASE StartHelper(o) /\ content' # content
    <3>1. kind[o] = "restore" /\ pc[o] = "copy" /\ content' = [content EXCEPT ![target[o]] = "partial"]
      BY <2>5 DEF StartHelper
    <3> QED
      BY <2>2, <3>1 DEF Sound, TokenAgrees, Owned
  <2>6. CASE HelperEnds(o) /\ content' # content
    <3>1. kind[o] = "restore" /\ helper[o] = "running"
      BY <2>6 DEF HelperEnds
    <3>2. content' = [content EXCEPT ![target[o]] = IF o \in spoiled THEN "mixed" ELSE copy[o]]
      BY <2>6, <3>1 DEF HelperEnds
    <3> QED
      BY <2>2, <3>1, <3>2 DEF Sound, TokenAgrees
  <2>7. CASE RemoveOwnVolume(o) /\ content' # content
    <3>1. content' = [content EXCEPT ![target[o]] = "empty"] /\ pc[o] = "remove volume"
      BY <2>7 DEF RemoveOwnVolume
    <3>2. kind[o] = "restore"
      BY <3>1 DEF Sound, RequestAgrees, Cleaning
    <3> QED
      BY <2>2, <3>1, <3>2 DEF Sound, TokenAgrees, Owned
  <2> QED
    BY <2>3, <2>4, <2>5, <2>6, <2>7 DEF Command, Stage, InspectVolume, CheckWriters, VolumeExists, PullHelper, Own,
       ClientLosesHelper, CleanHelper, Reinspect, LastCheck, Publish, FindVolume, InspectOwner, Kill, Query, hostVars
<1> QED
  BY <1>1, <1>2, <1>3 DEF WrittenInSight

(* A request concerns no copy: its operation has no helper. *)
LEMMA RequestBeside ==
  ASSUME Sound, NEW o \in Ops, NEW k, NEW n \in Names, NEW p \in Paths, Request(o, k, n, p), NEW q \in Ops, q # o
  PROVE  Beside(q)
<1>1. UNCHANGED <<volume, content, app, archive, copy, spoiled, helper, failed, incomplete, slipped>>
  BY DEF Request, hostVars
<1>2. Untouched(q)
  BY RequestUntouched
<1>3. helper[o] = "none"
  BY DEF Request, Sound, RequestAgrees
<1>4. \A r \in Ops : r # o => Untouched(r)
  BY RequestUntouched
<1>5. Disturbed(q) => Disturbed(q)'
  BY <1>1, <1>2, <1>3, <1>4 DEF Disturbed, On, Untouched
<1> QED
  BY <1>1, <1>2, <1>5 DEF Beside, SpoiledInSight, WrittenInSight

(* An app that writes is running, and one that stops slips away. *)
LEMMA HostBeside ==
  ASSUME Sound, NEW n \in Names, Host(n), NEW q \in Ops
  PROVE  Beside(q)
<1> USE DEF request, opVars
<1>1. Untouched(q)
  BY HostUntouched
<1>2. UNCHANGED <<kind, target, path, pc, helper, archive>>
  BY DEF Host, ComposeUp, AppWrites, ComposeStop, ComposeDown, OperatorRemoves
<1>3. app \in [Names -> {"none", "stopped", "running"}] /\ content \in [Names -> Contents]
  BY DEF Sound, TypeOK
<1>4. Disturbed(q) /\ (app[target[q]] = "running" => app'[target[q]] = "running") => Disturbed(q)'
  BY <1>2 DEF Disturbed, On
<1>5. pc[q] # "idle" => target[q] \in Names
  BY DEF Sound, RequestAgrees
<1>6. pc[q] \in Copying => pc[q] # "idle" /\ Working(q)
  BY DEF Copying, Working, Idle
<1>7. CASE ComposeUp(n) \/ ComposeDown(n)
  <2>1. UNCHANGED <<content, spoiled, slipped>>
    BY <1>7 DEF ComposeUp, ComposeDown
  <2>2. \A m \in Names : app[m] = "running" => app'[m] = "running"
    BY <1>3, <1>7 DEF ComposeUp, ComposeDown
  <2> QED
    BY <1>1, <1>2, <1>4, <1>5, <1>6, <2>1, <2>2 DEF Beside, SpoiledInSight, WrittenInSight
<1>8. CASE AppWrites(n)
  <2>1. /\ app[n] = "running" /\ UNCHANGED <<app, slipped>> /\ content' = [content EXCEPT ![n] = "written"]
        /\ spoiled' = spoiled \cup {o \in On(n) \ {} : helper[o] = "running"}
    BY <1>8 DEF AppWrites, Spoil
  <2>2. q \in spoiled' /\ q \notin spoiled => helper[q] = "running" /\ target[q] = n
    BY <2>1 DEF On
  <2>3. SpoiledInSight(q)
    BY <1>2, <1>4, <2>1, <2>2 DEF SpoiledInSight, Disturbed
  <2>4. WrittenInSight(q)
    BY <1>2, <1>3, <1>5, <1>6, <2>1 DEF WrittenInSight
  <2> QED
    BY <1>1, <2>3, <2>4 DEF Beside
<1>9. CASE ComposeStop(n)
  <2>1. /\ UNCHANGED <<content, spoiled>>
        /\ \A m \in Names : m # n => app'[m] = app[m]
        /\ slipped' = slipped \cup {o \in On(n) \ {} : pc[o] \in Copying}
    BY <1>3, <1>9 DEF ComposeStop, Leaves
  <2>2. pc[q] \in Copying => q \in slipped' \/ app'[target[q]] = app[target[q]]
    BY <1>5, <1>6, <2>1 DEF On
  <2>3. SpoiledInSight(q)
    BY <1>2, <1>4, <2>1, <2>2 DEF SpoiledInSight
  <2>4. WrittenInSight(q)
    BY <1>2, <2>1, <2>2 DEF WrittenInSight, Copying
  <2> QED
    BY <1>1, <2>3, <2>4 DEF Beside
<1>10. CASE OperatorRemoves(n)
  <2>1. /\ UNCHANGED <<app, spoiled, slipped>> /\ content' = [content EXCEPT ![n] = "empty"]
        /\ \A o \in On(n) : ~Working(o)
    BY <1>10 DEF OperatorRemoves
  <2>2. pc[q] \in {"clean helper", "last check"} => target[q] # n
    BY <1>6, <2>1 DEF On, Copying
  <2>3. SpoiledInSight(q)
    BY <1>4, <2>1 DEF SpoiledInSight
  <2>4. WrittenInSight(q)
    BY <1>2, <1>3, <1>5, <2>1, <2>2 DEF WrittenInSight
  <2> QED
    BY <1>1, <2>3, <2>4 DEF Beside
<1> QED
  BY <1>7, <1>8, <1>9, <1>10 DEF Host

(* An operation's own commands.  A failure ends the copy, *)
LEMMA FailCopied ==
  ASSUME Sound, NEW o \in Ops, Fail(o)
  PROVE  Copied(o)' /\ ~Succeeded(o)'
<1>1. pc'[o] \in {"find volume", "done"} /\ o \in failed'
  BY DEF Fail, Goto, OnError, Sound, TypeOK
<1> QED
  BY <1>1 DEF Copied, SpoilingSeen, CopyAgrees, Before, Copying, Succeeded

(* and a command that reads takes what was copied on: the last look finds   *)
(* whoever still writes.                                                    *)
LEMMA QueryCopied ==
  ASSUME Sound, NEW o \in Ops, Copied(o), NEW good \in BOOLEAN,
         NEW here \in Before \cup {"reinspect", "last check"},
         NEW next \in Before \cup {"last check", "publish", "done"}, Query(o, here, good, next),
         next \in Before => here \in Before,
         next = "last check" => here = "reinspect" /\ kind[o] # "restore",
         next = "publish" => here = "last check" /\ (good => ~Disturbed(o)),
         kind[o] = "restore" /\ next \in {"exists", "recheck", "create", "own", "check", "copy"} =>
           here \in {"exists", "recheck", "create", "own", "check"}
  PROVE  Copied(o)'
<1>1. pc[o] = here /\ UNCHANGED <<volume, content, app, archive, kind, target, path, copy, spoiled, helper, slipped>>
  BY DEF Query, hostVars, request
<1>2. CASE Fail(o)
  BY <1>2, FailCopied
<1>3. CASE good /\ Goto(o, next) /\ UNCHANGED failed
  <2>1. pc'[o] = next
    BY <1>3 DEF Goto, Sound, TypeOK
  <2>2. Disturbed(o)' <=> Disturbed(o)
    BY <1>1 DEF Disturbed, On
  <2>3. SpoilingSeen(o)'
    BY <1>1, <1>3, <2>1, <2>2 DEF Copied, SpoilingSeen, Before, Copying
  <2>4. CopyAgrees(o)'
    BY <1>1, <1>3, <2>1 DEF Copied, CopyAgrees, Before, Copying
  <2> QED
    BY <2>3, <2>4 DEF Copied
<1> QED
  BY <1>2, <1>3 DEF Query

(* Every command that reads. *)
LEMMA QueriesCopied ==
  ASSUME Sound, NEW o \in Ops, Copied(o),
         \/ InspectVolume(o) \/ CheckWriters(o) \/ VolumeExists(o) \/ PullHelper(o)
         \/ Own(o) \/ Reinspect(o) \/ LastCheck(o)
  PROVE  Copied(o)'
<1> USE DEF Before
<1>1. CASE InspectVolume(o)
  <2>1. kind[o] = "export"
    BY <1>1 DEF InspectVolume, Query, Sound, RequestAgrees
  <2> QED
    BY <1>1, <2>1, QueryCopied DEF InspectVolume, Exists
<1>2. CASE CheckWriters(o)
  <2>1. CASE kind[o] = "export"
    BY <1>2, <2>1, QueryCopied DEF CheckWriters, HasWriter
  <2>2. CASE kind[o] # "export"
    BY <1>2, <2>2, QueryCopied DEF CheckWriters, HasWriter
  <2> QED
    BY <2>1, <2>2
<1>3. CASE VolumeExists(o)
  BY <1>3, QueryCopied DEF VolumeExists, Exists
<1>4. CASE PullHelper(o)
  <2>1. CASE kind[o] = "export"
    BY <1>4, <2>1, QueryCopied DEF PullHelper, HasWriter
  <2>2. CASE kind[o] # "export"
    BY <1>4, <2>2, QueryCopied DEF PullHelper
  <2> QED
    BY <2>1, <2>2
<1>5. CASE Own(o)
  BY <1>5, QueryCopied DEF Own, IsOwn
<1>6. CASE Reinspect(o)
  <2>1. kind[o] # "restore"
    BY <1>6 DEF Reinspect, Query, Sound, RequestAgrees
  <2> QED
    BY <1>6, <2>1, QueryCopied DEF Reinspect, Exists
<1>7. CASE LastCheck(o)
  <2>1. ~HasWriter(target[o]) => ~Disturbed(o)
    BY DEF HasWriter, Disturbed
  <2>2. CASE kind[o] = "export"
    BY <1>7, <2>1, <2>2, QueryCopied DEF LastCheck, HasWriter
  <2>3. CASE kind[o] # "export"
    BY <1>7, <2>3, QueryCopied DEF LastCheck, HasWriter
  <2> QED
    BY <2>2, <2>3
<1> QED
  BY <1>1, <1>2, <1>3, <1>4, <1>5, <1>6, <1>7

(* A helper starts on a copy that nobody has spoiled, *)
LEMMA StartCopied ==
  ASSUME Sound, NEW o \in Ops, Copied(o), StartHelper(o)
  PROVE  Copied(o)'
<1>1. /\ pc[o] = "copy" /\ o \notin spoiled
      /\ UNCHANGED <<kind, target, path, archive>>
  BY DEF StartHelper, Copied, SpoilingSeen, Before, request
<1>2. o \notin spoiled'
  BY <1>1 DEF StartHelper, Spoil
<1>3. /\ pc'[o] = "copying" \/ (pc'[o] = "clean helper" /\ o \in failed')
      /\ kind[o] = "restore" => copy'[o] = copy[o]
  BY DEF StartHelper, Goto, Sound, TypeOK
<1> QED
  BY <1>1, <1>2, <1>3 DEF Copied, SpoilingSeen, CopyAgrees, Before, Copying

(* and when it ends well, the volume of a restore holds the archive, unless *)
(* an app is there or was: no other restore has the volume.                 *)
LEMMA EndCopied ==
  ASSUME Sound, NEW o \in Ops, Left(o), Copied(o), HelperEnds(o)
  PROVE  Copied(o)'
<1>1. /\ helper[o] = "running" /\ UNCHANGED <<kind, target, path, app, archive, copy>>
      /\ pc \in [Ops -> Commands \cup Idle] /\ content \in [Names -> Contents]
  BY DEF HelperEnds, request, Sound, TypeOK
<1>2. (o \in spoiled' <=> o \in spoiled) /\ (o \in slipped => o \in slipped')
  BY DEF HelperEnds, Spoil, Leaves
<1>3. Disturbed(o)' <=> Disturbed(o)
  BY <1>1 DEF Disturbed, On, HelperEnds, Sound, TypeOK
<1>4. pc'[o] = IF pc[o] = "copying" THEN "clean helper" ELSE pc[o]
  BY <1>1 DEF HelperEnds, Goto
<1>5. SpoilingSeen(o)'
  BY <1>2, <1>3, <1>4 DEF Copied, SpoilingSeen, Before, Copying
<1>6. ASSUME kind[o] = "restore", pc'[o] \in {"clean helper", "last check"}, o \notin failed', o \notin slipped'
      PROVE  content'[target[o]] = copy[o] \/ app[target[o]] = "running"
  <2>1. pc[o] = "copying"
    <3>1. pc[o] # "copying" => failed' = failed
      BY DEF HelperEnds
    <3> QED
      BY <1>1, <1>4, <1>6, <3>1 DEF Left, HelperLeft
  <2>2. content' = [content EXCEPT ![target[o]] = IF o \in spoiled THEN "mixed" ELSE copy[o]] /\ target[o] \in Names
    BY <1>6, <2>1 DEF HelperEnds, Sound, RequestAgrees
  <2>3. o \in spoiled => app[target[o]] = "running"
    <3>1. o \in spoiled => Disturbed(o)
      BY <1>2, <1>6, <2>1 DEF Copied, SpoilingSeen, Copying
    <3>2. \A q \in On(target[o]) \ {o} : kind[q] = "restore" => helper[q] # "running"
      BY <1>1, <1>6 DEF On, Sound, TokenAgrees
    <3> QED
      BY <3>1, <3>2 DEF Disturbed
  <2> QED
    BY <1>1, <2>2, <2>3
<1>7. CopyAgrees(o)'
  BY <1>1, <1>4, <1>6 DEF Copied, CopyAgrees, Copying
<1> QED
  BY <1>5, <1>7 DEF Copied

(* The rest of the commands of the copy. *)
LEMMA CopySteps ==
  ASSUME Sound, NEW o \in Ops, Left(o), Copied(o), ClientLosesHelper(o) \/ CleanHelper(o)
  PROVE  Copied(o)'
<1>1. UNCHANGED <<kind, target, path, app, content, archive, copy>>
  BY DEF ClientLosesHelper, CleanHelper, request, hostVars
<1>2. (o \in spoiled' <=> o \in spoiled) /\ (o \in slipped => o \in slipped')
  BY DEF ClientLosesHelper, CleanHelper, Spoil, Leaves
<1>3. Disturbed(o)' <=> Disturbed(o)
  BY <1>1 DEF Disturbed, On, ClientLosesHelper, CleanHelper, Sound, TypeOK
<1>4. CASE ClientLosesHelper(o)
  <2>1. pc[o] = "copying" /\ pc'[o] = "clean helper" /\ o \in failed'
    BY <1>4 DEF ClientLosesHelper, Goto, Sound, TypeOK
  <2> QED
    BY <1>1, <1>2, <1>3, <2>1 DEF Copied, SpoilingSeen, CopyAgrees, Before, Copying
<1>5. CASE CleanHelper(o) /\ ~Fail(o)
  <2>1. pc[o] = "clean helper" /\ pc'[o] = AfterHelper(o) /\ UNCHANGED failed
    BY <1>5 DEF CleanHelper, Goto, Sound, TypeOK
  <2>2. SpoilingSeen(o)'
    BY <1>2, <1>3, <2>1 DEF AfterHelper, Copied, SpoilingSeen, Before, Copying
  <2>3. CopyAgrees(o)'
    BY <1>1, <1>2, <2>1 DEF AfterHelper, Copied, CopyAgrees, Copying
  <2> QED
    BY <2>2, <2>3 DEF Copied
<1> QED
  BY <1>4, <1>5, FailCopied

(* Before the copy and after it, *)
LEMMA OtherStepsCopied ==
  ASSUME Sound, NEW o \in Ops, Copied(o),
         \/ Stage(o) \/ CreateVolume(o) \/ Publish(o)
         \/ FindVolume(o) \/ InspectOwner(o) \/ RemoveOwnVolume(o) \/ Kill(o)
  PROVE  Copied(o)'
<1> USE DEF Copied, SpoilingSeen, CopyAgrees, Before, Copying
<1>0. pc \in [Ops -> Commands \cup Idle] /\ copy \in [Ops -> Contents]
  BY DEF Sound, TypeOK
<1>1. CASE Stage(o)
  <2>1. CASE HasArchive(o) /\ copy' = [copy EXCEPT ![o] = archive[path[o]]] /\ Goto(o, "exists") /\ UNCHANGED failed
    <3>1. pc[o] = "stage" /\ pc'[o] = "exists" /\ copy'[o] = archive[path[o]] /\ UNCHANGED <<archive, kind, path, spoiled>>
      BY <1>0, <1>1, <2>1 DEF Stage, Goto, hostVars, request
    <3> QED
      BY <2>1, <3>1 DEF HasArchive
  <2> QED
    BY <1>1, <2>1, FailCopied DEF Stage
<1>2. CASE CreateVolume(o)
  <2>1. CASE Goto(o, "own") /\ UNCHANGED failed
    <3>1. pc[o] = "create" /\ pc'[o] = "own" /\ UNCHANGED <<archive, kind, path, copy, spoiled>>
      BY <1>0, <1>2, <2>1 DEF CreateVolume, Goto, request
    <3> QED
      BY <3>1
  <2> QED
    BY <1>2, <2>1, FailCopied DEF CreateVolume
<1>3. CASE Publish(o)
  <2>1. CASE Goto(o, "done")
    BY <1>0, <2>1 DEF Goto
  <2> QED
    BY <1>3, <2>1, FailCopied DEF Publish
<1>4. CASE FindVolume(o) \/ InspectOwner(o) \/ RemoveOwnVolume(o) \/ Kill(o)
  <2>1. pc'[o] \in {"inspect volume", "remove volume", "done", "killed"}
    BY <1>0, <1>4 DEF FindVolume, InspectOwner, RemoveOwnVolume, Kill, Goto
  <2> QED
    BY <2>1
<1> QED
  BY <1>1, <1>2, <1>3, <1>4

(* every step keeps what is said of the copies, *)
LEMMA NextCopied == Sound /\ LeftAgrees /\ CopiesAgree /\ [Next]_vars => CopiesAgree'
<1> SUFFICES ASSUME Sound, LeftAgrees, CopiesAgree, [Next]_vars, NEW q \in Ops
             PROVE  Copied(q)'
  BY DEF CopiesAgree
<1>1. Left(q) /\ Copied(q)
  BY DEF LeftAgrees, CopiesAgree
<1>2. ASSUME NEW o \in Ops, NEW n \in Names, NEW p \in Paths, BeginExport(o, n, p) \/ BeginRestore(o, n, p)
      PROVE  Copied(q)'
  <2>1. PICK k \in {"export", "restore"} : Request(o, k, n, p)
    BY <1>2 DEF BeginExport, BeginRestore
  <2>2. CASE q = o
    <3>1. pc[q] = "idle" /\ pc'[q] \in {"inspect", "stage"} /\ UNCHANGED spoiled
      BY <2>1, <2>2 DEF Request, Goto, Sound, TypeOK
    <3> QED
      BY <1>1, <3>1 DEF Copied, SpoilingSeen, CopyAgrees, Before, Copying
  <2>3. CASE q # o
    BY <1>1, <2>1, <2>3, RequestBeside, BesideCopied
  <2> QED
    BY <2>2, <2>3
<1>3. ASSUME NEW o \in Ops, Command(o)
      PROVE  Copied(q)'
  <2>1. CASE q = o
    BY <1>1, <1>3, <2>1, QueriesCopied, StartCopied, EndCopied, CopySteps, OtherStepsCopied DEF Command
  <2>2. CASE q # o
    <3>1. Beside(q)
      BY <1>3, <2>2, OthersUntouched, CommandInSight, CommandWrites DEF Beside
    <3> QED
      BY <1>1, <3>1, BesideCopied
  <2> QED
    BY <2>1, <2>2
<1>4. ASSUME NEW n \in Names, Host(n)
      PROVE  Copied(q)'
  BY <1>1, <1>4, HostBeside, BesideCopied
<1>5. CASE UNCHANGED vars
  <2>1. UNCHANGED <<app, kind, target, helper>>
    BY <1>5 DEF vars, hostVars, request, opVars
  <2>2. Disturbed(q)' <=> Disturbed(q)
    BY <2>1 DEF Disturbed, On
  <2> QED
    BY <1>1, <1>5, <2>2 DEF vars, hostVars, request, opVars, Copied, SpoilingSeen, CopyAgrees
<1> QED
  BY <1>2, <1>3, <1>4, <1>5 DEF Next

(* in every behaviour. *)
LEMMA AlwaysCopied == Spec => [](Sound /\ LeftAgrees /\ CopiesAgree)
<1>1. Init => CopiesAgree
  BY DEF Init, CopiesAgree, Copied, SpoilingSeen, CopyAgrees, Before, Copying
<1> QED
  BY <1>1, NextCopied, AlwaysSound, AlwaysLeft, PTL DEF Spec

(* Success is reported by a publication or after the last look. *)
LEMMA OnlyLastStepsSucceed ==
  ASSUME Sound, NEW o \in Ops, Command(o), ~Succeeded(o), Succeeded(o)'
  PROVE  /\ o \notin failed
         /\ \/ Publish(o) /\ pc[o] = "publish" /\ spoiled' = spoiled
            \/ LastCheck(o) /\ kind[o] = "restore" /\ pc[o] = "last check" /\ ~HasWriter(target[o])
<1>0. pc \in [Ops -> Commands \cup Idle] /\ ~Fail(o)
  BY FailCopied DEF Sound, TypeOK
<1>1. CASE Stage(o) \/ CreateVolume(o) \/ StartHelper(o) \/ HelperEnds(o) \/ ClientLosesHelper(o) \/ Kill(o)
  BY <1>0, <1>1 DEF Stage, CreateVolume, StartHelper, HelperEnds, ClientLosesHelper, Kill, Goto, Succeeded
<1>2. CASE InspectVolume(o) \/ CheckWriters(o) \/ VolumeExists(o) \/ PullHelper(o) \/ Own(o) \/ Reinspect(o)
  <2>1. pc'[o] # "done"
    BY <1>0, <1>2 DEF InspectVolume, CheckWriters, VolumeExists, PullHelper, Own, Reinspect, Query, Goto
  <2> QED
    BY <2>1 DEF Succeeded
<1>3. CASE CleanHelper(o)
  BY <1>0, <1>3 DEF CleanHelper, AfterHelper, Goto, Succeeded
<1>4. CASE LastCheck(o)
  <2>1. /\ pc[o] = "last check" /\ ~HasWriter(target[o]) /\ UNCHANGED failed
        /\ pc'[o] = IF kind[o] = "export" THEN "publish" ELSE "done"
    BY <1>0, <1>4 DEF LastCheck, Query, Goto, HasWriter
  <2>2. kind[o] = "restore"
    BY <2>1 DEF Succeeded, Sound, RequestAgrees
  <2> QED
    BY <1>4, <2>1, <2>2 DEF Succeeded
<1>5. CASE Publish(o)
  BY <1>0, <1>5 DEF Publish, Succeeded
<1>6. CASE FindVolume(o) \/ InspectOwner(o) \/ RemoveOwnVolume(o)
  <2>1. o \in failed /\ UNCHANGED failed
    BY <1>6 DEF FindVolume, InspectOwner, RemoveOwnVolume, Sound, RequestAgrees, Cleaning
  <2> QED
    BY <2>1 DEF Succeeded
<1> QED
  BY <1>1, <1>2, <1>3, <1>4, <1>5, <1>6 DEF Command

(* An operation that comes to report success has copied one moment of the    *)
(* volume, unless a writer came and went between its two looks at the        *)
(* containers: whoever wrote is still there for the last one, and the        *)
(* archive of a restore is what it was when it was staged.                   *)
THEOREM CopiesAreExact == Spec => CopyIsExact
<1> DEFINE Exact == \A o \in Ops : ~Succeeded(o) /\ Succeeded(o)' /\ o \notin slipped =>
                      \/ kind[o] = "export" /\ o \notin spoiled'
                      \/ kind[o] = "restore" /\ content[target[o]] = archive[path[o]]
<1>1. ASSUME Sound, LeftAgrees, CopiesAgree, [Next]_vars, NEW o \in Ops, ~Succeeded(o), Succeeded(o)', o \notin slipped
      PROVE  \/ kind[o] = "export" /\ o \notin spoiled'
             \/ kind[o] = "restore" /\ content[target[o]] = archive[path[o]]
  <2>1. Command(o)
    <3>1. ~Untouched(o)
      BY <1>1 DEF Untouched, Succeeded
    <3>2. ASSUME NEW q \in Ops, NEW n \in Names, NEW p \in Paths, BeginExport(q, n, p) \/ BeginRestore(q, n, p)
          PROVE  FALSE
      <4>1. PICK k \in {"export", "restore"} : Request(q, k, n, p)
        BY <3>2 DEF BeginExport, BeginRestore
      <4>2. q = o
        BY <1>1, <3>1, <4>1, RequestUntouched
      <4> QED
        BY <1>1, <4>1, <4>2 DEF Request, Goto, Succeeded, Sound, TypeOK
    <3>3. \A q \in Ops : Command(q) => q = o
      BY <1>1, <3>1, OthersUntouched
    <3>4. \A n \in Names : ~Host(n)
      BY <1>1, <3>1, HostUntouched
    <3>5. ~UNCHANGED vars
      BY <1>1 DEF vars, opVars, Succeeded
    <3> QED
      BY <1>1, <3>2, <3>3, <3>4, <3>5 DEF Next
  <2>2. Copied(o) /\ o \notin failed
    BY <1>1, <2>1, OnlyLastStepsSucceed DEF CopiesAgree
  <2>3. CASE Publish(o) /\ pc[o] = "publish" /\ spoiled' = spoiled
    BY <1>1, <2>2, <2>3 DEF Copied, SpoilingSeen, Sound, RequestAgrees
  <2>4. CASE LastCheck(o) /\ kind[o] = "restore" /\ pc[o] = "last check" /\ ~HasWriter(target[o])
    BY <1>1, <2>2, <2>4 DEF Copied, CopyAgrees, Copying, HasWriter
  <2> QED
    BY <1>1, <2>1, <2>3, <2>4, OnlyLastStepsSucceed
<1>2. Sound /\ LeftAgrees /\ CopiesAgree /\ [Next]_vars => [Exact]_vars
  BY <1>1
<1> QED
  BY <1>2, AlwaysCopied, PTL DEF Spec, CopyIsExact

-----------------------------------------------------------------------------
(* The operations implement VolumeOwnership. *)

Busy == [o \in Ops |-> IF Working(o) THEN target[o] ELSE None]
Kept == {o \in Ops : kind[o] = "restore" /\ Succeeded(o)}
Stutters == UNCHANGED <<volume, Busy, Kept>>

(* What a command of an operation at work changes of the abstract state. *)
LEMMA CommandMaps ==
  ASSUME Sound, NEW o \in Ops, Working(o), NEW s \in Commands \cup {"done", "killed"}, Goto(o, s),
         UNCHANGED request, failed' \in {failed, failed \cup {o}}
  PROVE  /\ Busy[o] = target[o] /\ target[o] \in Names /\ target[o] # None /\ o \notin Kept
         /\ Busy' = IF s \in Idle THEN [Busy EXCEPT ![o] = None] ELSE Busy
         /\ Kept' = IF s = "done" /\ kind[o] = "restore" /\ o \notin failed' THEN Kept \cup {o} ELSE Kept
<1>1. /\ pc' = [pc EXCEPT ![o] = s] /\ pc \in [Ops -> Commands \cup Idle] /\ UNCHANGED <<kind, target>>
  BY DEF Goto, request, Sound, TypeOK
<1>2. target[o] \in Names /\ target[o] # None
  BY VolumeAssumption DEF Working, Idle, Sound, RequestAgrees
<1>3. Busy[o] = target[o] /\ o \notin Kept
  BY DEF Busy, Kept, Working, Succeeded, Idle
<1>4. Busy' = IF s \in Idle THEN [Busy EXCEPT ![o] = None] ELSE Busy
  BY <1>1 DEF Busy, Working
<1>5. ASSUME NEW q \in Ops
      PROVE  q \in Kept' <=> q \in IF s = "done" /\ kind[o] = "restore" /\ o \notin failed' THEN Kept \cup {o} ELSE Kept
  <2>1. CASE q = o
    BY <1>1, <1>3, <2>1 DEF Kept, Succeeded
  <2>2. CASE q # o
    BY <1>1, <2>2 DEF Kept, Succeeded
  <2> QED
    BY <2>1, <2>2
<1>6. Kept' = IF s = "done" /\ kind[o] = "restore" /\ o \notin failed' THEN Kept \cup {o} ELSE Kept
  <2>1. Kept \subseteq Ops /\ Kept' \subseteq Ops
    BY DEF Kept
  <2> QED
    BY <1>5, <2>1
<1> QED
  BY <1>2, <1>3, <1>4, <1>6

(* A command that leaves the volumes and reports no restore's success ends  *)
(* the operation, or is no step of the abstract state.                      *)
LEMMA EndsOrStutters ==
  ASSUME Sound, NEW o \in Ops, Working(o), NEW s \in Commands \cup {"done", "killed"}, Goto(o, s),
         UNCHANGED <<volume, request>>, failed' \in {failed, failed \cup {o}},
         s = "done" /\ kind[o] = "restore" => o \in failed'
  PROVE  Ownership!End(o) \/ Stutters
<1>1. /\ Busy[o] # None /\ Kept' = Kept /\ UNCHANGED volume
      /\ Busy' = IF s \in Idle THEN [Busy EXCEPT ![o] = None] ELSE Busy
  BY CommandMaps
<1>2. CASE s \in Idle
  BY <1>1, <1>2 DEF Ownership!End, Busy, Kept
<1>3. CASE s \notin Idle
  BY <1>1, <1>3 DEF Stutters
<1> QED
  BY <1>2, <1>3

(* A command that fails is a failure or a stutter of the abstract operation. *)
LEMMA FailMaps ==
  ASSUME Sound, NEW o \in Ops, Working(o), Fail(o), UNCHANGED <<volume, request>>
  PROVE  Ownership!End(o) \/ Stutters
<1>1. OnError(o) \in Commands \cup {"done", "killed"} /\ Goto(o, OnError(o)) /\ failed' = failed \cup {o}
  BY DEF OnError, Fail, Commands
<1> QED
  BY <1>1, EndsOrStutters

(* Queries of docker are stutters. *)
LEMMA QueryMaps ==
  ASSUME Sound, NEW o \in Ops, NEW here \in Commands, NEW good \in BOOLEAN, NEW next \in Commands \cup {"done"},
         Query(o, here, good, next), next = "done" => kind[o] = "export"
  PROVE  Ownership!End(o) \/ Stutters
<1>1. Working(o) /\ UNCHANGED <<volume, request>>
  BY DEF Query, Working, Idle, Commands, Copying, hostVars
<1>2. CASE Fail(o)
  BY <1>1, <1>2, FailMaps
<1>3. CASE Goto(o, next) /\ UNCHANGED failed
  <2>1. next = "done" /\ kind[o] = "restore" => o \in failed'
    OBVIOUS
  <2> QED
    BY <1>1, <1>3, <2>1, EndsOrStutters
<1> QED
  BY <1>2, <1>3 DEF Query

(* A request begins an abstract operation. *)
LEMMA RequestMaps ==
  ASSUME Sound, NEW o \in Ops, NEW k \in {"export", "restore"}, NEW n \in Names, NEW p \in Paths, Request(o, k, n, p)
  PROVE  Ownership!Begin(o, n)
<1>1. /\ pc[o] = "idle" /\ kind' = [kind EXCEPT ![o] = k] /\ target' = [target EXCEPT ![o] = n]
      /\ pc' = [pc EXCEPT ![o] = IF k = "export" THEN "inspect" ELSE "stage"]
      /\ UNCHANGED <<volume, failed>>
  BY DEF Request, Goto, hostVars
<1>2. pc \in [Ops -> Commands \cup Idle] /\ kind \in [Ops -> {"none", "export", "restore"}] /\ target \in [Ops -> Names \cup {None}]
  BY DEF Sound, TypeOK
<1>3. Busy[o] = None
  BY <1>1 DEF Busy, Working, Idle
<1>4. Busy' = [Busy EXCEPT ![o] = n]
  BY <1>1, <1>2 DEF Busy, Working, Idle
<1>5. Kept' = Kept
  <2>1. \A q \in Ops : q \in Kept' <=> q \in Kept
    BY <1>1, <1>2 DEF Kept, Succeeded
  <2>2. Kept \subseteq Ops /\ Kept' \subseteq Ops
    BY DEF Kept
  <2> QED
    BY <2>1, <2>2
<1> QED
  BY <1>1, <1>3, <1>4, <1>5 DEF Ownership!Begin, Busy, Kept

(* A volume is taken when docker creates it. *)
LEMMA CreateMaps ==
  ASSUME Sound, NEW o \in Ops, CreateVolume(o)
  PROVE  Ownership!Claim(o, target[o]) \/ Ownership!End(o) \/ Stutters
<1>1. /\ pc[o] = "create" /\ Working(o) /\ UNCHANGED request
      /\ volume \in [Names -> {"absent", "foreign"} \cup Ops]
  BY DEF CreateVolume, Working, Idle, Sound, TypeOK
<1>2. PICK s \in {"own", "find volume", "done"} : Goto(o, s) /\ failed' \in {failed, failed \cup {o}} /\ (s = "done" => o \in failed')
  BY DEF CreateVolume, Fail, OnError
<1>3. s \in Commands \cup {"done", "killed"}
  BY <1>2 DEF Commands
<1>4. target[o] \in Names
  BY <1>1, <1>2, <1>3, CommandMaps
<1>5. CASE UNCHANGED volume
  BY <1>1, <1>2, <1>3, <1>5, EndsOrStutters
<1>6. CASE volume' # volume
  <2>1. volume[target[o]] = "absent" /\ volume' = [volume EXCEPT ![target[o]] = o]
    BY <1>1, <1>4, <1>6 DEF CreateVolume
  <2>2. s # "done"
    BY <1>1, <1>2 DEF Sound, RequestAgrees, CreateVolume, Fail, OnError, Goto, TypeOK
  <2>3. Busy[o] = target[o] /\ Busy' = Busy /\ Kept' = Kept
    BY <1>1, <1>2, <1>3, <2>2, CommandMaps DEF Idle
  <2> QED
    BY <2>1, <2>3 DEF Ownership!Claim, Busy, Kept
<1> QED
  BY <1>5, <1>6

(* A helper starts with the volume of its operation. *)
LEMMA StartMaps ==
  ASSUME Sound, NEW o \in Ops, StartHelper(o)
  PROVE  Ownership!Appear(target[o]) \/ Stutters
<1>1. /\ Working(o) /\ UNCHANGED request /\ volume \in [Names -> {"absent", "foreign"} \cup Ops]
      /\ volume' \in {volume, [volume EXCEPT ![target[o]] = IF @ = "absent" THEN "foreign" ELSE @]}
  BY DEF StartHelper, Working, Idle, Sound, TypeOK
<1>2. PICK s \in {"copying", "clean helper"} : Goto(o, s) /\ failed' \in {failed, failed \cup {o}}
  BY DEF StartHelper
<1>3. s \in Commands \cup {"done", "killed"} /\ s \notin Idle /\ s # "done"
  BY <1>2 DEF Commands, Copying, Idle
<1>4. target[o] \in Names /\ Busy' = Busy /\ Kept' = Kept
  BY <1>1, <1>2, <1>3, CommandMaps
<1>5. CASE UNCHANGED volume
  BY <1>4, <1>5 DEF Stutters
<1>6. CASE volume' # volume
  <2>1. volume[target[o]] = "absent" /\ volume' = [volume EXCEPT ![target[o]] = "foreign"]
    BY <1>1, <1>4, <1>6
  <2> QED
    BY <1>4, <2>1 DEF Ownership!Appear, Busy, Kept
<1> QED
  BY <1>5, <1>6

(* A helper ends by itself: a step of its operation only while that waits. *)
LEMMA HelperMaps ==
  ASSUME Sound, NEW o \in Ops, HelperEnds(o) \/ ClientLosesHelper(o)
  PROVE  Ownership!End(o) \/ Stutters
<1>1. UNCHANGED <<volume, request>> /\ failed' \in {failed, failed \cup {o}}
  BY DEF HelperEnds, ClientLosesHelper, hostVars
<1>2. CASE pc[o] = "copying"
  <2>1. Working(o) /\ Goto(o, "clean helper") /\ "clean helper" \in Commands \cup {"done", "killed"}
    BY <1>2 DEF HelperEnds, ClientLosesHelper, Working, Idle, Commands, Copying
  <2> QED
    BY <1>1, <2>1, EndsOrStutters
<1>3. CASE pc[o] # "copying"
  <2>1. UNCHANGED <<pc, failed>>
    BY <1>3 DEF HelperEnds, ClientLosesHelper
  <2> QED
    BY <1>1, <2>1 DEF Stutters, Busy, Kept, Working, Succeeded, request
<1> QED
  BY <1>2, <1>3

(* Removing a helper ends its access. *)
LEMMA CleanHelperMaps ==
  ASSUME Sound, NEW o \in Ops, CleanHelper(o)
  PROVE  Ownership!End(o) \/ Stutters
<1>1. Working(o) /\ UNCHANGED <<volume, request>>
  BY DEF CleanHelper, Working, Idle, hostVars
<1>2. CASE Fail(o)
  BY <1>1, <1>2, FailMaps
<1>3. CASE Goto(o, AfterHelper(o)) /\ UNCHANGED failed
  <2>1. /\ AfterHelper(o) \in Commands \cup {"done", "killed"}
        /\ AfterHelper(o) = "done" /\ kind[o] = "restore" => o \in failed'
    BY DEF AfterHelper, Commands, Copying
  <2> QED
    BY <1>1, <1>3, <2>1, EndsOrStutters
<1> QED
  BY <1>2, <1>3 DEF CleanHelper

(* A restore reports success only as the owner of its volume. *)
LEMMA LastCheckMaps ==
  ASSUME Sound, NEW o \in Ops, LastCheck(o)
  PROVE  Ownership!Keep(o, target[o]) \/ Ownership!End(o) \/ Stutters
<1>1. /\ Working(o) /\ pc[o] = "last check" /\ UNCHANGED <<volume, request>>
  BY DEF LastCheck, Query, Working, Idle, hostVars
<1>2. CASE Fail(o)
  BY <1>1, <1>2, FailMaps
<1>3. CASE Goto(o, IF kind[o] = "export" THEN "publish" ELSE "done") /\ UNCHANGED failed
  <2>1. CASE kind[o] = "export" \/ o \in failed
    <3>1. (IF kind[o] = "export" THEN "publish" ELSE "done") \in Commands \cup {"done", "killed"}
      BY DEF Commands
    <3>2. (IF kind[o] = "export" THEN "publish" ELSE "done") = "done" /\ kind[o] = "restore" => o \in failed'
      BY <1>3, <2>1
    <3> QED
      BY <1>1, <1>3, <3>1, <3>2, EndsOrStutters
  <2>2. CASE kind[o] # "export" /\ o \notin failed
    <3>1. kind[o] = "restore" /\ Goto(o, "done") /\ o \notin failed'
      BY <1>1, <1>3, <2>2 DEF Sound, RequestAgrees
    <3>2. /\ Busy[o] = target[o] /\ Busy' = [Busy EXCEPT ![o] = None] /\ Kept' = Kept \cup {o}
      BY <1>1, <1>3, <3>1, CommandMaps DEF Idle
    <3>3. volume[target[o]] = o
      BY <1>1, <3>1 DEF Sound, TokenAgrees, Owned
    <3> QED
      BY <1>1, <3>2, <3>3 DEF Ownership!Keep, Busy, Kept
  <2> QED
    BY <2>1, <2>2
<1> QED
  BY <1>2, <1>3 DEF LastCheck, Query

(* Publishing an archive does not touch a volume. *)
LEMMA PublishMaps ==
  ASSUME Sound, NEW o \in Ops, Publish(o)
  PROVE  Ownership!End(o) \/ Stutters
<1>1. Working(o) /\ UNCHANGED <<volume, request>> /\ kind[o] = "export"
  BY DEF Publish, Working, Idle, Sound, RequestAgrees
<1>2. CASE Fail(o)
  BY <1>1, <1>2, FailMaps
<1>3. CASE Goto(o, "done") /\ UNCHANGED failed
  BY <1>1, <1>3, EndsOrStutters
<1> QED
  BY <1>2, <1>3 DEF Publish

(* Looking before a retry is a stutter. *)
LEMMA LookingMaps ==
  ASSUME Sound, NEW o \in Ops, FindVolume(o) \/ InspectOwner(o)
  PROVE  Ownership!End(o) \/ Stutters
<1>1. /\ Working(o) /\ UNCHANGED <<volume, request, failed>> /\ o \in failed
  BY DEF FindVolume, InspectOwner, Working, Idle, hostVars, Sound, RequestAgrees, Cleaning
<1>2. PICK s \in {"done", "inspect volume", "remove volume"} : Goto(o, s)
  BY DEF FindVolume, InspectOwner
<1>3. s \in Commands \cup {"done", "killed"}
  BY <1>2 DEF Commands
<1> QED
  BY <1>1, <1>2, <1>3, EndsOrStutters

(* A volume is given up by the restore that created it, which has failed. *)
LEMMA RemoveMaps ==
  ASSUME Sound, NEW o \in Ops, RemoveOwnVolume(o)
  PROVE  Ownership!GiveUp(o, target[o]) \/ Ownership!End(o) \/ Stutters
<1>1. /\ Working(o) /\ Goto(o, "done") /\ UNCHANGED <<request, failed>>
      /\ kind[o] = "restore" /\ o \in failed /\ volume[target[o]] = o
      /\ volume' \in {volume, [volume EXCEPT ![target[o]] = "absent"]}
  BY DEF RemoveOwnVolume, Working, Idle, Sound, RequestAgrees, TokenAgrees, Cleaning, Owned
<1>2. /\ Busy[o] = target[o] /\ o \notin Kept /\ Kept' = Kept
      /\ Busy' = [Busy EXCEPT ![o] = None]
  BY <1>1, CommandMaps DEF Idle
<1>3. CASE UNCHANGED volume
  BY <1>1, <1>3, EndsOrStutters
<1>4. CASE volume' = [volume EXCEPT ![target[o]] = "absent"]
  BY <1>1, <1>2, <1>4 DEF Ownership!GiveUp, Busy, Kept
<1> QED
  BY <1>1, <1>3, <1>4

(* A killed operation has ended, whatever it leaves behind. *)
LEMMA KillMaps ==
  ASSUME Sound, NEW o \in Ops, Kill(o)
  PROVE  Ownership!End(o) \/ Stutters
<1>1. Working(o) /\ Goto(o, "killed") /\ UNCHANGED <<volume, request, failed>>
  BY DEF Kill, hostVars
<1> QED
  BY <1>1, EndsOrStutters

(* Volumes appear and vanish beside as the abstraction allows. *)
LEMMA HostMaps ==
  ASSUME Sound, NEW n \in Names, Host(n)
  PROVE  Ownership!Appear(n) \/ Ownership!Discard(n) \/ Stutters
<1>1. Busy' = Busy /\ Kept' = Kept
  <2>1. UNCHANGED <<kind, target, pc, failed>>
    BY DEF Host, ComposeUp, AppWrites, ComposeStop, ComposeDown, OperatorRemoves, request, opVars
  <2> QED
    BY <2>1 DEF Busy, Kept, Working, Succeeded
<1>2. CASE UNCHANGED volume
  BY <1>1, <1>2 DEF Stutters
<1>3. CASE ComposeUp(n) /\ volume' # volume
  <2>1. volume \in [Names -> {"absent", "foreign"} \cup Ops]
    BY DEF Sound, TypeOK
  <2>2. volume[n] = "absent" /\ volume' = [volume EXCEPT ![n] = "foreign"]
    BY <1>3, <2>1 DEF ComposeUp
  <2> QED
    BY <1>1, <2>2 DEF Ownership!Appear, Busy, Kept
<1>4. CASE OperatorRemoves(n)
  <2>1. \A o \in Ops : Busy[o] # n
    BY <1>4, VolumeAssumption DEF OperatorRemoves, On, Busy
  <2>2. volume' = [volume EXCEPT ![n] = "absent"]
    BY <1>4 DEF OperatorRemoves
  <2> QED
    BY <1>1, <2>1, <2>2 DEF Ownership!Discard, Busy, Kept
<1> QED
  BY <1>2, <1>3, <1>4 DEF Host, AppWrites, ComposeStop, ComposeDown

(* Every docker command is a step of the abstract operation or a stutter. *)
LEMMA CommandIsAbstract ==
  ASSUME Sound, NEW o \in Ops, Command(o)
  PROVE  Ownership!Next \/ Stutters
<1>1. (kind[o] \in {"export", "restore"} /\ target[o] \in Names) \/ pc[o] = "idle"
  BY DEF Sound, RequestAgrees
<1>2. target[o] \in Names
  <2>1. pc[o] # "idle"
    BY DEF Command, Stage, InspectVolume, CheckWriters, VolumeExists, PullHelper, CreateVolume, Own, StartHelper,
       ClientLosesHelper, CleanHelper, Reinspect, LastCheck, Publish, FindVolume, InspectOwner, RemoveOwnVolume,
       Kill, Query, Working, Idle, HelperEnds, Sound, RequestAgrees
  <2> QED
    BY <1>1, <2>1
<1>3. CASE Stage(o)
  <2>1. Working(o) /\ UNCHANGED <<volume, request>>
    BY <1>3 DEF Stage, Working, Idle, hostVars
  <2>2. CASE Fail(o)
    BY <2>1, <2>2, FailMaps DEF Ownership!Next
  <2>3. CASE Goto(o, "exists") /\ UNCHANGED failed
    <3>1. "exists" \in Commands \cup {"done", "killed"}
      BY DEF Commands
    <3> QED
      BY <2>1, <2>3, <3>1, EndsOrStutters DEF Ownership!Next
  <2> QED
    BY <1>3, <2>2, <2>3 DEF Stage
<1>4. CASE InspectVolume(o) \/ CheckWriters(o) \/ VolumeExists(o) \/ PullHelper(o) \/ Own(o) \/ Reinspect(o)
  <2>1. Ownership!End(o) \/ Stutters
    <3>1. CASE InspectVolume(o)
      BY <3>1, QueryMaps DEF InspectVolume, Exists, Commands
    <3>2. CASE CheckWriters(o)
      <4>1. (IF kind[o] = "export" THEN "recheck" ELSE "copy") \in Commands \ {"done"}
        BY DEF Commands, Copying
      <4> QED
        BY <3>2, <4>1, QueryMaps DEF CheckWriters, HasWriter, Commands
    <3>3. CASE VolumeExists(o)
      BY <3>3, QueryMaps DEF VolumeExists, Exists, Commands
    <3>4. CASE PullHelper(o) /\ kind[o] = "export"
      BY <3>4, QueryMaps DEF PullHelper, HasWriter, Commands, Copying
    <3>5. CASE PullHelper(o) /\ kind[o] # "export"
      BY <3>5, QueryMaps DEF PullHelper, Commands
    <3>6. CASE Own(o)
      BY <3>6, QueryMaps DEF Own, IsOwn, Commands
    <3>7. CASE Reinspect(o)
      BY <3>7, QueryMaps DEF Reinspect, Exists, Commands, Copying
    <3> QED
      BY <1>4, <3>1, <3>2, <3>3, <3>4, <3>5, <3>6, <3>7
  <2> QED
    BY <2>1 DEF Ownership!Next
<1>5. CASE CreateVolume(o)
  BY <1>2, <1>5, CreateMaps DEF Ownership!Next
<1>6. CASE StartHelper(o)
  BY <1>2, <1>6, StartMaps DEF Ownership!Next
<1>7. CASE HelperEnds(o) \/ ClientLosesHelper(o)
  BY <1>7, HelperMaps DEF Ownership!Next
<1>8. CASE CleanHelper(o)
  BY <1>8, CleanHelperMaps DEF Ownership!Next
<1>9. CASE LastCheck(o)
  <2>1. Ownership!Keep(o, target[o]) \/ Ownership!End(o) \/ Stutters
    BY <1>9, LastCheckMaps
  <2>2. Ownership!Keep(o, target[o]) => Ownership!Next
    BY <1>2 DEF Ownership!Next, Ownership!Keep
  <2> QED
    BY <2>1, <2>2 DEF Ownership!Next
<1>10. CASE Publish(o)
  BY <1>10, PublishMaps DEF Ownership!Next
<1>11. CASE FindVolume(o) \/ InspectOwner(o)
  BY <1>11, LookingMaps DEF Ownership!Next
<1>12. CASE RemoveOwnVolume(o)
  <2>1. Ownership!GiveUp(o, target[o]) \/ Ownership!End(o) \/ Stutters
    BY <1>12, RemoveMaps
  <2>2. Ownership!GiveUp(o, target[o]) => Ownership!Next
    BY <1>2 DEF Ownership!Next, Ownership!GiveUp
  <2> QED
    BY <2>1, <2>2 DEF Ownership!Next
<1>13. CASE Kill(o)
  BY <1>13, KillMaps DEF Ownership!Next
<1> QED
  BY <1>3, <1>4, <1>5, <1>6, <1>7, <1>8, <1>9, <1>10, <1>11, <1>12, <1>13 DEF Command

(* The initial states agree, *)
LEMMA OwnershipInit == Init => Ownership!Init
  BY DEF Init, Ownership!Init, Working, Idle, Succeeded

(* and every step maps to a step or a stutter. *)
LEMMA OwnershipStep == Sound /\ [Next]_vars => [Ownership!Next]_(Ownership!vars)
<1> SUFFICES ASSUME Sound, [Next]_vars
             PROVE  Ownership!Next \/ Stutters
  BY DEF Ownership!vars, Stutters, Busy, Kept
<1>1. ASSUME NEW o \in Ops, NEW n \in Names, NEW p \in Paths, BeginExport(o, n, p) \/ BeginRestore(o, n, p)
      PROVE  Ownership!Next
  <2>1. Ownership!Begin(o, n)
    BY <1>1, RequestMaps DEF BeginExport, BeginRestore
  <2> QED
    BY <2>1 DEF Ownership!Next
<1>2. ASSUME NEW o \in Ops, Command(o)
      PROVE  Ownership!Next \/ Stutters
  BY <1>2, CommandIsAbstract
<1>3. ASSUME NEW n \in Names, Host(n)
      PROVE  Ownership!Next \/ Stutters
  BY <1>3, HostMaps DEF Ownership!Next
<1>4. CASE UNCHANGED vars
  BY <1>4 DEF Stutters, Busy, Kept, Working, Succeeded, vars, hostVars, request, opVars
<1> QED
  BY <1>1, <1>2, <1>3, <1>4 DEF Next

(* Exports and restores keep what VolumeOwnership promises of the volumes:  *)
(* every docker command, failure and kill is a step of it or leaves it.      *)
THEOREM OwnershipImplemented == Spec => ImplementsOwnership
  BY OwnershipInit, OwnershipStep, AlwaysSound, PTL DEF Spec, ImplementsOwnership, Ownership!Spec
=============================================================================
