------------------------ MODULE AppOperationsProofs ------------------------
(***************************************************************************)
(* What removals leave of an app, and which revision its containers have,   *)
(* for any number of commands, pushes and deployments of the app, each of   *)
(* which may fail or die anywhere.                                          *)
(*                                                                          *)
(* After that the pure functions of Algorithms, but for log text, which is  *)
(* in DeploymentLogProofs: what each of its properties says of the inputs   *)
(* up to a bound holds of inputs of any size.  Folds are unfolded one       *)
(* element at a time first, and then followed by induction.                 *)
(***************************************************************************)
EXTENDS AppOperations, Algorithms, FiniteSetTheorems, SequenceTheorems, WellFoundedInduction, TLAPS

Step ==
  \/ \E w \in Workers : Creates(w) \/ Operates(w) \/ Removes(w) \/ Stops(w)
  \/ Deploys

(* The type of the variables, apart from the two sets of histories. *)
FlagsTyped ==
  /\ record \in BOOLEAN /\ torn \in BOOLEAN /\ mixed \in BOOLEAN
  /\ queued # 0 => record
FilesTyped ==
  /\ repo \in Repos \cup {None}
  /\ worktree \in 0 .. MaxPushes \cup {None}
  /\ containers \in Projects \cup {None}
DaemonTyped ==
  /\ queued \in 0 .. MaxPushes /\ attempt \in 0 .. MaxPushes
  /\ deploy \in DeploySteps
  /\ pushes \in 0 .. MaxPushes
CommandsTyped ==
  /\ pc \in [Workers -> {"idle"} \cup RemovalSteps \cup OperationSteps \cup CreationSteps]
  /\ kind \in [Workers -> Kinds \cup {None}]
  /\ sha \in [Workers -> 0 .. MaxPushes]
  /\ lastRemoval \in {None, "started", "failed", "succeeded"}
  /\ overtaken \subseteq Workers
  /\ started \in 0 .. MaxCommands
  /\ \A w \in Workers : pc[w] = "idle" <=> kind[w] = None

(* The type of all variables is that of its parts. *)
LEMMA TypeParts == TypeOK <=> FlagsTyped /\ FilesTyped /\ DaemonTyped /\ CommandsTyped
BY DEF TypeOK, FlagsTyped, FilesTyped, DaemonTyped, CommandsTyped

(* A command writes what its step says, and nothing else changes. *)
CommandStep(w) ==
  \/ \E k \in Kinds, step \in RemovalSteps \cup OperationSteps \cup CreationSteps :
       Start(w, k, step) /\ UNCHANGED sha
  \/ \E here \in RemovalSteps \cup OperationSteps \cup CreationSteps,
        step \in RemovalSteps \cup OperationSteps \cup CreationSteps :
       /\ Goto(w, here, step)
       /\ UNCHANGED sha \/ (sha' = [sha EXCEPT ![w] = CheckedOutCommit])
  \/ pc[w] # "idle" /\ Ends(w)

(* Every step moves one command, or leaves all of them alone. *)
LEMMA CommandsMove ==
  ASSUME Step
  PROVE  /\ \/ \E w \in Workers : CommandStep(w)
            \/ /\ UNCHANGED <<commandVars, started>>
               /\ overtaken' \in {overtaken, overtaken \cup {w \in Workers : pc[w] # "idle"}}
         /\ \/ UNCHANGED lastRemoval
            \/ lastRemoval' \in {"started", "failed", "succeeded"}
<1>1. ASSUME NEW w \in Workers, Creates(w)
      PROVE  CommandStep(w) /\ UNCHANGED lastRemoval
  <2> QED
    BY <1>1 DEF Creates, BeginCreate, SetupBareRepo, InsertApp, CommandStep, Kinds, CreationSteps
<1>2. ASSUME NEW w \in Workers, Operates(w)
      PROVE  CommandStep(w) /\ UNCHANGED lastRemoval
  <2> QED
    BY <1>2 DEF Operates, StartOrStop, Restart, Exec, RunOneOff, BeginOperation, RecordStart,
       ResolveRuntimeEnv, RunCompose, RecordOutcome, CommandStep, Kinds, OperationSteps
<1>3. ASSUME NEW w \in Workers, Removes(w)
      PROVE  /\ CommandStep(w)
             /\ UNCHANGED lastRemoval \/ lastRemoval' \in {"started", "failed", "succeeded"}
  <2> QED
    BY <1>3 DEF Removes, BeginRemove, RemovalGoes, BeginRemovalAudit, ResolveEntry, ComposeDown,
       RemoveRepo, RemoveWorktree, RemoveAppDir, DeleteApp, Reconcile, RemovalSucceeds,
       RemovalStepFails, RemovalStepBreaksOff, RecordFailure, CommandStep, Kinds, RemovalSteps
<1>4. ASSUME NEW w \in Workers, Stops(w)
      PROVE  CommandStep(w) /\ UNCHANGED lastRemoval
  BY <1>4 DEF Stops, CommandStep
<1>5. CASE Deploys
  BY <1>5 DEF Deploys, Push, Claim, DeployGoes, Overtakes, CheckoutFiles, CheckoutWithoutRepo,
     DetachHead, ComposeUp, DeployStops, commandVars, bounds
<1> QED
  BY <1>1, <1>2, <1>3, <1>4, <1>5 DEF Step

(* Commands keep their types, *)
LEMMA CommandsTypedStep ==
  ASSUME TypeOK, Step
  PROVE  CommandsTyped'
<1> USE AppOperationsAssumption, NoneAssumption, TypeParts
<1>1. lastRemoval' \in {None, "started", "failed", "succeeded"}
  BY CommandsMove DEF CommandsTyped
<1>2. ASSUME NEW w \in Workers, CommandStep(w)
      PROVE  CommandsTyped'
  <2>1. CheckedOutCommit \in 0 .. MaxPushes
    BY DEF CheckedOutCommit, FilesTyped, Repos
  <2>2. ASSUME NEW k \in Kinds, NEW step \in RemovalSteps \cup OperationSteps \cup CreationSteps,
               Start(w, k, step), UNCHANGED sha
        PROVE  CommandsTyped'
    <3>1. started' \in 0 .. MaxCommands
      BY <2>2 DEF CommandsTyped, Start
    <3>2. overtaken' \subseteq Workers /\ sha' \in [Workers -> 0 .. MaxPushes]
      BY <2>2 DEF CommandsTyped, Start
    <3>3. step # "idle" /\ k # None /\ k \in Kinds \cup {None}
      BY <2>2 DEF RemovalSteps, OperationSteps, CreationSteps
    <3>4. /\ pc' \in [Workers -> {"idle"} \cup RemovalSteps \cup OperationSteps \cup CreationSteps]
          /\ kind' \in [Workers -> Kinds \cup {None}]
      BY <2>2, <3>3 DEF CommandsTyped, Start
    <3>5. \A v \in Workers : pc'[v] = "idle" <=> kind'[v] = None
      BY <2>2, <3>3 DEF CommandsTyped, Start
    <3> QED
      BY <1>1, <3>1, <3>2, <3>4, <3>5 DEF CommandsTyped
  <2>3. ASSUME NEW here \in RemovalSteps \cup OperationSteps \cup CreationSteps,
               NEW step \in RemovalSteps \cup OperationSteps \cup CreationSteps,
               Goto(w, here, step),
               UNCHANGED sha \/ sha' = [sha EXCEPT ![w] = CheckedOutCommit]
        PROVE  CommandsTyped'
    BY <1>1, <2>1, <2>3 DEF CommandsTyped, Goto, RemovalSteps, OperationSteps, CreationSteps
  <2>4. CASE pc[w] # "idle" /\ Ends(w)
    BY <1>1, <2>4 DEF CommandsTyped, Ends
  <2> QED
    BY <1>2, <2>2, <2>3, <2>4 DEF CommandStep
<1>3. CASE UNCHANGED <<commandVars, started>>
           /\ overtaken' \in {overtaken, overtaken \cup {w \in Workers : pc[w] # "idle"}}
  BY <1>1, <1>3 DEF CommandsTyped, commandVars
<1> QED
  BY <1>2, <1>3, CommandsMove

(* and so do the files and containers, *)
LEMMA FilesTypedStep ==
  ASSUME TypeOK, Step
  PROVE  FilesTyped'
<1> USE AppOperationsAssumption, NoneAssumption, TypeParts
    DEF FilesTyped, DaemonTyped, CommandsTyped, files
<1>1. ASSUME NEW w \in Workers, Creates(w)
      PROVE  FilesTyped'
  <2>1. [main |-> 0, head |-> 0] \in Repos
    BY DEF Repos
  <2>2. /\ repo' = repo \/ repo' = [main |-> 0, head |-> 0]
        /\ UNCHANGED <<worktree, containers>>
    BY <1>1 DEF Creates, BeginCreate, SetupBareRepo, InsertApp
  <2> QED
    BY <2>1, <2>2
<1>2. ASSUME NEW w \in Workers, Operates(w)
      PROVE  FilesTyped'
  <2>1. CASE RunCompose(w)
    <3>1. [commit |-> worktree, sha |-> sha[w], sure |-> ~torn /\ w \notin overtaken /\ repo # None]
            \in Projects
      BY <2>1 DEF RunCompose, HasComposeFile, Projects
    <3> QED
      BY <2>1, <3>1 DEF RunCompose
  <2>2. CASE ~ RunCompose(w)
    BY <1>2, <2>2 DEF Operates, StartOrStop, Restart, Exec, RunOneOff, BeginOperation, RecordStart,
       ResolveRuntimeEnv, RecordOutcome
  <2> QED
    BY <2>1, <2>2
<1>3. ASSUME NEW w \in Workers, Removes(w)
      PROVE  FilesTyped'
  <2>1. /\ repo' \in {repo, None} /\ worktree' \in {worktree, None, 0}
        /\ containers' \in {containers, None}
    BY <1>3 DEF Removes, BeginRemove, BeginRemovalAudit, ResolveEntry, ComposeDown,
       RemoveRepo, RemoveWorktree, RemoveAppDir, DeleteApp, Reconcile, RemovalSucceeds,
       RemovalStepFails, RemovalStepBreaksOff, RecordFailure
  <2>2. 0 \in 0 .. MaxPushes
    OBVIOUS
  <2> QED
    BY <2>1, <2>2
<1>4. ASSUME NEW w \in Workers, Stops(w)
      PROVE  FilesTyped'
  BY <1>4 DEF Stops
<1>5. CASE Push
  <2>1. repo \in Repos /\ pushes + 1 \in 0 .. MaxPushes
    BY <1>5 DEF Push
  <2>2. repo' = [repo EXCEPT !.main = pushes + 1] /\ UNCHANGED <<worktree, containers>>
    BY <1>5 DEF Push
  <2>3. repo' \in Repos
    BY <2>1, <2>2 DEF Repos
  <2> QED
    BY <2>2, <2>3
<1>6. CASE DetachHead
  <2>1. repo \in Repos
    BY <1>6 DEF DetachHead
  <2>2. repo' = [repo EXCEPT !.head = attempt] /\ UNCHANGED <<worktree, containers>>
    BY <1>6 DEF DetachHead
  <2>3. repo' \in Repos
    BY <2>1, <2>2 DEF Repos
  <2> QED
    BY <2>2, <2>3
<1>7. CASE ComposeUp
  <2>1. [commit |-> worktree, sha |-> attempt, sure |-> TRUE] \in Projects
    BY <1>7 DEF ComposeUp, HasComposeFile, Projects
  <2> QED
    BY <1>7, <2>1 DEF ComposeUp
<1>8. CASE Claim \/ CheckoutFiles \/ CheckoutWithoutRepo \/ DeployStops
  <2>1. worktree' \in {worktree, attempt, 0} /\ UNCHANGED <<repo, containers>>
    BY <1>8 DEF Claim, CheckoutFiles, CheckoutWithoutRepo, DeployStops
  <2>2. 0 \in 0 .. MaxPushes
    OBVIOUS
  <2> QED
    BY <2>1, <2>2
<1> QED
  BY <1>1, <1>2, <1>3, <1>4, <1>5, <1>6, <1>7, <1>8 DEF Step, Deploys

(* and the queue and the deployment. *)
LEMMA DaemonTypedStep ==
  ASSUME TypeOK, Step
  PROVE  DaemonTyped'
<1> USE AppOperationsAssumption, TypeParts DEF DaemonTyped, daemonVars
<1>1. ASSUME NEW w \in Workers, Creates(w)
      PROVE  DaemonTyped'
  BY <1>1 DEF Creates, BeginCreate, SetupBareRepo, InsertApp
<1>2. ASSUME NEW w \in Workers, Operates(w)
      PROVE  DaemonTyped'
  BY <1>2 DEF Operates, StartOrStop, Restart, Exec, RunOneOff, BeginOperation, RecordStart,
     ResolveRuntimeEnv, RunCompose, RecordOutcome
<1>3. ASSUME NEW w \in Workers, Removes(w)
      PROVE  DaemonTyped'
  <2>1. queued' \in {queued, 0} /\ UNCHANGED <<deploy, attempt, pushes>>
    BY <1>3 DEF Removes, BeginRemove, RemovalGoes, BeginRemovalAudit, ResolveEntry, ComposeDown,
       RemoveRepo, RemoveWorktree, RemoveAppDir, DeleteApp, Reconcile, RemovalSucceeds,
       RemovalStepFails, RemovalStepBreaksOff, RecordFailure
  <2> QED
    BY <2>1
<1>4. ASSUME NEW w \in Workers, Stops(w)
      PROVE  DaemonTyped'
  BY <1>4 DEF Stops
<1>5. CASE Deploys
  BY <1>5 DEF Deploys, Push, Claim, DeployGoes, CheckoutFiles, CheckoutWithoutRepo,
     DetachHead, ComposeUp, DeployStops, bounds, DeploySteps
<1> QED
  BY <1>1, <1>2, <1>3, <1>4, <1>5 DEF Step

(* What each step does to the row, to the queue and to the checkout's flag. *)
LEMMA FlagsMove ==
  ASSUME Step
  PROVE  /\ \/ record' = record /\ (queued' = queued \/ queued' = 0 \/ record)
            \/ record' = TRUE
            \/ record' = FALSE /\ queued' = 0
         /\ torn' = torn \/ torn' = TRUE \/ torn' = FALSE
<1> DEFINE Moves ==
      /\ \/ record' = record /\ (queued' = queued \/ queued' = 0 \/ record)
         \/ record' = TRUE
         \/ record' = FALSE /\ queued' = 0
      /\ torn' = torn \/ torn' = TRUE \/ torn' = FALSE
<1> USE DEF files, daemonVars
<1>1. ASSUME NEW w \in Workers, Creates(w)
      PROVE  Moves
  BY <1>1, Zenon DEF Creates, BeginCreate, SetupBareRepo, InsertApp
<1>2. ASSUME NEW w \in Workers, Operates(w)
      PROVE  Moves
  BY <1>2, Zenon DEF Operates, StartOrStop, Restart, Exec, RunOneOff, BeginOperation, RecordStart,
     ResolveRuntimeEnv, RunCompose, RecordOutcome
<1>3. ASSUME NEW w \in Workers, Removes(w)
      PROVE  Moves
  BY <1>3, Zenon DEF Removes, BeginRemove, RemovalGoes, BeginRemovalAudit, ResolveEntry, ComposeDown,
     RemoveRepo, RemoveWorktree, RemoveAppDir, DeleteApp, Reconcile, RemovalSucceeds,
     RemovalStepFails, RemovalStepBreaksOff, RecordFailure
<1>4. ASSUME NEW w \in Workers, Stops(w)
      PROVE  Moves
  BY <1>4, Zenon DEF Stops
<1>5. CASE Push \/ Claim
  BY <1>5, Zenon DEF Push, Claim
<1>6. CASE CheckoutFiles \/ CheckoutWithoutRepo \/ DetachHead \/ ComposeUp \/ DeployStops
  BY <1>6, Zenon DEF CheckoutFiles, CheckoutWithoutRepo, DetachHead, ComposeUp, DeployStops
<1> QED
  BY <1>1, <1>2, <1>3, <1>4, <1>5, <1>6 DEF Step, Deploys

(* Hence every variable does. *)
LEMMA TypeStep == TypeOK /\ [Next]_vars => TypeOK'
<1> SUFFICES ASSUME TypeOK, [Next]_vars
             PROVE  TypeOK'
  OBVIOUS
<1>1. CASE UNCHANGED vars
  BY <1>1 DEF vars, files, daemonVars, commandVars, bounds, TypeOK
<1>2. CASE Next
  <2>1. Step /\ mixed' = (mixed \/ Overlap')
    BY <1>2 DEF Next, Step
  <2>2. mixed' \in BOOLEAN
    BY <2>1, Zenon
  <2>3. record' \in BOOLEAN /\ torn' \in BOOLEAN /\ (queued' # 0 => record')
    BY <2>1, FlagsMove, Zenon DEF TypeOK
  <2>4. FilesTyped' /\ DaemonTyped' /\ CommandsTyped'
    BY <2>1, FilesTypedStep, DaemonTypedStep, CommandsTypedStep
  <2> QED
    BY <2>2, <2>3, <2>4 DEF TypeOK, FilesTyped, DaemonTyped, CommandsTyped
<1> QED
  BY <1>1, <1>2

(* Every variable keeps its type, whatever commands, removals and           *)
(* deployments run beside each other.                                       *)
THEOREM TypeCorrect == Spec => []TypeOK
<1>1. Init => TypeOK
  <2> SUFFICES ASSUME Init PROVE TypeOK
    OBVIOUS
  <2>1. FlagsTyped
    BY Zenon DEF Init, FlagsTyped
  <2>2. FilesTyped /\ DaemonTyped
    BY AppOperationsAssumption DEF Init, FilesTyped, DaemonTyped, DeploySteps
  <2>3. CommandsTyped
    BY AppOperationsAssumption DEF Init, CommandsTyped
  <2> QED
    BY <2>1, <2>2, <2>3, TypeParts
<1> QED
  BY <1>1, TypeStep, PTL DEF Spec

-----------------------------------------------------------------------------
(* Removals. *)

(* What a command does is at a step of its kind. *)
KindAgrees ==
  \A w \in Workers :
    /\ pc[w] \in RemovalSteps => kind[w] = "remove"
    /\ pc[w] \in CreationSteps => kind[w] = "create"
    /\ pc[w] \in OperationSteps => kind[w] \in {"lifecycle", "restart", "exec", "run"}

KindOf(step, k) ==
  /\ step \in RemovalSteps => k = "remove"
  /\ step \in CreationSteps => k = "create"
  /\ step \in OperationSteps => k \in {"lifecycle", "restart", "exec", "run"}

(* A command stays of its kind until it ends. *)
LEMMA OthersGoOn ==
  ASSUME CommandsTyped, NEW w \in Workers, CommandStep(w)
  PROVE  \A v \in Workers \ {w} : kind'[v] = kind[v] /\ pc'[v] = pc[v]
BY DEF CommandsTyped, CommandStep, Start, Goto, Ends

(* What a process does is a step of its command. *)
LEMMA CommandsAreWorkers ==
  ASSUME NEW w \in Workers, Creates(w) \/ Operates(w) \/ Removes(w) \/ Stops(w)
  PROVE  CommandStep(w)
<1>1. CASE Creates(w)
  BY <1>1 DEF Creates, BeginCreate, SetupBareRepo, InsertApp, CommandStep, Kinds, CreationSteps
<1>2. CASE Operates(w)
  BY <1>2 DEF Operates, StartOrStop, Restart, Exec, RunOneOff, BeginOperation, RecordStart,
     ResolveRuntimeEnv, RunCompose, RecordOutcome, CommandStep, Kinds, OperationSteps
<1>3. CASE Removes(w)
  BY <1>3 DEF Removes, BeginRemove, RemovalGoes, BeginRemovalAudit, ResolveEntry, ComposeDown,
     RemoveRepo, RemoveWorktree, RemoveAppDir, DeleteApp, Reconcile, RemovalSucceeds,
     RemovalStepFails, RemovalStepBreaksOff, RecordFailure, CommandStep, Kinds, RemovalSteps
<1>4. CASE Stops(w)
  BY <1>4 DEF Stops, CommandStep
<1> QED
  BY <1>1, <1>2, <1>3, <1>4

(* A command stays at steps of its kind. *)
LEMMA KindStep ==
  ASSUME CommandsTyped, KindAgrees, Step
  PROVE  KindAgrees'
<1> USE DEF CommandsTyped
<1>1. ASSUME NEW w \in Workers, Creates(w) \/ Operates(w) \/ Removes(w) \/ Stops(w)
      PROVE  KindAgrees'
  <2>1. \A v \in Workers \ {w} : kind'[v] = kind[v] /\ pc'[v] = pc[v]
    BY <1>1, OthersGoOn, CommandsAreWorkers
  <2> USE DEF Start, Goto, Ends, RemovalSteps, CreationSteps, OperationSteps
  <2>2. ASSUME Creates(w)
        PROVE  KindOf(pc'[w], kind'[w])
    BY <2>2 DEF Creates, BeginCreate, SetupBareRepo, InsertApp, KindOf, KindAgrees
  <2>3. ASSUME Operates(w)
        PROVE  KindOf(pc'[w], kind'[w])
    BY <2>3 DEF Operates, StartOrStop, Restart, Exec, RunOneOff, BeginOperation, RecordStart,
       ResolveRuntimeEnv, RunCompose, RecordOutcome, KindOf, KindAgrees
  <2>4. ASSUME Removes(w)
        PROVE  KindOf(pc'[w], kind'[w])
    BY <2>4 DEF Removes, BeginRemove, RemovalGoes, BeginRemovalAudit, ResolveEntry, ComposeDown,
       RemoveRepo, RemoveWorktree, RemoveAppDir, DeleteApp, Reconcile, RemovalSucceeds,
       RemovalStepFails, RemovalStepBreaksOff, RecordFailure, KindOf, KindAgrees
  <2>5. ASSUME Stops(w)
        PROVE  KindOf(pc'[w], kind'[w])
    BY <2>5 DEF Stops, KindOf, KindAgrees
  <2> QED
    <3>1. KindOf(pc'[w], kind'[w])
      BY <1>1, <2>2, <2>3, <2>4, <2>5
    <3>2. \A v \in Workers : KindOf(pc'[v], kind'[v])
      BY <2>1, <3>1 DEF KindAgrees, KindOf
    <3> QED
      BY <3>2 DEF KindAgrees, KindOf
<1>2. CASE Deploys
  <2>1. UNCHANGED <<pc, kind>>
    BY <1>2 DEF Deploys, Push, Claim, DeployGoes, CheckoutFiles, CheckoutWithoutRepo,
       DetachHead, ComposeUp, DeployStops, commandVars
  <2> QED
    BY <2>1 DEF KindAgrees
<1> QED
  BY <1>1, <1>2 DEF Step

(* Nothing that creates runs beside a removal. *)
Apart ==
  \A w \in Workers : kind[w] = "remove" =>
    deploy = "idle" /\ \A v \in Workers : kind[v] \notin {"create", "run"}

Told == {"started", "failed"}

(* How far a removal is, and what is gone by then; a name without a row has *)
(* nothing that could bring it back but a creation.                         *)
RemovalAt(w) ==
  /\ pc[w] \in {"remove repo", "remove worktree", "remove dir", "delete"} => containers = None
  /\ pc[w] \in {"remove dir", "delete"} => worktree = None
  /\ pc[w] \in {"reconcile", "succeed"} => ~record
  /\ pc[w] \in RemovalSteps \ {"audit", "reconcile", "succeed"} /\ record => lastRemoval \in Told
  /\ pc[w] = "insert" => repo # None
GoneIsQuiet ==
  ~record => /\ containers = None /\ worktree = None /\ deploy = "idle"
             /\ \A w \in Workers : kind[w] # "run"
HalfIsTold == record /\ repo = None => lastRemoval \in Told
Orderly == Apart /\ GoneIsQuiet /\ HalfIsTold /\ \A w \in Workers : RemovalAt(w)

(* A repository is never None, whatever is written to it. *)
LEMMA ReposAreNotNone ==
  /\ [main |-> 0, head |-> 0] # None
  /\ \A refs \in Repos, c \in 0 .. MaxPushes :
       [refs EXCEPT !.main = c] # None /\ [refs EXCEPT !.head = c] # None
<1>1. [main |-> 0, head |-> 0] \in Repos
  BY AppOperationsAssumption DEF Repos
<1>2. ASSUME NEW refs \in Repos, NEW c \in 0 .. MaxPushes
      PROVE  [refs EXCEPT !.main = c] \in Repos /\ [refs EXCEPT !.head = c] \in Repos
  BY <1>2 DEF Repos
<1> QED
  BY <1>1, <1>2, NoneAssumption

(* A push within the bound makes a commit. *)
LEMMA PushedIsCommit ==
  ASSUME DaemonTyped, pushes < MaxPushes
  PROVE  pushes + 1 \in 0 .. MaxPushes
BY AppOperationsAssumption DEF DaemonTyped

(* Steps beside which nothing creates keep removals orderly. *)
LEMMA OrderlyStep ==
  ASSUME TypeOK, KindAgrees, Orderly, Step, Apart'
  PROVE  Orderly'
<1> USE NoneAssumption
    DEF Kinds, TypeOK, KindAgrees, Orderly, Apart, GoneIsQuiet, HalfIsTold, RemovalAt, Told,
        files, daemonVars, Goto, Start, Ends, RemovalSteps, CreationSteps, OperationSteps
<1>1. ASSUME NEW w \in Workers, Creates(w)
      PROVE  Orderly'
  <2>1. CASE BeginCreate(w)
    BY <2>1 DEF BeginCreate
  <2>2. CASE SetupBareRepo(w)
    <3>1. [main |-> 0, head |-> 0] # None
      BY ReposAreNotNone
    <3> QED
      BY <2>2, <3>1 DEF SetupBareRepo
  <2>3. CASE InsertApp(w)
    BY <2>3 DEF InsertApp
  <2> QED
    BY <1>1, <2>1, <2>2, <2>3 DEF Creates
<1>2. ASSUME NEW w \in Workers, Operates(w)
      PROVE  Orderly'
  <2>1. CASE RunCompose(w)
    BY <2>1 DEF RunCompose
  <2>2. ASSUME NEW k \in {"lifecycle", "restart", "exec", "run"}, BeginOperation(w, k)
        PROVE  Orderly'
    BY <2>2 DEF BeginOperation
  <2>3. CASE RecordStart(w)
    BY <2>3 DEF RecordStart
  <2>4. CASE ResolveRuntimeEnv(w)
    BY <2>4 DEF ResolveRuntimeEnv
  <2>5. CASE RecordOutcome(w)
    BY <2>5 DEF RecordOutcome
  <2> QED
    BY <1>2, <2>1, <2>2, <2>3, <2>4, <2>5 DEF Operates, StartOrStop, Restart, Exec, RunOneOff
<1>3. ASSUME NEW w \in Workers, Removes(w)
      PROVE  Orderly'
  <2> USE DEF RemovalGoes
  <2>1. CASE BeginRemove(w)
    BY <2>1 DEF BeginRemove
  <2>2. CASE BeginRemovalAudit(w)
    BY <2>2 DEF BeginRemovalAudit
  <2>3. CASE ResolveEntry(w)
    BY <2>3 DEF ResolveEntry
  <2>11. CASE ComposeDown(w)
    BY <2>11 DEF ComposeDown
  <2>4. CASE RemoveRepo(w)
    BY <2>4 DEF RemoveRepo
  <2>5. CASE RemoveWorktree(w)
    BY <2>5 DEF RemoveWorktree
  <2>6. CASE RemoveAppDir(w)
    BY <2>6 DEF RemoveAppDir
  <2>7. CASE DeleteApp(w)
    BY <2>7 DEF DeleteApp
  <2>8. CASE Reconcile(w)
    BY <2>8 DEF Reconcile
  <2>12. CASE RemovalSucceeds(w)
    BY <2>12 DEF RemovalSucceeds
  <2>9. CASE RemovalStepFails(w)
    BY <2>9 DEF RemovalStepFails
  <2>13. CASE RecordFailure(w)
    BY <2>13 DEF RecordFailure
  <2>10. CASE RemovalStepBreaksOff(w)
    BY <2>10 DEF RemovalStepBreaksOff
  <2> QED
    BY <1>3, <2>1, <2>2, <2>3, <2>4, <2>5, <2>6, <2>7, <2>8, <2>9, <2>10, <2>11,
       <2>12, <2>13 DEF Removes
<1>4. ASSUME NEW w \in Workers, Stops(w)
      PROVE  Orderly'
  BY <1>4 DEF Stops
<1>5. CASE Deploys
  <2> USE DEF DeployGoes, commandVars
  <2>1. CASE Push
    <3>1. [repo EXCEPT !.main = pushes + 1] # None
      <4>1. repo \in Repos /\ pushes + 1 \in 0 .. MaxPushes
        BY <2>1, TypeParts, PushedIsCommit DEF Push, FilesTyped
      <4> QED
        BY <4>1, ReposAreNotNone
    <3> QED
      BY <2>1, <3>1 DEF Push
  <2>2. CASE Claim
    BY <2>2 DEF Claim
  <2>3. CASE CheckoutFiles \/ CheckoutWithoutRepo
    BY <2>3 DEF CheckoutFiles, CheckoutWithoutRepo
  <2>4. CASE DetachHead
    <3>1. [repo EXCEPT !.head = attempt] # None
      BY <2>4, ReposAreNotNone DEF DetachHead
    <3> QED
      BY <2>4, <3>1 DEF DetachHead
  <2>5. CASE ComposeUp \/ DeployStops
    BY <2>5 DEF ComposeUp, DeployStops
  <2> QED
    BY <1>5, <2>1, <2>2, <2>3, <2>4, <2>5 DEF Deploys
<1> QED
  BY <1>1, <1>2, <1>3, <1>4, <1>5 DEF Step

Removals == TypeOK /\ KindAgrees /\ (mixed \/ Orderly)

(* Either something has run beside a removal, or all is orderly. *)
LEMMA RemovalsStep == Removals /\ [Next]_vars => Removals'
<1> SUFFICES ASSUME Removals, [Next]_vars
             PROVE  Removals'
  OBVIOUS
<1>1. TypeOK'
  BY TypeStep DEF Removals
<1>2. CASE UNCHANGED vars
  <2>1. KindAgrees' /\ (mixed' \/ Orderly')
    BY <1>2 DEF vars, files, daemonVars, commandVars, bounds, Removals, KindAgrees, Orderly, Apart,
       GoneIsQuiet, HalfIsTold, RemovalAt
  <2> QED
    BY <1>1, <2>1 DEF Removals
<1>3. CASE Next
  <2>1. Step /\ mixed' = (mixed \/ Overlap')
    BY <1>3 DEF Next, Step
  <2>2. KindAgrees'
    BY <2>1, KindStep, TypeParts DEF Removals
  <2>3. ASSUME ~ mixed'
        PROVE  Orderly'
    <3>1. ~ mixed /\ ~ Overlap'
      BY <2>1, <2>3
    <3>2. Apart'
      BY <3>1 DEF Apart, Overlap, Busy
    <3> QED
      BY <2>1, <3>1, <3>2, OrderlyStep DEF Removals
  <2> QED
    BY <1>1, <2>2, <2>3 DEF Removals
<1> QED
  BY <1>2, <1>3

(* This holds in every behaviour. *)
LEMMA AlwaysRemovals == Spec => []Removals
<1>1. Init /\ TypeOK => Removals
  <2> SUFFICES ASSUME Init PROVE KindAgrees /\ Orderly
    BY DEF Removals
  <2>1. pc = [w \in Workers |-> "idle"] /\ kind = [w \in Workers |-> None] /\ None \notin Kinds
    BY NoneAssumption DEF Init
  <2>2. KindAgrees
    BY <2>1 DEF KindAgrees, RemovalSteps, CreationSteps, OperationSteps
  <2>3. Apart /\ \A w \in Workers : RemovalAt(w)
    BY <2>1 DEF Apart, RemovalAt, Kinds, RemovalSteps
  <2>4. GoneIsQuiet
    BY <2>1 DEF Init, GoneIsQuiet, Kinds
  <2>5. HalfIsTold
    BY DEF Init, HalfIsTold
  <2> QED
    BY <2>2, <2>3, <2>4, <2>5 DEF Orderly
<1> QED
  BY <1>1, TypeCorrect, RemovalsStep, PTL DEF Spec

(* A removal, wherever it failed or died and however often it was repeated  *)
(* or overlapped by another, has taken all that runs of the app before its  *)
(* row goes, and as long as the row is there without its repository the     *)
(* last removal is recorded as started or failed; only what creates beside  *)
(* it (a deployment, `apps run`, a creation) is not covered.                *)
THEOREM RemovalsWholeOrTold == Spec => []RemovalIsWholeOrTold
<1>1. Removals => RemovalIsWholeOrTold
  BY DEF Removals, Orderly, GoneIsQuiet, HalfIsTold, Told, RemovalIsWholeOrTold, GoneAppRunsNothing,
     HalfRemovedIsTold
<1> QED
  BY <1>1, AlwaysRemovals, PTL

-----------------------------------------------------------------------------
(* Revisions. *)

(* Commands that a deployment runs beside know it, in the history. *)
OvertakenAgrees ==
  deploy # "idle" => \A w \in Workers : pc[w] # "idle" => w \in overtaken

(* A deployment overtakes what runs when it begins, and what begins later. *)
LEMMA OvertakenStep ==
  ASSUME CommandsTyped, OvertakenAgrees, Step
  PROVE  OvertakenAgrees'
<1> USE DEF CommandsTyped, OvertakenAgrees
<1>1. ASSUME NEW w \in Workers, Creates(w) \/ Operates(w) \/ Removes(w) \/ Stops(w)
      PROVE  OvertakenAgrees'
  <2>1. CommandStep(w)
    BY <1>1, CommandsAreWorkers
  <2>2. deploy' = deploy
    BY <1>1 DEF Creates, BeginCreate, SetupBareRepo, InsertApp, Operates, StartOrStop, Restart, Exec,
       RunOneOff, BeginOperation, RecordStart, ResolveRuntimeEnv, RunCompose, RecordOutcome, Removes,
       BeginRemove, RemovalGoes, BeginRemovalAudit, ResolveEntry, ComposeDown, RemoveRepo,
       RemoveWorktree, RemoveAppDir, DeleteApp, Reconcile, RemovalSucceeds, RemovalStepFails,
       RemovalStepBreaksOff, RecordFailure, Stops, daemonVars
  <2> QED
    BY <2>1, <2>2 DEF CommandStep, Start, Goto, Ends, RemovalSteps, CreationSteps, OperationSteps
<1>2. CASE Claim
  BY <1>2 DEF Claim, Overtakes, DeployGoes, commandVars
<1>3. CASE Push \/ CheckoutFiles \/ CheckoutWithoutRepo \/ DetachHead \/ ComposeUp \/ DeployStops
  BY <1>3 DEF Push, CheckoutFiles, CheckoutWithoutRepo, DetachHead, ComposeUp, DeployStops, DeployGoes,
     commandVars
<1> QED
  BY <1>1, <1>2, <1>3 DEF Step, Deploys

(* Unless a checkout is torn, HEAD is the commit of the files; *)
HeadAgrees == ~torn /\ repo # None /\ worktree \in Commits => repo.head = worktree
CheckoutAgrees == deploy \in {"head", "up"} => worktree = attempt

(* a command that nothing overtook has the environment of these files, and  *)
(* a repository is never set up a second time under the row.                *)
RunsAtHead(w) ==
  kind[w] = "run" /\ pc[w] = "compose" /\ w \notin overtaken /\ ~torn /\ repo # None
    /\ worktree \in Commits => sha[w] = worktree
SetUpOnce(w) == pc[w] = "set up" /\ record => repo # None
ContainersAgree ==
  containers # None /\ containers.sure => containers.sha = containers.commit

Bound ==
  /\ HeadAgrees /\ CheckoutAgrees /\ ContainersAgree
  /\ \A w \in Workers : RunsAtHead(w) /\ SetUpOnce(w)

(* Neither an absent worktree nor an empty one has a commit. *)
LEMMA NoCommits == None \notin Commits /\ 0 \notin Commits
BY NoneAssumption, AppOperationsAssumption DEF Commits

(* A repository is set up only where no files are. *)
LEMMA BoundByCreation ==
  ASSUME FilesTyped, CommandsTyped, KindAgrees, Orderly, Bound, NEW w \in Workers, Creates(w)
  PROVE  Bound'
<1> USE DEF CommandsTyped, Bound, HeadAgrees, CheckoutAgrees, ContainersAgree, RunsAtHead, SetUpOnce, files,
        daemonVars
<1>1. CASE BeginCreate(w)
  BY <1>1 DEF BeginCreate, Start
<1>2. CASE SetupBareRepo(w)
  <2>5. None \notin Commits
    BY NoCommits
  <2>1. repo = None => ~record /\ worktree = None /\ None \notin Commits
    BY <1>2, <2>5 DEF SetupBareRepo, Goto, Orderly, GoneIsQuiet
  <2>2. repo' # None
    BY <1>2, ReposAreNotNone DEF SetupBareRepo
  <2>3. UNCHANGED <<record, worktree, torn, containers, deploy, attempt, sha, kind, overtaken>>
    BY <1>2 DEF SetupBareRepo, Goto
  <2>4. pc' = [pc EXCEPT ![w] = "insert"] /\ (repo = None \/ repo' = repo)
    BY <1>2 DEF SetupBareRepo, Goto
  <2> QED
    BY <2>1, <2>2, <2>3, <2>4
<1>3. CASE InsertApp(w)
  <2>1. repo # None
    BY <1>3 DEF InsertApp, Orderly, RemovalAt
  <2> QED
    BY <1>3, <2>1 DEF InsertApp, Ends
<1> QED
  BY <1>1, <1>2, <1>3 DEF Creates

(* A command resolves HEAD, and what it creates has the files of HEAD. *)
LEMMA BoundByOperation ==
  ASSUME FilesTyped, CommandsTyped, KindAgrees, Orderly, Bound, NEW w \in Workers, Operates(w)
  PROVE  Bound'
<1> USE DEF CommandsTyped, Bound, HeadAgrees, CheckoutAgrees, RunsAtHead, SetUpOnce, files, daemonVars
<1>1. CASE RunCompose(w)
  <2>1. /\ UNCHANGED <<record, repo, worktree, torn, deploy, attempt, sha, kind, overtaken>>
        /\ pc[w] = "compose" /\ pc' = [pc EXCEPT ![w] = "outcome"] /\ worktree \in Commits
        /\ \/ containers' = containers
           \/ /\ kind[w] = "run"
              /\ containers' = [commit |-> worktree, sha |-> sha[w],
                                sure |-> ~torn /\ w \notin overtaken /\ repo # None]
    BY <1>1 DEF RunCompose, Goto, HasComposeFile
  <2>2. CASE containers' = containers
    BY <2>1, <2>2 DEF ContainersAgree
  <2>3. ASSUME kind[w] = "run",
               containers' = [commit |-> worktree, sha |-> sha[w],
                              sure |-> ~torn /\ w \notin overtaken /\ repo # None]
        PROVE  Bound'
    <3>1. /\ containers'.commit = worktree /\ containers'.sha = sha[w]
          /\ containers'.sure = (~torn /\ w \notin overtaken /\ repo # None)
      BY <2>3, Zenon
    <3>2. ContainersAgree'
      BY <2>1, <2>3, <3>1, Zenon DEF ContainersAgree
    <3> QED
      BY <2>1, <3>2
  <2> QED
    BY <2>1, <2>2, <2>3
<1>2. CASE ResolveRuntimeEnv(w)
  <2>1. /\ UNCHANGED <<record, repo, worktree, torn, containers, deploy, attempt, kind, overtaken>>
        /\ pc' = [pc EXCEPT ![w] = "compose"] /\ sha' = [sha EXCEPT ![w] = CheckedOutCommit]
    BY <1>2 DEF ResolveRuntimeEnv, Goto
  <2> QED
    BY <2>1 DEF CheckedOutCommit, ContainersAgree
<1>3. ASSUME NEW k, BeginOperation(w, k)
      PROVE  Bound'
  BY <1>3 DEF BeginOperation, Start, ContainersAgree
<1>4. CASE RecordStart(w)
  BY <1>4 DEF RecordStart, Goto, ContainersAgree
<1>5. CASE RecordOutcome(w)
  BY <1>5 DEF RecordOutcome, Ends, ContainersAgree
<1> QED
  BY <1>1, <1>2, <1>3, <1>4, <1>5 DEF Operates, StartOrStop, Restart, Exec, RunOneOff

(* Beside a removal nothing runs that the removed files could mislead. *)
LEMMA BoundByRemoval ==
  ASSUME FilesTyped, CommandsTyped, KindAgrees, Orderly, Bound, NEW w \in Workers, Removes(w),
         Apart'
  PROVE  Bound'
<1>1. CommandStep(w) /\ \A v \in Workers \ {w} : kind'[v] = kind[v] /\ pc'[v] = pc[v]
  BY CommandsAreWorkers, OthersGoOn
<1>2. CASE BeginRemove(w)
  BY <1>2 DEF BeginRemove, Start, CommandsTyped, Bound, HeadAgrees, CheckoutAgrees, ContainersAgree,
     RunsAtHead, SetUpOnce, files, daemonVars
<1>3. CASE ~ BeginRemove(w)
  <2>1. pc[w] \in RemovalSteps /\ kind[w] = "remove" /\ (kind'[w] = "remove" \/ pc'[w] = "idle")
    BY <1>3 DEF Removes, RemovalGoes, BeginRemovalAudit, ResolveEntry, ComposeDown, RemoveRepo,
       RemoveWorktree, RemoveAppDir, DeleteApp, Reconcile, RemovalSucceeds, RemovalStepFails,
       RemovalStepBreaksOff, RecordFailure, Goto, Ends, RemovalSteps, CommandsTyped, KindAgrees
  <2>2. deploy = "idle" /\ \A v \in Workers : kind[v] \notin {"create", "run"}
    BY <2>1 DEF Orderly, Apart
  <2>3. \A v \in Workers : pc[v] # "set up" /\ (kind[v] = "run" => FALSE)
    BY <2>2 DEF KindAgrees, CreationSteps
  <2>4. /\ deploy' = deploy /\ containers' \in {containers, None}
        /\ \/ repo' = None
           \/ repo' = repo /\ worktree' = worktree /\ torn' = torn
           \/ repo' = repo /\ worktree' \in {None, 0}
    BY <1>3 DEF Removes, RemovalGoes, BeginRemovalAudit, ResolveEntry, ComposeDown, RemoveRepo,
       RemoveWorktree, RemoveAppDir, DeleteApp, Reconcile, RemovalSucceeds, RemovalStepFails,
       RemovalStepBreaksOff, RecordFailure, files, daemonVars
  <2>5. None \notin Commits /\ 0 \notin Commits
    BY NoCommits
  <2>6. HeadAgrees' /\ CheckoutAgrees'
    BY <2>2, <2>4, <2>5 DEF Bound, HeadAgrees, CheckoutAgrees
  <2>7. ContainersAgree'
    BY <2>4 DEF Bound, ContainersAgree
  <2>8. \A v \in Workers : pc'[v] # "set up" /\ ~ (kind'[v] = "run" /\ pc'[v] = "compose")
    <3>1. pc'[w] # "set up" /\ ~ (kind'[w] = "run" /\ pc'[w] = "compose")
      BY <1>1, <1>3, <2>1 DEF RemovalGoes, Removes, BeginRemovalAudit, ResolveEntry, ComposeDown,
         RemoveRepo, RemoveWorktree, RemoveAppDir, DeleteApp, Reconcile, RemovalSucceeds,
         RemovalStepFails, RemovalStepBreaksOff, RecordFailure, Goto, Ends, RemovalSteps, CommandsTyped
    <3> QED
      BY <1>1, <2>3, <3>1
  <2> QED
    BY <2>6, <2>7, <2>8 DEF Bound, RunsAtHead, SetUpOnce
<1> QED
  BY <1>2, <1>3

(* A deployment writes the files first, then HEAD, then the containers. *)
LEMMA BoundByDeployment ==
  ASSUME FilesTyped, DaemonTyped, CommandsTyped, Orderly, Bound, OvertakenAgrees, Deploys
  PROVE  Bound'
<1> USE DEF CommandsTyped, Bound, HeadAgrees, CheckoutAgrees, RunsAtHead, SetUpOnce, files,
        DeployGoes, commandVars
<1>1. CASE Push
  <2>1. repo \in Repos /\ pushes + 1 \in 0 .. MaxPushes
    BY <1>1, PushedIsCommit DEF Push, FilesTyped
  <2>2. repo'.head = repo.head /\ repo' # None
    BY <1>1, <2>1, ReposAreNotNone DEF Push, Repos
  <2>3. UNCHANGED <<record, worktree, torn, containers, deploy, attempt, pc, kind, sha, overtaken>>
        /\ repo # None
    BY <1>1 DEF Push
  <2> QED
    BY <2>2, <2>3 DEF ContainersAgree
<1>2. CASE Claim
  BY <1>2 DEF Claim, Overtakes, ContainersAgree
<1>3. CASE CheckoutFiles
  BY <1>3 DEF CheckoutFiles, ContainersAgree
<1>4. CASE CheckoutWithoutRepo
  BY <1>4 DEF CheckoutWithoutRepo, ContainersAgree
<1>5. CASE DetachHead
  <2>1. repo \in Repos /\ attempt \in 0 .. MaxPushes /\ worktree = attempt /\ deploy = "head"
    BY <1>5 DEF DetachHead, FilesTyped, DaemonTyped
  <2>2. repo' # None /\ repo'.head = attempt
    BY <1>5, <2>1, ReposAreNotNone DEF DetachHead, Repos
  <2>3. \A w \in Workers : pc[w] # "idle" => w \in overtaken
    BY <2>1 DEF OvertakenAgrees
  <2>4. UNCHANGED <<record, worktree, containers, attempt, pc, kind, sha, overtaken>>
    BY <1>5 DEF DetachHead
  <2> QED
    BY <2>1, <2>2, <2>3, <2>4 DEF ContainersAgree
<1>6. CASE ComposeUp
  <2>1. /\ UNCHANGED <<record, repo, worktree, torn, pc, kind, sha, overtaken>> /\ worktree = attempt
        /\ deploy' = "idle" /\ containers' = [commit |-> worktree, sha |-> attempt, sure |-> TRUE]
    BY <1>6 DEF ComposeUp
  <2> QED
    BY <2>1 DEF ContainersAgree
<1>7. CASE DeployStops
  BY <1>7 DEF DeployStops, ContainersAgree
<1> QED
  BY <1>1, <1>2, <1>3, <1>4, <1>5, <1>6, <1>7 DEF Deploys

(* So every step keeps files, HEAD and containers in agreement, *)
LEMMA BoundStep ==
  ASSUME TypeOK, KindAgrees, Orderly, Bound, OvertakenAgrees, Step, Apart'
  PROVE  Bound'
<1>1. FilesTyped /\ DaemonTyped /\ CommandsTyped
  BY TypeParts
<1>2. ASSUME NEW w \in Workers, Stops(w)
      PROVE  Bound'
  BY <1>1, <1>2 DEF Stops, Ends, CommandsTyped, Bound, HeadAgrees, CheckoutAgrees, RunsAtHead, SetUpOnce,
     ContainersAgree, files, daemonVars
<1> QED
  BY <1>1, <1>2, BoundByCreation, BoundByOperation, BoundByRemoval, BoundByDeployment DEF Step

Revisions == Removals /\ OvertakenAgrees /\ (mixed \/ Bound)

(* unless something has run beside a removal. *)
LEMMA RevisionsStep == Revisions /\ [Next]_vars => Revisions'
<1> SUFFICES ASSUME Revisions, [Next]_vars
             PROVE  Revisions'
  OBVIOUS
<1>1. Removals'
  BY RemovalsStep DEF Revisions
<1>2. CASE UNCHANGED vars
  <2>1. OvertakenAgrees' /\ (mixed' \/ Bound')
    BY <1>2 DEF vars, files, daemonVars, commandVars, bounds, Revisions, OvertakenAgrees, Bound,
       HeadAgrees, CheckoutAgrees, ContainersAgree, RunsAtHead, SetUpOnce
  <2> QED
    BY <1>1, <2>1 DEF Revisions
<1>3. CASE Next
  <2>1. Step /\ mixed' = (mixed \/ Overlap')
    BY <1>3 DEF Next, Step
  <2>2. OvertakenAgrees'
    BY <2>1, OvertakenStep, TypeParts DEF Revisions, Removals
  <2>3. ASSUME ~ mixed'
        PROVE  Bound'
    <3>1. ~ mixed /\ ~ Overlap'
      BY <2>1, <2>3
    <3>2. Apart'
      BY <3>1 DEF Apart, Overlap, Busy
    <3> QED
      BY <2>1, <3>1, <3>2, BoundStep DEF Revisions, Removals
  <2> QED
    BY <1>1, <2>2, <2>3 DEF Revisions
<1> QED
  BY <1>2, <1>3

(* Containers that nothing overtook were created with the revision of the   *)
(* files they were created from as SSHDOCK_GIT_SHA, whatever main is at and *)
(* wherever deployments, removals and commands broke off before.            *)
THEOREM RevisionsBound == Spec => []RevisionIsBound
<1>1. Init /\ Removals => Revisions
  BY DEF Init, Revisions, OvertakenAgrees, Bound, HeadAgrees, CheckoutAgrees, ContainersAgree,
     RunsAtHead, SetUpOnce
<1>2. Revisions => RevisionIsBound
  BY DEF Revisions, Bound, ContainersAgree, RevisionIsBound
<1> QED
  BY <1>1, <1>2, AlwaysRemovals, RevisionsStep, PTL DEF Spec

-----------------------------------------------------------------------------
(* Induction, by the smallest counterexample, and folds over 1 .. N. *)

LEMMA LeastNatural ==
  ASSUME NEW X \in SUBSET Nat, X # {}
  PROVE  \E n \in X : \A m \in X : n <= m
<1>1. IsWellFoundedOn(OpToRel(<, Nat), Nat)
  BY NatLessThanWellFounded
<1>2. PICK n \in X : \A m \in X : ~(<<m, n>> \in OpToRel(<, Nat))
  BY <1>1, WFMin
<1>3. \A m \in X : m \in Nat /\ n \in Nat
  OBVIOUS
<1>4. ASSUME NEW m \in X
      PROVE  ~(m < n)
  BY <1>2, <1>3 DEF OpToRel
<1> QED
  BY <1>3, <1>4

LEMMA ByInduction ==
  ASSUME NEW N \in Nat, NEW X, 0 \in X, \A n \in 0 .. N - 1 : n \in X => n + 1 \in X
  PROVE  N \in X
<1> DEFINE Y == {n \in 0 .. N : n \notin X}
<1>1. SUFFICES ASSUME Y # {} PROVE FALSE
  <2>1. Y = {} => N \in X
    OBVIOUS
  <2> QED
    BY <2>1
<1>2. PICK n \in Y : \A m \in Y : n <= m
  <2> Y \in SUBSET Nat
    OBVIOUS
  <2> HIDE DEF Y
  <2> QED
    BY <1>1, LeastNatural
<1>3. n \in 0 .. N /\ n \notin X /\ n # 0
  OBVIOUS
<1>4. n - 1 \in 0 .. N - 1 /\ n - 1 \notin Y
  BY <1>2, <1>3
<1>5. n - 1 \in X
  BY <1>4
<1>6. (n - 1) + 1 \in X
  BY <1>4, <1>5
<1> QED
  BY <1>3, <1>6

LEMMA MaxOfTop ==
  ASSUME NEW n \in Nat, n > 0
  PROVE  Max(1 .. n) = n /\ (1 .. n) \ {n} = 1 .. n - 1 /\ 1 .. n # {}
<1>1. \A m \in 1 .. n : (\A y \in 1 .. n : m >= y) <=> m = n
  OBVIOUS
<1>2. Max(1 .. n) = n
  BY <1>1 DEF Max
<1> QED
  BY <1>2

LEMMA MaxOfPart ==
  ASSUME NEW N \in Nat, NEW S \in SUBSET (1 .. N), S # {}
  PROVE  Max(S) \in S
<1> DEFINE X == {x \in 0 .. N : N - x \in S}
<1>1. X \in SUBSET Nat /\ X # {}
  <2>1. PICK i \in S : TRUE
    OBVIOUS
  <2>2. PICK x : x = N - i
    OBVIOUS
  <2>3. x \in 0 .. N /\ N - x = i
    BY <2>2
  <2> QED
    BY <2>3
<1>2. PICK x \in X : \A y \in X : x <= y
  <2> HIDE DEF X
  <2> QED
    BY <1>1, LeastNatural
<1>3. ASSUME NEW j \in S
      PROVE  N - x >= j
  <2>1. N - j \in 0 .. N /\ N - (N - j) = j
    OBVIOUS
  <2>2. N - j \in X
    BY <2>1
  <2> QED
    BY <1>2, <2>2
<1>4. \E m \in S : \A j \in S : m >= j
  BY <1>3
<1> QED
  BY <1>4 DEF Max

(* Each set of indices is folded without its last one first. *)
FoldsAt(iter, S, base, step) ==
  iter[S] = IF S = {} THEN base ELSE step[Max(S)][iter[S \ {Max(S)}]]
FoldsUpTo(iter, N, k, T, base, step) ==
  \A S \in SUBSET (1 .. N) : Cardinality(S) <= k => iter[S] \in T /\ FoldsAt(iter, S, base, step)

LEMMA PartOfInterval ==
  ASSUME NEW N \in Nat, NEW S \in SUBSET (1 .. N)
  PROVE  /\ Cardinality(S) \in Nat /\ Cardinality(S) <= N
         /\ Cardinality(S) = 0 <=> S = {}
         /\ S # {} => Cardinality(S \ {Max(S)}) = Cardinality(S) - 1
<1>1. IsFiniteSet(1 .. N) /\ Cardinality(1 .. N) = N
  BY FS_Interval
<1>2. IsFiniteSet(S) /\ Cardinality(S) <= N
  BY <1>1, FS_Subset
<1>3. Cardinality(S) \in Nat /\ (Cardinality(S) = 0 <=> S = {})
  BY <1>2, FS_CardinalityType, FS_EmptySet
<1>4. ASSUME S # {}
      PROVE  Cardinality(S \ {Max(S)}) = Cardinality(S) - 1
  <2>1. PICK m : m = Max(S)
    OBVIOUS
  <2>2. m \in S
    BY <1>4, <2>1, MaxOfPart
  <2> QED
    BY <1>2, <2>1, <2>2, FS_RemoveElement
<1> QED
  BY <1>2, <1>3, <1>4

LEMMA FoldExtends ==
  ASSUME NEW N \in Nat, NEW T, NEW base \in T, NEW step \in [1 .. N -> [T -> T]],
         NEW k \in Nat, NEW h, FoldsUpTo(h, N, k, T, base, step)
  PROVE  \E g : FoldsUpTo(g, N, k + 1, T, base, step)
<1> DEFINE g == [S \in SUBSET (1 .. N) |-> IF Cardinality(S) <= k THEN h[S] ELSE step[Max(S)][h[S \ {Max(S)}]]]
<1>1. ASSUME NEW S \in SUBSET (1 .. N), Cardinality(S) <= k
      PROVE  g[S] = h[S]
  BY <1>1
<1>2. ASSUME NEW S \in SUBSET (1 .. N), Cardinality(S) <= k + 1, S # {}
      PROVE  /\ S \ {Max(S)} \in SUBSET (1 .. N)
             /\ Cardinality(S \ {Max(S)}) <= k
  <2> HIDE DEF g
  <2>1. Cardinality(S) \in Nat /\ Cardinality(S \ {Max(S)}) = Cardinality(S) - 1
    BY <1>2, PartOfInterval, Zenon
  <2>2. Cardinality(S \ {Max(S)}) <= k
    BY <1>2, <2>1
  <2>3. S \ {Max(S)} \in SUBSET (1 .. N)
    OBVIOUS
  <2> QED
    BY <2>2, <2>3
<1>3. ASSUME NEW S \in SUBSET (1 .. N), Cardinality(S) <= k + 1
      PROVE  g[S] \in T /\ FoldsAt(g, S, base, step)
  <2>1. CASE S = {}
    <3>1. Cardinality(S) <= k
      <4>1. Cardinality(S) = 0
        BY <2>1, PartOfInterval, Zenon
      <4> QED
        BY <4>1
    <3> QED
      BY <1>1, <2>1, <3>1 DEF FoldsUpTo, FoldsAt
  <2>2. CASE S # {}
    <3>1. PICK m, R : m = Max(S) /\ R = S \ {m} /\ R \in SUBSET (1 .. N) /\ Cardinality(R) <= k
      BY <1>2, <1>3, <2>2
    <3>2. m \in 1 .. N
      BY <2>2, <3>1, MaxOfPart
    <3>3. h[R] \in T /\ g[R] = h[R]
      BY <1>1, <3>1 DEF FoldsUpTo
    <3>4. step[m][h[R]] \in T
      BY <3>2, <3>3
    <3>5. g[S] = step[m][h[R]]
      <4>1. CASE Cardinality(S) <= k
        BY <1>1, <2>2, <3>1, <4>1 DEF FoldsUpTo, FoldsAt
      <4>2. CASE ~(Cardinality(S) <= k)
        BY <3>1, <4>2
      <4> QED
        BY <4>1, <4>2
    <3> HIDE DEF g
    <3> QED
      BY <2>2, <3>1, <3>3, <3>4, <3>5 DEF FoldsAt
  <2> QED
    BY <2>1, <2>2
<1> HIDE DEF g
<1> QED
  BY <1>3 DEF FoldsUpTo

LEMMA FoldStarts ==
  ASSUME NEW N \in Nat, NEW T, NEW base \in T, NEW step
  PROVE  \E h : FoldsUpTo(h, N, 0, T, base, step)
<1> DEFINE h == [S \in SUBSET (1 .. N) |-> base]
<1>1. ASSUME NEW S \in SUBSET (1 .. N), Cardinality(S) <= 0
      PROVE  h[S] \in T /\ FoldsAt(h, S, base, step)
  <2>1. S = {}
    <3>1. Cardinality(S) \in Nat /\ (Cardinality(S) = 0 <=> S = {})
      BY PartOfInterval, Zenon
    <3> QED
      BY <1>1, <3>1
  <2> QED
    BY <2>1 DEF FoldsAt
<1> HIDE DEF h
<1> QED
  BY <1>1 DEF FoldsUpTo

IsFold(iter, N, base, step) ==
  iter = [S \in SUBSET (1 .. N) |-> IF S = {} THEN base ELSE step[Max(S)][iter[S \ {Max(S)}]]]

LEMMA FoldExists ==
  ASSUME NEW N \in Nat, NEW T, NEW base \in T, NEW step \in [1 .. N -> [T -> T]]
  PROVE  \E iter : IsFold(iter, N, base, step) /\ \A S \in SUBSET (1 .. N) : iter[S] \in T
<1> DEFINE X == {k \in Nat : \E h : FoldsUpTo(h, N, k, T, base, step)}
<1>1. 0 \in X
  BY FoldStarts
<1>2. \A k \in 0 .. N - 1 : k \in X => k + 1 \in X
  BY FoldExtends
<1>3. N \in X
  <2> HIDE DEF X
  <2> QED
    BY <1>1, <1>2, ByInduction, Zenon
<1>4. PICK h : FoldsUpTo(h, N, N, T, base, step)
  BY <1>3
<1>5. \A S \in SUBSET (1 .. N) : h[S] \in T /\ FoldsAt(h, S, base, step)
  <2>1. \A S \in SUBSET (1 .. N) : Cardinality(S) <= N
    BY PartOfInterval, Zenon
  <2> QED
    BY <1>4, <2>1, Zenon DEF FoldsUpTo
<1> DEFINE iter == [S \in SUBSET (1 .. N) |-> h[S]]
<1>6. ASSUME NEW S \in SUBSET (1 .. N)
      PROVE  iter[S] = IF S = {} THEN base ELSE step[Max(S)][iter[S \ {Max(S)}]]
  <2>1. iter[S] = h[S] /\ iter[S \ {Max(S)}] = h[S \ {Max(S)}]
    OBVIOUS
  <2> HIDE DEF iter
  <2> QED
    BY <1>5, <2>1 DEF FoldsAt
<1>7. iter = [S \in SUBSET (1 .. N) |-> IF S = {} THEN base ELSE step[Max(S)][iter[S \ {Max(S)}]]]
  BY <1>6
<1>8. \A S \in SUBSET (1 .. N) : iter[S] \in T
  BY <1>5
<1> HIDE DEF iter
<1> QED
  BY <1>7, <1>8 DEF IsFold

(* A fold over 1 .. N, one index at a time. *)
IsUnfolding(acc, it, N) ==
  /\ acc[0] = it[{}] /\ acc[N] = it[1 .. N]
  /\ \A n \in 1 .. N : acc[n] = it[1 .. n] /\ acc[n - 1] = it[(1 .. n) \ {n}]

LEMMA FoldPrefixes ==
  ASSUME NEW N \in Nat, NEW it
  PROVE  \E acc : IsUnfolding(acc, it, N)
<1> DEFINE acc == [n \in 0 .. N |-> it[1 .. n]]
<1>1. \A n \in 0 .. N : acc[n] = it[1 .. n]
  OBVIOUS
<1>2. 1 .. 0 = {}
  OBVIOUS
<1> HIDE DEF acc
<1>3. acc[0] = it[{}] /\ acc[N] = it[1 .. N]
  BY <1>1, <1>2
<1>4. ASSUME NEW n \in 1 .. N
      PROVE  acc[n] = it[1 .. n] /\ acc[n - 1] = it[(1 .. n) \ {n}]
  <2>1. (1 .. n) \ {n} = 1 .. n - 1
    BY MaxOfTop
  <2>2. n - 1 \in 0 .. N /\ n \in 0 .. N
    OBVIOUS
  <2> QED
    BY <1>1, <2>1, <2>2
<1>5. IsUnfolding(acc, it, N)
  BY <1>3, <1>4, Zenon DEF IsUnfolding
<1> QED
  BY <1>5

-----------------------------------------------------------------------------
(* Sequences. *)

LEMMA ConcatParts ==
  ASSUME NEW C, NEW s \in Seq(C), NEW t \in Seq(C)
  PROVE  /\ s \o t \in Seq(C) /\ Len(s \o t) = Len(s) + Len(t)
         /\ \A i \in 1 .. Len(s) : (s \o t)[i] = s[i]
         /\ \A i \in 1 .. Len(t) : (s \o t)[Len(s) + i] = t[i]
OBVIOUS

LEMMA ConcatNothing ==
  ASSUME NEW C, NEW s \in Seq(C)
  PROVE  <<>> \o s = s /\ s \o <<>> = s /\ <<>> \in Seq(C)
<1>1. <<>> \in Seq(C) /\ Len(<<>>) = 0
  OBVIOUS
<1>2. <<>> \o s \in Seq(C) /\ Len(<<>> \o s) = Len(s) /\ \A i \in 1 .. Len(s) : (<<>> \o s)[i] = s[i]
  OBVIOUS
<1>3. s \o <<>> \in Seq(C) /\ Len(s \o <<>>) = Len(s) /\ \A i \in 1 .. Len(s) : (s \o <<>>)[i] = s[i]
  OBVIOUS
<1> QED
  BY <1>1, <1>2, <1>3, SeqEqual

(* A function of the first numbers is a sequence. *)
LEMMA FunctionIsSeq ==
  ASSUME NEW C, NEW N \in Nat, NEW f \in [1 .. N -> C]
  PROVE  f \in Seq(C) /\ Len(f) = N
OBVIOUS

LEMMA FlattenStepwise ==
  ASSUME NEW C, NEW pieces \in Seq(Seq(C))
  PROVE  \E acc :
           /\ acc[0] = <<>>
           /\ \A n \in 1 .. Len(pieces) : acc[n] = acc[n - 1] \o pieces[n]
           /\ \A n \in 0 .. Len(pieces) : acc[n] \in Seq(C)
           /\ FlattenSeq(pieces) = acc[Len(pieces)]
<1>1. PICK N : N = Len(pieces) /\ N \in Nat
  OBVIOUS
<1>2. \A n \in 1 .. N : pieces[n] \in Seq(C)
  BY <1>1
<1> DEFINE T == Seq(C)
           step == [n \in 1 .. N |-> [s \in T |-> s \o pieces[n]]]
           base == <<>>
<1>3. base \in T /\ step \in [1 .. N -> [T -> T]]
  BY <1>2
<1>4. PICK e : IsFold(e, N, base, step) /\ \A S \in SUBSET (1 .. N) : e[S] \in T
  <2> HIDE DEF step, base, T
  <2> QED
    BY <1>1, <1>3, FoldExists, Zenon
<1>5. PICK acc : /\ acc[0] = e[{}] /\ acc[N] = e[1 .. N]
                 /\ \A n \in 1 .. N : acc[n] = e[1 .. n] /\ acc[n - 1] = e[(1 .. n) \ {n}]
  <2>1. N \in Nat
    BY <1>1
  <2> HIDE DEF step, base, T
  <2>2. PICK other : IsUnfolding(other, e, N)
    BY <2>1, FoldPrefixes, Zenon
  <2> QED
    BY <2>2, Zenon DEF IsUnfolding
<1>6. acc[0] = <<>>
  <2> HIDE DEF step
  <2> QED
    BY <1>4, <1>5 DEF IsFold
<1>7. ASSUME NEW n \in 1 .. N
      PROVE  acc[n] = acc[n - 1] \o pieces[n] /\ acc[n] \in T
  <2>1. Max(1 .. n) = n /\ 1 .. n # {}
    BY <1>1, MaxOfTop
  <2>4. 1 .. n \in SUBSET (1 .. N) /\ (1 .. n) \ {n} \in SUBSET (1 .. N)
    BY <1>1
  <2>2. e[1 .. n] = step[n][e[(1 .. n) \ {n}]]
    <3> HIDE DEF step, base
    <3> QED
      BY <1>4, <2>1, <2>4 DEF IsFold
  <2>3. acc[n - 1] \in T /\ acc[n] \in T
    BY <1>4, <1>5, <2>4
  <2>5. step[n][acc[n - 1]] = acc[n - 1] \o pieces[n]
    <3> HIDE DEF T
    <3> QED
      BY <2>3
  <2> QED
    BY <1>5, <2>2, <2>3, <2>5
<1> HIDE DEF step
<1>8. ASSUME NEW n \in 0 .. N
      PROVE  acc[n] \in T
  <2> HIDE DEF T
  <2>1. n = 0 \/ n \in 1 .. N
    BY <1>1
  <2> QED
    BY <1>3, <1>6, <1>7, <2>1
<1>9. FlattenSeq(pieces) = acc[N]
  <2>1. CASE N = 0
    <3>1. Len(pieces) = 0 /\ pieces = <<>>
      BY <1>1, <2>1, EmptySeq
    <3> QED
      BY <1>6, <2>1, <3>1, Zenon DEF FlattenSeq
  <2>2. CASE N > 0
    <3> DEFINE f == [i \in 1 .. N |-> acc[i]]
    <3>1. ASSUME NEW i \in 1 .. N
          PROVE  f[i] = IF i = 1 THEN pieces[i] ELSE f[i - 1] \o pieces[i]
      <4>1. CASE i = 1
        <5>1. 1 \in 1 .. N /\ 1 - 1 = 0
          BY <1>1, <2>2
        <5>2. acc[1] = <<>> \o pieces[1] /\ pieces[1] \in Seq(C)
          BY <1>2, <1>6, <1>7, <5>1
        <5>3. acc[1] = pieces[1]
          BY <5>2, ConcatNothing, Zenon
        <5> QED
          BY <4>1, <5>1, <5>3
      <4>2. CASE i # 1
        <5>1. i - 1 \in 1 .. N
          BY <1>1, <4>2
        <5>2. f[i] = acc[i] /\ f[i - 1] = acc[i - 1]
          BY <5>1
        <5> QED
          BY <1>7, <4>2, <5>2
      <4> QED
        BY <4>1, <4>2
    <3>2. f = [i \in 1 .. N |-> IF i = 1 THEN pieces[i] ELSE f[i - 1] \o pieces[i]]
      BY <3>1
    <3>3. PICK g : /\ g = [i \in 1 .. N |-> IF i = 1 THEN pieces[i] ELSE g[i - 1] \o pieces[i]]
                   /\ FlattenSeq(pieces) = g[N]
      <4> HIDE DEF f
      <4>1. Len(pieces) # 0
        BY <1>1, <2>2
      <4> QED
        BY <1>1, <3>2, <4>1, Zenon DEF FlattenSeq
    <3> DEFINE X == {n \in 0 .. N : n > 0 => g[n] = acc[n]}
    <3>4. 0 \in X
      BY <1>1
    <3>5. ASSUME NEW n \in 0 .. N - 1, n \in X
          PROVE  n + 1 \in X
      <4>1. n + 1 \in 1 .. N /\ (n + 1) - 1 = n /\ n \in Nat
        BY <1>1
      <4>2. g[n + 1] = IF n + 1 = 1 THEN pieces[n + 1] ELSE g[n] \o pieces[n + 1]
        BY <3>3, <4>1
      <4>3. acc[n + 1] = acc[n] \o pieces[n + 1] /\ pieces[n + 1] \in Seq(C)
        BY <1>2, <1>7, <4>1
      <4>4. CASE n = 0
        <5>1. g[n + 1] = pieces[n + 1] /\ acc[n + 1] = <<>> \o pieces[n + 1]
          <6>1. n + 1 = 1
            BY <4>4
          <6> QED
            BY <1>6, <4>2, <4>3, <4>4, <6>1, Zenon
        <5>2. acc[n + 1] = pieces[n + 1]
          BY <4>3, <5>1, ConcatNothing, Zenon
        <5> QED
          BY <4>1, <5>1, <5>2
      <4>5. CASE n > 0
        <5>1. g[n] = acc[n] /\ n + 1 # 1
          BY <3>5, <4>1, <4>5
        <5>2. g[n + 1] = acc[n + 1]
          BY <4>2, <4>3, <5>1, Zenon
        <5> QED
          BY <4>1, <5>2
      <4> QED
        BY <4>4, <4>5
    <3>6. N \in X
      <4> HIDE DEF X
      <4> QED
        BY <1>1, <3>4, <3>5, ByInduction, Zenon
    <3> QED
      BY <2>2, <3>3, <3>6
  <2> QED
    BY <1>1, <2>1, <2>2
<1> QED
  BY <1>1, <1>6, <1>7, <1>8, <1>9

-----------------------------------------------------------------------------
(* Cleaning a path, part by part. *)

IsBlank(part) == part \in {"", "."}
GoesUp(part) == part = ".."
CleanStep(acc, part) ==
  IF IsBlank(part) THEN acc
  ELSE IF GoesUp(part) /\ acc # <<>> /\ ~GoesUp(Last(acc)) THEN Front(acc)
  ELSE Append(acc, part)
IsCleaning(acc, raw) ==
  /\ acc[0] = <<>>
  /\ \A n \in 1 .. Len(raw) : acc[n] = CleanStep(acc[n - 1], raw[n])

LEMMA FrontOfPath ==
  ASSUME NEW C, NEW p \in Seq(C), p # <<>>
  PROVE  /\ Front(p) \in Seq(C) /\ Len(Front(p)) = Len(p) - 1 /\ Len(p) > 0
         /\ \A i \in 1 .. Len(p) - 1 : Front(p)[i] = p[i]
<1>1. Len(p) \in Nat /\ Len(p) > 0
  BY EmptySeq
<1>2. PICK k \in Nat : k = Len(p) - 1
  BY <1>1
<1>3. \A i \in 1 .. k : p[i] \in C
  BY <1>1, <1>2
<1>4. /\ SubSeq(p, 1, k) \in Seq(C) /\ Len(SubSeq(p, 1, k)) = k
      /\ \A i \in 1 .. k : SubSeq(p, 1, k)[i] = p[i]
  BY <1>1, <1>2, <1>3, SubSeqProperties
<1> QED
  BY <1>1, <1>2, <1>4 DEF Front

LEMMA CleanTyped ==
  ASSUME NEW C, NEW acc \in Seq(C), NEW part \in C
  PROVE  CleanStep(acc, part) \in Seq(C)
<1>1. acc # <<>> => Front(acc) \in Seq(C)
  BY FrontOfPath
<1>2. Append(acc, part) \in Seq(C)
  OBVIOUS
<1> QED
  BY <1>1, <1>2 DEF CleanStep

LEMMA CleanStepwise ==
  ASSUME NEW C, NEW raw \in Seq(C)
  PROVE  \E acc : /\ IsCleaning(acc, raw)
                  /\ \A n \in 0 .. Len(raw) : acc[n] \in Seq(C)
                  /\ Clean(raw) = acc[Len(raw)] /\ CleanPath(raw) = acc[Len(raw)]
<1>1. PICK N : N = Len(raw) /\ N \in Nat /\ DOMAIN raw = 1 .. N /\ \A n \in 1 .. N : raw[n] \in C
  OBVIOUS
<1> DEFINE T == Seq(C)
           step == [n \in 1 .. N |-> [s \in T |-> CleanStep(s, raw[n])]]
           base == <<>>
<1>2. base \in T
  OBVIOUS
<1>3. step \in [1 .. N -> [T -> T]]
  <2>1. \A n \in 1 .. N, s \in T : CleanStep(s, raw[n]) \in T
    BY <1>1, CleanTyped
  <2> HIDE DEF T
  <2> QED
    BY <2>1
<1>4. PICK e : IsFold(e, N, base, step) /\ \A S \in SUBSET (1 .. N) : e[S] \in T
  <2> HIDE DEF step, base, T
  <2> QED
    BY <1>1, <1>2, <1>3, FoldExists, Zenon
<1>5. ASSUME NEW S \in SUBSET (1 .. N), S # {}
      PROVE  step[Max(S)][e[S \ {Max(S)}]] = CleanStep(e[S \ {Max(S)}], raw[Max(S)])
  <2>1. PICK m, R : m = Max(S) /\ R = S \ {m}
    OBVIOUS
  <2>2. m \in 1 .. N /\ e[R] \in T
    BY <1>1, <1>4, <1>5, <2>1, MaxOfPart
  <2> HIDE DEF T
  <2> QED
    BY <2>1, <2>2
<1>6. e = [S \in SUBSET (1 .. N) |-> IF S = {} THEN base ELSE CleanStep(e[S \ {Max(S)}], raw[Max(S)])]
  <2> HIDE DEF step, base, T
  <2> QED
    BY <1>4, <1>5 DEF IsFold
<1>7. PICK it : /\ it = [S \in SUBSET (1 .. N) |-> IF S = {} THEN base ELSE CleanStep(it[S \ {Max(S)}], raw[Max(S)])]
                /\ Clean(raw) = it[1 .. N]
  <2> HIDE DEF step
  <2> QED
    BY <1>1, <1>6, Zenon DEF Clean, CleanStep, IsBlank, GoesUp, FoldLeft, MapThenFoldSet
<1>8. PICK acc : IsUnfolding(acc, it, N)
  <2>1. N \in Nat
    BY <1>1
  <2> HIDE DEF step, base, T
  <2> QED
    BY <2>1, FoldPrefixes, Zenon
<1>9. /\ acc[0] = it[{}] /\ acc[N] = it[1 .. N]
      /\ \A n \in 1 .. N : acc[n] = it[1 .. n] /\ acc[n - 1] = it[(1 .. n) \ {n}]
  BY <1>8, Zenon DEF IsUnfolding
<1>10. acc[0] = base
  <2> HIDE DEF base, step, T
  <2> QED
    BY <1>7, <1>9
<1>11. ASSUME NEW n \in 1 .. N
       PROVE  acc[n] = CleanStep(acc[n - 1], raw[n])
  <2> HIDE DEF base, step, T
  <2>1. Max(1 .. n) = n /\ 1 .. n # {}
    BY <1>1, MaxOfTop
  <2>2. 1 .. n \in SUBSET (1 .. N)
    BY <1>1
  <2>3. it[1 .. n] = CleanStep(it[(1 .. n) \ {n}], raw[n])
    BY <1>7, <2>1, <2>2
  <2> QED
    BY <1>9, <2>3
<1>12. IsCleaning(acc, raw)
  BY <1>1, <1>10, <1>11 DEF IsCleaning
<1>13. \A n \in 0 .. N : acc[n] \in T
  <2> HIDE DEF step
  <2> DEFINE X == {n \in 0 .. N : acc[n] \in T}
  <2>1. 0 \in X
    <3>1. acc[0] \in T
      BY <1>2, <1>10, Zenon
    <3>2. 0 \in 0 .. N
      BY <1>1
    <3> QED
      BY <3>1, <3>2, Zenon
  <2>2. ASSUME NEW n \in 0 .. N - 1, n \in X
        PROVE  n + 1 \in X
    <3>1. n + 1 \in 1 .. N /\ (n + 1) - 1 = n /\ n + 1 \in 0 .. N
      BY <1>1
    <3>2. acc[n] \in T /\ raw[n + 1] \in C
      BY <1>1, <2>2, <3>1
    <3>3. acc[n + 1] \in T
      BY <1>11, <3>1, <3>2, CleanTyped
    <3> QED
      BY <3>1, <3>3
  <2> HIDE DEF X
  <2>3. ASSUME NEW n \in 0 .. N
        PROVE  n \in X
    <3>1. \A m \in 0 .. n - 1 : m \in X => m + 1 \in X
      BY <1>1, <2>2
    <3>2. n \in Nat
      BY <1>1
    <3> QED
      BY <2>1, <3>1, <3>2, ByInduction, Zenon
  <2> QED
    BY <2>3 DEF X
<1>14. CleanPath(raw) = Clean(raw)
  BY Zenon DEF Clean, CleanPath
<1> QED
  BY <1>1, <1>7, <1>9, <1>12, <1>13, <1>14

(* What has been kept of a name, when so many of the parts before and in it  *)
(* have been read.                                                          *)
IsBeginning(s, name, k) == Len(s) = k /\ \A i \in 1 .. k : s[i] = name[i]
KeptOf(o, l, n) == IF n <= o THEN 0 ELSE IF n <= o + l THEN n - o ELSE l

LEMMA BeginningGrows ==
  ASSUME NEW C, NEW s \in Seq(C), NEW name \in Seq(C), NEW k \in Nat, IsBeginning(s, name, k), k + 1 <= Len(name)
  PROVE  IsBeginning(Append(s, name[k + 1]), name, k + 1)
<1>1. Len(s) = k /\ \A i \in 1 .. k : s[i] = name[i]
  BY DEF IsBeginning
<1>2. Len(Append(s, name[k + 1])) = k + 1 /\ \A i \in 1 .. k + 1 : Append(s, name[k + 1])[i] = name[i]
  BY <1>1
<1> QED
  BY <1>2 DEF IsBeginning

(* A path that is a name, with empty parts and dots before and behind it.    *)
AreNames(name) == \A i \in 1 .. Len(name) : ~IsBlank(name[i]) /\ ~GoesUp(name[i])
Spells(raw, name, o) ==
  /\ AreNames(name) /\ o + Len(name) <= Len(raw)
  /\ \A i \in 1 .. o : IsBlank(raw[i])
  /\ \A i \in 1 .. Len(name) : raw[o + i] = name[i]
  /\ \A i \in o + Len(name) + 1 .. Len(raw) : IsBlank(raw[i])

(* A name is what is left of a path once cleaned, whatever empty parts and   *)
(* dots are before and behind it.                                           *)
LEMMA NamesAreClean ==
  ASSUME NEW C, NEW raw \in Seq(C), NEW name \in Seq(C), NEW o \in Nat, Spells(raw, name, o)
  PROVE  Clean(raw) = name /\ CleanPath(raw) = name
<1>1. PICK acc : /\ IsCleaning(acc, raw) /\ \A n \in 0 .. Len(raw) : acc[n] \in Seq(C)
                 /\ Clean(raw) = acc[Len(raw)] /\ CleanPath(raw) = acc[Len(raw)]
  BY CleanStepwise
<1>2. PICK N \in Nat, l \in Nat : N = Len(raw) /\ l = Len(name)
  OBVIOUS
<1>3. \A i \in 1 .. l : ~IsBlank(name[i]) /\ ~GoesUp(name[i])
  BY <1>2 DEF AreNames, Spells
<1>9. /\ o + l <= N /\ \A i \in 1 .. o : IsBlank(raw[i])
      /\ \A i \in 1 .. l : raw[o + i] = name[i]
      /\ \A i \in 1 .. N : o + l + 1 <= i => IsBlank(raw[i])
  BY <1>2 DEF Spells
<1> DEFINE X == {n \in 0 .. N : IsBeginning(acc[n], name, KeptOf(o, l, n))}
<1>4. 0 \in X
  <2>1. acc[0] = <<>> /\ KeptOf(o, l, 0) = 0
    BY <1>1 DEF IsCleaning, KeptOf
  <2>2. IsBeginning(<<>>, name, 0)
    BY DEF IsBeginning
  <2> QED
    BY <1>2, <2>1, <2>2
<1>5. ASSUME NEW n \in 0 .. N - 1, n \in X
      PROVE  n + 1 \in X
  <2>1. n + 1 \in 1 .. N /\ (n + 1) - 1 = n /\ n + 1 \in 0 .. N /\ n \in 0 .. N
    BY <1>2
  <2>2. PICK s \in Seq(C) : s = acc[n] /\ IsBeginning(s, name, KeptOf(o, l, n))
    BY <1>1, <1>2, <1>5, <2>1
  <2>3. acc[n + 1] = CleanStep(s, raw[n + 1])
    BY <1>1, <1>2, <2>1, <2>2 DEF IsCleaning
  <2>4. CASE n < o
    <3>1. IsBlank(raw[n + 1]) /\ KeptOf(o, l, n + 1) = KeptOf(o, l, n)
      BY <1>9, <2>1, <2>4 DEF KeptOf
    <3> QED
      BY <2>1, <2>2, <2>3, <3>1 DEF CleanStep
  <2>5. CASE o <= n /\ n < o + l
    <3>1. KeptOf(o, l, n + 1) = KeptOf(o, l, n) + 1 /\ KeptOf(o, l, n) = n - o
      BY <1>2, <2>1, <2>5 DEF KeptOf
    <3>2. PICK k \in Nat : k = n - o /\ k + 1 <= l /\ o + (k + 1) = n + 1 /\ k + 1 \in 1 .. l
      BY <1>2, <2>1, <2>5
    <3>3. raw[n + 1] = name[k + 1] /\ ~IsBlank(name[k + 1]) /\ ~GoesUp(name[k + 1])
      BY <1>3, <1>9, <3>2
    <3>4. CleanStep(s, raw[n + 1]) = Append(s, name[k + 1])
      BY <3>3 DEF CleanStep
    <3>5. IsBeginning(Append(s, name[k + 1]), name, k + 1)
      BY <1>2, <2>2, <3>1, <3>2, BeginningGrows
    <3> QED
      BY <2>1, <2>3, <3>1, <3>2, <3>4, <3>5
  <2>6. CASE o + l <= n
    <3>1. IsBlank(raw[n + 1]) /\ KeptOf(o, l, n + 1) = KeptOf(o, l, n)
      BY <1>2, <1>9, <2>1, <2>6 DEF KeptOf
    <3> QED
      BY <2>1, <2>2, <2>3, <3>1 DEF CleanStep
  <2> QED
    BY <1>2, <2>1, <2>4, <2>5, <2>6
<1>6. N \in X
  <2> HIDE DEF X
  <2> QED
    BY <1>2, <1>4, <1>5, ByInduction, Zenon
<1>7. IsBeginning(acc[N], name, l)
  <2>1. KeptOf(o, l, N) = l
    BY <1>2, <1>9 DEF KeptOf
  <2> QED
    BY <1>6, <2>1
<1>8. acc[N] = name
  BY <1>1, <1>2, <1>7, SeqEqual DEF IsBeginning
<1> QED
  BY <1>1, <1>2, <1>8

-----------------------------------------------------------------------------
(* Names of entries in volume archives. *)

LEMMA PartsOfPaths ==
  /\ IsBlank("") /\ IsBlank(".") /\ ~IsBlank("data") /\ ~GoesUp("data") /\ ~GoesUp("") /\ ~GoesUp(".")
  /\ \A p : IsBlank(p) <=> p = "" \/ p = "."
BY Zenon DEF IsBlank, GoesUp

LEMMA NamesHaveNames ==
  ASSUME NEW C, NEW p \in Seq(C)
  PROVE  IsName(p) <=> p # <<>> /\ AreNames(p)
<1>1. DOMAIN p = 1 .. Len(p)
  OBVIOUS
<1>2. \A i : p[i] \notin {"", ".", ".."} <=> ~IsBlank(p[i]) /\ ~GoesUp(p[i])
  BY Zenon DEF IsBlank, GoesUp
<1> QED
  BY <1>1, <1>2, Zenon DEF IsName, AreNames

(* A part of a path: l parts of it behind the first o. *)
IsCut(s, p, o, l) == Len(s) = l /\ \A i \in 1 .. l : s[i] = p[o + i]

LEMMA DotSlashIsCut ==
  ASSUME NEW C, NEW p \in Seq(C), p # <<>>
  PROVE  /\ TrimDotSlash(p) \in Seq(C) /\ TrimDotSlash(p) # <<>>
         /\ \E o \in {0, 1} : IsCut(TrimDotSlash(p), p, o, Len(p) - o) /\ (o = 1 => IsBlank(p[1]))
<1>1. Len(p) \in Nat /\ Len(p) > 0
  BY EmptySeq
<1>2. CASE Len(p) > 1 /\ p[1] = "."
  <2>1. TrimDotSlash(p) = Tail(p)
    BY <1>2 DEF TrimDotSlash
  <2>2. Tail(p) \in Seq(C) /\ Len(Tail(p)) = Len(p) - 1 /\ \A i \in 1 .. Len(p) - 1 : Tail(p)[i] = p[i + 1]
    BY <1>1, <1>2
  <2>3. IsCut(Tail(p), p, 1, Len(p) - 1)
    BY <2>2 DEF IsCut
  <2>4. IsBlank(p[1])
    BY <1>2, Zenon DEF IsBlank
  <2>5. Tail(p) # <<>>
    <3>1. Len(Tail(p)) > 0
      BY <1>1, <1>2, <2>2
    <3>2. \A s \in Seq(C) : Len(s) > 0 => s # <<>>
      OBVIOUS
    <3> QED
      BY <2>2, <3>1, <3>2, Zenon
  <2> QED
    BY <2>1, <2>2, <2>3, <2>4, <2>5
<1>3. CASE ~(Len(p) > 1 /\ p[1] = ".")
  <2>1. TrimDotSlash(p) = p
    BY <1>3 DEF TrimDotSlash
  <2>2. IsCut(p, p, 0, Len(p) - 0)
    BY <1>1 DEF IsCut
  <2> QED
    BY <2>1, <2>2
<1> QED
  BY <1>2, <1>3

LEMMA SlashIsCut ==
  ASSUME NEW C, NEW p \in Seq(C), p # <<>>
  PROVE  /\ TrimSlash(p) \in Seq(C) /\ TrimSlash(p) # <<>>
         /\ \E z \in {0, 1} : IsCut(TrimSlash(p), p, 0, Len(p) - z) /\ (z = 1 => IsBlank(p[Len(p)]))
<1>1. Len(p) \in Nat /\ Len(p) > 0
  BY EmptySeq
<1>2. CASE TrimSlash(p) = Front(p) /\ IsBlank(Last(p)) /\ Len(p) > 1
  <2>1. Front(p) \in Seq(C) /\ Len(Front(p)) = Len(p) - 1 /\ \A i \in 1 .. Len(p) - 1 : Front(p)[i] = p[i]
    BY FrontOfPath
  <2>2. IsCut(Front(p), p, 0, Len(p) - 1)
    BY <2>1 DEF IsCut
  <2>3. IsBlank(p[Len(p)])
    BY <1>2 DEF Last
  <2>4. Front(p) # <<>>
    BY <1>1, <1>2, <2>1
  <2> QED
    BY <1>2, <2>1, <2>2, <2>3, <2>4
<1>3. CASE TrimSlash(p) = p
  <2>1. IsCut(p, p, 0, Len(p) - 0)
    BY <1>1 DEF IsCut
  <2> QED
    BY <1>3, <2>1
<1>4. TrimSlash(p) = p \/ (TrimSlash(p) = Front(p) /\ IsBlank(Last(p)) /\ Len(p) > 1)
  <2>1. Last(p) = "" => IsBlank(Last(p))
    BY Zenon DEF IsBlank
  <2> QED
    BY <2>1, Zenon DEF TrimSlash
<1> QED
  BY <1>2, <1>3, <1>4

LEMMA CutOfCut ==
  ASSUME NEW p, NEW s, NEW t, NEW o \in Nat, NEW l \in Nat, NEW z \in Nat,
         z <= l, IsCut(s, p, o, l), IsCut(t, s, 0, l - z)
  PROVE  IsCut(t, p, o, l - z)
<1>1. ASSUME NEW i \in 1 .. l - z
      PROVE  t[i] = p[o + i]
  <2>1. i \in 1 .. l /\ 0 + i = i
    OBVIOUS
  <2>2. t[i] = s[i]
    BY <2>1 DEF IsCut
  <2>3. s[i] = p[o + i]
    BY <2>1 DEF IsCut
  <2> QED
    BY <2>2, <2>3
<1> QED
  BY <1>1 DEF IsCut

(* The path an entry is trimmed to: what remains is blank. *)
CutFrom(t, raw) ==
  \E o \in {0, 1}, z \in {0, 1} :
    /\ IsCut(t, raw, o, Len(raw) - o - z)
    /\ o = 1 => IsBlank(raw[1])
    /\ z = 1 => IsBlank(raw[Len(raw)])
    /\ o + z <= Len(raw)

LEMMA DataIsTrimmed ==
  ASSUME NEW C, "." \in C, NEW raw \in Seq(C), raw # <<>>, NEW dir \in BOOLEAN, EntryName(raw, "data", dir) # Rejected
  PROVE  \E t \in Seq(C) : /\ t # <<>> /\ CutFrom(t, raw) /\ UnderData(t) # Rejected
                           /\ EntryName(raw, "data", dir) = UnderData(t)
                           /\ (dir /\ UnderData(t) = Root) \/ IsName(UnderData(t))
<1>1. PICK whole : whole = IF raw = <<".", "">> /\ dir THEN Root ELSE TrimDotSlash(raw)
  OBVIOUS
<1>2. PICK t : t = IF dir THEN TrimSlash(whole) ELSE whole
  OBVIOUS
<1>3. /\ EntryName(raw, "data", dir) = UnderData(t)
      /\ (dir /\ UnderData(t) = Root) \/ IsName(UnderData(t))
  BY <1>1, <1>2, Zenon DEF EntryName, Rejected
<1>4. UnderData(t) # Rejected
  BY <1>3
<1>5. whole # Root
  <2>1. ASSUME whole = Root PROVE FALSE
    <3>1. Root \in Seq(C) /\ Len(Root) = 1 /\ Root # <<"data">>
      <4>1. <<".">>[1] = "." /\ <<"data">>[1] = "data" /\ "." # "data"
        OBVIOUS
      <4>2. <<".">> # <<"data">>
        BY <4>1, Zenon
      <4>3. <<".">> \in Seq(C) /\ Len(<<".">>) = 1
        OBVIOUS
      <4> QED
        BY <4>2, <4>3 DEF Root
    <3>2. TrimSlash(Root) = Root
      <4>1. ~(Len(Root) > 1)
        BY <3>1
      <4> QED
        BY <4>1, Zenon DEF TrimSlash
    <3>3. t = Root
      BY <1>2, <2>1, <3>2
    <3>4. UnderData(Root) = Rejected
      BY <3>1 DEF UnderData, Rejected
    <3> QED
      BY <1>4, <3>3, <3>4
  <2> QED
    BY <2>1
<1>6. whole = TrimDotSlash(raw)
  BY <1>1, <1>5, Zenon
<1>7. PICK o \in {0, 1} : IsCut(whole, raw, o, Len(raw) - o) /\ (o = 1 => IsBlank(raw[1]))
  BY <1>6, DotSlashIsCut
<1>8. whole \in Seq(C) /\ whole # <<>>
  BY <1>6, DotSlashIsCut
<1>9. PICK z \in {0, 1} : IsCut(t, whole, 0, Len(whole) - z) /\ (z = 1 => IsBlank(whole[Len(whole)]))
  <2>1. CASE dir
    BY <1>2, <1>8, <2>1, SlashIsCut
  <2>2. CASE ~dir
    <3>1. IsCut(whole, whole, 0, Len(whole) - 0)
      BY <1>8 DEF IsCut
    <3> QED
      BY <1>2, <2>2, <3>1
  <2> QED
    BY <2>1, <2>2
<1>10. t \in Seq(C) /\ t # <<>>
  BY <1>2, <1>8, SlashIsCut
<1>11. PICK l \in Nat : l = Len(whole) /\ l = Len(raw) - o /\ l > 0 /\ Len(raw) \in Nat
  BY <1>7, <1>8, EmptySeq DEF IsCut
<1>12. IsCut(t, raw, o, Len(raw) - o - z)
  <2>1. IsCut(whole, raw, o, l) /\ IsCut(t, whole, 0, l - z) /\ z \in Nat /\ o \in Nat /\ z <= l
    BY <1>7, <1>9, <1>11
  <2> QED
    BY <1>11, <2>1, CutOfCut
<1>13. whole[Len(whole)] = raw[Len(raw)]
  <2>1. l \in 1 .. l /\ o + l = Len(raw)
    BY <1>11
  <2>2. IsCut(whole, raw, o, l)
    BY <1>7, <1>11
  <2>3. whole[l] = raw[o + l]
    BY <2>1, <2>2 DEF IsCut
  <2> QED
    BY <1>11, <2>1, <2>3
<1>14. CutFrom(t, raw)
  <2>1. o + z <= Len(raw)
    BY <1>11
  <2>2. /\ IsCut(t, raw, o, Len(raw) - o - z) /\ (o = 1 => IsBlank(raw[1]))
        /\ (z = 1 => IsBlank(raw[Len(raw)])) /\ o + z <= Len(raw)
    BY <1>7, <1>9, <1>12, <1>13, <2>1
  <2> QED
    BY <2>2, Zenon DEF CutFrom
<1> QED
  BY <1>3, <1>4, <1>10, <1>14

DataPath(name) == IF name = Root THEN <<"data">> ELSE <<"data">> \o name

LEMMA RootIsNoName == ~IsName(Root) /\ Root # <<>> /\ Len(Root) = 1 /\ Root[1] = "."
<1>1. Root = <<".">>
  BY DEF Root
<1>2. Len(<<".">>) = 1 /\ <<".">>[1] = "." /\ DOMAIN <<".">> = {1} /\ <<".">> # <<>>
  OBVIOUS
<1>3. ~IsName(<<".">>)
  BY <1>2, Zenon DEF IsName
<1> QED
  BY <1>1, <1>2, <1>3

LEMMA DataOnTop ==
  ASSUME NEW C, NEW t \in Seq(C), Len(t) > 1, t[1] = "data"
  PROVE  t = <<"data">> \o Tail(t) /\ Tail(t) \in Seq(C)
<1>1. "data" \in C /\ Len(t) \in Nat
  <2>1. 1 \in DOMAIN t
    OBVIOUS
  <2> QED
    BY <2>1
<1>2. Tail(t) \in Seq(C) /\ Len(Tail(t)) = Len(t) - 1 /\ \A i \in 1 .. Len(t) - 1 : Tail(t)[i] = t[i + 1]
  OBVIOUS
<1>3. <<"data">> \in Seq(C) /\ Len(<<"data">>) = 1 /\ <<"data">>[1] = "data"
  BY <1>1
<1>4. PICK rest \in Seq(C), top \in Seq(C) :
        /\ rest = Tail(t) /\ top = <<"data">> /\ Len(rest) = Len(t) - 1 /\ Len(top) = 1 /\ top[1] = t[1]
        /\ \A i \in 1 .. Len(t) - 1 : rest[i] = t[i + 1]
  BY <1>2, <1>3
<1>5. /\ top \o rest \in Seq(C) /\ Len(top \o rest) = Len(top) + Len(rest)
      /\ \A i \in 1 .. Len(top) : (top \o rest)[i] = top[i]
      /\ \A i \in 1 .. Len(rest) : (top \o rest)[Len(top) + i] = rest[i]
  BY ConcatParts
<1>6. PICK whole \in Seq(C) :
        /\ whole = top \o rest /\ Len(whole) = Len(t) /\ whole[1] = t[1]
        /\ \A i \in 1 .. Len(t) - 1 : whole[i + 1] = t[i + 1]
  <2>1. Len(top \o rest) = Len(t)
    BY <1>1, <1>4, <1>5
  <2>2. (top \o rest)[1] = t[1]
    BY <1>4, <1>5
  <2>3. ASSUME NEW i \in 1 .. Len(t) - 1
        PROVE  (top \o rest)[i + 1] = t[i + 1]
    <3>1. i \in 1 .. Len(rest) /\ 1 + i = i + 1
      BY <1>4
    <3> QED
      BY <1>4, <1>5, <3>1
  <2> QED
    BY <1>5, <2>1, <2>2, <2>3
<1>7. \A i \in 1 .. Len(t) : whole[i] = t[i]
  <2>1. ASSUME NEW i \in 1 .. Len(t), i # 1
        PROVE  whole[i] = t[i]
    <3>1. i - 1 \in 1 .. Len(t) - 1 /\ (i - 1) + 1 = i
      BY <1>1, <2>1
    <3> QED
      BY <1>6, <3>1
  <2> QED
    BY <1>6, <2>1
<1>8. whole = t
  BY <1>6, <1>7, SeqEqual
<1> QED
  BY <1>2, <1>4, <1>6, <1>8, Zenon

LEMMA UnderDataMeans ==
  ASSUME NEW C, NEW t \in Seq(C), t # <<>>, UnderData(t) # Rejected
  PROVE  /\ t[1] = "data" /\ Len(t) \in Nat /\ Len(t) > 0
         /\ \/ Len(t) = 1 /\ UnderData(t) = Root
            \/ Len(t) > 1 /\ UnderData(t) = Tail(t)
<1>1. Len(t) \in Nat /\ Len(t) > 0
  BY EmptySeq
<1>2. CASE t = <<"data">>
  <2>1. <<"data">>[1] = "data" /\ Len(<<"data">>) = 1
    OBVIOUS
  <2>2. UnderData(t) = Root
    BY <1>2, Zenon DEF UnderData
  <2> QED
    BY <1>1, <1>2, <2>1, <2>2
<1>3. CASE t # <<"data">>
  <2>1. Len(t) > 1 /\ t[1] = "data" /\ UnderData(t) = Tail(t)
    BY <1>3, Zenon DEF UnderData
  <2> QED
    BY <1>1, <2>1
<1> QED
  BY <1>2, <1>3

LEMMA RootSpells ==
  ASSUME NEW C, NEW raw \in Seq(C), NEW t \in Seq(C), CutFrom(t, raw), t[1] = "data", "data" \in C,
         Len(t) = 1 \/ (Len(t) = 2 /\ t[2] = ".")
  PROVE  \E o \in {0, 1} : Spells(raw, <<"data">>, o)
<1>1. PICK o \in {0, 1}, z \in {0, 1} :
         /\ IsCut(t, raw, o, Len(raw) - o - z)
         /\ o = 1 => IsBlank(raw[1])
         /\ z = 1 => IsBlank(raw[Len(raw)])
         /\ o + z <= Len(raw)
  BY DEF CutFrom
<1>2. PICK top : top = <<"data">> /\ Len(top) = 1 /\ top[1] = "data" /\ top \in Seq(C)
  <2>1. Len(<<"data">>) = 1 /\ <<"data">>[1] = "data" /\ <<"data">> \in Seq(C)
    OBVIOUS
  <2> QED
    BY <2>1, Zenon
<1>3. AreNames(top)
  <2>1. \A i \in 1 .. Len(top) : top[i] = "data"
    BY <1>2
  <2>2. ~IsBlank("data") /\ ~GoesUp("data")
    BY PartsOfPaths, Zenon
  <2> QED
    BY <2>1, <2>2 DEF AreNames
<1>4. PICK N \in Nat, l \in Nat : N = Len(raw) /\ l = Len(t) /\ l = N - o - z
  BY <1>1 DEF IsCut
<1>5. \A i \in 1 .. l : t[i] = raw[o + i]
  BY <1>1, <1>4 DEF IsCut
<1>6. l \in {1, 2} /\ (l = 2 => t[2] = ".")
  BY <1>4
<1>7. \A i \in 1 .. o : IsBlank(raw[i])
  BY <1>1
<1>8. \A i \in 1 .. Len(top) : raw[o + i] = top[i]
  <2>1. 1 \in 1 .. l
    BY <1>6
  <2>2. raw[o + 1] = "data"
    BY <1>5, <2>1
  <2> QED
    BY <1>2, <2>2
<1>9. \A i \in o + Len(top) + 1 .. Len(raw) : IsBlank(raw[i])
  <2>1. ASSUME NEW i \in 1 .. N, i >= o + 2, i # o + l + 1
        PROVE  l = 2 /\ i = o + 2
    BY <1>4, <1>6, <2>1
  <2>2. l = 2 => IsBlank(raw[o + 2])
    <3>1. l = 2 => t[2] = raw[o + 2]
      BY <1>5
    <3>2. l = 2 => raw[o + 2] = "."
      BY <1>6, <3>1
    <3> QED
      BY <3>2, Zenon DEF IsBlank
  <2>3. ASSUME NEW i \in 1 .. N, i = o + l + 1
        PROVE  IsBlank(raw[i])
    <3>1. z = 1 /\ i = N
      BY <1>4, <2>3
    <3> QED
      BY <1>1, <1>4, <3>1
  <2>4. \A i \in o + Len(top) + 1 .. Len(raw) : i \in 1 .. N /\ i >= o + 2
    BY <1>2, <1>4
  <2> QED
    BY <2>1, <2>2, <2>3, <2>4
<1>10. o + Len(top) <= Len(raw)
  BY <1>2, <1>4, <1>6
<1>11. Spells(raw, top, o)
  BY <1>3, <1>7, <1>8, <1>9, <1>10 DEF Spells
<1> QED
  BY <1>2, <1>11

LEMMA NameSpells ==
  ASSUME NEW C, NEW raw \in Seq(C), NEW t \in Seq(C), CutFrom(t, raw), AreNames(t)
  PROVE  \E o \in {0, 1} : Spells(raw, t, o)
<1>1. PICK o \in {0, 1}, z \in {0, 1} :
         /\ IsCut(t, raw, o, Len(raw) - o - z)
         /\ o = 1 => IsBlank(raw[1])
         /\ z = 1 => IsBlank(raw[Len(raw)])
         /\ o + z <= Len(raw)
  BY DEF CutFrom
<1>2. PICK N \in Nat, l \in Nat : N = Len(raw) /\ l = Len(t) /\ l = N - o - z
  BY <1>1 DEF IsCut
<1>3. \A i \in 1 .. l : t[i] = raw[o + i]
  BY <1>1, <1>2 DEF IsCut
<1>4. \A i \in 1 .. o : IsBlank(raw[i])
  BY <1>1
<1>5. \A i \in o + Len(t) + 1 .. Len(raw) : IsBlank(raw[i])
  <2>1. ASSUME NEW i \in o + Len(t) + 1 .. Len(raw)
        PROVE  IsBlank(raw[i])
    <3>1. z = 1 /\ i = N
      BY <1>2, <2>1
    <3> QED
      BY <1>1, <1>2, <3>1
  <2> QED
    BY <2>1
<1>6. o + Len(t) <= Len(raw)
  BY <1>2
<1>7. \A i \in 1 .. Len(t) : raw[o + i] = t[i]
  BY <1>2, <1>3
<1> QED
  BY <1>4, <1>5, <1>6, <1>7 DEF Spells

LEMMA EntriesAreBelowData ==
  ASSUME NEW C, "." \in C, NEW raw \in Seq(C), raw # <<>>, NEW dir \in BOOLEAN, EntryName(raw, "data", dir) # Rejected
  PROVE  Clean(raw) = DataPath(EntryName(raw, "data", dir))
<1>1. PICK t \in Seq(C) : /\ t # <<>> /\ CutFrom(t, raw) /\ UnderData(t) # Rejected
                          /\ EntryName(raw, "data", dir) = UnderData(t)
                          /\ (dir /\ UnderData(t) = Root) \/ IsName(UnderData(t))
  BY DataIsTrimmed
<1>2. /\ t[1] = "data" /\ Len(t) \in Nat /\ Len(t) > 0
      /\ \/ Len(t) = 1 /\ UnderData(t) = Root
         \/ Len(t) > 1 /\ UnderData(t) = Tail(t)
  BY <1>1, UnderDataMeans
<1>3. "data" \in C
  <2>1. 1 \in DOMAIN t
    BY <1>2
  <2> QED
    BY <1>2, <2>1
<1>4. CASE UnderData(t) = Root
  <2>1. Len(t) = 1 \/ (Len(t) = 2 /\ t[2] = ".")
    <3>1. ASSUME Len(t) > 1, Tail(t) = Root
          PROVE  Len(t) = 2 /\ t[2] = "."
      <4>1. Len(Tail(t)) = Len(t) - 1 /\ Tail(t)[1] = t[2]
        BY <3>1
      <4>2. Len(Root) = 1 /\ Root[1] = "."
        BY RootIsNoName
      <4>3. Len(t) - 1 = 1 /\ t[2] = "."
        BY <3>1, <4>1, <4>2
      <4> QED
        BY <1>2, <4>3
    <3> QED
      BY <1>2, <1>4, <3>1
  <2>2. PICK o \in {0, 1} : Spells(raw, <<"data">>, o)
    BY <1>1, <1>2, <1>3, <2>1, RootSpells
  <2>3. <<"data">> \in Seq(C) /\ o \in Nat
    BY <1>3
  <2>4. Clean(raw) = <<"data">>
    BY <2>2, <2>3, NamesAreClean
  <2> QED
    BY <1>1, <1>4, <2>4 DEF DataPath
<1>5. CASE UnderData(t) # Root
  <2>1. Len(t) > 1 /\ UnderData(t) = Tail(t) /\ IsName(Tail(t))
    BY <1>1, <1>2, <1>5
  <2>2. t = <<"data">> \o Tail(t) /\ Tail(t) \in Seq(C)
    BY <1>2, <2>1, DataOnTop
  <2>3. AreNames(Tail(t))
    BY <2>1, <2>2, NamesHaveNames
  <2>4. AreNames(t)
    <3>1. ASSUME NEW i \in 1 .. Len(t)
          PROVE  ~IsBlank(t[i]) /\ ~GoesUp(t[i])
      <4>1. CASE i = 1
        <5>1. ~IsBlank("data") /\ ~GoesUp("data")
          BY PartsOfPaths, Zenon
        <5> QED
          BY <1>2, <4>1, <5>1
      <4>2. CASE i # 1
        <5>1. PICK j \in 1 .. Len(t) - 1 : j + 1 = i
          BY <1>2, <4>2
        <5>2. Len(Tail(t)) = Len(t) - 1 /\ Tail(t)[j] = t[j + 1]
          BY <2>1, <5>1
        <5>3. ~IsBlank(Tail(t)[j]) /\ ~GoesUp(Tail(t)[j])
          BY <2>3, <5>1, <5>2 DEF AreNames
        <5> QED
          BY <5>1, <5>2, <5>3
      <4> QED
        BY <4>1, <4>2
    <3> QED
      BY <3>1 DEF AreNames
  <2>5. PICK o \in {0, 1} : Spells(raw, t, o)
    BY <1>1, <2>4, NameSpells
  <2>6. Clean(raw) = t
    <3>1. o \in Nat
      OBVIOUS
    <3> QED
      BY <2>5, <3>1, NamesAreClean
  <2> QED
    BY <1>1, <1>5, <2>1, <2>2, <2>6, Zenon DEF DataPath
<1> QED
  BY <1>4, <1>5

-----------------------------------------------------------------------------
(* Entries of a volume archive, one after the other. *)

PathsOf(C) == Seq(C) \ {<<>>}
EntriesOf(C) == [raw : PathsOf(C), type : {"file", "dir", "other"}, special : BOOLEAN]
Copying(C) ==
  [ok : BOOLEAN, dirs : SUBSET Seq(C), files : SUBSET Seq(C), ancestors : SUBSET Seq(C), names : Seq(Seq(C))]

IsDir(e) == e.type = "dir"
NameIn(root, e) == EntryName(e.raw, root, IsDir(e))
MissingWith(s, name) == (s.ancestors \cup (Ancestors(name) \ Seen(s))) \ {name}
Admitted(s, name, dir) ==
  /\ name # Rejected /\ ~Conflicts(s, name, dir)
  /\ ~(Cardinality(Seen(s) \cup {name}) + Cardinality(MissingWith(s, name)) > MaxEntries)
WithTaken(s, name, dir) ==
  [ok |-> TRUE,
   dirs |-> IF dir THEN s.dirs \cup {name} ELSE s.dirs,
   files |-> IF dir THEN s.files ELSE s.files \cup {name},
   ancestors |-> MissingWith(s, name),
   names |-> Append(s.names, name)]
Turned(s, root, e) ==
  IF s.ok /\ IsPlain(e) /\ Admitted(s, NameIn(root, e), IsDir(e))
  THEN WithTaken(s, NameIn(root, e), IsDir(e)) ELSE [s EXCEPT !.ok = FALSE]

LEMMA AcceptTurns ==
  ASSUME NEW s, NEW root, NEW e
  PROVE  Accept(s, root, e) = Turned(s, root, e)
<1>1. CASE s.ok /\ IsPlain(e) /\ Admitted(s, NameIn(root, e), IsDir(e))
  BY <1>1, Zenon DEF Accept, Turned, Admitted, WithTaken, NameIn, IsDir, MissingWith
<1>2. CASE ~(s.ok /\ IsPlain(e) /\ Admitted(s, NameIn(root, e), IsDir(e)))
  BY <1>2, Zenon DEF Accept, Turned, Admitted, WithTaken, NameIn, IsDir, MissingWith
<1> QED
  BY <1>1, <1>2

LEMMA EntryNameTyped ==
  ASSUME NEW C, "." \in C, NEW raw \in PathsOf(C), NEW root, NEW dir \in BOOLEAN
  PROVE  EntryName(raw, root, dir) \in Seq(C)
<1>1. raw \in Seq(C) /\ raw # <<>>
  BY DEF PathsOf
<1>2. Root \in Seq(C) /\ Root # <<>> /\ Rejected \in Seq(C)
  <2>1. <<".">> \in Seq(C) /\ <<>> \in Seq(C)
    OBVIOUS
  <2> QED
    BY <2>1, RootIsNoName DEF Root, Rejected
<1>3. PICK whole : whole = IF raw = <<".", "">> /\ dir THEN Root ELSE TrimDotSlash(raw)
  OBVIOUS
<1>4. whole \in Seq(C) /\ whole # <<>>
  <2>1. TrimDotSlash(raw) \in Seq(C) /\ TrimDotSlash(raw) # <<>>
    BY <1>1, DotSlashIsCut
  <2> QED
    BY <1>2, <1>3, <2>1, Zenon
<1>5. PICK t : t = IF dir THEN TrimSlash(whole) ELSE whole
  OBVIOUS
<1>6. t \in Seq(C) /\ t # <<>>
  <2>1. TrimSlash(whole) \in Seq(C) /\ TrimSlash(whole) # <<>>
    BY <1>4, SlashIsCut
  <2> QED
    BY <1>4, <1>5, <2>1, Zenon
<1>7. UnderData(t) \in Seq(C)
  <2>1. CASE UnderData(t) = Rejected
    BY <1>2, <2>1
  <2>2. CASE UnderData(t) # Rejected
    <3>1. UnderData(t) = Root \/ (Len(t) > 1 /\ UnderData(t) = Tail(t))
      BY <1>6, <2>2, UnderDataMeans
    <3>2. Len(t) > 1 => Tail(t) \in Seq(C)
      BY <1>6
    <3> QED
      BY <1>2, <3>1, <3>2
  <2> QED
    BY <2>1, <2>2
<1>8. EntryName(raw, root, dir) \in {Rejected, Root, UnderData(t), t}
  BY <1>3, <1>5, Zenon DEF EntryName
<1> QED
  BY <1>2, <1>6, <1>7, <1>8

LEMMA AncestorsTyped ==
  ASSUME NEW C, NEW name \in Seq(C)
  PROVE  Ancestors(name) \in SUBSET Seq(C)
<1>1. ASSUME NEW k \in 1 .. Len(name) - 1
      PROVE  SubSeq(name, 1, k) \in Seq(C)
  <2>1. k \in Nat /\ \A i \in 1 .. k : name[i] \in C
    BY <1>1
  <2> QED
    BY <2>1, SubSeqProperties
<1> QED
  BY <1>1 DEF Ancestors

\* The copies whose names are of S and whose lists of names are of T.
CopiesOver(S, T) == [ok : BOOLEAN, dirs : SUBSET S, files : SUBSET S, ancestors : SUBSET S, names : T]

LEMMA CopyingIsOver ==
  ASSUME NEW C
  PROVE  Copying(C) = CopiesOver(Seq(C), Seq(Seq(C)))
BY Zenon DEF Copying, CopiesOver

LEMMA CopyFields ==
  ASSUME NEW S, NEW T, NEW s \in CopiesOver(S, T)
  PROVE  s.ok \in BOOLEAN /\ s.dirs \in SUBSET S /\ s.files \in SUBSET S /\ s.ancestors \in SUBSET S /\ s.names \in T
BY DEF CopiesOver

LEMMA CopyRecord ==
  ASSUME NEW S, NEW T, NEW ok \in BOOLEAN, NEW dirs \in SUBSET S, NEW plain \in SUBSET S,
         NEW above \in SUBSET S, NEW names \in T
  PROVE  [ok |-> ok, dirs |-> dirs, files |-> plain, ancestors |-> above, names |-> names] \in CopiesOver(S, T)
BY DEF CopiesOver

LEMMA CopyTyped ==
  ASSUME NEW C, NEW s \in Copying(C)
  PROVE  /\ s.ok \in BOOLEAN /\ s.dirs \in SUBSET Seq(C) /\ s.files \in SUBSET Seq(C)
         /\ s.ancestors \in SUBSET Seq(C) /\ s.names \in Seq(Seq(C))
<1>1. PICK S, T : S = Seq(C) /\ T = Seq(Seq(C))
  OBVIOUS
<1>2. s \in CopiesOver(S, T)
  BY <1>1, CopyingIsOver, Zenon
<1>3. /\ s.ok \in BOOLEAN /\ s.dirs \in SUBSET S /\ s.files \in SUBSET S
      /\ s.ancestors \in SUBSET S /\ s.names \in T
  BY <1>2, CopyFields, Zenon
<1> QED
  BY <1>1, <1>3, Zenon

LEMMA AcceptTyped ==
  ASSUME NEW C, "." \in C, NEW s \in Copying(C), NEW root, NEW e \in EntriesOf(C)
  PROVE  Accept(s, root, e) \in Copying(C)
<1>1. IsDir(e) \in BOOLEAN /\ e.raw \in PathsOf(C)
  BY DEF IsDir, EntriesOf
<1>2. PICK name \in Seq(C) : name = NameIn(root, e)
  BY <1>1, EntryNameTyped DEF NameIn
<1>3. MissingWith(s, name) \in SUBSET Seq(C)
  <2>1. Ancestors(name) \in SUBSET Seq(C) /\ s.ancestors \in SUBSET Seq(C)
    BY AncestorsTyped DEF Copying
  <2> QED
    BY <2>1 DEF MissingWith
<1>4. WithTaken(s, name, IsDir(e)) \in Copying(C)
  <2>1. PICK T, names : T = Seq(C) /\ names = s.names
    OBVIOUS
  <2>2. s.dirs \in SUBSET T /\ s.files \in SUBSET T /\ names \in Seq(T) /\ name \in T
    BY <2>1, CopyTyped, Zenon
  <2>3. /\ Append(names, name) \in Seq(T)
        /\ (IF IsDir(e) THEN s.dirs \cup {name} ELSE s.dirs) \in SUBSET T
        /\ (IF IsDir(e) THEN s.files ELSE s.files \cup {name}) \in SUBSET T
    BY <2>2
  <2>4. MissingWith(s, name) \in SUBSET T
    BY <1>3, <2>1
  <2>5. PICK dirs, plain : /\ dirs = IF IsDir(e) THEN s.dirs \cup {name} ELSE s.dirs
                           /\ plain = IF IsDir(e) THEN s.files ELSE s.files \cup {name}
    OBVIOUS
  <2>6. [ok |-> TRUE, dirs |-> dirs, files |-> plain, ancestors |-> MissingWith(s, name),
         names |-> Append(names, name)] \in CopiesOver(T, Seq(T))
    BY <2>3, <2>4, <2>5, CopyRecord, Zenon
  <2>7. WithTaken(s, name, IsDir(e)) \in CopiesOver(T, Seq(T))
    BY <2>1, <2>5, <2>6, Zenon DEF WithTaken
  <2> QED
    BY <2>1, <2>7, CopyingIsOver, Zenon
<1>5. [s EXCEPT !.ok = FALSE] \in Copying(C)
  BY DEF Copying
<1> QED
  BY <1>2, <1>4, <1>5, AcceptTurns DEF Turned

Ended(s) == [s EXCEPT !.ok = @ /\ Root \in s.dirs]
Copies(acc, entries, root) ==
  /\ acc[0] = Fresh
  /\ \A n \in 1 .. Len(entries) : acc[n] = Accept(acc[n - 1], root, entries[n])
  /\ CopyEntries(entries, root) = Ended(acc[Len(entries)])
TypedCopies(acc, entries, C) == \A n \in 0 .. Len(entries) : acc[n] \in Copying(C)

LEMMA CopyStepwise ==
  ASSUME NEW C, "." \in C, NEW entries \in Seq(EntriesOf(C)), NEW root
  PROVE  \E acc : Copies(acc, entries, root) /\ TypedCopies(acc, entries, C)
<1>1. PICK N : /\ N = Len(entries) /\ N \in Nat /\ DOMAIN entries = 1 .. N
               /\ \A n \in 1 .. N : entries[n] \in EntriesOf(C)
  OBVIOUS
<1> DEFINE T == Copying(C)
           step == [n \in 1 .. N |-> [s \in T |-> Accept(s, root, entries[n])]]
           base == Fresh
<1>2. base \in T
  <2>1. <<>> \in Seq(Seq(C)) /\ {} \in SUBSET Seq(C) /\ TRUE \in BOOLEAN
    OBVIOUS
  <2>2. Fresh \in CopiesOver(Seq(C), Seq(Seq(C)))
    BY <2>1, CopyRecord, Zenon DEF Fresh
  <2> QED
    BY <2>2, CopyingIsOver, Zenon
<1>3. step \in [1 .. N -> [T -> T]]
  <2>1. \A n \in 1 .. N, s \in T : Accept(s, root, entries[n]) \in T
    BY <1>1, AcceptTyped
  <2> HIDE DEF T
  <2> QED
    BY <2>1
<1>4. PICK e : IsFold(e, N, base, step) /\ \A S \in SUBSET (1 .. N) : e[S] \in T
  <2> HIDE DEF step, base, T
  <2> QED
    BY <1>1, <1>2, <1>3, FoldExists, Zenon
<1>5. ASSUME NEW S \in SUBSET (1 .. N), S # {}
      PROVE  step[Max(S)][e[S \ {Max(S)}]] = Accept(e[S \ {Max(S)}], root, entries[Max(S)])
  <2>1. PICK m, R : m = Max(S) /\ R = S \ {m}
    OBVIOUS
  <2>2. m \in 1 .. N /\ e[R] \in T
    BY <1>1, <1>4, <1>5, <2>1, MaxOfPart
  <2> HIDE DEF T
  <2> QED
    BY <2>1, <2>2
<1>6. e = [S \in SUBSET (1 .. N) |-> IF S = {} THEN base ELSE Accept(e[S \ {Max(S)}], root, entries[Max(S)])]
  <2> HIDE DEF step, base, T
  <2> QED
    BY <1>4, <1>5 DEF IsFold
<1>7. PICK it : /\ it = [S \in SUBSET (1 .. N) |->
                           IF S = {} THEN base ELSE Accept(it[S \ {Max(S)}], root, entries[Max(S)])]
                /\ CopyEntries(entries, root) = Ended(it[1 .. N])
  <2> HIDE DEF step
  <2> QED
    BY <1>1, <1>6, Zenon DEF CopyEntries, Ended, FoldLeft, MapThenFoldSet
<1>8. PICK acc : IsUnfolding(acc, it, N)
  <2>1. N \in Nat
    BY <1>1
  <2> HIDE DEF step, base, T
  <2> QED
    BY <2>1, FoldPrefixes, Zenon
<1>9. /\ acc[0] = it[{}] /\ acc[N] = it[1 .. N]
      /\ \A n \in 1 .. N : acc[n] = it[1 .. n] /\ acc[n - 1] = it[(1 .. n) \ {n}]
  BY <1>8, Zenon DEF IsUnfolding
<1> HIDE DEF base, step, T
<1>10. acc[0] = base
  BY <1>7, <1>9
<1>11. ASSUME NEW n \in 1 .. N
       PROVE  acc[n] = Accept(acc[n - 1], root, entries[n])
  <2>1. Max(1 .. n) = n /\ 1 .. n # {}
    BY <1>1, MaxOfTop
  <2>2. 1 .. n \in SUBSET (1 .. N)
    BY <1>1
  <2>3. it[1 .. n] = Accept(it[(1 .. n) \ {n}], root, entries[n])
    BY <1>7, <2>1, <2>2
  <2> QED
    BY <1>9, <2>3
<1>12. \A n \in 0 .. N : acc[n] \in T
  <2> DEFINE X == {n \in 0 .. N : acc[n] \in T}
  <2>1. 0 \in X
    <3>1. acc[0] \in T
      BY <1>2, <1>10, Zenon
    <3>2. 0 \in 0 .. N
      BY <1>1
    <3> QED
      BY <3>1, <3>2, Zenon
  <2>2. ASSUME NEW n \in 0 .. N - 1, n \in X
        PROVE  n + 1 \in X
    <3>1. n + 1 \in 1 .. N /\ (n + 1) - 1 = n /\ n + 1 \in 0 .. N
      BY <1>1
    <3>2. acc[n] \in Copying(C) /\ entries[n + 1] \in EntriesOf(C)
      BY <1>1, <2>2, <3>1 DEF T
    <3>3. acc[n + 1] \in T
      BY <1>11, <3>1, <3>2, AcceptTyped DEF T
    <3> QED
      BY <3>1, <3>3
  <2> HIDE DEF X
  <2>3. ASSUME NEW n \in 0 .. N
        PROVE  n \in X
    <3>1. \A m \in 0 .. n - 1 : m \in X => m + 1 \in X
      BY <1>1, <2>2
    <3>2. n \in Nat
      BY <1>1
    <3> QED
      BY <2>1, <3>1, <3>2, ByInduction, Zenon
  <2> QED
    BY <2>3 DEF X
<1>13. CopyEntries(entries, root) = Ended(acc[N])
  BY <1>7, <1>9, Zenon
<1> QED
  BY <1>1, <1>10, <1>11, <1>12, <1>13, Zenon DEF base, T, Copies, TypedCopies

(* What a name is packed under is accepted as that name. *)

LEMMA DataPathIsData ==
  ASSUME NEW C, "data" \in C, "." \in C, NEW name \in Seq(C), name # <<>>
  PROVE  /\ DataPath(name) \in Seq(C) /\ DataPath(name)[1] = "data"
         /\ Len(DataPath(name)) \in Nat /\ Len(DataPath(name)) > 0
         /\ UnderData(DataPath(name)) = name
<1>1. <<"data">> \in Seq(C) /\ <<"data">>[1] = "data" /\ Len(<<"data">>) = 1
  OBVIOUS
<1>2. CASE name = Root
  <2>1. DataPath(name) = <<"data">>
    BY <1>2, Zenon DEF DataPath
  <2>2. UnderData(<<"data">>) = Root
    BY Zenon DEF UnderData
  <2>3. PICK top : top = <<"data">> /\ top \in Seq(C) /\ top[1] = "data" /\ Len(top) = 1
    BY <1>1, Zenon
  <2> QED
    BY <1>2, <2>1, <2>2, <2>3
<1>3. CASE name # Root
  <2>1. PICK top \in Seq(C) : top = <<"data">> /\ top[1] = "data" /\ Len(top) = 1
    BY <1>1, Zenon
  <2>2. /\ top \o name \in Seq(C) /\ Len(top \o name) = Len(top) + Len(name)
        /\ \A i \in 1 .. Len(top) : (top \o name)[i] = top[i]
        /\ \A i \in 1 .. Len(name) : (top \o name)[Len(top) + i] = name[i]
    BY ConcatParts
  <2>3. Len(name) \in Nat /\ Len(name) > 0
    BY EmptySeq
  <2>4. PICK u \in Seq(C) : /\ u = top \o name /\ Len(u) = 1 + Len(name) /\ u[1] = "data"
                            /\ \A i \in 1 .. Len(name) : u[1 + i] = name[i]
    <3>1. (top \o name)[1] = "data" /\ Len(top \o name) = 1 + Len(name)
      BY <2>1, <2>2
    <3>2. \A i \in 1 .. Len(name) : (top \o name)[1 + i] = name[i]
      BY <2>1, <2>2
    <3> QED
      BY <2>2, <3>1, <3>2
  <2>5. DataPath(name) = u
    BY <1>3, <2>1, <2>4, Zenon DEF DataPath
  <2>6. Len(u) > 1
    BY <2>3, <2>4
  <2>7. u # <<"data">>
    <3>1. Len(u) # 1
      BY <2>3, <2>4
    <3> QED
      BY <1>1, <3>1, Zenon
  <2>8. UnderData(u) = Tail(u)
    BY <2>4, <2>6, <2>7, Zenon DEF UnderData
  <2>9. Tail(u) = name
    <3>1. Tail(u) \in Seq(C) /\ Len(Tail(u)) = Len(u) - 1 /\ \A i \in 1 .. Len(u) - 1 : Tail(u)[i] = u[i + 1]
      BY <2>6
    <3>2. PICK rest \in Seq(C) : /\ rest = Tail(u) /\ Len(rest) = Len(u) - 1
                                 /\ \A i \in 1 .. Len(u) - 1 : rest[i] = u[i + 1]
      BY <3>1
    <3>3. Len(rest) = Len(name) /\ \A i \in 1 .. Len(name) : rest[i] = name[i]
      <4>1. Len(rest) = Len(name)
        BY <2>3, <2>4, <3>2
      <4>2. ASSUME NEW i \in 1 .. Len(name)
            PROVE  rest[i] = name[i]
        <5>1. i \in 1 .. Len(u) - 1 /\ 1 + i = i + 1
          BY <2>3, <2>4
        <5> QED
          BY <2>4, <3>2, <5>1
      <4> QED
        BY <4>1, <4>2
    <3>4. rest = name
      BY <3>3, SeqEqual
    <3> QED
      BY <3>2, <3>4
  <2>10. UnderData(u) = name
    BY <2>8, <2>9, Zenon
  <2>11. Len(u) \in Nat /\ Len(u) > 0
    BY <2>6
  <2> QED
    BY <2>4, <2>5, <2>10, <2>11
<1> QED
  BY <1>2, <1>3

HasParts(C) == {"", ".", "data"} \subseteq C
LEMMA PartsHad ==
  ASSUME NEW C, HasParts(C)
  PROVE  "." \in C /\ "data" \in C /\ \E none \in C : none = ""
BY Zenon DEF HasParts

LEMMA NormalizedName ==
  ASSUME NEW C, HasParts(C), NEW name \in Seq(C), NEW dir \in BOOLEAN,
         (dir /\ name = Root) \/ IsName(name)
  PROVE  /\ Normalized("data", name, dir) \in PathsOf(C)
         /\ EntryName(Normalized("data", name, dir), "data", dir) = name
<1>1. name # <<>>
  BY RootIsNoName, Zenon DEF IsName
<1>2. PICK u \in Seq(C) : u = DataPath(name) /\ u[1] = "data" /\ Len(u) \in Nat /\ Len(u) > 0 /\ UnderData(u) = name
  BY <1>1, PartsHad, DataPathIsData
<1>3. PICK none \in C : none = ""
  BY PartsHad, Zenon
<1>4. PICK raw : raw = IF dir THEN Append(u, none) ELSE u
  OBVIOUS
<1>5. Normalized("data", name, dir) = raw
  BY <1>2, <1>3, <1>4, Zenon DEF Normalized, DataPath
<1>6. raw \in Seq(C) /\ raw[1] = "data" /\ raw # <<>>
  <2>1. Append(u, none) \in Seq(C) /\ Append(u, none)[1] = u[1] /\ Len(Append(u, none)) > 0
    BY <1>2
  <2>2. Append(u, none) # <<>> /\ u # <<>>
    <3>1. \A s \in Seq(C) : Len(s) > 0 => s # <<>>
      OBVIOUS
    <3> QED
      BY <1>2, <2>1, <3>1, Zenon
  <2> QED
    BY <1>2, <1>4, <2>1, <2>2
<1>7. raw \in PathsOf(C)
  BY <1>6, Zenon DEF PathsOf
<1>8. raw # <<".", "">> /\ TrimDotSlash(raw) = raw /\ raw[1] # ""
  <2>1. "data" # "." /\ "data" # ""
    BY Zenon
  <2>2. <<".", "">>[1] = "."
    BY Zenon
  <2>3. raw # <<".", "">>
    BY <1>6, <2>1, <2>2, Zenon
  <2> QED
    BY <1>6, <2>1, <2>3, Zenon DEF TrimDotSlash
<1>9. (IF dir THEN TrimSlash(raw) ELSE raw) = u
  <2>1. CASE dir
    <3>1. raw = Append(u, none)
      BY <1>4, <2>1, Zenon
    <3>2. Append(u, none) \in Seq(C) /\ Len(Append(u, none)) = Len(u) + 1 /\ Append(u, none)[Len(u) + 1] = none
      BY <1>2
    <3>3. Len(raw) > 1 /\ raw[Len(raw)] = none
      BY <1>2, <3>1, <3>2
    <3>4. Last(raw) = none
      BY <3>3, Zenon DEF Last
    <3>5. TrimSlash(raw) = Front(raw)
      BY <1>3, <3>3, <3>4, Zenon DEF TrimSlash
    <3>6. Front(raw) = u
      <4>1. /\ Front(raw) \in Seq(C) /\ Len(Front(raw)) = Len(raw) - 1
            /\ \A i \in 1 .. Len(raw) - 1 : Front(raw)[i] = raw[i]
        BY <1>6, FrontOfPath
      <4>2. PICK f \in Seq(C) : /\ f = Front(raw) /\ Len(f) = Len(u) /\ \A i \in 1 .. Len(u) : f[i] = u[i]
        <5>1. Len(raw) - 1 = Len(u)
          BY <1>2, <3>1, <3>2
        <5>2. \A i \in 1 .. Len(u) : raw[i] = u[i]
          BY <1>2, <3>1
        <5> QED
          BY <4>1, <5>1, <5>2
      <4>3. f = u
        BY <4>2, SeqEqual
      <4> QED
        BY <4>2, <4>3
    <3> QED
      BY <2>1, <3>5, <3>6
  <2>2. CASE ~dir
    BY <1>4, <2>2
  <2> QED
    BY <2>1, <2>2
<1>10. EntryName(raw, "data", dir) = IF name = Root /\ dir THEN Root ELSE IF IsName(name) THEN name ELSE Rejected
  <2>1. (IF raw = <<".", "">> /\ dir THEN Root ELSE TrimDotSlash(raw)) = raw
    BY <1>8, Zenon
  <2> QED
    BY <1>2, <1>8, <1>9, <2>1, Zenon DEF EntryName
<1>11. EntryName(raw, "data", dir) = name
  BY <1>10, Zenon
<1> QED
  BY <1>5, <1>7, <1>11

LEMMA AcceptedNames ==
  ASSUME NEW raw, NEW dir \in BOOLEAN, EntryName(raw, ".", dir) # Rejected
  PROVE  (dir /\ EntryName(raw, ".", dir) = Root) \/ IsName(EntryName(raw, ".", dir))
BY Zenon DEF EntryName

LEMMA CopyMeans ==
  ASSUME NEW C, NEW entries, NEW root, NEW acc,
         Len(entries) \in Nat, Copies(acc, entries, root), TypedCopies(acc, entries, C)
  PROVE  /\ CopyEntries(entries, root).ok <=> acc[Len(entries)].ok /\ Root \in acc[Len(entries)].dirs
         /\ CopyEntries(entries, root).names = acc[Len(entries)].names
<1>1. PICK s \in Copying(C) : s = acc[Len(entries)]
  BY DEF TypedCopies
<1>2. CopyEntries(entries, root) = [s EXCEPT !.ok = s.ok /\ Root \in s.dirs]
  BY <1>1, Zenon DEF Copies, Ended
<1>3. /\ [s EXCEPT !.ok = s.ok /\ Root \in s.dirs].ok = (s.ok /\ Root \in s.dirs)
      /\ [s EXCEPT !.ok = s.ok /\ Root \in s.dirs].names = s.names
  BY DEF Copying
<1> QED
  BY <1>1, <1>2, <1>3

LEMMA TurnedOk ==
  ASSUME NEW C, NEW s \in Copying(C), NEW root, NEW e, Accept(s, root, e).ok
  PROVE  /\ s.ok /\ IsPlain(e) /\ Admitted(s, NameIn(root, e), IsDir(e))
         /\ Accept(s, root, e) = WithTaken(s, NameIn(root, e), IsDir(e))
<1>1. Accept(s, root, e) = Turned(s, root, e)
  BY AcceptTurns
<1>2. CASE s.ok /\ IsPlain(e) /\ Admitted(s, NameIn(root, e), IsDir(e))
  BY <1>1, <1>2, Zenon DEF Turned
<1>3. CASE ~(s.ok /\ IsPlain(e) /\ Admitted(s, NameIn(root, e), IsDir(e)))
  <2>1. Turned(s, root, e) = [s EXCEPT !.ok = FALSE]
    BY <1>3, Zenon DEF Turned
  <2>2. [s EXCEPT !.ok = FALSE].ok = FALSE
    BY DEF Copying
  <2> QED
    BY <1>1, <2>1, <2>2
<1> QED
  BY <1>2, <1>3

WasAccepted(acc, entries, root, n) ==
  /\ acc[n - 1].ok /\ acc[n].ok /\ IsPlain(entries[n])
  /\ Admitted(acc[n - 1], NameIn(root, entries[n]), IsDir(entries[n]))
  /\ acc[n] = WithTaken(acc[n - 1], NameIn(root, entries[n]), IsDir(entries[n]))

(* When all have been accepted, each was. *)
LEMMA EachWasAccepted ==
  ASSUME NEW C, NEW entries, NEW root, NEW acc, NEW N \in Nat, N = Len(entries),
         Copies(acc, entries, root), TypedCopies(acc, entries, C), acc[N].ok
  PROVE  \A n \in 1 .. N : WasAccepted(acc, entries, root, n)
<1>1. ASSUME NEW n \in 1 .. N, acc[n].ok
      PROVE  /\ acc[n - 1].ok /\ IsPlain(entries[n])
             /\ Admitted(acc[n - 1], NameIn(root, entries[n]), IsDir(entries[n]))
             /\ acc[n] = WithTaken(acc[n - 1], NameIn(root, entries[n]), IsDir(entries[n]))
  <2>1. n - 1 \in 0 .. N /\ n \in 1 .. Len(entries) /\ 0 .. N = 0 .. Len(entries)
    OBVIOUS
  <2>2. acc[n - 1] \in Copying(C) /\ acc[n] = Accept(acc[n - 1], root, entries[n])
    BY <2>1 DEF Copies, TypedCopies
  <2>3. PICK s, e : s = acc[n - 1] /\ e = entries[n]
    OBVIOUS
  <2>4. s \in Copying(C) /\ acc[n] = Accept(s, root, e) /\ Accept(s, root, e).ok
    BY <1>1, <2>2, <2>3
  <2>5. /\ s.ok /\ IsPlain(e) /\ Admitted(s, NameIn(root, e), IsDir(e))
        /\ Accept(s, root, e) = WithTaken(s, NameIn(root, e), IsDir(e))
    BY <2>4, TurnedOk, Zenon
  <2> QED
    BY <2>3, <2>4, <2>5
<1> DEFINE X == {k \in 0 .. N : acc[N - k].ok}
<1>2. 0 \in X
  OBVIOUS
<1>3. ASSUME NEW k \in 0 .. N - 1, k \in X
      PROVE  k + 1 \in X
  <2>1. N - k \in 1 .. N /\ (N - k) - 1 = N - (k + 1) /\ k + 1 \in 0 .. N
    OBVIOUS
  <2>2. acc[N - k].ok
    BY <1>3
  <2>3. acc[(N - k) - 1].ok
    BY <1>1, <2>1, <2>2
  <2> QED
    BY <2>1, <2>3
<1>4. ASSUME NEW n \in 0 .. N
      PROVE  acc[n].ok
  <2>1. PICK m \in Nat : m = N - n /\ m <= N /\ N - m = n
    OBVIOUS
  <2>2. \A k \in 0 .. m - 1 : k \in X => k + 1 \in X
    <3>1. \A k \in 0 .. m - 1 : k \in 0 .. N - 1
      BY <2>1
    <3> HIDE DEF X
    <3> QED
      BY <1>3, <3>1
  <2>3. m \in X
    <3> HIDE DEF X
    <3> QED
      BY <1>2, <2>1, <2>2, ByInduction, Zenon
  <2> QED
    BY <2>1, <2>3
<1>5. ASSUME NEW n \in 1 .. N
      PROVE  acc[n].ok
  <2>1. n \in 0 .. N
    OBVIOUS
  <2> QED
    BY <1>4, <2>1
<1> QED
  BY <1>1, <1>5, Zenon DEF WasAccepted

(* The names, in the order of the entries. *)
NamedInOrder(names, entries, root, N) ==
  Len(names) = N /\ \A n \in 1 .. N : names[n] = NameIn(root, entries[n])

LEMMA NamesInOrder ==
  ASSUME NEW C, NEW entries, NEW root, NEW acc, NEW N \in Nat, N = Len(entries),
         Copies(acc, entries, root), TypedCopies(acc, entries, C), acc[N].ok
  PROVE  NamedInOrder(acc[N].names, entries, root, N)
<1> DEFINE X == {k \in 0 .. N : Len(acc[k].names) = k /\ \A n \in 1 .. k : acc[k].names[n] = NameIn(root, entries[n])}
<1>1. 0 \in X
  <2>1. acc[0].names = <<>>
    BY DEF Copies, Fresh
  <2> QED
    BY <2>1
<1>2. ASSUME NEW k \in 0 .. N - 1, k \in X
      PROVE  k + 1 \in X
  <2>1. k + 1 \in 1 .. N /\ (k + 1) - 1 = k /\ k + 1 \in 0 .. N /\ k \in 0 .. Len(entries)
    OBVIOUS
  <2>2. acc[k + 1] = WithTaken(acc[k], NameIn(root, entries[k + 1]), IsDir(entries[k + 1]))
    <3>1. \A n \in 1 .. N : acc[n] = WithTaken(acc[n - 1], NameIn(root, entries[n]), IsDir(entries[n]))
      <4>1. \A n \in 1 .. N : WasAccepted(acc, entries, root, n)
        BY EachWasAccepted, Zenon
      <4> QED
        BY <4>1, Zenon DEF WasAccepted
    <3>2. acc[k + 1] = WithTaken(acc[(k + 1) - 1], NameIn(root, entries[k + 1]), IsDir(entries[k + 1]))
      BY <2>1, <3>1, Zenon
    <3> QED
      BY <2>1, <3>2, Zenon
  <2>3. PICK names, name :
          names \in Seq(Seq(C)) /\ names = acc[k].names /\ name = NameIn(root, entries[k + 1])
    BY <2>1 DEF TypedCopies, Copying
  <2>4. acc[k + 1].names = Append(names, name)
    BY <2>2, <2>3 DEF WithTaken
  <2>5. Len(names) = k /\ \A n \in 1 .. k : names[n] = NameIn(root, entries[n])
    BY <1>2, <2>3
  <2>6. Len(Append(names, name)) = k + 1 /\ \A n \in 1 .. k : Append(names, name)[n] = names[n]
    BY <2>5
  <2>7. Append(names, name)[k + 1] = name
    BY <2>5
  <2>8. ASSUME NEW n \in 1 .. k + 1
        PROVE  acc[k + 1].names[n] = NameIn(root, entries[n])
    <3>1. n \in 1 .. k \/ n = k + 1
      OBVIOUS
    <3> QED
      BY <2>3, <2>4, <2>5, <2>6, <2>7, <3>1
  <2> QED
    BY <2>1, <2>4, <2>6, <2>8
<1>3. N \in X
  <2> HIDE DEF X
  <2> QED
    BY <1>1, <1>2, ByInduction, Zenon
<1> QED
  BY <1>3 DEF NamedInOrder

(* What is packed is accepted. *)

(* An entry as it is packed, under the name that was accepted. *)
Repacked(e, name) == [raw |-> Normalized("data", name, IsDir(e)), type |-> e.type, special |-> FALSE]

LEMMA PackedEntries ==
  ASSUME NEW C, NEW entries, NEW acc, NEW N \in Nat, N = Len(entries),
         Copies(acc, entries, "."), TypedCopies(acc, entries, C), acc[N].ok
  PROVE  Packed(entries) = [n \in 1 .. N |-> Repacked(entries[n], NameIn(".", entries[n]))]
<1>1. PICK names : names = CopyEntries(entries, ".").names
  OBVIOUS
<1>2. names = acc[N].names
  BY <1>1, CopyMeans
<1>3. acc[N].names \in Seq(Seq(C))
  <2>1. N \in 0 .. Len(entries)
    OBVIOUS
  <2>2. acc[N] \in Copying(C)
    BY <2>1, Zenon DEF TypedCopies
  <2>3. PICK s \in Copying(C) : s = acc[N]
    BY <2>2, Zenon
  <2>4. s.names \in Seq(Seq(C))
    BY CopyTyped, Zenon
  <2> QED
    BY <2>3, <2>4, Zenon
<1>4. Len(names) = N /\ \A n \in 1 .. N : names[n] = NameIn(".", entries[n])
  <2>1. NamedInOrder(acc[N].names, entries, ".", N)
    BY NamesInOrder, Zenon
  <2> QED
    BY <1>2, <2>1, Zenon DEF NamedInOrder
<1>5. DOMAIN names = 1 .. N
  BY <1>2, <1>3, <1>4
<1>6. Packed(entries) = [i \in DOMAIN names |-> Repacked(entries[i], names[i])]
  BY <1>1, Zenon DEF Packed, Rewritten, Repacked, IsDir
<1> QED
  BY <1>4, <1>5, <1>6

LEMMA RepackedIsAccepted ==
  ASSUME NEW C, HasParts(C), NEW s \in Copying(C), NEW e \in EntriesOf(C), Accept(s, ".", e).ok
  PROVE  /\ Repacked(e, NameIn(".", e)) \in EntriesOf(C)
         /\ Accept(s, "data", Repacked(e, NameIn(".", e))) = Accept(s, ".", e)
<1>1. PICK name, p : name = NameIn(".", e) /\ p = Repacked(e, name)
  OBVIOUS
<1>2. /\ s.ok /\ IsPlain(e) /\ Admitted(s, name, IsDir(e))
      /\ Accept(s, ".", e) = WithTaken(s, name, IsDir(e))
  BY <1>1, TurnedOk
<1>3. IsDir(e) \in BOOLEAN /\ e.raw \in PathsOf(C) /\ e.type \in {"file", "dir", "other"}
  BY DEF IsDir, EntriesOf
<1>4. name \in Seq(C)
  BY <1>1, <1>3, PartsHad, EntryNameTyped DEF NameIn
<1>5. (IsDir(e) /\ name = Root) \/ IsName(name)
  <2>1. EntryName(e.raw, ".", IsDir(e)) = name
    BY <1>1, Zenon DEF NameIn
  <2>2. name # Rejected
    BY <1>2 DEF Admitted
  <2>3. EntryName(e.raw, ".", IsDir(e)) # Rejected
    BY <2>1, <2>2
  <2> QED
    BY <1>3, <2>1, <2>3, AcceptedNames
<1>6. /\ Normalized("data", name, IsDir(e)) \in PathsOf(C)
      /\ EntryName(Normalized("data", name, IsDir(e)), "data", IsDir(e)) = name
  BY <1>3, <1>4, <1>5, NormalizedName
<1>7. p.raw = Normalized("data", name, IsDir(e)) /\ p.type = e.type /\ p.special = FALSE
  BY <1>1 DEF Repacked
<1>8. p \in EntriesOf(C)
  BY <1>1, <1>3, <1>6 DEF Repacked, EntriesOf
<1>9. IsDir(p) = IsDir(e)
  BY <1>7 DEF IsDir
<1>10. NameIn("data", p) = name
  BY <1>6, <1>7, <1>9 DEF NameIn
<1>11. IsPlain(p)
  BY <1>2, <1>7 DEF IsPlain
<1>12. Accept(s, "data", p) = WithTaken(s, name, IsDir(e))
  <2>1. Accept(s, "data", p) = Turned(s, "data", p)
    BY AcceptTurns
  <2> QED
    BY <1>2, <1>9, <1>10, <1>11, <2>1 DEF Turned
<1> QED
  BY <1>1, <1>2, <1>8, <1>12

LEMMA PackedHolds ==
  ASSUME NEW C, HasParts(C), NEW entries \in Seq(EntriesOf(C)), Packs(entries)
  PROVE  Accepts(Packed(entries)) /\ CopyEntries(Packed(entries), "data").names = CopyEntries(entries, ".").names
<1>1. PICK N : N = Len(entries) /\ N \in Nat /\ \A n \in 1 .. N : entries[n] \in EntriesOf(C)
  OBVIOUS
<1>2. PICK acc : Copies(acc, entries, ".") /\ TypedCopies(acc, entries, C)
  BY PartsHad, CopyStepwise
<1>3. /\ acc[N].ok /\ Root \in acc[N].dirs
      /\ CopyEntries(entries, ".").names = acc[N].names
  BY <1>1, <1>2, CopyMeans DEF Packs
<1>4. PICK packed : packed = Packed(entries)
  OBVIOUS
<1>5. packed = [n \in 1 .. N |-> Repacked(entries[n], NameIn(".", entries[n]))]
  BY <1>1, <1>2, <1>3, <1>4, PackedEntries, Zenon
<1>6. ASSUME NEW n \in 1 .. N
      PROVE  /\ acc[n - 1] \in Copying(C) /\ acc[n] = Accept(acc[n - 1], ".", entries[n])
             /\ packed[n] \in EntriesOf(C) /\ Accept(acc[n - 1], "data", packed[n]) = acc[n]
  <2>1. n - 1 \in 0 .. Len(entries) /\ n \in 1 .. Len(entries)
    BY <1>1
  <2>2. PICK s, e : s = acc[n - 1] /\ e = entries[n]
    OBVIOUS
  <2>3. s \in Copying(C) /\ e \in EntriesOf(C)
    BY <1>1, <1>2, <2>1, <2>2 DEF TypedCopies
  <2>4. acc[n] = Accept(s, ".", e)
    BY <1>2, <2>1, <2>2 DEF Copies
  <2>5. acc[n].ok
    <3>1. \A m \in 1 .. N : WasAccepted(acc, entries, ".", m)
      BY <1>1, <1>2, <1>3, EachWasAccepted
    <3> QED
      BY <3>1, Zenon DEF WasAccepted
  <2>6. Accept(s, ".", e).ok
    BY <2>4, <2>5
  <2>7. /\ Repacked(e, NameIn(".", e)) \in EntriesOf(C)
        /\ Accept(s, "data", Repacked(e, NameIn(".", e))) = Accept(s, ".", e)
    BY <2>3, <2>6, RepackedIsAccepted
  <2>8. packed[n] = Repacked(e, NameIn(".", e))
    BY <1>5, <2>2
  <2> QED
    BY <2>2, <2>3, <2>4, <2>7, <2>8
<1>7. packed \in Seq(EntriesOf(C)) /\ Len(packed) = N
  <2>1. packed \in [1 .. N -> EntriesOf(C)]
    BY <1>5, <1>6
  <2>2. N \in Nat
    BY <1>1
  <2> QED
    BY <2>1, <2>2, FunctionIsSeq
<1>8. PICK again : Copies(again, packed, "data") /\ TypedCopies(again, packed, C)
  BY <1>7, PartsHad, CopyStepwise
<1> DEFINE X == {n \in 0 .. N : again[n] = acc[n]}
<1>9. 0 \in X
  BY <1>1, <1>2, <1>8 DEF Copies
<1>10. ASSUME NEW n \in 0 .. N - 1, n \in X
       PROVE  n + 1 \in X
  <2>1. n + 1 \in 1 .. N /\ (n + 1) - 1 = n /\ n + 1 \in 0 .. N /\ n + 1 \in 1 .. Len(packed)
    BY <1>1, <1>7
  <2>2. again[n] = acc[n]
    BY <1>10
  <2>3. again[n + 1] = Accept(again[(n + 1) - 1], "data", packed[n + 1])
    BY <1>8, <2>1 DEF Copies
  <2>4. Accept(acc[(n + 1) - 1], "data", packed[n + 1]) = acc[n + 1]
    BY <1>6, <2>1
  <2>5. again[n + 1] = acc[n + 1]
    BY <2>1, <2>2, <2>3, <2>4
  <2> QED
    BY <2>1, <2>5
<1>11. again[N] = acc[N]
  <2>1. N \in X
    <3> HIDE DEF X
    <3> QED
      BY <1>1, <1>9, <1>10, ByInduction, Zenon
  <2> QED
    BY <2>1
<1>12. /\ CopyEntries(packed, "data").ok <=> again[N].ok /\ Root \in again[N].dirs
       /\ CopyEntries(packed, "data").names = again[N].names
  BY <1>1, <1>7, <1>8, CopyMeans
<1> QED
  BY <1>3, <1>4, <1>11, <1>12 DEF Accepts

-----------------------------------------------------------------------------
(* What the first k entries are, and whether they are part of a tree. *)

NodesOf(entries, k) == {NameOf(entries[i]) : i \in 1 .. k}
OfType(entries, k, type) == {NameOf(entries[i]) : i \in {j \in 1 .. k : entries[j].type = type}}
InnerOf(entries, k) == UNION {Ancestors(n) : n \in NodesOf(entries, k)}
Distinct(entries, k) == \A i, j \in 1 .. k : NameOf(entries[i]) = NameOf(entries[j]) => i = j
Fitting(nodes, plain, inner) ==
  Root \notin plain /\ plain \cap inner = {} /\ Cardinality(nodes \cup inner) <= MaxEntries
GrowsTree(entries, k) ==
  /\ \A i \in 1 .. k : IsPlain(entries[i])
  /\ Distinct(entries, k)
  /\ Fitting(NodesOf(entries, k), OfType(entries, k, "file"), InnerOf(entries, k))

(* An entry that has the name tar gives such an entry, in the archive. *)
TarNamed(e) ==
  IsPlain(e) =>
    \/ NameIn("data", e) # Rejected
    \/ e.type = "file" /\ NameIn("data", e) = Rejected /\ Clean(e.raw) = <<"data">>

LEMMA ImageIsFinite ==
  ASSUME NEW S, IsFiniteSet(S), NEW f, DOMAIN f = S
  PROVE  IsFiniteSet({f[x] : x \in S})
<1> DEFINE T == {f[x] : x \in S}
           g == [x \in S |-> f[x]]
<1>1. g \in [S -> T] /\ \A t \in T : \E x \in S : g[x] = t
  OBVIOUS
<1>2. g \in Surjection(S, T)
  <2> HIDE DEF g, T
  <2> QED
    BY <1>1 DEF Surjection
<1> HIDE DEF g, T
<1> QED
  BY <1>2, FS_Surjection DEF T

LEMMA AncestorsAbove ==
  ASSUME NEW C, NEW x \in Seq(C)
  PROVE  IsFiniteSet(Ancestors(x)) /\ x \notin Ancestors(x)
<1>1. PICK l \in Int : l = Len(x) - 1 /\ Len(x) \in Nat
  OBVIOUS
<1>2. IsFiniteSet(1 .. l)
  BY FS_Interval
<1>3. PICK f : f = [k \in 1 .. l |-> SubSeq(x, 1, k)]
  OBVIOUS
<1>4. Ancestors(x) = {f[k] : k \in 1 .. l}
  <2>1. 1 .. Len(x) - 1 = 1 .. l /\ \A k \in 1 .. l : f[k] = SubSeq(x, 1, k)
    BY <1>1, <1>3
  <2> QED
    BY <2>1, Zenon DEF Ancestors
<1>5. IsFiniteSet({f[k] : k \in 1 .. l})
  <2>1. DOMAIN f = 1 .. l
    BY <1>3
  <2> QED
    BY <1>2, <2>1, ImageIsFinite, Zenon
<1>6. ASSUME NEW k \in 1 .. l
      PROVE  SubSeq(x, 1, k) # x
  <2>1. k \in Nat /\ k < Len(x) /\ \A i \in 1 .. k : x[i] \in C
    BY <1>1
  <2>2. Len(SubSeq(x, 1, k)) = k
    BY <2>1, SubSeqProperties
  <2>3. Len(x) # k
    BY <1>1, <2>1
  <2> QED
    BY <2>2, <2>3, Zenon
<1>7. x \notin Ancestors(x)
  BY <1>3, <1>4, <1>6
<1> QED
  BY <1>4, <1>5, <1>7

LEMMA NameOfEntry ==
  ASSUME NEW C, HasParts(C), NEW e \in EntriesOf(C), NameIn("data", e) # Rejected
  PROVE  NameOf(e) = NameIn("data", e) /\ NameIn("data", e) \in Seq(C)
<1>1. IsDir(e) \in BOOLEAN /\ e.raw \in PathsOf(C) /\ e.raw \in Seq(C) /\ e.raw # <<>> /\ "." \in C /\ "data" \in C
  BY PartsHad DEF IsDir, EntriesOf, PathsOf
<1>2. PICK name : name = NameIn("data", e)
  OBVIOUS
<1>3. name = EntryName(e.raw, "data", IsDir(e))
  BY <1>2 DEF NameIn
<1>4. name \in Seq(C)
  BY <1>1, <1>3, EntryNameTyped
<1>5. name # <<>> /\ EntryName(e.raw, "data", IsDir(e)) # Rejected
  BY <1>2, <1>3 DEF Rejected
<1>6. Clean(e.raw) = DataPath(name)
  BY <1>1, <1>3, <1>5, EntriesAreBelowData
<1>7. UnderData(DataPath(name)) = name /\ DataPath(name)[1] = "data"
  BY <1>1, <1>4, <1>5, DataPathIsData
<1>8. NameOf(e) = IF DataPath(name) = <<"data">> THEN Root ELSE Tail(DataPath(name))
  BY <1>6, Zenon DEF NameOf
<1>9. name = IF DataPath(name) = <<"data">> THEN Root
             ELSE IF Len(DataPath(name)) > 1 /\ DataPath(name)[1] = "data" THEN Tail(DataPath(name)) ELSE Rejected
  BY <1>7, Zenon DEF UnderData
<1>10. NameOf(e) = name
  <2>1. PICK path, rest : path = DataPath(name) /\ rest = Tail(path)
    OBVIOUS
  <2>2. CASE path = <<"data">>
    BY <1>8, <1>9, <2>1, <2>2, Zenon
  <2>3. CASE path # <<"data">> /\ Len(path) > 1 /\ path[1] = "data"
    <3>1. NameOf(e) = Tail(DataPath(name)) /\ name = Tail(DataPath(name))
      BY <1>8, <1>9, <2>1, <2>3, Zenon
    <3> QED
      BY <3>1, Zenon
  <2>4. CASE path # <<"data">> /\ ~(Len(path) > 1 /\ path[1] = "data")
    <3>1. name = Rejected
      BY <1>9, <2>1, <2>4, Zenon
    <3> QED
      BY <1>5, <3>1, Zenon DEF Rejected
  <2> QED
    BY <2>2, <2>3, <2>4, Zenon
<1> QED
  BY <1>2, <1>4, <1>10

(* One entry more. *)
LEMMA NodesGrow ==
  ASSUME NEW entries, NEW k \in Nat
  PROVE  /\ NodesOf(entries, k + 1) = NodesOf(entries, k) \cup {NameOf(entries[k + 1])}
         /\ InnerOf(entries, k + 1) = InnerOf(entries, k) \cup Ancestors(NameOf(entries[k + 1]))
         /\ \A type : OfType(entries, k + 1, type)
              = IF entries[k + 1].type = type THEN OfType(entries, k, type) \cup {NameOf(entries[k + 1])}
                ELSE OfType(entries, k, type)
         /\ Distinct(entries, k + 1) <=> Distinct(entries, k) /\ NameOf(entries[k + 1]) \notin NodesOf(entries, k)
<1>1. 1 .. k + 1 = (1 .. k) \cup {k + 1} /\ k + 1 \notin 1 .. k
  OBVIOUS
<1>2. PICK f : f = [i \in 1 .. k + 1 |-> NameOf(entries[i])]
  OBVIOUS
<1>3. PICK x : x = NameOf(entries[k + 1])
  OBVIOUS
<1>4. \A i \in 1 .. k + 1 : f[i] = NameOf(entries[i])
  BY <1>2
<1>5. NodesOf(entries, k + 1) = NodesOf(entries, k) \cup {x}
  BY <1>1, <1>3, Zenon DEF NodesOf
<1>6. InnerOf(entries, k + 1) = InnerOf(entries, k) \cup Ancestors(x)
  BY <1>5, Zenon DEF InnerOf
<1>7. ASSUME NEW type
      PROVE  OfType(entries, k + 1, type)
               = IF entries[k + 1].type = type THEN OfType(entries, k, type) \cup {x} ELSE OfType(entries, k, type)
  <2>1. ASSUME NEW y
        PROVE  y \in OfType(entries, k + 1, type)
                 <=> y \in OfType(entries, k, type) \/ (entries[k + 1].type = type /\ y = x)
    BY <1>1, <1>3, Zenon DEF OfType
  <2>2. CASE entries[k + 1].type = type
    BY <2>1, <2>2
  <2>3. CASE entries[k + 1].type # type
    BY <2>1, <2>3
  <2> QED
    BY <2>2, <2>3
<1>8. Distinct(entries, k + 1) <=> Distinct(entries, k) /\ x \notin NodesOf(entries, k)
  BY <1>1, <1>3, Zenon DEF Distinct, NodesOf
<1> QED
  BY <1>3, <1>5, <1>6, <1>7, <1>8

(* The sets a copy keeps are those of the entries so far. *)

Agreeing(s, entries, k) ==
  /\ s.dirs = OfType(entries, k, "dir") /\ s.files = OfType(entries, k, "file")
  /\ s.ancestors = InnerOf(entries, k) \ NodesOf(entries, k)
  /\ Seen(s) = NodesOf(entries, k)

AdmitsTo(s, x, dir, nodes, plain, inner) ==
  /\ MissingWith(s, x) = (inner \cup Ancestors(x)) \ (nodes \cup {x})
  /\ Admitted(s, x, dir)
       <=> /\ x \notin nodes
           /\ Fitting(nodes \cup {x}, IF dir THEN plain ELSE plain \cup {x}, inner \cup Ancestors(x))

(* What an entry does to them, and what it must not conflict with. *)
LEMMA AdmittedMeans ==
  ASSUME NEW s, NEW nodes, NEW plain, NEW inner, NEW x, NEW dir \in BOOLEAN,
         IsFiniteSet(nodes), IsFiniteSet(inner), IsFiniteSet(Ancestors(x)), x \notin Ancestors(x), x # Rejected,
         s.files = plain, Seen(s) = nodes, s.ancestors = inner \ nodes,
         plain \subseteq nodes, Root \notin plain, plain \cap inner = {}
  PROVE  AdmitsTo(s, x, dir, nodes, plain, inner)
<1>1. PICK anc : anc = Ancestors(x) /\ IsFiniteSet(anc) /\ x \notin anc
  OBVIOUS
<1>2. PICK after : after = nodes \cup {x} /\ IsFiniteSet(after)
  BY FS_AddElement
<1>3. PICK missing : missing = (inner \cup anc) \ after
  OBVIOUS
<1>4. MissingWith(s, x) = missing
  BY <1>1, <1>2, <1>3 DEF MissingWith
<1>5. IsFiniteSet(missing)
  <2>1. IsFiniteSet(inner \cup anc)
    BY <1>1, FS_Union
  <2>2. missing \in SUBSET (inner \cup anc)
    BY <1>3
  <2> QED
    BY <2>1, <2>2, FS_Subset
<1>6. Cardinality(after) + Cardinality(missing) = Cardinality(after \cup (inner \cup anc))
  <2>1. after \cup missing = after \cup (inner \cup anc) /\ after \cap missing = {}
    BY <1>3
  <2>2. Cardinality({}) = 0 /\ Cardinality(after) \in Nat /\ Cardinality(missing) \in Nat
    BY <1>2, <1>5, FS_EmptySet, FS_CardinalityType
  <2>3. Cardinality(after \cup missing) = Cardinality(after) + Cardinality(missing) - Cardinality(after \cap missing)
    BY <1>2, <1>5, FS_Union
  <2>4. Cardinality(after \cap missing) = 0
    BY <2>1, <2>2
  <2>5. Cardinality(after \cup missing) = Cardinality(after) + Cardinality(missing)
    BY <2>2, <2>3, <2>4
  <2> QED
    BY <2>1, <2>5
<1>7. PICK size : size = Cardinality(after \cup (inner \cup anc)) /\ size \in Nat
  BY <1>2, <1>5, <1>6, FS_CardinalityType
<1>8. ~Conflicts(s, x, dir)
        <=> /\ x \notin nodes /\ ~(x = Root /\ ~dir) /\ ~(~dir /\ x \in inner \ nodes) /\ anc \cap plain = {}
  BY <1>1, Zenon DEF Conflicts
<1>9. PICK now : now = IF dir THEN plain ELSE plain \cup {x}
  OBVIOUS
<1>10. ~Conflicts(s, x, dir) <=> x \notin nodes /\ Root \notin now /\ now \cap (inner \cup anc) = {}
  <2>1. CASE dir
    BY <1>8, <1>9, <2>1
  <2>2. CASE ~dir
    BY <1>1, <1>8, <1>9, <2>2
  <2> QED
    BY <2>1, <2>2
<1>11. ~(size > MaxEntries) <=> size <= MaxEntries
  BY <1>7, VolumeArchiveAssumption
<1>12. Admitted(s, x, dir) <=> ~Conflicts(s, x, dir) /\ ~(size > MaxEntries)
  BY <1>2, <1>4, <1>6, <1>7, Zenon DEF Admitted
<1>13. Fitting(after, now, inner \cup anc)
         <=> Root \notin now /\ now \cap (inner \cup anc) = {} /\ size <= MaxEntries
  BY <1>7 DEF Fitting
<1> QED
  BY <1>1, <1>2, <1>3, <1>4, <1>9, <1>10, <1>11, <1>12, <1>13, Zenon DEF AdmitsTo

LEMMA TreeGrows ==
  ASSUME NEW C, HasParts(C), NEW entries \in Seq(EntriesOf(C)), NEW k \in Nat, k + 1 \in 1 .. Len(entries),
         TarNamed(entries[k + 1]), NEW s \in Copying(C), s.ok,
         GrowsTree(entries, k), Agreeing(s, entries, k),
         IsFiniteSet(NodesOf(entries, k)), IsFiniteSet(InnerOf(entries, k))
  PROVE  /\ Accept(s, "data", entries[k + 1]).ok <=> GrowsTree(entries, k + 1)
         /\ Accept(s, "data", entries[k + 1]).ok =>
              /\ Agreeing(Accept(s, "data", entries[k + 1]), entries, k + 1)
              /\ IsFiniteSet(NodesOf(entries, k + 1)) /\ IsFiniteSet(InnerOf(entries, k + 1))
<1>1. PICK e \in EntriesOf(C) : e = entries[k + 1]
  OBVIOUS
<1>2. PICK name, x, dir, dirs, plain, nodes, inner, anc :
        /\ name = NameIn("data", e) /\ x = NameOf(e) /\ dir = IsDir(e) /\ anc = Ancestors(x)
        /\ dirs = OfType(entries, k, "dir") /\ plain = OfType(entries, k, "file")
        /\ nodes = NodesOf(entries, k) /\ inner = InnerOf(entries, k)
  OBVIOUS
<1>3. dir \in BOOLEAN /\ (dir <=> e.type = "dir")
  BY <1>2 DEF IsDir
<1>4. /\ NodesOf(entries, k + 1) = nodes \cup {x} /\ InnerOf(entries, k + 1) = inner \cup anc
      /\ OfType(entries, k + 1, "dir") = IF e.type = "dir" THEN dirs \cup {x} ELSE dirs
      /\ OfType(entries, k + 1, "file") = IF e.type = "file" THEN plain \cup {x} ELSE plain
      /\ Distinct(entries, k + 1) <=> Distinct(entries, k) /\ x \notin nodes
  <2>1. e = entries[k + 1] /\ x = NameOf(entries[k + 1]) /\ anc = Ancestors(x) /\ nodes = NodesOf(entries, k)
        /\ inner = InnerOf(entries, k) /\ dirs = OfType(entries, k, "dir") /\ plain = OfType(entries, k, "file")
    BY <1>1, <1>2, Zenon
  <2>2. NodesOf(entries, k + 1) = nodes \cup {x} /\ InnerOf(entries, k + 1) = inner \cup anc
    BY <2>1, NodesGrow, Zenon
  <2>3. \A type : OfType(entries, k + 1, type)
                   = IF e.type = type THEN OfType(entries, k, type) \cup {x} ELSE OfType(entries, k, type)
    BY <2>1, NodesGrow, Zenon
  <2>4. Distinct(entries, k + 1) <=> Distinct(entries, k) /\ x \notin nodes
    BY <2>1, NodesGrow, Zenon
  <2> QED
    BY <2>1, <2>2, <2>3, <2>4, Zenon
<1>5. (\A i \in 1 .. k + 1 : IsPlain(entries[i])) <=> (\A i \in 1 .. k : IsPlain(entries[i])) /\ IsPlain(e)
  <2>1. 1 .. k + 1 = (1 .. k) \cup {k + 1}
    OBVIOUS
  <2> QED
    BY <1>1, <2>1, Zenon
<1>6. /\ \A i \in 1 .. k : IsPlain(entries[i])
      /\ Distinct(entries, k) /\ Root \notin plain /\ plain \cap inner = {}
  BY <1>2, Zenon DEF GrowsTree, Fitting
<1>7. /\ s.dirs = dirs /\ s.files = plain /\ s.ancestors = inner \ nodes /\ Seen(s) = nodes
      /\ IsFiniteSet(nodes) /\ IsFiniteSet(inner) /\ plain \subseteq nodes
  BY <1>2, Zenon DEF Agreeing, Seen
<1>8. Accept(s, "data", e) = Turned(s, "data", e)
  BY AcceptTurns
<1>9. GrowsTree(entries, k + 1)
        <=> /\ IsPlain(e) /\ x \notin nodes
            /\ Fitting(nodes \cup {x}, OfType(entries, k + 1, "file"), inner \cup anc)
  BY <1>4, <1>5, <1>6, Zenon DEF GrowsTree
<1>10. CASE ~IsPlain(e)
  <2>1. ~Accept(s, "data", e).ok
    <3>1. Accept(s, "data", e) = [s EXCEPT !.ok = FALSE]
      BY <1>8, <1>10, Zenon DEF Turned
    <3>2. [s EXCEPT !.ok = FALSE].ok = FALSE
      BY DEF Copying
    <3> QED
      BY <3>1, <3>2
  <2> QED
    BY <1>1, <1>9, <1>10, <2>1, Zenon
<1>11. CASE IsPlain(e) /\ name = Rejected
  <2>1. e.type = "file" /\ Clean(e.raw) = <<"data">>
    BY <1>1, <1>2, <1>11, Zenon DEF TarNamed
  <2>2. x = Root
    BY <1>2, <2>1, Zenon DEF NameOf
  <2>3. Root \in OfType(entries, k + 1, "file")
    BY <1>4, <2>1, <2>2
  <2>4. ~GrowsTree(entries, k + 1)
    BY <1>9, <2>3, Zenon DEF Fitting
  <2>5. ~Accept(s, "data", e).ok
    <3>1. ~Admitted(s, name, dir)
      BY <1>11, Zenon DEF Admitted
    <3>2. Accept(s, "data", e) = [s EXCEPT !.ok = FALSE]
      BY <1>2, <1>8, <3>1, Zenon DEF Turned
    <3>3. [s EXCEPT !.ok = FALSE].ok = FALSE
      BY DEF Copying
    <3> QED
      BY <3>2, <3>3
  <2> QED
    BY <1>1, <2>4, <2>5, Zenon
<1>12. CASE IsPlain(e) /\ name # Rejected
  <2>1. name = x /\ x \in Seq(C)
    BY <1>2, <1>12, NameOfEntry
  <2>2. IsFiniteSet(anc) /\ x \notin anc
    BY <1>2, <2>1, AncestorsAbove
  <2>3. e.type \in {"file", "dir"}
    BY <1>12 DEF IsPlain
  <2>4. OfType(entries, k + 1, "file") = IF dir THEN plain ELSE plain \cup {x}
    <3>1. dir => e.type # "file"
      BY <1>3
    <3>2. ~dir => e.type = "file"
      BY <1>3, <2>3
    <3> QED
      BY <1>3, <1>4, <3>1, <3>2
  <2>5. /\ MissingWith(s, x) = (inner \cup Ancestors(x)) \ (nodes \cup {x})
        /\ Admitted(s, x, dir)
              <=> /\ x \notin nodes
                  /\ Fitting(nodes \cup {x}, IF dir THEN plain ELSE plain \cup {x}, inner \cup Ancestors(x))
    <3>1. IsFiniteSet(Ancestors(x)) /\ x \notin Ancestors(x) /\ x # Rejected
      BY <1>2, <1>12, <2>1, <2>2, Zenon
    <3>2. AdmitsTo(s, x, dir, nodes, plain, inner)
      BY <1>3, <1>6, <1>7, <3>1, AdmittedMeans
    <3> QED
      BY <3>2, Zenon DEF AdmitsTo
  <2>6. Admitted(s, name, dir) <=> GrowsTree(entries, k + 1)
    BY <1>2, <1>9, <1>12, <2>1, <2>4, <2>5, Zenon
  <2>7. CASE Admitted(s, name, dir)
    <3>1. PICK t : t = Accept(s, "data", e)
      OBVIOUS
    <3>2. t = WithTaken(s, x, dir)
      BY <1>2, <1>8, <1>12, <2>1, <2>7, <3>1, Zenon DEF Turned
    <3>3. /\ t.ok = TRUE /\ t.dirs = (IF dir THEN s.dirs \cup {x} ELSE s.dirs)
          /\ t.files = (IF dir THEN s.files ELSE s.files \cup {x}) /\ t.ancestors = MissingWith(s, x)
      BY <3>2 DEF WithTaken
    <3>4. t.dirs = OfType(entries, k + 1, "dir") /\ t.files = OfType(entries, k + 1, "file")
      BY <1>3, <1>4, <1>7, <2>4, <3>3
    <3>5. t.ancestors = InnerOf(entries, k + 1) \ NodesOf(entries, k + 1)
      BY <1>2, <1>4, <2>5, <3>3
    <3>6. Seen(t) = NodesOf(entries, k + 1)
      <4>1. Seen(t) = Seen(s) \cup {x}
        BY <3>3 DEF Seen
      <4> QED
        BY <1>4, <1>7, <4>1
    <3>7. Agreeing(t, entries, k + 1)
      BY <3>4, <3>5, <3>6 DEF Agreeing
    <3>8. IsFiniteSet(nodes \cup {x}) /\ IsFiniteSet(inner \cup anc)
      BY <1>7, <2>2, FS_AddElement, FS_Union
    <3> QED
      BY <1>1, <1>4, <2>6, <2>7, <3>1, <3>3, <3>7, <3>8
  <2>8. CASE ~Admitted(s, name, dir)
    <3>1. Accept(s, "data", e) = [s EXCEPT !.ok = FALSE]
      BY <1>2, <1>8, <2>8, Zenon DEF Turned
    <3>2. [s EXCEPT !.ok = FALSE].ok = FALSE
      BY DEF Copying
    <3> QED
      BY <1>1, <2>6, <2>8, <3>1, <3>2
  <2> QED
    BY <2>7, <2>8
<1> QED
  BY <1>10, <1>11, <1>12, Zenon

LEMMA Singleton ==
  ASSUME NEW C, NEW c \in C
  PROVE  <<c>> \in Seq(C)
OBVIOUS

LEMMA PlainName ==
  ASSUME NEW C, HasParts(C), NEW e \in EntriesOf(C), IsPlain(e), TarNamed(e)
  PROVE  NameOf(e) \in Seq(C)
<1>1. CASE NameIn("data", e) # Rejected
  BY <1>1, NameOfEntry
<1>2. CASE NameIn("data", e) = Rejected
  <2>1. NameOf(e) = Root
    BY <1>2, Zenon DEF TarNamed, NameOf
  <2>2. "." \in C
    BY Zenon DEF HasParts
  <2>3. <<".">> \in Seq(C)
    BY <2>2, Singleton
  <2>4. Root = <<".">>
    BY Zenon DEF Root
  <2> QED
    BY <2>1, <2>3, <2>4, Zenon
<1> QED
  BY <1>1, <1>2

LEMMA NodesFinite ==
  ASSUME NEW C, HasParts(C), NEW N \in Nat, NEW entries, \A i \in 1 .. N : NameOf(entries[i]) \in Seq(C)
  PROVE  IsFiniteSet(NodesOf(entries, N)) /\ IsFiniteSet(InnerOf(entries, N))
<1> DEFINE X == {k \in 0 .. N : IsFiniteSet(NodesOf(entries, k)) /\ IsFiniteSet(InnerOf(entries, k))}
<1>1. 0 \in X
  <2>1. 1 .. 0 = {}
    OBVIOUS
  <2>2. NodesOf(entries, 0) = {} /\ InnerOf(entries, 0) = {}
    BY <2>1, Zenon DEF NodesOf, InnerOf
  <2>3. IsFiniteSet({})
    BY FS_EmptySet
  <2>4. 0 \in 0 .. N
    OBVIOUS
  <2>5. IsFiniteSet(NodesOf(entries, 0)) /\ IsFiniteSet(InnerOf(entries, 0))
    BY <2>2, <2>3, Zenon
  <2> QED
    BY <2>4, <2>5
<1>2. ASSUME NEW k \in 0 .. N - 1, k \in X
      PROVE  k + 1 \in X
  <2>1. PICK x : x = NameOf(entries[k + 1]) /\ x \in Seq(C)
    <3>1. k + 1 \in 1 .. N
      OBVIOUS
    <3> QED
      BY <3>1
  <2>2. IsFiniteSet(Ancestors(x))
    BY <2>1, AncestorsAbove
  <2>3. /\ NodesOf(entries, k + 1) = NodesOf(entries, k) \cup {x}
        /\ InnerOf(entries, k + 1) = InnerOf(entries, k) \cup Ancestors(x)
    <3>1. k \in Nat
      OBVIOUS
    <3> QED
      BY <2>1, <3>1, NodesGrow
  <2>4. IsFiniteSet(NodesOf(entries, k)) /\ IsFiniteSet(InnerOf(entries, k))
    BY <1>2
  <2>5. IsFiniteSet(NodesOf(entries, k + 1)) /\ IsFiniteSet(InnerOf(entries, k + 1))
    <3>1. IsFiniteSet(NodesOf(entries, k) \cup {x})
      BY <2>4, FS_AddElement
    <3>2. IsFiniteSet(InnerOf(entries, k) \cup Ancestors(x))
      BY <2>2, <2>4, FS_Union
    <3> QED
      BY <2>3, <3>1, <3>2, Zenon
  <2>6. k + 1 \in 0 .. N
    OBVIOUS
  <2> QED
    BY <2>5, <2>6
<1>3. N \in X
  <2> HIDE DEF X
  <2> QED
    BY <1>1, <1>2, ByInduction, Zenon
<1> QED
  BY <1>3

(* What is no part of a tree does not become one. *)
LEMMA PartOfTree ==
  ASSUME NEW C, HasParts(C), NEW N \in Nat, NEW entries, NEW k \in Nat, k + 1 <= N,
         \A i \in 1 .. N : entries[i] \in EntriesOf(C) /\ TarNamed(entries[i]), GrowsTree(entries, k + 1)
  PROVE  GrowsTree(entries, k)
<1>1. \A i \in 1 .. k + 1 : IsPlain(entries[i])
  BY DEF GrowsTree
<1>2. IsFiniteSet(NodesOf(entries, k + 1)) /\ IsFiniteSet(InnerOf(entries, k + 1))
  <2>1. \A i \in 1 .. k + 1 : NameOf(entries[i]) \in Seq(C)
    <3>1. ASSUME NEW i \in 1 .. k + 1
          PROVE  NameOf(entries[i]) \in Seq(C)
      <4>1. i \in 1 .. N
        OBVIOUS
      <4> QED
        BY <1>1, <4>1, PlainName
    <3> QED
      BY <3>1
  <2>2. k + 1 \in Nat
    OBVIOUS
  <2> QED
    BY <2>1, <2>2, NodesFinite
<1>3. PICK x, e : e = entries[k + 1] /\ x = NameOf(e)
  OBVIOUS
<1>4. /\ NodesOf(entries, k + 1) = NodesOf(entries, k) \cup {x}
      /\ InnerOf(entries, k + 1) = InnerOf(entries, k) \cup Ancestors(x)
      /\ OfType(entries, k + 1, "file")
           = IF e.type = "file" THEN OfType(entries, k, "file") \cup {x} ELSE OfType(entries, k, "file")
      /\ Distinct(entries, k + 1) <=> Distinct(entries, k) /\ x \notin NodesOf(entries, k)
  BY <1>3, NodesGrow, Zenon
<1>5. PICK now, next, plain, all :
        /\ now = NodesOf(entries, k) \cup InnerOf(entries, k)
        /\ next = NodesOf(entries, k + 1) \cup InnerOf(entries, k + 1)
        /\ plain = OfType(entries, k, "file") /\ all = OfType(entries, k + 1, "file")
  OBVIOUS
<1>6. now \in SUBSET next /\ plain \in SUBSET all /\ InnerOf(entries, k) \in SUBSET InnerOf(entries, k + 1)
  BY <1>4, <1>5
<1>7. IsFiniteSet(next)
  BY <1>2, <1>5, FS_Union
<1>8. IsFiniteSet(now) /\ Cardinality(now) <= Cardinality(next)
  BY <1>6, <1>7, FS_Subset
<1>9. Cardinality(now) \in Nat /\ Cardinality(next) \in Nat
  BY <1>7, <1>8, FS_CardinalityType
<1>10. Root \notin all /\ all \cap InnerOf(entries, k + 1) = {} /\ Cardinality(next) <= MaxEntries
  BY <1>5 DEF GrowsTree, Fitting
<1>11. Root \notin plain /\ plain \cap InnerOf(entries, k) = {} /\ Cardinality(now) <= MaxEntries
  <2>1. Cardinality(now) <= MaxEntries
    BY <1>8, <1>9, <1>10, VolumeArchiveAssumption
  <2> QED
    BY <1>6, <1>10, <2>1
<1>12. Distinct(entries, k)
  BY <1>4 DEF GrowsTree
<1>13. \A i \in 1 .. k : IsPlain(entries[i])
  <2>1. \A i \in 1 .. k : i \in 1 .. k + 1
    OBVIOUS
  <2> QED
    BY <1>1, <2>1
<1> QED
  BY <1>5, <1>11, <1>12, <1>13 DEF GrowsTree, Fitting

(* Distinct names are as many as there are entries. *)
LEMMA AllDistinct ==
  ASSUME NEW N \in Nat, NEW entries
  PROVE  Distinct(entries, N) <=> Cardinality(NodesOf(entries, N)) = N
<1>1. PICK S, f, T : S = 1 .. N /\ f = [i \in S |-> NameOf(entries[i])] /\ T = NodesOf(entries, N)
  OBVIOUS
<1>2. IsFiniteSet(S) /\ Cardinality(S) = N
  BY <1>1, FS_Interval
<1>3. \A i \in S : f[i] = NameOf(entries[i])
  BY <1>1
<1>4. T = {f[i] : i \in S}
  BY <1>1, <1>3, Zenon DEF NodesOf
<1>5. f \in Surjection(S, T)
  <2>1. f \in [S -> T]
    BY <1>1, <1>4
  <2>2. \A t \in T : \E i \in S : f[i] = t
    BY <1>4
  <2> QED
    BY <2>1, <2>2 DEF Surjection
<1>6. Cardinality(T) = Cardinality(S) <=> f \in Injection(S, T)
  BY <1>2, <1>5, FS_Surjection
<1>7. f \in Injection(S, T) <=> \A i, j \in S : f[i] = f[j] => i = j
  BY <1>5 DEF Surjection, Injection, IsInjective
<1>8. Distinct(entries, N) <=> \A i, j \in S : f[i] = f[j] => i = j
  BY <1>1, <1>3 DEF Distinct
<1> QED
  BY <1>1, <1>2, <1>6, <1>7, <1>8

LEMMA TreeMeans ==
  ASSUME NEW C, HasParts(C), NEW entries \in Seq(EntriesOf(C))
  PROVE  IsTree(entries) <=> GrowsTree(entries, Len(entries)) /\ Root \in OfType(entries, Len(entries), "dir")
<1>1. PICK N \in Nat : N = Len(entries) /\ DOMAIN entries = 1 .. N /\ \A i \in 1 .. N : entries[i] \in EntriesOf(C)
  OBVIOUS
<1>2. PICK nodes, plain, inner :
        nodes = NodesOf(entries, N) /\ plain = OfType(entries, N, "file") /\ inner = InnerOf(entries, N)
  OBVIOUS
<1>3. IsTree(entries) <=> /\ \A i \in 1 .. N : entries[i].type # "other" /\ ~entries[i].special
                          /\ Cardinality(nodes) = N
                          /\ Root \in nodes \ plain
                          /\ plain \cap inner = {}
                          /\ Cardinality(nodes \cup inner) <= MaxEntries
  BY <1>1, <1>2, Zenon DEF IsTree, NodesOf, OfType, InnerOf
<1>4. \A i \in 1 .. N : IsPlain(entries[i]) <=> entries[i].type # "other" /\ ~entries[i].special
  BY <1>1 DEF EntriesOf, IsPlain
<1>5. Cardinality(nodes) = N <=> Distinct(entries, N)
  BY <1>2, AllDistinct
<1>6. ASSUME \A i \in 1 .. N : IsPlain(entries[i])
      PROVE  Root \in nodes \ plain <=> Root \notin plain /\ Root \in OfType(entries, N, "dir")
  <2>1. nodes = plain \cup OfType(entries, N, "dir")
    <3>1. \A i \in 1 .. N : entries[i].type \in {"file", "dir"}
      BY <1>6 DEF IsPlain
    <3>2. ASSUME NEW y
          PROVE  y \in nodes <=> y \in plain \/ y \in OfType(entries, N, "dir")
      BY <1>2, <3>1, Zenon DEF NodesOf, OfType
    <3> QED
      BY <3>2
  <2> QED
    BY <2>1
<1>7. GrowsTree(entries, N) <=> /\ \A i \in 1 .. N : IsPlain(entries[i])
                                /\ Distinct(entries, N) /\ Root \notin plain /\ plain \cap inner = {}
                                /\ Cardinality(nodes \cup inner) <= MaxEntries
  BY <1>2, Zenon DEF GrowsTree, Fitting
<1> QED
  BY <1>1, <1>3, <1>4, <1>5, <1>6, <1>7

LEMMA TreesHold ==
  ASSUME NEW C, HasParts(C), NEW entries \in Seq(EntriesOf(C)), \A i \in DOMAIN entries : TarNamed(entries[i])
  PROVE  Accepts(entries) <=> IsTree(entries)
<1>1. PICK N \in Nat : /\ N = Len(entries) /\ DOMAIN entries = 1 .. N
                       /\ \A i \in 1 .. N : entries[i] \in EntriesOf(C) /\ TarNamed(entries[i])
  OBVIOUS
<1>2. PICK acc : Copies(acc, entries, "data") /\ TypedCopies(acc, entries, C)
  BY PartsHad, CopyStepwise
<1> DEFINE Held(k) == /\ acc[k].ok <=> GrowsTree(entries, k)
                      /\ acc[k].ok => /\ Agreeing(acc[k], entries, k)
                                      /\ IsFiniteSet(NodesOf(entries, k)) /\ IsFiniteSet(InnerOf(entries, k))
           X == {k \in 0 .. N : Held(k)}
<1>3. 0 \in X
  <2>1. 1 .. 0 = {}
    OBVIOUS
  <2>2. acc[0] = Fresh
    BY <1>2 DEF Copies
  <2>3. /\ NodesOf(entries, 0) = {} /\ InnerOf(entries, 0) = {} /\ \A type : OfType(entries, 0, type) = {}
        /\ Distinct(entries, 0)
    BY <2>1, Zenon DEF NodesOf, InnerOf, OfType, Distinct
  <2>4. IsFiniteSet({}) /\ Cardinality({}) = 0
    BY FS_EmptySet
  <2>5. Fresh.ok = TRUE /\ Fresh.dirs = {} /\ Fresh.files = {} /\ Fresh.ancestors = {} /\ Seen(Fresh) = {}
    BY DEF Fresh, Seen
  <2>6. Agreeing(acc[0], entries, 0)
    BY <2>2, <2>3, <2>5 DEF Agreeing
  <2>7. Fitting({}, {}, {})
    BY <2>4, VolumeArchiveAssumption DEF Fitting
  <2>8. GrowsTree(entries, 0)
    BY <2>1, <2>3, <2>7 DEF GrowsTree
  <2>9. acc[0].ok
    BY <2>2, <2>5
  <2>10. IsFiniteSet(NodesOf(entries, 0)) /\ IsFiniteSet(InnerOf(entries, 0))
    BY <2>3, <2>4, Zenon
  <2>11. Held(0)
    BY <2>6, <2>8, <2>9, <2>10, Zenon
  <2>12. 0 \in 0 .. N
    OBVIOUS
  <2> QED
    BY <2>11, <2>12
<1>4. ASSUME NEW k \in 0 .. N - 1, k \in X
      PROVE  k + 1 \in X
  <2>1. k \in Nat /\ k + 1 \in 1 .. N /\ (k + 1) - 1 = k /\ k + 1 \in 0 .. N /\ k \in 0 .. Len(entries) /\ k + 1 <= N
    BY <1>1
  <2>2. PICK s \in Copying(C) : s = acc[k]
    BY <1>2, <2>1 DEF TypedCopies
  <2>3. acc[k + 1] = Accept(s, "data", entries[k + 1])
    BY <1>1, <1>2, <2>1, <2>2 DEF Copies
  <2>4. /\ s.ok <=> GrowsTree(entries, k)
        /\ s.ok => /\ Agreeing(s, entries, k)
                   /\ IsFiniteSet(NodesOf(entries, k)) /\ IsFiniteSet(InnerOf(entries, k))
    BY <1>4, <2>2
  <2>5. CASE s.ok
    <3>1. /\ GrowsTree(entries, k) /\ Agreeing(s, entries, k)
          /\ IsFiniteSet(NodesOf(entries, k)) /\ IsFiniteSet(InnerOf(entries, k))
      BY <2>4, <2>5
    <3>2. k + 1 \in 1 .. Len(entries) /\ TarNamed(entries[k + 1])
      BY <1>1, <2>1
    <3>3. /\ Accept(s, "data", entries[k + 1]).ok <=> GrowsTree(entries, k + 1)
          /\ Accept(s, "data", entries[k + 1]).ok =>
               /\ Agreeing(Accept(s, "data", entries[k + 1]), entries, k + 1)
               /\ IsFiniteSet(NodesOf(entries, k + 1)) /\ IsFiniteSet(InnerOf(entries, k + 1))
      BY <2>1, <2>5, <3>1, <3>2, TreeGrows
    <3>4. Held(k + 1)
      BY <2>3, <3>3
    <3> QED
      BY <2>1, <3>4
  <2>6. CASE ~s.ok
    <3>1. ~GrowsTree(entries, k + 1)
      BY <1>1, <2>1, <2>4, <2>6, PartOfTree
    <3>2. ~acc[k + 1].ok
      BY <2>3, <2>6, TurnedOk
    <3>3. Held(k + 1)
      BY <3>1, <3>2
    <3> QED
      BY <2>1, <3>3
  <2> QED
    BY <2>5, <2>6
<1>5. Held(N)
  <2>1. N \in X
    <3> HIDE DEF X
    <3> QED
      BY <1>3, <1>4, ByInduction, Zenon
  <2> QED
    BY <2>1
<1>6. CopyEntries(entries, "data").ok <=> acc[N].ok /\ Root \in acc[N].dirs
  BY <1>1, <1>2, CopyMeans
<1>7. acc[N].ok => acc[N].dirs = OfType(entries, N, "dir")
  BY <1>5 DEF Agreeing
<1>8. IsTree(entries) <=> GrowsTree(entries, N) /\ Root \in OfType(entries, N, "dir")
  BY <1>1, TreeMeans
<1> QED
  BY <1>5, <1>6, <1>7, <1>8 DEF Accepts

-----------------------------------------------------------------------------
(* Targets of links.  How often the first k parts of one go up, and down.    *)
UpsOf(to, k) == {i \in 1 .. k : ~IsBlank(to[i]) /\ GoesUp(to[i])}
DownsOf(to, k) == {i \in 1 .. k : ~IsBlank(to[i]) /\ ~GoesUp(to[i])}
Up(to, k) == Steps(to, k, TRUE)
Down(to, k) == Steps(to, k, FALSE)

LEMMA StepsAreParts ==
  ASSUME NEW to, NEW k
  PROVE  Up(to, k) = Cardinality(UpsOf(to, k)) /\ Down(to, k) = Cardinality(DownsOf(to, k))
<1>1. {i \in 1 .. k : to[i] \notin {"", "."} /\ (to[i] = "..") = TRUE} = UpsOf(to, k)
  <2>1. ASSUME NEW i
        PROVE  to[i] \notin {"", "."} /\ (to[i] = "..") = TRUE <=> ~IsBlank(to[i]) /\ GoesUp(to[i])
    BY Zenon DEF IsBlank, GoesUp
  <2> QED
    BY <2>1, Zenon DEF UpsOf
<1>2. {i \in 1 .. k : to[i] \notin {"", "."} /\ (to[i] = "..") = FALSE} = DownsOf(to, k)
  <2>1. ASSUME NEW i
        PROVE  to[i] \notin {"", "."} /\ (to[i] = "..") = FALSE <=> ~IsBlank(to[i]) /\ ~GoesUp(to[i])
    BY Zenon DEF IsBlank, GoesUp
  <2> QED
    BY <2>1, Zenon DEF DownsOf
<1> QED
  BY <1>1, <1>2, Zenon DEF Up, Down, Steps

LEMMA CountGrows ==
  ASSUME NEW S, NEW T, NEW x, IsFiniteSet(S), x \notin S, NEW B \in BOOLEAN, T = IF B THEN S \cup {x} ELSE S
  PROVE  IsFiniteSet(T) /\ Cardinality(T) = Cardinality(S) + (IF B THEN 1 ELSE 0) /\ Cardinality(S) \in Nat
<1>1. Cardinality(S) \in Nat
  BY FS_CardinalityType
<1>2. IsFiniteSet(S \cup {x}) /\ Cardinality(S \cup {x}) = Cardinality(S) + 1
  BY FS_AddElement
<1>3. CASE B
  BY <1>1, <1>2, <1>3
<1>4. CASE ~B
  BY <1>1, <1>4
<1> QED
  BY <1>3, <1>4

LEMMA StepsGrow ==
  ASSUME NEW to, NEW k \in Nat
  PROVE  /\ Up(to, k) \in Nat /\ Down(to, k) \in Nat
         /\ IsBlank(to[k + 1]) => Up(to, k + 1) = Up(to, k) /\ Down(to, k + 1) = Down(to, k)
         /\ ~IsBlank(to[k + 1]) /\ GoesUp(to[k + 1]) =>
              Up(to, k + 1) = Up(to, k) + 1 /\ Down(to, k + 1) = Down(to, k)
         /\ ~IsBlank(to[k + 1]) /\ ~GoesUp(to[k + 1]) =>
              Up(to, k + 1) = Up(to, k) /\ Down(to, k + 1) = Down(to, k) + 1
<1>1. 1 .. k + 1 = (1 .. k) \cup {k + 1} /\ k + 1 \notin 1 .. k
  OBVIOUS
<1>2. IsFiniteSet(1 .. k)
  BY FS_Interval
<1>3. IsFiniteSet(UpsOf(to, k)) /\ IsFiniteSet(DownsOf(to, k))
  BY <1>2, FS_Subset DEF UpsOf, DownsOf
<1>4. PICK up \in BOOLEAN, down \in BOOLEAN :
        up = (~IsBlank(to[k + 1]) /\ GoesUp(to[k + 1])) /\ down = (~IsBlank(to[k + 1]) /\ ~GoesUp(to[k + 1]))
  OBVIOUS
<1>5. UpsOf(to, k + 1) = IF up THEN UpsOf(to, k) \cup {k + 1} ELSE UpsOf(to, k)
  BY <1>1, <1>4 DEF UpsOf
<1>6. DownsOf(to, k + 1) = IF down THEN DownsOf(to, k) \cup {k + 1} ELSE DownsOf(to, k)
  BY <1>1, <1>4 DEF DownsOf
<1>7. k + 1 \notin UpsOf(to, k) /\ k + 1 \notin DownsOf(to, k)
  BY <1>1 DEF UpsOf, DownsOf
<1>8. /\ Cardinality(UpsOf(to, k + 1)) = Cardinality(UpsOf(to, k)) + (IF up THEN 1 ELSE 0)
      /\ Cardinality(UpsOf(to, k)) \in Nat
  BY <1>3, <1>5, <1>7, CountGrows
<1>9. /\ Cardinality(DownsOf(to, k + 1)) = Cardinality(DownsOf(to, k)) + (IF down THEN 1 ELSE 0)
      /\ Cardinality(DownsOf(to, k)) \in Nat
  BY <1>3, <1>6, <1>7, CountGrows
<1>10. /\ Up(to, k) = Cardinality(UpsOf(to, k)) /\ Down(to, k) = Cardinality(DownsOf(to, k))
       /\ Up(to, k + 1) = Cardinality(UpsOf(to, k + 1)) /\ Down(to, k + 1) = Cardinality(DownsOf(to, k + 1))
  BY StepsAreParts
<1>11. /\ Up(to, k) \in Nat /\ Down(to, k) \in Nat
       /\ Up(to, k + 1) = Up(to, k) + (IF up THEN 1 ELSE 0) /\ Down(to, k + 1) = Down(to, k) + (IF down THEN 1 ELSE 0)
  BY <1>8, <1>9, <1>10
<1>12. /\ Up(to, k + 1) = IF up THEN Up(to, k) + 1 ELSE Up(to, k)
       /\ Down(to, k + 1) = IF down THEN Down(to, k) + 1 ELSE Down(to, k)
  BY <1>4, <1>11
<1> QED
  BY <1>4, <1>11, <1>12

LEMMA NoStepsAtFirst ==
  ASSUME NEW to
  PROVE  Up(to, 0) = 0 /\ Down(to, 0) = 0
<1>1. 1 .. 0 = {}
  OBVIOUS
<1>2. UpsOf(to, 0) = {} /\ DownsOf(to, 0) = {}
  BY <1>1 DEF UpsOf, DownsOf
<1>3. Cardinality({}) = 0
  BY FS_EmptySet
<1> QED
  BY <1>2, <1>3, StepsAreParts

(* Whether one of the first k parts of a target leads above the directory    *)
(* that the link is so many levels below.                                   *)
Above(to, depth, k) == \E j \in 1 .. k : Up(to, j) > depth + Down(to, j)

(* What is left of the directory and the first k parts, once cleaned.        *)
Where(s, to, depth, k) ==
  /\ Above(to, depth, k) => Len(s) > 0 /\ GoesUp(s[1])
  /\ ~Above(to, depth, k) => /\ \A i \in 1 .. Len(s) : ~GoesUp(s[i])
                             /\ Len(s) + Up(to, k) = depth + Down(to, k)

LEMMA AboveGrows ==
  ASSUME NEW to, NEW depth, NEW k \in Nat
  PROVE  Above(to, depth, k + 1) <=> Above(to, depth, k) \/ Up(to, k + 1) > depth + Down(to, k + 1)
<1>1. 1 .. k + 1 = (1 .. k) \cup {k + 1}
  OBVIOUS
<1> QED
  BY <1>1 DEF Above

LEMMA WhereNext ==
  ASSUME NEW C, NEW s \in Seq(C), NEW to \in Seq(C), NEW depth \in Nat, NEW k \in Nat, k + 1 <= Len(to),
         Where(s, to, depth, k)
  PROVE  Where(CleanStep(s, to[k + 1]), to, depth, k + 1)
<1>1. PICK part \in C : part = to[k + 1]
  OBVIOUS
<1>2. PICK u \in Nat, d \in Nat, v \in Nat, e \in Nat :
        u = Up(to, k) /\ d = Down(to, k) /\ v = Up(to, k + 1) /\ e = Down(to, k + 1)
  <2>1. k + 1 \in Nat
    OBVIOUS
  <2>2. Up(to, k) \in Nat /\ Down(to, k) \in Nat /\ Up(to, k + 1) \in Nat /\ Down(to, k + 1) \in Nat
    BY <2>1, StepsGrow
  <2> QED
    BY <2>2
<1>3. /\ IsBlank(part) => v = u /\ e = d
      /\ ~IsBlank(part) /\ GoesUp(part) => v = u + 1 /\ e = d
      /\ ~IsBlank(part) /\ ~GoesUp(part) => v = u /\ e = d + 1
  BY <1>1, <1>2, StepsGrow
<1>4. Above(to, depth, k + 1) <=> Above(to, depth, k) \/ v > depth + e
  BY <1>2, AboveGrows
<1>5. PICK n \in Nat : n = Len(s) /\ (s = <<>> <=> n = 0)
  BY EmptySeq
<1>6. s # <<>> => /\ Len(Front(s)) = n - 1 /\ \A i \in 1 .. n - 1 : Front(s)[i] = s[i]
                  /\ Last(s) = s[n]
  BY <1>5, FrontOfPath DEF Last
<1>7. Len(Append(s, part)) = n + 1 /\ \A i \in 1 .. n : Append(s, part)[i] = s[i]
  BY <1>5
<1>8. Append(s, part)[n + 1] = part
  BY <1>5
<1>9. PICK t : t = CleanStep(s, part)
  OBVIOUS
<1>10. \/ IsBlank(part) /\ t = s
       \/ ~IsBlank(part) /\ GoesUp(part) /\ s # <<>> /\ ~GoesUp(Last(s)) /\ t = Front(s)
       \/ ~IsBlank(part) /\ (~GoesUp(part) \/ s = <<>> \/ GoesUp(Last(s))) /\ t = Append(s, part)
  BY <1>9 DEF CleanStep
<1>11. CASE Above(to, depth, k)
  <2>1. n > 0 /\ GoesUp(s[1])
    BY <1>5, <1>11 DEF Where
  <2>2. Len(t) > 0 /\ GoesUp(t[1])
    <3>1. CASE t = s
      BY <1>5, <2>1, <3>1
    <3>2. CASE s # <<>> /\ ~GoesUp(Last(s)) /\ t = Front(s)
      <4>1. n # 1
        BY <1>6, <2>1, <3>2
      <4>2. 1 \in 1 .. n - 1
        BY <2>1, <4>1
      <4> QED
        BY <1>6, <2>1, <3>2, <4>1, <4>2
    <3>3. CASE t = Append(s, part)
      <4>1. 1 \in 1 .. n
        BY <2>1
      <4> QED
        BY <1>7, <2>1, <3>3, <4>1
    <3> QED
      BY <1>10, <3>1, <3>2, <3>3
  <2>3. Above(to, depth, k + 1)
    BY <1>4, <1>11
  <2> QED
    BY <1>1, <1>9, <2>2, <2>3 DEF Where
<1>12. CASE ~Above(to, depth, k)
  <2>1. (\A i \in 1 .. n : ~GoesUp(s[i])) /\ n + u = depth + d
    BY <1>2, <1>5, <1>12 DEF Where
  <2>2. s # <<>> => ~GoesUp(Last(s))
    BY <1>5, <1>6, <2>1
  <2>3. CASE IsBlank(part) /\ t = s
    <3>1. ~(v > depth + e)
      BY <1>3, <2>1, <2>3
    <3>2. ~Above(to, depth, k + 1)
      BY <1>4, <1>12, <3>1
    <3>3. (\A i \in 1 .. Len(t) : ~GoesUp(t[i])) /\ Len(t) + v = depth + e
      BY <1>3, <1>5, <2>1, <2>3
    <3> QED
      BY <1>1, <1>2, <1>9, <3>2, <3>3 DEF Where
  <2>4. CASE ~IsBlank(part) /\ GoesUp(part) /\ s # <<>> /\ t = Front(s)
    <3>1. ~(v > depth + e)
      BY <1>3, <1>5, <2>1, <2>4
    <3>2. ~Above(to, depth, k + 1)
      BY <1>4, <1>12, <3>1
    <3>3. (\A i \in 1 .. Len(t) : ~GoesUp(t[i])) /\ Len(t) + v = depth + e
      <4>1. Len(t) = n - 1 /\ \A i \in 1 .. n - 1 : t[i] = s[i] /\ i \in 1 .. n
        BY <1>5, <1>6, <2>4
      <4> QED
        BY <1>3, <2>1, <2>4, <4>1
    <3> QED
      BY <1>1, <1>2, <1>9, <3>2, <3>3 DEF Where
  <2>5. CASE ~IsBlank(part) /\ GoesUp(part) /\ s = <<>> /\ t = Append(s, part)
    <3>1. v > depth + e
      BY <1>3, <1>5, <2>1, <2>5
    <3>2. Above(to, depth, k + 1)
      BY <1>4, <3>1
    <3>3. Len(t) > 0 /\ GoesUp(t[1])
      BY <1>5, <1>7, <1>8, <2>5
    <3> QED
      BY <1>1, <1>9, <3>2, <3>3 DEF Where
  <2>6. CASE ~IsBlank(part) /\ ~GoesUp(part) /\ t = Append(s, part)
    <3>1. ~(v > depth + e)
      BY <1>3, <2>1, <2>6
    <3>2. ~Above(to, depth, k + 1)
      BY <1>4, <1>12, <3>1
    <3>3. (\A i \in 1 .. Len(t) : ~GoesUp(t[i])) /\ Len(t) + v = depth + e
      <4>1. \A i \in 1 .. n + 1 : i \in 1 .. n \/ i = n + 1
        OBVIOUS
      <4>2. \A i \in 1 .. n + 1 : ~GoesUp(t[i])
        BY <1>7, <1>8, <2>1, <2>6, <4>1
      <4>3. Len(t) = n + 1 /\ v = u /\ e = d + 1
        BY <1>3, <1>7, <2>6
      <4>4. \A i \in 1 .. Len(t) : ~GoesUp(t[i])
        BY <4>2, <4>3
      <4>5. (n + 1) + u = depth + (d + 1)
        BY <2>1
      <4> QED
        BY <4>3, <4>4, <4>5, Zenon
    <3> QED
      BY <1>1, <1>2, <1>9, <3>2, <3>3 DEF Where
  <2> QED
    BY <1>10, <2>2, <2>3, <2>4, <2>5, <2>6
<1> QED
  BY <1>11, <1>12

(* A target leads out of the root exactly when one of its parts does: what   *)
(* is cleaned first has gone the same way.                                  *)
LEMMA LeavingMeans ==
  ASSUME NEW C, NEW dir \in Seq(C), AreNames(dir), NEW to \in Seq(C)
  PROVE  LeavesRoot(dir \o to) <=> Above(to, Len(dir), Len(to))
<1>1. PICK D \in Nat, L \in Nat : D = Len(dir) /\ L = Len(to)
  OBVIOUS
<1>2. PICK raw : raw = dir \o to
  OBVIOUS
<1>3. /\ raw \in Seq(C) /\ Len(raw) = D + L
      /\ \A i \in 1 .. D : raw[i] = dir[i]
      /\ \A i \in 1 .. L : raw[D + i] = to[i]
  BY <1>1, <1>2, ConcatParts
<1>4. PICK acc : /\ IsCleaning(acc, raw) /\ \A n \in 0 .. D + L : acc[n] \in Seq(C)
                 /\ CleanPath(raw) = acc[D + L]
  BY <1>3, CleanStepwise
<1>5. acc[0] = <<>> /\ \A n \in 1 .. D + L : acc[n] = CleanStep(acc[n - 1], raw[n])
  BY <1>3, <1>4 DEF IsCleaning
<1> DEFINE X == {n \in 0 .. D : IsBeginning(acc[n], dir, n)}
           Y == {k \in 0 .. L : Where(acc[D + k], to, D, k)}
<1>6. 0 \in X
  BY <1>1, <1>5 DEF IsBeginning
<1>7. ASSUME NEW n \in 0 .. D - 1, n \in X
      PROVE  n + 1 \in X
  <2>1. /\ n \in Nat /\ n + 1 \in 1 .. D /\ (n + 1) - 1 = n /\ n + 1 \in 0 .. D
        /\ n \in 0 .. D + L /\ n + 1 \in 1 .. D + L
    BY <1>1
  <2>2. PICK s \in Seq(C) : s = acc[n] /\ IsBeginning(s, dir, n)
    BY <1>4, <1>7, <2>1
  <2>3. acc[n + 1] = CleanStep(s, dir[n + 1])
    BY <1>3, <1>5, <2>1, <2>2
  <2>4. ~IsBlank(dir[n + 1]) /\ ~GoesUp(dir[n + 1])
    BY <1>1, <2>1 DEF AreNames
  <2>5. IsBeginning(Append(s, dir[n + 1]), dir, n + 1)
    BY <1>1, <2>1, <2>2, BeginningGrows
  <2>6. CleanStep(s, dir[n + 1]) = Append(s, dir[n + 1])
    BY <2>4 DEF CleanStep
  <2> QED
    BY <2>1, <2>3, <2>5, <2>6
<1>8. IsBeginning(acc[D], dir, D)
  <2>1. D \in X
    <3> HIDE DEF X
    <3> QED
      BY <1>6, <1>7, ByInduction, Zenon
  <2> QED
    BY <2>1
<1>9. 0 \in Y
  <2>1. D + 0 = D /\ 0 \in 0 .. L /\ 1 .. 0 = {}
    OBVIOUS
  <2>2. ~Above(to, D, 0)
    BY <2>1 DEF Above
  <2>3. Len(acc[D]) = D /\ \A i \in 1 .. D : acc[D][i] = dir[i]
    BY <1>8 DEF IsBeginning
  <2>4. \A i \in 1 .. D : ~GoesUp(acc[D][i])
    BY <1>1, <2>3 DEF AreNames
  <2>5. Where(acc[D], to, D, 0)
    BY <2>2, <2>3, <2>4, NoStepsAtFirst DEF Where
  <2> QED
    BY <2>1, <2>5
<1>10. ASSUME NEW k \in 0 .. L - 1, k \in Y
       PROVE  k + 1 \in Y
  <2>1. /\ k \in Nat /\ k + 1 \in 1 .. L /\ k + 1 \in 0 .. L /\ D + k \in 0 .. D + L
        /\ D + (k + 1) \in 1 .. D + L /\ (D + (k + 1)) - 1 = D + k /\ k + 1 <= Len(to)
    BY <1>1
  <2>2. PICK s \in Seq(C) : s = acc[D + k] /\ Where(s, to, D, k)
    BY <1>4, <1>10, <2>1
  <2>3. acc[D + (k + 1)] = CleanStep(s, to[k + 1])
    BY <1>3, <1>5, <2>1, <2>2
  <2>4. Where(CleanStep(s, to[k + 1]), to, D, k + 1)
    BY <2>1, <2>2, WhereNext
  <2> QED
    BY <2>1, <2>3, <2>4
<1>11. Where(acc[D + L], to, D, L)
  <2>1. L \in Y
    <3> HIDE DEF Y
    <3> QED
      BY <1>9, <1>10, ByInduction, Zenon
  <2> QED
    BY <2>1
<1>12. acc[D + L] \in Seq(C)
  BY <1>4
<1>13. LeavesRoot(raw) <=> acc[D + L] # <<>> /\ GoesUp(acc[D + L][1])
  BY <1>4 DEF LeavesRoot, GoesUp
<1>14. acc[D + L] # <<>> <=> Len(acc[D + L]) > 0
  BY <1>12, EmptySeq
<1>15. Above(to, D, L) <=> Len(acc[D + L]) > 0 /\ GoesUp(acc[D + L][1])
  BY <1>11, <1>12 DEF Where
<1> QED
  BY <1>1, <1>2, <1>13, <1>14, <1>15

-----------------------------------------------------------------------------
(* Host archives.  What a data directory holds, and a destination: <<>> is   *)
(* one beside the directory, and one within it may exist but is no directory *)
(* itself.  A temporary file that was left beside it is removed first.      *)
IsPath(path, Segments) == path \in Seq(Segments) /\ Len(path) > 0
AreNodes(tree, Segments) ==
  \A n \in tree : n = Node(n.path, n.kind, n.to) /\ IsPath(n.path, Segments)
IsDestination(destination, tree, Segments) ==
  /\ destination = <<>> \/ IsPath(destination, Segments)
  /\ \A n \in tree : \A k \in 1 .. Len(n.path) - 1 : SubSeq(n.path, 1, k) # destination
  /\ Temporary(destination) \cap tree = {}

(* All that is packed. *)
PackedOf(tree, destination) == Walked(tree \cup Temporary(destination), destination)

LEMMA HeaderParts ==
  ASSUME NEW Segments, NEW n, n = Node(n.path, n.kind, n.to), IsPath(n.path, Segments)
  PROVE  /\ Header(n).path = <<"data">> \o n.path /\ Header(n).kind = n.kind
         /\ Header(n).path[1] = "data" /\ Len(Header(n).path) > 1
         /\ [Header(n) EXCEPT !.path = Tail(@)] = n
<1>1. n.path \in Seq(Segments) /\ Len(n.path) \in Nat /\ Len(n.path) > 0
  BY DEF IsPath
<1>2. PICK joined : joined = <<"data">> \o n.path
  OBVIOUS
<1>8. n = [path |-> n.path, kind |-> n.kind, to |-> n.to]
  BY DEF Node
<1>3. Header(n) = [path |-> joined, kind |-> n.kind, to |-> n.to]
  <2>1. Header(n) = [n EXCEPT !.path = joined]
    BY <1>2, <1>8 DEF Header
  <2> QED
    BY <1>8, <2>1
<1>4. <<"data">> \in Seq({"data"} \cup Segments) /\ n.path \in Seq({"data"} \cup Segments)
  BY <1>1
<1>5. /\ joined \in Seq({"data"} \cup Segments) /\ Len(joined) = 1 + Len(n.path)
      /\ joined[1] = "data" /\ \A i \in 1 .. Len(n.path) : joined[i + 1] = n.path[i]
  BY <1>1, <1>2, <1>4, ConcatProperties
<1>6. Tail(joined) = n.path
  <2>1. /\ Tail(joined) \in Seq({"data"} \cup Segments) /\ Len(Tail(joined)) = Len(n.path)
        /\ \A i \in 1 .. Len(n.path) : Tail(joined)[i] = n.path[i]
    BY <1>1, <1>5
  <2> QED
    BY <1>4, <2>1, SeqEqual
<1>7. [Header(n) EXCEPT !.path = Tail(@)] = [path |-> Tail(joined), kind |-> n.kind, to |-> n.to]
  <2>1. PICK rest : rest = Tail(joined)
    OBVIOUS
  <2>2. PICK h : h = Header(n)
    OBVIOUS
  <2>3. h = [path |-> joined, kind |-> n.kind, to |-> n.to]
    BY <1>3, <2>2
  <2>4. h.path = joined
    BY <2>3
  <2>5. [h EXCEPT !.path = Tail(@)] = [h EXCEPT !.path = rest]
    BY <2>1, <2>4
  <2>6. [h EXCEPT !.path = rest] = [path |-> rest, kind |-> n.kind, to |-> n.to]
    BY <2>3
  <2> QED
    BY <2>1, <2>2, <2>5, <2>6
<1> QED
  BY <1>1, <1>2, <1>3, <1>5, <1>6, <1>7, <1>8

LEMMA PackedNodes ==
  ASSUME NEW Segments, "tmp" \in Segments, NEW tree, AreNodes(tree, Segments), NEW destination,
         destination = <<>> \/ IsPath(destination, Segments), NEW n \in PackedOf(tree, destination)
  PROVE  n = Node(n.path, n.kind, n.to) /\ IsPath(n.path, Segments)
<1>1. CASE n \in tree
  BY <1>1 DEF AreNodes
<1>2. CASE n \in Temporary(destination)
  <2>1. destination # <<>> /\ n = Node(Append(Front(destination), "tmp"), "file", <<>>)
    BY <1>2 DEF Temporary
  <2>2. n.path = Append(Front(destination), "tmp") /\ n = Node(n.path, n.kind, n.to)
    BY <2>1 DEF Node
  <2>3. destination \in Seq(Segments) /\ Len(destination) \in Nat /\ Len(destination) > 0
    BY <2>1 DEF IsPath
  <2>4. Front(destination) \in Seq(Segments)
    <3>1. PICK k \in Nat : k = Len(destination) - 1
      BY <2>3
    <3>2. \A i \in 1 .. k : destination[i] \in Segments
      BY <2>3, <3>1
    <3>3. SubSeq(destination, 1, k) \in Seq(Segments)
      BY <3>2, SubSeqProperties
    <3> QED
      BY <3>1, <3>3 DEF Front
  <2>5. Append(Front(destination), "tmp") \in Seq(Segments) /\ Len(Append(Front(destination), "tmp")) > 0
    BY <2>4
  <2> QED
    BY <2>2, <2>5 DEF IsPath
<1> QED
  BY <1>1, <1>2 DEF PackedOf, Walked

LEMMA WalkedAll ==
  ASSUME NEW Segments, NEW tree, AreNodes(tree, Segments),
         NEW destination, IsDestination(destination, tree, Segments)
  PROVE  PackedOf(tree, destination) \ Temporary(destination)
           = {n \in tree : n.path[1] # "backups" /\ n.path # destination}
<1>1. ASSUME NEW n \in tree
      PROVE  (\A k \in DOMAIN n.path : ~Excluded(SubSeq(n.path, 1, k), destination))
               <=> n.path[1] # "backups" /\ n.path # destination
  <2>1. n.path \in Seq(Segments) /\ Len(n.path) > 0 /\ DOMAIN n.path = 1 .. Len(n.path)
    BY DEF AreNodes, IsPath
  <2>2. ASSUME NEW k \in DOMAIN n.path
        PROVE  SubSeq(n.path, 1, k)[1] = n.path[1]
    <3>1. k \in Nat /\ 1 <= k /\ \A i \in 1 .. k : n.path[i] \in Segments
      BY <2>1
    <3>2. \A i \in 1 .. k - 1 + 1 : SubSeq(n.path, 1, k)[i] = n.path[1 + i - 1]
      BY <3>1, SubSeqProperties
    <3> QED
      BY <3>1, <3>2
  <2>3. Len(n.path) \in DOMAIN n.path /\ SubSeq(n.path, 1, Len(n.path)) = n.path
    BY <2>1
  <2>4. \A k \in DOMAIN n.path : SubSeq(n.path, 1, k) = destination <=> k = Len(n.path) /\ n.path = destination
    <3>1. \A k \in DOMAIN n.path : k # Len(n.path) => k \in 1 .. Len(n.path) - 1
      BY <2>1
    <3> QED
      BY <2>3, <3>1 DEF IsDestination
  <2>5. \A k \in DOMAIN n.path :
          Excluded(SubSeq(n.path, 1, k), destination)
            <=> n.path[1] = "backups" \/ (k = Len(n.path) /\ n.path = destination)
    BY <2>2, <2>4 DEF Excluded
  <2> QED
    BY <2>3, <2>5
<1> QED
  BY <1>1 DEF PackedOf, Walked, IsDestination

(* A restore extracts all of the data directory but its backups and the      *)
(* archive that the new one replaced, beside the temporary file of one that  *)
(* was written into it: for every tree of files, links and directories.      *)
THEOREM RestoredTreesAreWhole ==
  ASSUME NEW Segments, "tmp" \in Segments, NEW tree, AreNodes(tree, Segments),
         NEW destination, IsDestination(destination, tree, Segments), NEW caddyFiles, NEW grows
  PROVE  RestoredTree(Create(tree, destination, caddyFiles, grows).headers) \ Temporary(destination)
           = {n \in tree : n.path[1] # "backups" /\ n.path # destination}
<1> DEFINE packed == PackedOf(tree, destination)
           headers == {Header(n) : n \in packed} \cup {Node(<<"data">>, "dir", <<>>)}
                        \cup {Node(<<"caddy", f>>, "file", <<>>) : f \in caddyFiles} \cup Added
           inData == {h \in headers : h.path[1] = "data" /\ Len(h.path) > 1}
<1>1. Create(tree, destination, caddyFiles, grows).headers = headers
  BY DEF Create, PackedOf
<1>2. ASSUME NEW n \in packed
      PROVE  /\ Header(n).path[1] = "data" /\ Len(Header(n).path) > 1
             /\ [Header(n) EXCEPT !.path = Tail(@)] = n
  <2>1. n = Node(n.path, n.kind, n.to) /\ IsPath(n.path, Segments)
    BY PackedNodes DEF IsDestination
  <2> QED
    BY <2>1, HeaderParts
<1>3. ASSUME NEW h \in headers, h \notin {Header(n) : n \in packed}
      PROVE  ~(h.path[1] = "data" /\ Len(h.path) > 1)
  <2>1. CASE h = Node(<<"data">>, "dir", <<>>)
    BY <2>1 DEF Node
  <2>2. CASE h \in {Node(<<"caddy", f>>, "file", <<>>) : f \in caddyFiles} \cup Added
    BY <2>2 DEF Node, Added
  <2> QED
    BY <1>3, <2>1, <2>2
<1> HIDE DEF packed
<1>8. \A n \in packed : Header(n) \in headers
  OBVIOUS
<1> HIDE DEF headers
<1>4. inData = {Header(n) : n \in packed}
  <2>1. \A h \in inData : h \in {Header(n) : n \in packed}
    BY <1>3
  <2>2. \A n \in packed : Header(n) \in inData
    BY <1>2, <1>8
  <2> HIDE DEF inData
  <2> QED
    BY <2>1, <2>2
<1>5. RestoredTree(headers) = {[h EXCEPT !.path = Tail(@)] : h \in inData}
  BY DEF RestoredTree
<1> HIDE DEF inData
<1>6. RestoredTree(headers) = packed
  BY <1>2, <1>4, <1>5
<1>7. packed \ Temporary(destination) = {n \in tree : n.path[1] # "backups" /\ n.path # destination}
  BY WalkedAll DEF packed
<1> QED
  BY <1>1, <1>6, <1>7
-----------------------------------------------------------------------------
(* What Inspect counts. *)
LEMMA ImageCount ==
  ASSUME NEW S, IsFiniteSet(S), NEW f, f = [s \in S |-> f[s]],
         \A s, t \in S : f[s] = f[t] => s = t, NEW T, T = {f[s] : s \in S}
  PROVE  IsFiniteSet(T) /\ Cardinality(T) = Cardinality(S)
<1>1. f \in Bijection(S, T)
  BY DEF Bijection, Injection, Surjection, IsInjective
<1> QED
  BY <1>1, FS_Bijection DEF ExistsBijection

LEMMA DisjointCount ==
  ASSUME NEW S, NEW T, IsFiniteSet(S), IsFiniteSet(T), S \cap T = {}
  PROVE  IsFiniteSet(S \cup T) /\ Cardinality(S \cup T) = Cardinality(S) + Cardinality(T)
<1>1. Cardinality({}) = 0 /\ Cardinality(S) \in Nat /\ Cardinality(T) \in Nat
  BY FS_EmptySet, FS_CardinalityType
<1>2. /\ IsFiniteSet(S \cup T)
      /\ Cardinality(S \cup T) = Cardinality(S) + Cardinality(T) - Cardinality(S \cap T)
  BY FS_Union
<1>3. Cardinality(S \cap T) = 0
  BY <1>1
<1> QED
  BY <1>1, <1>2, <1>3

LEMMA AddedCount ==
  IsFiniteSet(Added) /\ Cardinality(Added) = AddedFiles
<1> DEFINE volumes == Node(<<"docker", "volumes.json">>, "file", <<>>)
           manifest == Node(<<"manifest.json">>, "file", <<>>)
<1>1. volumes # manifest
  BY DEF Node
<1>2. Added = {volumes} \cup {manifest}
  BY DEF Added
<1> HIDE DEF volumes, manifest
<1>3. {volumes} \cap {manifest} = {}
  BY <1>1
<1>4. /\ IsFiniteSet({volumes}) /\ Cardinality({volumes}) = 1
      /\ IsFiniteSet({manifest}) /\ Cardinality({manifest}) = 1
  BY FS_Singleton
<1>5. IsFiniteSet({volumes} \cup {manifest}) /\ Cardinality({volumes} \cup {manifest}) = 1 + 1
  <2>1. PICK S, T : S = {volumes} /\ T = {manifest}
    OBVIOUS
  <2>2. IsFiniteSet(S \cup T) /\ Cardinality(S \cup T) = Cardinality(S) + Cardinality(T)
    BY <1>3, <1>4, <2>1, DisjointCount
  <2> QED
    BY <1>4, <2>1, <2>2
<1> QED
  BY <1>2, <1>5 DEF AddedFiles

(* The number of files that the manifest gives is the number of files that   *)
(* Inspect counts in the archive, for every finite tree.                    *)
THEOREM InspectCountsWhatIsPacked ==
  ASSUME NEW Segments, "tmp" \in Segments, NEW tree, AreNodes(tree, Segments), IsFiniteSet(tree),
         NEW destination, destination = <<>> \/ IsPath(destination, Segments),
         NEW caddyFiles, IsFiniteSet(caddyFiles), NEW grows
  PROVE  LET created == Create(tree, destination, caddyFiles, grows) IN
         InspectedFiles(created.headers) = created.fileCount
<1> DEFINE packed == PackedOf(tree, destination)
           plain == OfKind(packed, "file")
           ofData == {Header(n) : n \in plain}
           ofCaddy == {Node(<<"caddy", f>>, "file", <<>>) : f \in caddyFiles}
           headers == {Header(n) : n \in packed} \cup {Node(<<"data">>, "dir", <<>>)} \cup ofCaddy \cup Added
<1>1. /\ Create(tree, destination, caddyFiles, grows).headers = headers
      /\ Create(tree, destination, caddyFiles, grows).fileCount
           = Cardinality(plain) + Cardinality(caddyFiles) + AddedFiles
  BY DEF Create, PackedOf
<1>2. ASSUME NEW n \in packed
      PROVE  /\ Header(n).path[1] = "data" /\ Header(n).kind = n.kind
             /\ [Header(n) EXCEPT !.path = Tail(@)] = n
  <2>1. n = Node(n.path, n.kind, n.to) /\ IsPath(n.path, Segments)
    BY PackedNodes
  <2> QED
    BY <2>1, HeaderParts
<1>3. IsFiniteSet(plain)
  <2>1. IsFiniteSet(Temporary(destination))
    BY FS_EmptySet, FS_Singleton DEF Temporary
  <2>2. IsFiniteSet(tree \cup Temporary(destination))
    BY <2>1, FS_Union
  <2>3. plain \in SUBSET (tree \cup Temporary(destination))
    BY DEF OfKind, PackedOf, Walked
  <2> QED
    BY <2>2, <2>3, FS_Subset
<1> HIDE DEF packed
<1>4. IsFiniteSet(ofData) /\ Cardinality(ofData) = Cardinality(plain)
  <2>1. PICK header : header = [n \in plain |-> Header(n)]
    OBVIOUS
  <2>2. \A n \in plain : n \in packed
    BY DEF OfKind
  <2>3. \A s, t \in plain : header[s] = header[t] => s = t
    BY <1>2, <2>1, <2>2
  <2>4. ofData = {header[n] : n \in plain} /\ header = [n \in plain |-> header[n]]
    BY <2>1
  <2> HIDE DEF plain, ofData
  <2> QED
    BY <1>3, <2>3, <2>4, ImageCount
<1>5. IsFiniteSet(ofCaddy) /\ Cardinality(ofCaddy) = Cardinality(caddyFiles)
  <2>1. PICK header : header = [f \in caddyFiles |-> Node(<<"caddy", f>>, "file", <<>>)]
    OBVIOUS
  <2>2. \A s, t \in caddyFiles : header[s] = header[t] => s = t
    <3>1. ASSUME NEW f \in caddyFiles
          PROVE  header[f].path[2] = f
      BY <2>1 DEF Node
    <3> QED
      BY <3>1
  <2>3. ofCaddy = {header[f] : f \in caddyFiles} /\ header = [f \in caddyFiles |-> header[f]]
    BY <2>1
  <2> HIDE DEF ofCaddy
  <2> QED
    BY <2>2, <2>3, ImageCount
<1>6. OfKind(headers, "file") = (ofData \cup ofCaddy) \cup Added
  <2>1. ASSUME NEW h
        PROVE  h \in OfKind(headers, "file") <=> h \in ofData \/ h \in ofCaddy \/ h \in Added
    <3>1. h \in ofData <=> h \in {Header(n) : n \in packed} /\ h.kind = "file"
      BY <1>2 DEF OfKind
    <3>2. h \in ofCaddy \/ h \in Added => h.kind = "file"
      BY DEF Added, Node
    <3>3. h = Node(<<"data">>, "dir", <<>>) => h.kind # "file"
      BY DEF Node
    <3>4. h \in headers <=> \/ h \in {Header(n) : n \in packed} \/ h = Node(<<"data">>, "dir", <<>>)
                            \/ h \in ofCaddy \/ h \in Added
      OBVIOUS
    <3> HIDE DEF ofData, ofCaddy, headers
    <3> QED
      BY <3>1, <3>2, <3>3, <3>4 DEF OfKind
  <2> QED
    BY <2>1
<1>7. /\ \A h \in ofData : h.path[1] = "data"
      /\ \A h \in ofCaddy : h.path[1] = "caddy"
      /\ \A h \in Added : h.path[1] \in {"docker", "manifest.json"}
  BY <1>2 DEF OfKind, Node, Added
<1> HIDE DEF ofData, ofCaddy, plain, headers
<1>8. IsFiniteSet(ofData \cup ofCaddy) /\ Cardinality(ofData \cup ofCaddy) = Cardinality(ofData) + Cardinality(ofCaddy)
  <2>1. ofData \cap ofCaddy = {}
    BY <1>7
  <2> QED
    BY <1>4, <1>5, <2>1, DisjointCount
<1>9. Cardinality((ofData \cup ofCaddy) \cup Added) = Cardinality(ofData \cup ofCaddy) + AddedFiles
  <2>1. (ofData \cup ofCaddy) \cap Added = {}
    BY <1>7
  <2> QED
    BY <1>8, <2>1, AddedCount, DisjointCount
<1> QED
  BY <1>1, <1>4, <1>5, <1>6, <1>8, <1>9 DEF InspectedFiles

(* What can be a part of a path: no dots. *)
NamesIn(C) == {c \in C : ~IsBlank(c) /\ ~GoesUp(c)}

LEMMA PathsAreNames ==
  ASSUME NEW C, NEW path, IsPath(path, NamesIn(C))
  PROVE  /\ path \in Seq(C) /\ path # <<>> /\ AreNames(path) /\ Len(path) \in Nat /\ Len(path) > 0
         /\ ~IsBlank(path[1]) /\ ~GoesUp(path[1])
<1>1. path \in Seq(NamesIn(C)) /\ Len(path) \in Nat /\ Len(path) > 0
  BY DEF IsPath
<1>2. \A i \in 1 .. Len(path) : path[i] \in C /\ ~IsBlank(path[i]) /\ ~GoesUp(path[i])
  BY <1>1 DEF NamesIn
<1>3. path \in Seq(C) /\ path # <<>>
  BY <1>1, <1>2
<1>4. 1 \in 1 .. Len(path)
  BY <1>1
<1> QED
  BY <1>1, <1>2, <1>3, <1>4 DEF AreNames

(* A name is joined to the extraction root as it is. *)
LEMMA NamesAreJoined ==
  ASSUME NEW C, NEW path, IsPath(path, NamesIn(C))
  PROVE  SafeJoin(path)
<1>1. /\ path \in Seq(C) /\ path # <<>> /\ AreNames(path) /\ Len(path) \in Nat /\ Len(path) > 0
      /\ ~IsBlank(path[1]) /\ ~GoesUp(path[1])
  BY PathsAreNames
<1>2. Spells(path, path, 0)
  BY <1>1 DEF Spells
<1>3. CleanPath(path) = path
  BY <1>1, <1>2, NamesAreClean
<1>4. ~IsAbs(path)
  BY <1>1, Zenon DEF IsAbs, IsBlank
<1>5. ~LeavesRoot(path)
  BY <1>1, <1>3 DEF LeavesRoot, GoesUp
<1> QED
  BY <1>1, <1>3, <1>4, <1>5 DEF SafeJoin

(* What a link of a data directory may lead to: a path of any parts, but     *)
(* not an empty one.                                                        *)
IsTarget(to, C) == to \in Seq(C) /\ Len(to) > 0 /\ (Len(to) = 1 => to[1] # "")

(* A link is accepted exactly when it stays inside of the extraction root.   *)
LEMMA LinksStayInside ==
  ASSUME NEW C, HasParts(C), NEW n, n = Node(n.path, n.kind, n.to), IsPath(n.path, NamesIn(C)), IsTarget(n.to, C)
  PROVE  SafeTarget(Header(n)) <=> StaysInside(n)
<1>1. PICK path, to, D : path = n.path /\ to = n.to /\ D = Len(path)
  OBVIOUS
<1>2. path \in Seq(C) /\ AreNames(path) /\ D \in Nat /\ D > 0
  BY <1>1, PathsAreNames
<1>3. to \in Seq(C) /\ Len(to) \in Nat /\ Len(to) > 0 /\ DOMAIN to = 1 .. Len(to)
  <2>1. to \in Seq(C) /\ Len(to) > 0
    BY <1>1, Zenon DEF IsTarget
  <2> QED
    BY <2>1
<1>4. PICK joined : joined = <<"data">> \o path
  OBVIOUS
<1>5. Header(n).path = joined /\ Header(n).to = to
  <2>1. n = [path |-> n.path, kind |-> n.kind, to |-> n.to]
    BY Zenon DEF Node
  <2>2. Header(n) = [n EXCEPT !.path = joined]
    BY <1>1, <1>4, <2>1 DEF Header
  <2> QED
    BY <1>1, <2>1, <2>2
<1>6. /\ joined \in Seq(C) /\ Len(joined) = D + 1 /\ AreNames(joined) /\ joined # <<>>
  <2>1. "data" \in C
    BY PartsHad
  <2>2. PICK top : top = <<"data">> /\ top \in Seq(C) /\ Len(top) = 1 /\ top[1] = "data"
    <3>1. <<"data">> \in Seq(C) /\ Len(<<"data">>) = 1 /\ <<"data">>[1] = "data"
      BY <2>1, Singleton
    <3> QED
      BY <3>1, Zenon
  <2>3. /\ joined \in Seq(C) /\ Len(joined) = 1 + D
        /\ joined[1] = "data" /\ \A i \in 1 .. D : joined[1 + i] = path[i]
    BY <1>1, <1>2, <1>4, <2>2, ConcatParts
  <2>4. \A i \in 1 .. D : ~IsBlank(path[i]) /\ ~GoesUp(path[i])
    BY <1>1, <1>2 DEF AreNames
  <2>5. ASSUME NEW i \in 1 .. Len(joined)
        PROVE  ~IsBlank(joined[i]) /\ ~GoesUp(joined[i])
    <3>1. CASE i = 1
      BY <2>3, <3>1, PartsOfPaths
    <3>2. CASE i # 1
      <4>1. PICK j \in 1 .. D : i = 1 + j
        BY <1>2, <2>3, <3>2
      <4> QED
        BY <2>3, <2>4, <4>1
    <3> QED
      BY <3>1, <3>2
  <2>6. joined # <<>>
    BY <1>2, <2>3, EmptySeq
  <2> QED
    BY <1>2, <2>3, <2>5, <2>6 DEF AreNames
<1>7. PICK dir \in Seq(C) : dir = Front(joined) /\ Len(dir) = D /\ AreNames(dir)
  <2>1. /\ Front(joined) \in Seq(C) /\ Len(Front(joined)) = D
        /\ \A i \in 1 .. D : Front(joined)[i] = joined[i] /\ i \in 1 .. D + 1
    BY <1>2, <1>6, FrontOfPath
  <2>2. AreNames(Front(joined))
    BY <1>6, <2>1 DEF AreNames
  <2> QED
    BY <2>1, <2>2
<1>8. LeavesRoot(dir \o to) <=> Above(to, D, Len(to))
  BY <1>3, <1>7, LeavingMeans
<1>9. Above(to, D, Len(to)) <=> \E j \in DOMAIN to : ~(Up(to, j) <= D + Down(to, j))
  <2>1. \A j \in 1 .. Len(to) : Up(to, j) \in Nat /\ Down(to, j) \in Nat
    BY StepsGrow
  <2>2. \A j \in 1 .. Len(to) : Up(to, j) > D + Down(to, j) <=> ~(Up(to, j) <= D + Down(to, j))
    BY <1>2, <2>1
  <2> QED
    BY <1>3, <2>2, Zenon DEF Above
<1>10. StaysInside(n) <=> to[1] # "" /\ ~Above(to, D, Len(to))
  BY <1>1, <1>9, Zenon DEF StaysInside, Up, Down
<1>11. SafeTarget(Header(n)) <=> to # <<>> /\ ~IsAbs(to) /\ ~LeavesRoot(dir \o to)
  BY <1>5, <1>7, Zenon DEF SafeTarget
<1>12. to # <<>>
  BY <1>3, EmptySeq
<1>13. IsAbs(to) <=> to[1] = ""
  <2>1. Len(to) = 1 => to[1] # ""
    BY <1>1, Zenon DEF IsTarget
  <2>2. Len(to) = 1 \/ Len(to) > 1
    BY <1>3
  <2>3. Len(to) = 1 => ~(Len(to) > 1)
    OBVIOUS
  <2> QED
    BY <2>1, <2>2, <2>3, Zenon DEF IsAbs
<1> QED
  BY <1>8, <1>10, <1>11, <1>12, <1>13, Zenon

(* A data directory as it may be on the disk, and the Caddy files beside it: *)
(* names of any parts but empty ones and dots, any kind of a file.  The new  *)
(* archive is not written over the database.                                *)
NodeKinds == {"dir", "file", "link", "socket", "pipe"}
AreKinds(tree, C) == \A n \in tree : n.kind \in NodeKinds /\ (n.kind = "link" => IsTarget(n.to, C))
IsHostInput(host, C) ==
  /\ HasParts(C) /\ "tmp" \in C
  /\ AreNodes(host.tree, NamesIn(C)) /\ AreKinds(host.tree, C) /\ IsFiniteSet(host.tree)
  /\ IsDestination(host.destination, host.tree, NamesIn(C)) /\ host.destination # Database.path
  /\ host.caddy \in SUBSET NamesIn(C) /\ IsFiniteSet(host.caddy)

LEMMA TmpIsName ==
  ASSUME NEW C, "tmp" \in C
  PROVE  "tmp" \in NamesIn(C)
<1>1. ~IsBlank("tmp") /\ ~GoesUp("tmp")
  BY Zenon DEF IsBlank, GoesUp
<1> QED
  BY <1>1 DEF NamesIn

(* What Restore extracts of the data directory. *)
LEMMA DataExtracts ==
  ASSUME NEW C, HasParts(C), NEW n, n = Node(n.path, n.kind, n.to), IsPath(n.path, NamesIn(C)),
         n.kind \in NodeKinds, n.kind = "link" => IsTarget(n.to, C)
  PROVE  ExtractsEntry(Header(n)) <=> /\ n.kind \notin {"socket", "pipe"}
                                      /\ n.kind = "link" => StaysInside(n)
<1>1. PICK h : h = Header(n)
  OBVIOUS
<1>2. h.kind = n.kind /\ h.path = <<"data">> \o n.path
  BY <1>1, HeaderParts
<1>3. IsPath(h.path, NamesIn(C))
  <2>1. "data" \in NamesIn(C)
    BY PartsHad, PartsOfPaths DEF NamesIn
  <2>2. n.path \in Seq(NamesIn(C)) /\ Len(n.path) > 0 /\ Len(n.path) \in Nat
    BY DEF IsPath
  <2>3. <<"data">> \in Seq(NamesIn(C)) /\ Len(<<"data">>) = 1
    BY <2>1, Singleton
  <2>4. PICK top, path : top = <<"data">> /\ path = n.path
    OBVIOUS
  <2>5. top \o path \in Seq(NamesIn(C)) /\ Len(top \o path) = 1 + Len(path)
    BY <2>2, <2>3, <2>4, ConcatParts
  <2>6. Len(top \o path) > 0
    BY <2>2, <2>4, <2>5
  <2> QED
    BY <1>2, <2>4, <2>5, <2>6, Zenon DEF IsPath
<1>4. SafeJoin(h.path)
  BY <1>3, NamesAreJoined
<1>5. n.kind = "link" => (SafeTarget(h) <=> StaysInside(n))
  BY <1>1, LinksStayInside
<1>6. n.kind \in {"dir", "file", "link"} <=> n.kind \notin {"socket", "pipe"}
  BY DEF NodeKinds
<1> QED
  BY <1>1, <1>2, <1>4, <1>5, <1>6, Zenon DEF ExtractsEntry

(* What is added to an archive is always extracted. *)
LEMMA FilesExtract ==
  ASSUME NEW C, NEW path, IsPath(path, NamesIn(C)), NEW type \in {"dir", "file"}
  PROVE  ExtractsEntry(Node(path, type, <<>>))
<1>1. PICK h : h = Node(path, type, <<>>)
  OBVIOUS
<1>2. h.path = path /\ h.kind = type
  BY <1>1 DEF Node
<1>3. SafeJoin(h.path)
  BY <1>2, NamesAreJoined
<1>4. h.kind \in {"dir", "file", "link"} /\ h.kind # "link"
  BY <1>2
<1> QED
  BY <1>1, <1>3, <1>4, Zenon DEF ExtractsEntry

LEMMA AdditionsExtract ==
  ASSUME NEW C, NEW plain \in SUBSET NamesIn(C),
         NEW h \in {Node(<<"data">>, "dir", <<>>)} \cup {Node(<<"caddy", f>>, "file", <<>>) : f \in plain} \cup Added
  PROVE  ExtractsEntry(h)
<1> DEFINE Words == {"data", "caddy", "docker", "volumes.json", "manifest.json"} \cup C
<1>1. {"data", "caddy", "docker", "volumes.json", "manifest.json"} \in SUBSET NamesIn(Words)
  <2>1. \A w \in {"data", "caddy", "docker", "volumes.json", "manifest.json"} : ~IsBlank(w) /\ ~GoesUp(w)
    BY Zenon DEF IsBlank, GoesUp
  <2> QED
    BY <2>1 DEF NamesIn
<1>2. \A f \in plain : f \in NamesIn(Words)
  BY DEF NamesIn
<1> HIDE DEF Words
<1>3. PICK N : N = NamesIn(Words)
  OBVIOUS
<1>4. \A a \in N : <<a>> \in Seq(N) /\ Len(<<a>>) = 1
  OBVIOUS
<1>5. \A a, b \in N : <<a, b>> \in Seq(N) /\ Len(<<a, b>>) = 2
  OBVIOUS
<1>6. (\A a \in N : IsPath(<<a>>, N)) /\ (\A a, b \in N : IsPath(<<a, b>>, N))
  BY <1>4, <1>5 DEF IsPath
<1>7. \A path : IsPath(path, N) => /\ ExtractsEntry(Node(path, "dir", <<>>))
                                   /\ ExtractsEntry(Node(path, "file", <<>>))
  BY <1>3, FilesExtract
<1>8. {"data", "caddy", "docker", "volumes.json", "manifest.json"} \in SUBSET N /\ \A f \in plain : f \in N
  BY <1>1, <1>2, <1>3
<1>9. CASE h = Node(<<"data">>, "dir", <<>>)
  BY <1>6, <1>7, <1>8, <1>9, Zenon
<1>10. CASE h \in {Node(<<"caddy", f>>, "file", <<>>) : f \in plain}
  <2>1. PICK f \in plain : h = Node(<<"caddy", f>>, "file", <<>>)
    BY <1>10
  <2> QED
    BY <1>6, <1>7, <1>8, <2>1, Zenon
<1>11. CASE h \in Added
  <2>1. h = Node(<<"docker", "volumes.json">>, "file", <<>>) \/ h = Node(<<"manifest.json">>, "file", <<>>)
    BY <1>11, Zenon DEF Added
  <2> QED
    BY <1>6, <1>7, <1>8, <2>1, Zenon
<1> QED
  BY <1>9, <1>10, <1>11

LEMMA PackedKinds ==
  ASSUME NEW C, NEW tree, AreKinds(tree, C), NEW destination, NEW n \in PackedOf(tree, destination)
  PROVE  n.kind \in NodeKinds /\ (n.kind = "link" => IsTarget(n.to, C))
<1>1. CASE n \in tree
  BY <1>1 DEF AreKinds
<1>2. CASE n \in Temporary(destination)
  <2>1. n.kind = "file"
    BY <1>2 DEF Temporary, Node
  <2> QED
    BY <2>1 DEF NodeKinds
<1> QED
  BY <1>1, <1>2 DEF PackedOf, Walked

(* A backup is refused exactly for a pipe, or a link that leads out.         *)
LEMMA RestorableMeans ==
  ASSUME NEW C, NEW host, IsHostInput(host, C), NEW created,
         created = Create(host.tree, host.destination, host.caddy, host.grows), created.ok,
         NEW kept, kept = {n \in host.tree : n.path[1] # "backups" /\ n.path # host.destination}
  PROVE  Restores(created.headers) <=> IsRestorable(kept)
<1>1. PICK tree, destination : tree = host.tree /\ destination = host.destination
  OBVIOUS
<1>2. /\ HasParts(C) /\ "tmp" \in NamesIn(C)
      /\ AreNodes(tree, NamesIn(C)) /\ AreKinds(tree, C)
      /\ IsDestination(destination, tree, NamesIn(C)) /\ destination # Database.path
      /\ host.caddy \in SUBSET NamesIn(C)
  <2>1. HasParts(C) /\ "tmp" \in C
    BY Zenon DEF IsHostInput
  <2>2. "tmp" \in NamesIn(C)
    BY <2>1, TmpIsName
  <2> QED
    BY <1>1, <2>1, <2>2, Zenon DEF IsHostInput
<1>3. PICK packed : packed = PackedOf(tree, destination)
  OBVIOUS
<1>4. PICK other : other = {Node(<<"data">>, "dir", <<>>)}
                             \cup {Node(<<"caddy", f>>, "file", <<>>) : f \in host.caddy} \cup Added
  OBVIOUS
<1>5. /\ Database \in tree /\ OfKind(packed, "socket") = {}
      /\ created.headers = {Header(n) : n \in packed} \cup other
  <2>1. created.ok => Database \in tree /\ OfKind(packed, "socket") = {}
    BY <1>1, <1>3 DEF Create, PackedOf
  <2>2. created.headers = {Header(n) : n \in packed} \cup other
    BY <1>1, <1>3, <1>4 DEF Create, PackedOf
  <2> QED
    BY <2>1, <2>2
<1>6. packed \ Temporary(destination) = kept
  BY <1>1, <1>2, <1>3, WalkedAll
<1>7. \A h \in other : ExtractsEntry(h)
  BY <1>2, <1>4, AdditionsExtract
<1>8. ASSUME NEW n \in packed
      PROVE  /\ n.kind \in NodeKinds /\ n.kind # "socket"
             /\ ExtractsEntry(Header(n)) <=> n.kind # "pipe" /\ (n.kind = "link" => StaysInside(n))
  <2>1. n = Node(n.path, n.kind, n.to) /\ IsPath(n.path, NamesIn(C))
    BY <1>2, <1>3, PackedNodes DEF IsDestination
  <2>2. n.kind \in NodeKinds /\ (n.kind = "link" => IsTarget(n.to, C))
    BY <1>2, <1>3, PackedKinds
  <2>3. n.kind # "socket"
    BY <1>5 DEF OfKind
  <2>4. ExtractsEntry(Header(n)) <=> /\ n.kind \notin {"socket", "pipe"}
                                     /\ n.kind = "link" => StaysInside(n)
    BY <1>2, <2>1, <2>2, DataExtracts
  <2> QED
    BY <2>2, <2>3, <2>4
<1>9. \A n \in packed : n \in Temporary(destination) => n.kind = "file"
  BY DEF Temporary, Node
<1>10. Header(Database) \in created.headers
  <2>1. Database.path[1] = "sshdock.db"
    BY DEF Database, Node
  <2>2. Database \in kept
    BY <1>1, <1>2, <1>5, <2>1
  <2>3. Database \in packed
    BY <1>6, <2>2
  <2> QED
    BY <1>5, <2>3
<1>11. Restores(created.headers) <=> \A n \in packed : n.kind # "pipe" /\ (n.kind = "link" => StaysInside(n))
  <2>1. Restores(created.headers) <=> \A h \in created.headers : ExtractsEntry(h)
    BY <1>10 DEF Restores
  <2>2. (\A h \in created.headers : ExtractsEntry(h)) <=> \A n \in packed : ExtractsEntry(Header(n))
    BY <1>5, <1>7, Zenon
  <2> QED
    BY <1>8, <2>1, <2>2, Zenon
<1>12. IsRestorable(kept) <=> \A n \in kept : n.kind # "pipe" /\ (n.kind = "link" => StaysInside(n))
  BY DEF IsRestorable, OfKind
<1> QED
  BY <1>6, <1>9, <1>11, <1>12

(* A backup that is reported restores, and Inspect counts its files.         *)
LEMMA HostArchivesHold ==
  ASSUME NEW C, input.of = "host" => IsHostInput(input, C)
  PROVE  BackupIsRestorable /\ InspectAgreesWithCreate
<1>1. CASE input.of # "host"
  BY <1>1 DEF BackupIsRestorable, InspectAgreesWithCreate
<1>2. CASE input.of = "host"
  <2>1. PICK tree, destination, caddy, grows :
          tree = input.tree /\ destination = input.destination /\ caddy = input.caddy /\ grows = input.grows
    OBVIOUS
  <2>2. PICK created : created = Create(tree, destination, caddy, grows)
    OBVIOUS
  <2>3. PICK kept : kept = {n \in tree : n.path[1] # "backups" /\ n.path # destination}
    OBVIOUS
  <2>4. Created = created
    BY <2>1, <2>2 DEF Created
  <2>5. IsHostInput(input, C)
    BY <1>2
  <2>6. /\ "tmp" \in NamesIn(C) /\ AreNodes(tree, NamesIn(C)) /\ IsFiniteSet(tree)
        /\ IsDestination(destination, tree, NamesIn(C)) /\ IsFiniteSet(caddy)
    <3>1. "tmp" \in C
      BY <2>5, Zenon DEF IsHostInput
    <3>2. "tmp" \in NamesIn(C)
      BY <3>1, TmpIsName
    <3> QED
      BY <2>1, <2>5, <3>2, Zenon DEF IsHostInput
  <2>7. created.ok => (Restores(created.headers) <=> IsRestorable(kept))
    BY <2>1, <2>2, <2>3, <2>5, RestorableMeans
  <2>8. RestoredTree(created.headers) \ Temporary(destination) = kept
    BY <2>2, <2>3, <2>6, RestoredTreesAreWhole
  <2>9. BackupIsRestorable
    BY <2>1, <2>3, <2>4, <2>7, <2>8 DEF BackupIsRestorable
  <2>10. InspectedFiles(created.headers) = created.fileCount
    BY <2>2, <2>6, InspectCountsWhatIsPacked DEF IsDestination
  <2> QED
    BY <2>4, <2>9, <2>10 DEF InspectAgreesWithCreate
<1> QED
  BY <1>1, <1>2

(* What may be in an archive or be packed into one.  In a volume archive     *)
(* that is compared with the tree it describes, a plain entry has a name     *)
(* below data/, or is a file in place of data itself: what has another name  *)
(* is refused.                                                              *)
IsArchiveInput(C) ==
  /\ input.of = "entry name" => input.raw \in PathsOf(C) /\ input.dir \in BOOLEAN
  /\ input.of \in {"tar", "archive"} => input.entries \in Seq(EntriesOf(C))
  /\ input.of = "archive" => \A i \in DOMAIN input.entries : TarNamed(input.entries[i])
  /\ input.of = "host" => IsHostInput(input, C)

(* An accepted entry is the path it denotes below data/; an archive is       *)
(* accepted exactly when it is a tree, in any order and up to the limit; what *)
(* an export packs, a restore accepts under the same names; and a host       *)
(* archive restores what was backed up, unless it has a pipe or a link that  *)
(* leads out of it, and Inspect counts its files: for every path, list of    *)
(* entries, data directory and destination.                                 *)
THEOREM ArchivesAreSafe ==
  ASSUME NEW C, HasParts(C), IsArchiveInput(C)
  PROVE  ArchivesAreRestorable
<1>1. EntryNamesStayBelowData
  <2>1. CASE input.of # "entry name"
    BY <2>1 DEF EntryNamesStayBelowData
  <2>2. CASE input.of = "entry name"
    <3>1. PICK raw, dir : raw = input.raw /\ dir = input.dir
      OBVIOUS
    <3>2. raw \in Seq(C) /\ raw # <<>> /\ dir \in BOOLEAN
      BY <2>2, <3>1 DEF IsArchiveInput, PathsOf
    <3>3. "." \in C
      BY PartsHad
    <3>4. EntryName(raw, "data", dir) # Rejected => Clean(raw) = DataPath(EntryName(raw, "data", dir))
      BY <3>2, <3>3, EntriesAreBelowData
    <3> QED
      BY <3>1, <3>4, Zenon DEF EntryNamesStayBelowData, DataPath
  <2> QED
    BY <2>1, <2>2
<1>2. AcceptsExactlyTrees
  <2>1. CASE input.of # "archive"
    BY <2>1 DEF AcceptsExactlyTrees
  <2>2. CASE input.of = "archive"
    <3>1. input.entries \in Seq(EntriesOf(C)) /\ \A i \in DOMAIN input.entries : TarNamed(input.entries[i])
      BY <2>2, Zenon DEF IsArchiveInput
    <3>2. PICK entries : entries = input.entries
      OBVIOUS
    <3>3. entries \in Seq(EntriesOf(C)) /\ \A i \in DOMAIN entries : TarNamed(entries[i])
      BY <3>1, <3>2, Zenon
    <3>4. Accepts(entries) <=> IsTree(entries)
      BY <3>3, TreesHold, Zenon
    <3> QED
      BY <3>2, <3>4, Zenon DEF AcceptsExactlyTrees
  <2> QED
    BY <2>1, <2>2
<1>3. PackedIsAccepted
  <2>1. CASE input.of # "tar"
    BY <2>1 DEF PackedIsAccepted
  <2>2. CASE input.of = "tar"
    <3>1. input.entries \in Seq(EntriesOf(C))
      BY <2>2, Zenon DEF IsArchiveInput
    <3>2. PICK entries : entries = input.entries
      OBVIOUS
    <3>3. Packs(entries) =>
            Accepts(Packed(entries)) /\ CopyEntries(Packed(entries), "data").names = CopyEntries(entries, ".").names
      BY <3>1, <3>2, PackedHolds
    <3> QED
      BY <3>2, <3>3, Zenon DEF PackedIsAccepted
  <2> QED
    BY <2>1, <2>2
<1>4. BackupIsRestorable /\ InspectAgreesWithCreate
  BY HostArchivesHold DEF IsArchiveInput
<1> QED
  BY <1>1, <1>2, <1>3, <1>4 DEF ArchivesAreRestorable

-----------------------------------------------------------------------------
(* Compose preflight: ports. *)

HostsOfPorts == {"unset", "*", "0.0.0.0", "127.0.0.1", "::", "::1"}

LEMMA LoopbackTaken ==
  ASSUME NEW dual \in BOOLEAN
  PROVE  /\ Taken("127.0.0.1", dual) = {"127.0.0.1"}
         /\ \A host : RouteHostReachable(host) => "127.0.0.1" \in Taken(host, dual)
<1>1. Taken("127.0.0.1", dual) = {"127.0.0.1"}
  BY DEF Taken
<1>2. "127.0.0.1" \in Taken("0.0.0.0", dual)
  BY DEF Taken
<1>3. "127.0.0.1" \in Taken("unset", dual)
  BY DEF Taken
<1> QED
  BY <1>1, <1>2, <1>3 DEF RouteHostReachable

LEMMA TakenTogether ==
  ASSUME NEW a \in HostsOfPorts, NEW b \in HostsOfPorts, NEW dual \in BOOLEAN
  PROVE  /\ Taken(a, dual) \cap Taken(b, dual) # {} =>
              a = b \/ ~IsIP(a) \/ ~IsIP(b) \/ IsUnspecified(a) \/ IsUnspecified(b)
         /\ a = b \/ (IsIP(a) /\ IsIP(b) /\ SameFamily(a, b) /\ (IsUnspecified(a) \/ IsUnspecified(b))) =>
              Taken(a, dual) \cap Taken(b, dual) # {}
<1>1. /\ Taken("127.0.0.1", dual) = {"127.0.0.1"} /\ Taken("::1", dual) = {"::1"}
      /\ Taken("0.0.0.0", dual) = {"127.0.0.1", "v4"}
      /\ "::1" \in Taken("::", dual)
      /\ "::1" \in Taken("unset", dual) /\ "::1" \in Taken("*", dual)
  BY DEF Taken
<1>2. /\ \A h \in HostsOfPorts : IsIP(h) <=> h \in {"0.0.0.0", "127.0.0.1", "::", "::1"}
      /\ \A h \in HostsOfPorts : IsUnspecified(h) <=> h \in {"0.0.0.0", "::"}
      /\ \A h, g \in HostsOfPorts :
           SameFamily(h, g) <=> (h \in {"0.0.0.0", "127.0.0.1"} <=> g \in {"0.0.0.0", "127.0.0.1"})
  BY DEF IsIP, IsUnspecified, SameFamily, IP, HostsOfPorts
<1>3. ASSUME a # b, IsIP(a), IsIP(b), ~IsUnspecified(a), ~IsUnspecified(b)
      PROVE  Taken(a, dual) \cap Taken(b, dual) = {}
  <2>1. a \in {"127.0.0.1", "::1"} /\ b \in {"127.0.0.1", "::1"}
    BY <1>2, <1>3
  <2> QED
    BY <1>1, <1>3, <2>1
<1>4. ASSUME NEW h \in HostsOfPorts
      PROVE  Taken(h, dual) # {}
  BY <1>1 DEF HostsOfPorts
<1>5. ASSUME IsIP(a), IsIP(b), SameFamily(a, b), IsUnspecified(a) \/ IsUnspecified(b)
      PROVE  Taken(a, dual) \cap Taken(b, dual) # {}
  <2>1. CASE a \in {"0.0.0.0", "127.0.0.1"} /\ b \in {"0.0.0.0", "127.0.0.1"}
    BY <1>1, <2>1
  <2>2. CASE a \in {"::", "::1"} /\ b \in {"::", "::1"}
    BY <1>1, <2>2
  <2> QED
    BY <1>2, <1>5, <2>1, <2>2
<1> QED
  BY <1>3, <1>4, <1>5

(* A collision is called certain, and blocks, only if the ports conflict on  *)
(* every host, and none is seen only if they conflict on no host.            *)
THEOREM OverlapsAreSound ==
  ASSUME NEW a, NEW b, a.host \in HostsOfPorts, b.host \in HostsOfPorts, NEW dual \in BOOLEAN
  PROVE  /\ Certain(a, b) => Conflict(a, b, dual)
         /\ Conflict(a, b, dual) => PortsOverlap(a, b)
<1>1. ASSUME Certain(a, b)
      PROVE  Conflict(a, b, dual)
  <2>1. a.number = b.number /\ a.protocol = b.protocol
    BY <1>1 DEF Certain, PortsOverlap
  <2>2. a.host = b.host \/
          (/\ IsIP(a.host) /\ IsIP(b.host) /\ SameFamily(a.host, b.host)
           /\ IsUnspecified(a.host) \/ IsUnspecified(b.host))
    BY <1>1 DEF Certain, PortsOverlap
  <2> QED
    BY <2>1, <2>2, TakenTogether DEF Conflict
<1>2. ASSUME Conflict(a, b, dual)
      PROVE  PortsOverlap(a, b)
  BY <1>2, TakenTogether DEF Conflict, PortsOverlap
<1> QED
  BY <1>1, <1>2

(* So an app whose own ports are said to collide cannot be brought up on any *)
(* host, whatever its services publish.                                      *)
THEOREM CollisionsAreReal ==
  ASSUME NEW model, \A p \in PublishedPorts(model) : p.port.host \in HostsOfPorts, Collides(model),
         NEW dual \in BOOLEAN
  PROVE  ~CanBeBound(model, dual)
<1>1. PICK pq \in Collisions(model) : Certain(pq[1].port, pq[2].port)
  BY DEF Collides
<1>2. pq[1] \in PublishedPorts(model) /\ pq[2] \in PublishedPorts(model) /\ pq[1] # pq[2]
  BY DEF Collisions
<1>3. Conflict(pq[1].port, pq[2].port, dual)
  BY <1>1, <1>2, OverlapsAreSound
<1> QED
  BY <1>2, <1>3 DEF CanBeBound

(* Wherever the ports of a model can be bound, what Caddy gets to on the     *)
(* loopback address at the port of the inferred route is that service, and   *)
(* nothing else: for any number of services and ports.                       *)
THEOREM RoutesReachTheirService ==
  ASSUME NEW model, NEW s \in InferRoute(model), NEW dual \in BOOLEAN, CanBeBound(model, dual)
  PROVE  Reached(model, s, dual) = {s}
<1>1. s \in DOMAIN model /\ IsCandidate(model[s])
  BY DEF InferRoute
<1>2. PICK i \in DOMAIN model[s] : TCPPorts(model[s]) = {i} /\ RouteHostReachable(model[s][i].host)
  BY <1>1 DEF IsCandidate
<1> DEFINE own == [service |-> s, at |-> i, port |-> model[s][i]]
           loopback == Port("127.0.0.1", model[s][i].number, "tcp")
<1>3. model[s][i].protocol = "tcp" /\ model[s][i].number # 0
  BY <1>2 DEF TCPPorts
<1>4. own \in PublishedPorts(model)
  BY <1>1, <1>3 DEF PublishedPorts
<1>5. ASSUME NEW p
      PROVE  Conflict(p, loopback, dual) <=>
               p.number = model[s][i].number /\ p.protocol = "tcp" /\ "127.0.0.1" \in Taken(p.host, dual)
  BY LoopbackTaken DEF Conflict, Port
<1>6. Conflict(own.port, loopback, dual) /\ own.service = s /\ own.port = model[s][i]
  BY <1>2, <1>3, <1>5, LoopbackTaken
<1>7. ASSUME NEW p \in PublishedPorts(model), Conflict(p.port, loopback, dual)
      PROVE  p = own
  <2>1. Conflict(p.port, own.port, dual)
    BY <1>2, <1>3, <1>5, <1>6, <1>7, LoopbackTaken DEF Conflict
  <2> QED
    BY <1>4, <2>1 DEF CanBeBound
<1> HIDE DEF own, loopback
<1>8. Reached(model, s, dual) = {p.service : p \in {p \in PublishedPorts(model) : Conflict(p.port, loopback, dual)}}
  BY <1>2 DEF Reached, loopback
<1> QED
  BY <1>4, <1>6, <1>7, <1>8

Statuses == {"ok", "warn", "unknown", "fail"}
SeenOf(bindings) == [status : Statuses, own : SUBSET {bindings[n].port : n \in DOMAIN bindings}]
AfterBindings(published, bindings) == FoldLeft(LAMBDA s, b : AgainstBinding(s, published, b), Untouched, bindings)

LEMMA AgainstBindingTyped ==
  ASSUME NEW bindings, NEW published, NEW n \in DOMAIN bindings, NEW seen \in SeenOf(bindings)
  PROVE  AgainstBinding(seen, published, bindings[n]) \in SeenOf(bindings)
<1> DEFINE binding == bindings[n]
<1>1. binding.port \in {bindings[k].port : k \in DOMAIN bindings}
  OBVIOUS
<1> HIDE DEF binding
<1>2. AgainstBinding(seen, published, binding) \in
        {seen, [seen EXCEPT !.own = @ \cup {binding.port}], [seen EXCEPT !.status = "warn"],
         [seen EXCEPT !.status = "fail"], [seen EXCEPT !.status = "unknown"]}
  BY DEF AgainstBinding
<1> QED
  BY <1>1, <1>2 DEF SeenOf, Statuses, binding

LEMMA BindingsStepwise ==
  ASSUME NEW published, NEW bindings, NEW N \in Nat, DOMAIN bindings = 1 .. N
  PROVE  \E acc :
           /\ acc[0] = Untouched
           /\ \A n \in 1 .. N : acc[n] = AgainstBinding(acc[n - 1], published, bindings[n])
           /\ AfterBindings(published, bindings) = acc[N]
<1> DEFINE T == SeenOf(bindings)
           step == [n \in 1 .. N |-> [seen \in T |-> AgainstBinding(seen, published, bindings[n])]]
           base == Untouched
<1>1. base \in T
  BY DEF Untouched, SeenOf, Statuses
<1>2. step \in [1 .. N -> [T -> T]]
  <2> HIDE DEF T
  <2>1. \A n \in 1 .. N, seen \in T : AgainstBinding(seen, published, bindings[n]) \in T
    BY AgainstBindingTyped DEF T
  <2> QED
    BY <2>1
<1>3. PICK e : IsFold(e, N, base, step) /\ \A S \in SUBSET (1 .. N) : e[S] \in T
  <2> HIDE DEF step, base, T
  <2> QED
    BY <1>1, <1>2, FoldExists, Zenon
<1>4. ASSUME NEW S \in SUBSET (1 .. N), S # {}
      PROVE  step[Max(S)][e[S \ {Max(S)}]] = AgainstBinding(e[S \ {Max(S)}], published, bindings[Max(S)])
  <2>1. PICK m, R : m = Max(S) /\ R = S \ {m}
    OBVIOUS
  <2>2. m \in 1 .. N /\ e[R] \in T
    BY <1>3, <1>4, <2>1, MaxOfPart
  <2> HIDE DEF T
  <2> QED
    BY <2>1, <2>2
<1>5. e = [S \in SUBSET (1 .. N) |->
             IF S = {} THEN base ELSE AgainstBinding(e[S \ {Max(S)}], published, bindings[Max(S)])]
  <2> HIDE DEF step, base, T
  <2> QED
    BY <1>3, <1>4 DEF IsFold
<1>6. PICK it : /\ it = [S \in SUBSET (1 .. N) |->
                           IF S = {} THEN base ELSE AgainstBinding(it[S \ {Max(S)}], published, bindings[Max(S)])]
                /\ AfterBindings(published, bindings) = it[1 .. N]
  <2> HIDE DEF step
  <2> QED
    BY <1>5, Zenon DEF AfterBindings, FoldLeft, MapThenFoldSet
<1>7. PICK acc : /\ acc[0] = it[{}] /\ acc[N] = it[1 .. N]
                 /\ \A n \in 1 .. N : acc[n] = it[1 .. n] /\ acc[n - 1] = it[(1 .. n) \ {n}]
  <2> HIDE DEF step, base, T
  <2>1. PICK other : IsUnfolding(other, it, N)
    BY FoldPrefixes, Zenon
  <2> QED
    BY <2>1, Zenon DEF IsUnfolding
<1> HIDE DEF step, base, T
<1>8. acc[0] = base
  BY <1>6, <1>7
<1>9. ASSUME NEW n \in 1 .. N
      PROVE  acc[n] = AgainstBinding(acc[n - 1], published, bindings[n])
  <2>1. Max(1 .. n) = n /\ 1 .. n # {}
    BY MaxOfTop
  <2>2. 1 .. n \in SUBSET (1 .. N)
    OBVIOUS
  <2>3. it[1 .. n] = AgainstBinding(it[(1 .. n) \ {n}], published, bindings[n])
    BY <1>6, <2>1, <2>2
  <2> QED
    BY <1>7, <2>3
<1> QED
  BY <1>6, <1>7, <1>8, <1>9 DEF base

(* What the bindings up to the n-th leave. *)
InTheWay(published, bindings, n) ==
  {k \in 1 .. n : PortsOverlap(published.port, bindings[k].port)}
IsOwn(published, binding) == binding.project = "this" /\ binding.service = published.service
SeenUpTo(seen, published, bindings, n) ==
  LET met == InTheWay(published, bindings, n) IN
  /\ seen \in SeenOf(bindings)
  /\ seen.status = "fail" <=> \E k \in met : bindings[k].project # "this" /\ Certain(published.port, bindings[k].port)
  /\ (\E k \in met : bindings[k].project # "this") => seen.status \in {"fail", "unknown"}
  /\ seen.status = "ok" <=> \A k \in met : IsOwn(published, bindings[k])
  /\ seen.status = "ok" => \A k \in met : bindings[k].port \in seen.own
  /\ \A port \in seen.own : \E k \in met : bindings[k].port = port

LEMMA SeenGoesOn ==
  ASSUME NEW published, NEW bindings, NEW n \in Nat, n + 1 \in DOMAIN bindings, NEW seen,
         SeenUpTo(seen, published, bindings, n)
  PROVE  SeenUpTo(AgainstBinding(seen, published, bindings[n + 1]), published, bindings, n + 1)
<1> DEFINE binding == bindings[n + 1]
           next == AgainstBinding(seen, published, binding)
           met == InTheWay(published, bindings, n)
<1>1. next \in SeenOf(bindings)
  BY AgainstBindingTyped DEF SeenUpTo
<1>2. 1 .. n + 1 = (1 .. n) \cup {n + 1}
  OBVIOUS
<1>3. CASE ~PortsOverlap(published.port, binding.port)
  <2>1. InTheWay(published, bindings, n + 1) = met
    BY <1>2, <1>3 DEF InTheWay
  <2>2. next = seen
    BY <1>3 DEF AgainstBinding
  <2> QED
    BY <2>1, <2>2 DEF SeenUpTo
<1>4. CASE PortsOverlap(published.port, binding.port)
  <2>1. InTheWay(published, bindings, n + 1) = met \cup {n + 1}
    BY <1>2, <1>4 DEF InTheWay
  <2>2. CASE seen.status = "fail"
    <3>1. next = seen
      BY <2>2 DEF AgainstBinding
    <3> QED
      BY <2>1, <2>2, <3>1 DEF SeenUpTo
  <2>3. CASE seen.status # "fail" /\ binding.project # "this"
    <3>1. next = [seen EXCEPT !.status = IF Certain(published.port, binding.port) THEN "fail" ELSE "unknown"]
      BY <1>4, <2>3 DEF AgainstBinding
    <3> QED
      BY <2>1, <2>3, <3>1, <1>1 DEF SeenUpTo, IsOwn, SeenOf
  <2>4. CASE seen.status # "fail" /\ IsOwn(published, binding)
    <3>1. next = [seen EXCEPT !.own = @ \cup {binding.port}]
      BY <1>4, <2>4 DEF AgainstBinding, IsOwn
    <3> QED
      BY <2>1, <2>4, <3>1, <1>1 DEF SeenUpTo, IsOwn, SeenOf
  <2>5. CASE seen.status # "fail" /\ binding.project = "this" /\ ~IsOwn(published, binding)
    <3>1. next = IF seen.status = "ok" THEN [seen EXCEPT !.status = "warn"] ELSE seen
      BY <1>4, <2>5 DEF AgainstBinding, IsOwn
    <3> QED
      BY <2>1, <2>5, <3>1, <1>1 DEF SeenUpTo, IsOwn, SeenOf
  <2> QED
    BY <2>2, <2>3, <2>4, <2>5 DEF IsOwn
<1> QED
  BY <1>3, <1>4

LEMMA SeenAll ==
  ASSUME NEW published, NEW bindings, NEW N \in Nat, DOMAIN bindings = 1 .. N
  PROVE  SeenUpTo(AfterBindings(published, bindings), published, bindings, N)
<1>1. PICK acc : /\ acc[0] = Untouched
                 /\ \A n \in 1 .. N : acc[n] = AgainstBinding(acc[n - 1], published, bindings[n])
                 /\ AfterBindings(published, bindings) = acc[N]
  BY BindingsStepwise
<1> DEFINE X == {n \in 0 .. N : SeenUpTo(acc[n], published, bindings, n)}
<1>2. 0 \in X
  <2>1. InTheWay(published, bindings, 0) = {}
    BY DEF InTheWay
  <2> QED
    BY <1>1, <2>1 DEF SeenUpTo, Untouched, SeenOf, Statuses
<1>3. ASSUME NEW n \in 0 .. N - 1, n \in X
      PROVE  n + 1 \in X
  <2>1. n + 1 \in 1 .. N /\ (n + 1) - 1 = n
    OBVIOUS
  <2>2. acc[n + 1] = AgainstBinding(acc[n], published, bindings[n + 1])
    BY <1>1, <2>1
  <2> QED
    BY <1>3, <2>1, <2>2, SeenGoesOn
<1>4. N \in X
  <2> HIDE DEF X
  <2> QED
    BY <1>2, <1>3, ByInduction, Zenon
<1> QED
  BY <1>1, <1>4

Ports == [host : HostsOfPorts, number : Nat, protocol : {"tcp", "udp"}]
Bindings == [project : {"this", "other"}, service : STRING, port : Ports]

LEMMA CoveredIsTaken ==
  ASSUME NEW a, NEW b, a.host \in HostsOfPorts, b.host \in HostsOfPorts, Covers(a, b)
  PROVE  Taken(b.host, FALSE) \subseteq Taken(a.host, FALSE)
<1>1. /\ Taken("127.0.0.1", FALSE) = {"127.0.0.1"} /\ Taken("::1", FALSE) = {"::1"}
      /\ Taken("0.0.0.0", FALSE) = {"127.0.0.1", "v4"} /\ Taken("::", FALSE) = {"::1", "v6"}
  BY DEF Taken
<1>2. \/ a.host = b.host
      \/ /\ a.host = "0.0.0.0" /\ b.host \in {"0.0.0.0", "127.0.0.1"}
      \/ /\ a.host = "::" /\ b.host \in {"::", "::1"}
  BY DEF Covers, IsUnspecified, SameFamily, IsIP, IP
<1> QED
  BY <1>1, <1>2

LEMMA StatusMeans ==
  ASSUME NEW published, NEW bindings, NEW N \in Nat, DOMAIN bindings = 1 .. N,
         NEW listeners, NEW known \in BOOLEAN
  PROVE  LET met == InTheWay(published, bindings, N)
             status == PortStatus(published, bindings, listeners, known) IN
         /\ status = "fail" <=>
              \E k \in met : bindings[k].project # "this" /\ Certain(published.port, bindings[k].port)
         /\ (\E k \in met : bindings[k].project # "this") => status \in {"fail", "unknown"}
         /\ status = "ok" => /\ known
                             /\ \A k \in met : IsOwn(published, bindings[k])
                             /\ \A l \in listeners : PortsOverlap(published.port, l) =>
                                  \E k \in met : Covers(bindings[k].port, l)
         /\ (/\ known
             /\ \A k \in met : IsOwn(published, bindings[k])
             /\ \A l \in listeners : PortsOverlap(published.port, l) => \E k \in met : Covers(bindings[k].port, l))
            => status = "ok"
<1> DEFINE met == InTheWay(published, bindings, N)
           status == PortStatus(published, bindings, listeners, known)
           seen == AfterBindings(published, bindings)
           taken == {l \in listeners : PortsOverlap(published.port, l) /\ \A p \in seen.own : ~Covers(p, l)}
<1>1. SeenUpTo(seen, published, bindings, N)
  BY SeenAll
<1>2. status = IF seen.status # "ok" THEN seen.status
               ELSE IF taken # {} THEN "warn" ELSE IF known THEN "ok" ELSE "unknown"
  BY DEF PortStatus, AfterBindings
<1> HIDE DEF status, seen
<1>3. /\ seen.status = "fail" <=>
           \E k \in met : bindings[k].project # "this" /\ Certain(published.port, bindings[k].port)
      /\ (\E k \in met : bindings[k].project # "this") => seen.status \in {"fail", "unknown"}
      /\ seen.status = "ok" <=> \A k \in met : IsOwn(published, bindings[k])
      /\ seen.status = "ok" => \A k \in met : bindings[k].port \in seen.own
      /\ \A port \in seen.own : \E k \in met : bindings[k].port = port
  BY <1>1, Zenon DEF SeenUpTo
<1>4. status = "fail" <=> seen.status = "fail"
  BY <1>2
<1>5. seen.status \in {"fail", "unknown"} => status = seen.status
  BY <1>2
<1>6. status = "ok" <=> seen.status = "ok" /\ taken = {} /\ known
  BY <1>2
<1>7. taken = {} <=> \A l \in listeners : PortsOverlap(published.port, l) => \E p \in seen.own : Covers(p, l)
  OBVIOUS
<1> HIDE DEF met, taken
<1>8. status = "ok" =>
        \A l \in listeners : PortsOverlap(published.port, l) => \E k \in met : Covers(bindings[k].port, l)
  BY <1>3, <1>6, <1>7
<1>9. (\A k \in met : IsOwn(published, bindings[k])) /\ known
         /\ (\A l \in listeners : PortsOverlap(published.port, l) => \E k \in met : Covers(bindings[k].port, l))
         => status = "ok"
  BY <1>3, <1>6, <1>7
<1> QED
  BY <1>3, <1>4, <1>5, <1>6, <1>8, <1>9, Zenon DEF met, status, seen

LEMMA PortStatusHolds ==
  ASSUME input.of = "port" => /\ input.host \in HostsOfPorts
                              /\ input.bindings \in Seq(Bindings)
                              /\ input.listeners \in SUBSET HostsOfPorts
                              /\ input.known \in BOOLEAN
  PROVE  PortStatusIsWorst
<1> SUFFICES ASSUME input.of = "port" PROVE PortStatusIsWorst
  BY DEF PortStatusIsWorst
<1> DEFINE port == Port(input.host, 1, "tcp")
           published == [service |-> "web", port |-> port]
           bindings == input.bindings
           listeners == {Port(h, 1, "tcp") : h \in input.listeners}
           N == Len(bindings)
           met == InTheWay(published, bindings, N)
           inTheWay == {b \in Range(bindings) : PortsOverlap(port, b.port)}
           others == {b \in inTheWay : b.project = "other"}
<1>1. /\ N \in Nat /\ DOMAIN bindings = 1 .. N
      /\ \A k \in 1 .. N : bindings[k] \in Bindings
      /\ published.port = port /\ port.host = input.host /\ published.service = "web"
  BY DEF Port
<1>2. input.host \in HostsOfPorts /\ input.known \in BOOLEAN /\ input.listeners \in SUBSET HostsOfPorts
  OBVIOUS
<1>3. \A k \in 1 .. N : /\ bindings[k].project # "this" <=> bindings[k].project = "other"
                        /\ bindings[k].port.host \in HostsOfPorts
  BY <1>1 DEF Bindings, Ports
<1>4. InputStatus = PortStatus(published, bindings, listeners, input.known)
  BY DEF InputStatus
<1> HIDE DEF port, published, bindings, listeners, N
<1>5. inTheWay = {bindings[k] : k \in met}
  BY <1>1, <1>3 DEF InTheWay, Range
<1> DEFINE status == InputStatus
<1>6. /\ status = "fail" <=> \E k \in met : bindings[k].project # "this" /\ Certain(port, bindings[k].port)
      /\ (\E k \in met : bindings[k].project # "this") => status \in {"fail", "unknown"}
      /\ status = "ok" => /\ input.known
                          /\ \A k \in met : IsOwn(published, bindings[k])
                          /\ \A l \in listeners : PortsOverlap(port, l) => \E k \in met : Covers(bindings[k].port, l)
  BY <1>1, <1>2, <1>4, StatusMeans
<1>7. met \in SUBSET (1 .. N) /\ \A k \in 1 .. N : k \in met <=> PortsOverlap(port, bindings[k].port)
  BY <1>1 DEF InTheWay
<1>8. status = "fail" <=> \E b \in others : Certain(port, b.port)
  <2> HIDE DEF met, status
  <2> QED
    BY <1>3, <1>5, <1>6, <1>7
<1>9. others # {} => status \in {"fail", "unknown"}
  <2> HIDE DEF met, status
  <2> QED
    BY <1>3, <1>5, <1>6, <1>7
<1>10. ASSUME status = "ok", NEW b \in Range(bindings), NEW dual \in BOOLEAN, Conflict(port, b.port, dual)
       PROVE  b.project = "this" /\ b.service = "web"
  <2>1. PICK k \in 1 .. N : b = bindings[k]
    BY <1>1 DEF Range
  <2>2. PortsOverlap(port, b.port)
    BY <1>1, <1>2, <1>3, <1>10, <2>1, OverlapsAreSound
  <2> QED
    BY <1>1, <1>6, <1>7, <1>10, <2>1, <2>2 DEF IsOwn
<1>11. ASSUME status = "ok", NEW h \in input.listeners, NEW dual \in BOOLEAN, Conflict(port, Port(h, 1, "tcp"), dual)
       PROVE  \E b \in inTheWay : Taken(h, FALSE) \subseteq Taken(b.port.host, FALSE)
  <2>1. PICK l : l = Port(h, 1, "tcp") /\ l \in listeners /\ l.host = h /\ h \in HostsOfPorts
    <3>1. Port(h, 1, "tcp") \in listeners
      BY DEF listeners
    <3>2. Port(h, 1, "tcp").host = h /\ h \in HostsOfPorts
      BY <1>2 DEF Port
    <3> QED
      BY <3>1, <3>2
  <2>2. PortsOverlap(port, l)
    BY <1>1, <1>2, <1>11, <2>1, OverlapsAreSound
  <2>3. PICK k \in met : Covers(bindings[k].port, l)
    BY <1>6, <1>11, <2>1, <2>2
  <2>4. Taken(h, FALSE) \subseteq Taken(bindings[k].port.host, FALSE)
    <3>1. bindings[k].port.host \in HostsOfPorts
      BY <1>3, <1>7, <2>3
    <3>2. PICK p : p = bindings[k].port /\ p.host \in HostsOfPorts /\ Covers(p, l)
      BY <2>3, <3>1
    <3> HIDE DEF met
    <3>3. Taken(l.host, FALSE) \subseteq Taken(p.host, FALSE)
      <4>1. l.host \in HostsOfPorts
        BY <2>1
      <4> QED
        BY <3>2, <4>1, CoveredIsTaken, Zenon
    <3> QED
      BY <2>1, <3>2, <3>3
  <2> QED
    BY <1>5, <2>4
<1> QED
  BY <1>6, <1>8, <1>9, <1>10, <1>11, Zenon DEF PortStatusIsWorst, port, bindings

LEMMA PublishedIsFinite ==
  ASSUME NEW model, IsFiniteSet(DOMAIN model), \A s \in DOMAIN model : model[s] \in Seq(Ports)
  PROVE  IsFiniteSet(PublishedPorts(model))
<1> DEFINE At(s) == {k \in DOMAIN model[s] : model[s][k].number # 0}
           Of == [s \in DOMAIN model |-> {[service |-> s, at |-> i, port |-> model[s][i]] : i \in At(s)}]
<1>1. ASSUME NEW s \in DOMAIN model
      PROVE  IsFiniteSet(Of[s])
  <2> DEFINE f == [i \in At(s) |-> [service |-> s, at |-> i, port |-> model[s][i]]]
  <2>1. PICK n \in Nat : DOMAIN model[s] = 1 .. n
    <3>1. PICK ports : ports = model[s] /\ ports \in Seq(Ports)
      OBVIOUS
    <3>2. Len(ports) \in Nat /\ DOMAIN ports = 1 .. Len(ports)
      BY <3>1
    <3> QED
      BY <3>1, <3>2
  <2>2. IsFiniteSet(1 .. n)
    BY FS_Interval
  <2>3. At(s) \in SUBSET (1 .. n)
    BY <2>1
  <2>4. IsFiniteSet(At(s))
    BY <2>2, <2>3, FS_Subset
  <2>5. DOMAIN f = At(s) /\ Of[s] = {f[i] : i \in At(s)}
    OBVIOUS
  <2> HIDE DEF f, At, Of
  <2> QED
    BY <2>4, <2>5, ImageIsFinite
<1>2. DOMAIN Of = DOMAIN model /\ PublishedPorts(model) = UNION {Of[s] : s \in DOMAIN model}
  BY DEF PublishedPorts
<1> HIDE DEF Of
<1>3. IsFiniteSet({Of[s] : s \in DOMAIN model})
  BY <1>2, ImageIsFinite
<1>4. \A T \in {Of[s] : s \in DOMAIN model} : IsFiniteSet(T)
  BY <1>1
<1> QED
  BY <1>2, <1>3, <1>4, FS_UNION

LEMMA SetAsSeq ==
  ASSUME NEW S, IsFiniteSet(S)
  PROVE  /\ DOMAIN SetToSeq(S) = 1 .. Cardinality(S)
         /\ \A n \in 1 .. Cardinality(S) : SetToSeq(S)[n] \in S
         /\ \A x \in S : \E n \in 1 .. Cardinality(S) : SetToSeq(S)[n] = x
<1> DEFINE N == Cardinality(S)
           seq == SetToSeq(S)
<1>1. N \in Nat /\ ExistsBijection(1 .. N, S)
  BY FS_CardinalityType
<1>2. \E f \in [1 .. N -> S] : IsInjective(f)
  BY <1>1 DEF ExistsBijection, Bijection, Injection
<1>3. seq \in [1 .. N -> S] /\ IsInjective(seq)
  BY <1>2, Zenon DEF SetToSeq
<1>4. IsFiniteSet(1 .. N) /\ Cardinality(1 .. N) = N
  BY <1>1, FS_Interval
<1> HIDE DEF seq
<1>5. seq \in Injection(1 .. N, S)
  BY <1>3 DEF Injection
<1>6. seq \in Surjection(1 .. N, S)
  BY <1>4, <1>5, FS_Injection
<1>7. \A x \in S : \E n \in 1 .. N : seq[n] = x
  BY <1>6 DEF Surjection
<1> QED
  BY <1>3, <1>7 DEF seq

(* The bindings and listeners of an app's own containers. *)
RunningOf(p) ==
  {[project |-> "this", service |-> p.service, port |-> [p.port EXCEPT !.host = h]] : h \in DockerHosts(p.port.host)}

LEMMA RunningIsOwn ==
  ASSUME NEW model, Collisions(model) = {}, NEW p \in PublishedPorts(model), NEW q \in PublishedPorts(model),
         p.port \in Ports, q.port \in Ports, p.port.host # "*", NEW b \in RunningOf(q), PortsOverlap(p.port, b.port)
  PROVE  IsOwn(p, b) /\ b \in RunningOf(p) /\ Covers(b.port, b.port)
<1>1. PICK h \in DockerHosts(q.port.host) :
        b = [project |-> "this", service |-> q.service, port |-> [q.port EXCEPT !.host = h]]
  BY DEF RunningOf
<1>2. PICK port : /\ port = b.port /\ port.host = h
                  /\ port.number = q.port.number /\ port.protocol = q.port.protocol
  BY <1>1 DEF Ports
<1>3. PortsOverlap(p.port, q.port)
  <2>1. CASE q.port.host = "unset"
    <3>1. ~IsIP(q.port.host)
      BY <2>1 DEF IsIP, IP
    <3> QED
      BY <1>2, <3>1 DEF PortsOverlap
  <2>2. CASE q.port.host # "unset"
    <3>1. h = q.port.host
      BY <2>2 DEF DockerHosts
    <3> QED
      BY <1>2, <3>1 DEF PortsOverlap
  <2> QED
    BY <2>1, <2>2
<1>4. p = q
  <2>1. CASE p # q
    <3>1. <<p, q>> \in Collisions(model)
      BY <1>3, <2>1 DEF Collisions
    <3> QED
      BY <3>1
  <2> QED
    BY <2>1
<1>5. IsOwn(p, b)
  BY <1>1, <1>4 DEF IsOwn
<1>6. h \in {"0.0.0.0", "127.0.0.1", "::", "::1"}
  <2>1. q.port.host \in HostsOfPorts /\ q.port.host # "*"
    BY <1>4 DEF Ports
  <2> QED
    BY <2>1 DEF DockerHosts, HostsOfPorts
<1>7. Covers(port, port)
  BY <1>2, <1>6 DEF Covers, IsIP, IP
<1> QED
  BY <1>2, <1>4, <1>5, <1>7

(* What an app publishes: ports of its services, each on an address of the    *)
(* host or on all of them.                                                   *)
IsPublishable(model) ==
  /\ IsFiniteSet(DOMAIN model)
  /\ \A s \in DOMAIN model : model[s] \in Seq({p \in Ports : p.host # "*"})

LEMMA PublishedHosts ==
  ASSUME NEW model, \A s \in DOMAIN model : model[s] \in Seq({p \in Ports : p.host # "*"}),
         NEW q \in PublishedPorts(model)
  PROVE  q.port \in Ports /\ q.port.host # "*" /\ q.port.host \in HostsOfPorts
<1> DEFINE ModelPorts == {r \in Ports : r.host # "*"}
<1>1. PICK s \in DOMAIN model : \E i \in DOMAIN model[s] : q = [service |-> s, at |-> i, port |-> model[s][i]]
  BY DEF PublishedPorts
<1>2. PICK ports : ports = model[s] /\ ports \in Seq(ModelPorts)
  OBVIOUS
<1>3. PICK i \in DOMAIN ports : q = [service |-> s, at |-> i, port |-> ports[i]]
  BY <1>1, <1>2
<1>4. ports[i] \in ModelPorts
  BY <1>2
<1> QED
  BY <1>3, <1>4 DEF Ports

LEMMA RedeployHolds ==
  ASSUME input.of = "model" => IsPublishable(input.model)
  PROVE  RedeployIsClean
<1> SUFFICES ASSUME input.of = "model", Collisions(input.model) = {},
                    NEW p \in PublishedPorts(input.model)
             PROVE  LET running == UNION {RunningOf(q) : q \in PublishedPorts(input.model)} IN
                    PortStatus(p, SetToSeq(running), {b.port : b \in running}, TRUE) = "ok"
  BY Zenon DEF RedeployIsClean, RunningOf
<1> DEFINE model == input.model
           published == PublishedPorts(model)
           running == UNION {RunningOf(q) : q \in published}
           bindings == SetToSeq(running)
           listeners == {b.port : b \in running}
<1>1. \A q \in published : q.port \in Ports /\ q.port.host # "*"
  BY PublishedHosts DEF IsPublishable
<1>2. IsFiniteSet(published)
  <2>1. ASSUME NEW s \in DOMAIN model
        PROVE  model[s] \in Seq(Ports)
    <3>1. PICK ports : ports = model[s] /\ ports \in Seq({r \in Ports : r.host # "*"})
      BY DEF IsPublishable
    <3>2. ports \in Seq(Ports)
      BY <3>1, SeqMonotonic
    <3> QED
      BY <3>1, <3>2
  <2> QED
    BY <2>1, PublishedIsFinite DEF IsPublishable
<1> HIDE DEF model
<1>3. IsFiniteSet(running)
  <2> DEFINE Of == [q \in published |-> RunningOf(q)]
  <2>1. ASSUME NEW q \in published
        PROVE  IsFiniteSet(RunningOf(q))
    <3> DEFINE Hosts == DockerHosts(q.port.host)
               f == [h \in Hosts |->
                       [project |-> "this", service |-> q.service, port |-> [q.port EXCEPT !.host = h]]]
    <3>1. IsFiniteSet({"0.0.0.0", "::"}) /\ IsFiniteSet({q.port.host})
      <4>1. PICK S, T : S = {"0.0.0.0"} /\ T = {"::"}
        OBVIOUS
      <4>2. IsFiniteSet(S) /\ IsFiniteSet(T) /\ IsFiniteSet({q.port.host})
        BY <4>1, FS_Singleton
      <4>3. IsFiniteSet(S \cup T)
        BY <4>2, FS_Union
      <4>4. S \cup T = {"0.0.0.0", "::"}
        BY <4>1
      <4> QED
        BY <4>2, <4>3, <4>4
    <3>2. IsFiniteSet(Hosts)
      BY <3>1 DEF DockerHosts
    <3>3. DOMAIN f = Hosts /\ RunningOf(q) = {f[h] : h \in Hosts}
      BY DEF RunningOf
    <3> HIDE DEF f, Hosts
    <3> QED
      BY <3>2, <3>3, ImageIsFinite
  <2>2. DOMAIN Of = published /\ {Of[q] : q \in published} = {RunningOf(q) : q \in published}
    OBVIOUS
  <2> HIDE DEF Of, published
  <2>3. IsFiniteSet({RunningOf(q) : q \in published})
    BY <1>2, <2>2, ImageIsFinite
  <2> QED
    BY <2>1, <2>3, FS_UNION
<1> DEFINE N == Cardinality(running)
           met == InTheWay(p, bindings, N)
<1>4. /\ N \in Nat /\ DOMAIN bindings = 1 .. N
      /\ \A n \in 1 .. N : bindings[n] \in running
      /\ \A b \in running : \E n \in 1 .. N : bindings[n] = b
  BY <1>3, SetAsSeq, FS_CardinalityType
<1>5. \A b \in running : PortsOverlap(p.port, b.port) => IsOwn(p, b) /\ Covers(b.port, b.port)
  BY <1>1, RunningIsOwn DEF model
<1> HIDE DEF running, bindings, N
<1>6. \A k \in met : IsOwn(p, bindings[k])
  BY <1>4, <1>5 DEF InTheWay
<1>7. \A l \in listeners : PortsOverlap(p.port, l) => \E k \in met : Covers(bindings[k].port, l)
  <2>1. ASSUME NEW l \in listeners, PortsOverlap(p.port, l)
        PROVE  \E k \in met : Covers(bindings[k].port, l)
    <3>1. PICK b \in running : l = b.port
      OBVIOUS
    <3>2. PICK n \in 1 .. N : bindings[n] = b
      BY <1>4
    <3> QED
      BY <1>5, <2>1, <3>1, <3>2 DEF InTheWay
  <2> QED
    BY <2>1
<1> HIDE DEF listeners, met
<1>8. PortStatus(p, bindings, listeners, TRUE) = "ok"
  BY <1>4, <1>6, <1>7, StatusMeans DEF met
<1> QED
  BY <1>8 DEF bindings, listeners, running, published, model

-----------------------------------------------------------------------------
(* Compose preflight: reports. *)

LEMMA DeploysWhenFound ==
  ASSUME NEW found, found.file, found.yaml, found.environment, found.policy, found.compose, found.config,
         found.readable, found.docker, found.images, found.builds, found.starts, ~found.collision, ~found.occupied
  PROVE  DeployStage(found) = "deployed"
BY Zenon DEF DeployStage

LEMMA ReportFields ==
  ASSUME NEW report, NEW ok, NEW validated, report = [ok |-> ok, validated |-> validated]
  PROVE  report.ok = ok /\ report.validated = validated
OBVIOUS

LEMMA BlockedIsNotDeployed ==
  ASSUME NEW found, NEW scope \in {"local", "server"}, ~Preflight(scope, found).ok
  PROVE  DeployStage(found) # "deployed"
<1>1. SUFFICES ASSUME DeployStage(found) = "deployed" PROVE FALSE
  OBVIOUS
<1>2. found.file
  <2>1. CASE ~found.file
    <3>1. DeployStage(found) = "detect Compose"
      BY <2>1, Zenon DEF DeployStage
    <3> QED
      BY <1>1, <3>1
  <2> QED
    BY <2>1
<1>3. found.yaml /\ found.environment /\ found.policy
  <2>1. CASE ~(found.yaml /\ found.environment /\ found.policy)
    <3>1. DeployStage(found) = "validate Compose"
      BY <1>2, <2>1, Zenon DEF DeployStage
    <3> QED
      BY <1>1, <3>1
  <2> QED
    BY <2>1
<1>4. DeployStage(found) =
        IF ~(found.compose /\ found.config /\ found.readable) THEN "Compose config"
        ELSE IF ~(found.docker /\ found.images) THEN "pull images"
        ELSE IF ~found.builds THEN "build services"
        ELSE IF found.collision \/ found.occupied \/ ~found.starts THEN "wait services" ELSE "deployed"
  BY <1>2, <1>3, Zenon DEF DeployStage
<1>5. /\ "Compose config" # "deployed" /\ "pull images" # "deployed"
      /\ "build services" # "deployed" /\ "wait services" # "deployed"
  OBVIOUS
<1>6. found.compose /\ found.config /\ found.readable
  BY <1>1, <1>4, <1>5, Zenon
<1>7. found.docker /\ ~found.collision /\ ~found.occupied
  BY <1>1, <1>4, <1>5, <1>6, Zenon
<1>8. Preflight(scope, found) = [ok |-> ~found.collision /\ (scope = "server" => found.docker /\ ~found.occupied),
                                validated |-> TRUE]
  BY <1>2, <1>3, <1>6, Zenon DEF Preflight
<1>9. Preflight(scope, found).ok
  BY <1>7, <1>8, ReportFields, Zenon
<1> QED
  BY <1>9

LEMMA ValidatedMeansFound ==
  ASSUME NEW found, Preflight("server", found).ok, Preflight("server", found).validated
  PROVE  /\ found.file /\ found.yaml /\ found.environment /\ found.policy
         /\ found.compose /\ found.config /\ found.readable
         /\ found.docker /\ ~found.collision /\ ~found.occupied
<1>1. found.file /\ found.yaml /\ found.environment /\ found.policy
  <2>1. CASE ~(found.file /\ found.yaml /\ found.environment /\ found.policy)
    <3>1. Preflight("server", found) = [ok |-> FALSE, validated |-> FALSE]
      BY <2>1, Zenon DEF Preflight
    <3> QED
      BY <3>1, ReportFields, Zenon
  <2> QED
    BY <2>1
<1>2. found.compose
  <2>1. CASE ~found.compose
    <3>1. Preflight("server", found) = [ok |-> "server" = "local", validated |-> FALSE]
      BY <1>1, <2>1, Zenon DEF Preflight
    <3> QED
      BY <3>1, ReportFields, Zenon
  <2> QED
    BY <2>1
<1>3. found.config
  <2>1. CASE ~found.config
    <3>1. Preflight("server", found) = [ok |-> FALSE, validated |-> FALSE]
      BY <1>1, <1>2, <2>1, Zenon DEF Preflight
    <3> QED
      BY <3>1, ReportFields, Zenon
  <2> QED
    BY <2>1
<1>4. found.readable
  <2>1. CASE ~found.readable
    <3>1. Preflight("server", found) = [ok |-> TRUE, validated |-> FALSE]
      BY <1>1, <1>2, <1>3, <2>1, Zenon DEF Preflight
    <3> QED
      BY <3>1, ReportFields, Zenon
  <2> QED
    BY <2>1
<1>5. Preflight("server", found) =
        [ok |-> ~found.collision /\ ("server" = "server" => found.docker /\ ~found.occupied),
                                   validated |-> TRUE]
  BY <1>1, <1>2, <1>3, <1>4, Zenon DEF Preflight
<1>6. ~found.collision /\ found.docker /\ ~found.occupied
  BY <1>5, ReportFields, Zenon
<1> QED
  BY <1>1, <1>2, <1>3, <1>4, <1>6

LEMMA PreflightMatchesDeploy ==
  ASSUME input.of = "preflight" => input.scope \in {"local", "server"}
  PROVE  PreflightAgreesWithDeploy
<1> DEFINE report == Preflight(input.scope, input.found)
<1>1. SUFFICES ASSUME input.of = "preflight"
               PROVE  /\ ~report.ok => DeployStage(input.found) # "deployed"
                      /\ report.ok /\ report.validated /\ input.scope = "server"
                           /\ input.found.images /\ input.found.builds /\ input.found.starts =>
                         DeployStage(input.found) = "deployed"
  BY Zenon DEF PreflightAgreesWithDeploy
<1>2. input.scope \in {"local", "server"}
  BY <1>1
<1>3. ~report.ok => DeployStage(input.found) # "deployed"
  BY <1>2, BlockedIsNotDeployed, Zenon
<1>4. ASSUME report.ok, report.validated, input.scope = "server",
             input.found.images, input.found.builds, input.found.starts
      PROVE  DeployStage(input.found) = "deployed"
  <2>1. Preflight("server", input.found).ok /\ Preflight("server", input.found).validated
    BY <1>4, Zenon
  <2> QED
    BY <1>4, <2>1, ValidatedMeansFound, DeploysWhenFound, Zenon
<1> QED
  BY <1>3, <1>4, Zenon

LEMMA OverlapHolds ==
  ASSUME input.of = "overlap" => input.a \in Ports /\ input.b \in Ports,
         input.of = "model" => \A s \in DOMAIN input.model : input.model[s] \in Seq({p \in Ports : p.host # "*"})
  PROVE  OverlapIsSound
<1>1. ASSUME input.of = "overlap", NEW dual \in BOOLEAN
      PROVE  /\ Certain(input.a, input.b) => Conflict(input.a, input.b, dual)
             /\ Conflict(input.a, input.b, dual) => PortsOverlap(input.a, input.b)
  <2>1. input.a.host \in HostsOfPorts /\ input.b.host \in HostsOfPorts
    BY <1>1 DEF Ports
  <2> QED
    BY <2>1, OverlapsAreSound
<1>2. ASSUME input.of = "model", Collides(input.model), NEW dual \in BOOLEAN
      PROVE  \E pq \in Collisions(input.model) : Conflict(pq[1].port, pq[2].port, dual)
  <2>1. PICK pq \in Collisions(input.model) : Certain(pq[1].port, pq[2].port)
    BY <1>2 DEF Collides
  <2>2. pq[1] \in PublishedPorts(input.model) /\ pq[2] \in PublishedPorts(input.model)
    BY DEF Collisions
  <2>3. pq[1].port.host \in HostsOfPorts /\ pq[2].port.host \in HostsOfPorts
    BY <1>2, <2>2, PublishedHosts
  <2> QED
    BY <2>1, <2>3, OverlapsAreSound
<1> QED
  BY <1>1, <1>2, Zenon DEF OverlapIsSound

(* Inputs of the checks of ports and of preflight. *)
PreflightInput ==
  /\ input.of = "overlap" => input.a \in Ports /\ input.b \in Ports
  /\ input.of = "model" => IsPublishable(input.model)
  /\ input.of = "port" => /\ input.host \in HostsOfPorts
                          /\ input.bindings \in Seq(Bindings)
                          /\ input.listeners \in SUBSET HostsOfPorts
                          /\ input.known \in BOOLEAN
  /\ input.of = "preflight" => input.scope \in {"local", "server"}

THEOREM PreflightReportsAreTrue == PreflightInput => PreflightIsTrue
<1> SUFFICES ASSUME PreflightInput PROVE PreflightIsTrue
  OBVIOUS
<1>1. OverlapIsSound
  BY OverlapHolds, Zenon DEF PreflightInput, IsPublishable
<1>2. PortStatusIsWorst
  BY PortStatusHolds, Zenon DEF PreflightInput
<1>3. RedeployIsClean
  BY RedeployHolds, Zenon DEF PreflightInput
<1>4. PreflightAgreesWithDeploy
  BY PreflightMatchesDeploy, Zenon DEF PreflightInput
<1> QED
  BY <1>1, <1>2, <1>3, <1>4 DEF PreflightIsTrue

-----------------------------------------------------------------------------
(* Diagnostics of routes. *)

(* An address, as it was written. *)
Spelled(Hosts) == [scheme : {"none", "http", "https"}, host : Hosts, port : Nat]

LEMMA Lowered ==
  ASSUME NEW h
  PROVE  Lower(h) # "A" /\ Lower(Lower(h)) = Lower(h) /\ Form(Lower(h)) = Form(h)
BY DEF Lower, Form, IsIPv6

(* A canonical address. *)
LEMMA CanonicalParts ==
  ASSUME NEW w, w.scheme \in {"none", "http", "https"}, w.port \in Nat, NEW c, c = CanonicalAddress(w)
  PROVE  /\ c = [scheme |-> c.scheme, host |-> c.host, port |-> c.port, form |-> c.form]
         /\ c.host = Lower(w.host) /\ c.form = Form(c.host)
         /\ c.scheme \in {"none", "http", "https"} /\ c.port \in Nat
         /\ c.scheme = "none" => c.port = 0
         /\ c.scheme = "http" => c.port # 80
         /\ PublicPort(c) \in Nat
         /\ w.scheme # "none" => IsHTTPS(c) = IsHTTPS(w) /\ PublicPort(c) = PublicPort(w)
         /\ w.scheme = "none" /\ w.port = 0 => c.scheme = "none" /\ c.port = 0
<1> DEFINE scheme == IF w.scheme # "none" THEN w.scheme ELSE IF w.port = 80 THEN "http" ELSE "https"
           port == IF w.port # 0 THEN w.port ELSE OwnPort(scheme)
<1>1. scheme \in {"http", "https"} /\ port \in Nat \ {0}
  BY DEF OwnPort
<1>2. /\ c = [scheme |-> c.scheme, host |-> c.host, port |-> c.port, form |-> c.form]
      /\ c.host = Lower(w.host) /\ c.form = Form(w.host)
      /\ c.scheme = IF scheme = "https" /\ port = 443 THEN "none" ELSE scheme
      /\ c.port = IF port = OwnPort(scheme) THEN 0 ELSE port
  BY DEF CanonicalAddress
<1>3. w.scheme # "none" => scheme = w.scheme
  OBVIOUS
<1>4. w.port # 0 => port = w.port
  OBVIOUS
<1>5. w.port = 0 => port = OwnPort(scheme)
  OBVIOUS
<1>6. w.scheme = "none" /\ w.port = 0 => scheme = "https"
  OBVIOUS
<1> HIDE DEF scheme, port
<1>7. CASE scheme = "http"
  <2>1. OwnPort(scheme) = 80 /\ c.scheme = "http" /\ c.port = IF port = 80 THEN 0 ELSE port
    BY <1>2, <1>7 DEF OwnPort
  <2>2. PublicPort(c) = port
    BY <1>1, <2>1 DEF PublicPort, OwnPort
  <2>3. w.scheme # "none" => PublicPort(w) = port /\ IsHTTPS(c) = IsHTTPS(w)
    BY <1>3, <1>4, <1>5, <1>7, <2>1 DEF PublicPort, OwnPort, IsHTTPS
  <2> QED
    BY <1>1, <1>2, <1>6, <1>7, <2>1, <2>2, <2>3, Lowered
<1>8. CASE scheme = "https"
  <2>1. OwnPort(scheme) = 443 /\ c.port = (IF port = 443 THEN 0 ELSE port)
        /\ c.scheme = IF port = 443 THEN "none" ELSE "https"
    BY <1>2, <1>8 DEF OwnPort
  <2>2. PublicPort(c) = port
    BY <1>1, <2>1 DEF PublicPort, OwnPort
  <2>3. w.scheme # "none" => PublicPort(w) = port /\ IsHTTPS(c) = IsHTTPS(w)
    BY <1>3, <1>4, <1>5, <1>8, <2>1 DEF PublicPort, OwnPort, IsHTTPS
  <2> QED
    BY <1>1, <1>2, <1>5, <1>8, <2>1, <2>2, <2>3, Lowered
<1> QED
  BY <1>1, <1>7, <1>8

(* An address that may be stored: its parts, and what is rendered of it, the *)
(* same site lowered.                                                       *)
IsAddress(a) ==
  /\ a = [scheme |-> a.scheme, host |-> a.host, port |-> a.port, form |-> a.form]
  /\ a.scheme \in {"none", "http", "https"} /\ a.port \in Nat /\ a.form = Form(a.host)
  /\ a.scheme # "https" => Lower(a.host) = a.host
  /\ a.scheme = "none" => a.port = 0
  /\ a.scheme = "http" => a.port # 80

LEMMA StoredIsAddress ==
  ASSUME NEW Hosts, NEW a \in StoredAddresses(Spelled(Hosts))
  PROVE  IsAddress(a)
<1>1. CASE \E w \in Spelled(Hosts) : a = CanonicalAddress(w)
  <2>1. PICK w \in Spelled(Hosts) : a = CanonicalAddress(w)
    BY <1>1
  <2>2. w.scheme \in {"none", "http", "https"} /\ w.port \in Nat
    BY DEF Spelled
  <2>3. Lower(a.host) = a.host
    BY <2>1, <2>2, CanonicalParts, Lowered
  <2> QED
    BY <2>1, <2>2, <2>3, CanonicalParts DEF IsAddress
<1>2. CASE \E w \in Spelled(Hosts) : w.scheme = "https" /\ a = AsWritten(w)
  <2>1. PICK w \in Spelled(Hosts) : w.scheme = "https" /\ a = AsWritten(w)
    BY <1>2
  <2>2. w.port \in Nat
    BY DEF Spelled
  <2>3. a.form = Form(a.host)
    BY <2>1 DEF AsWritten
  <2> QED
    BY <2>1, <2>2, <2>3 DEF AsWritten, IsAddress
<1> QED
  BY <1>1, <1>2 DEF StoredAddresses

LEMMA RenderedAddress ==
  ASSUME NEW a, IsAddress(a), NEW c, c = CanonicalAddress(a)
  PROVE  /\ c.host = Lower(a.host)
         /\ PublicPort(c) = PublicPort(a) /\ PublicPort(a) \in Nat
         /\ IsHTTPS(c) = IsHTTPS(a)
<1>1. a.scheme \in {"none", "http", "https"} /\ a.port \in Nat /\ (a.scheme = "none" => a.port = 0)
  BY DEF IsAddress
<1>2. CASE a.scheme = "none"
  BY <1>1, <1>2, CanonicalParts DEF PublicPort, OwnPort, IsHTTPS
<1>3. CASE a.scheme # "none"
  BY <1>1, <1>3, CanonicalParts
<1> QED
  BY <1>2, <1>3

-----------------------------------------------------------------------------
(* What is read back of a row: the site it is rendered as. *)
Site(r) ==
  [address |-> SiteAddress(Lower(r.address.host), PublicPort(r.address), IsHTTPS(r.address)),
   port |-> r.port, https |-> IsHTTPS(r.address)]

Skipped(routes, port) ==
  {r.address.host : r \in {r \in routes : port # 80 /\ PublicPort(r.address) = port /\ ~IsHTTPS(r.address)}}
Served(routes, port) ==
  {[host |-> r.address.host, upstream |-> r.port] : r \in {r \in routes : PublicPort(r.address) = port}}

AreStored(rows, Hosts) ==
  \A r \in rows : r.address \in StoredAddresses(Spelled(Hosts)) /\ r = Row(r.address, r.port)

LEMMA RenderedRow ==
  ASSUME NEW Hosts, NEW rows, AreStored(rows, Hosts), Renderable(rows), NEW r \in rows
  PROVE  /\ IsAddress(r.address) /\ r.https = IsHTTPS(r.address)
         /\ Rendered(r).address.host = Lower(r.address.host) /\ Rendered(r).port = r.port
         /\ PublicPort(Rendered(r).address) = PublicPort(r.address)
         /\ IsHTTPS(Rendered(r).address) = IsHTTPS(r.address)
         /\ IsHTTPS(r.address) => PublicPort(r.address) # 80
         /\ ~IsHTTPS(r.address) => PublicPort(r.address) # 443
<1>1. IsAddress(r.address) /\ r = Row(r.address, r.port)
  BY StoredIsAddress DEF AreStored
<1>2. Rendered(r).address = CanonicalAddress(r.address) /\ Rendered(r).port = r.port /\ r.https = IsHTTPS(r.address)
  BY <1>1 DEF Rendered, Row
<1> DEFINE c == CanonicalAddress(r.address)
<1>3. /\ c.host = Lower(r.address.host)
      /\ PublicPort(c) = PublicPort(r.address)
      /\ IsHTTPS(c) = IsHTTPS(r.address)
  BY <1>1, RenderedAddress
<1>4. ~(c.scheme = "http" /\ PublicPort(c) = 443) /\ ~(IsHTTPS(c) /\ PublicPort(c) = 80)
  BY DEF Renderable, Accepted
<1>5. IsHTTPS(c) => PublicPort(c) # 80
  BY <1>4
<1>6. ~IsHTTPS(c) => PublicPort(c) # 443
  BY <1>4 DEF IsHTTPS
<1> HIDE DEF c
<1>7. Rendered(r).address = c
  BY <1>2 DEF c
<1> QED
  BY <1>1, <1>2, <1>3, <1>5, <1>6, <1>7

LEMMA SchemeIsRead ==
  ASSUME NEW Hosts, NEW rows, AreStored(rows, Hosts), Renderable(rows), NEW r \in rows
  PROVE  LET routes == {Rendered(q) : q \in rows}
             port == PublicPort(r.address) IN
         (Lower(r.address.host) \notin Skipped(routes, port) /\ port # 80) <=> IsHTTPS(r.address)
<1> DEFINE routes == {Rendered(q) : q \in rows}
           port == PublicPort(r.address)
<1>1. ASSUME IsHTTPS(r.address)
      PROVE  port # 80 /\ Lower(r.address.host) \notin Skipped(routes, port)
  <2>1. port # 80
    BY <1>1, RenderedRow
  <2>2. ASSUME NEW q \in rows, Rendered(q).address.host = Lower(r.address.host),
               PublicPort(Rendered(q).address) = port, ~IsHTTPS(Rendered(q).address)
        PROVE  FALSE
    <3>1. Lower(q.address.host) = Lower(r.address.host) /\ PublicPort(q.address) = PublicPort(r.address)
          /\ ~IsHTTPS(q.address)
      BY <2>2, RenderedRow
    <3>2. q = r
      BY <3>1 DEF Renderable
    <3> QED
      BY <1>1, <3>1, <3>2
  <2> QED
    BY <2>1, <2>2 DEF Skipped
<1>2. ASSUME ~IsHTTPS(r.address), port # 80
      PROVE  Lower(r.address.host) \in Skipped(routes, port)
  <2>1. /\ Rendered(r) \in routes /\ Rendered(r).address.host = Lower(r.address.host)
        /\ PublicPort(Rendered(r).address) = port /\ ~IsHTTPS(Rendered(r).address)
    BY <1>2, RenderedRow
  <2> HIDE DEF routes, port
  <2> QED
    BY <1>2, <2>1 DEF Skipped
<1> QED
  BY <1>1, <1>2

LEMMA ActiveSites ==
  ASSUME NEW Hosts, NEW rows, AreStored(rows, Hosts), Renderable(rows)
  PROVE  ReadBack(rows).routes = {Site(r) : r \in rows}
<1> DEFINE routes == {Rendered(q) : q \in rows}
           ports == {PublicPort(q.address) : q \in routes}
           server(port) == [listen |-> port, skip |-> Skipped(routes, port), routes |-> Served(routes, port)]
           uses(port, host) == UsesHTTPS(server(port), host)
           read(port, s) ==
             [address |-> SiteAddress(s.host, port, uses(port, s.host)), port |-> s.upstream,
              https |-> uses(port, s.host)]
           served(r) == [host |-> Rendered(r).address.host, upstream |-> Rendered(r).port]
<1>1. ReadBack(rows).routes = ActiveRoutes(Servers(routes))
  BY DEF ReadBack
<1>2. Servers(routes) = {server(port) : port \in ports}
  BY DEF Servers, Skipped, Served
<1>3. ASSUME NEW x
      PROVE  x \in ActiveRoutes(Servers(routes)) <=>
               \E port \in ports : \E s \in Served(routes, port) : x = read(port, s)
  <2>1. ASSUME NEW port
        PROVE  server(port).listen = port /\ server(port).routes = Served(routes, port)
    OBVIOUS
  <2> HIDE DEF server, ports
  <2>2. x \in ActiveRoutes(Servers(routes)) <=>
          \E server_ \in Servers(routes) : \E s \in server_.routes :
            x = [address |-> SiteAddress(s.host, server_.listen, UsesHTTPS(server_, s.host)),
                 port |-> s.upstream, https |-> UsesHTTPS(server_, s.host)]
    <3> DEFINE part(server_) ==
                 {[address |-> SiteAddress(s.host, server_.listen, UsesHTTPS(server_, s.host)),
                   port |-> s.upstream, https |-> UsesHTTPS(server_, s.host)] : s \in server_.routes}
    <3>1. ActiveRoutes(Servers(routes)) = UNION {part(server_) : server_ \in Servers(routes)}
      BY DEF ActiveRoutes
    <3>2. ASSUME NEW server_
          PROVE  x \in part(server_) <=> \E s \in server_.routes :
                   x = [address |-> SiteAddress(s.host, server_.listen, UsesHTTPS(server_, s.host)),
                        port |-> s.upstream, https |-> UsesHTTPS(server_, s.host)]
      OBVIOUS
    <3> HIDE DEF part
    <3> QED
      BY <3>1, <3>2
  <2>3. x \in ActiveRoutes(Servers(routes)) <=>
          \E port \in ports : \E s \in server(port).routes :
            x = [address |-> SiteAddress(s.host, server(port).listen, UsesHTTPS(server(port), s.host)),
                 port |-> s.upstream, https |-> UsesHTTPS(server(port), s.host)]
    BY <1>2, <2>2
  <2> QED
    BY <2>1, <2>3, Zenon
<1>4. ASSUME NEW r \in rows
      PROVE  /\ PublicPort(r.address) \in ports
             /\ served(r) \in Served(routes, PublicPort(r.address))
             /\ read(PublicPort(r.address), served(r)) = Site(r)
  <2>1. /\ PublicPort(Rendered(r).address) = PublicPort(r.address)
        /\ Rendered(r).address.host = Lower(r.address.host) /\ Rendered(r).port = r.port
    BY RenderedRow
  <2>2. PublicPort(r.address) \in ports /\ served(r) \in Served(routes, PublicPort(r.address))
    BY <2>1 DEF Served
  <2>3. uses(PublicPort(r.address), Lower(r.address.host)) = IsHTTPS(r.address)
    <3> DEFINE port == PublicPort(r.address)
    <3>1. server(port).skip = Skipped(routes, port) /\ server(port).listen = port
      OBVIOUS
    <3>2. (Lower(r.address.host) \notin Skipped(routes, port) /\ port # 80) <=> IsHTTPS(r.address)
      BY SchemeIsRead
    <3> HIDE DEF server, routes, port
    <3>3. (Lower(r.address.host) \notin server(port).skip /\ server(port).listen # 80) <=> IsHTTPS(r.address)
      BY <3>1, <3>2
    <3> QED
      BY <3>3 DEF UsesHTTPS, IsHTTPS, port
  <2>4. served(r).host = Lower(r.address.host) /\ served(r).upstream = r.port
    BY <2>1
  <2> HIDE DEF uses, served
  <2> QED
    BY <2>2, <2>3, <2>4 DEF Site
<1>5. ASSUME NEW port \in ports, NEW s \in Served(routes, port)
      PROVE  \E r \in rows : port = PublicPort(r.address) /\ s = served(r)
  <2>1. PICK r \in rows : PublicPort(Rendered(r).address) = port /\ s = served(r)
    BY DEF Served
  <2> QED
    BY <2>1, RenderedRow
<1> HIDE DEF ports, read, served, server, uses
<1>6. ASSUME NEW x
      PROVE  x \in ActiveRoutes(Servers(routes)) <=> \E r \in rows : x = Site(r)
  <2>1. ASSUME x \in ActiveRoutes(Servers(routes))
        PROVE  \E r \in rows : x = Site(r)
    <3>1. PICK port \in ports : \E s \in Served(routes, port) : x = read(port, s)
      BY <1>3, <2>1
    <3>0. PICK s \in Served(routes, port) : x = read(port, s)
      BY <3>1
    <3>2. PICK r \in rows : port = PublicPort(r.address) /\ s = served(r)
      BY <1>5
    <3> QED
      BY <1>4, <3>0, <3>2
  <2>2. ASSUME NEW r \in rows, x = Site(r)
        PROVE  x \in ActiveRoutes(Servers(routes))
    BY <1>3, <1>4, <2>2
  <2> QED
    BY <2>1, <2>2
<1> QED
  BY <1>1, <1>6

(* The address Caddy is asked at, as it is compared. *)
LEMMA SiteParts ==
  ASSUME NEW host, NEW port \in Nat \ {0}, NEW https \in BOOLEAN, https => port # 80, ~https => port # 443,
         NEW site, site = SiteAddress(host, port, https)
  PROVE  /\ ComparisonKey(site) = site
         /\ site.host = host
         /\ port = 80 => site = [scheme |-> "http", host |-> host, port |-> 0, form |-> "plain"]
         /\ port = 443 => site = [scheme |-> "none", host |-> host, port |-> 0, form |-> "plain"]
         /\ port \notin {80, 443} =>
              /\ site.port = port
              /\ https => site = [scheme |-> "https", host |-> host, port |-> port, form |-> Form(host)]
              /\ ~https => site = [scheme |-> "http", host |-> host, port |-> port, form |-> Form(host)]
<1>1. CASE port = 80
  <2>0. https = FALSE
    BY <1>1
  <2>1. site = [scheme |-> "http", host |-> host, port |-> 0, form |-> "plain"]
    BY <1>1, <2>0 DEF SiteAddress, OwnPort
  <2> QED
    BY <1>1, <2>1 DEF ComparisonKey
<1>2. CASE port = 443
  <2>0. https = TRUE
    BY <1>2
  <2>1. site = [scheme |-> "none", host |-> host, port |-> 0, form |-> "plain"]
    BY <1>2, <2>0 DEF SiteAddress, OwnPort
  <2> QED
    BY <1>2, <2>1 DEF ComparisonKey
<1>3. CASE port \notin {80, 443}
  <2>1. site = [scheme |-> IF https THEN "https" ELSE "http", host |-> host, port |-> port, form |-> Form(host)]
    BY <1>3 DEF SiteAddress, OwnPort
  <2>2. site.port = port /\ site.host = host
    BY <2>1
  <2> QED
    BY <1>3, <2>1, <2>2 DEF ComparisonKey
<1> QED
  BY <1>1, <1>2, <1>3

LEMMA RowSite ==
  ASSUME NEW Hosts, NEW rows, AreStored(rows, Hosts), Renderable(rows), NEW r \in rows,
         NEW site, site = Site(r).address, NEW port, port = PublicPort(r.address)
  PROVE  /\ ComparisonKey(site) = site /\ site.host = Lower(r.address.host)
         /\ port # 0
         /\ port = 80 => site = [scheme |-> "http", host |-> Lower(r.address.host), port |-> 0, form |-> "plain"]
         /\ port = 443 => site = [scheme |-> "none", host |-> Lower(r.address.host), port |-> 0, form |-> "plain"]
         /\ port \notin {80, 443} =>
              /\ site.port = port
              /\ IsHTTPS(r.address) =>
                   site = [scheme |-> "https", host |-> Lower(r.address.host), port |-> port,
                           form |-> Form(Lower(r.address.host))]
              /\ ~IsHTTPS(r.address) =>
                   site = [scheme |-> "http", host |-> Lower(r.address.host), port |-> port,
                           form |-> Form(Lower(r.address.host))]
<1>1. port \in Nat \ {0}
  <2>1. r.address.port \in Nat
    BY RenderedRow DEF IsAddress
  <2> QED
    BY <2>1 DEF PublicPort, OwnPort
<1>2. PICK https \in BOOLEAN : https = IsHTTPS(r.address)
  BY DEF IsHTTPS
<1>3. PICK host : host = Lower(r.address.host)
  OBVIOUS
<1>4. (https => port # 80) /\ (~https => port # 443)
  BY <1>2, RenderedRow
<1>5. site = SiteAddress(host, port, https)
  BY <1>2, <1>3 DEF Site
<1>6. /\ ComparisonKey(site) = site
      /\ site.host = host
      /\ port = 80 => site = [scheme |-> "http", host |-> host, port |-> 0, form |-> "plain"]
      /\ port = 443 => site = [scheme |-> "none", host |-> host, port |-> 0, form |-> "plain"]
      /\ port \notin {80, 443} =>
           /\ site.port = port
           /\ https => site = [scheme |-> "https", host |-> host, port |-> port, form |-> Form(host)]
           /\ ~https => site = [scheme |-> "http", host |-> host, port |-> port, form |-> Form(host)]
  BY ONLY <1>1, <1>4, <1>5, https \in BOOLEAN, SiteParts
<1> QED
  BY <1>1, <1>2, <1>3, <1>6

LEMMA RecognisedKey ==
  ASSUME NEW Hosts, NEW rows, AreStored(rows, Hosts), Renderable(rows), NEW r \in rows, ~IsUnrecognised(r.address)
  PROVE  ComparisonKey(Site(r).address) = ComparisonKey(r.address)
<1> DEFINE a == r.address
<1>1. IsAddress(a)
  BY RenderedRow
<1>0. PICK site : site = Site(r).address
  OBVIOUS
<1>9. PICK port : port = PublicPort(a)
  OBVIOUS
<1>2. /\ ComparisonKey(site) = site
      /\ port = 80 => site = [scheme |-> "http", host |-> Lower(a.host), port |-> 0, form |-> "plain"]
      /\ port = 443 => site = [scheme |-> "none", host |-> Lower(a.host), port |-> 0, form |-> "plain"]
      /\ port \notin {80, 443} =>
           /\ IsHTTPS(a) =>
                site = [scheme |-> "https", host |-> Lower(a.host), port |-> port, form |-> Form(Lower(a.host))]
           /\ ~IsHTTPS(a) =>
                site = [scheme |-> "http", host |-> Lower(a.host), port |-> port, form |-> Form(Lower(a.host))]
  BY <1>0, <1>9, RowSite
<1> HIDE DEF a
<1>3. CASE a.scheme = "none"
  <2>1. PublicPort(a) = 443 /\ a.port = 0 /\ ~IsIPv6(a.host) /\ Lower(a.host) = a.host
    BY <1>1, <1>3 DEF IsAddress, PublicPort, OwnPort, IsUnrecognised, a
  <2>2. a.form = "plain"
    BY <1>1, <2>1 DEF IsAddress, Form
  <2>3. a = [scheme |-> "none", host |-> a.host, port |-> 0, form |-> "plain"]
    BY <1>1, <1>3, <2>1, <2>2 DEF IsAddress
  <2>4. site = [scheme |-> "none", host |-> a.host, port |-> 0, form |-> "plain"]
    BY <1>2, <1>9, <2>1
  <2>5. ComparisonKey(a) = a
    BY <1>3 DEF ComparisonKey
  <2> QED
    BY <1>0, <1>2, <2>3, <2>4, <2>5 DEF a
<1>4. CASE a.scheme = "http" /\ a.port = 0
  <2>1. PublicPort(a) = 80 /\ ~IsIPv6(a.host) /\ Lower(a.host) = a.host
    BY <1>1, <1>4 DEF IsAddress, PublicPort, OwnPort, IsUnrecognised, a
  <2>2. a.form = "plain"
    BY <1>1, <2>1 DEF IsAddress, Form
  <2>3. a = [scheme |-> "http", host |-> a.host, port |-> 0, form |-> "plain"]
    BY <1>1, <1>4, <2>1, <2>2 DEF IsAddress
  <2>4. site = [scheme |-> "http", host |-> a.host, port |-> 0, form |-> "plain"]
    BY <1>2, <1>9, <2>1
  <2>5. ComparisonKey(a) = a
    BY <1>4 DEF ComparisonKey
  <2> QED
    BY <1>0, <1>2, <2>3, <2>4, <2>5 DEF a
<1>5. CASE a.scheme = "http" /\ a.port # 0
  <2>1. PublicPort(a) = a.port /\ a.port # 80 /\ Lower(a.host) = a.host /\ ~IsHTTPS(a)
    BY <1>1, <1>5 DEF IsAddress, PublicPort, IsHTTPS
  <2>2. a.port # 443
    BY <2>1, RenderedRow DEF a
  <2>3. a = [scheme |-> "http", host |-> a.host, port |-> a.port, form |-> Form(a.host)]
    BY <1>1, <1>5 DEF IsAddress
  <2>4. site = [scheme |-> "http", host |-> a.host, port |-> a.port, form |-> Form(a.host)]
    BY <1>2, <1>9, <2>1, <2>2
  <2>5. ComparisonKey(a) = a
    BY <1>5 DEF ComparisonKey
  <2> QED
    BY <1>0, <1>2, <2>3, <2>4, <2>5 DEF a
<1>6. CASE a.scheme = "https" /\ a.port \in {0, 443}
  <2>1. PublicPort(a) = 443
    BY <1>6 DEF PublicPort, OwnPort
  <2>2. site = [scheme |-> "none", host |-> Lower(a.host), port |-> 0, form |-> "plain"]
    BY <1>2, <1>9, <2>1
  <2>3. ComparisonKey(a) = [scheme |-> "none", host |-> Lower(a.host), port |-> 0, form |-> "plain"]
    BY <1>6 DEF ComparisonKey
  <2> QED
    BY <1>0, <1>2, <2>2, <2>3 DEF a
<1>7. CASE a.scheme = "https" /\ a.port \notin {0, 443}
  <2>1. PublicPort(a) = a.port /\ Lower(a.host) = a.host /\ IsHTTPS(a)
    BY <1>1, <1>7 DEF IsAddress, PublicPort, IsHTTPS, IsUnrecognised, a
  <2>2. a.port # 80
    BY <2>1, RenderedRow DEF a
  <2>3. a = [scheme |-> "https", host |-> a.host, port |-> a.port, form |-> Form(a.host)]
    BY <1>1, <1>7 DEF IsAddress
  <2>4. site = [scheme |-> "https", host |-> a.host, port |-> a.port, form |-> Form(a.host)]
    BY <1>2, <1>7, <1>9, <2>1, <2>2
  <2>5. ComparisonKey(a) = a
    BY <1>7 DEF ComparisonKey
  <2> QED
    BY <1>0, <1>2, <2>3, <2>4, <2>5 DEF a
<1> QED
  BY <1>1, <1>3, <1>4, <1>5, <1>6, <1>7 DEF IsAddress

LEMMA UnrecognisedKey ==
  ASSUME NEW Hosts, NEW rows, AreStored(rows, Hosts), Renderable(rows), NEW r \in rows, IsUnrecognised(r.address),
         NEW q \in rows
  PROVE  ComparisonKey(Site(q).address) # ComparisonKey(r.address)
<1> DEFINE a == r.address
           site == Site(q).address
<1>1. IsAddress(a) /\ ComparisonKey(site) = site /\ site.host = Lower(q.address.host)
  BY RenderedRow, RowSite
<1>2. CASE a.scheme = "https"
  <2>1. a.port \notin {0, 443} /\ Lower(a.host) # a.host
    BY <1>2 DEF IsUnrecognised
  <2>2. ComparisonKey(a) = a
    BY <2>1 DEF ComparisonKey
  <2>3. Lower(site.host) = site.host
    BY <1>1, Lowered
  <2> QED
    BY <1>1, <2>1, <2>2, <2>3
<1>3. CASE a.scheme # "https"
  <2>1. IsIPv6(a.host) /\ a.port = 0 /\ a.form = Form(a.host) /\ ComparisonKey(a) = a
    BY <1>1, <1>3 DEF IsUnrecognised, IsAddress, ComparisonKey
  <2>2. a.form # "plain"
    BY <2>1 DEF Form
  <2>3. PublicPort(q.address) # 0
    BY RowSite
  <2>4. site.port = 0 => site.form = "plain"
    BY <2>3, RowSite
  <2> QED
    BY <1>1, <2>1, <2>2, <2>4
<1> QED
  BY <1>2, <1>3

(* The domain check reads back what Caddy serves of any number of rows, at   *)
(* any ports: each row is ok, or missing where its spelling is one of the    *)
(* two that are not recognised, and none is ever called a mismatch.          *)
THEOREM RowsAreReadBack ==
  ASSUME NEW Hosts, NEW rows, AreStored(rows, Hosts), Renderable(rows), NEW r \in rows
  PROVE  RowStatus(r, FALSE, ReadBack(rows)) = IF IsUnrecognised(r.address) THEN "missing" ELSE "ok"
<1> DEFINE active == ReadBack(rows)
<1>1. active.supported = TRUE /\ active.readable = TRUE
  BY DEF ReadBack
<1>2. active.routes = {Site(q) : q \in rows}
  BY ActiveSites
<1>3. RowStatus(r, FALSE, active) =
        IF Matches(active, r) THEN "ok" ELSE IF ActiveAt(active, r.address) = {} THEN "missing" ELSE "mismatch"
  BY <1>1 DEF RowStatus
<1> HIDE DEF active
<1>4. CASE IsUnrecognised(r.address)
  <2>1. ActiveAt(active, r.address) = {}
    BY <1>2, <1>4, UnrecognisedKey DEF ActiveAt
  <2>2. ~Matches(active, r)
    BY <2>1 DEF Matches
  <2> QED
    BY <1>3, <1>4, <2>1, <2>2 DEF active
<1>5. CASE ~IsUnrecognised(r.address)
  <2>1. Site(r) \in ActiveAt(active, r.address)
    BY <1>2, <1>5, RecognisedKey DEF ActiveAt
  <2>2. Site(r).port = r.port /\ Site(r).https = r.https
    BY RenderedRow DEF Site
  <2>3. Matches(active, r)
    BY <2>1, <2>2 DEF Matches
  <2> QED
    BY <1>3, <1>5, <2>3 DEF active
<1> QED
  BY <1>4, <1>5

(* Diagnostics require a listener on 443 whenever Caddy needs one for the    *)
(* stored rows, whatever the https that is stored beside an address.         *)
THEOREM NeededPortsAreRequired ==
  ASSUME NEW Hosts, NEW rows, AreStored(rows, Hosts), Renderable(rows),
         NEW s \in Servers({Rendered(r) : r \in rows}), s.listen = 443,
         NEW read, \A r \in rows : \E q \in read : q.address = r.address
  PROVE  RequiresHTTPS(read)
<1>1. PICK r \in rows : s.listen = PublicPort(Rendered(r).address)
  BY DEF Servers
<1>2. PublicPort(r.address) = 443
  BY <1>1, RenderedRow
<1>3. IsHTTPS(r.address)
  BY <1>2, RenderedRow
<1>4. PICK q \in read : q.address = r.address
  OBVIOUS
<1> QED
  BY <1>3, <1>4 DEF RequiresHTTPS, IsHTTPS

-----------------------------------------------------------------------------
(* Health.  Attempts are ordered by when they started, then by their ids. *)
AreAttempts(attempts) ==
  \A a, b \in attempts : a.started \in Nat /\ a.id \in Nat /\ (a.id = b.id => a = b)

LEMMA LatestOfSucceeded ==
  ASSUME NEW attempts, AreAttempts(attempts), NEW some, some \subseteq attempts,
         Latest(attempts) # {}, Latest(attempts) \subseteq some
  PROVE  Latest(some) = Latest(attempts)
<1>1. PICK a \in Latest(attempts) : TRUE
  OBVIOUS
<1>2. a \in some /\ \A b \in attempts \ {a} : IsLater(a, b)
  BY <1>1 DEF Latest
<1>3. a \in Latest(some)
  BY <1>2 DEF Latest
<1>4. ASSUME NEW S, a \in S, S \subseteq attempts, \A b \in S \ {a} : IsLater(a, b), NEW b \in Latest(S)
      PROVE  b = a
  <2>1. b \in S /\ (b # a => IsLater(b, a) /\ IsLater(a, b))
    BY <1>4 DEF Latest
  <2>2. a.started \in Nat /\ b.started \in Nat /\ a.id \in Nat /\ b.id \in Nat
    BY <1>4, <2>1 DEF AreAttempts
  <2> QED
    BY <2>1, <2>2 DEF IsLater
<1>5. Latest(attempts) = {a}
  BY <1>1, <1>2, <1>4
<1>6. Latest(some) = {a}
  BY <1>2, <1>3, <1>4
<1> QED
  BY <1>5, <1>6

(* An app that is said to be ok runs, in all of its services, what main is   *)
(* at, as its last attempt left it, and each of its routes is served as it   *)
(* is wanted: for any number of attempts, routes and services.               *)
THEOREM HealthyAppsAreServed ==
  ASSUME NEW read, AreAttempts(read.attempts),
         read.status \in {"created", "healthy", "failed"}, \A a \in read.attempts : a.status # "healthy",
         read.active.supported \in BOOLEAN, read.active.readable \in BOOLEAN,
         Health(read).overall = "ok"
  PROVE  /\ read.status = "healthy" /\ read.services = {"running"}
         /\ Health(read).latest = Health(read).lastSuccess
         /\ \E a \in read.attempts :
              a.commit = read.main /\ a.status = "succeeded" /\ \A b \in read.attempts : b.started <= a.started
         /\ read.rows # {} /\ \A r \in read.rows : Matches(read.active, r)
<1> DEFINE latest == Latest(read.attempts)
           checked == CheckDomains(read.rows, read.failures, read.active)
           rest == {OutcomeHealth(a.status) : a \in latest}
           lacks == IF latest = {} \/ read.rows = {} \/ ~read.restarts THEN {"warn"} ELSE {}
           checks ==
             {OutcomeHealth(read.status), OutcomeHealth(read.release), CurrentMainHealth(read, latest),
              RouteHealth(checked), ServiceHealth(read.services)} \cup rest \cup lacks
<1>1. /\ Health(read).overall = (IF "fail" \in checks THEN "fail" ELSE IF "warn" \in checks THEN "warn" ELSE "ok")
      /\ Health(read).latest = latest
      /\ Health(read).lastSuccess = Latest({a \in read.attempts : a.status = "succeeded"})
  BY DEF Health
<1>2. "fail" \notin checks /\ "warn" \notin checks
  BY <1>1
<1>3. \A h \in {OutcomeHealth(read.status), CurrentMainHealth(read, latest), RouteHealth(checked),
                ServiceHealth(read.services)} \cup rest \cup lacks : h \notin {"fail", "warn"}
  BY <1>2
<1> HIDE DEF checks
<1>4. read.status = "healthy"
  BY <1>3 DEF OutcomeHealth
<1>5. latest # {} /\ read.rows # {}
  <2>1. "warn" \notin lacks
    BY <1>3
  <2> QED
    BY <2>1
<1>6. read.services = {"running"}
  BY <1>3 DEF ServiceHealth
<1>7. latest \subseteq {a \in read.attempts : a.status = "succeeded"}
  <2>1. ASSUME NEW a \in latest
        PROVE  a \in read.attempts /\ a.status = "succeeded"
    <3>1. a \in read.attempts
      BY DEF Latest
    <3>2. OutcomeHealth(a.status) \notin {"fail", "warn"}
      BY <1>3
    <3> QED
      BY <3>1, <3>2 DEF OutcomeHealth
  <2> QED
    BY <2>1
<1>8. Latest({a \in read.attempts : a.status = "succeeded"}) = latest
  BY <1>5, <1>7, LatestOfSucceeded
<1>9. \E a \in read.attempts :
        a.commit = read.main /\ a.status = "succeeded" /\ \A b \in read.attempts : b.started <= a.started
  <2>1. PICK a \in latest : a.commit = read.main
    BY <1>3 DEF CurrentMainHealth
  <2>2. a \in read.attempts /\ \A b \in read.attempts \ {a} : IsLater(a, b)
    BY <2>1 DEF Latest
  <2>3. \A b \in read.attempts : b.started <= a.started
    BY <2>2 DEF IsLater, AreAttempts
  <2> QED
    BY <1>7, <2>1, <2>2, <2>3
<1>10. ASSUME NEW r \in read.rows
       PROVE  Matches(read.active, r)
  <2>1. RouteHealth(checked) \notin {"fail", "warn"}
    BY <1>3
  <2>2. \A c \in checked : c.status = "ok"
    BY <2>1 DEF RouteHealth
  <2> DEFINE status == RowStatus(r, \E f \in read.failures : f.address = r.address, read.active)
  <2>3. [address |-> r.address, status |-> status] \in checked
    BY DEF CheckDomains
  <2>4. status = "ok"
    <3> HIDE DEF status, checked
    <3>1. [address |-> r.address, status |-> status].status = status
      OBVIOUS
    <3> QED
      BY <2>2, <2>3, <3>1
  <2> QED
    BY <2>4 DEF RowStatus
<1> QED
  BY <1>1, <1>4, <1>5, <1>6, <1>8, <1>9, <1>10

(* Rows and routes at addresses as they are compared.                        *)
ComparedAddresses(Hosts) == {a \in StoredAddresses(Spelled(Hosts)) : ComparisonKey(a) = a}
Sites(Hosts) == {Row(a, p) : a \in ComparedAddresses(Hosts), p \in Nat}
IsRead(active, Hosts) ==
  /\ active.supported \in BOOLEAN /\ active.readable \in BOOLEAN
  /\ active.readable => active.supported
  /\ active.routes \in SUBSET Sites(Hosts)
  /\ ~active.readable => active.routes = {}

LEMMA SiteFields ==
  ASSUME NEW Hosts, NEW r \in Sites(Hosts)
  PROVE  r = Row(r.address, r.port) /\ ComparisonKey(r.address) = r.address
BY DEF Sites, Row, ComparedAddresses

LEMMA MatchesWhatIsServed ==
  ASSUME NEW Hosts, NEW active, active.routes \in SUBSET Sites(Hosts), NEW r \in Sites(Hosts)
  PROVE  Matches(active, r) <=> r \in active.routes
<1>1. ASSUME NEW q \in active.routes, ComparisonKey(q.address) = ComparisonKey(r.address), q.port = r.port
      PROVE  q = r
  <2>1. q \in Sites(Hosts)
    OBVIOUS
  <2>2. q = Row(q.address, q.port) /\ r = Row(r.address, r.port)
    BY <2>1, SiteFields
  <2>3. q.address = r.address
    BY <1>1, <2>1, SiteFields
  <2> QED
    BY <1>1, <2>2, <2>3
<1> QED
  BY <1>1 DEF Matches, ActiveAt

LEMMA StatusOfRow ==
  ASSUME NEW Hosts, NEW active, IsRead(active, Hosts), NEW r \in Sites(Hosts), NEW failed \in BOOLEAN
  PROVE  /\ RowStatus(r, failed, active) = "ok" <=> r \in active.routes
         /\ active.readable /\ r \notin active.routes =>
              RowStatus(r, failed, active) \in {"failed", "missing", "mismatch"}
<1>1. Matches(active, r) <=> r \in active.routes
  BY MatchesWhatIsServed DEF IsRead
<1>2. CASE ~active.supported
  <2>1. RowStatus(r, failed, active) = IF failed THEN "failed" ELSE "stored"
    BY <1>2, Zenon DEF RowStatus
  <2>2. active.routes = {} /\ ~active.readable
    BY <1>2 DEF IsRead
  <2> QED
    BY <2>1, <2>2
<1>3. CASE active.supported /\ ~active.readable
  <2>1. RowStatus(r, failed, active) = "unavailable"
    BY <1>3, Zenon DEF RowStatus
  <2>2. active.routes = {}
    BY <1>3 DEF IsRead
  <2> QED
    BY <1>3, <2>1, <2>2
<1>4. CASE active.supported /\ active.readable
  <2>1. RowStatus(r, failed, active) =
          IF Matches(active, r) THEN "ok"
          ELSE IF failed THEN "failed" ELSE IF ActiveAt(active, r.address) = {} THEN "missing" ELSE "mismatch"
    BY <1>4, Zenon DEF RowStatus
  <2> QED
    BY <1>1, <2>1
<1> QED
  BY <1>2, <1>3, <1>4 DEF IsRead

LEMMA DomainCheckHolds ==
  ASSUME NEW Hosts,
         input.of = "domains" => input.rows \in SUBSET Sites(Hosts) /\ IsRead(input.active, Hosts)
  PROVE  DomainCheckIsTrue
<1> SUFFICES ASSUME input.of = "domains" PROVE DomainCheckIsTrue
  BY DEF DomainCheckIsTrue
<1> DEFINE rows == input.rows
           failures == input.failures
           active == input.active
           checks == CheckDomains(rows, failures, active)
           StatusOf(r) == RowStatus(r, \E f \in failures : f.address = r.address, active)
           unwanted == {f \in failures : (\A r \in rows : r.address # f.address) /\ ~IsOutdated(f, active)}
           told == IF active.supported /\ ~active.readable THEN "unavailable" ELSE "failed"
<1>1. checks = {[address |-> r.address, status |-> StatusOf(r)] : r \in rows}
               \cup {[address |-> f.address, status |-> told] : f \in unwanted}
  BY DEF CheckDomains
<1>2. ASSUME NEW r \in rows
      PROVE  \E c \in checks : c.address = r.address /\ (c.status = "ok" <=> r \in active.routes)
  <2>1. PICK failed \in BOOLEAN : failed = \E f \in failures : f.address = r.address
    OBVIOUS
  <2>2. PICK status : status = StatusOf(r) /\ (status = "ok" <=> r \in active.routes)
    <3>1. StatusOf(r) = "ok" <=> r \in active.routes
      BY <2>1, StatusOfRow
    <3> HIDE DEF StatusOf
    <3> QED
      BY <3>1
  <2>3. [address |-> r.address, status |-> status] \in checks
    BY <1>1, <2>2
  <2>4. PICK c : c = [address |-> r.address, status |-> status]
    OBVIOUS
  <2>5. c.address = r.address /\ c.status = status
    BY <2>4
  <2> HIDE DEF checks, StatusOf
  <2> QED
    BY <2>2, <2>3, <2>4, <2>5
<1>3. ASSUME NEW f \in failures, \A r \in rows : r.address # f.address, IsOutdated(f, active)
      PROVE  active.readable /\ \A q \in active.routes : q.address # f.address
  <2>1. active.readable /\ ActiveAt(active, f.address) = {}
    BY <1>3 DEF IsOutdated
  <2> QED
    BY <2>1 DEF ActiveAt
<1>4. ASSUME NEW f \in failures, \A r \in rows : r.address # f.address, ~IsOutdated(f, active)
      PROVE  \E c \in checks : c.address = f.address /\ c.status \in {"failed", "unavailable"}
  <2>1. PICK status : status = told /\ status \in {"failed", "unavailable"}
    OBVIOUS
  <2>2. [address |-> f.address, status |-> status] \in checks
    BY <1>1, <1>4, <2>1
  <2>3. PICK c : c = [address |-> f.address, status |-> status]
    OBVIOUS
  <2>4. c.address = f.address /\ c.status = status
    BY <2>3
  <2> HIDE DEF checks, told
  <2> QED
    BY <2>1, <2>2, <2>3, <2>4
<1> HIDE DEF checks
<1>5. \A r \in rows : (\E q \in active.routes : q = r) <=> r \in active.routes
  OBVIOUS
<1> QED
  BY <1>2, <1>3, <1>4, <1>5, Zenon DEF DomainCheckIsTrue, checks

LEMMA UnservedRouteFails ==
  ASSUME NEW Hosts, NEW read, IsRead(read.active, Hosts), read.rows \in SUBSET Sites(Hosts),
         read.active.readable, NEW r \in read.rows, r \notin read.active.routes
  PROVE  Health(read).overall = "fail"
<1> DEFINE checked == CheckDomains(read.rows, read.failures, read.active)
           status == RowStatus(r, \E f \in read.failures : f.address = r.address, read.active)
           latest == Latest(read.attempts)
           health == RouteHealth(checked)
           checks ==
             {OutcomeHealth(read.status), OutcomeHealth(read.release), CurrentMainHealth(read, latest),
              health, ServiceHealth(read.services)}
             \cup {OutcomeHealth(a.status) : a \in latest}
             \cup (IF latest = {} \/ read.rows = {} \/ ~read.restarts THEN {"warn"} ELSE {})
<1>1. status \in {"failed", "missing", "mismatch"}
  <2>1. PICK failed \in BOOLEAN : failed = \E f \in read.failures : f.address = r.address
    OBVIOUS
  <2> QED
    BY <2>1, StatusOfRow
<1>2. [address |-> r.address, status |-> status] \in checked
  BY DEF CheckDomains
<1> HIDE DEF status, checked
<1>3. health = "fail"
  <2>1. PICK c : c = [address |-> r.address, status |-> status]
    OBVIOUS
  <2>2. c \in checked /\ c.status \in {"failed", "missing", "mismatch"}
    BY <1>1, <1>2, <2>1
  <2> QED
    BY <2>2 DEF RouteHealth
<1>4. "fail" \in checks
  BY <1>3
<1>5. Health(read).overall = (IF "fail" \in checks THEN "fail" ELSE IF "warn" \in checks THEN "warn" ELSE "ok")
  BY DEF Health, checked
<1> HIDE DEF checks
<1> QED
  BY <1>4, <1>5

(* What routes, their checks and health are about. *)
RouteInput(Hosts) ==
  /\ input.of = "routes" => AreStored(input.rows, Hosts) /\ Renderable(input.rows)
  /\ input.of \in {"domains", "health"} => input.rows \in SUBSET Sites(Hosts) /\ IsRead(input.active, Hosts)
  /\ input.of = "health" => /\ AreAttempts(input.attempts)
                            /\ input.status \in {"created", "healthy", "failed"}
                            /\ \A a \in input.attempts : a.status # "healthy"

LEMMA HealthHolds ==
  ASSUME NEW Hosts, RouteInput(Hosts)
  PROVE  HealthyMeansServed
<1> SUFFICES ASSUME input.of = "health" PROVE HealthyMeansServed
  BY DEF HealthyMeansServed
<1>1. /\ input.rows \in SUBSET Sites(Hosts) /\ IsRead(input.active, Hosts)
      /\ AreAttempts(input.attempts)
      /\ input.status \in {"created", "healthy", "failed"}
      /\ \A a \in input.attempts : a.status # "healthy"
  BY DEF RouteInput
<1> DEFINE health == Health(input)
<1>2. ASSUME health.overall = "ok"
      PROVE  /\ input.status = "healthy" /\ input.services = {"running"}
             /\ health.latest = health.lastSuccess
             /\ \E a \in input.attempts : a.commit = input.main /\ \A b \in input.attempts : b.started <= a.started
             /\ input.rows # {} /\ input.rows \subseteq input.active.routes
  <2>1. input.active.supported \in BOOLEAN /\ input.active.readable \in BOOLEAN
    BY <1>1 DEF IsRead
  <2>2. /\ input.status = "healthy" /\ input.services = {"running"}
        /\ health.latest = health.lastSuccess
        /\ \E a \in input.attempts :
             a.commit = input.main /\ a.status = "succeeded" /\ \A b \in input.attempts : b.started <= a.started
        /\ input.rows # {} /\ \A r \in input.rows : Matches(input.active, r)
    BY <1>1, <1>2, <2>1, HealthyAppsAreServed, Zenon
  <2>3. ASSUME NEW r \in input.rows
        PROVE  r \in input.active.routes
    <3>1. r \in Sites(Hosts) /\ input.active.routes \in SUBSET Sites(Hosts)
      BY <1>1 DEF IsRead
    <3> QED
      BY <2>2, <3>1, MatchesWhatIsServed
  <2> HIDE DEF health
  <2> QED
    BY <2>2, <2>3
<1>3. ASSUME input.active.readable, ~(input.rows \subseteq input.active.routes)
      PROVE  health.overall = "fail"
  <2>1. PICK r \in input.rows : r \notin input.active.routes
    BY <1>3
  <2> QED
    BY <1>1, <1>3, <2>1, UnservedRouteFails
<1> QED
  BY <1>2, <1>3, Zenon DEF HealthyMeansServed

LEMMA RowsHold ==
  ASSUME NEW Hosts, RouteInput(Hosts)
  PROVE  RoutesReadBack /\ NeededPortIsRequired
<1>1. ASSUME input.of = "routes"
      PROVE  AreStored(input.rows, Hosts) /\ Renderable(input.rows)
  BY <1>1 DEF RouteInput
<1>2. RoutesReadBack
  BY <1>1, RowsAreReadBack, Zenon DEF RoutesReadBack
<1>3. ASSUME input.of = "routes", NEW stale \in SUBSET input.rows,
             NEW s \in Servers({Rendered(r) : r \in input.rows}), s.listen = 443
      PROVE  RequiresHTTPS({IF r \in stale THEN [r EXCEPT !.https = FALSE] ELSE r : r \in input.rows})
  <2> DEFINE read == {IF r \in stale THEN [r EXCEPT !.https = FALSE] ELSE r : r \in input.rows}
  <2>1. ASSUME NEW r \in input.rows
        PROVE  \E q \in read : q.address = r.address
    <3>1. r = Row(r.address, r.port)
      BY <1>1, <1>3 DEF AreStored
    <3>2. [r EXCEPT !.https = FALSE].address = r.address
      BY <3>1 DEF Row
    <3> QED
      BY <3>2
  <2>2. AreStored(input.rows, Hosts) /\ Renderable(input.rows)
    BY <1>1, <1>3
  <2>3. RequiresHTTPS(read)
    <3> HIDE DEF read
    <3> QED
      BY <1>3, <2>1, <2>2, NeededPortsAreRequired
  <2> QED
    BY <2>3
<1>4. NeededPortIsRequired
  BY <1>3, Zenon DEF NeededPortIsRequired
<1> QED
  BY <1>2, <1>4

THEOREM RoutesAreAlwaysDiagnosed ==
  ASSUME NEW Hosts, RouteInput(Hosts)
  PROVE  RoutesAreDiagnosed
<1>1. RouteReachesItsService
  BY RoutesReachTheirService DEF RouteReachesItsService
<1>2. DomainCheckIsTrue
  <2>1. input.of = "domains" => input.rows \in SUBSET Sites(Hosts) /\ IsRead(input.active, Hosts)
    BY DEF RouteInput
  <2> QED
    BY <2>1, DomainCheckHolds, Zenon
<1> QED
  BY <1>1, <1>2, RowsHold, HealthHolds DEF RoutesAreDiagnosed

-----------------------------------------------------------------------------
(* Operator commands: options. *)

(* Where the words "--json" are that parsing looks at. *)
JSONWords(args) ==
  {i \in 1 .. (IF IsContainerCommand(args) THEN 4 ELSE Len(args)) : args[i] = "--json"}

LEMMA ParsedWithout ==
  ASSUME NEW args, JSONWords(args) = {}
  PROVE  ParseOutputArgs(args) = [ok |-> TRUE, args |-> args, json |-> FALSE]
BY DEF ParseOutputArgs, JSONWords

LEMMA ParsedWith ==
  ASSUME NEW args, JSONWords(args) # {}, ParseOutputArgs(args).ok
  PROVE  /\ JSONWords(args) = {Len(args)} /\ JSONAllowed(Front(args))
         /\ ParseOutputArgs(args) = [ok |-> TRUE, args |-> Front(args), json |-> TRUE]
BY DEF ParseOutputArgs, JSONWords

LEMMA FrontParts ==
  ASSUME NEW Words, NEW words \in Seq(Words), Len(words) > 0
  PROVE  /\ Front(words) \in Seq(Words) /\ Len(Front(words)) = Len(words) - 1
         /\ \A i \in 1 .. Len(words) - 1 : Front(words)[i] = words[i]
<1>1. PICK n \in Nat : n = Len(words) - 1
  OBVIOUS
<1>2. \A i \in 1 .. n : words[i] \in Words
  BY <1>1
<1>3. /\ SubSeq(words, 1, n) \in Seq(Words)
      /\ Len(SubSeq(words, 1, n)) = IF 1 <= n THEN n - 1 + 1 ELSE 0
      /\ \A i \in 1 .. n - 1 + 1 : SubSeq(words, 1, n)[i] = words[1 + i - 1]
  BY <1>2, SubSeqProperties
<1>4. Front(words) = SubSeq(words, 1, n)
  BY <1>1 DEF Front
<1>5. Len(Front(words)) = n
  BY <1>3, <1>4
<1>6. ASSUME NEW i \in 1 .. n
      PROVE  Front(words)[i] = words[i]
  BY <1>3, <1>4
<1> QED
  BY <1>1, <1>3, <1>4, <1>5, <1>6

LEMMA JSONIsLast ==
  ASSUME NEW Words, NEW args \in Seq(Words), JSONWords(args) = {Len(args)}
  PROVE  /\ Front(args) \in Seq(Words) /\ Len(Front(args)) = Len(args) - 1 /\ Len(args) > 0
         /\ \A i \in 1 .. Len(args) - 1 : Front(args)[i] # "--json"
<1>1. Len(args) \in Nat /\ Len(args) > 0
  BY DEF JSONWords
<1>2. /\ Front(args) \in Seq(Words) /\ Len(Front(args)) = Len(args) - 1
      /\ \A i \in 1 .. Len(args) - 1 : Front(args)[i] = args[i]
  BY <1>1, FrontParts
<1>3. ~IsContainerCommand(args)
  BY <1>1 DEF JSONWords, IsContainerCommand
<1>4. \A i \in 1 .. Len(args) - 1 : args[i] # "--json"
  BY <1>1, <1>3 DEF JSONWords
<1> QED
  BY <1>1, <1>2, <1>4

(* Arguments that were parsed can be parsed again by the next layer, and a   *)
(* --json that was taken off leaves none behind.                             *)
THEOREM ParsingIsRepeatable ==
  ASSUME NEW Words, NEW args \in Seq(Words), ParseOutputArgs(args).ok
  PROVE  LET parsed == ParseOutputArgs(args) IN
         /\ ParseOutputArgs(parsed.args) = [ok |-> TRUE, args |-> parsed.args, json |-> FALSE]
         /\ parsed.json => \A i \in 1 .. Len(parsed.args) : parsed.args[i] # "--json"
<1>1. CASE JSONWords(args) = {}
  <2>1. ParseOutputArgs(args) = [ok |-> TRUE, args |-> args, json |-> FALSE]
    BY <1>1, ParsedWithout
  <2>2. ParseOutputArgs(args).args = args /\ ParseOutputArgs(args).json = FALSE
    BY <2>1
  <2> QED
    BY <2>1, <2>2
<1>2. CASE JSONWords(args) # {}
  <2>1. JSONWords(args) = {Len(args)} /\ ParseOutputArgs(args) = [ok |-> TRUE, args |-> Front(args), json |-> TRUE]
    BY <1>2, ParsedWith
  <2>2. /\ Len(Front(args)) = Len(args) - 1 /\ Len(args) \in Nat
        /\ \A i \in 1 .. Len(args) - 1 : Front(args)[i] # "--json"
    BY <2>1, JSONIsLast
  <2>3. JSONWords(Front(args)) = {}
    BY <2>2 DEF JSONWords, IsContainerCommand
  <2> QED
    BY <2>1, <2>2, <2>3, ParsedWithout
<1> QED
  BY <1>1, <1>2

(* What comes after the -- of exec and run is the container's, --json too,   *)
(* however many arguments there are: they are accepted and left alone.      *)
THEOREM ContainerArgumentsAreKept ==
  ASSUME NEW Words, NEW args \in Seq(Words), IsContainerCommand(args), Len(args) > 5,
         args[3] # "--json", args[4] # "--json"
  PROVE  /\ ParseOutputArgs(args) = [ok |-> TRUE, args |-> args, json |-> FALSE]
         /\ OperatorCommandAllowed(args)
<1>1. args[1] = "apps" /\ args[2] \in {"exec", "run"} /\ args[5] = "--"
  BY DEF IsContainerCommand, IsCommand
<1>2. JSONWords(args) = {}
  BY <1>1 DEF JSONWords
<1>3. ParseOutputArgs(args) = [ok |-> TRUE, args |-> args, json |-> FALSE]
  BY <1>2, ParsedWithout
<1>4. Len(Tail(args)) = Len(args) - 1 /\ \A i \in 1 .. Len(args) - 1 : Tail(args)[i] = args[i + 1]
  OBVIOUS
<1>5. AppCommandAllowed(Tail(args))
  BY <1>1, <1>4 DEF AppCommandAllowed
<1>6. CommandAllowed(args[1], Tail(args))
  BY <1>1, <1>5 DEF CommandAllowed
<1> QED
  BY <1>1, <1>3, <1>6 DEF OperatorCommandAllowed

-----------------------------------------------------------------------------
(* App names. *)

NothingSuggested == [text |-> <<>>, pending |-> FALSE]
Suggested(name) == FoldLeft(Suggest1, NothingSuggested, name)
LabelChars == {"a", "-"}
Suggestions == [text : Seq(LabelChars), pending : BOOLEAN]

LEMMA AppendParts ==
  ASSUME NEW Chars, NEW text \in Seq(Chars), NEW char \in Chars
  PROVE  /\ Append(text, char) \in Seq(Chars) /\ Len(Append(text, char)) = Len(text) + 1
         /\ \A i \in 1 .. Len(text) : Append(text, char)[i] = text[i]
         /\ Append(text, char)[Len(text) + 1] = char
OBVIOUS

LEMMA SuggestTyped ==
  ASSUME NEW s \in Suggestions, NEW char
  PROVE  Suggest1(s, char) \in Suggestions
<1>1. s.text \in Seq(LabelChars) /\ s.pending \in BOOLEAN
  BY DEF Suggestions
<1>2. CASE char \in {"a", "A"}
  <2> DEFINE text == IF s.pending /\ s.text # <<>> /\ Len(s.text) < MaxLabel THEN Append(s.text, "-") ELSE s.text
             next == IF Len(text) < MaxLabel THEN Append(text, "a") ELSE text
  <2>1. text \in Seq(LabelChars)
    BY <1>1, AppendParts DEF LabelChars
  <2>2. Suggest1(s, char) = [text |-> next, pending |-> FALSE]
    BY <1>2 DEF Suggest1
  <2> HIDE DEF text
  <2>3. next \in Seq(LabelChars)
    BY <2>1, AppendParts DEF LabelChars
  <2> HIDE DEF next
  <2> QED
    BY <2>2, <2>3 DEF Suggestions
<1>3. CASE char \notin {"a", "A"}
  <2>1. PICK pending \in BOOLEAN : pending = (s.text # <<>>)
    OBVIOUS
  <2>2. Suggest1(s, char) = [s EXCEPT !.pending = pending]
    BY <1>3, <2>1 DEF Suggest1
  <2> QED
    BY <2>2 DEF Suggestions
<1> QED
  BY <1>2, <1>3

LEMMA SuggestStepwise ==
  ASSUME NEW name, NEW N \in Nat, DOMAIN name = 1 .. N
  PROVE  \E acc :
           /\ acc[0] = NothingSuggested
           /\ \A n \in 1 .. N : acc[n] = Suggest1(acc[n - 1], name[n])
           /\ Suggested(name) = acc[N]
<1> DEFINE T == Suggestions
           step == [n \in 1 .. N |-> [s \in T |-> Suggest1(s, name[n])]]
           base == NothingSuggested
<1>1. base \in T
  BY DEF NothingSuggested, Suggestions
<1>2. step \in [1 .. N -> [T -> T]]
  <2> HIDE DEF T
  <2>1. \A n \in 1 .. N, s \in T : Suggest1(s, name[n]) \in T
    BY SuggestTyped DEF T
  <2> QED
    BY <2>1
<1>3. PICK e : IsFold(e, N, base, step) /\ \A S \in SUBSET (1 .. N) : e[S] \in T
  <2> HIDE DEF step, base, T
  <2> QED
    BY <1>1, <1>2, FoldExists, Zenon
<1>4. ASSUME NEW S \in SUBSET (1 .. N), S # {}
      PROVE  step[Max(S)][e[S \ {Max(S)}]] = Suggest1(e[S \ {Max(S)}], name[Max(S)])
  <2>1. PICK m, R : m = Max(S) /\ R = S \ {m}
    OBVIOUS
  <2>2. m \in 1 .. N /\ e[R] \in T
    BY <1>3, <1>4, <2>1, MaxOfPart
  <2> HIDE DEF T
  <2> QED
    BY <2>1, <2>2
<1>5. e = [S \in SUBSET (1 .. N) |-> IF S = {} THEN base ELSE Suggest1(e[S \ {Max(S)}], name[Max(S)])]
  <2> HIDE DEF step, base, T
  <2> QED
    BY <1>3, <1>4 DEF IsFold
<1>6. PICK it : /\ it = [S \in SUBSET (1 .. N) |-> IF S = {} THEN base ELSE Suggest1(it[S \ {Max(S)}], name[Max(S)])]
                /\ Suggested(name) = it[1 .. N]
  <2> HIDE DEF step
  <2> QED
    BY <1>5, Zenon DEF Suggested, FoldLeft, MapThenFoldSet
<1>7. PICK acc : /\ acc[0] = it[{}] /\ acc[N] = it[1 .. N]
                 /\ \A n \in 1 .. N : acc[n] = it[1 .. n] /\ acc[n - 1] = it[(1 .. n) \ {n}]
  <2>1. PICK other : IsUnfolding(other, it, N)
    BY FoldPrefixes, Zenon
  <2> QED
    BY <2>1, Zenon DEF IsUnfolding
<1> HIDE DEF base
<1>8. acc[0] = base
  BY <1>6, <1>7
<1>9. ASSUME NEW n \in 1 .. N
      PROVE  acc[n] = Suggest1(acc[n - 1], name[n])
  <2>1. Max(1 .. n) = n /\ 1 .. n # {}
    BY MaxOfTop
  <2>2. 1 .. n \in SUBSET (1 .. N)
    OBVIOUS
  <2>3. it[1 .. n] = Suggest1(it[(1 .. n) \ {n}], name[n])
    BY <1>6, <2>1, <2>2
  <2> QED
    BY <1>7, <2>3
<1> QED
  BY <1>6, <1>7, <1>8, <1>9 DEF base

(* The text of a suggestion: dashes follow letters, and one at the end was   *)
(* the last character there was room for.                                    *)
IsSuggestion(text) ==
  /\ text \in Seq(LabelChars) /\ Len(text) <= MaxLabel
  /\ \A i \in 1 .. Len(text) :
       text[i] = "-" => i > 1 /\ text[i - 1] = "a" /\ (i = Len(text) => Len(text) = MaxLabel)

LEMMA SuggestionGoesOn ==
  ASSUME NEW s \in Suggestions, IsSuggestion(s.text), NEW char
  PROVE  IsSuggestion(Suggest1(s, char).text)
<1>0. MaxLabel \in Nat /\ s.text \in Seq(LabelChars)
  BY AppNamesAssumption DEF Suggestions
<1>1. CASE char \notin {"a", "A"}
  <2>1. Suggest1(s, char).text = s.text
    BY <1>1 DEF Suggest1, Suggestions
  <2> QED
    BY <2>1
<1>2. CASE char \in {"a", "A"}
  <2>1. PICK text :
          text = IF s.pending /\ s.text # <<>> /\ Len(s.text) < MaxLabel THEN Append(s.text, "-") ELSE s.text
    OBVIOUS
  <2>2. PICK next : next = IF Len(text) < MaxLabel THEN Append(text, "a") ELSE text
    OBVIOUS
  <2>3. Suggest1(s, char).text = next
    <3>1. Suggest1(s, char) = [text |-> next, pending |-> FALSE]
      BY <1>2, <2>1, <2>2, Zenon DEF Suggest1
    <3> QED
      BY <3>1
  <2>4. /\ text \in Seq(LabelChars) /\ Len(text) <= MaxLabel
        /\ \A i \in 1 .. Len(text) : text[i] = "-" => i > 1 /\ text[i - 1] = "a"
    <3>1. CASE text = s.text
      BY <3>1 DEF IsSuggestion
    <3>2. CASE s.text # <<>> /\ Len(s.text) < MaxLabel /\ text = Append(s.text, "-")
      <4>1. PICK old, n : old = s.text /\ n = Len(old) /\ n \in Nat /\ n > 0 /\ n < MaxLabel
        BY <1>0, <3>2
      <4>2. /\ text \in Seq(LabelChars) /\ Len(text) = n + 1
            /\ \A i \in 1 .. n : text[i] = old[i]
        BY <1>0, <3>2, <4>1, AppendParts DEF LabelChars
      <4>3. old[n] = "a"
        <5>1. old[n] \in LabelChars /\ n \in 1 .. n
          BY <1>0, <4>1
        <5> QED
          BY <4>1, <5>1 DEF IsSuggestion, LabelChars
      <4>4. \A i \in 1 .. n : old[i] = "-" => i > 1 /\ old[i - 1] = "a"
        BY <4>1 DEF IsSuggestion
      <4>5. ASSUME NEW i \in 1 .. n + 1, text[i] = "-"
            PROVE  i > 1 /\ text[i - 1] = "a"
        <5>1. CASE i = n + 1
          BY <4>1, <4>2, <4>3, <5>1
        <5>2. CASE i \in 1 .. n
          BY <4>1, <4>2, <4>4, <4>5, <5>2
        <5> QED
          BY <4>1, <5>1, <5>2
      <4>6. Len(text) <= MaxLabel
        BY <1>0, <4>1, <4>2
      <4>7. \A i \in 1 .. Len(text) : text[i] = "-" => i > 1 /\ text[i - 1] = "a"
        BY <4>2, <4>5
      <4> QED
        BY <4>2, <4>6, <4>7
    <3> QED
      BY <2>1, <3>1, <3>2
  <2>5. IsSuggestion(next)
    <3>1. PICK n : n = Len(text) /\ n \in Nat /\ n <= MaxLabel
      BY <2>4
    <3>2. CASE n < MaxLabel
      <4>1. /\ next \in Seq(LabelChars) /\ Len(next) = n + 1
            /\ \A i \in 1 .. n : next[i] = text[i]
            /\ next[n + 1] = "a"
        BY <2>2, <2>4, <3>1, <3>2, AppendParts DEF LabelChars
      <4>2. ASSUME NEW i \in 1 .. n + 1, next[i] = "-"
            PROVE  i > 1 /\ next[i - 1] = "a" /\ i # n + 1
        <5>1. i \in 1 .. n /\ text[i] = "-"
          BY <3>1, <4>1, <4>2
        <5>2. i > 1 /\ text[i - 1] = "a" /\ i - 1 \in 1 .. n
          BY <2>4, <3>1, <5>1
        <5> QED
          BY <3>1, <4>1, <5>1, <5>2
      <4> QED
        BY <1>0, <3>1, <3>2, <4>1, <4>2 DEF IsSuggestion
    <3>3. CASE n = MaxLabel
      <4>1. next = text
        BY <1>0, <2>2, <3>1, <3>3
      <4> QED
        BY <2>4, <3>1, <3>3, <4>1 DEF IsSuggestion
    <3> QED
      BY <1>0, <3>1, <3>2, <3>3
  <2> QED
    BY <2>3, <2>5
<1> QED
  BY <1>1, <1>2

LEMMA SuggestionShape ==
  ASSUME NEW name, NEW N \in Nat, DOMAIN name = 1 .. N
  PROVE  IsSuggestion(Suggested(name).text)
<1>1. PICK acc : /\ acc[0] = NothingSuggested
                 /\ \A n \in 1 .. N : acc[n] = Suggest1(acc[n - 1], name[n])
                 /\ Suggested(name) = acc[N]
  BY SuggestStepwise
<1> DEFINE X == {n \in 0 .. N : acc[n] \in Suggestions /\ IsSuggestion(acc[n].text)}
<1>2. 0 \in X
  <2>1. /\ <<>> \in Seq(LabelChars) /\ Len(<<>>) = 0 /\ 0 <= MaxLabel /\ 1 .. 0 = {}
    BY AppNamesAssumption
  <2>2. IsSuggestion(<<>>)
    BY <2>1 DEF IsSuggestion
  <2>3. NothingSuggested \in Suggestions /\ NothingSuggested.text = <<>>
    BY <2>1 DEF NothingSuggested, Suggestions
  <2> QED
    BY <1>1, <2>2, <2>3
<1>3. ASSUME NEW n \in 0 .. N - 1, n \in X
      PROVE  n + 1 \in X
  <2>1. n + 1 \in 1 .. N /\ (n + 1) - 1 = n
    OBVIOUS
  <2>2. acc[n + 1] = Suggest1(acc[n], name[n + 1])
    BY <1>1, <2>1
  <2>3. acc[n] \in Suggestions /\ IsSuggestion(acc[n].text)
    BY <1>3
  <2>4. acc[n + 1] \in Suggestions /\ IsSuggestion(acc[n + 1].text)
    BY <2>2, <2>3, SuggestTyped, SuggestionGoesOn
  <2> QED
    BY <2>1, <2>4
<1>4. N \in X
  <2> HIDE DEF X
  <2> QED
    BY <1>2, <1>3, ByInduction, Zenon
<1> QED
  BY <1>1, <1>4

(* A label without two dashes in a row is taken as it is. *)
IsLabel(label) ==
  /\ label \in Seq(LabelChars) /\ Len(label) \in 1 .. MaxLabel
  /\ \A i \in 1 .. Len(label) : label[i] = "-" => i > 1 /\ label[i - 1] = "a" /\ i # Len(label)

LEMMA SuggestionIsLabel ==
  ASSUME NEW text, IsSuggestion(text), text # <<>>
  PROVE  IsLabel(Trimmed(text))
<1>1. PICK n : n = Len(text) /\ n \in Nat /\ n > 0 /\ text \in Seq(LabelChars)
  BY DEF IsSuggestion
<1>2. \A i \in 1 .. n : text[i] \in LabelChars /\ (text[i] = "-" => i > 1 /\ text[i - 1] = "a")
  BY <1>1 DEF IsSuggestion
<1>3. MaxLabel \in Nat /\ n <= MaxLabel
  BY <1>1, AppNamesAssumption DEF IsSuggestion
<1>4. CASE text[n] = "-"
  <2>1. Trimmed(text) = Front(text)
    BY <1>1, <1>4 DEF Trimmed, Last
  <2>2. /\ Front(text) \in Seq(LabelChars) /\ Len(Front(text)) = n - 1
        /\ \A i \in 1 .. n - 1 : Front(text)[i] = text[i]
    BY <1>1, FrontParts
  <2>3. n > 1 /\ text[n - 1] = "a"
    BY <1>1, <1>2, <1>4
  <2>4. ASSUME NEW i \in 1 .. n - 1, Front(text)[i] = "-"
        PROVE  i > 1 /\ Front(text)[i - 1] = "a" /\ i # n - 1
    <3>1. text[i] = "-" /\ i \in 1 .. n
      BY <1>1, <2>2, <2>4
    <3>2. i > 1 /\ text[i - 1] = "a" /\ i - 1 \in 1 .. n - 1
      BY <1>1, <1>2, <3>1
    <3> QED
      BY <1>1, <2>2, <2>3, <3>1, <3>2
  <2> QED
    BY <1>1, <1>3, <2>1, <2>2, <2>3, <2>4 DEF IsLabel
<1>5. CASE text[n] # "-"
  <2>1. Trimmed(text) = text
    BY <1>1, <1>5 DEF Trimmed, Last
  <2> QED
    BY <1>1, <1>2, <1>3, <1>5, <2>1 DEF IsLabel
<1> QED
  BY <1>4, <1>5

LEMMA LabelIsKept ==
  ASSUME NEW label, IsLabel(label)
  PROVE  Suggested(label).text = label
<1>1. PICK N : /\ N = Len(label) /\ N \in Nat /\ N > 0 /\ N <= MaxLabel
               /\ DOMAIN label = 1 .. N /\ label \in Seq(LabelChars)
  BY AppNamesAssumption DEF IsLabel
<1>2. /\ \A i \in 1 .. N : label[i] \in {"a", "-"}
      /\ \A i \in 1 .. N : label[i] = "-" => i > 1 /\ label[i - 1] = "a" /\ i # N
  BY <1>1 DEF IsLabel, LabelChars
<1>3. MaxLabel \in Nat
  BY AppNamesAssumption
<1>4. PICK acc : /\ acc[0] = NothingSuggested
                 /\ \A n \in 1 .. N : acc[n] = Suggest1(acc[n - 1], label[n])
                 /\ Suggested(label) = acc[N]
  BY <1>1, SuggestStepwise
<1> DEFINE Read(s, n) == /\ s \in Suggestions
                         /\ s.pending <=> n > 0 /\ label[n] = "-"
                         /\ Len(s.text) = IF n > 0 /\ label[n] = "-" THEN n - 1 ELSE n
                         /\ \A i \in 1 .. Len(s.text) : s.text[i] = label[i]
           X == {n \in 0 .. N : Read(acc[n], n)}
<1>5. 0 \in X
  <2>1. /\ <<>> \in Seq(LabelChars) /\ Len(<<>>) = 0 /\ 1 .. 0 = {}
    OBVIOUS
  <2>2. NothingSuggested \in Suggestions /\ NothingSuggested.text = <<>> /\ ~NothingSuggested.pending
    BY <2>1 DEF NothingSuggested, Suggestions
  <2>3. Read(NothingSuggested, 0)
    BY <2>1, <2>2
  <2> QED
    BY <1>1, <1>4, <2>3
<1>6. ASSUME NEW n \in 0 .. N - 1, Read(acc[n], n)
      PROVE  Read(acc[n + 1], n + 1)
  <2>1. n + 1 \in 1 .. N /\ (n + 1) - 1 = n
    BY <1>1
  <2>2. PICK s : s = acc[n] /\ acc[n + 1] = Suggest1(s, label[n + 1]) /\ s \in Suggestions
    BY <1>4, <1>6, <2>1
  <2>3. PICK old : old = s.text /\ old \in Seq(LabelChars)
    BY <2>2 DEF Suggestions
  <2>4. acc[n + 1] \in Suggestions
    BY <2>2, SuggestTyped
  <2>5. CASE label[n + 1] = "-"
    <3>1. n > 0 /\ label[n] = "a"
      BY <1>2, <2>1, <2>5
    <3>2. Len(old) = n /\ \A i \in 1 .. n : old[i] = label[i]
      BY <1>6, <2>2, <2>3, <3>1
    <3>3. old # <<>>
      BY <2>3, <3>1, <3>2
    <3>4. PICK pending \in BOOLEAN : pending = (s.text # <<>>)
      OBVIOUS
    <3>5. acc[n + 1] = [s EXCEPT !.pending = pending] /\ pending
      BY <2>2, <2>3, <2>5, <3>3, <3>4 DEF Suggest1
    <3>6. acc[n + 1].text = old /\ acc[n + 1].pending
      BY <2>2, <2>3, <3>5 DEF Suggestions
    <3> QED
      BY <2>1, <2>4, <2>5, <3>2, <3>6
  <2>6. CASE label[n + 1] = "a"
    <3>1. PICK text : text = IF s.pending /\ old # <<>> /\ Len(old) < MaxLabel THEN Append(old, "-") ELSE old
      OBVIOUS
    <3>2. PICK next : next = IF Len(text) < MaxLabel THEN Append(text, "a") ELSE text
      OBVIOUS
    <3>3. acc[n + 1] = [text |-> next, pending |-> FALSE]
      <4>1. text = IF s.pending /\ s.text # <<>> /\ Len(s.text) < MaxLabel THEN Append(s.text, "-") ELSE s.text
        BY <2>3, <3>1, Zenon
      <4>2. label[n + 1] \in {"a", "A"}
        BY <2>6
      <4>3. Suggest1(s, label[n + 1]) = [text |-> next, pending |-> FALSE]
        BY <3>2, <4>1, <4>2, Zenon DEF Suggest1
      <4> QED
        BY <2>2, <4>3
    <3>4. text \in Seq(LabelChars) /\ Len(text) = n /\ \A i \in 1 .. n : text[i] = label[i]
      <4>1. CASE n > 0 /\ label[n] = "-"
        <5>1. s.pending /\ Len(old) = n - 1 /\ \A i \in 1 .. n - 1 : old[i] = label[i]
          BY <1>6, <2>2, <2>3, <4>1
        <5>2. n > 1
          BY <1>1, <1>2, <4>1
        <5>3. old # <<>> /\ Len(old) < MaxLabel
          BY <1>1, <1>3, <2>3, <5>1, <5>2
        <5>4. text = Append(old, "-")
          BY <3>1, <5>1, <5>3
        <5>5. /\ text \in Seq(LabelChars) /\ Len(text) = n
              /\ \A i \in 1 .. n - 1 : text[i] = label[i]
              /\ text[n] = "-"
          BY <2>3, <5>1, <5>4, AppendParts DEF LabelChars
        <5> QED
          BY <4>1, <5>5
      <4>2. CASE ~(n > 0 /\ label[n] = "-")
        <5>1. ~s.pending /\ Len(old) = n /\ \A i \in 1 .. n : old[i] = label[i]
          BY <1>6, <2>2, <2>3, <4>2
        <5> QED
          BY <2>3, <3>1, <5>1
      <4> QED
        BY <4>1, <4>2
    <3>5. /\ Len(next) = n + 1
          /\ \A i \in 1 .. n : next[i] = label[i]
          /\ next[n + 1] = "a"
      <4>1. n < MaxLabel
        BY <1>1, <1>3
      <4> QED
        BY <3>2, <3>4, <4>1, AppendParts DEF LabelChars
    <3>6. acc[n + 1].text = next /\ ~acc[n + 1].pending
      BY <3>3
    <3> QED
      BY <2>1, <2>4, <2>6, <3>5, <3>6
  <2> QED
    BY <1>2, <2>1, <2>5, <2>6
<1>7. N \in X
  <2>1. ASSUME NEW n \in 0 .. N - 1, n \in X
        PROVE  n + 1 \in X
    <3>1. n + 1 \in 0 .. N
      BY <1>1
    <3> HIDE DEF Read
    <3>2. Read(acc[n], n)
      BY <2>1
    <3> QED
      BY <1>6, <3>1, <3>2
  <2> HIDE DEF X
  <2> QED
    BY <1>1, <1>5, <2>1, ByInduction, Zenon
<1>8. acc[N].text \in Seq(LabelChars) /\ Len(acc[N].text) = N /\ \A i \in 1 .. N : acc[N].text[i] = label[i]
  BY <1>1, <1>2, <1>7 DEF Suggestions
<1>9. acc[N].text = label
  BY <1>1, <1>8, SeqEqual
<1> QED
  BY <1>4, <1>9

LEMMA NamesHold ==
  ASSUME NEW Chars, input.of = "name" => input.name \in Seq(Chars)
  PROVE  SuggestionIsUsable
<1> SUFFICES ASSUME input.of = "name"
             PROVE  LET suggestion == SuggestAppName(input.name) IN
                    IsDNSLabelSafe(suggestion) /\ SuggestAppName(suggestion) = suggestion
  BY DEF SuggestionIsUsable
<1>1. PICK text : text = Suggested(input.name).text
  OBVIOUS
<1>2. IsSuggestion(text)
  <2>1. PICK name : name = input.name /\ name \in Seq(Chars)
    OBVIOUS
  <2>2. Len(name) \in Nat /\ DOMAIN name = 1 .. Len(name)
    BY <2>1
  <2> QED
    BY <1>1, <2>1, <2>2, SuggestionShape
<1>3. SuggestAppName(input.name) = IF Trimmed(text) = <<>> THEN <<"a", "a", "a">> ELSE Trimmed(text)
  BY <1>1 DEF SuggestAppName, Suggested, NothingSuggested
<1>4. IsLabel(SuggestAppName(input.name))
  <2>1. CASE text = <<>>
    <3>1. SuggestAppName(input.name) = <<"a", "a", "a">>
      BY <1>3, <2>1 DEF Trimmed
    <3> QED
      BY <3>1, AppNamesAssumption DEF IsLabel, LabelChars
  <2>2. CASE text # <<>>
    <3>1. IsLabel(Trimmed(text))
      BY <1>2, <2>2, SuggestionIsLabel
    <3>2. Trimmed(text) # <<>>
      BY <3>1 DEF IsLabel
    <3> QED
      BY <1>3, <3>1, <3>2
  <2> QED
    BY <2>1, <2>2
<1>5. ASSUME NEW label, IsLabel(label)
      PROVE  IsDNSLabelSafe(label) /\ SuggestAppName(label) = label
  <2>1. Suggested(label).text = label
    BY <1>5, LabelIsKept
  <2>2. PICK N : N = Len(label) /\ N \in Nat /\ N > 0 /\ label[N] = "a" /\ label # <<>> /\ DOMAIN label = 1 .. N
    BY <1>5 DEF IsLabel, LabelChars
  <2>3. Trimmed(label) = label
    BY <2>2 DEF Trimmed, Last
  <2>4. SuggestAppName(label) = label
    BY <2>1, <2>2, <2>3 DEF SuggestAppName, Suggested, NothingSuggested
  <2>5. IsDNSLabelSafe(label)
    BY <1>5, <2>2 DEF IsLabel, LabelChars, IsDNSLabelSafe
  <2> QED
    BY <2>4, <2>5
<1> QED
  BY <1>4, <1>5

-----------------------------------------------------------------------------
(* Operator commands: quotes. *)

Resting(args) == [args |-> args, word |-> <<>>, started |-> FALSE, quote |-> Outside, escaped |-> FALSE]
Reading(args, word, quote) == [args |-> args, word |-> word, started |-> TRUE, quote |-> quote, escaped |-> FALSE]
Escaping(args, word, quote) == [args |-> args, word |-> word, started |-> TRUE, quote |-> quote, escaped |-> TRUE]

(* Names for two strings that the provers cannot read. *)
DoubleQuote == "\""
Space == " "

LEMMA SplitsOn ==
  ASSUME NEW args, NEW word
  PROVE  /\ Split1(Resting(args), "\\") = Escaping(args, <<>>, Outside)
         /\ Split1(Resting(args), "'") = Reading(args, <<>>, "'")
         /\ Split1(Resting(args), DoubleQuote) = Reading(args, <<>>, DoubleQuote)
         /\ Split1(Resting(args), Space) = Resting(args)
         /\ Split1(Reading(args, word, Outside), "\\") = Escaping(args, word, Outside)
         /\ Split1(Reading(args, word, Outside), "'") = Reading(args, word, "'")
         /\ Split1(Reading(args, word, Outside), Space) = Resting(Append(args, word))
         /\ Split1(Reading(args, word, "'"), "'") = Reading(args, word, Outside)
         /\ Split1(Reading(args, word, DoubleQuote), DoubleQuote) = Reading(args, word, Outside)
         /\ Split1(Reading(args, word, DoubleQuote), "\\") = Escaping(args, word, DoubleQuote)
BY Zenon DEF Split1, Resting, Reading, Escaping, Outside, FlushIfStarted, FlushWord, DoubleQuote, Space

LEMMA SplitsEscaped ==
  ASSUME NEW args, NEW word, NEW quote, NEW char
  PROVE  Split1(Escaping(args, word, quote), char) = Reading(args, Append(word, char), quote)
BY Zenon DEF Split1, Reading, Escaping, WriteChar

LEMMA SplitsQuoted ==
  ASSUME NEW args, NEW word, NEW char
  PROVE  /\ char # "'" => Split1(Reading(args, word, "'"), char) = Reading(args, Append(word, char), "'")
         /\ char \notin {DoubleQuote, "\\"} =>
              Split1(Reading(args, word, DoubleQuote), char) = Reading(args, Append(word, char), DoubleQuote)
BY Zenon DEF Split1, Reading, Escaping, Outside, WriteChar, DoubleQuote

(* From one state of the splitter to another. *)
Runs(text, from, to) ==
  \E run : /\ run[0] = from /\ run[Len(text)] = to
           /\ \A n \in 1 .. Len(text) : run[n] = Split1(run[n - 1], text[n])

LEMMA RunsNothing ==
  ASSUME NEW s
  PROVE  Runs(<<>>, s, s)
<1> DEFINE run == [n \in {0} |-> s]
<1>1. run[0] = s /\ Len(<<>>) = 0 /\ 1 .. 0 = {}
  OBVIOUS
<1> HIDE DEF run
<1> QED
  BY <1>1 DEF Runs

LEMMA RunsOne ==
  ASSUME NEW s, NEW char
  PROVE  Runs(<<char>>, s, Split1(s, char))
<1>1. PICK t : t = Split1(s, char)
  OBVIOUS
<1> DEFINE run == [n \in {0, 1} |-> IF n = 0 THEN s ELSE t]
<1>2. run[0] = s /\ run[1] = t /\ Len(<<char>>) = 1 /\ <<char>>[1] = char
  OBVIOUS
<1>3. \A n \in 1 .. 1 : n = 1 /\ n - 1 = 0
  OBVIOUS
<1> HIDE DEF run
<1>4. \A n \in 1 .. Len(<<char>>) : run[n] = Split1(run[n - 1], <<char>>[n])
  BY <1>1, <1>2, <1>3
<1> QED
  BY <1>1, <1>2, <1>4 DEF Runs

LEMMA RunsOver ==
  ASSUME NEW C, NEW p \in Seq(C), NEW q \in Seq(C), NEW s, NEW t, NEW u, Runs(p, s, t), Runs(q, t, u)
  PROVE  Runs(p \o q, s, u)
<1>1. PICK M, N : M = Len(p) /\ M \in Nat /\ N = Len(q) /\ N \in Nat
  <2>1. Len(p) \in Nat /\ Len(q) \in Nat
    OBVIOUS
  <2> QED
    BY <2>1, Zenon
<1>2. PICK f : f[0] = s /\ f[M] = t /\ \A n \in 1 .. M : f[n] = Split1(f[n - 1], p[n])
  BY <1>1 DEF Runs
<1>3. PICK g : g[0] = t /\ g[N] = u /\ \A n \in 1 .. N : g[n] = Split1(g[n - 1], q[n])
  BY <1>1 DEF Runs
<1>4. PICK pq : pq = p \o q
  OBVIOUS
<1>5. /\ Len(pq) = M + N
      /\ \A n \in 1 .. M : pq[n] = p[n]
      /\ \A n \in 1 .. N : pq[M + n] = q[n]
  BY <1>1, <1>4, ConcatParts
<1> DEFINE run == [n \in 0 .. M + N |-> IF n <= M THEN f[n] ELSE g[n - M]]
<1>6. /\ run[0] = s
      /\ \A n \in 0 .. M : run[n] = f[n]
      /\ \A n \in 0 .. N : run[M + n] = g[n]
  <2>1. \A n \in 1 .. N : (M + n) - M = n /\ ~(M + n <= M)
    BY <1>1
  <2>2. \A n \in 1 .. N : run[M + n] = g[n]
    BY <1>1, <2>1
  <2>3. run[M] = f[M]
    BY <1>1
  <2>4. \A n \in 0 .. M : run[n] = f[n]
    BY <1>1
  <2> QED
    BY <1>1, <1>2, <1>3, <2>2, <2>3, <2>4
<1> HIDE DEF run
<1>7. ASSUME NEW n \in 1 .. M + N
      PROVE  run[n] = Split1(run[n - 1], pq[n])
  <2>1. CASE n <= M
    <3>1. n \in 1 .. M /\ n \in 0 .. M /\ n - 1 \in 0 .. M
      BY <1>1, <2>1
    <3> QED
      BY <1>2, <1>5, <1>6, <3>1
  <2>2. CASE n > M
    <3>1. PICK k : k = n - M /\ k \in 1 .. N /\ k \in 0 .. N /\ k - 1 \in 0 .. N /\ n = M + k /\ n - 1 = M + (k - 1)
      BY <1>1, <2>2
    <3>2. run[n] = g[k] /\ run[n - 1] = g[k - 1] /\ pq[n] = q[k]
      BY <1>5, <1>6, <3>1
    <3> QED
      BY <1>3, <3>1, <3>2
  <2> QED
    BY <1>1, <2>1, <2>2
<1>8. run[M + N] = u /\ run[0] = s
  BY <1>1, <1>3, <1>6
<1> QED
  BY <1>4, <1>5, <1>7, <1>8 DEF Runs

LEMMA RunsFlat ==
  ASSUME NEW C, NEW pieces \in Seq(Seq(C)), NEW at,
         \A n \in 1 .. Len(pieces) : Runs(pieces[n], at[n - 1], at[n])
  PROVE  FlattenSeq(pieces) \in Seq(C) /\ Runs(FlattenSeq(pieces), at[0], at[Len(pieces)])
<1>1. PICK N : N = Len(pieces) /\ N \in Nat /\ \A n \in 1 .. N : pieces[n] \in Seq(C)
  OBVIOUS
<1>2. PICK acc : /\ acc[0] = <<>>
                 /\ \A n \in 1 .. N : acc[n] = acc[n - 1] \o pieces[n]
                 /\ \A n \in 0 .. N : acc[n] \in Seq(C)
                 /\ FlattenSeq(pieces) = acc[N]
  BY <1>1, FlattenStepwise
<1> DEFINE X == {n \in 0 .. N : Runs(acc[n], at[0], at[n])}
<1>3. 0 \in X
  BY <1>1, <1>2, RunsNothing
<1>4. ASSUME NEW n \in 0 .. N - 1, n \in X
      PROVE  n + 1 \in X
  <2>1. n + 1 \in 1 .. N /\ (n + 1) - 1 = n /\ n \in 0 .. N /\ n + 1 \in 0 .. N
    BY <1>1
  <2>2. PICK p, q : p = acc[n] /\ q = pieces[n + 1] /\ acc[n + 1] = p \o q /\ p \in Seq(C) /\ q \in Seq(C)
    BY <1>1, <1>2, <2>1
  <2>3. Runs(p, at[0], at[n]) /\ Runs(q, at[n], at[n + 1])
    BY <1>1, <1>4, <2>1, <2>2
  <2>4. Runs(p \o q, at[0], at[n + 1])
    BY <2>2, <2>3, RunsOver
  <2> QED
    BY <2>1, <2>2, <2>4
<1>5. N \in X
  <2> HIDE DEF X
  <2> QED
    BY <1>1, <1>3, <1>4, ByInduction, Zenon
<1>6. acc[N] \in Seq(C)
  BY <1>1, <1>2
<1> QED
  BY <1>1, <1>2, <1>5, <1>6

Signs == {"'", DoubleQuote, "\\", Space}

LEMMA RunsTwo ==
  ASSUME NEW C, NEW s, NEW a \in C, NEW b \in C
  PROVE  Runs(<<a, b>>, s, Split1(Split1(s, a), b))
<1>1. <<a>> \in Seq(C) /\ <<b>> \in Seq(C) /\ <<a, b>> \in Seq(C)
  OBVIOUS
<1>2. Runs(<<a>>, s, Split1(s, a)) /\ Runs(<<b>>, Split1(s, a), Split1(Split1(s, a), b))
  BY RunsOne
<1>3. Runs(<<a>> \o <<b>>, s, Split1(Split1(s, a), b))
  BY <1>1, <1>2, RunsOver, Zenon
<1>4. <<a>> \o <<b>> = <<a, b>>
  <2>1. /\ <<a>> \o <<b>> \in Seq(C) /\ Len(<<a>> \o <<b>>) = 2
        /\ (<<a>> \o <<b>>)[1] = a /\ (<<a>> \o <<b>>)[2] = b
    BY <1>1
  <2>2. \A i \in 1 .. 2 : (<<a>> \o <<b>>)[i] = <<a, b>>[i]
    BY <2>1
  <2> QED
    BY <1>1, <2>1, <2>2, SeqEqual
<1> QED
  BY <1>3, <1>4

LEMMA RunsFour ==
  ASSUME NEW C, NEW s, NEW a \in C, NEW b \in C, NEW c \in C, NEW d \in C, NEW t, t = Split1(Split1(s, a), b)
  PROVE  Runs(<<a, b, c, d>>, s, Split1(Split1(t, c), d))
<1>1. <<a, b>> \in Seq(C) /\ <<c, d>> \in Seq(C) /\ <<a, b, c, d>> \in Seq(C)
  OBVIOUS
<1>2. Runs(<<a, b>>, s, t) /\ Runs(<<c, d>>, t, Split1(Split1(t, c), d))
  BY RunsTwo
<1>3. Runs(<<a, b>> \o <<c, d>>, s, Split1(Split1(t, c), d))
  BY <1>1, <1>2, RunsOver, Zenon
<1>4. <<a, b>> \o <<c, d>> = <<a, b, c, d>>
  <2>1. PICK x : x = <<a, b>> \o <<c, d>>
    OBVIOUS
  <2>2. x \in Seq(C) /\ Len(x) = 4 /\ x[1] = a /\ x[2] = b /\ x[3] = c /\ x[4] = d
    BY <1>1, <2>1
  <2>3. \A i \in 1 .. 4 : x[i] = <<a, b, c, d>>[i]
    BY <2>2
  <2> QED
    BY <1>1, <2>1, <2>2, <2>3, SeqEqual
<1> QED
  BY <1>3, <1>4

LEMMA PrefixGrows ==
  ASSUME NEW C, NEW word \in Seq(C)
  PROVE  \E part : /\ part[0] = <<>> /\ part[Len(word)] = word
                   /\ \A n \in 1 .. Len(word) : part[n] = Append(part[n - 1], word[n]) /\ word[n] \in C
<1>1. PICK N : N = Len(word) /\ N \in Nat
  OBVIOUS
<1> DEFINE part == [n \in 0 .. N |-> SubSeq(word, 1, n)]
<1>2. \A n \in 0 .. N : part[n] = SubSeq(word, 1, n)
  OBVIOUS
<1> HIDE DEF part
<1>3. \A n \in 0 .. N : SubSeq(word, 1, n) \in Seq(C) /\ Len(SubSeq(word, 1, n)) = n
  BY <1>1
<1>4. \A n \in 0 .. N : \A i \in 1 .. n : SubSeq(word, 1, n)[i] = word[i]
  BY <1>1
<1>5. part[0] = <<>>
  <2>1. Len(SubSeq(word, 1, 0)) = 0 /\ SubSeq(word, 1, 0) \in Seq(C)
    BY <1>1, <1>3
  <2> QED
    BY <1>1, <1>2, <2>1, EmptySeq
<1>6. part[N] = word
  <2>1. /\ Len(SubSeq(word, 1, N)) = N /\ SubSeq(word, 1, N) \in Seq(C)
        /\ \A i \in 1 .. N : SubSeq(word, 1, N)[i] = word[i]
    BY <1>1, <1>3, <1>4
  <2>2. SubSeq(word, 1, N) = word
    BY <1>1, <2>1, SeqEqual
  <2> QED
    BY <1>1, <1>2, <2>2
<1>7. ASSUME NEW n \in 1 .. N
      PROVE  part[n] = Append(part[n - 1], word[n]) /\ word[n] \in C
  <2>1. n \in 0 .. N /\ n - 1 \in 0 .. N /\ word[n] \in C
    BY <1>1
  <2>2. PICK s, t : s = SubSeq(word, 1, n - 1) /\ t = Append(s, word[n])
    OBVIOUS
  <2>3. s \in Seq(C) /\ Len(s) = n - 1 /\ \A i \in 1 .. n - 1 : s[i] = word[i]
    BY <1>3, <1>4, <2>1, <2>2
  <2>4. t \in Seq(C) /\ Len(t) = n /\ (\A i \in 1 .. n - 1 : t[i] = s[i]) /\ t[n] = word[n]
    BY <2>1, <2>2, <2>3
  <2>5. PICK u : u = SubSeq(word, 1, n) /\ u \in Seq(C) /\ Len(u) = n /\ \A i \in 1 .. n : u[i] = word[i]
    BY <1>3, <1>4, <2>1
  <2>6. \A i \in 1 .. n : u[i] = t[i]
    BY <2>3, <2>4, <2>5
  <2>7. u = t
    BY <2>4, <2>5, <2>6, SeqEqual
  <2> QED
    BY <1>2, <2>1, <2>2, <2>5, <2>7
<1> QED
  BY <1>1, <1>5, <1>6, <1>7

(* The characters of a word one after another, each as the piece that it is  *)
(* written as, within quotes or outside of them.                             *)
LEMMA WordRuns ==
  ASSUME NEW C, NEW D, NEW word \in Seq(C), NEW pieces, NEW args, NEW quote, NEW first,
         pieces \in Seq(Seq(D)), Len(pieces) = Len(word),
         \A sofar : \A n \in 1 .. Len(word) :
           Runs(pieces[n], Reading(args, sofar, quote), Reading(args, Append(sofar, word[n]), quote)),
         \/ first = Reading(args, <<>>, quote)
         \/ /\ word # <<>>
            /\ Runs(pieces[1], first, Reading(args, Append(<<>>, word[1]), quote))
  PROVE  FlattenSeq(pieces) \in Seq(D) /\ Runs(FlattenSeq(pieces), first, Reading(args, word, quote))
<1>1. PICK N : N = Len(word) /\ N \in Nat /\ Len(pieces) = N
  OBVIOUS
<1>2. PICK part : /\ part[0] = <<>> /\ part[Len(word)] = word
                  /\ \A n \in 1 .. Len(word) : part[n] = Append(part[n - 1], word[n]) /\ word[n] \in C
  BY PrefixGrows
<1> DEFINE at == [n \in 0 .. N |-> IF n = 0 THEN first ELSE Reading(args, part[n], quote)]
<1>3. at[0] = first /\ at[N] = Reading(args, word, quote)
  <2>1. CASE N = 0
    <3>1. word = <<>>
      BY <1>1, <2>1, EmptySeq
    <3> QED
      BY <1>1, <2>1, <3>1
  <2>2. CASE N > 0
    BY <1>1, <1>2, <2>2
  <2> QED
    BY <1>1, <2>1, <2>2
<1>4. ASSUME NEW n \in 1 .. N
      PROVE  Runs(pieces[n], at[n - 1], at[n])
  <2>0. n \in 0 .. N /\ n # 0 /\ n \in 1 .. Len(word)
    BY <1>1
  <2>1. at[n] = Reading(args, Append(part[n - 1], word[n]), quote)
    <3>1. at[n] = Reading(args, part[n], quote)
      BY <2>0
    <3>2. part[n] = Append(part[n - 1], word[n])
      BY <1>2, <2>0
    <3> QED
      BY <3>1, <3>2, Zenon
  <2>4. Runs(pieces[n], Reading(args, part[n - 1], quote), Reading(args, Append(part[n - 1], word[n]), quote))
    BY <2>0, Zenon
  <2>2. CASE n = 1
    <3>1. at[n - 1] = first /\ part[n - 1] = <<>>
      BY <1>2, <1>3, <2>2
    <3>2. at[n] = Reading(args, Append(<<>>, word[1]), quote)
      BY <2>1, <2>2, <3>1
    <3> HIDE DEF at
    <3>3. CASE first = Reading(args, <<>>, quote)
      BY <2>1, <2>4, <3>1, <3>3, Zenon
    <3>4. CASE Runs(pieces[1], first, Reading(args, Append(<<>>, word[1]), quote))
      BY <2>2, <3>1, <3>2, <3>4
    <3> QED
      BY <3>3, <3>4
  <2>3. CASE n # 1
    <3>1. n - 1 \in 0 .. N /\ n - 1 # 0
      BY <1>1, <2>3
    <3>2. at[n - 1] = Reading(args, part[n - 1], quote)
      BY <3>1
    <3> HIDE DEF at
    <3> QED
      BY <2>1, <2>4, <3>2, Zenon
  <2> QED
    BY <2>2, <2>3
<1> HIDE DEF at
<1> QED
  BY <1>1, <1>3, <1>4, RunsFlat

LEMMA SingleRuns ==
  ASSUME NEW C, NEW word \in Seq(C), NEW args
  PROVE  /\ Quoted(word, "single") \in Seq(C \cup Signs)
         /\ Runs(Quoted(word, "single"), Resting(args), Reading(args, word, Outside))
<1> DEFINE D == C \cup Signs
           pieces == [i \in 1 .. Len(word) |-> IF word[i] = "'" THEN <<"'", "\\", "'", "'">> ELSE <<word[i]>>]
<1>1. \A i \in 1 .. Len(word) : word[i] \in D
  OBVIOUS
<1>2. /\ "'" \in D /\ "\\" \in D /\ <<"'">> \in Seq(D)
      /\ <<"'", "\\", "'", "'">> \in Seq(D)
  BY DEF Signs
<1>3. pieces \in Seq(Seq(D)) /\ Len(pieces) = Len(word)
  <2> HIDE DEF D
  <2>1. \A i \in 1 .. Len(word) : <<word[i]>> \in Seq(D)
    BY <1>1
  <2>2. pieces \in [1 .. Len(word) -> Seq(D)]
    BY <1>2, <2>1
  <2>3. Len(word) \in Nat
    OBVIOUS
  <2> HIDE DEF pieces
  <2> QED
    BY <2>2, <2>3, FunctionIsSeq, Zenon
<1>4. ASSUME NEW sofar, NEW n \in 1 .. Len(word)
      PROVE  Runs(pieces[n], Reading(args, sofar, "'"), Reading(args, Append(sofar, word[n]), "'"))
  <2>1. CASE word[n] = "'"
    <3>1. PICK s, t, u : /\ s = Reading(args, sofar, "'") /\ t = Split1(Split1(s, "'"), "\\")
                         /\ u = Split1(Split1(t, "'"), "'")
      OBVIOUS
    <3>2. Runs(<<"'", "\\", "'", "'">>, s, u)
      BY <1>2, <3>1, RunsFour, Zenon
    <3>3. t = Escaping(args, sofar, Outside)
      BY <3>1, SplitsOn, Zenon
    <3>4. u = Reading(args, Append(sofar, "'"), "'")
      <4>1. Split1(t, "'") = Reading(args, Append(sofar, "'"), Outside)
        BY <3>3, SplitsEscaped
      <4> QED
        BY <3>1, <4>1, SplitsOn
    <3>5. pieces[n] = <<"'", "\\", "'", "'">>
      BY <2>1
    <3> HIDE DEF pieces
    <3> QED
      BY <2>1, <3>1, <3>2, <3>4, <3>5
  <2>2. CASE word[n] # "'"
    <3>1. Split1(Reading(args, sofar, "'"), word[n]) = Reading(args, Append(sofar, word[n]), "'")
      BY <2>2, SplitsQuoted
    <3>2. pieces[n] = <<word[n]>>
      BY <2>2
    <3> HIDE DEF pieces
    <3> QED
      BY <3>1, <3>2, RunsOne
  <2> QED
    BY <2>1, <2>2
<1>5. Quoted(word, "single") = <<"'">> \o FlattenSeq(pieces) \o <<"'">>
  BY Zenon DEF Quoted
<1> HIDE DEF pieces, D
<1>6. FlattenSeq(pieces) \in Seq(D) /\ Runs(FlattenSeq(pieces), Reading(args, <<>>, "'"), Reading(args, word, "'"))
  BY <1>3, <1>4, WordRuns, Zenon
<1>7. /\ Runs(<<"'">>, Resting(args), Reading(args, <<>>, "'"))
      /\ Runs(<<"'">>, Reading(args, word, "'"), Reading(args, word, Outside))
  <2>1. /\ Split1(Resting(args), "'") = Reading(args, <<>>, "'")
        /\ Split1(Reading(args, word, "'"), "'") = Reading(args, word, Outside)
    BY SplitsOn
  <2> QED
    BY <2>1, RunsOne
<1>8. /\ <<"'">> \o FlattenSeq(pieces) \in Seq(D)
      /\ Runs(<<"'">> \o FlattenSeq(pieces), Resting(args), Reading(args, word, "'"))
  BY <1>2, <1>6, <1>7, RunsOver, ConcatParts, Zenon
<1>9. /\ <<"'">> \o FlattenSeq(pieces) \o <<"'">> \in Seq(D)
      /\ Runs(<<"'">> \o FlattenSeq(pieces) \o <<"'">>, Resting(args), Reading(args, word, Outside))
  BY <1>2, <1>7, <1>8, RunsOver, ConcatParts, Zenon
<1> QED
  BY <1>5, <1>9, Zenon DEF D

(* Escaped characters, within double quotes or outside of quotes. *)
EscapedPieces(word, chars) == [i \in 1 .. Len(word) |-> IF word[i] \in chars THEN <<"\\", word[i]>> ELSE <<word[i]>>]

LEMMA EscapedTyped ==
  ASSUME NEW C, NEW word \in Seq(C), NEW chars, NEW D, D = C \cup Signs
  PROVE  EscapedPieces(word, chars) \in Seq(Seq(D)) /\ Len(EscapedPieces(word, chars)) = Len(word)
<1>1. \A i \in 1 .. Len(word) : word[i] \in D
  OBVIOUS
<1>2. "\\" \in D
  BY DEF Signs
<1>3. \A i \in 1 .. Len(word) : <<word[i]>> \in Seq(D) /\ <<"\\", word[i]>> \in Seq(D)
  BY <1>1, <1>2
<1>4. EscapedPieces(word, chars) \in [1 .. Len(word) -> Seq(D)]
  BY <1>3 DEF EscapedPieces
<1>5. Len(word) \in Nat
  OBVIOUS
<1> QED
  BY <1>4, <1>5, FunctionIsSeq, Zenon

LEMMA DoubleRuns ==
  ASSUME NEW C, NEW word \in Seq(C), NEW args
  PROVE  /\ Quoted(word, "double") \in Seq(C \cup Signs)
         /\ Runs(Quoted(word, "double"), Resting(args), Reading(args, word, Outside))
<1>1. PICK D : D = C \cup Signs
  OBVIOUS
<1>2. PICK pieces : /\ pieces = EscapedPieces(word, {DoubleQuote, "\\"})
                    /\ pieces \in Seq(Seq(D)) /\ Len(pieces) = Len(word)
  <2>1. /\ EscapedPieces(word, {DoubleQuote, "\\"}) \in Seq(Seq(D))
        /\ Len(EscapedPieces(word, {DoubleQuote, "\\"})) = Len(word)
    BY <1>1, EscapedTyped, Zenon
  <2> QED
    BY <2>1, Zenon
<1>3. DoubleQuote \in D /\ <<DoubleQuote>> \in Seq(D) /\ "\\" \in D /\ \A i \in 1 .. Len(word) : word[i] \in D
  <2>1. DoubleQuote \in D /\ "\\" \in D
    BY <1>1 DEF Signs
  <2>2. \A i \in 1 .. Len(word) : word[i] \in D
    BY <1>1
  <2> QED
    BY <2>1, <2>2
<1>4. ASSUME NEW sofar, NEW n \in 1 .. Len(word)
      PROVE  Runs(pieces[n], Reading(args, sofar, DoubleQuote), Reading(args, Append(sofar, word[n]), DoubleQuote))
  <2>1. CASE word[n] \in {DoubleQuote, "\\"}
    <3>1. Runs(<<"\\", word[n]>>, Reading(args, sofar, DoubleQuote),
               Split1(Split1(Reading(args, sofar, DoubleQuote), "\\"), word[n]))
      BY <1>3, RunsTwo, Zenon
    <3>2. Split1(Split1(Reading(args, sofar, DoubleQuote), "\\"), word[n]) =
            Reading(args, Append(sofar, word[n]), DoubleQuote)
      <4>1. Split1(Reading(args, sofar, DoubleQuote), "\\") = Escaping(args, sofar, DoubleQuote)
        BY SplitsOn
      <4> QED
        BY <4>1, SplitsEscaped
    <3>3. pieces[n] = <<"\\", word[n]>>
      BY <1>2, <2>1 DEF EscapedPieces
    <3> QED
      BY <3>1, <3>2, <3>3
  <2>2. CASE word[n] \notin {DoubleQuote, "\\"}
    <3>1. Split1(Reading(args, sofar, DoubleQuote), word[n]) = Reading(args, Append(sofar, word[n]), DoubleQuote)
      BY <2>2, SplitsQuoted
    <3>2. pieces[n] = <<word[n]>>
      BY <1>2, <2>2 DEF EscapedPieces
    <3> QED
      BY <3>1, <3>2, RunsOne
  <2> QED
    BY <2>1, <2>2
<1>5. Quoted(word, "double") = <<DoubleQuote>> \o FlattenSeq(pieces) \o <<DoubleQuote>>
  BY <1>2, Zenon DEF Quoted, Escaped, EscapedPieces, DoubleQuote
<1>6. /\ FlattenSeq(pieces) \in Seq(D)
      /\ Runs(FlattenSeq(pieces), Reading(args, <<>>, DoubleQuote), Reading(args, word, DoubleQuote))
  BY <1>2, <1>4, WordRuns, Zenon
<1>7. /\ Runs(<<DoubleQuote>>, Resting(args), Reading(args, <<>>, DoubleQuote))
      /\ Runs(<<DoubleQuote>>, Reading(args, word, DoubleQuote), Reading(args, word, Outside))
  <2>1. /\ Split1(Resting(args), DoubleQuote) = Reading(args, <<>>, DoubleQuote)
        /\ Split1(Reading(args, word, DoubleQuote), DoubleQuote) = Reading(args, word, Outside)
    BY SplitsOn
  <2> QED
    BY <2>1, RunsOne
<1>8. /\ <<DoubleQuote>> \o FlattenSeq(pieces) \in Seq(D)
      /\ Runs(<<DoubleQuote>> \o FlattenSeq(pieces), Resting(args), Reading(args, word, DoubleQuote))
  BY <1>3, <1>6, <1>7, RunsOver, ConcatParts, Zenon
<1>9. /\ <<DoubleQuote>> \o FlattenSeq(pieces) \o <<DoubleQuote>> \in Seq(D)
      /\ Runs(<<DoubleQuote>> \o FlattenSeq(pieces) \o <<DoubleQuote>>, Resting(args), Reading(args, word, Outside))
  BY <1>3, <1>7, <1>8, RunsOver, ConcatParts, Zenon
<1> QED
  BY <1>1, <1>5, <1>9, Zenon

LEMMA EscapeRuns ==
  ASSUME NEW C, NEW word \in Seq(C), NEW args
  PROVE  /\ Quoted(word, "escape") \in Seq(C \cup Signs)
         /\ Runs(Quoted(word, "escape"), Resting(args), Reading(args, word, Outside))
<1>1. PICK D : D = C \cup Signs
  OBVIOUS
<1>2. CASE word = <<>>
  <2>1. Quoted(word, "escape") = <<"'", "'">>
    BY <1>2, Zenon DEF Quoted
  <2>2. "'" \in D
    BY <1>1 DEF Signs
  <2>5. <<"'", "'">> \in Seq(D)
    BY <2>2
  <2>3. Runs(<<"'", "'">>, Resting(args), Split1(Split1(Resting(args), "'"), "'"))
    BY <2>2, RunsTwo, Zenon
  <2>4. Split1(Split1(Resting(args), "'"), "'") = Reading(args, <<>>, Outside)
    BY SplitsOn
  <2> QED
    BY <1>1, <1>2, <2>1, <2>3, <2>4, <2>5
<1>3. CASE word # <<>>
  <2>1. PICK pieces : pieces = EscapedPieces(word, Range(word)) /\ pieces \in Seq(Seq(D)) /\ Len(pieces) = Len(word)
    <3>1. EscapedPieces(word, Range(word)) \in Seq(Seq(D)) /\ Len(EscapedPieces(word, Range(word))) = Len(word)
      BY <1>1, EscapedTyped, Zenon
    <3> QED
      BY <3>1, Zenon
  <2>2. "\\" \in D /\ \A i \in 1 .. Len(word) : word[i] \in D
    <3>1. "\\" \in D
      BY <1>1 DEF Signs
    <3> QED
      BY <1>1, <3>1
  <2>8. \A i \in 1 .. Len(word) : word[i] \in Range(word)
    BY DEF Range
  <2>3. \A n \in 1 .. Len(word) : pieces[n] = <<"\\", word[n]>>
    BY <2>1, <2>8 DEF EscapedPieces
  <2>4. ASSUME NEW sofar, NEW n \in 1 .. Len(word)
        PROVE  Runs(pieces[n], Reading(args, sofar, Outside), Reading(args, Append(sofar, word[n]), Outside))
    <3>1. Runs(<<"\\", word[n]>>, Reading(args, sofar, Outside),
               Split1(Split1(Reading(args, sofar, Outside), "\\"), word[n]))
      BY <2>2, RunsTwo, Zenon
    <3>2. Split1(Split1(Reading(args, sofar, Outside), "\\"), word[n]) =
            Reading(args, Append(sofar, word[n]), Outside)
      <4>1. Split1(Reading(args, sofar, Outside), "\\") = Escaping(args, sofar, Outside)
        BY SplitsOn
      <4> QED
        BY <4>1, SplitsEscaped
    <3> QED
      BY <2>3, <3>1, <3>2
  <2>5. Runs(pieces[1], Resting(args), Reading(args, Append(<<>>, word[1]), Outside))
    <3>1. 1 \in 1 .. Len(word)
      BY <1>3
    <3>2. Runs(<<"\\", word[1]>>, Resting(args), Split1(Split1(Resting(args), "\\"), word[1]))
      BY <2>2, <3>1, RunsTwo, Zenon
    <3>3. Split1(Split1(Resting(args), "\\"), word[1]) = Reading(args, Append(<<>>, word[1]), Outside)
      <4>1. PICK none : none = <<>>
        OBVIOUS
      <4>2. Split1(Resting(args), "\\") = Escaping(args, none, Outside)
        BY <4>1, SplitsOn
      <4>3. Split1(Split1(Resting(args), "\\"), word[1]) = Reading(args, Append(none, word[1]), Outside)
        BY <4>2, SplitsEscaped
      <4> QED
        BY <4>1, <4>3, Zenon
    <3> QED
      BY <2>3, <3>1, <3>2, <3>3
  <2>6. Quoted(word, "escape") = FlattenSeq(pieces)
    BY <1>3, <2>1, Zenon DEF Quoted, Escaped, EscapedPieces, DoubleQuote
  <2>7. FlattenSeq(pieces) \in Seq(D) /\ Runs(FlattenSeq(pieces), Resting(args), Reading(args, word, Outside))
    BY <1>3, <2>1, <2>4, <2>5, WordRuns, Zenon
  <2> QED
    BY <1>1, <2>6, <2>7, Zenon
<1> QED
  BY <1>2, <1>3

Styles == {"single", "double", "escape"}

LEMMA QuotedRuns ==
  ASSUME NEW C, NEW word \in Seq(C), NEW args, NEW style \in Styles
  PROVE  /\ Quoted(word, style) \in Seq(C \cup Signs)
         /\ Runs(Quoted(word, style), Resting(args), Reading(args, word, Outside))
BY SingleRuns, DoubleRuns, EscapeRuns, Zenon DEF Styles

(* The first space ends a word, the others are skipped. *)
LEMMA GapRuns ==
  ASSUME NEW C, NEW n \in Nat, n > 0, NEW gap, gap = [i \in 1 .. n |-> Space], NEW args, NEW word
  PROVE  gap \in Seq(C \cup Signs) /\ Runs(gap, Reading(args, word, Outside), Resting(Append(args, word)))
<1>1. Space \in C \cup Signs
  BY DEF Signs
<1>2. gap \in Seq(C \cup Signs) /\ Len(gap) = n
  <2>1. gap \in [1 .. n -> C \cup Signs]
    BY <1>1
  <2> QED
    BY <2>1, FunctionIsSeq, Zenon
<1>3. PICK from, to : /\ from = Reading(args, word, Outside) /\ to = Resting(Append(args, word))
                      /\ Split1(from, Space) = to /\ Split1(to, Space) = to
  BY SplitsOn
<1> DEFINE run == [i \in 0 .. n |-> IF i = 0 THEN from ELSE to]
<1>4. run[0] = from /\ run[n] = to
  OBVIOUS
<1>5. ASSUME NEW i \in 1 .. n
      PROVE  run[i] = Split1(run[i - 1], gap[i])
  <2>1. gap[i] = Space /\ run[i] = to
    OBVIOUS
  <2>2. run[i - 1] \in {from, to}
    OBVIOUS
  <2> HIDE DEF run
  <2> QED
    BY <1>3, <2>1, <2>2
<1> HIDE DEF run
<1>6. Runs(gap, from, to)
  BY <1>2, <1>4, <1>5 DEF Runs
<1> QED
  BY <1>2, <1>3, <1>6

(* States of the splitter, for its fold to exist. *)
Splittings(C) ==
  [args : Seq(Seq(C)), word : Seq(C), started : BOOLEAN, quote : {Outside, "'", DoubleQuote}, escaped : BOOLEAN]

LEMMA WritesTyped ==
  ASSUME NEW C, NEW s \in Splittings(C), NEW char \in C
  PROVE  WriteChar(s, char) \in Splittings(C) /\ FlushIfStarted(s) \in Splittings(C)
<1>1. Append(s.word, char) \in Seq(C) /\ <<>> \in Seq(C)
  BY DEF Splittings
<1>2. Append(s.args, s.word) \in Seq(Seq(C))
  BY DEF Splittings
<1>3. WriteChar(s, char) \in Splittings(C)
  BY <1>1 DEF WriteChar, Splittings
<1>4. FlushWord(s) \in Splittings(C)
  BY <1>1, <1>2 DEF FlushWord, Splittings
<1> QED
  BY <1>3, <1>4 DEF FlushIfStarted

LEMMA SplitTyped ==
  ASSUME NEW C, NEW s \in Splittings(C), NEW char \in C
  PROVE  Split1(s, char) \in Splittings(C)
<1>1. PICK dq : dq = DoubleQuote
  OBVIOUS
<1>2. s.escaped \in BOOLEAN
  BY DEF Splittings
<1>3. WriteChar(s, char) \in Splittings(C) /\ FlushIfStarted(s) \in Splittings(C)
  BY WritesTyped
<1>4. /\ [s EXCEPT !.escaped = TRUE, !.started = TRUE] \in Splittings(C)
      /\ [s EXCEPT !.quote = Outside] \in Splittings(C)
      /\ [s EXCEPT !.escaped = TRUE] \in Splittings(C)
      /\ char \in {"'", DoubleQuote} => [s EXCEPT !.quote = char, !.started = TRUE] \in Splittings(C)
  BY DEF Splittings
<1>5. \/ Split1(s, char) \in {WriteChar(s, char), FlushIfStarted(s), [s EXCEPT !.escaped = TRUE, !.started = TRUE],
                              [s EXCEPT !.quote = Outside], [s EXCEPT !.escaped = TRUE]}
      \/ char \in {"'", DoubleQuote} /\ Split1(s, char) = [s EXCEPT !.quote = char, !.started = TRUE]
  BY <1>2, Zenon DEF Split1, DoubleQuote
<1> QED
  BY <1>3, <1>4, <1>5

LEMMA SplitStepwise ==
  ASSUME NEW C, NEW text \in Seq(C)
  PROVE  \E acc : /\ acc[0] = Splitting
                  /\ \A n \in 1 .. Len(text) : acc[n] = Split1(acc[n - 1], text[n])
                  /\ FoldLeft(Split1, Splitting, text) = acc[Len(text)]
<1>1. PICK N : N = Len(text) /\ N \in Nat /\ DOMAIN text = 1 .. N /\ \A n \in 1 .. N : text[n] \in C
  OBVIOUS
<1> DEFINE T == Splittings(C)
           step == [n \in 1 .. N |-> [s \in T |-> Split1(s, text[n])]]
           base == Splitting
<1>2. base \in T
  <2>1. <<>> \in Seq(C) /\ <<>> \in Seq(Seq(C))
    OBVIOUS
  <2> QED
    BY <2>1 DEF Splitting, Splittings
<1>3. step \in [1 .. N -> [T -> T]]
  <2>1. \A n \in 1 .. N, s \in T : Split1(s, text[n]) \in T
    BY <1>1, SplitTyped
  <2> HIDE DEF T
  <2> QED
    BY <2>1
<1>4. PICK e : IsFold(e, N, base, step) /\ \A S \in SUBSET (1 .. N) : e[S] \in T
  <2> HIDE DEF step, base, T
  <2> QED
    BY <1>1, <1>2, <1>3, FoldExists, Zenon
<1>5. ASSUME NEW S \in SUBSET (1 .. N), S # {}
      PROVE  step[Max(S)][e[S \ {Max(S)}]] = Split1(e[S \ {Max(S)}], text[Max(S)])
  <2>1. PICK m, R : m = Max(S) /\ R = S \ {m}
    OBVIOUS
  <2>2. m \in 1 .. N /\ e[R] \in T
    BY <1>1, <1>4, <1>5, <2>1, MaxOfPart
  <2> HIDE DEF T
  <2> QED
    BY <2>1, <2>2
<1>6. e = [S \in SUBSET (1 .. N) |-> IF S = {} THEN base ELSE Split1(e[S \ {Max(S)}], text[Max(S)])]
  <2> HIDE DEF step, base, T
  <2> QED
    BY <1>4, <1>5 DEF IsFold
<1>7. PICK it : /\ it = [S \in SUBSET (1 .. N) |-> IF S = {} THEN base ELSE Split1(it[S \ {Max(S)}], text[Max(S)])]
                /\ FoldLeft(Split1, Splitting, text) = it[1 .. N]
  <2> HIDE DEF step
  <2> QED
    BY <1>1, <1>6, Zenon DEF FoldLeft, MapThenFoldSet
<1>8. PICK acc : /\ acc[0] = it[{}] /\ acc[N] = it[1 .. N]
                 /\ \A n \in 1 .. N : acc[n] = it[1 .. n] /\ acc[n - 1] = it[(1 .. n) \ {n}]
  <2>1. N \in Nat
    BY <1>1
  <2> HIDE DEF step, base, T
  <2>2. PICK other : IsUnfolding(other, it, N)
    BY <2>1, FoldPrefixes, Zenon
  <2> QED
    BY <2>2, Zenon DEF IsUnfolding
<1> HIDE DEF base, step, T
<1>9. acc[0] = base
  BY <1>7, <1>8
<1>10. ASSUME NEW n \in 1 .. N
      PROVE  acc[n] = Split1(acc[n - 1], text[n])
  <2>1. Max(1 .. n) = n /\ 1 .. n # {}
    BY <1>1, MaxOfTop
  <2>2. 1 .. n \in SUBSET (1 .. N)
    BY <1>1
  <2>3. it[1 .. n] = Split1(it[(1 .. n) \ {n}], text[n])
    BY <1>7, <2>1, <2>2
  <2> QED
    BY <1>8, <2>3
<1> QED
  BY <1>1, <1>7, <1>8, <1>9, <1>10 DEF base

LEMMA RunIsSplit ==
  ASSUME NEW C, NEW text \in Seq(C), NEW to, Runs(text, Splitting, to)
  PROVE  FoldLeft(Split1, Splitting, text) = to
<1>1. PICK acc : /\ acc[0] = Splitting
                 /\ \A n \in 1 .. Len(text) : acc[n] = Split1(acc[n - 1], text[n])
                 /\ FoldLeft(Split1, Splitting, text) = acc[Len(text)]
  BY SplitStepwise
<1>2. PICK run : /\ run[0] = Splitting /\ run[Len(text)] = to
                 /\ \A n \in 1 .. Len(text) : run[n] = Split1(run[n - 1], text[n])
  BY DEF Runs
<1>3. PICK N : N = Len(text) /\ N \in Nat
  OBVIOUS
<1> DEFINE X == {n \in 0 .. N : run[n] = acc[n]}
<1>4. 0 \in X
  BY <1>1, <1>2, <1>3
<1>5. ASSUME NEW n \in 0 .. N - 1, n \in X
      PROVE  n + 1 \in X
  <2>1. n + 1 \in 1 .. N /\ (n + 1) - 1 = n /\ n + 1 \in 0 .. N
    BY <1>3
  <2>2. run[n + 1] = Split1(run[n], text[n + 1]) /\ acc[n + 1] = Split1(acc[n], text[n + 1])
    BY <1>1, <1>2, <1>3, <2>1
  <2>3. run[n] = acc[n]
    BY <1>5
  <2> QED
    BY <2>1, <2>2, <2>3
<1>6. N \in X
  <2> HIDE DEF X
  <2> QED
    BY <1>3, <1>4, <1>5, ByInduction, Zenon
<1> QED
  BY <1>1, <1>2, <1>3, <1>6

Command(argv, styles, gap) == FlattenSeq([i \in 1 .. Len(argv) |-> Quoted(argv[i], styles[i]) \o gap])

LEMMA CommandSplits ==
  ASSUME NEW C, NEW argv \in Seq(Seq(C)), NEW styles, \A i \in 1 .. Len(argv) : styles[i] \in Styles,
         NEW n \in Nat, n > 0, NEW gap, gap = [i \in 1 .. n |-> Space]
  PROVE  SplitCommand(Command(argv, styles, gap)) = argv
<1> DEFINE D == C \cup Signs
           pieces == [i \in 1 .. Len(argv) |-> Quoted(argv[i], styles[i]) \o gap]
<1>1. PICK N : N = Len(argv) /\ N \in Nat /\ \A i \in 1 .. N : argv[i] \in Seq(C)
  OBVIOUS
<1>2. ASSUME NEW i \in 1 .. N, NEW args
      PROVE  /\ Quoted(argv[i], styles[i]) \o gap \in Seq(D)
             /\ Runs(Quoted(argv[i], styles[i]) \o gap, Resting(args), Resting(Append(args, argv[i])))
  <2>1. PICK word, style : word = argv[i] /\ style = styles[i] /\ word \in Seq(C) /\ style \in Styles
    BY <1>1
  <2>2. Quoted(word, style) \in Seq(D) /\ Runs(Quoted(word, style), Resting(args), Reading(args, word, Outside))
    BY <2>1, QuotedRuns, Zenon
  <2>3. gap \in Seq(D) /\ Runs(gap, Reading(args, word, Outside), Resting(Append(args, word)))
    BY GapRuns, Zenon
  <2> HIDE DEF D
  <2>4. Runs(Quoted(word, style) \o gap, Resting(args), Resting(Append(args, word)))
    BY <2>2, <2>3, RunsOver, Zenon
  <2>5. Quoted(word, style) \o gap \in Seq(D)
    BY <2>2, <2>3, ConcatParts, Zenon
  <2> QED
    BY <2>1, <2>4, <2>5, Zenon
<1>3. pieces \in Seq(Seq(D)) /\ Len(pieces) = N /\ \A i \in 1 .. N : pieces[i] = Quoted(argv[i], styles[i]) \o gap
  <2>1. pieces \in [1 .. N -> Seq(D)]
    <3> HIDE DEF D
    <3>1. \A i \in 1 .. N : Quoted(argv[i], styles[i]) \o gap \in Seq(D)
      BY <1>2, Zenon
    <3> QED
      BY <1>1, <3>1
  <2>2. \A i \in 1 .. N : pieces[i] = Quoted(argv[i], styles[i]) \o gap
    BY <1>1
  <2> HIDE DEF pieces, D
  <2> QED
    BY <1>1, <2>1, <2>2, FunctionIsSeq, Zenon
<1> HIDE DEF pieces, D
<1>4. PICK part : /\ part[0] = <<>> /\ part[Len(argv)] = argv
                  /\ \A i \in 1 .. Len(argv) : part[i] = Append(part[i - 1], argv[i]) /\ argv[i] \in Seq(C)
  BY PrefixGrows, Zenon
<1> DEFINE at == [i \in 0 .. N |-> Resting(part[i])]
<1>5. \A i \in 0 .. N : at[i] = Resting(part[i])
  OBVIOUS
<1> HIDE DEF at
<1>6. ASSUME NEW i \in 1 .. N
      PROVE  Runs(pieces[i], at[i - 1], at[i])
  <2>1. i \in 0 .. N /\ i - 1 \in 0 .. N /\ i \in 1 .. Len(argv)
    BY <1>1
  <2>2. at[i - 1] = Resting(part[i - 1]) /\ at[i] = Resting(part[i]) /\ part[i] = Append(part[i - 1], argv[i])
    BY <1>4, <1>5, <2>1, Zenon
  <2>3. pieces[i] = Quoted(argv[i], styles[i]) \o gap
    BY <1>3
  <2> QED
    BY <1>2, <2>2, <2>3, Zenon
<1>7. at[0] = Splitting /\ at[N] = Resting(argv)
  <2>1. 0 \in 0 .. N /\ N \in 0 .. N
    BY <1>1
  <2>2. at[0] = Resting(<<>>) /\ at[N] = Resting(argv)
    BY <1>1, <1>4, <1>5, <2>1, Zenon
  <2> QED
    BY <2>2 DEF Splitting, Resting
<1>8. FlattenSeq(pieces) \in Seq(D) /\ Runs(FlattenSeq(pieces), Splitting, Resting(argv))
  <2>1. \A i \in 1 .. Len(pieces) : Runs(pieces[i], at[i - 1], at[i])
    BY <1>3, <1>6
  <2>2. FlattenSeq(pieces) \in Seq(D) /\ Runs(FlattenSeq(pieces), at[0], at[Len(pieces)])
    BY <1>3, <2>1, RunsFlat, Zenon
  <2> QED
    BY <1>3, <1>7, <2>2, Zenon
<1>9. FoldLeft(Split1, Splitting, FlattenSeq(pieces)) = Resting(argv)
  BY <1>8, RunIsSplit, Zenon
<1>10. SplitCommand(FlattenSeq(pieces)) = argv
  <2>1. PICK s : s = FoldLeft(Split1, Splitting, FlattenSeq(pieces))
    OBVIOUS
  <2>2. s = Resting(argv)
    BY <1>9, <2>1
  <2>3. ~s.escaped /\ s.quote = Outside /\ ~s.started /\ s.args = argv
    BY <2>2 DEF Resting
  <2>4. FlushIfStarted(s) = s
    BY <2>3 DEF FlushIfStarted
  <2> QED
    BY <2>1, <2>3, <2>4, Zenon DEF SplitCommand
<1> QED
  BY <1>10, Zenon DEF pieces, Command

LEMMA QuotedHolds ==
  ASSUME NEW C, input.of = "quote" => /\ input.argv \in Seq(Seq(C)) /\ input.gap \in Nat /\ input.gap > 0
                                      /\ \A i \in 1 .. Len(input.argv) : input.styles[i] \in Styles
  PROVE  QuotedArgvIsPreserved
<1> SUFFICES ASSUME input.of = "quote"
             PROVE  SplitCommand(
                      FlattenSeq(
                        [i \in 1 .. Len(input.argv) |->
                           Quoted(input.argv[i], input.styles[i]) \o [j \in 1 .. input.gap |-> " "]])) = input.argv
  BY Zenon DEF QuotedArgvIsPreserved
<1>1. PICK gap : gap = [j \in 1 .. input.gap |-> Space]
  OBVIOUS
<1>2. SplitCommand(
        FlattenSeq([i \in 1 .. Len(input.argv) |-> Quoted(input.argv[i], input.styles[i]) \o gap])) = input.argv
  <2>1. PICK argv, styles, n : argv = input.argv /\ styles = input.styles /\ n = input.gap
    OBVIOUS
  <2>2. argv \in Seq(Seq(C)) /\ n \in Nat /\ n > 0 /\ \A i \in 1 .. Len(argv) : styles[i] \in Styles
    BY <2>1, Zenon
  <2>3. gap = [j \in 1 .. n |-> Space]
    BY <1>1, <2>1, Zenon
  <2>4. SplitCommand(Command(argv, styles, gap)) = argv
    BY <2>2, <2>3, CommandSplits, Zenon
  <2> QED
    BY <2>1, <2>4, Zenon DEF Command
<1> QED
  BY <1>1, <1>2, Zenon DEF Space

LEMMA ArgvHolds ==
  ASSUME NEW Words, input.of = "argv" => input.argv \in Seq(Words)
  PROVE  ContainerArgvIsOpaque
<1> SUFFICES ASSUME input.of = "argv"
             PROVE  LET parsed == ParseOutputArgs(input.argv)
                        options == {input.argv[3], input.argv[4]} IN
                    /\ Len(input.argv) > 5 /\ IsContainerCommand(input.argv) /\ "--json" \notin options =>
                         /\ OperatorCommandAllowed(input.argv)
                         /\ parsed = [ok |-> TRUE, args |-> input.argv, json |-> FALSE]
                    /\ parsed.ok => ParseOutputArgs(parsed.args) = [ok |-> TRUE, args |-> parsed.args, json |-> FALSE]
                    /\ parsed.ok /\ parsed.json => \A i \in DOMAIN parsed.args : parsed.args[i] # "--json"
  BY DEF ContainerArgvIsOpaque
<1>1. PICK argv : argv = input.argv /\ argv \in Seq(Words)
  OBVIOUS
<1> DEFINE parsed == ParseOutputArgs(argv)
<1>2. Len(argv) > 5 /\ IsContainerCommand(argv) /\ "--json" \notin {argv[3], argv[4]} =>
        OperatorCommandAllowed(argv) /\ parsed = [ok |-> TRUE, args |-> argv, json |-> FALSE]
  BY <1>1, ContainerArgumentsAreKept
<1>3. ASSUME parsed.ok
      PROVE  /\ ParseOutputArgs(parsed.args) = [ok |-> TRUE, args |-> parsed.args, json |-> FALSE]
             /\ parsed.json => \A i \in DOMAIN parsed.args : parsed.args[i] # "--json"
  <2>1. /\ ParseOutputArgs(parsed.args) = [ok |-> TRUE, args |-> parsed.args, json |-> FALSE]
        /\ parsed.json => \A i \in 1 .. Len(parsed.args) : parsed.args[i] # "--json"
    BY <1>1, <1>3, ParsingIsRepeatable, Zenon
  <2>2. parsed.args \in Seq(Words)
    <3>1. CASE JSONWords(argv) = {}
      <4>1. parsed = [ok |-> TRUE, args |-> argv, json |-> FALSE]
        BY <1>1, <3>1, ParsedWithout, Zenon
      <4> HIDE DEF parsed
      <4>2. parsed.args = argv
        BY <4>1
      <4> QED
        BY <1>1, <4>2
    <3>2. CASE JSONWords(argv) # {}
      <4>1. parsed = [ok |-> TRUE, args |-> Front(argv), json |-> TRUE] /\ JSONWords(argv) = {Len(argv)}
        BY <1>1, <1>3, <3>2, ParsedWith, Zenon
      <4>2. Len(argv) > 0
        BY <1>1, <4>1, JSONIsLast
      <4>3. Front(argv) \in Seq(Words)
        BY <1>1, <4>2, FrontParts
      <4> HIDE DEF parsed
      <4>4. parsed.args = Front(argv)
        BY <4>1
      <4> QED
        BY <4>3, <4>4
    <3> QED
      BY <3>1, <3>2
  <2> HIDE DEF parsed
  <2>4. DOMAIN parsed.args = 1 .. Len(parsed.args)
    BY <2>2
  <2> QED
    BY <2>1, <2>2, <2>4
<1> QED
  BY <1>1, <1>2, <1>3

(* What the functions are given: a name, arguments, and words each of which  *)
(* is quoted in a way of its own and followed by some space.                *)
OperatorInput(Chars) ==
  /\ input.of = "name" => input.name \in Seq(Chars)
  /\ input.of = "argv" => input.argv \in Seq(Chars)
  /\ input.of = "quote" => /\ input.argv \in Seq(Seq(Chars)) /\ input.gap \in Nat /\ input.gap > 0
                          /\ \A i \in 1 .. Len(input.argv) : input.styles[i] \in Styles

THEOREM OperatorWordsAreAlwaysKept ==
  ASSUME NEW Chars, OperatorInput(Chars)
  PROVE  OperatorWordsAreKept
<1>1. QuotedArgvIsPreserved
  BY QuotedHolds, Zenon DEF OperatorInput
<1>2. ContainerArgvIsOpaque
  BY ArgvHolds, Zenon DEF OperatorInput
<1>3. SuggestionIsUsable
  BY NamesHold, Zenon DEF OperatorInput
<1> QED
  BY <1>1, <1>2, <1>3 DEF OperatorWordsAreKept
=============================================================================
