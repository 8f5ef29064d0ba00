--------------------------- MODULE AppOperations ---------------------------
(***************************************************************************)
(* The life of one app name on the host: creation, the operators' Compose   *)
(* commands (start, stop, restart, exec, run), removal and its repetition,   *)
(* beside the daemon's deployments.  None of them takes a lock; each step    *)
(* may fail, and each process may die between two.  Commits are numbered in *)
(* the order they are pushed, 0 is none; routes are in module Routing.      *)
(***************************************************************************)
EXTENDS Naturals, FiniteSets

CONSTANTS
  Workers, None,
  MaxPushes,   \* bound: pushes
  MaxCommands  \* bound: commands started

ASSUME AppOperationsAssumption == MaxPushes \in Nat /\ MaxCommands \in Nat

VARIABLES
  record,      \* the row of the app
  repo,        \* the bare repository [main, head]: refs/heads/main, and HEAD once detached
  worktree,    \* the commit whose files it has, 0 without any
  torn,        \* a checkout has changed files and not yet HEAD
  containers,  \* of the project: [commit, sha] they were created from; sure is history
  queued,      \* the commit of the queued attempt
  deploy,      \* step of the daemon's deployment
  attempt,     \* its commit
  pc,          \* [Workers -> step of the command]
  kind,        \* [Workers -> what it does]
  sha,         \* [Workers -> SSHDOCK_GIT_SHA of its environment]
  lastRemoval, \* type of the latest remove.* event
  overtaken,   \* history: commands that a checkout or removal ran beside
  mixed,       \* history: a removal ran beside something that creates
  pushes, started

files == <<record, repo, worktree, torn, containers>>
daemonVars == <<queued, deploy, attempt>>
commandVars == <<pc, kind, sha>>
bounds == <<pushes, started>>
vars == <<files, daemonVars, commandVars, lastRemoval, overtaken, mixed, bounds>>

Commits == 1 .. MaxPushes
Kinds == {"lifecycle", "restart", "exec", "run", "remove", "create"}
RemovalSteps == {"audit", "resolve", "down", "remove repo", "remove worktree", "remove dir",
                 "delete", "reconcile", "succeed", "fail"}
OperationSteps == {"event", "env", "compose", "outcome"}
CreationSteps == {"set up", "insert"}
DeploySteps == {"idle", "checkout", "head", "up"}
Repos == [main : 0 .. MaxPushes, head : 0 .. MaxPushes]
Projects == [commit : Commits, sha : 0 .. MaxPushes, sure : BOOLEAN]

(* None is none of the things it stands for the absence of. *)
ASSUME NoneAssumption ==
  None \notin Kinds /\ None \notin 0 .. MaxPushes /\ None \notin Repos /\ None \notin Projects

TypeOK ==
  /\ record \in BOOLEAN
  /\ repo \in Repos \cup {None}
  /\ worktree \in 0 .. MaxPushes \cup {None}
  /\ torn \in BOOLEAN
  /\ containers \in Projects \cup {None}
  /\ queued \in 0 .. MaxPushes /\ attempt \in 0 .. MaxPushes
  /\ deploy \in DeploySteps
  /\ pc \in [Workers -> {"idle"} \cup RemovalSteps \cup OperationSteps \cup CreationSteps]
  /\ kind \in [Workers -> Kinds \cup {None}]
  /\ sha \in [Workers -> 0 .. MaxPushes]
  /\ lastRemoval \in {None, "started", "failed", "succeeded"}
  /\ overtaken \subseteq Workers
  /\ mixed \in BOOLEAN
  /\ pushes \in 0 .. MaxPushes /\ started \in 0 .. MaxCommands
  /\ \A w \in Workers : pc[w] = "idle" <=> kind[w] = None
  /\ queued # 0 => record

Init ==
  /\ record = FALSE /\ repo = None /\ worktree = None /\ torn = FALSE /\ containers = None
  /\ queued = 0 /\ deploy = "idle" /\ attempt = 0
  /\ pc = [w \in Workers |-> "idle"] /\ kind = [w \in Workers |-> None]
  /\ sha = [w \in Workers |-> 0]
  /\ lastRemoval = None
  /\ overtaken = {} /\ mixed = FALSE /\ pushes = 0 /\ started = 0

-----------------------------------------------------------------------------
(* A command runs in a process of its own. *)

HasComposeFile == worktree \in Commits  \* DetectFile; every commit has one
Busy(ks) == {w \in Workers : kind[w] \in ks}

Start(w, k, step) ==
  /\ pc[w] = "idle" /\ started < MaxCommands
  /\ started' = started + 1
  /\ pc' = [pc EXCEPT ![w] = step]
  /\ kind' = [kind EXCEPT ![w] = k]
  /\ overtaken' = IF deploy # "idle" \/ Busy({"remove"}) # {} THEN overtaken \cup {w} ELSE overtaken
Goto(w, here, step) ==
  /\ pc[w] = here
  /\ pc' = [pc EXCEPT ![w] = step]
  /\ UNCHANGED <<kind, started, overtaken>>
Ends(w) ==
  /\ pc' = [pc EXCEPT ![w] = "idle"]
  /\ kind' = [kind EXCEPT ![w] = None]
  /\ sha' = [sha EXCEPT ![w] = 0]
  /\ overtaken' = overtaken \ {w}
  /\ UNCHANGED started

(* An error is returned, or the process killed: nothing is undone.          *)
Stops(w) ==
  /\ pc[w] # "idle"
  /\ Ends(w)
  /\ UNCHANGED <<files, daemonVars, lastRemoval, pushes>>

-----------------------------------------------------------------------------
(* StoreBackend.CreateApp: the name is checked, the repository is set up,    *)
(* then the row is inserted.                                                *)
BeginCreate(w) ==
  /\ ~record
  /\ Start(w, "create", "set up")
  /\ UNCHANGED <<files, daemonVars, sha, lastRemoval, pushes>>

(* git init leaves an existing repository alone; hooks are renamed into place. *)
SetupBareRepo(w) ==
  /\ Goto(w, "set up", "insert")
  /\ repo' = IF repo = None THEN [main |-> 0, head |-> 0] ELSE repo
  /\ UNCHANGED <<record, worktree, torn, containers, daemonVars, sha, lastRemoval, pushes>>

InsertApp(w) ==
  /\ pc[w] = "insert" /\ ~record
  /\ Ends(w)
  /\ record' = TRUE
  /\ UNCHANGED <<repo, worktree, torn, containers, daemonVars, lastRemoval, pushes>>

-----------------------------------------------------------------------------
(* Service.StartApp, StopApp, RestartApp, RestartService and ExecApp work on *)
(* the containers there are; RunApp also starts what its service needs.     *)
BeginOperation(w, k) ==
  /\ record /\ HasComposeFile
  /\ Start(w, k, "event")
  /\ UNCHANGED <<files, daemonVars, sha, lastRemoval, pushes>>

StartOrStop(w) == BeginOperation(w, "lifecycle")
Restart(w) == BeginOperation(w, "restart")
Exec(w) == BeginOperation(w, "exec")
RunOneOff(w) == BeginOperation(w, "run")

RecordStart(w) ==
  /\ Goto(w, "event", "env")
  /\ UNCHANGED <<files, daemonVars, sha, lastRemoval, pushes>>

(* ResolveRuntimeEnv: the revision is HEAD of the bare repository.          *)
RemoteMain == IF repo = None THEN 0 ELSE repo.main
CheckedOutCommit == IF repo = None THEN 0 ELSE repo.head
ResolveRuntimeEnv(w) ==
  /\ Goto(w, "env", "compose")
  /\ sha' = [sha EXCEPT ![w] = CheckedOutCommit]
  /\ UNCHANGED <<files, daemonVars, lastRemoval, pushes>>

RunCompose(w) ==
  /\ HasComposeFile
  /\ Goto(w, "compose", "outcome")
  /\ containers' =
       IF kind[w] = "run"
       THEN [commit |-> worktree, sha |-> sha[w], sure |-> ~torn /\ w \notin overtaken /\ repo # None]
       ELSE containers
  /\ UNCHANGED <<record, repo, worktree, torn, daemonVars, sha, lastRemoval, pushes>>

RecordOutcome(w) ==
  /\ pc[w] = "outcome"
  /\ Ends(w)
  /\ UNCHANGED <<files, daemonVars, lastRemoval, pushes>>

-----------------------------------------------------------------------------
(* StoreBackend.RemoveApp.  Without a row, it resumes a removal whose last   *)
(* event is not a success, and has only the routes left to do.              *)
BeginRemove(w) ==
  /\ record \/ lastRemoval \in {"started", "failed"}
  /\ Start(w, "remove", "audit")
  /\ UNCHANGED <<files, daemonVars, sha, lastRemoval, pushes>>

RemovalGoes(w, here, step) ==
  /\ Goto(w, here, step)
  /\ UNCHANGED <<daemonVars, sha, pushes>>

AuditLater(w) ==
  /\ RemovalGoes(w, "audit", IF record THEN "resolve" ELSE "reconcile")
  /\ UNCHANGED <<files, lastRemoval>>
BeginRemovalAudit(w) ==
  /\ RemovalGoes(w, "audit", IF record THEN "resolve" ELSE "reconcile")
  /\ lastRemoval' = "started"
  /\ UNCHANGED files

(* Events are redacted, then the Compose entry and environment resolved.    *)
ResolveEntry(w) ==
  /\ HasComposeFile
  /\ RemovalGoes(w, "resolve", "down")
  /\ UNCHANGED <<files, lastRemoval>>

ComposeDown(w) ==
  /\ HasComposeFile
  /\ RemovalGoes(w, "down", "remove repo")
  /\ containers' = None
  /\ UNCHANGED <<record, repo, worktree, torn, lastRemoval>>

RemoveRepo(w) ==
  /\ RemovalGoes(w, "remove repo", "remove worktree")
  /\ repo' = None
  /\ UNCHANGED <<record, worktree, torn, containers, lastRemoval>>

RemoveWorktree(w) ==
  /\ RemovalGoes(w, "remove worktree", "remove dir")
  /\ worktree' = None /\ torn' = FALSE
  /\ UNCHANGED <<record, repo, containers, lastRemoval>>

RemoveAppDir(w) ==
  /\ RemovalGoes(w, "remove dir", "delete")
  /\ repo' = None /\ worktree' = None /\ torn' = FALSE
  /\ UNCHANGED <<record, containers, lastRemoval>>

(* DeleteApp, which is an error for a row that is gone.                     *)
DeleteApp(w) ==
  /\ record
  /\ Goto(w, "delete", "reconcile")
  /\ record' = FALSE /\ queued' = 0
  /\ UNCHANGED <<repo, worktree, torn, containers, deploy, attempt, sha, lastRemoval, pushes>>

Reconcile(w) ==
  /\ RemovalGoes(w, "reconcile", "succeed")
  /\ UNCHANGED <<files, lastRemoval>>

RemovalSucceeds(w) ==
  /\ pc[w] = "succeed"
  /\ Ends(w)
  /\ lastRemoval' = "succeeded"
  /\ UNCHANGED <<files, daemonVars, pushes>>

(* A step that returns an error is followed by the event of the failure.    *)
RemovalStepFails(w) ==
  /\ pc[w] \in RemovalSteps \ {"audit", "succeed", "fail"}
  /\ RemovalGoes(w, pc[w], "fail")
  /\ UNCHANGED <<files, lastRemoval>>

(* RemoveAll or `compose down` that broke off half-way.                      *)
RemovalStepBreaksOff(w) ==
  /\ \/ /\ RemovalGoes(w, "remove repo", "fail") /\ repo' = None /\ UNCHANGED <<worktree, torn>>
     \/ /\ RemovalGoes(w, "remove worktree", "fail") /\ worktree # None
        /\ worktree' = 0 /\ torn' = FALSE /\ UNCHANGED repo
  /\ UNCHANGED <<record, containers, lastRemoval>>

RecordFailure(w) ==
  /\ pc[w] = "fail"
  /\ Ends(w)
  /\ lastRemoval' = "failed"
  /\ UNCHANGED <<files, daemonVars, pushes>>

-----------------------------------------------------------------------------
(* A push moves main and queues its attempt; there is one active attempt.   *)
Push ==
  /\ record /\ repo # None /\ pushes < MaxPushes
  /\ queued = 0 /\ deploy = "idle"
  /\ pushes' = pushes + 1
  /\ repo' = [repo EXCEPT !.main = pushes + 1]
  /\ queued' = pushes + 1
  /\ UNCHANGED <<record, worktree, torn, containers, deploy, attempt, commandVars, lastRemoval, overtaken, started>>

Overtakes == overtaken' = overtaken \cup {w \in Workers : pc[w] # "idle"}
DeployGoes(here, step) ==
  /\ deploy = here /\ deploy' = step
  /\ UNCHANGED <<commandVars, lastRemoval, bounds>>

Claim ==
  /\ queued # 0
  /\ DeployGoes("idle", "checkout")
  /\ Overtakes
  /\ attempt' = queued /\ queued' = 0
  /\ UNCHANGED files

(* LocalWorktreeCheckout makes the directory; git changes its files, then    *)
(* detaches HEAD.                                                           *)
CheckoutFiles ==
  /\ DeployGoes("checkout", "head")
  /\ repo # None
  /\ worktree' = attempt /\ torn' = TRUE
  /\ UNCHANGED <<record, repo, containers, queued, attempt, overtaken>>

CheckoutWithoutRepo ==
  /\ DeployGoes("checkout", "idle")
  /\ repo = None
  /\ worktree' = IF worktree = None THEN 0 ELSE worktree
  /\ attempt' = 0
  /\ UNCHANGED <<record, repo, torn, containers, queued, overtaken>>

DetachHead ==
  /\ DeployGoes("head", "up")
  /\ repo # None
  /\ repo' = [repo EXCEPT !.head = attempt] /\ torn' = FALSE
  /\ UNCHANGED <<record, worktree, containers, queued, attempt, overtaken>>

(* DockerRunner.deploy: its environment has the commit of the attempt.      *)
ComposeUp ==
  /\ DeployGoes("up", "idle")
  /\ HasComposeFile
  /\ containers' = [commit |-> worktree, sha |-> attempt, sure |-> TRUE]
  /\ attempt' = 0
  /\ UNCHANGED <<record, repo, worktree, torn, queued, overtaken>>

DeployStops ==
  /\ deploy # "idle"
  /\ DeployGoes(deploy, "idle")
  /\ attempt' = 0
  /\ UNCHANGED <<files, queued, overtaken>>

-----------------------------------------------------------------------------
Creates(w) ==
  \/ BeginCreate(w) \/ SetupBareRepo(w) \/ InsertApp(w)
Operates(w) ==
  \/ StartOrStop(w) \/ Restart(w) \/ Exec(w) \/ RunOneOff(w)
  \/ RecordStart(w) \/ ResolveRuntimeEnv(w) \/ RunCompose(w) \/ RecordOutcome(w)
Removes(w) ==
  \/ BeginRemove(w) \/ BeginRemovalAudit(w) \/ ResolveEntry(w) \/ ComposeDown(w)
  \/ RemoveRepo(w) \/ RemoveWorktree(w) \/ RemoveAppDir(w) \/ DeleteApp(w) \/ Reconcile(w)
  \/ RemovalSucceeds(w) \/ RemovalStepFails(w) \/ RemovalStepBreaksOff(w) \/ RecordFailure(w)
Deploys ==
  \/ Push \/ Claim \/ CheckoutFiles \/ CheckoutWithoutRepo \/ DetachHead \/ ComposeUp \/ DeployStops

Overlap == Busy({"remove"}) # {} /\ (deploy # "idle" \/ Busy({"create", "run"}) # {})

Next ==
  /\ \/ \E w \in Workers : Creates(w) \/ Operates(w) \/ Removes(w) \/ Stops(w)
     \/ Deploys
  /\ mixed' = (mixed \/ Overlap')

Spec == Init /\ [][Next]_vars

-----------------------------------------------------------------------------
(* A name without a row has no containers and no worktree, wherever removals *)
(* of it failed or died and however they overlapped: what comes before the   *)
(* row in RemoveApp is complete before the row goes.  Only what runs beside   *)
(* a removal (a deployment, `apps run`, a creation) can leave something.     *)
GoneAppRunsNothing == ~record /\ ~mixed => containers = None /\ worktree = None

(* An app that a removal has taken the repository from, and is still listed, *)
(* has a removal as its last word in the events that did not succeed: the    *)
(* operator is told, and no push finds it whole.                            *)
HalfRemovedIsTold == record /\ repo = None /\ ~mixed => lastRemoval \in {"started", "failed"}

(* A removal, wherever it broke off, has taken everything or says it has not. *)
RemovalIsWholeOrTold == GoneAppRunsNothing /\ HalfRemovedIsTold

(* Containers are created with the revision of the files they are created    *)
(* from as SSHDOCK_GIT_SHA, also when main is ahead: pushed and not deployed,*)
(* or deployed and failed on the way; unless a checkout or removal ran, or    *)
(* broke off, beside the command.                                           *)
RevisionIsBound ==
  containers # None /\ containers.sure /\ ~mixed => containers.sha = containers.commit

=============================================================================
