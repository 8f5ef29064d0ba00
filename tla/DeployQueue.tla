---------------------------- MODULE DeployQueue ----------------------------
(***************************************************************************)
(* Admission of deployments: a Git push reserves an attempt before remote  *)
(* main moves, queues it once main has moved, and the daemon claims queued *)
(* attempts one at a time.  Redeploy queues the commit that remote main    *)
(* held when the command looked.  Every transaction of internal/store is   *)
(* one step; everything between two transactions can interleave, crash or  *)
(* fail.                                                                    *)
(*                                                                         *)
(* Processes.  A session is one `sshdockd git-receive' process (the        *)
(* parent, which holds the app lock) and the git-receive-pack child it     *)
(* starts, whose hooks are `sshdockd git-hook' processes.  A redeployer is *)
(* one `apps redeploy' command.  The daemon is `sshdockd daemon'.          *)
(***************************************************************************)
EXTENDS Naturals, FiniteSetsExt

CONSTANTS
  Apps,          \* app names (the ID of an app is its name)
  Commits,       \* commits a client may push to main
  Sessions,      \* concurrent git-receive sessions
  Redeployers,   \* concurrent `apps redeploy' commands
  Daemon,        \* the lock owner standing for the daemon
  None,          \* no commit, no app, no lock owner
  MaxAttempts,   \* bound: deployment attempts ever created
  MaxFaults,     \* bound: killed processes and failed hook steps
  MaxLostWrites, \* bound: terminal status writes the store refuses
  AllowOrphans   \* may a killed receive leave git-receive-pack running?

ASSUME ConstantsAssumption ==
  /\ Daemon \notin Sessions
  /\ None \notin Sessions \cup Apps \cup Commits \cup {Daemon}
  /\ MaxAttempts \in Nat /\ MaxFaults \in Nat /\ MaxLostWrites \in Nat
  /\ AllowOrphans \in BOOLEAN

(* Attempts are numbered in the order of their insertion, which stands for *)
(* the order by started_at and id that every query of the store uses.      *)
Attempts == 1 .. MaxAttempts
NoAttempt == 0

VARIABLES
  main,       \* [Apps -> commit of refs/heads/main in the app's bare repository]
  appStatus,  \* [Apps -> status of the app record, "absent" without a record]
  appLock,    \* [Apps -> owner of locks/apps/<app>.lock]
  depApp, depCommit, depTrigger, \* columns of the deployments table, per attempt
  status,     \* column status; "none" before the insert, "discarded" after a delete
  accepted,   \* attempts with a git.ref_accepted event
  queued,     \* attempts with a deploy.queued event
  nextID,     \* the next attempt to be inserted
  rpc,        \* [Sessions -> step of the git-receive process]
  git,        \* [Sessions -> step of its git-receive-pack child]
  sapp,       \* [Sessions -> app pushed to]
  old, new,   \* [Sessions -> commit main was advertised at, commit pushed]
  before,     \* [Sessions -> nextID when the session listed the attempts]
  reserved,   \* [Sessions -> attempt its pre-receive hook reserved]
  target,     \* [Sessions -> attempt to be recorded as queued, or followed]
  redeploy,   \* [Redeployers -> app and commit resolved, or None]
  daemon,     \* step of the daemon
  todo,       \* attempts of the daemon's recovery list not yet handled
  current,    \* attempt the daemon is recovering or executing
  outcome,    \* outcome of the executed attempt
  landed,     \* history: attempts whose commit main has held since they exist
  faults,     \* faults so far
  lost        \* history: attempts whose terminal status write was refused

storeVars   == <<appStatus, depApp, depCommit, depTrigger, status, accepted, queued, nextID>>
sessionVars == <<rpc, git, sapp, old, new, before, reserved, target>>
daemonVars  == <<daemon, todo, current, outcome>>
vars == <<main, appLock, storeVars, sessionVars, redeploy, daemonVars, landed, faults, lost>>

AppStatus == {"absent", "created", "deploying", "healthy", "failed"}
AttemptStatus == {"none", "pending", "deploying", "succeeded", "failed", "discarded"}
ReceiveStep == {"idle", "receiving", "recovering", "finishing", "following", "dead"}
GitStep == {"none", "advertised", "reserved", "updated", "found", "exited", "killed"}
DaemonStep == {"down", "starting", "scanning", "checking", "guarded", "recovering",
               "executing", "recorded"}
Terminal == {"succeeded", "failed"}

TypeOK ==
  /\ main \in [Apps -> Commits \cup {None}]
  /\ appStatus \in [Apps -> AppStatus]
  /\ appLock \in [Apps -> Sessions \cup {Daemon, None}]
  /\ depApp \in [Attempts -> Apps \cup {None}]
  /\ depCommit \in [Attempts -> Commits \cup {None}]
  /\ depTrigger \in [Attempts -> {"none", "push", "redeploy"}]
  /\ status \in [Attempts -> AttemptStatus]
  /\ accepted \subseteq Attempts /\ queued \subseteq Attempts
  /\ nextID \in 1 .. MaxAttempts + 1
  /\ rpc \in [Sessions -> ReceiveStep]
  /\ git \in [Sessions -> GitStep]
  /\ sapp \in [Sessions -> Apps \cup {None}]
  /\ old \in [Sessions -> Commits \cup {None}]
  /\ new \in [Sessions -> Commits \cup {None}]
  /\ before \in [Sessions -> 0 .. MaxAttempts + 1]
  /\ reserved \in [Sessions -> Attempts \cup {NoAttempt}]
  /\ target \in [Sessions -> Attempts \cup {NoAttempt}]
  /\ redeploy \in [Redeployers -> (Apps \X Commits) \cup {<<None, None>>}]
  /\ daemon \in DaemonStep
  /\ todo \subseteq Attempts
  /\ current \in Attempts \cup {NoAttempt}
  /\ outcome \in Terminal \cup {"none"}
  /\ landed \subseteq Attempts
  /\ faults \in 0 .. MaxFaults
  /\ lost \subseteq Attempts

Init ==
  /\ main = [a \in Apps |-> None]
  /\ appStatus = [a \in Apps |-> "absent"]
  /\ appLock = [a \in Apps |-> None]
  /\ depApp = [i \in Attempts |-> None]
  /\ depCommit = [i \in Attempts |-> None]
  /\ depTrigger = [i \in Attempts |-> "none"]
  /\ status = [i \in Attempts |-> "none"]
  /\ accepted = {} /\ queued = {} /\ nextID = 1
  /\ rpc = [s \in Sessions |-> "idle"]
  /\ git = [s \in Sessions |-> "none"]
  /\ sapp = [s \in Sessions |-> None]
  /\ old = [s \in Sessions |-> None]
  /\ new = [s \in Sessions |-> None]
  /\ before = [s \in Sessions |-> 0]
  /\ reserved = [s \in Sessions |-> NoAttempt]
  /\ target = [s \in Sessions |-> NoAttempt]
  /\ redeploy = [r \in Redeployers |-> <<None, None>>]
  /\ daemon = "down" /\ todo = {} /\ current = NoAttempt /\ outcome = "none"
  /\ landed = {} /\ faults = 0 /\ lost = {}

-----------------------------------------------------------------------------
(* Queries of the store. *)

(* Rows whose status is pending or deploying. *)
IsActive(i) == status[i] \in {"pending", "deploying"}
ActiveOf(a) == {i \in Attempts : depApp[i] = a /\ IsActive(i)}

(* Pending push attempts without a deploy.queued event. *)
Unqueued == {i \in Attempts : status[i] = "pending" /\ depTrigger[i] = "push" /\ i \notin queued}

(* Pending attempts the daemon may claim. *)
ClaimableNoQueueCheck == {i \in Attempts : status[i] = "pending"}
Claimable == {i \in Attempts : status[i] = "pending" /\ i \in queued}
NewestClaimed == Max(Claimable)
NextClaimed == Min(Claimable)

(* The latest row of an app and commit. *)
OfCommit(a, c) == {i \in Attempts : depApp[i] = a /\ depCommit[i] = c
                                    /\ status[i] \notin {"none", "discarded"}}

(* A push may replace the active row i when it is a reservation for a      *)
(* commit other than the one the push starts from, and no event says that  *)
(* Git accepted it.                                                         *)
MayDiscardAcceptedToo(i, expected) ==
  /\ status[i] = "pending" /\ depTrigger[i] = "push" /\ depCommit[i] # expected
MayDiscardOwnBase(i, expected) ==
  /\ status[i] = "pending" /\ depTrigger[i] = "push"
  /\ i \notin accepted \cup queued
MayDiscard(i, expected) ==
  /\ status[i] = "pending"
  /\ depTrigger[i] = "push"
  /\ depCommit[i] # expected
  /\ i \notin accepted \cup queued

(* Whether the reservation transaction admits a new attempt, and the rows  *)
(* it deletes to do so.                                                     *)
Admits(a, trigger, expected) ==
  ActiveOf(a) # {} => trigger = "push" /\ MayDiscard(Min(ActiveOf(a)), expected)

DiscardsNothing(a, trigger) == {}
Discards(a, trigger) ==
  {i \in ActiveOf(a) : trigger = "push" /\ i = Min(ActiveOf(a))}

(* The reservation transaction: discard the active reservation, if any,    *)
(* insert the pending row, mark the app deploying and, for a redeploy,     *)
(* record the queue event.                                                  *)
Reserve(a, c, trigger, expected) ==
  /\ nextID \in Attempts
  /\ appStatus[a] # "absent"
  /\ Admits(a, trigger, expected)
  /\ status' = [i \in Attempts |->
                  IF i = nextID THEN "pending"
                  ELSE IF i \in Discards(a, trigger) THEN "discarded"
                  ELSE status[i]]
  /\ depApp' = [depApp EXCEPT ![nextID] = a]
  /\ depCommit' = [depCommit EXCEPT ![nextID] = c]
  /\ depTrigger' = [depTrigger EXCEPT ![nextID] = trigger]
  /\ appStatus' = [appStatus EXCEPT ![a] = "deploying"]
  /\ queued' = IF trigger = "redeploy" THEN queued \cup {nextID} ELSE queued
  /\ landed' = IF main[a] = c THEN landed \cup {nextID} ELSE landed
  /\ nextID' = nextID + 1
  /\ UNCHANGED accepted

(* RecordDeploymentQueued: both events together, whether or not the row    *)
(* still exists.                                                            *)
RecordQueued(i) ==
  /\ accepted' = accepted \cup {i}
  /\ queued' = queued \cup {i}
  /\ UNCHANGED <<appStatus, depApp, depCommit, depTrigger, status, nextID>>

Fault == faults < MaxFaults /\ faults' = faults + 1
NoFault == UNCHANGED faults

-----------------------------------------------------------------------------
(* git-receive: the parent process. *)

LockIsFree(a) == appLock[a] = None

(* AcquireApp, GetApp or createApp, InstallHooks and the list of attempts; *)
(* then git-receive-pack starts and advertises main.  A busy lock rejects  *)
(* the push without any effect.  A client pushes a commit main is not at.  *)
Receive(s, a, c) ==
  /\ rpc[s] = "idle"
  /\ LockIsFree(a)
  /\ c # main[a]
  /\ appLock' = [appLock EXCEPT ![a] = s]
  /\ appStatus' = [appStatus EXCEPT ![a] = IF @ = "absent" THEN "created" ELSE @]
  /\ rpc' = [rpc EXCEPT ![s] = "receiving"]
  /\ git' = [git EXCEPT ![s] = "advertised"]
  /\ sapp' = [sapp EXCEPT ![s] = a]
  /\ old' = [old EXCEPT ![s] = main[a]]
  /\ new' = [new EXCEPT ![s] = c]
  /\ before' = [before EXCEPT ![s] = nextID]
  /\ NoFault
  /\ UNCHANGED <<main, depApp, depCommit, depTrigger, status, accepted, queued, nextID,
                 reserved, target, redeploy, daemonVars, landed, lost>>

(* Recovery of the app's reservations looks for those whose commit is main *)
(* now; the lock makes that mean Git accepted them.                         *)
RecoverableWhateverMain(a) == {i \in Unqueued : depApp[i] = a /\ main[a] # None}
RecoverableUnlessMain(a) ==
  {i \in Unqueued : depApp[i] = a /\ main[a] # None /\ depCommit[i] # main[a]}
Recoverable(a) == {i \in Unqueued : depApp[i] = a /\ main[a] # None /\ depCommit[i] = main[a]}

(* recoverPendingDeployments, run by Receive after git-receive-pack ended: *)
(* list and resolve main ...                                                *)
ReceiveRecoverResolve(s) ==
  /\ rpc[s] = "receiving"
  /\ git[s] \in {"exited", "killed"}
  /\ \/ /\ Recoverable(sapp[s]) # {}
        /\ target' = [target EXCEPT ![s] = Min(Recoverable(sapp[s]))]
        /\ rpc' = [rpc EXCEPT ![s] = "recovering"]
     \/ /\ Recoverable(sapp[s]) = {}
        /\ target' = [target EXCEPT ![s] = NoAttempt]
        /\ rpc' = [rpc EXCEPT ![s] = "finishing"]
  /\ NoFault
  /\ UNCHANGED <<main, appLock, storeVars, git, sapp, old, new, before, reserved, redeploy,
                 daemonVars, landed, lost>>

(* ... and record the events of the attempt found. *)
ReceiveRecoverRecord(s) ==
  /\ rpc[s] = "recovering"
  /\ RecordQueued(target[s])
  /\ target' = [target EXCEPT ![s] = NoAttempt]
  /\ rpc' = [rpc EXCEPT ![s] = "finishing"]
  /\ NoFault
  /\ UNCHANGED <<main, appLock, git, sapp, old, new, before, reserved, redeploy,
                 daemonVars, landed, lost>>

(* acceptedDeploymentAfterReceive: push attempts that were not listed      *)
(* before the receive and have an accepted event.                           *)
AcceptedEver(s) == {i \in OfCommit(sapp[s], new[s]) : i \in accepted}
AcceptedSince(s) ==
  {i \in accepted : depApp[i] = sapp[s] /\ i >= before[s] /\ depTrigger[i] = "push"
                    /\ status[i] # "discarded"}

(* The receive releases its lock.  It follows the one attempt it created,  *)
(* unless git-receive-pack failed; more than one is an error.               *)
FinishReceive(s) ==
  /\ rpc[s] = "finishing"
  /\ appLock' = [appLock EXCEPT ![sapp[s]] = None]
  /\ rpc' = [rpc EXCEPT ![s] = "following"]
  /\ target' = [target EXCEPT ![s] =
                  IF git[s] = "exited" /\ \E i \in Attempts : AcceptedSince(s) = {i}
                  THEN Min(AcceptedSince(s)) ELSE NoAttempt]
  /\ NoFault
  /\ UNCHANGED <<main, storeVars, git, sapp, old, new, before, reserved, redeploy,
                 daemonVars, landed, lost>>

(* The slot of a finished session, forgotten for the next push. *)
Forget(s) ==
  /\ rpc' = [rpc EXCEPT ![s] = "idle"]
  /\ git' = [git EXCEPT ![s] = "none"]
  /\ sapp' = [sapp EXCEPT ![s] = None]
  /\ old' = [old EXCEPT ![s] = None]
  /\ new' = [new EXCEPT ![s] = None]
  /\ before' = [before EXCEPT ![s] = 0]
  /\ reserved' = [reserved EXCEPT ![s] = NoAttempt]
  /\ target' = [target EXCEPT ![s] = NoAttempt]

(* The client detaches, or the log it follows has ended. *)
Detach(s) ==
  /\ rpc[s] = "following"
  /\ Forget(s)
  /\ NoFault
  /\ UNCHANGED <<main, appLock, storeVars, redeploy, daemonVars, landed, lost>>

(* The parent is killed: the kernel drops its flock.  Its child dies with  *)
(* it, or stays behind and goes on.                                         *)
Unlocked(owner) == [a \in Apps |-> IF appLock[a] = owner THEN None ELSE appLock[a]]

KillReceive(s) ==
  /\ rpc[s] \in {"receiving", "recovering", "finishing"}
  /\ appLock' = Unlocked(s)
  /\ \/ Forget(s)
     \/ /\ AllowOrphans
        /\ git[s] \in {"advertised", "reserved", "updated", "found"}
        /\ rpc' = [rpc EXCEPT ![s] = "dead"]
        /\ UNCHANGED <<git, sapp, old, new, before, reserved, target>>
  /\ Fault
  /\ UNCHANGED <<main, storeVars, redeploy, daemonVars, landed, lost>>

(* The orphaned child has ended: nobody waits for it. *)
OrphanEnds(s) ==
  /\ rpc[s] = "dead"
  /\ git[s] \in {"exited", "killed"}
  /\ Forget(s)
  /\ NoFault
  /\ UNCHANGED <<main, appLock, storeVars, redeploy, daemonVars, landed, lost>>

-----------------------------------------------------------------------------
(* git-receive-pack: the child process and its hooks. *)

GitGoes(s, step) == git' = [git EXCEPT ![s] = step]

(* The pre-receive hook: PushQueueHandler.Queue reserves an attempt with   *)
(* the commit the push starts from as the expected one ...                  *)
PreReceive(s) ==
  /\ git[s] = "advertised"
  /\ Reserve(sapp[s], new[s], "push", old[s])
  /\ reserved' = [reserved EXCEPT ![s] = nextID]
  /\ GitGoes(s, "reserved")
  /\ NoFault
  /\ UNCHANGED <<main, appLock, rpc, sapp, old, new, before, target, redeploy,
                 daemonVars, lost>>

(* ... or rejects the push: another attempt is active, the refs pushed are *)
(* not exactly one update of main, or the store fails.                      *)
PreReceiveRejects(s) ==
  /\ git[s] = "advertised"
  /\ GitGoes(s, "exited")
  /\ NoFault
  /\ UNCHANGED <<main, appLock, storeVars, rpc, sapp, old, new, before, reserved, target,
                 redeploy, daemonVars, landed, lost>>

(* Git moves main if it is still where it was advertised. *)
Landing(a, c) == {i \in Attempts : depApp[i] = a /\ depCommit[i] = c /\ status[i] = "pending"}

UpdateRef(s) ==
  /\ git[s] = "reserved"
  /\ main[sapp[s]] = old[s]
  /\ main' = [main EXCEPT ![sapp[s]] = new[s]]
  /\ landed' = landed \cup Landing(sapp[s], new[s])
  /\ GitGoes(s, "updated")
  /\ NoFault
  /\ UNCHANGED <<appLock, storeVars, rpc, sapp, old, new, before, reserved, target, redeploy,
                 daemonVars, lost>>

(* Git refuses the update after the hook accepted it: main has moved, the  *)
(* object is no commit, or the ref cannot be written.                       *)
RefuseRef(s) ==
  /\ git[s] = "reserved"
  /\ GitGoes(s, "exited")
  /\ NoFault
  /\ UNCHANGED <<main, appLock, storeVars, rpc, sapp, old, new, before, reserved, target,
                 redeploy, daemonVars, landed, lost>>

(* The post-receive hook finds the latest attempt of the commit ... *)
PostReceiveFind(s) ==
  /\ git[s] = "updated"
  /\ \/ /\ OfCommit(sapp[s], new[s]) # {}
        /\ target' = [target EXCEPT ![s] = Max(OfCommit(sapp[s], new[s]))]
        /\ GitGoes(s, "found")
     \/ /\ OfCommit(sapp[s], new[s]) = {}
        /\ GitGoes(s, "exited")
        /\ UNCHANGED target
  /\ NoFault
  /\ UNCHANGED <<main, appLock, storeVars, rpc, sapp, old, new, before, reserved, redeploy,
                 daemonVars, landed, lost>>

(* ... and records its accepted and queued events. *)
PostReceiveRecord(s) ==
  /\ git[s] = "found"
  /\ RecordQueued(target[s])
  /\ target' = [target EXCEPT ![s] = NoAttempt]
  /\ GitGoes(s, "exited")
  /\ NoFault
  /\ UNCHANGED <<main, appLock, rpc, sapp, old, new, before, reserved, redeploy,
                 daemonVars, landed, lost>>

(* The hook fails on the store; Git does not mind. *)
PostReceiveFails(s) ==
  /\ git[s] \in {"updated", "found"}
  /\ target' = [target EXCEPT ![s] = NoAttempt]
  /\ GitGoes(s, "exited")
  /\ Fault
  /\ UNCHANGED <<main, appLock, storeVars, rpc, sapp, old, new, before, reserved, redeploy,
                 daemonVars, landed, lost>>

(* git-receive-pack and its hooks are killed; the parent goes on. *)
KillGit(s) ==
  /\ git[s] \in {"advertised", "reserved", "updated", "found"}
  /\ target' = [target EXCEPT ![s] = NoAttempt]
  /\ GitGoes(s, "killed")
  /\ Fault
  /\ UNCHANGED <<main, appLock, storeVars, rpc, sapp, old, new, before, reserved, redeploy,
                 daemonVars, landed, lost>>

-----------------------------------------------------------------------------
(* apps redeploy: resolve main, without the app lock, and queue an attempt *)
(* for that commit in one transaction.                                      *)
ResolveCurrentMain(r, a) ==
  /\ redeploy[r] = <<None, None>>
  /\ appStatus[a] # "absent"
  /\ main[a] # None
  /\ redeploy' = [redeploy EXCEPT ![r] = <<a, main[a]>>]
  /\ NoFault
  /\ UNCHANGED <<main, appLock, storeVars, sessionVars, daemonVars, landed, lost>>

QueueRedeployment(r) ==
  /\ redeploy[r] # <<None, None>>
  /\ Reserve(redeploy[r][1], redeploy[r][2], "redeploy", None)
  /\ redeploy' = [redeploy EXCEPT ![r] = <<None, None>>]
  /\ NoFault
  /\ UNCHANGED <<main, appLock, sessionVars, daemonVars, lost>>

(* The app has an active attempt, the store fails or the command is killed. *)
RedeployRejected(r) ==
  /\ redeploy[r] # <<None, None>>
  /\ redeploy' = [redeploy EXCEPT ![r] = <<None, None>>]
  /\ NoFault
  /\ UNCHANGED <<main, appLock, storeVars, sessionVars, daemonVars, landed, lost>>

-----------------------------------------------------------------------------
(* sshdockd daemon. *)

otherThanDaemon == <<main, depApp, depCommit, depTrigger, nextID, sessionVars, redeploy, landed>>

(* The process starts, or systemd restarts it, ... *)
StartDaemon ==
  /\ daemon = "down"
  /\ daemon' = "starting"
  /\ NoFault
  /\ UNCHANGED <<otherThanDaemon, appLock, appStatus, status, accepted, queued, todo, current,
                 outcome, lost>>

Deploying == {i \in Attempts : status[i] = "deploying"}

(* ... fails the attempts a former daemon was executing, ... *)
FailInterrupted ==
  /\ daemon = "starting"
  /\ Deploying # {}
  /\ status' = [status EXCEPT ![Min(Deploying)] = "failed"]
  /\ appStatus' = [appStatus EXCEPT ![depApp[Min(Deploying)]] = "failed"]
  /\ NoFault
  /\ UNCHANGED <<otherThanDaemon, appLock, accepted, queued, daemonVars, lost>>

(* ... and enters its loop. *)
Serve ==
  /\ daemon = "starting"
  /\ Deploying = {}
  /\ daemon' = "scanning"
  /\ NoFault
  /\ UNCHANGED <<otherThanDaemon, appLock, appStatus, status, accepted, queued, todo, current,
                 outcome, lost>>

(* RunOne lists the reservations to recover, without any lock, ... *)
ListUnqueued ==
  /\ daemon = "scanning"
  /\ daemon' = "checking"
  /\ todo' = Unqueued
  /\ NoFault
  /\ UNCHANGED <<otherThanDaemon, appLock, appStatus, status, accepted, queued, current,
                 outcome, lost>>

(* ... and for each takes the lock of its app, unless a push holds it, ... *)
GuardNext ==
  /\ daemon = "checking"
  /\ todo # {}
  /\ \/ /\ LockIsFree(depApp[Min(todo)])
        /\ appLock' = [appLock EXCEPT ![depApp[Min(todo)]] = Daemon]
        /\ current' = Min(todo)
        /\ daemon' = "guarded"
        /\ UNCHANGED todo
     \/ /\ appLock[depApp[Min(todo)]] # None
        /\ todo' = todo \ {Min(todo)}
        /\ UNCHANGED <<appLock, current, daemon>>
  /\ NoFault
  /\ UNCHANGED <<otherThanDaemon, appStatus, status, accepted, queued, outcome, lost>>

(* ... runs recoverPendingDeployments for the app: list again and resolve  *)
(* main ...                                                                 *)
RecoverResolve ==
  /\ daemon = "guarded"
  /\ \/ /\ Recoverable(depApp[current]) # {}
        /\ current' = Min(Recoverable(depApp[current]))
        /\ daemon' = "recovering"
        /\ UNCHANGED <<appLock, todo>>
     \/ /\ Recoverable(depApp[current]) = {}
        /\ appLock' = [appLock EXCEPT ![depApp[current]] = None]
        /\ todo' = todo \ {Min(todo)}
        /\ current' = NoAttempt
        /\ daemon' = "checking"
  /\ NoFault
  /\ UNCHANGED <<otherThanDaemon, appStatus, status, accepted, queued, outcome, lost>>

(* ... record the events, and release the lock. *)
RecoverRecord ==
  /\ daemon = "recovering"
  /\ accepted' = accepted \cup {current}
  /\ queued' = queued \cup {current}
  /\ appLock' = [appLock EXCEPT ![depApp[current]] = None]
  /\ todo' = todo \ {Min(todo)}
  /\ current' = NoAttempt
  /\ daemon' = "checking"
  /\ NoFault
  /\ UNCHANGED <<otherThanDaemon, appStatus, status, outcome, lost>>

(* ClaimNextPendingDeployment. *)
Claim ==
  /\ daemon = "checking"
  /\ todo = {}
  /\ \/ /\ Claimable # {}
        /\ current' = NextClaimed
        /\ status' = [status EXCEPT ![NextClaimed] = "deploying"]
        /\ daemon' = "executing"
     \/ /\ Claimable = {}
        /\ daemon' = "scanning"
        /\ UNCHANGED <<current, status>>
  /\ NoFault
  /\ UNCHANGED <<otherThanDaemon, appLock, appStatus, accepted, queued, todo, outcome, lost>>

(* Execute succeeds or fails and writes the app status first ... *)
AppStatusAfter(result) == IF result = "succeeded" THEN "healthy" ELSE "failed"

Execute(result) ==
  /\ daemon = "executing"
  /\ outcome' = result
  /\ appStatus' = [appStatus EXCEPT ![depApp[current]] = AppStatusAfter(result)]
  /\ daemon' = "recorded"
  /\ NoFault
  /\ UNCHANGED <<otherThanDaemon, appLock, status, accepted, queued, todo, current, lost>>

(* ... and the status of the attempt last; ... *)
Finish ==
  /\ daemon = "recorded"
  /\ status' = [status EXCEPT ![current] = outcome]
  /\ current' = NoAttempt
  /\ outcome' = "none"
  /\ daemon' = "scanning"
  /\ NoFault
  /\ UNCHANGED <<otherThanDaemon, appLock, appStatus, accepted, queued, todo, lost>>

(* ... a store that refuses that write leaves the attempt deploying while  *)
(* the loop goes on.                                                        *)
LoseFinish ==
  /\ daemon = "recorded"
  /\ Cardinality(lost) < MaxLostWrites
  /\ lost' = lost \cup {current}
  /\ current' = NoAttempt
  /\ outcome' = "none"
  /\ daemon' = "scanning"
  /\ NoFault
  /\ UNCHANGED <<otherThanDaemon, appLock, appStatus, status, accepted, queued, todo>>

(* The daemon dies at any point; its flock goes with it. *)
KillDaemon ==
  /\ daemon # "down"
  /\ daemon' = "down"
  /\ appLock' = Unlocked(Daemon)
  /\ todo' = {} /\ current' = NoAttempt /\ outcome' = "none"
  /\ Fault
  /\ UNCHANGED <<otherThanDaemon, appStatus, status, accepted, queued, lost>>

-----------------------------------------------------------------------------
(* Steps of the system, as opposed to clients and faults. *)
SessionStep(s) ==
  \/ ReceiveRecoverResolve(s) \/ ReceiveRecoverRecord(s) \/ FinishReceive(s) \/ Detach(s)
  \/ OrphanEnds(s)
GitChildStep(s) ==
  \/ PreReceive(s) \/ PreReceiveRejects(s) \/ UpdateRef(s) \/ RefuseRef(s)
  \/ PostReceiveFind(s) \/ PostReceiveRecord(s)
RedeployStep(r) == QueueRedeployment(r) \/ RedeployRejected(r)
DaemonStepTaken ==
  \/ StartDaemon \/ FailInterrupted \/ Serve \/ ListUnqueued \/ GuardNext
  \/ RecoverResolve \/ RecoverRecord \/ Claim
  \/ (\E result \in Terminal : Execute(result)) \/ Finish

Clients ==
  \/ \E s \in Sessions, a \in Apps, c \in Commits : Receive(s, a, c)
  \/ \E r \in Redeployers, a \in Apps : ResolveCurrentMain(r, a)

Faults ==
  \/ \E s \in Sessions : KillReceive(s) \/ KillGit(s) \/ PostReceiveFails(s)
  \/ LoseFinish \/ KillDaemon

Next ==
  \/ Clients \/ Faults
  \/ \E s \in Sessions : SessionStep(s) \/ GitChildStep(s)
  \/ \E r \in Redeployers : RedeployStep(r)
  \/ DaemonStepTaken

(* Every process that runs goes on; systemd restarts the daemon, and the   *)
(* executor is bounded by the deadlines of Compose.  Clients need not push, *)
(* and nothing fails because it must.                                       *)
Fairness ==
  /\ \A s \in Sessions : WF_vars(SessionStep(s)) /\ WF_vars(GitChildStep(s))
  /\ \A r \in Redeployers : WF_vars(RedeployStep(r))
  /\ WF_vars(DaemonStepTaken)

Spec == Init /\ [][Next]_vars
FairSpec == Spec /\ Fairness

-----------------------------------------------------------------------------
(* The phase of an attempt, as AttemptLifecycle sees it. *)
PhaseOf(i) ==
  IF status[i] # "pending" THEN status[i]
  ELSE IF i \in queued THEN "queued" ELSE "reserved"

Lifecycle == INSTANCE AttemptLifecycle WITH
  phase <- [i \in Attempts |-> PhaseOf(i)], owner <- depApp

(* The queue implements the abstract life of an attempt. *)
ImplementsLifecycle == Lifecycle!Spec

-----------------------------------------------------------------------------
(* Properties. *)

(* README.md:120, "SSHDock accepts only one pending or active deployment   *)
(* per app": no interleaving of pushes, redeploys, discards and recoveries  *)
(* leaves two rows of an app pending or deploying.                          *)
OneActivePerApp ==
  \A i, j \in Attempts :
    IsActive(i) /\ IsActive(j) /\ depApp[i] = depApp[j] => i = j

IsClaimed(i) == status[i] \in {"deploying", "succeeded", "failed"}

(* A push attempt is queued or deployed only if main really was at its      *)
(* commit after the reservation: neither the hook nor a recovery takes a    *)
(* reservation for an acceptance.                                           *)
QueuedPushWasAccepted ==
  \A i \in Attempts :
    depTrigger[i] = "push" /\ (IsClaimed(i) \/ (i \in queued /\ status[i] = "pending"))
      => i \in landed

(* README.md:116, "An accepted push records a durable pending deployment": *)
(* whatever main is at, an attempt for it exists.                           *)
AcceptedPushHasAttempt ==
  \A a \in Apps : main[a] # None => OfCommit(a, main[a]) # {}

(* Once no attempt of an app is active, the newest push attempt is the one  *)
(* for main: an older reservation is never finished after a newer push.     *)
PushRows(a) == {i \in Attempts : depApp[i] = a /\ depTrigger[i] = "push"
                                 /\ status[i] \notin {"none", "discarded"}}
NewestPushIsMain ==
  \A a \in Apps :
    ActiveOf(a) = {} /\ PushRows(a) # {} => depCommit[Max(PushRows(a))] = main[a]

(* A receive that follows a deployment follows the one its own pre-receive *)
(* hook reserved, although it picks it out of the tables by what is new.    *)
FollowsOwnAttempt ==
  \A s \in Sessions :
    rpc[s] = "following" /\ target[s] # NoAttempt => target[s] = reserved[s]

(* An attempt whose acceptance is recorded is never discarded by a later   *)
(* push, however stale it looks.                                            *)
AcceptedIsKept ==
  [][\A i \in Attempts :
       i \in accepted /\ status[i] # "discarded" => status'[i] # "discarded"]_vars

(* CLI_COMMANDS.md:309: an attempt that main accepted is recovered and     *)
(* executed to an end, whatever process died in between.                    *)
AcceptedAttemptFinishes ==
  \A i \in Attempts :
    (i \in landed /\ status[i] = "pending") ~> (status[i] \in Terminal)

=============================================================================
