------------------------------ MODULE Executor ------------------------------
(***************************************************************************)
(* The daemon's deployment executor: internal/deployment's Execute and     *)
(* FailInterrupted, with the loop of cmd/sshdockd around them.  Every write *)
(* of the store is a step of its own: the daemon can die between two of     *)
(* them, and the store can refuse each.  DeployQueue says how attempts come *)
(* to be queued; here they simply are.                                      *)
(***************************************************************************)
EXTENDS Naturals, FiniteSetsExt

CONSTANTS
  Apps, Commits, None,
  MaxAttempts,  \* bound: attempts ever queued
  MaxCrashes,   \* bound: times the daemon dies
  MaxRefusals   \* bound: store writes refused

ASSUME ExecutorAssumption ==
  /\ None \notin Apps \cup Commits
  /\ MaxAttempts \in Nat /\ MaxCrashes \in Nat /\ MaxRefusals \in Nat

Attempts == 1 .. MaxAttempts
NoAttempt == 0

VARIABLES
  status,     \* column status of the deployments table, per attempt
  depApp, depCommit, \* its columns app_id and commit_sha
  detail,     \* attempts whose error_message is not empty
  events,     \* [Attempts -> deploy.* events recorded after deploy.queued]
  release,    \* [Apps -> [Commits -> status of the release]]
  appStatus,  \* [Apps -> status of the app record]
  step,       \* next write of the daemon
  current,    \* attempt it executes or finalizes
  stored,     \* attempt.releaseStored of that attempt
  problem,    \* an error was joined to the outcome of that attempt
  todo,       \* attempts listed as interrupted and not yet finalized
  booting,    \* the daemon finalizes interrupted attempts, its loop has not begun
  routed,     \* history: attempts whose initial routing returned no error
  contained,  \* history: attempts whose containers Compose deployed
  returned,   \* history: attempts whose Execute returned after deploying them
  crashes, refusals

storeVars  == <<status, depApp, depCommit, detail, events, release, appStatus>>
daemonVars == <<step, current, stored, problem, todo, booting>>
historyVars == <<routed, contained, returned>>
vars == <<storeVars, daemonVars, historyVars, crashes, refusals>>

Terminal == {"succeeded", "failed"}
AttemptStatus == {"none", "pending", "deploying"} \cup Terminal
ReleaseStatus == {"absent", "deploying"} \cup Terminal
AppStatus == {"created", "deploying", "healthy", "failed"}
ExecuteSteps == {"load", "start", "checkout", "create release", "deploy", "route",
                 "mark release", "mark app", "success event", "finish"}
FailSteps == {"fail app", "fail event", "fail release", "fail attempt"}
Steps == {"down", "recover", "idle"} \cup ExecuteSteps \cup FailSteps

TypeOK ==
  /\ status \in [Attempts -> AttemptStatus]
  /\ depApp \in [Attempts -> Apps \cup {None}]
  /\ depCommit \in [Attempts -> Commits \cup {None}]
  /\ detail \subseteq Attempts
  /\ events \in [Attempts -> SUBSET {"started", "succeeded", "failed"}]
  /\ release \in [Apps -> [Commits -> ReleaseStatus]]
  /\ appStatus \in [Apps -> AppStatus]
  /\ step \in Steps
  /\ current \in Attempts \cup {NoAttempt}
  /\ stored \in BOOLEAN /\ problem \in BOOLEAN /\ booting \in BOOLEAN
  /\ todo \subseteq Attempts
  /\ routed \subseteq Attempts /\ contained \subseteq Attempts /\ returned \subseteq Attempts
  /\ crashes \in 0 .. MaxCrashes /\ refusals \in 0 .. MaxRefusals

Init ==
  /\ status = [i \in Attempts |-> "none"]
  /\ depApp = [i \in Attempts |-> None]
  /\ depCommit = [i \in Attempts |-> None]
  /\ detail = {}
  /\ events = [i \in Attempts |-> {}]
  /\ release = [a \in Apps |-> [c \in Commits |-> "absent"]]
  /\ appStatus = [a \in Apps |-> "created"]
  /\ step = "down" /\ current = NoAttempt
  /\ stored = FALSE /\ problem = FALSE /\ todo = {} /\ booting = FALSE
  /\ routed = {} /\ contained = {} /\ returned = {}
  /\ crashes = 0 /\ refusals = 0

-----------------------------------------------------------------------------
(* Writes. *)

Written == UNCHANGED refusals
Refused == refusals < MaxRefusals /\ refusals' = refusals + 1

ReleaseOf(i) == release[depApp[i]][depCommit[i]]
SetRelease(i, s) == release' = [release EXCEPT ![depApp[i]][depCommit[i]] = s]
SetAppUnlessHealthy(i, s) ==
  appStatus' = [appStatus EXCEPT ![depApp[i]] = IF @ = "healthy" THEN @ ELSE s]
SetApp(i, s) == appStatus' = [appStatus EXCEPT ![depApp[i]] = s]
SetStatus(i, s) == status' = [status EXCEPT ![i] = s]

(* An event's ID is made of the attempt and the type: a second one with the *)
(* same ID is refused by the primary key.                                   *)
AddEvent(i, e) == e \notin events[i] /\ events' = [events EXCEPT ![i] = @ \cup {e}]
EventRefused(i, e) == IF e \in events[i] THEN Written ELSE Refused

(* markReleaseStatusUnlessSucceeded. *)
WhateverItWas(i, s) == s
UnlessSucceeded(i, s) == IF ReleaseOf(i) = "succeeded" THEN "succeeded" ELSE s

IsActive(i) == status[i] \in {"pending", "deploying"}
Pending == {i \in Attempts : status[i] = "pending"}
Deploying == {i \in Attempts : status[i] = "deploying"}

-----------------------------------------------------------------------------
(* A push or redeploy of an app without an active attempt is queued; its   *)
(* transaction marks the app deploying.                                     *)
Queue(i, a, c) ==
  /\ status[i] = "none"
  /\ \A j \in Attempts : j < i => status[j] # "none"
  /\ \A j \in Attempts : IsActive(j) => depApp[j] # a
  /\ SetStatus(i, "pending")
  /\ depApp' = [depApp EXCEPT ![i] = a]
  /\ depCommit' = [depCommit EXCEPT ![i] = c]
  /\ appStatus' = [appStatus EXCEPT ![a] = "deploying"]
  /\ UNCHANGED <<detail, events, release, daemonVars, historyVars, crashes, refusals>>

-----------------------------------------------------------------------------
(* runDaemonContext lists the attempts a former daemon was executing ... *)
InterruptedStarted == {i \in Deploying : "started" \in events[i]}
Interrupted == Deploying

StartDaemon ==
  /\ step = "down"
  /\ step' = "recover" /\ booting' = TRUE
  /\ todo' = Interrupted
  /\ UNCHANGED <<storeVars, current, stored, problem, historyVars, crashes, refusals>>

(* ... and finalizes each as failed: FailInterrupted looks its release up. *)
FailInterrupted ==
  /\ step = "recover" /\ todo # {}
  /\ \/ /\ current' = Min(todo)
        /\ stored' = (ReleaseOf(Min(todo)) # "absent")
        /\ step' = "fail app"
        /\ Written /\ UNCHANGED <<todo, booting>>
     \/ /\ Refused
        /\ step' = "down" /\ todo' = {} /\ booting' = FALSE
        /\ UNCHANGED <<current, stored>>
  /\ UNCHANGED <<storeVars, problem, historyVars, crashes>>

Serve ==
  /\ step = "recover" /\ todo = {}
  /\ step' = "idle" /\ booting' = FALSE
  /\ UNCHANGED <<storeVars, current, stored, problem, todo, historyVars, crashes, refusals>>

(* RunOne finds nothing to claim: the loop waits for its ticker. *)
Poll ==
  /\ step = "idle" /\ Pending = {}
  /\ UNCHANGED vars

(* RunOne claims the oldest queued attempt and calls Execute. *)
Claim ==
  /\ step = "idle" /\ Pending # {}
  /\ current' = Min(Pending)
  /\ SetStatus(Min(Pending), "deploying")
  /\ stored' = FALSE /\ problem' = FALSE
  /\ step' = "load"
  /\ UNCHANGED <<depApp, depCommit, detail, events, release, appStatus, todo, booting,
                 historyVars, crashes, refusals>>

-----------------------------------------------------------------------------
(* Execute, up to the outcome of Compose. *)

(* The app and its release for the commit are loaded; a known release is   *)
(* marked deploying unless it succeeded before.                             *)
LoadRelease ==
  /\ step = "load"
  /\ \/ /\ IF ReleaseOf(current) = "absent"
           THEN UNCHANGED release
           ELSE SetRelease(current, UnlessSucceeded(current, "deploying"))
        /\ stored' = (ReleaseOf(current) # "absent")
        /\ step' = "start"
        /\ Written
     \/ /\ stored' \in {FALSE, ReleaseOf(current) # "absent"}
        /\ step' = "fail app"
        /\ Refused
        /\ UNCHANGED release
  /\ UNCHANGED <<status, depApp, depCommit, detail, events, appStatus, current, problem, todo,
                 booting, historyVars, crashes>>

RecordStart ==
  /\ step = "start"
  /\ \/ AddEvent(current, "started") /\ step' = "checkout" /\ Written
     \/ EventRefused(current, "started") /\ step' = "fail app" /\ UNCHANGED events
  /\ UNCHANGED <<status, depApp, depCommit, detail, release, appStatus, current, stored, problem,
                 todo, booting, historyVars, crashes>>

(* Checkout and detection of the Compose file. *)
Checkout ==
  /\ step = "checkout"
  /\ step' \in {IF stored THEN "deploy" ELSE "create release", "fail app"}
  /\ UNCHANGED <<storeVars, current, stored, problem, todo, booting, historyVars, crashes,
                 refusals>>

CreateRelease ==
  /\ step = "create release"
  /\ \/ SetRelease(current, "deploying") /\ stored' = TRUE /\ step' = "deploy" /\ Written
     \/ Refused /\ step' = "fail app" /\ UNCHANGED <<release, stored>>
  /\ UNCHANGED <<status, depApp, depCommit, detail, events, appStatus, current, problem, todo,
                 booting, historyVars, crashes>>

(* Config, validation and Compose itself. *)
Deploy ==
  /\ step = "deploy"
  /\ \/ step' = "route" /\ contained' = contained \cup {current}
     \/ step' = "fail app" /\ UNCHANGED contained
  /\ UNCHANGED <<storeVars, current, stored, problem, todo, booting, routed, returned, crashes,
                 refusals>>

-----------------------------------------------------------------------------
(* Execute, after the containers run: every write is tried, and errors are *)
(* joined.  The line for the deployment log is written with the event: it   *)
(* may be refused alone, which counts as an error too.                      *)
Route ==
  /\ step = "route"
  /\ \/ routed' = routed \cup {current} /\ UNCHANGED problem
     \/ problem' = TRUE /\ UNCHANGED routed
  /\ step' = "mark release"
  /\ UNCHANGED <<storeVars, current, stored, todo, booting, contained, returned, crashes,
                 refusals>>

MarkRelease ==
  /\ step = "mark release"
  /\ \/ SetRelease(current, "succeeded") /\ Written /\ UNCHANGED problem
     \/ Refused /\ problem' = TRUE /\ UNCHANGED release
  /\ step' = "mark app"
  /\ UNCHANGED <<status, depApp, depCommit, detail, events, appStatus, current, stored, todo,
                 booting, historyVars, crashes>>

MarkApp ==
  /\ step = "mark app"
  /\ \/ SetApp(current, "healthy") /\ Written /\ UNCHANGED problem
     \/ Refused /\ problem' = TRUE /\ UNCHANGED appStatus
  /\ step' = "success event"
  /\ UNCHANGED <<status, depApp, depCommit, detail, events, release, current, stored, todo,
                 booting, historyVars, crashes>>

RecordSuccess ==
  /\ step = "success event"
  /\ \/ AddEvent(current, "succeeded") /\ Written /\ UNCHANGED problem
     \/ AddEvent(current, "succeeded") /\ Refused /\ problem' = TRUE
     \/ EventRefused(current, "succeeded") /\ problem' = TRUE /\ UNCHANGED events
  /\ step' = "finish"
  /\ UNCHANGED <<status, depApp, depCommit, detail, release, appStatus, current, stored, todo,
                 booting, historyVars, crashes>>

(* The attempt's own status comes last, with the errors as its detail. *)
NoDetail == detail \ {current}
OutcomeDetail == IF problem THEN detail \cup {current} ELSE detail \ {current}
MarkSucceededUnlessProblem(i) ==
  IF problem THEN UNCHANGED <<status, detail>>
  ELSE SetStatus(i, "succeeded") /\ detail' = OutcomeDetail
MarkSucceeded(i) == SetStatus(i, "succeeded") /\ detail' = OutcomeDetail

FinishSuccess ==
  /\ step = "finish"
  /\ \/ MarkSucceeded(current) /\ Written
     \/ Refused /\ UNCHANGED <<status, detail>>
  /\ returned' = returned \cup {current}
  /\ current' = NoAttempt /\ stored' = FALSE /\ problem' = FALSE
  /\ step' = "idle"
  /\ UNCHANGED <<depApp, depCommit, events, release, appStatus, todo, booting, routed, contained,
                 crashes>>

-----------------------------------------------------------------------------
(* recordFailedAttempt, for Execute and for FailInterrupted. *)
FailApp ==
  /\ step = "fail app"
  /\ \/ SetApp(current, "failed") /\ Written /\ UNCHANGED problem
     \/ Refused /\ problem' = TRUE /\ UNCHANGED appStatus
  /\ step' = "fail event"
  /\ UNCHANGED <<status, depApp, depCommit, detail, events, release, current, stored, todo,
                 booting, historyVars, crashes>>

RecordFailure ==
  /\ step = "fail event"
  /\ \/ AddEvent(current, "failed") /\ Written /\ UNCHANGED problem
     \/ AddEvent(current, "failed") /\ Refused /\ problem' = TRUE
     \/ EventRefused(current, "failed") /\ problem' = TRUE /\ UNCHANGED events
  /\ step' = "fail release"
  /\ UNCHANGED <<status, depApp, depCommit, detail, release, appStatus, current, stored, todo,
                 booting, historyVars, crashes>>

FailRelease ==
  /\ step = "fail release"
  /\ \/ /\ IF stored THEN SetRelease(current, UnlessSucceeded(current, "failed"))
                     ELSE UNCHANGED release
        /\ Written /\ UNCHANGED problem
     \/ stored /\ Refused /\ problem' = TRUE /\ UNCHANGED release
  /\ step' = "fail attempt"
  /\ UNCHANGED <<status, depApp, depCommit, detail, events, appStatus, current, stored, todo,
                 booting, historyVars, crashes>>

(* The attempt becomes failed even when a write before it was refused.  An *)
(* error during recovery ends the daemon, which systemd restarts; in the    *)
(* loop it is only logged.                                                  *)
MarkFailed(i) == SetStatus(i, "failed") /\ detail' = detail \cup {i}

AfterFailure(wrong) ==
  IF ~ booting THEN "idle" ELSE IF wrong THEN "down" ELSE "recover"

FailAttempt ==
  /\ step = "fail attempt"
  /\ \/ MarkFailed(current) /\ Written /\ step' = AfterFailure(problem)
     \/ Refused /\ UNCHANGED <<status, detail>> /\ step' = AfterFailure(TRUE)
  /\ todo' = IF step' = "recover" THEN todo \ {current} ELSE {}
  /\ booting' = (step' = "recover")
  /\ current' = NoAttempt /\ stored' = FALSE /\ problem' = FALSE
  /\ UNCHANGED <<depApp, depCommit, events, release, appStatus, historyVars, crashes>>

-----------------------------------------------------------------------------
(* The daemon dies between two writes. *)
Crash ==
  /\ step # "down" /\ crashes < MaxCrashes
  /\ crashes' = crashes + 1
  /\ step' = "down" /\ current' = NoAttempt /\ stored' = FALSE /\ problem' = FALSE
  /\ todo' = {} /\ booting' = FALSE
  /\ UNCHANGED <<storeVars, historyVars, refusals>>

DaemonGoes ==
  \/ StartDaemon \/ FailInterrupted \/ Serve \/ Poll \/ Claim
  \/ LoadRelease \/ RecordStart \/ Checkout \/ CreateRelease \/ Deploy
  \/ Route \/ MarkRelease \/ MarkApp \/ RecordSuccess \/ FinishSuccess
  \/ FailApp \/ RecordFailure \/ FailRelease \/ FailAttempt

Next ==
  \/ \E i \in Attempts, a \in Apps, c \in Commits : Queue(i, a, c)
  \/ DaemonGoes
  \/ Crash

Spec == Init /\ [][Next]_vars

(* The daemon goes on, Compose is bounded by its deadlines, and systemd    *)
(* restarts a daemon that ended.                                            *)
FairSpec == Spec /\ WF_vars(DaemonGoes)

-----------------------------------------------------------------------------
(* Properties. *)

(* README.md:164, "A failed retry keeps any earlier success for that       *)
(* release": no retry, crash, recovery or refused write takes it away.      *)
EarlierSuccessIsKept ==
  [][\A a \in Apps, c \in Commits :
       release[a][c] = "succeeded" => release'[a][c] = "succeeded"]_vars

(* ADR 0002, "A terminal success is visible only after initial routing and *)
(* outcome persistence": an attempt shown as succeeded without an error     *)
(* detail was routed, and its release and its event are on record.          *)
CleanSuccessIsComplete ==
  \A i \in Attempts :
    status[i] = "succeeded" /\ i \notin detail =>
      /\ i \in routed
      /\ ReleaseOf(i) = "succeeded"
      /\ "succeeded" \in events[i]

(* When the loop is idle and an app has no active attempt, its status is   *)
(* the outcome of its latest attempt, whatever crashed on the way; only a   *)
(* refused write can leave it behind.                                       *)
EndedOf(a) == {i \in Attempts : depApp[i] = a /\ status[i] # "none"}
AppStatusIsLastOutcome ==
  step = "idle" /\ refusals = 0 =>
    \A a \in Apps :
      EndedOf(a) # {} /\ (\A i \in EndedOf(a) : ~ IsActive(i)) =>
        (appStatus[a] = "healthy" <=> status[Max(EndedOf(a))] = "succeeded")

(* README.md:164, "If containers deploy but outcome recording fails, the   *)
(* attempt stays succeeded with an error detail".  True up to one write: an *)
(* attempt that was deployed is shown as failed only where the store refused *)
(* a write, and one refusal costs one attempt its outcome at most.          *)
LostOutcomes == {i \in returned : status[i] = "failed"}
OutcomeIsLostByRefusal == Cardinality(LostOutcomes) <= refusals

(* README.md:120: a queued attempt always ends, executed or interrupted,   *)
(* unless the store refuses a write.                                        *)
QueuedAttemptEnds ==
  \A i \in Attempts : (status[i] = "pending") ~> (status[i] \in Terminal \/ refusals > 0)
=============================================================================
