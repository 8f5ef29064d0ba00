# A TLA+ verification of sshdock

sshdock is a single-host application platform: a Git push to a bare repository
queues a deployment, a daemon executes queued deployments with Docker Compose,
Caddy routes public addresses to the containers, and a CLI and a TUI operate it.
State is one SQLite database, a handful of files (locks, Caddy configuration,
`authorized_keys`, the config key), the bare Git repositories and Docker.
This directory models the parts whose correctness depends on the order of
steps, and checks and proves what they promise.

## 1. Inventory

Paths are relative to `src/`.

| Component | State it keeps | Operations | What is hard about it |
|---|---|---|---|
| **Git push admission** (`internal/gitrecv`, `internal/deploycoord`, `cmd/sshdockd/git_commands.go`) | remote `main` of each bare repository, the per-app lock file, reservations | `git-receive` (lock, create app, run `git-receive-pack`, recover, attach), the pre-receive and post-receive hooks | three processes per push, each of which can die; acceptance is Git's, the record of it the store's |
| **Deployment queue** (`internal/store/sqlite.go`, `sqlite_deployment_queue.go`) | tables `deployments`, `events`, `apps.status` | reserve (push or redeploy), record queued, claim, finish, fail | one active attempt per app; discarding a reservation nobody accepted, and only such a one |
| **Redeploy** (`internal/deployment/redeploy.go`) | - | resolve remote `main`, queue, wait | resolves and queues in two steps without a lock |
| **Daemon** (`cmd/sshdockd/daemon.go`, `gitrecv/queued_worker.go`, `pending_recovery.go`) | - | finalize interrupted attempts, then recover reservations, claim, execute, for ever | crashes in the middle of recovery; lists read without a lock |
| **Executor** (`internal/deployment/executor.go`, `route.go`) | tables `releases`, `deployments`, `events`, `apps` | Execute, FailInterrupted | five records of one outcome, written one by one, each can be refused or be the last |
| **Routing** (`internal/router`, `sqlite_route_failure.go`) | table `domains`, table of route failures, Caddyfile, Caddy's running configuration | attach, detach, initial route, reconcile | a store, a file and a running process that must agree; a lock not every writer takes |
| **App removal** (`internal/cli/store_backend_lifecycle.go`, `store_backend_remove_events.go`) | everything of an app | stop containers, delete records, delete directories, removal events | partial failure, retry, races with deployments |
| **App lifecycle** (`internal/app`) | containers, event table | stop, start, restart, service commands | the events of overlapping commands; containers shared with deployments |
| **Config and secrets** (`internal/appconfig`) | encrypted values, the key file | set, import, unset, resolve, create key | two first users creating the key |
| **SSH access** (`internal/sshaccess`, `store_backend_access.go`) | table `ssh_keys`, `authorized_keys` | add, remove | the file is rewritten from a list read before |
| **Deployment logs** (`store/deployment_log.go`, `gitrecv/deployment_log_stream.go`) | log table, bounded in size and number | append, retain, follow | truncation, the last bytes of a followed log |
| **Compose runner and redaction** (`internal/compose`) | containers | validate, pull, build, up, warnings, redact | secrets cut in two by a write |
| **Host backup** (`internal/backup/backup.go`) | archives, staging directory, data directory, Caddy files | create, inspect, restore | the data directory is removed before the restored one is in place |
| **Volume backup** (`internal/backup/volume*.go`) | volumes with an ownership label, helper containers, archives | export, restore, inspect | two operations of one volume name; a clean-up that can fail too |
| **TUI dashboard** (`internal/tui`) | the model of one update loop | keys, dialogs, commands and their messages | answers in any order, whatever dialog is open by then |
| **Operator commands** (`internal/cli`, `cmd/`) | - | restricted SSH commands, parsing, dispatch | quoting; what is the container's and what is sshdock's |
| **Checks** (`internal/compose/preflight*.go`, `internal/cli/store_backend_health.go`, `store_backend_domain_checks.go`, `internal/router/caddy_active.go`, `internal/diagnostics`) | - | preflight, domain check, app health, diagnostics | families of addresses, spellings of a route, what could not be read |
| **Names** (`internal/domain`) | - | validity, suggestion | lengths and cut-off |
| **Store schema, migrations, listings** (`internal/store`) | the schema | open, migrate, list | only creates what is missing, only reads |
| **Bootstrap and release scripts** (`scripts/`) | the host's files | install | outside the running program |

### How the parts interact

- Processes: `sshdockd daemon` (one), `sshdockd git-receive` with its child
  `git-receive-pack` and the hooks `sshdockd git-hook` it runs (one tree per
  push), and `sshdock` or operator commands (any number). They share nothing but
  the store, locks, files, Docker and Caddy.
- The per-app lock `locks/apps/<app>.lock` is taken without waiting by
  `git-receive` and by the daemon's recovery. `apps redeploy`, `apps remove` and
  the lifecycle commands do not take it.
- `locks/routes.lock` is polled every few milliseconds and held from the reading
  of intent to the recording of what became of it by attach, detach, initial
  routing and reconciliation. `apps remove` deletes domains without it.
- The store is SQLite: a statement or a transaction is atomic, nothing larger is.
- The executor calls routing at the end of a deployment; removal calls routing
  after it deleted the app. Deployments end in an app status, a release, events
  and a log, which the CLI and the TUI only read.

### What makes each part correct

- *Admission and queue*: one active attempt per app; an attempt is queued if, and
  only if, Git accepted its commit; an accepted push always has an attempt, which
  is never discarded and ends in the end.
- *Executor*: what is shown as a clean success is complete; an earlier success is
  never taken away; the app's status is the outcome of its latest attempt.
- *Routing*: an endpoint has one owner; no route disappears by somebody else's
  change; a written configuration never lacks a route; when Caddy differs from
  what is intended it is known, and can be repaired.
- *Removal*: it can be repeated from wherever it stopped, and nothing of the app
  is left when it succeeded.
- *SSH access*: the files end with the keys of the table.
- *Config*: all users of a host use one key, and no value is stored under another.
- *Logs*: a followed log is written without gaps or repetitions and to its end.
- *Redaction*: no secret passes, however the output is cut.
- *Dashboard*: what is on the screen belongs together, and a request is for the app
  on show, whatever order answers arrive in.
- *Checks* (preflight, domain check, health): a report says neither too much nor too
  little of what a deployment, Caddy or Docker would do.
- *Backups*: a restore either happened or left what was there; an operation only
  removes what it created.

## 2. Modules

| Module | Models | Uses |
|---|---|---|
| `DeployQueue` | push admission, the queue's transactions, redeploy, the daemon's recovery and claim | refines `AttemptLifecycle` |
| `AttemptLifecycle` | the abstract life of an attempt the queue promises | - |
| `Executor` | Execute and FailInterrupted, write by write | - |
| `Routing` | the routing service, Caddy, and `apps remove` as far as routes go | - |
| `AppOperations` | creation, lifecycle and service commands, removal, deployments of one app name | - |
| `DeploymentLog` | reservation of logs, appends, retention, followers | `LogText` |
| `OperatorCommands` | commands as processes, and the pause a backup asks for | - |
| `AppConfig`, `SSHAccess` | config values and the host key; SSH keys and their two files | `OperatorCommands` |
| `HostBackup` | backup and restore of the host's state, over the two above | `AppConfig`, `SSHAccess` |
| `VolumeBackup` | export and restore of a Docker volume, one docker command at a time | refines `VolumeOwnership` |
| `VolumeOwnership` | who may create and remove a volume | - |
| `Dashboard` | the update loop of the interactive dashboard | - |
| `LogText`, `HostArchive`, `VolumeArchive`, `ComposeChecks`, `RouteChecks`, `OperatorSSH`, `AppNames` | pure functions of the code | composed by `Algorithms` |
| `Algorithms` | what is true of those functions for every `input` | `MCAlgorithms` enumerates inputs |
| `*Proofs` | theorems | the module they are named after, and `AppOperationsProofs` and `DeploymentLogProofs` the parts of `Algorithms` |
| `MC*` | instances for TLC: symmetry, inputs | |

The modules do not share variables beyond this: each takes what another decides as
a nondeterministic choice of its environment (`Routing` creates apps whenever it
likes, `AppOperations` removes them without looking at routes). What does interact on
shared state is in one module: pushes, redeploys, recovery and claim; deployments,
commands and removals of one app; key files, values and their backup.

### DeployQueue

A *session* is one push. `rpc[s]` is where its `git-receive` process is, `git[s]`
where the `git-receive-pack` child and its hooks are; the two interleave, and
either can be killed alone.

| Code | Actions |
|---|---|
| `ReceivePackService.Receive`: lock, create the app, advertise | `Receive` |
| pre-receive hook, `PushQueueHandler.Queue`, `reserveDeployment` | `PreReceive`, `PreReceiveRejects` (`Reserve`, `Admits`, `Discards`) |
| Git's update of the ref | `UpdateRef`, `RefuseRef` |
| post-receive hook | `PostReceiveFind`, `PostReceiveRecord`, `PostReceiveFails` |
| `recoverPendingDeployments` after the receive | `ReceiveRecoverResolve`, `ReceiveRecoverRecord` |
| attachment to the accepted attempt, release of the lock, following | `FinishReceive`, `Detach` |
| killed processes | `KillReceive`, `KillGit`, `OrphanEnds`, `KillDaemon` |
| `RedeployCurrentMain` | `ResolveCurrentMain`, `QueueRedeployment`, `RedeployRejected` |
| `runDaemonContext`, `recoverInterruptedDeployments` | `StartDaemon`, `FailInterrupted`, `Serve` |
| `QueuedDeploymentWorker.recoverPending` | `ListUnqueued`, `GuardNext`, `RecoverResolve`, `RecoverRecord` |
| `RunOne`, `ClaimNextPendingDeployment` and the end of an execution | `Claim`, `Execute`, `Finish`, `LoseFinish` |

Rows of `deployments` are the functions `depApp`, `depCommit`, `depTrigger` and
`status` of the attempt's number. The number is the order of insertion and stands
for the order by `started_at, id` of every query. `accepted` and `queued` are the
attempts with a `git.ref_accepted` and a `deploy.queued` event. `landed`, `lost`
and `faults` are history. `AllowOrphans` says whether killing `git-receive` may
leave its child running, which `exec.CommandContext` does not prevent.

Abstracted: the list and the resolution of main in one recovery are one step,
since both are under the app lock; event wording, warnings and the log.

### Executor

`step` is the next write of the daemon. Every store write is an action with a
branch in which it happens and one in which the store refuses it (`Refused`);
`Crash` may come between any two. `LoadRelease` to `Deploy` are `Execute` up to
Compose's outcome, `Route` to `FinishSuccess` its end, `FailApp` to `FailAttempt`
are `recordFailedAttempt`, which `FailInterrupted` shares (`booting`). An event's
identity is attempt and type, so a repeated one is refused by the primary key.

Abstracted: checkout, detection, validation and Compose have only an outcome; the
log line of an event is refused with the event's action.

### Routing

A worker is a command or the daemon. `pc` is its next step; `kind`, `app`, `row`,
`plan` and `listed` are the local variables of the call it is in.

| Code | Actions |
|---|---|
| `Service.Attach`, `EnsureInitial`: lock, checks, ID | `Attach`, `EnsureInitial` (`BeginAttach`, `Available`, `DomainID`) |
| `Service.Detach`: lock, rows of the endpoint | `Detach` |
| `store.AttachDomain`, `DeleteDomainByAppAndName` | `StoreAttach`, `StoreDetach` |
| `rebuild`, `writeConfig`, `reload` | `Rebuild`, `WriteConfig`, `Reload` |
| `apply`'s recording, `clearFailures` | `RecordFailure`, `ClearFailures` |
| `RemoveApp`, `resumeRemoval` and the removal events | `Remove`, `RemoveFails`, `DeleteApp`, `Reconcile`, `RecordRemoval` |
| surroundings | `CreateApp`, `CaddyRestarts`, `Kill` |

An address is an endpoint (canonical host and port) with a scheme, which is what
`canonicalAddress` and `publicAddressKey` distinguish. A row's ID is app and
endpoint, as `availableDomainID` makes it, or app and address for rows of an older
version (`Aliased`). `caddy` is what Caddy serves, `file` the generated Caddyfile.

Abstracted: taking the lock, reading the app and listing the domains is one step,
since nothing else can attach meanwhile; a concurrent removal is caught by
`StoreAttach`. Domain and router events, whose refusal only adds an error, and
service names are left out. The last `remove.*` event is the last one written.

### AppOperations

One app name. A worker is a command: `create`, `lifecycle` (start, stop), `restart`,
`exec`, `run` or `remove`; the daemon's deployment of the same app goes on beside it
and no two of them share a lock.

| Code | Actions |
|---|---|
| `CreateApp`: check, `SetupBareRepo`, row | `BeginCreate`, `SetupBareRepo`, `InsertApp` |
| `Service.StartApp`, `StopApp`, `RestartApp`, `ExecApp`, `RunApp` | `StartOrStop`, `Restart`, `Exec`, `RunOneOff` (`BeginOperation`), `RecordStart`, `ResolveRuntimeEnv`, `RunCompose`, `RecordOutcome` |
| `StoreBackend.RemoveApp`, `resumeRemoval` | `BeginRemove`, `BeginRemovalAudit`, `ResolveEntry`, `ComposeDown`, `RemoveRepo`, `RemoveWorktree`, `RemoveAppDir`, `DeleteApp`, `Reconcile`, `RemovalSucceeds` |
| its errors | `RemovalStepFails`, `RemovalStepBreaksOff`, `RecordFailure` |
| push, claim, `LocalWorktreeCheckout`, `DockerRunner.deploy` | `Push`, `Claim`, `CheckoutFiles`, `CheckoutWithoutRepo`, `DetachHead`, `ComposeUp`, `DeployStops` |
| a killed process or an error | `Stops` |

`repo.head` is the HEAD `ResolveRuntimeEnv` reads, `repo.main` what a push moves,
`worktree` the commit of the files. `containers.sure` says that no checkout or
removal ran beside the command that made them, `mixed` that a removal ran beside
something that creates; both are history. Services of one project are one value.

### DeploymentLog and LogText

`log[a]` is the row of an attempt's log, `lines[a]` numbers its lines so that a gap
or a repetition shows. `Reserve`, `RecordQueued`, `Claim` and `RecordStatus` are the
store's transactions as far as logs go (`Retained`, `AppendLines`); `Append1` and
`Outcome` what the executor writes, either of which may be refused (`Unwritten`,
`FailsToAppend`, `StatusUnwritten`); `Crash`, `Restart` and the `Recover*` actions
the next start. A follower's `WriteLatest`, `Stream`, `DeploymentActive` and
`WriteLast` are the queries of one poll, in the order the code makes them. `LogText` has
the limit (`Appended`) and `RedactingWriter` (`Write`, `Flush`, `PendingLength`).

### OperatorCommands, AppConfig, SSHAccess, HostBackup

`AppConfig`: `BeginSet`, `StageKey`, `LinkKey`, `LoadKey`, `SealValue` are
`Service.Set` with `LoadOrCreateHostKey`; `Unset`; `BeginRead` with `Reveal` or
`ResolveEnv` and `Open` the reads. A cipher text is the key it was sealed with.
`SSHAccess`: the row (`AddSSHKey`, `RemoveSSHKey`), the list (`ListSSHKeys`), then each of
the two files truncated and written (`OpenGitFile` to `WriteOperatorFile`), so that two
writers can leave a file that is neither's (`mixed`). `HostBackup`: `BeginBackup`,
`PublishArchive`, `BackupFails` are `Create`; `BeginRestore`, `StageKept`, `RemoveData`,
`MoveData`, `OpenGenerated` to `WriteMain` and `EndRestore` are `Restore`, and each has
its way to break off (`BreaksOff`, `RemoveBreaksOff`, `MoveBreaksOff`, `CaddyBreaksOff`).
As `docs/INSTALL.md:525` asks, commands pause meanwhile, and a restore that broke
off is repeated before they go on.

### VolumeBackup

`pc[o]` is the next docker command of an operation. `CheckWriters` (twice, and
`LastCheck` after the copy) is `rejectVolumeWriters`, `InspectVolume`, `VolumeExists`,
`CreateVolume` and `Own` the claim of a volume, `StartHelper`, `HelperEnds`,
`ClientLosesHelper` and `CleanHelper` the helper container, `Stage` and `Publish` the
archive, `FindVolume`, `InspectOwner` and `RemoveOwnVolume` `cleanupVolume`. `ComposeUp`,
`AppWrites`, `ComposeStop`, `ComposeDown` and `OperatorRemoves` are the host between any
two. `VolumeOwnership` says what this amounts to: a volume is claimed only while its
name is free and given up only by the restore that claimed it, before it succeeds.

### Dashboard

Keys are `MoveSelection` to `Refresh` and, in a dialog, `CloseAction` to
`ExecuteRemoveConfirmation`; messages are `Refreshed`, `Acted`, `LogsRead` and
`FollowTick`. `commands` is the bag of commands under way, whose answers arrive in any
order and hold whatever the store held: any snapshot, or an error. `Load` is every branch
that ends in `loadSelectedLogs`. Rendering is left out, except which logs are on show.

### Pure functions

These theorems have no invariant to find: they state the properties of `Algorithms` for
any `input` a function can get, where the run `algorithms` tries all up to a bound. Their
hypotheses say what the functions get, and no more (`PreflightInput`, `RouteInput`,
`OperatorInput`, `IsArchiveInput`): ports with a host that Compose or Docker reports, lists of bindings, rows
a store may hold, attempts with an ID of their own, words of characters, entries of an
archive, a data directory on a disk. Every input of `MCAlgorithms` meets them.

Most of these functions go through a list. What such a loop has done is proved by taking
the smallest number of elements after which it would be wrong: the numbers are well
founded (`WFMin` over `NatLessThanWellFounded`), and one step more is a lemma of its own.
Folds are first unrolled into a function on prefixes (`FoldExists`, `FoldPrefixes`,
`IsUnfolding`).

- `PreflightReportsAreTrue`: `OverlapsAreSound` compares the addresses a port takes on
  hosts with and without dual stack (`TakenTogether`) with what the code calls an overlap.
  The status of a port is a maximum over the bindings before each prefix
  (`BindingsStepwise`), so their order does not matter; a listener is explained by a
  binding that covers it (`CoveredIsTaken`). The order of the checks is a finite table.
- `RowsAreReadBack`: a row is at one public port with one scheme, canonicalization changes
  neither (`CanonicalParts`), and a rejected pair of scheme and port is never written.
  So the sites that are read back are the rows' (`ActiveSites`), through the servers and
  the hosts each skips (`SchemeIsRead`), and spellings are compared case by case
  (`RecognisedKey`, `UnrecognisedKey`). It is stated for rows a store may hold
  (`AreStored`), older spellings included, that Caddy accepts (`Renderable`).
- `HealthyAppsAreServed`: there is one latest attempt (`LatestOfSucceeded`), by when it
  started and its ID, and it is the latest that succeeded.
- `OperatorWordsAreAlwaysKept`: the splitter is in one of a few states, each way to quote
  a character brings it back to where it was with that character read, and so a quoted
  word, and a list of them with spaces between, is read whole. A suggested name is cut
  off before its last alphanumeric character, which does not change when it is done again.
- `ArchivesAreSafe`: `path.Clean` is followed part by part (`CleanStepwise`). Of empty
  parts, dots and a name between them it keeps the name (`NamesAreClean`), which is what
  the trimming of `volumeEntryName` leaves (`EntriesAreBelowData`). A copy of entries is
  accepted as long as they grow a tree: what it has seen are the nodes so far, and the
  ancestors it keeps are those still missing (`Agreeing`, `TreeGrows`), so its sum is the
  number of nodes and inner nodes together; and what is no part of a tree does not become
  one (`PartOfTree`). What is packed takes the same turns again (`RepackedIsAccepted`).
  That an archive is accepted exactly when it is a tree is stated for entries
  with a name below `data/`, or a file in place of `data` (`TarNamed`): any other name
  is refused at once.
- A link of a host archive is refused exactly when one of its parts leads out
  (`LinksStayInside`): while none has, the cleaned target is as long as the directory and
  the steps down less those up, and once one has, it begins with `..` for good
  (`WhereNext`). So an archive is refused for a pipe or such a link only
  (`RestorableMeans`). For `RestoredTreesAreWhole` and `InspectCountsWhatIsPacked` a header
  names its node (`HeaderParts`), and of what is added nothing is in `data/`; they leave
  out an archive the destination names already, which the new one replaces, and the
  temporary file, whose predecessor was removed (`IsDestination`). A destination that is
  the database itself is excluded: the archive would lack it.
- `LogsAreCutOnce` is one step over the writes, with its beginning: the log
  of more output is the log of what there was with a piece appended.
- `OutputIsRedactedAsOne` is about any finite set of values, of texts of any length, whose
  characters are not the one that stands for `<redacted>` (`AreSecrets`). An order with
  the longest first exists (`OrderedExists`), so `Ordered` is one. What a replacement
  leaves is as it was before the first marker and behind the last (`TraceOfTurns`).
  Cut a text where no value lies across the cut: replacing a value in both parts is
  replacing it in the whole (`ReplaceConcat`), and no later value comes to lie across
  (`ApartStays`), so the same is true of all of them (`RedactConcat`). The writer cuts only
  there: what it holds back is the longest end that begins a value (`PendingMeans`), so a
  value across the cut is not one still to be completed, and if it is complete it ends as
  the value held back begins, which the hypothesis excludes (`CutIsClean`). Its invariant is that
  what is written, with what is held redacted, is the output so far redacted (`Holds`).
  `LogsAreSafe` puts this and `LogsOfPiecesAreCutOnce` together.

### Only model-checked

- Liveness (`AcceptedAttemptFinishes`, `QueuedAttemptEnds`, `FollowEnds`): the
  proof system does not reason about fairness.

Every other property of a run is stated by a theorem.

## 6. What is not modelled, and why

- *Store schema, migrations and listings*: the schema is what the tables of the
  modules are; migrations create what is missing, listings only read.
- *Bootstrap and release scripts*: installation of the host; only the restart policy of
  the daemon is used, as fairness.
- Partly modelled: of *Compose*, parsing and interpolation of Compose files and the wording
  of warnings are left out; of the *CLI*, the dispatch and presentation of commands
  modelled elsewhere; of the *dashboard*, rendering; of *diagnostics*, checks that each
  report one command or file; of *release, app and event records*, listings and
  wording; of the *configuration*, the environment and its defaults, which are constants.

Of those that are modelled:

- SQLite itself: a statement or a transaction is one atomic step, and one that is
  refused changes nothing. Busy time-outs are refusals.
- Git: `git-receive-pack` is its hooks and one compare-and-swap of `main`; other
  branches are rejected by the hook.
- Docker and Compose: a command succeeds or fails, as it likes, with its effect or
  without; it is atomic, a container list and its inspection included. What a docker
  client that was killed still brings about later is not modelled, and nobody
  removes a volume while an operation works on it.
- Caddy: validation or reload may fail, with the previous configuration served.
- Time: deadlines only decide which outcome an external command has. Logs are dropped in
  the order of attempts; the clock, by which the code orders them, does not go back.
- Loss of power with half written files: locks are released, and files replaced,
  whole, except `authorized_keys` and the Caddy files a restore writes, which are truncated
  first.
- Memory shared by goroutines: `compose config` writes through one `RedactingWriter` from
  two (`docker_runner.go:72`), whose outcomes are those of the Go memory model.

## 7. What could come next

- Removals beside deployments: an app lock taken by `apps remove` would let `mixed` go
  from the properties of `AppOperations`, and the routes lock taken by its deletion
  would let `recreated` go from `Routing`.
