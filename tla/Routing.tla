------------------------------- MODULE Routing -------------------------------
(***************************************************************************)
(* Public routes: the domains table says what is intended, the generated   *)
(* Caddyfile and the running Caddy follow it.  internal/router's Service    *)
(* attaches, detaches, adds an app's initial route and reconciles, each     *)
(* under the cross-process routes lock; `apps remove' deletes an app's      *)
(* domains without that lock and reconciles afterwards.  The store, Caddy   *)
(* and the process can each fail between any two steps.                     *)
(***************************************************************************)
EXTENDS Naturals, FiniteSets

CONSTANTS
  Apps,
  Endpoints,  \* public host and port; an app stands for its host under the base domain
  Forms,      \* schemes used in addresses, "https" among them
  Ports,      \* host ports of containers
  Workers,    \* commands and daemons that run at the same time
  Aliased,    \* apps an older version left with two rows for LegacyEndpoint
  LegacyEndpoint,
  None,
  MaxApplyFailures, \* bound: Caddy's refusals to validate or reload
  MaxDisturbances   \* bound: killed processes and store writes refused

ASSUME RoutingAssumption ==
  /\ Forms \subseteq {"https", "http"} /\ "https" \in Forms
  /\ Endpoints \cap (Endpoints \X Forms) = {}
  /\ Apps \subseteq Endpoints /\ Aliased \subseteq Apps
  /\ Aliased # {} => LegacyEndpoint \in Endpoints
  /\ None \notin Apps \cup Workers
  /\ MaxApplyFailures \in Nat /\ MaxDisturbances \in Nat

(* A canonical address is an endpoint and the scheme asked for: http on    *)
(* port 443 and https on port 443 are two addresses of one endpoint.        *)
Addresses == Endpoints \X Forms
SameAddress(x, y) == x = y
SameEndpoint(x, y) == x[1] = y[1]

(* Rows of the domains table.  Their IDs are made of app and endpoint; an  *)
(* older version made them of app and address.                              *)
RowIDs == Apps \X (Endpoints \cup Addresses)
Rows == [id : RowIDs, app : Apps, address : Addresses, port : Ports]

(* A route as Caddy gets it.  The app is not in the file; it is kept to say *)
(* whose route it is.                                                        *)
Routes == [app : Apps, address : Addresses, port : Ports]
RouteOf(r) == [app |-> r.app, address |-> r.address, port |-> r.port]
Config(rows) == {RouteOf(r) : r \in rows}

Operations == {"attach", "detach"}
Failures == [app : Apps, address : Addresses, operation : Operations]

VARIABLES
  apps,      \* rows of the apps table
  domains,   \* rows of the domains table
  failures,  \* rows of the route_apply_failures table
  removal,   \* [Apps -> the app's last remove.* event]
  file,      \* routes of the generated Caddyfile
  caddy,     \* routes Caddy serves
  lock,      \* owner of routes.lock
  pc,        \* [Workers -> next step]
  kind,      \* [Workers -> operation under way]
  app,       \* [Workers -> app it is about]
  row,       \* [Workers -> the domain model of an attach or a detach]
  plan,      \* [Workers -> addresses a detach has yet to delete]
  listed,    \* [Workers -> domains it listed to rebuild the routes]
  applyFailures, disturbances,
  recreated  \* history: apps created again after a removal had begun

storeVars  == <<apps, domains, failures, removal>>
caddyVars  == <<file, caddy>>
workerVars == <<pc, kind, app, row, plan, listed>>
counters   == <<applyFailures, disturbances, recreated>>
vars == <<storeVars, caddyVars, lock, workerVars, counters>>

Kinds == {"none", "attach", "detach", "initial", "remove"}
LockedSteps == {"attach", "detach", "rebuild", "write", "reload", "failed", "applied"}
Steps == {"idle", "remove", "reconcile", "succeed", "fail"} \cup LockedSteps
RemovalEvents == {"none", "started", "failed", "succeeded"}

TypeOK ==
  /\ apps \subseteq Apps
  /\ domains \subseteq Rows
  /\ failures \subseteq Failures
  /\ removal \in [Apps -> RemovalEvents]
  /\ file \subseteq Routes /\ caddy \subseteq Routes
  /\ lock \in Workers \cup {None}
  /\ pc \in [Workers -> Steps]
  /\ kind \in [Workers -> Kinds]
  /\ app \in [Workers -> Apps \cup {None}]
  /\ row \in [Workers -> Rows \cup {None}]
  /\ plan \in [Workers -> SUBSET Addresses]
  /\ listed \in [Workers -> SUBSET Rows]
  /\ applyFailures \in 0 .. MaxApplyFailures
  /\ disturbances \in 0 .. MaxDisturbances
  /\ recreated \subseteq Apps

(* A fresh host, or one with the rows an older version stored. *)
LegacyRow(a, x, p) == [id |-> <<a, x>>, app |-> a, address |-> x, port |-> p]

Init ==
  /\ apps = Aliased
  /\ \E p \in Ports :
       domains = {LegacyRow(a, <<LegacyEndpoint, f>>, p) : a \in Aliased, f \in Forms}
  /\ failures = {} /\ removal = [a \in Apps |-> "none"]
  /\ file = {} /\ caddy = {} /\ lock = None
  /\ pc = [w \in Workers |-> "idle"]
  /\ kind = [w \in Workers |-> "none"]
  /\ app = [w \in Workers |-> None]
  /\ row = [w \in Workers |-> None]
  /\ plan = [w \in Workers |-> {}]
  /\ listed = [w \in Workers |-> {}]
  /\ applyFailures = 0 /\ disturbances = 0 /\ recreated = {}

-----------------------------------------------------------------------------
Go(w, step) == pc' = [pc EXCEPT ![w] = step]

NoLock == TRUE
LockIsFree == lock = None
Take(w) == LockIsFree /\ lock' = w
Release(w) == lock' = None

Forgotten(w) ==
  /\ kind' = [kind EXCEPT ![w] = "none"]
  /\ app' = [app EXCEPT ![w] = None]
  /\ row' = [row EXCEPT ![w] = None]
  /\ plan' = [plan EXCEPT ![w] = {}]
  /\ listed' = [listed EXCEPT ![w] = {}]

(* The operation returns: it lets go of the lock, and a removal records    *)
(* how its rebuild ended.                                                    *)
Return(w, event) ==
  /\ Release(w)
  /\ IF kind[w] = "remove"
     THEN Go(w, event) /\ UNCHANGED <<kind, app, row, plan, listed>>
     ELSE Go(w, "idle") /\ Forgotten(w)

Disturbance == disturbances < MaxDisturbances /\ disturbances' = disturbances + 1
ApplyFailure == applyFailures < MaxApplyFailures /\ applyFailures' = applyFailures + 1

-----------------------------------------------------------------------------
(* Beginning an operation: the lock is taken, then the app and the domains *)
(* are read.  A rejected request changes nothing.                           *)

Claimants(x) == {r \in domains : SameEndpoint(r.address, x)}
RowsOf(a) == {r \in domains : r.app = a}

(* availableDomainID: no other app has the endpoint, and the app has it at *)
(* most once, whose ID is used again.                                        *)
Available(a, x) ==
  /\ \A r \in Claimants(x) : r.app = a
  /\ \A r, q \in Claimants(x) : r = q
DomainIDOfApp(a, x) == <<a, a>>
DomainID(a, x) ==
  IF Claimants(x) = {} THEN <<a, x[1]>> ELSE (CHOOSE r \in Claimants(x) : TRUE).id

Begin(w, k, a) ==
  /\ pc[w] = "idle"
  /\ kind' = [kind EXCEPT ![w] = k]
  /\ app' = [app EXCEPT ![w] = a]

BeginAttach(w, k, a, x, p) ==
  /\ Begin(w, k, a) /\ Take(w)
  /\ a \in apps
  /\ Available(a, x)
  /\ row' = [row EXCEPT ![w] = [id |-> DomainID(a, x), app |-> a, address |-> x, port |-> p]]
  /\ Go(w, "attach")
  /\ UNCHANGED <<storeVars, caddyVars, plan, listed, counters>>

Attach(w, a, x, p) == BeginAttach(w, "attach", a, x, p)

(* After a deployment: only an app without any route gets one, at its host *)
(* under the base domain.                                                    *)
IsRouted(a) == RowsOf(a) # {}
EnsureInitial(w, a, p) == ~ IsRouted(a) /\ BeginAttach(w, "initial", a, <<a, "https">>, p)

(* Every row of the app for the endpoint is to be deleted, however it was  *)
(* spelt.                                                                    *)
Detachable(a, x) == {r \in RowsOf(a) : SameEndpoint(r.address, x)}

Detach(w, a, x) ==
  /\ Begin(w, "detach", a) /\ Take(w)
  /\ a \in apps
  /\ \E r \in Detachable(a, x) : row' = [row EXCEPT ![w] = [r EXCEPT !.address = x]]
  /\ plan' = [plan EXCEPT ![w] = {r.address : r \in Detachable(a, x)}]
  /\ Go(w, "detach")
  /\ UNCHANGED <<storeVars, caddyVars, listed, counters>>

-----------------------------------------------------------------------------
(* Storing what is intended. *)

(* AttachDomain inserts the row, or updates the one with its ID, if the app *)
(* still exists.  The event that follows may be refused without any other   *)
(* effect than an error.                                                     *)
Upsert(w) == {r \in domains : r.id # row[w].id} \cup {row[w]}

StoreAttach(w) ==
  /\ pc[w] = "attach"
  /\ \/ /\ app[w] \in apps
        /\ domains' = Upsert(w)
        /\ Go(w, "rebuild")
        /\ UNCHANGED <<lock, kind, app, row, plan, listed, disturbances>>
     \/ /\ app[w] \notin apps
        /\ Return(w, "fail")
        /\ UNCHANGED <<domains, disturbances>>
     \/ /\ Disturbance
        /\ Return(w, "fail")
        /\ UNCHANGED domains
  /\ UNCHANGED <<apps, failures, removal, caddyVars, applyFailures, recreated>>

(* The rows are deleted one after the other; one that is gone, or a refused *)
(* deletion, ends the command at once.                                       *)
StoreDetach(w) ==
  /\ pc[w] = "detach"
  /\ \E x \in plan[w] :
       LET found == {r \in RowsOf(app[w]) : r.address = x} IN
       \/ /\ found # {}
          /\ domains' = domains \ found
          /\ plan' = [plan EXCEPT ![w] = @ \ {x}]
          /\ Go(w, IF plan[w] = {x} THEN "rebuild" ELSE "detach")
          /\ UNCHANGED <<lock, kind, app, row, listed, disturbances>>
       \/ /\ found = {}
          /\ Return(w, "fail")
          /\ UNCHANGED <<domains, disturbances>>
       \/ /\ Disturbance
          /\ Return(w, "fail")
          /\ UNCHANGED domains
  /\ UNCHANGED <<apps, failures, removal, caddyVars, applyFailures, recreated>>

-----------------------------------------------------------------------------
(* Applying it. *)

(* rebuild: list the domains; two rows for one endpoint are no snapshot to *)
(* apply.                                                                    *)
Ambiguous(rows) == \E r, q \in rows : r # q /\ SameEndpoint(r.address, q.address)

Rebuild(w) ==
  /\ pc[w] = "rebuild"
  /\ \/ /\ ~ Ambiguous(domains)
        /\ listed' = [listed EXCEPT ![w] = domains]
        /\ Go(w, "write")
     \/ /\ Ambiguous(domains)
        /\ Go(w, "failed")
        /\ UNCHANGED listed
  /\ UNCHANGED <<storeVars, caddyVars, lock, kind, app, row, plan, counters>>

(* SyncRoutes: a temporary file is validated and renamed over the Caddyfile *)
WriteConfig(w) ==
  /\ pc[w] = "write"
  /\ \/ file' = Config(listed[w]) /\ Go(w, "reload") /\ UNCHANGED applyFailures
     \/ ApplyFailure /\ Go(w, "failed") /\ UNCHANGED file
  /\ listed' = [listed EXCEPT ![w] = {}]
  /\ UNCHANGED <<storeVars, caddy, lock, kind, app, row, plan, disturbances, recreated>>

(* ... and Caddy reloads it, keeps what it serves, or reloads it although  *)
(* the command that asked it to was cancelled.                               *)
Reload(w) ==
  /\ pc[w] = "reload"
  /\ \/ caddy' = file /\ Go(w, "applied") /\ UNCHANGED applyFailures
     \/ ApplyFailure /\ Go(w, "failed") /\ caddy' \in {caddy, file}
  /\ UNCHANGED <<storeVars, file, lock, kind, app, row, plan, listed, disturbances, recreated>>

(* A failure is recorded under app and address; a reconciliation has no row *)
(* to record.                                                                *)
OperationOf(w) == IF kind[w] = "detach" THEN "detach" ELSE "attach"
FailureOf(w) == [app |-> app[w], address |-> row[w].address, operation |-> OperationOf(w)]
WithAttachFailure(w) ==
  IF kind[w] = "detach" THEN failures
  ELSE {f \in failures : f.app # app[w] \/ f.address # row[w].address} \cup {FailureOf(w)}
WithFailure(w) ==
  {f \in failures : f.app # app[w] \/ f.address # row[w].address} \cup {FailureOf(w)}

RecordFailure(w) ==
  /\ pc[w] = "failed"
  /\ \/ /\ failures' = IF kind[w] = "remove" THEN failures ELSE WithFailure(w)
        /\ UNCHANGED disturbances
     \/ kind[w] # "remove" /\ Disturbance /\ UNCHANGED failures
  /\ Return(w, "fail")
  /\ UNCHANGED <<apps, domains, removal, caddyVars, applyFailures, recreated>>

(* Success clears every failure there is, whichever app it is of. *)
ClearFailures(w) ==
  /\ pc[w] = "applied"
  /\ \/ failures' = {} /\ Return(w, "succeed") /\ UNCHANGED disturbances
     \/ Disturbance /\ Return(w, "fail") /\ UNCHANGED failures
  /\ UNCHANGED <<apps, domains, removal, caddyVars, applyFailures, recreated>>

-----------------------------------------------------------------------------
(* apps remove, as far as routes go. *)

Event(a, e) == removal' = [removal EXCEPT ![a] = e]

(* A known app is removed; for an unknown one whose last removal did not   *)
(* succeed, the rebuild is all that is left to do.                           *)
Remove(w, a) ==
  /\ Begin(w, "remove", a)
  /\ a \notin apps => removal[a] \in {"started", "failed"}
  /\ Event(a, "started")
  /\ Go(w, IF a \in apps THEN "remove" ELSE "reconcile")
  /\ UNCHANGED <<apps, domains, failures, caddyVars, lock, row, plan, listed, counters>>

(* Its containers and directories are removed, or not, and DeleteApp takes *)
(* its rows out of every table; the lock is not asked for.                   *)
DeleteApp(w) ==
  /\ pc[w] = "remove"
  /\ app[w] \in apps
  /\ apps' = apps \ {app[w]}
  /\ domains' = domains \ RowsOf(app[w])
  /\ failures' = {f \in failures : f.app # app[w]}
  /\ Go(w, "reconcile")
  /\ UNCHANGED <<removal, caddyVars, lock, kind, app, row, plan, listed, counters>>

RemoveFails(w) ==
  /\ pc[w] = "remove"
  /\ Go(w, "fail")
  /\ UNCHANGED <<storeVars, caddyVars, lock, kind, app, row, plan, listed, counters>>

Reconcile(w) ==
  /\ pc[w] = "reconcile"
  /\ Take(w)
  /\ Go(w, "rebuild")
  /\ UNCHANGED <<storeVars, caddyVars, kind, app, row, plan, listed, counters>>

(* The outcome of the removal is an event, which may be refused. *)
AuditedAsSuccess(step) == "succeeded"
AuditedAs(step) == IF step = "succeed" THEN "succeeded" ELSE "failed"

RecordRemoval(w) ==
  /\ pc[w] \in {"succeed", "fail"}
  /\ \/ Event(app[w], AuditedAs(pc[w])) /\ UNCHANGED disturbances
     \/ Disturbance /\ UNCHANGED removal
  /\ Go(w, "idle")
  /\ Forgotten(w)
  /\ UNCHANGED <<apps, domains, failures, caddyVars, lock, applyFailures, recreated>>

-----------------------------------------------------------------------------
(* Around it. *)

(* A push or `apps create' creates the app. *)
CreateApp(a) ==
  /\ a \notin apps
  /\ apps' = apps \cup {a}
  /\ recreated' = IF removal[a] = "none" THEN recreated ELSE recreated \cup {a}
  /\ UNCHANGED <<domains, failures, removal, caddyVars, lock, workerVars, applyFailures,
                 disturbances>>

(* Caddy starts again with the file it finds. *)
CaddyRestarts ==
  /\ caddy # file
  /\ caddy' = file
  /\ UNCHANGED <<storeVars, file, lock, workerVars, counters>>

(* A process dies; the kernel drops its lock. *)
Kill(w) ==
  /\ pc[w] # "idle"
  /\ Disturbance
  /\ Go(w, "idle") /\ Forgotten(w)
  /\ lock' = IF lock = w THEN None ELSE lock
  /\ UNCHANGED <<storeVars, caddyVars, applyFailures, recreated>>

Requests(w) ==
  \/ \E a \in Apps, x \in Addresses : Detach(w, a, x) \/ \E p \in Ports : Attach(w, a, x, p)
  \/ \E a \in Apps : Remove(w, a) \/ \E p \in Ports : EnsureInitial(w, a, p)

Works(w) ==
  \/ StoreAttach(w) \/ StoreDetach(w)
  \/ Rebuild(w) \/ WriteConfig(w) \/ Reload(w) \/ RecordFailure(w) \/ ClearFailures(w)
  \/ DeleteApp(w) \/ RemoveFails(w) \/ Reconcile(w) \/ RecordRemoval(w)

Next ==
  \/ \E w \in Workers : Requests(w) \/ Works(w) \/ Kill(w)
  \/ \E a \in Apps : CreateApp(a)
  \/ CaddyRestarts

Spec == Init /\ [][Next]_vars

-----------------------------------------------------------------------------
(* Properties. *)

SameHostAndPort(r, q) == r.address[1] = q.address[1]
OfApp(a, rows) == {r \in rows : r.app = a}

(* ADR 0003, "Different apps cannot claim the same endpoint": a row that is *)
(* stored shares its endpoint with no other row, not even one of its app,   *)
(* although the rows were listed in a step of its own and apps come and go. *)
EndpointsStayOwned ==
  [][\A r \in domains' \ domains, q \in domains' :
       SameHostAndPort(r, q) => r = q]_vars

(* ADR 0003, "New domain IDs preserve distinct addresses": a stored route  *)
(* disappears only because its own endpoint is attached again or detached,  *)
(* or its app removed; no attach replaces another row by reusing its ID.     *)
RoutesAreKept ==
  [][\A r \in domains \ domains' : \E w \in Workers :
       \/ pc[w] \in {"attach", "detach"} /\ app[w] = r.app /\ SameHostAndPort(r, row[w])
       \/ pc[w] = "remove" /\ app[w] = r.app]_vars

(* CLI_COMMANDS.md:561, "one operation cannot overwrite another app's newer *)
(* routes": a Caddyfile that is written holds every route intended then.    *)
NewestRoutesWritten == [][file' # file => Config(domains) \subseteq file']_vars

(* ADR 0003: the initial route never joins or replaces another route. *)
InitialRouteIsFirst ==
  [][\A w \in Workers :
       pc[w] = "attach" /\ kind[w] = "initial" /\ domains' # domains
         => OfApp(app[w], domains) = {}]_vars

(* ADR 0003, "recoverable routing failure state": when Caddy does not serve *)
(* what is intended, somebody is at it, a failure is on record, or the last *)
(* event of an app asks for its removal to be repeated.  A killed process   *)
(* or a refused write leaves no trace.                                      *)
Unfinished == {a \in Apps : removal[a] \in {"started", "failed"}}

StaleIsKnown ==
  caddy # Config(domains) /\ disturbances = 0 /\ recreated = {} /\ Aliased = {} =>
    \/ \E w \in Workers : pc[w] # "idle"
    \/ failures # {} \/ Unfinished # {}

(* CLI_COMMANDS.md:561, "repeating remove resumes a failed rebuild after   *)
(* the app record has already been deleted": as long as Caddy serves an app *)
(* that is no more, its removal is under way or can be repeated, whatever   *)
(* was killed or refused, unless the name was used again in the meantime.   *)
OrphanRouteIsResumable ==
  \A a \in Apps \ (apps \cup recreated) : OfApp(a, caddy) # {} => a \in Unfinished
=============================================================================
