---------------------------- MODULE RoutingProofs ----------------------------
(***************************************************************************)
(* What Routing promises, for every number of apps, endpoints, workers and *)
(* failures.  `apps remove' deletes domains without the routes lock, so the *)
(* arguments rest on this: while a worker holds the lock, everybody else can *)
(* only take rows away.                                                      *)
(***************************************************************************)
EXTENDS Routing, TLAPS

(* A worker in the middle of a change holds the lock, and knows what it    *)
(* works on.                                                                 *)
WorkerAgrees(w) ==
  /\ pc[w] \in LockedSteps => lock = w
  /\ pc[w] # "idle" => app[w] \in Apps
  /\ pc[w] \in {"remove", "reconcile", "succeed", "fail"} => kind[w] = "remove"
  /\ pc[w] \in {"attach", "detach"} => kind[w] # "remove"
  /\ pc[w] \in LockedSteps /\ kind[w] # "remove" =>
       row[w] \in Rows /\ row[w].app = app[w]

LockAgrees == \A w \in Workers : WorkerAgrees(w)

Typed == TypeOK /\ LockAgrees

(* Initially nothing is under way. *)
LEMMA InitTyped == Init => Typed
<1> SUFFICES ASSUME Init PROVE Typed
  OBVIOUS
<1>1. PICK p \in Ports :
        domains = {LegacyRow(a, <<LegacyEndpoint, f>>, p) : a \in Aliased, f \in Forms}
  BY DEF Init
<1>2. \A a \in Aliased, f \in Forms : LegacyRow(a, <<LegacyEndpoint, f>>, p) \in Rows
  <2> SUFFICES ASSUME NEW a \in Aliased, NEW f \in Forms
               PROVE  LegacyRow(a, <<LegacyEndpoint, f>>, p) \in Rows
    OBVIOUS
  <2>1. a \in Apps /\ <<LegacyEndpoint, f>> \in Addresses
    BY RoutingAssumption DEF Addresses
  <2> QED
    BY <2>1 DEF LegacyRow, Rows, RowIDs
<1>3. domains \subseteq Rows
  <2> SUFFICES ASSUME NEW r \in domains PROVE r \in Rows
    OBVIOUS
  <2>1. \E a \in Aliased, f \in Forms : r = LegacyRow(a, <<LegacyEndpoint, f>>, p)
    BY <1>1
  <2> QED
    BY <2>1, <1>2
<1> QED
  BY <1>3, RoutingAssumption
  DEF Init, Typed, TypeOK, LockAgrees, WorkerAgrees, RemovalEvents, Steps, LockedSteps, Kinds

(* The routes of rows are routes. *)
LEMMA ConfigTyped == \A rows : rows \subseteq Rows => Config(rows) \subseteq Routes
BY DEF Config, RouteOf, Rows, Routes

(* A reused ID is the ID of a row. *)
LEMMA DomainIDTyped ==
  ASSUME TypeOK, NEW a \in Apps, NEW x \in Addresses
  PROVE  DomainID(a, x) \in RowIDs
<1>1. CASE Claimants(x) = {}
  BY <1>1 DEF DomainID, RowIDs, Addresses
<1>2. CASE Claimants(x) # {}
  <2>1. (CHOOSE r \in Claimants(x) : TRUE) \in Rows
    BY <1>2 DEF Claimants, TypeOK
  <2> QED
    BY <1>2, <2>1 DEF DomainID, Rows
<1> QED
  BY <1>1, <1>2

(* Every action keeps the types. *)
LEMMA TypeStep == Typed /\ [Next]_vars => TypeOK'
<1> SUFFICES ASSUME Typed, [Next]_vars
             PROVE  TypeOK'
  OBVIOUS
<1> USE RoutingAssumption
    DEF Typed, TypeOK, LockAgrees, WorkerAgrees, vars, storeVars, caddyVars, workerVars, counters, Kinds,
        LockedSteps, Steps, RemovalEvents, Go, Release, Return, Forgotten, Disturbance,
        ApplyFailure
<1>1. ASSUME NEW w \in Workers, NEW a \in Apps, NEW x \in Addresses, NEW p \in Ports,
             Attach(w, a, x, p)
      PROVE  TypeOK'
  <2>1. [id |-> DomainID(a, x), app |-> a, address |-> x, port |-> p] \in Rows
    BY DomainIDTyped DEF Rows
  <2> QED
    BY <1>1, <2>1 DEF Attach, BeginAttach, Begin, Take, LockIsFree
<1>2. ASSUME NEW w \in Workers, NEW a \in Apps, NEW p \in Ports, EnsureInitial(w, a, p)
      PROVE  TypeOK'
  <2>1. <<a, "https">> \in Addresses
    BY DEF Addresses
  <2>2. [id |-> DomainID(a, <<a, "https">>), app |-> a, address |-> <<a, "https">>, port |-> p]
          \in Rows
    BY <2>1, DomainIDTyped DEF Rows
  <2> QED
    BY <1>2, <2>2 DEF EnsureInitial, BeginAttach, Begin, Take, LockIsFree
<1>3. ASSUME NEW w \in Workers, NEW a \in Apps, NEW x \in Addresses, Detach(w, a, x)
      PROVE  TypeOK'
  <2>1. \A r \in Detachable(a, x) : [r EXCEPT !.address = x] \in Rows
    BY DEF Detachable, RowsOf, Rows
  <2>2. {r.address : r \in Detachable(a, x)} \subseteq Addresses
    BY DEF Detachable, RowsOf, Rows
  <2> QED
    BY <1>3, <2>1, <2>2 DEF Detach, Begin, Take, LockIsFree
<1>4. ASSUME NEW w \in Workers, NEW a \in Apps, Remove(w, a)
      PROVE  TypeOK'
  BY <1>4 DEF Remove, Begin, Event
<1>5. ASSUME NEW w \in Workers, StoreAttach(w)
      PROVE  TypeOK'
  BY <1>5 DEF StoreAttach, Upsert
<1>6. ASSUME NEW w \in Workers, StoreDetach(w)
      PROVE  TypeOK'
  BY <1>6 DEF StoreDetach
<1>7. ASSUME NEW w \in Workers, Rebuild(w)
      PROVE  TypeOK'
  BY <1>7 DEF Rebuild
<1>8. ASSUME NEW w \in Workers, WriteConfig(w)
      PROVE  TypeOK'
  BY <1>8, ConfigTyped DEF WriteConfig
<1>9. ASSUME NEW w \in Workers, Reload(w)
      PROVE  TypeOK'
  BY <1>9 DEF Reload
<1>10. ASSUME NEW w \in Workers, RecordFailure(w)
      PROVE  TypeOK'
  <2>1. kind[w] # "remove" => FailureOf(w) \in Failures
    BY <1>10 DEF RecordFailure, FailureOf, OperationOf, Failures, Operations, Rows
  <2> QED
    BY <1>10, <2>1 DEF RecordFailure, WithFailure
<1>11. ASSUME NEW w \in Workers, ClearFailures(w)
      PROVE  TypeOK'
  BY <1>11 DEF ClearFailures
<1>12. ASSUME NEW w \in Workers, DeleteApp(w)
      PROVE  TypeOK'
  BY <1>12 DEF DeleteApp
<1>13. ASSUME NEW w \in Workers, RemoveFails(w)
      PROVE  TypeOK'
  BY <1>13 DEF RemoveFails
<1>14. ASSUME NEW w \in Workers, Reconcile(w)
      PROVE  TypeOK'
  BY <1>14 DEF Reconcile, Take, LockIsFree
<1>15. ASSUME NEW w \in Workers, RecordRemoval(w)
      PROVE  TypeOK'
  BY <1>15 DEF RecordRemoval, Event, AuditedAs
<1>16. ASSUME NEW w \in Workers, Kill(w)
      PROVE  TypeOK'
  BY <1>16 DEF Kill
<1>17. ASSUME NEW a \in Apps, CreateApp(a)
      PROVE  TypeOK'
  BY <1>17 DEF CreateApp
<1>18. ASSUME CaddyRestarts
      PROVE  TypeOK'
  BY <1>18 DEF CaddyRestarts
<1>19. ASSUME UNCHANGED vars
      PROVE  TypeOK'
  BY <1>19 DEF vars
<1> QED
  BY <1>1, <1>2, <1>3, <1>4, <1>5, <1>6, <1>7, <1>8, <1>9, <1>10, <1>11,
     <1>12, <1>13, <1>14, <1>15, <1>16, <1>17, <1>18, <1>19
  DEF Next, Requests, Works

(* Only the lock's owner is in the middle of a change. *)
LEMMA LockStep == Typed /\ [Next]_vars => LockAgrees'
<1> SUFFICES ASSUME Typed, [Next]_vars
             PROVE  LockAgrees'
  OBVIOUS
<1> USE RoutingAssumption
    DEF Typed, TypeOK, LockAgrees, WorkerAgrees, vars, storeVars, caddyVars, workerVars, counters,
        LockedSteps, Go, Release, Return, Forgotten
<1>1. ASSUME NEW w \in Workers, NEW a \in Apps, NEW x \in Addresses, NEW p \in Ports,
             Attach(w, a, x, p)
      PROVE  LockAgrees'
  <2>1. [id |-> DomainID(a, x), app |-> a, address |-> x, port |-> p] \in Rows
    BY DomainIDTyped DEF Rows
  <2> SUFFICES ASSUME NEW v \in Workers PROVE WorkerAgrees(v)'
    BY DEF LockAgrees
  <2>5. CASE v = w
    BY <1>1, <2>1, <2>5 DEF Attach, BeginAttach, Begin, Take, LockIsFree
  <2>6. CASE v # w
    BY <1>1, <2>6 DEF Attach, BeginAttach, Begin, Take, LockIsFree
  <2> QED
    BY <2>5, <2>6
<1>2. ASSUME NEW w \in Workers, NEW a \in Apps, NEW p \in Ports, EnsureInitial(w, a, p)
      PROVE  LockAgrees'
  <2>1. <<a, "https">> \in Addresses
    BY DEF Addresses
  <2>2. [id |-> DomainID(a, <<a, "https">>), app |-> a, address |-> <<a, "https">>, port |-> p]
          \in Rows
    BY <2>1, DomainIDTyped DEF Rows
  <2> SUFFICES ASSUME NEW v \in Workers PROVE WorkerAgrees(v)'
    BY DEF LockAgrees
  <2>5. CASE v = w
    BY <1>2, <2>2, <2>5 DEF EnsureInitial, BeginAttach, Begin, Take, LockIsFree
  <2>6. CASE v # w
    BY <1>2, <2>6 DEF EnsureInitial, BeginAttach, Begin, Take, LockIsFree
  <2> QED
    BY <2>5, <2>6
<1>3. ASSUME NEW w \in Workers, NEW a \in Apps, NEW x \in Addresses, Detach(w, a, x)
      PROVE  LockAgrees'
  <2>1. \A r \in Detachable(a, x) :
          [r EXCEPT !.address = x] \in Rows /\ [r EXCEPT !.address = x].app = a
    BY DEF Detachable, RowsOf, Rows
  <2> SUFFICES ASSUME NEW v \in Workers PROVE WorkerAgrees(v)'
    BY DEF LockAgrees
  <2>5. CASE v = w
    BY <1>3, <2>1, <2>5 DEF Detach, Begin, Take, LockIsFree
  <2>6. CASE v # w
    BY <1>3, <2>6 DEF Detach, Begin, Take, LockIsFree
  <2> QED
    BY <2>5, <2>6
<1>4. ASSUME NEW w \in Workers, NEW a \in Apps, Remove(w, a)
      PROVE  LockAgrees'
  BY <1>4 DEF Remove, Begin, Event
<1>5. ASSUME NEW w \in Workers, StoreAttach(w)
      PROVE  LockAgrees'
  BY <1>5 DEF StoreAttach
<1>6. ASSUME NEW w \in Workers, StoreDetach(w)
      PROVE  LockAgrees'
  BY <1>6 DEF StoreDetach
<1>7. ASSUME NEW w \in Workers, Rebuild(w)
      PROVE  LockAgrees'
  BY <1>7 DEF Rebuild
<1>8. ASSUME NEW w \in Workers, WriteConfig(w)
      PROVE  LockAgrees'
  BY <1>8 DEF WriteConfig
<1>9. ASSUME NEW w \in Workers, Reload(w)
      PROVE  LockAgrees'
  BY <1>9 DEF Reload
<1>10. ASSUME NEW w \in Workers, RecordFailure(w)
      PROVE  LockAgrees'
  BY <1>10 DEF RecordFailure
<1>11. ASSUME NEW w \in Workers, ClearFailures(w)
      PROVE  LockAgrees'
  BY <1>11 DEF ClearFailures
<1>12. ASSUME NEW w \in Workers, DeleteApp(w)
      PROVE  LockAgrees'
  BY <1>12 DEF DeleteApp
<1>13. ASSUME NEW w \in Workers, RemoveFails(w)
      PROVE  LockAgrees'
  BY <1>13 DEF RemoveFails
<1>14. ASSUME NEW w \in Workers, Reconcile(w)
      PROVE  LockAgrees'
  <2> SUFFICES ASSUME NEW v \in Workers PROVE WorkerAgrees(v)'
    BY DEF LockAgrees
  <2>5. CASE v = w
    BY <1>14, <2>5 DEF Reconcile, Take, LockIsFree
  <2>6. CASE v # w
    BY <1>14, <2>6 DEF Reconcile, Take, LockIsFree
  <2> QED
    BY <2>5, <2>6
<1>15. ASSUME NEW w \in Workers, RecordRemoval(w)
      PROVE  LockAgrees'
  BY <1>15 DEF RecordRemoval, Event
<1>16. ASSUME NEW w \in Workers, Kill(w)
      PROVE  LockAgrees'
  BY <1>16 DEF Kill
<1>17. ASSUME NEW a \in Apps, CreateApp(a)
      PROVE  LockAgrees'
  BY <1>17 DEF CreateApp
<1>18. ASSUME CaddyRestarts
      PROVE  LockAgrees'
  BY <1>18 DEF CaddyRestarts
<1>19. ASSUME UNCHANGED vars
      PROVE  LockAgrees'
  BY <1>19 DEF vars
<1> QED
  BY <1>1, <1>2, <1>3, <1>4, <1>5, <1>6, <1>7, <1>8, <1>9, <1>10, <1>11,
     <1>12, <1>13, <1>14, <1>15, <1>16, <1>17, <1>18, <1>19
  DEF Next, Requests, Works

(* The types and the lock discipline hold in every behaviour. *)
LEMMA AlwaysTyped == Spec => []Typed
<1>1. Typed /\ [Next]_vars => Typed'
  BY TypeStep, LockStep DEF Typed
<1> QED
  BY <1>1, InitTyped, PTL DEF Spec

(* Every table, file and process keeps its type, whatever is killed or     *)
(* refused: no path of Attach, Detach, EnsureInitial, Reconcile or apps     *)
(* remove records a failure or an event without the row it is about.        *)
THEOREM TypeCorrect == Spec => []TypeOK
<1>1. Typed => TypeOK
  BY DEF Typed
<1> QED
  BY <1>1, AlwaysTyped, PTL
-----------------------------------------------------------------------------
(* What a worker has chosen stays right until it is done: the rows of the  *)
(* endpoint it attaches have its ID, an initial route's app has no row, the *)
(* addresses it detaches are spellings of one endpoint, and what it writes  *)
(* holds every row there is.                                                 *)
IDAgrees(r) ==
  /\ r.id[1] = r.app
  /\ \/ r.id[2] = r.address[1]
     \/ \E f \in Forms : r.id[2] = <<r.address[1], f>>

Chosen(w) ==
  /\ pc[w] = "attach" =>
       /\ IDAgrees(row[w])
       /\ \A r \in domains : SameHostAndPort(r, row[w]) => r.id = row[w].id
  /\ pc[w] = "attach" /\ kind[w] = "initial" => OfApp(app[w], domains) = {}
  /\ pc[w] = "detach" => \A x \in plan[w] : x[1] = row[w].address[1]
  /\ pc[w] = "write" => domains \subseteq listed[w]

ChoicesAgree == \A w \in Workers : Chosen(w)
IDsAgree == \A r \in domains : IDAgrees(r)

Sound == Typed /\ IDsAgree /\ ChoicesAgree

(* Initially every ID is of the old kind and nothing is chosen. *)
LEMMA InitSound == Init => Sound
<1> SUFFICES ASSUME Init PROVE Sound
  OBVIOUS
<1>1. IDsAgree
  <2>1. PICK p \in Ports :
          domains = {LegacyRow(a, <<LegacyEndpoint, f>>, p) : a \in Aliased, f \in Forms}
    BY DEF Init
  <2> SUFFICES ASSUME NEW r \in domains PROVE IDAgrees(r)
    BY DEF IDsAgree
  <2>2. \E a \in Aliased, f \in Forms : r = LegacyRow(a, <<LegacyEndpoint, f>>, p)
    BY <2>1
  <2> QED
    BY <2>2 DEF LegacyRow, IDAgrees
<1>2. ChoicesAgree
  BY DEF Init, ChoicesAgree, Chosen
<1> QED
  BY <1>1, <1>2, InitTyped DEF Sound

(* An ID that two rows share names their app and endpoint. *)
LEMMA IDNamesEndpoint ==
  ASSUME NEW r \in Rows, NEW q \in Rows, IDAgrees(r), IDAgrees(q), r.id = q.id
  PROVE  r.app = q.app /\ SameHostAndPort(r, q)
<1>1. r.address[1] \in Endpoints /\ q.address[1] \in Endpoints
  BY DEF Rows, Addresses
<1>2. \A f \in Forms : r.address[1] # <<q.address[1], f>> /\ q.address[1] # <<r.address[1], f>>
  BY <1>1, RoutingAssumption
<1>3. r.address[1] = q.address[1]
  BY <1>2 DEF IDAgrees
<1> QED
  BY <1>3 DEF IDAgrees, SameHostAndPort

(* The domain model of an attach has the ID of every row of its endpoint,  *)
(* which is of either kind.                                                  *)
LEMMA ModelAgrees ==
  ASSUME Sound, NEW a \in Apps, NEW x \in Addresses, NEW p \in Ports, Available(a, x)
  PROVE  LET r == [id |-> DomainID(a, x), app |-> a, address |-> x, port |-> p] IN
         IDAgrees(r) /\ \A q \in domains : SameHostAndPort(q, r) => q.id = r.id
<1> DEFINE r == [id |-> DomainID(a, x), app |-> a, address |-> x, port |-> p]
<1>1. \A q \in domains : SameHostAndPort(q, r) <=> q \in Claimants(x)
  BY DEF SameHostAndPort, Claimants, SameEndpoint
<1>2. CASE Claimants(x) = {}
  BY <1>1, <1>2 DEF DomainID, IDAgrees
<1>3. CASE Claimants(x) # {}
  <2>1. PICK q \in Claimants(x) : q = (CHOOSE c \in Claimants(x) : TRUE)
    BY <1>3
  <2>2. q \in domains /\ q.app = a /\ q.address[1] = x[1] /\ \A c \in Claimants(x) : c = q
    BY DEF Available, Claimants, SameEndpoint
  <2>3. DomainID(a, x) = q.id
    BY <1>3, <2>1 DEF DomainID
  <2>4. IDAgrees(q)
    BY <2>2 DEF Sound, IDsAgree
  <2>5. IDAgrees(r)
    BY <2>2, <2>3, <2>4 DEF IDAgrees
  <2> QED
    BY <1>1, <2>2, <2>3, <2>5
<1> QED
  BY <1>2, <1>3

-----------------------------------------------------------------------------
(* Rows change in three ways: an attach stores its model, a detach deletes  *)
(* one of its addresses, a removal deletes its app.                          *)
Stored(w) == pc[w] = "attach" /\ app[w] \in apps /\ domains' = Upsert(w)
Detached(w) ==
  pc[w] = "detach" /\ \E x \in plan[w] :
    domains' = domains \ {r \in RowsOf(app[w]) : r.address = x}
Removed(w) == pc[w] = "remove" /\ domains' = domains \ RowsOf(app[w])

(* No other step touches the domains table. *)
LEMMA RowsChange ==
  [Next]_vars /\ domains' # domains =>
    \E w \in Workers : Stored(w) \/ Detached(w) \/ Removed(w)
<1> SUFFICES ASSUME [Next]_vars, domains' # domains
             PROVE  \E w \in Workers : Stored(w) \/ Detached(w) \/ Removed(w)
  OBVIOUS
<1> USE DEF vars, storeVars, caddyVars, workerVars, counters
<1>1. ASSUME NEW w \in Workers, NEW a \in Apps, NEW x \in Addresses, NEW p \in Ports,
             Attach(w, a, x, p)
      PROVE  \E v \in Workers : Stored(v) \/ Detached(v) \/ Removed(v)
  BY <1>1 DEF Attach, BeginAttach, Begin, Take, LockIsFree
<1>2. ASSUME NEW w \in Workers, NEW a \in Apps, NEW p \in Ports, EnsureInitial(w, a, p)
      PROVE  \E v \in Workers : Stored(v) \/ Detached(v) \/ Removed(v)
  BY <1>2 DEF EnsureInitial, BeginAttach, Begin, Take, LockIsFree
<1>3. ASSUME NEW w \in Workers, NEW a \in Apps, NEW x \in Addresses, Detach(w, a, x)
      PROVE  \E v \in Workers : Stored(v) \/ Detached(v) \/ Removed(v)
  BY <1>3 DEF Detach, Begin, Take, LockIsFree
<1>4. ASSUME NEW w \in Workers, NEW a \in Apps, Remove(w, a)
      PROVE  \E v \in Workers : Stored(v) \/ Detached(v) \/ Removed(v)
  BY <1>4 DEF Remove, Begin, Event
<1>5. ASSUME NEW w \in Workers, StoreAttach(w)
      PROVE  \E v \in Workers : Stored(v) \/ Detached(v) \/ Removed(v)
  BY <1>5 DEF StoreAttach, Stored
<1>6. ASSUME NEW w \in Workers, StoreDetach(w)
      PROVE  \E v \in Workers : Stored(v) \/ Detached(v) \/ Removed(v)
  BY <1>6 DEF StoreDetach, Detached
<1>7. ASSUME NEW w \in Workers, Rebuild(w)
      PROVE  \E v \in Workers : Stored(v) \/ Detached(v) \/ Removed(v)
  BY <1>7 DEF Rebuild
<1>8. ASSUME NEW w \in Workers, WriteConfig(w)
      PROVE  \E v \in Workers : Stored(v) \/ Detached(v) \/ Removed(v)
  BY <1>8 DEF WriteConfig
<1>9. ASSUME NEW w \in Workers, Reload(w)
      PROVE  \E v \in Workers : Stored(v) \/ Detached(v) \/ Removed(v)
  BY <1>9 DEF Reload
<1>10. ASSUME NEW w \in Workers, RecordFailure(w)
      PROVE  \E v \in Workers : Stored(v) \/ Detached(v) \/ Removed(v)
  BY <1>10 DEF RecordFailure
<1>11. ASSUME NEW w \in Workers, ClearFailures(w)
      PROVE  \E v \in Workers : Stored(v) \/ Detached(v) \/ Removed(v)
  BY <1>11 DEF ClearFailures
<1>12. ASSUME NEW w \in Workers, DeleteApp(w)
      PROVE  \E v \in Workers : Stored(v) \/ Detached(v) \/ Removed(v)
  BY <1>12 DEF DeleteApp, Removed
<1>13. ASSUME NEW w \in Workers, RemoveFails(w)
      PROVE  \E v \in Workers : Stored(v) \/ Detached(v) \/ Removed(v)
  BY <1>13 DEF RemoveFails
<1>14. ASSUME NEW w \in Workers, Reconcile(w)
      PROVE  \E v \in Workers : Stored(v) \/ Detached(v) \/ Removed(v)
  BY <1>14 DEF Reconcile, Take, LockIsFree
<1>15. ASSUME NEW w \in Workers, RecordRemoval(w)
      PROVE  \E v \in Workers : Stored(v) \/ Detached(v) \/ Removed(v)
  BY <1>15 DEF RecordRemoval, Event
<1>16. ASSUME NEW w \in Workers, Kill(w)
      PROVE  \E v \in Workers : Stored(v) \/ Detached(v) \/ Removed(v)
  BY <1>16 DEF Kill
<1>17. ASSUME NEW a \in Apps, CreateApp(a)
      PROVE  \E v \in Workers : Stored(v) \/ Detached(v) \/ Removed(v)
  BY <1>17 DEF CreateApp
<1>18. ASSUME CaddyRestarts
      PROVE  \E v \in Workers : Stored(v) \/ Detached(v) \/ Removed(v)
  BY <1>18 DEF CaddyRestarts
<1>19. ASSUME UNCHANGED vars
      PROVE  \E v \in Workers : Stored(v) \/ Detached(v) \/ Removed(v)
  BY <1>19 DEF vars
<1> QED
  BY <1>1, <1>2, <1>3, <1>4, <1>5, <1>6, <1>7, <1>8, <1>9, <1>10, <1>11,
     <1>12, <1>13, <1>14, <1>15, <1>16, <1>17, <1>18, <1>19
  DEF Next, Requests, Works

(* IDs keep naming what they name: rows are added by StoreAttach alone. *)
LEMMA IDsStep == Sound /\ [Next]_vars => IDsAgree'
<1> SUFFICES ASSUME Sound, [Next]_vars, NEW r \in domains' PROVE IDAgrees(r)
  BY DEF IDsAgree
<1>1. CASE r \in domains
  BY <1>1 DEF Sound, IDsAgree
<1>2. CASE r \notin domains
  <2>1. PICK w \in Workers : Stored(w)
    BY <1>2, RowsChange DEF Detached, Removed
  <2> QED
    BY <1>2, <2>1 DEF Sound, ChoicesAgree, Chosen, Stored, Upsert
<1> QED
  BY <1>1, <1>2

(* Nobody's choice is disturbed by a step that is not its own and adds no  *)
(* row.                                                                      *)
LEMMA Undisturbed ==
  ASSUME NEW v \in Workers, Chosen(v), domains' \subseteq domains,
         pc'[v] = pc[v], kind'[v] = kind[v], app'[v] = app[v], row'[v] = row[v],
         plan'[v] = plan[v], listed'[v] = listed[v]
  PROVE  Chosen(v)'
BY DEF Chosen, OfApp

(* No choice goes stale: all that others do while a worker holds the lock  *)
(* is to take rows away.                                                     *)
LEMMA ChoiceStep ==
  ASSUME Sound, [Next]_vars, NEW v \in Workers
  PROVE  Chosen(v)'
<1>0. Chosen(v) /\ TypeOK /\ (\A w \in Workers : pc[w] \in LockedSteps => lock = w)
  BY DEF Sound, ChoicesAgree, Typed, LockAgrees, WorkerAgrees
<1> USE DEF TypeOK, vars, storeVars, caddyVars, workerVars, counters, Go, Release, Return,
            Forgotten
<1>1. ASSUME NEW w \in Workers, NEW a \in Apps, NEW x \in Addresses, NEW p \in Ports,
             Attach(w, a, x, p)
      PROVE  Chosen(v)'
  <2>1. CASE v = w
    <3>1. Available(a, x) /\ domains' = domains /\ kind'[v] = "attach" /\ pc'[v] = "attach"
      BY <1>1, <1>0, <2>1 DEF Attach, BeginAttach, Begin
    <3>2. row'[v] = [id |-> DomainID(a, x), app |-> a, address |-> x, port |-> p]
      BY <1>1, <1>0, <2>1 DEF Attach, BeginAttach, Begin
    <3> QED
      BY <3>1, <3>2, ModelAgrees DEF Chosen
  <2>8. CASE v # w
    BY <1>1, <1>0, <2>8, Undisturbed DEF Attach, BeginAttach, Begin, Take, LockIsFree
  <2> QED
    BY <2>1, <2>8
<1>2. ASSUME NEW w \in Workers, NEW a \in Apps, NEW p \in Ports, EnsureInitial(w, a, p)
      PROVE  Chosen(v)'
  <2>1. CASE v = w
    <3> DEFINE x == <<a, "https">>
    <3>1. x \in Addresses /\ Available(a, x) /\ RowsOf(a) = {} /\ domains' = domains
      BY <1>2, RoutingAssumption DEF EnsureInitial, BeginAttach, IsRouted, Addresses
    <3>2. pc'[v] = "attach" /\ app'[v] = a
      BY <1>2, <1>0, <2>1 DEF EnsureInitial, BeginAttach, Begin
    <3>3. row'[v] = [id |-> DomainID(a, x), app |-> a, address |-> x, port |-> p]
      BY <1>2, <1>0, <2>1 DEF EnsureInitial, BeginAttach, Begin
    <3> QED
      BY <3>1, <3>2, <3>3, ModelAgrees DEF Chosen, OfApp, RowsOf
  <2>8. CASE v # w
    BY <1>2, <1>0, <2>8, Undisturbed
    DEF EnsureInitial, BeginAttach, Begin, Take, LockIsFree
  <2> QED
    BY <2>1, <2>8
<1>3. ASSUME NEW w \in Workers, NEW a \in Apps, NEW x \in Addresses, Detach(w, a, x)
      PROVE  Chosen(v)'
  <2>1. CASE v = w
    <3>1. pc'[v] = "detach" /\ \A y \in plan'[v] : y[1] = x[1]
      BY <1>3, <1>0, <2>1 DEF Detach, Begin, Detachable, SameEndpoint
    <3>2. row'[v].address = x
      BY <1>3, <1>0, <2>1 DEF Detach, Begin, Detachable, RowsOf, Rows
    <3> QED
      BY <3>1, <3>2 DEF Chosen
  <2>8. CASE v # w
    BY <1>3, <1>0, <2>8, Undisturbed DEF Detach, Begin, Take, LockIsFree
  <2> QED
    BY <2>1, <2>8
<1>4. ASSUME NEW w \in Workers, NEW a \in Apps, Remove(w, a)
      PROVE  Chosen(v)'
  <2>1. CASE v = w
    BY <1>4, <1>0, <2>1 DEF Chosen, Remove, Begin, Event
  <2>8. CASE v # w
    BY <1>4, <1>0, <2>8, Undisturbed DEF Remove, Begin, Event
  <2> QED
    BY <2>1, <2>8
<1>5. ASSUME NEW w \in Workers, StoreAttach(w)
      PROVE  Chosen(v)'
  <2>1. CASE v = w
    BY <1>5, <1>0, <2>1 DEF Chosen, StoreAttach
  <2>2. CASE v # w
    <3>1. pc[v] \notin {"attach", "detach", "write"}
      BY <1>5, <1>0, <2>2 DEF StoreAttach, LockedSteps
    <3> QED
      BY <1>5, <1>0, <2>2, <3>1 DEF Chosen, StoreAttach
  <2> QED
    BY <2>1, <2>2
<1>6. ASSUME NEW w \in Workers, StoreDetach(w)
      PROVE  Chosen(v)'
  <2>1. CASE v = w
    BY <1>6, <1>0, <2>1 DEF Chosen, StoreDetach
  <2>8. CASE v # w
    BY <1>6, <1>0, <2>8, Undisturbed DEF StoreDetach
  <2> QED
    BY <2>1, <2>8
<1>7. ASSUME NEW w \in Workers, Rebuild(w)
      PROVE  Chosen(v)'
  <2>1. CASE v = w
    BY <1>7, <1>0, <2>1 DEF Chosen, Rebuild
  <2>8. CASE v # w
    BY <1>7, <1>0, <2>8, Undisturbed DEF Rebuild
  <2> QED
    BY <2>1, <2>8
<1>8. ASSUME NEW w \in Workers, WriteConfig(w)
      PROVE  Chosen(v)'
  <2>1. CASE v = w
    BY <1>8, <1>0, <2>1 DEF Chosen, WriteConfig
  <2>8. CASE v # w
    BY <1>8, <1>0, <2>8, Undisturbed DEF WriteConfig
  <2> QED
    BY <2>1, <2>8
<1>9. ASSUME NEW w \in Workers, Reload(w)
      PROVE  Chosen(v)'
  <2>1. CASE v = w
    BY <1>9, <1>0, <2>1 DEF Chosen, Reload
  <2>8. CASE v # w
    BY <1>9, <1>0, <2>8, Undisturbed DEF Reload
  <2> QED
    BY <2>1, <2>8
<1>10. ASSUME NEW w \in Workers, RecordFailure(w)
      PROVE  Chosen(v)'
  <2>1. CASE v = w
    BY <1>10, <1>0, <2>1 DEF Chosen, RecordFailure
  <2>8. CASE v # w
    BY <1>10, <1>0, <2>8, Undisturbed DEF RecordFailure
  <2> QED
    BY <2>1, <2>8
<1>11. ASSUME NEW w \in Workers, ClearFailures(w)
      PROVE  Chosen(v)'
  <2>1. CASE v = w
    BY <1>11, <1>0, <2>1 DEF Chosen, ClearFailures
  <2>8. CASE v # w
    BY <1>11, <1>0, <2>8, Undisturbed DEF ClearFailures
  <2> QED
    BY <2>1, <2>8
<1>12. ASSUME NEW w \in Workers, DeleteApp(w)
      PROVE  Chosen(v)'
  <2>1. CASE v = w
    BY <1>12, <1>0, <2>1 DEF Chosen, DeleteApp
  <2>8. CASE v # w
    BY <1>12, <1>0, <2>8, Undisturbed DEF DeleteApp
  <2> QED
    BY <2>1, <2>8
<1>13. ASSUME NEW w \in Workers, RemoveFails(w)
      PROVE  Chosen(v)'
  <2>1. CASE v = w
    BY <1>13, <1>0, <2>1 DEF Chosen, RemoveFails
  <2>8. CASE v # w
    BY <1>13, <1>0, <2>8, Undisturbed DEF RemoveFails
  <2> QED
    BY <2>1, <2>8
<1>14. ASSUME NEW w \in Workers, Reconcile(w)
      PROVE  Chosen(v)'
  <2>1. CASE v = w
    BY <1>14, <1>0, <2>1 DEF Chosen, Reconcile, Take, LockIsFree
  <2>8. CASE v # w
    BY <1>14, <1>0, <2>8, Undisturbed DEF Reconcile, Take, LockIsFree
  <2> QED
    BY <2>1, <2>8
<1>15. ASSUME NEW w \in Workers, RecordRemoval(w)
      PROVE  Chosen(v)'
  <2>1. CASE v = w
    BY <1>15, <1>0, <2>1 DEF Chosen, RecordRemoval, Event
  <2>8. CASE v # w
    BY <1>15, <1>0, <2>8, Undisturbed DEF RecordRemoval, Event
  <2> QED
    BY <2>1, <2>8
<1>16. ASSUME NEW w \in Workers, Kill(w)
      PROVE  Chosen(v)'
  <2>1. CASE v = w
    BY <1>16, <1>0, <2>1 DEF Chosen, Kill
  <2>8. CASE v # w
    BY <1>16, <1>0, <2>8, Undisturbed DEF Kill
  <2> QED
    BY <2>1, <2>8
<1>17. ASSUME NEW a \in Apps, CreateApp(a)
      PROVE  Chosen(v)'
  BY <1>17, <1>0, Undisturbed DEF CreateApp
<1>18. ASSUME CaddyRestarts
      PROVE  Chosen(v)'
  BY <1>18, <1>0, Undisturbed DEF CaddyRestarts
<1>19. ASSUME UNCHANGED vars
      PROVE  Chosen(v)'
  BY <1>19, <1>0, Undisturbed
<1> QED
  BY <1>1, <1>2, <1>3, <1>4, <1>5, <1>6, <1>7, <1>8, <1>9, <1>10, <1>11,
     <1>12, <1>13, <1>14, <1>15, <1>16, <1>17, <1>18, <1>19
  DEF Next, Requests, Works

(* The Caddyfile changes in one way. *)
LEMMA FileChange ==
  [Next]_vars /\ file' # file =>
    \E w \in Workers : pc[w] = "write" /\ file' = Config(listed[w])
<1> SUFFICES ASSUME [Next]_vars, file' # file
             PROVE  \E w \in Workers : pc[w] = "write" /\ file' = Config(listed[w])
  OBVIOUS
<1> USE DEF vars, storeVars, caddyVars, workerVars, counters
<1>1. ASSUME NEW w \in Workers, NEW a \in Apps, NEW x \in Addresses, NEW p \in Ports,
             Attach(w, a, x, p)
      PROVE  \E v \in Workers : pc[v] = "write" /\ file' = Config(listed[v])
  BY <1>1 DEF Attach, BeginAttach, Begin, Take, LockIsFree
<1>2. ASSUME NEW w \in Workers, NEW a \in Apps, NEW p \in Ports, EnsureInitial(w, a, p)
      PROVE  \E v \in Workers : pc[v] = "write" /\ file' = Config(listed[v])
  BY <1>2 DEF EnsureInitial, BeginAttach, Begin, Take, LockIsFree
<1>3. ASSUME NEW w \in Workers, NEW a \in Apps, NEW x \in Addresses, Detach(w, a, x)
      PROVE  \E v \in Workers : pc[v] = "write" /\ file' = Config(listed[v])
  BY <1>3 DEF Detach, Begin, Take, LockIsFree
<1>4. ASSUME NEW w \in Workers, NEW a \in Apps, Remove(w, a)
      PROVE  \E v \in Workers : pc[v] = "write" /\ file' = Config(listed[v])
  BY <1>4 DEF Remove, Begin, Event
<1>5. ASSUME NEW w \in Workers, StoreAttach(w)
      PROVE  \E v \in Workers : pc[v] = "write" /\ file' = Config(listed[v])
  BY <1>5 DEF StoreAttach
<1>6. ASSUME NEW w \in Workers, StoreDetach(w)
      PROVE  \E v \in Workers : pc[v] = "write" /\ file' = Config(listed[v])
  BY <1>6 DEF StoreDetach
<1>7. ASSUME NEW w \in Workers, Rebuild(w)
      PROVE  \E v \in Workers : pc[v] = "write" /\ file' = Config(listed[v])
  BY <1>7 DEF Rebuild
<1>8. ASSUME NEW w \in Workers, WriteConfig(w)
      PROVE  \E v \in Workers : pc[v] = "write" /\ file' = Config(listed[v])
  BY <1>8 DEF WriteConfig
<1>9. ASSUME NEW w \in Workers, Reload(w)
      PROVE  \E v \in Workers : pc[v] = "write" /\ file' = Config(listed[v])
  BY <1>9 DEF Reload
<1>10. ASSUME NEW w \in Workers, RecordFailure(w)
      PROVE  \E v \in Workers : pc[v] = "write" /\ file' = Config(listed[v])
  BY <1>10 DEF RecordFailure
<1>11. ASSUME NEW w \in Workers, ClearFailures(w)
      PROVE  \E v \in Workers : pc[v] = "write" /\ file' = Config(listed[v])
  BY <1>11 DEF ClearFailures
<1>12. ASSUME NEW w \in Workers, DeleteApp(w)
      PROVE  \E v \in Workers : pc[v] = "write" /\ file' = Config(listed[v])
  BY <1>12 DEF DeleteApp
<1>13. ASSUME NEW w \in Workers, RemoveFails(w)
      PROVE  \E v \in Workers : pc[v] = "write" /\ file' = Config(listed[v])
  BY <1>13 DEF RemoveFails
<1>14. ASSUME NEW w \in Workers, Reconcile(w)
      PROVE  \E v \in Workers : pc[v] = "write" /\ file' = Config(listed[v])
  BY <1>14 DEF Reconcile, Take, LockIsFree
<1>15. ASSUME NEW w \in Workers, RecordRemoval(w)
      PROVE  \E v \in Workers : pc[v] = "write" /\ file' = Config(listed[v])
  BY <1>15 DEF RecordRemoval, Event
<1>16. ASSUME NEW w \in Workers, Kill(w)
      PROVE  \E v \in Workers : pc[v] = "write" /\ file' = Config(listed[v])
  BY <1>16 DEF Kill
<1>17. ASSUME NEW a \in Apps, CreateApp(a)
      PROVE  \E v \in Workers : pc[v] = "write" /\ file' = Config(listed[v])
  BY <1>17 DEF CreateApp
<1>18. ASSUME CaddyRestarts
      PROVE  \E v \in Workers : pc[v] = "write" /\ file' = Config(listed[v])
  BY <1>18 DEF CaddyRestarts
<1>19. ASSUME UNCHANGED vars
      PROVE  \E v \in Workers : pc[v] = "write" /\ file' = Config(listed[v])
  BY <1>19 DEF vars
<1> QED
  BY <1>1, <1>2, <1>3, <1>4, <1>5, <1>6, <1>7, <1>8, <1>9, <1>10, <1>11,
     <1>12, <1>13, <1>14, <1>15, <1>16, <1>17, <1>18, <1>19
  DEF Next, Requests, Works

(* The typed state and the choices of its workers hold in every behaviour. *)
LEMMA AlwaysSound == Spec => []Sound
<1>1. Sound /\ [Next]_vars => Sound'
  BY TypeStep, LockStep, IDsStep, ChoiceStep DEF Sound, Typed, ChoicesAgree
<1> QED
  BY <1>1, InitSound, PTL DEF Spec

(* Whatever commands run at once, a stored route shares its endpoint with  *)
(* no other row: the check Service.Attach makes on rows it has listed is    *)
(* still good when store.AttachDomain runs.                                  *)
THEOREM StoredEndpointsStayOwned == Spec => EndpointsStayOwned
<1>1. ASSUME Sound, [Next]_vars, NEW r \in domains' \ domains, NEW q \in domains',
             SameHostAndPort(r, q)
      PROVE  r = q
  <2>1. PICK w \in Workers : Stored(w)
    BY <1>1, RowsChange DEF Detached, Removed
  <2>2. r = row[w] /\ ((q \in domains /\ q.id # row[w].id) \/ q = row[w])
    BY <1>1, <2>1 DEF Stored, Upsert
  <2>3. \A c \in domains : SameHostAndPort(c, row[w]) => c.id = row[w].id
    BY <1>1, <2>1 DEF Sound, ChoicesAgree, Chosen, Stored
  <2> QED
    BY <1>1, <2>2, <2>3 DEF SameHostAndPort
<1>2. Sound /\ [Next]_vars =>
        [\A r \in domains' \ domains, q \in domains' : SameHostAndPort(r, q) => r = q]_vars
  BY <1>1
<1> QED
  BY <1>2, AlwaysSound, PTL DEF Spec, EndpointsStayOwned

(* No command makes another route disappear: an ID that AttachDomain       *)
(* updates is its own endpoint's, also where an older version made it.      *)
THEOREM StoredRoutesAreKept == Spec => RoutesAreKept
<1> DEFINE Kept(r) == \E w \in Workers :
             \/ pc[w] \in {"attach", "detach"} /\ app[w] = r.app /\ SameHostAndPort(r, row[w])
             \/ pc[w] = "remove" /\ app[w] = r.app
<1>1. ASSUME Sound, [Next]_vars, NEW r \in domains \ domains'
      PROVE  Kept(r)
  <2>1. PICK w \in Workers : Stored(w) \/ Detached(w) \/ Removed(w)
    BY <1>1, RowsChange
  <2>2. CASE Stored(w)
    <3>1. r.id = row[w].id /\ pc[w] = "attach"
      BY <1>1, <2>2 DEF Stored, Upsert
    <3>2. row[w] \in Rows /\ row[w].app = app[w] /\ r \in Rows
      BY <1>1, <3>1 DEF Sound, Typed, TypeOK, LockAgrees, WorkerAgrees, LockedSteps
    <3>3. IDAgrees(r) /\ IDAgrees(row[w])
      BY <1>1, <3>1 DEF Sound, IDsAgree, ChoicesAgree, Chosen
    <3> QED
      BY <3>1, <3>2, <3>3, IDNamesEndpoint
  <2>3. CASE Detached(w)
    BY <1>1, <2>3 DEF Detached, RowsOf, Sound, ChoicesAgree, Chosen, SameHostAndPort
  <2>4. CASE Removed(w)
    BY <1>1, <2>4 DEF Removed, RowsOf
  <2> QED
    BY <2>1, <2>2, <2>3, <2>4
<1>2. Sound /\ [Next]_vars => [\A r \in domains \ domains' : Kept(r)]_vars
  BY <1>1
<1> QED
  BY <1>2, AlwaysSound, PTL DEF Spec, RoutesAreKept

(* The initial route of a first deployment never joins another route: none *)
(* appears between EnsureInitial's check and the row it stores.              *)
THEOREM InitialRoutesComeFirst == Spec => InitialRouteIsFirst
<1>1. Sound /\ [Next]_vars =>
        [\A w \in Workers :
           pc[w] = "attach" /\ kind[w] = "initial" /\ domains' # domains
             => OfApp(app[w], domains) = {}]_vars
  BY DEF Sound, ChoicesAgree, Chosen
<1> QED
  BY <1>1, AlwaysSound, PTL DEF Spec, InitialRouteIsFirst

(* A Caddyfile never lacks a route intended when it is written: rows that  *)
(* were listed before it can have been deleted since, but none was added.    *)
THEOREM WrittenRoutesAreNewest == Spec => NewestRoutesWritten
<1>1. ASSUME Sound, [Next]_vars, file' # file
      PROVE  Config(domains) \subseteq file'
  <2>1. PICK w \in Workers : pc[w] = "write" /\ file' = Config(listed[w])
    BY <1>1, FileChange
  <2>2. domains \subseteq listed[w]
    BY <1>1, <2>1 DEF Sound, ChoicesAgree, Chosen
  <2> QED
    BY <2>1, <2>2 DEF Config
<1>2. Sound /\ [Next]_vars => [file' # file => Config(domains) \subseteq file']_vars
  BY <1>1
<1> QED
  BY <1>2, AlwaysSound, PTL DEF Spec, NewestRoutesWritten

-----------------------------------------------------------------------------
(* Removals.  An app that is gone, and whose name was not used again, is    *)
(* out of Caddy and of everything that could get there, unless its last     *)
(* event asks for the removal to be repeated.  A remover that is past       *)
(* DeleteApp carries this from the rows to Caddy, step by step.             *)
Gone(a) == a \notin apps \cup recreated

Clean(a) ==
  /\ OfApp(a, caddy) = {} /\ OfApp(a, file) = {}
  /\ \A v \in Workers : OfApp(a, listed[v]) = {}

GoneAreClean == \A a \in Apps : Gone(a) /\ a \notin Unfinished => Clean(a)
RowsOwned == \A r \in domains : r.app \in apps
ListedToWrite == \A w \in Workers : pc[w] # "write" => listed[w] = {}
LivingNotRemoved == \A a \in apps \ recreated : removal[a] # "succeeded"

RemoverAgrees(w) ==
  kind[w] = "remove" /\ pc[w] # "idle" =>
    /\ removal[app[w]] # "none"
    /\ pc[w] \notin {"remove", "fail"} => app[w] \notin apps \/ app[w] \in recreated
    /\ pc[w] = "write" => OfApp(app[w], listed[w]) = {} \/ ~ Gone(app[w])
    /\ pc[w] \in {"reload", "applied"} => OfApp(app[w], file) = {} \/ ~ Gone(app[w])
    /\ pc[w] = "applied" => OfApp(app[w], caddy) = {} \/ ~ Gone(app[w])
    /\ pc[w] = "succeed" => Clean(app[w]) \/ ~ Gone(app[w])

Swept ==
  /\ Typed /\ GoneAreClean /\ RowsOwned /\ ListedToWrite /\ LivingNotRemoved
  /\ \A w \in Workers : RemoverAgrees(w)

(* Initially nothing is served, and no app is gone. *)
LEMMA InitSwept == Init => Swept
<1> SUFFICES ASSUME Init PROVE Swept
  OBVIOUS
<1>1. RowsOwned
  <2>1. PICK p \in Ports :
          domains = {LegacyRow(a, <<LegacyEndpoint, f>>, p) : a \in Aliased, f \in Forms}
    BY DEF Init
  <2> SUFFICES ASSUME NEW r \in domains PROVE r.app \in apps
    BY DEF RowsOwned
  <2>2. \E a \in Aliased, f \in Forms : r = LegacyRow(a, <<LegacyEndpoint, f>>, p)
    BY <2>1
  <2> QED
    BY <2>2 DEF LegacyRow, Init
<1>2. GoneAreClean /\ ListedToWrite /\ LivingNotRemoved /\ \A w \in Workers : RemoverAgrees(w)
  BY RoutingAssumption
  DEF Init, GoneAreClean, Clean, OfApp, ListedToWrite, LivingNotRemoved, RemoverAgrees
<1> QED
  BY <1>1, <1>2, InitTyped DEF Swept

(* Rows belong to apps there are. *)
LEMMA RowsOwnedStep == Swept /\ [Next]_vars => RowsOwned'
<1> SUFFICES ASSUME Swept, [Next]_vars, NEW r \in domains' PROVE r.app \in apps'
  BY DEF RowsOwned
<1> USE DEF vars, storeVars, caddyVars, workerVars, counters
<1>1. ASSUME NEW w \in Workers, NEW a \in Apps, NEW x \in Addresses, NEW p \in Ports,
             Attach(w, a, x, p)
      PROVE  r.app \in apps'
  BY <1>1 DEF Attach, BeginAttach, Begin, Take, LockIsFree, Swept, RowsOwned
<1>2. ASSUME NEW w \in Workers, NEW a \in Apps, NEW p \in Ports, EnsureInitial(w, a, p)
      PROVE  r.app \in apps'
  BY <1>2 DEF EnsureInitial, BeginAttach, Begin, Take, LockIsFree, Swept, RowsOwned
<1>3. ASSUME NEW w \in Workers, NEW a \in Apps, NEW x \in Addresses, Detach(w, a, x)
      PROVE  r.app \in apps'
  BY <1>3 DEF Detach, Begin, Take, LockIsFree, Swept, RowsOwned
<1>4. ASSUME NEW w \in Workers, NEW a \in Apps, Remove(w, a)
      PROVE  r.app \in apps'
  BY <1>4 DEF Remove, Begin, Event, Swept, RowsOwned
<1>5. ASSUME NEW w \in Workers, StoreAttach(w)
      PROVE  r.app \in apps'
  <2>1. row[w].app = app[w]
    BY <1>5 DEF StoreAttach, Swept, Typed, LockAgrees, WorkerAgrees, LockedSteps
  <2> QED
    BY <1>5, <2>1 DEF StoreAttach, Upsert, Swept, RowsOwned
<1>6. ASSUME NEW w \in Workers, StoreDetach(w)
      PROVE  r.app \in apps'
  BY <1>6 DEF StoreDetach, Swept, RowsOwned
<1>7. ASSUME NEW w \in Workers, Rebuild(w)
      PROVE  r.app \in apps'
  BY <1>7 DEF Rebuild, Swept, RowsOwned
<1>8. ASSUME NEW w \in Workers, WriteConfig(w)
      PROVE  r.app \in apps'
  BY <1>8 DEF WriteConfig, Swept, RowsOwned
<1>9. ASSUME NEW w \in Workers, Reload(w)
      PROVE  r.app \in apps'
  BY <1>9 DEF Reload, Swept, RowsOwned
<1>10. ASSUME NEW w \in Workers, RecordFailure(w)
      PROVE  r.app \in apps'
  BY <1>10 DEF RecordFailure, Swept, RowsOwned
<1>11. ASSUME NEW w \in Workers, ClearFailures(w)
      PROVE  r.app \in apps'
  BY <1>11 DEF ClearFailures, Swept, RowsOwned
<1>12. ASSUME NEW w \in Workers, DeleteApp(w)
      PROVE  r.app \in apps'
  BY <1>12 DEF DeleteApp, RowsOf, Swept, RowsOwned
<1>13. ASSUME NEW w \in Workers, RemoveFails(w)
      PROVE  r.app \in apps'
  BY <1>13 DEF RemoveFails, Swept, RowsOwned
<1>14. ASSUME NEW w \in Workers, Reconcile(w)
      PROVE  r.app \in apps'
  BY <1>14 DEF Reconcile, Take, LockIsFree, Swept, RowsOwned
<1>15. ASSUME NEW w \in Workers, RecordRemoval(w)
      PROVE  r.app \in apps'
  BY <1>15 DEF RecordRemoval, Event, Swept, RowsOwned
<1>16. ASSUME NEW w \in Workers, Kill(w)
      PROVE  r.app \in apps'
  BY <1>16 DEF Kill, Swept, RowsOwned
<1>17. ASSUME NEW a \in Apps, CreateApp(a)
      PROVE  r.app \in apps'
  BY <1>17 DEF CreateApp, Swept, RowsOwned
<1>18. ASSUME CaddyRestarts
      PROVE  r.app \in apps'
  BY <1>18 DEF CaddyRestarts, Swept, RowsOwned
<1>19. ASSUME UNCHANGED vars
      PROVE  r.app \in apps'
  BY <1>19 DEF vars, Swept, RowsOwned
<1> QED
  BY <1>1, <1>2, <1>3, <1>4, <1>5, <1>6, <1>7, <1>8, <1>9, <1>10, <1>11,
     <1>12, <1>13, <1>14, <1>15, <1>16, <1>17, <1>18, <1>19
  DEF Next, Requests, Works

(* Domains are listed to be written at once. *)
LEMMA ListedStep == Swept /\ [Next]_vars => ListedToWrite'
<1> SUFFICES ASSUME Swept, [Next]_vars PROVE ListedToWrite'
  OBVIOUS
<1> USE DEF vars, storeVars, caddyVars, workerVars, counters, Swept, Typed, TypeOK,
            ListedToWrite, Go, Return, Forgotten
<1>1. ASSUME NEW w \in Workers, NEW a \in Apps, NEW x \in Addresses, NEW p \in Ports,
             Attach(w, a, x, p)
      PROVE  ListedToWrite'
  BY <1>1 DEF Attach, BeginAttach, Begin, Take, LockIsFree
<1>2. ASSUME NEW w \in Workers, NEW a \in Apps, NEW p \in Ports, EnsureInitial(w, a, p)
      PROVE  ListedToWrite'
  BY <1>2 DEF EnsureInitial, BeginAttach, Begin, Take, LockIsFree
<1>3. ASSUME NEW w \in Workers, NEW a \in Apps, NEW x \in Addresses, Detach(w, a, x)
      PROVE  ListedToWrite'
  BY <1>3 DEF Detach, Begin, Take, LockIsFree
<1>4. ASSUME NEW w \in Workers, NEW a \in Apps, Remove(w, a)
      PROVE  ListedToWrite'
  BY <1>4 DEF Remove, Begin, Event
<1>5. ASSUME NEW w \in Workers, StoreAttach(w)
      PROVE  ListedToWrite'
  BY <1>5 DEF StoreAttach
<1>6. ASSUME NEW w \in Workers, StoreDetach(w)
      PROVE  ListedToWrite'
  BY <1>6 DEF StoreDetach
<1>7. ASSUME NEW w \in Workers, Rebuild(w)
      PROVE  ListedToWrite'
  BY <1>7 DEF Rebuild
<1>8. ASSUME NEW w \in Workers, WriteConfig(w)
      PROVE  ListedToWrite'
  BY <1>8 DEF WriteConfig
<1>9. ASSUME NEW w \in Workers, Reload(w)
      PROVE  ListedToWrite'
  BY <1>9 DEF Reload
<1>10. ASSUME NEW w \in Workers, RecordFailure(w)
      PROVE  ListedToWrite'
  BY <1>10 DEF RecordFailure
<1>11. ASSUME NEW w \in Workers, ClearFailures(w)
      PROVE  ListedToWrite'
  BY <1>11 DEF ClearFailures
<1>12. ASSUME NEW w \in Workers, DeleteApp(w)
      PROVE  ListedToWrite'
  BY <1>12 DEF DeleteApp
<1>13. ASSUME NEW w \in Workers, RemoveFails(w)
      PROVE  ListedToWrite'
  BY <1>13 DEF RemoveFails
<1>14. ASSUME NEW w \in Workers, Reconcile(w)
      PROVE  ListedToWrite'
  BY <1>14 DEF Reconcile, Take, LockIsFree
<1>15. ASSUME NEW w \in Workers, RecordRemoval(w)
      PROVE  ListedToWrite'
  BY <1>15 DEF RecordRemoval, Event
<1>16. ASSUME NEW w \in Workers, Kill(w)
      PROVE  ListedToWrite'
  BY <1>16 DEF Kill
<1>17. ASSUME NEW a \in Apps, CreateApp(a)
      PROVE  ListedToWrite'
  BY <1>17 DEF CreateApp
<1>18. ASSUME CaddyRestarts
      PROVE  ListedToWrite'
  BY <1>18 DEF CaddyRestarts
<1>19. ASSUME UNCHANGED vars
      PROVE  ListedToWrite'
  BY <1>19 DEF vars
<1> QED
  BY <1>1, <1>2, <1>3, <1>4, <1>5, <1>6, <1>7, <1>8, <1>9, <1>10, <1>11,
     <1>12, <1>13, <1>14, <1>15, <1>16, <1>17, <1>18, <1>19
  DEF Next, Requests, Works

(* A removal that succeeded is of an app that is gone, or was created again. *)
LEMMA LivingStep == Swept /\ [Next]_vars => LivingNotRemoved'
<1> SUFFICES ASSUME Swept, [Next]_vars PROVE LivingNotRemoved'
  OBVIOUS
<1> USE DEF vars, storeVars, caddyVars, workerVars, counters, Swept, Typed, TypeOK,
            LivingNotRemoved, Event
<1>1. ASSUME NEW w \in Workers, NEW a \in Apps, NEW x \in Addresses, NEW p \in Ports,
             Attach(w, a, x, p)
      PROVE  LivingNotRemoved'
  BY <1>1 DEF Attach, BeginAttach, Begin, Take, LockIsFree
<1>2. ASSUME NEW w \in Workers, NEW a \in Apps, NEW p \in Ports, EnsureInitial(w, a, p)
      PROVE  LivingNotRemoved'
  BY <1>2 DEF EnsureInitial, BeginAttach, Begin, Take, LockIsFree
<1>3. ASSUME NEW w \in Workers, NEW a \in Apps, NEW x \in Addresses, Detach(w, a, x)
      PROVE  LivingNotRemoved'
  BY <1>3 DEF Detach, Begin, Take, LockIsFree
<1>4. ASSUME NEW w \in Workers, NEW a \in Apps, Remove(w, a)
      PROVE  LivingNotRemoved'
  BY <1>4 DEF Remove, Begin, Event
<1>5. ASSUME NEW w \in Workers, StoreAttach(w)
      PROVE  LivingNotRemoved'
  BY <1>5 DEF StoreAttach
<1>6. ASSUME NEW w \in Workers, StoreDetach(w)
      PROVE  LivingNotRemoved'
  BY <1>6 DEF StoreDetach
<1>7. ASSUME NEW w \in Workers, Rebuild(w)
      PROVE  LivingNotRemoved'
  BY <1>7 DEF Rebuild
<1>8. ASSUME NEW w \in Workers, WriteConfig(w)
      PROVE  LivingNotRemoved'
  BY <1>8 DEF WriteConfig
<1>9. ASSUME NEW w \in Workers, Reload(w)
      PROVE  LivingNotRemoved'
  BY <1>9 DEF Reload
<1>10. ASSUME NEW w \in Workers, RecordFailure(w)
      PROVE  LivingNotRemoved'
  BY <1>10 DEF RecordFailure
<1>11. ASSUME NEW w \in Workers, ClearFailures(w)
      PROVE  LivingNotRemoved'
  BY <1>11 DEF ClearFailures
<1>12. ASSUME NEW w \in Workers, DeleteApp(w)
      PROVE  LivingNotRemoved'
  BY <1>12 DEF DeleteApp
<1>13. ASSUME NEW w \in Workers, RemoveFails(w)
      PROVE  LivingNotRemoved'
  BY <1>13 DEF RemoveFails
<1>14. ASSUME NEW w \in Workers, Reconcile(w)
      PROVE  LivingNotRemoved'
  BY <1>14 DEF Reconcile, Take, LockIsFree
<1>15. ASSUME NEW w \in Workers, RecordRemoval(w)
      PROVE  LivingNotRemoved'
  <2>1. app[w] \in Apps /\ kind[w] = "remove" /\ pc[w] # "idle"
    BY <1>15 DEF RecordRemoval, LockAgrees, WorkerAgrees
  <2>2. pc[w] = "succeed" => app[w] \notin apps \ recreated
    BY <1>15, <2>1 DEF RecordRemoval, RemoverAgrees
  <2> QED
    BY <1>15, <2>1, <2>2 DEF RecordRemoval, AuditedAs
<1>16. ASSUME NEW w \in Workers, Kill(w)
      PROVE  LivingNotRemoved'
  BY <1>16 DEF Kill
<1>17. ASSUME NEW a \in Apps, CreateApp(a)
      PROVE  LivingNotRemoved'
  BY <1>17 DEF CreateApp
<1>18. ASSUME CaddyRestarts
      PROVE  LivingNotRemoved'
  BY <1>18 DEF CaddyRestarts
<1>19. ASSUME UNCHANGED vars
      PROVE  LivingNotRemoved'
  BY <1>19 DEF vars
<1> QED
  BY <1>1, <1>2, <1>3, <1>4, <1>5, <1>6, <1>7, <1>8, <1>9, <1>10, <1>11,
     <1>12, <1>13, <1>14, <1>15, <1>16, <1>17, <1>18, <1>19
  DEF Next, Requests, Works

(* Nothing brings an app back that is clean, short of creating it again. *)
LEMMA CleanStays ==
  ASSUME Swept, [Next]_vars, NEW a \in Apps, a \notin apps, Clean(a)
  PROVE  Clean(a)'
<1>0. OfApp(a, domains) = {}
  BY DEF Swept, RowsOwned, OfApp
<1> USE DEF vars, storeVars, caddyVars, workerVars, counters, Swept, Typed, TypeOK,
            Clean, OfApp, Go, Return, Forgotten
<1>1. ASSUME NEW w \in Workers, NEW b \in Apps, NEW x \in Addresses, NEW p \in Ports,
             Attach(w, b, x, p)
      PROVE  Clean(a)'
  BY <1>1 DEF Attach, BeginAttach, Begin, Take, LockIsFree
<1>2. ASSUME NEW w \in Workers, NEW b \in Apps, NEW p \in Ports, EnsureInitial(w, b, p)
      PROVE  Clean(a)'
  BY <1>2 DEF EnsureInitial, BeginAttach, Begin, Take, LockIsFree
<1>3. ASSUME NEW w \in Workers, NEW b \in Apps, NEW x \in Addresses, Detach(w, b, x)
      PROVE  Clean(a)'
  BY <1>3 DEF Detach, Begin, Take, LockIsFree
<1>4. ASSUME NEW w \in Workers, NEW b \in Apps, Remove(w, b)
      PROVE  Clean(a)'
  BY <1>4 DEF Remove, Begin, Event
<1>5. ASSUME NEW w \in Workers, StoreAttach(w)
      PROVE  Clean(a)'
  BY <1>5 DEF StoreAttach
<1>6. ASSUME NEW w \in Workers, StoreDetach(w)
      PROVE  Clean(a)'
  BY <1>6 DEF StoreDetach
<1>7. ASSUME NEW w \in Workers, Rebuild(w)
      PROVE  Clean(a)'
  BY <1>7, <1>0 DEF Rebuild
<1>8. ASSUME NEW w \in Workers, WriteConfig(w)
      PROVE  Clean(a)'
  BY <1>8 DEF WriteConfig, Config, RouteOf
<1>9. ASSUME NEW w \in Workers, Reload(w)
      PROVE  Clean(a)'
  BY <1>9 DEF Reload
<1>10. ASSUME NEW w \in Workers, RecordFailure(w)
      PROVE  Clean(a)'
  BY <1>10 DEF RecordFailure
<1>11. ASSUME NEW w \in Workers, ClearFailures(w)
      PROVE  Clean(a)'
  BY <1>11 DEF ClearFailures
<1>12. ASSUME NEW w \in Workers, DeleteApp(w)
      PROVE  Clean(a)'
  BY <1>12 DEF DeleteApp
<1>13. ASSUME NEW w \in Workers, RemoveFails(w)
      PROVE  Clean(a)'
  BY <1>13 DEF RemoveFails
<1>14. ASSUME NEW w \in Workers, Reconcile(w)
      PROVE  Clean(a)'
  BY <1>14 DEF Reconcile, Take, LockIsFree
<1>15. ASSUME NEW w \in Workers, RecordRemoval(w)
      PROVE  Clean(a)'
  BY <1>15 DEF RecordRemoval, Event
<1>16. ASSUME NEW w \in Workers, Kill(w)
      PROVE  Clean(a)'
  BY <1>16 DEF Kill
<1>17. ASSUME NEW b \in Apps, CreateApp(b)
      PROVE  Clean(a)'
  BY <1>17 DEF CreateApp
<1>18. ASSUME CaddyRestarts
      PROVE  Clean(a)'
  BY <1>18 DEF CaddyRestarts
<1>19. ASSUME UNCHANGED vars
      PROVE  Clean(a)'
  BY <1>19 DEF vars
<1> QED
  BY <1>1, <1>2, <1>3, <1>4, <1>5, <1>6, <1>7, <1>8, <1>9, <1>10, <1>11,
     <1>12, <1>13, <1>14, <1>15, <1>16, <1>17, <1>18, <1>19
  DEF Next, Requests, Works

(* A remover keeps its word through the steps of others: its app, once      *)
(* deleted, is only brought back by creating it again.                       *)
LEMMA RemoverWatches ==
  ASSUME Swept, [Next]_vars, NEW v \in Workers, RemoverAgrees(v),
         pc'[v] = pc[v], kind'[v] = kind[v], app'[v] = app[v], listed'[v] = listed[v],
         recreated \subseteq recreated',
         \A a \in apps' : a \in apps \/ a \in recreated' \/ removal[a] = "none",
         \A a \in Apps : removal[a] # "none" => removal'[a] # "none",
         pc[v] \in LockedSteps => file' = file /\ caddy' \in {caddy, file}
  PROVE  RemoverAgrees(v)'
<1> SUFFICES ASSUME kind[v] = "remove", pc[v] # "idle"
             PROVE  RemoverAgrees(v)'
  BY DEF RemoverAgrees
<1>1. PICK a \in Apps : a = app[v]
  BY DEF Swept, Typed, LockAgrees, WorkerAgrees
<1>2. a \notin apps /\ Clean(a) => Clean(a)'
  BY CleanStays
<1>3. app'[v] = a /\ removal'[a] # "none"
  BY <1>1 DEF RemoverAgrees
<1>4. pc[v] \notin {"remove", "fail"} =>
        /\ a \notin apps \/ a \in recreated
        /\ a \notin apps' \/ a \in recreated'
        /\ Gone(a)' => Gone(a)
  BY <1>1 DEF RemoverAgrees, Gone
<1> QED
  BY <1>1, <1>2, <1>3, <1>4 DEF RemoverAgrees, OfApp, LockedSteps, Gone

(* A remover past DeleteApp keeps its word. *)
LEMMA RemoverStep ==
  ASSUME Swept, [Next]_vars, NEW v \in Workers
  PROVE  RemoverAgrees(v)'
<1>0. /\ RemoverAgrees(v) /\ TypeOK /\ WorkerAgrees(v)
      /\ \A w \in Workers : pc[w] \in LockedSteps => lock = w
  BY DEF Swept, Typed, LockAgrees, WorkerAgrees
<1> USE DEF TypeOK, vars, storeVars, caddyVars, workerVars, counters, Go, Release, Return,
            Forgotten, Event
<1>1. ASSUME NEW w \in Workers, NEW a \in Apps, NEW x \in Addresses, NEW p \in Ports,
             Attach(w, a, x, p)
      PROVE  RemoverAgrees(v)'
  <2>1. CASE v = w
    BY <1>1, <1>0, <2>1
    DEF RemoverAgrees, WorkerAgrees, Gone, Attach, BeginAttach, Begin, Take, LockIsFree
  <2>2. CASE v # w
    BY <1>1, <1>0, <2>2, RemoverWatches DEF Attach, BeginAttach, Begin, Take, LockIsFree
  <2> QED
    BY <2>1, <2>2
<1>2. ASSUME NEW w \in Workers, NEW a \in Apps, NEW p \in Ports, EnsureInitial(w, a, p)
      PROVE  RemoverAgrees(v)'
  <2>1. CASE v = w
    BY <1>2, <1>0, <2>1
    DEF RemoverAgrees, WorkerAgrees, Gone, EnsureInitial, BeginAttach, Begin, Take, LockIsFree
  <2>2. CASE v # w
    BY <1>2, <1>0, <2>2, RemoverWatches
    DEF EnsureInitial, BeginAttach, Begin, Take, LockIsFree
  <2> QED
    BY <2>1, <2>2
<1>3. ASSUME NEW w \in Workers, NEW a \in Apps, NEW x \in Addresses, Detach(w, a, x)
      PROVE  RemoverAgrees(v)'
  <2>1. CASE v = w
    BY <1>3, <1>0, <2>1
    DEF RemoverAgrees, WorkerAgrees, Gone, Detach, Begin, Take, LockIsFree
  <2>2. CASE v # w
    BY <1>3, <1>0, <2>2, RemoverWatches DEF Detach, Begin, Take, LockIsFree
  <2> QED
    BY <2>1, <2>2
<1>4. ASSUME NEW w \in Workers, NEW a \in Apps, Remove(w, a)
      PROVE  RemoverAgrees(v)'
  <2>1. CASE v = w
    BY <1>4, <1>0, <2>1 DEF RemoverAgrees, WorkerAgrees, Gone, Remove, Begin, Event
  <2>2. CASE v # w
    BY <1>4, <1>0, <2>2, RemoverWatches DEF Remove, Begin, Event
  <2> QED
    BY <2>1, <2>2
<1>5. ASSUME NEW w \in Workers, StoreAttach(w)
      PROVE  RemoverAgrees(v)'
  <2>1. CASE v = w
    BY <1>5, <1>0, <2>1 DEF RemoverAgrees, WorkerAgrees, Gone, StoreAttach
  <2>2. CASE v # w
    BY <1>5, <1>0, <2>2, RemoverWatches DEF StoreAttach
  <2> QED
    BY <2>1, <2>2
<1>6. ASSUME NEW w \in Workers, StoreDetach(w)
      PROVE  RemoverAgrees(v)'
  <2>1. CASE v = w
    BY <1>6, <1>0, <2>1 DEF RemoverAgrees, WorkerAgrees, Gone, StoreDetach
  <2>2. CASE v # w
    BY <1>6, <1>0, <2>2, RemoverWatches DEF StoreDetach
  <2> QED
    BY <2>1, <2>2
<1>7. ASSUME NEW w \in Workers, Rebuild(w)
      PROVE  RemoverAgrees(v)'
  <2>1. CASE v = w
    BY <1>7, <1>0, <2>1
    DEF RemoverAgrees, WorkerAgrees, Gone, OfApp, Swept, RowsOwned, Rebuild
  <2>2. CASE v # w
    BY <1>7, <1>0, <2>2, RemoverWatches DEF Rebuild
  <2> QED
    BY <2>1, <2>2
<1>8. ASSUME NEW w \in Workers, WriteConfig(w)
      PROVE  RemoverAgrees(v)'
  <2>1. CASE v = w
    BY <1>8, <1>0, <2>1
    DEF RemoverAgrees, WorkerAgrees, Gone, OfApp, Config, RouteOf, WriteConfig
  <2>2. CASE v # w
    BY <1>8, <1>0, <2>2, RemoverWatches DEF WriteConfig, LockedSteps
  <2> QED
    BY <2>1, <2>2
<1>9. ASSUME NEW w \in Workers, Reload(w)
      PROVE  RemoverAgrees(v)'
  <2>1. CASE v = w
    BY <1>9, <1>0, <2>1 DEF RemoverAgrees, WorkerAgrees, Gone, Reload
  <2>2. CASE v # w
    BY <1>9, <1>0, <2>2, RemoverWatches DEF Reload, LockedSteps
  <2> QED
    BY <2>1, <2>2
<1>10. ASSUME NEW w \in Workers, RecordFailure(w)
      PROVE  RemoverAgrees(v)'
  <2>1. CASE v = w
    BY <1>10, <1>0, <2>1 DEF RemoverAgrees, WorkerAgrees, Gone, RecordFailure
  <2>2. CASE v # w
    BY <1>10, <1>0, <2>2, RemoverWatches DEF RecordFailure
  <2> QED
    BY <2>1, <2>2
<1>11. ASSUME NEW w \in Workers, ClearFailures(w)
      PROVE  RemoverAgrees(v)'
  <2>1. CASE v = w
    <3>1. \A u \in Workers : listed[u] = {}
      BY <1>11, <1>0, <2>1 DEF ClearFailures, Swept, ListedToWrite, LockedSteps
    <3> QED
      BY <1>11, <1>0, <2>1, <3>1
      DEF RemoverAgrees, WorkerAgrees, Gone, Clean, OfApp, ClearFailures
  <2>2. CASE v # w
    BY <1>11, <1>0, <2>2, RemoverWatches DEF ClearFailures
  <2> QED
    BY <2>1, <2>2
<1>12. ASSUME NEW w \in Workers, DeleteApp(w)
      PROVE  RemoverAgrees(v)'
  <2>1. CASE v = w
    BY <1>12, <1>0, <2>1 DEF RemoverAgrees, WorkerAgrees, Gone, DeleteApp
  <2>2. CASE v # w
    BY <1>12, <1>0, <2>2, RemoverWatches DEF DeleteApp
  <2> QED
    BY <2>1, <2>2
<1>13. ASSUME NEW w \in Workers, RemoveFails(w)
      PROVE  RemoverAgrees(v)'
  <2>1. CASE v = w
    BY <1>13, <1>0, <2>1 DEF RemoverAgrees, WorkerAgrees, Gone, RemoveFails
  <2>2. CASE v # w
    BY <1>13, <1>0, <2>2, RemoverWatches DEF RemoveFails
  <2> QED
    BY <2>1, <2>2
<1>14. ASSUME NEW w \in Workers, Reconcile(w)
      PROVE  RemoverAgrees(v)'
  <2>1. CASE v = w
    BY <1>14, <1>0, <2>1
    DEF RemoverAgrees, WorkerAgrees, Gone, Reconcile, Take, LockIsFree
  <2>2. CASE v # w
    BY <1>14, <1>0, <2>2, RemoverWatches DEF Reconcile, Take, LockIsFree
  <2> QED
    BY <2>1, <2>2
<1>15. ASSUME NEW w \in Workers, RecordRemoval(w)
      PROVE  RemoverAgrees(v)'
  <2>1. CASE v = w
    BY <1>15, <1>0, <2>1
    DEF RemoverAgrees, WorkerAgrees, Gone, RecordRemoval, Event, AuditedAs
  <2>2. CASE v # w
    BY <1>15, <1>0, <2>2, RemoverWatches DEF RecordRemoval, Event, AuditedAs
  <2> QED
    BY <2>1, <2>2
<1>16. ASSUME NEW w \in Workers, Kill(w)
      PROVE  RemoverAgrees(v)'
  <2>1. CASE v = w
    BY <1>16, <1>0, <2>1 DEF RemoverAgrees, WorkerAgrees, Gone, Kill
  <2>2. CASE v # w
    BY <1>16, <1>0, <2>2, RemoverWatches DEF Kill
  <2> QED
    BY <2>1, <2>2
<1>17. ASSUME NEW a \in Apps, CreateApp(a)
      PROVE  RemoverAgrees(v)'
  BY <1>17, <1>0, RemoverWatches DEF CreateApp
<1>18. ASSUME CaddyRestarts
      PROVE  RemoverAgrees(v)'
  BY <1>18, <1>0, RemoverWatches DEF CaddyRestarts
<1>19. ASSUME UNCHANGED vars
      PROVE  RemoverAgrees(v)'
  BY <1>19, <1>0, RemoverWatches
<1> QED
  BY <1>1, <1>2, <1>3, <1>4, <1>5, <1>6, <1>7, <1>8, <1>9, <1>10, <1>11,
     <1>12, <1>13, <1>14, <1>15, <1>16, <1>17, <1>18, <1>19
  DEF Next, Requests, Works

(* No app is gone unswept: not at DeleteApp, which the removal's first     *)
(* event precedes, and not when the removal is recorded as a success.       *)
LEMMA GoneStep ==
  ASSUME Swept, [Next]_vars
  PROVE  GoneAreClean'
<1> SUFFICES ASSUME NEW a \in Apps, Gone(a)', a \notin Unfinished'
             PROVE  Clean(a)'
  BY DEF GoneAreClean
<1>a. a \notin apps => (Clean(a) => Clean(a)')
  BY CleanStays
<1>b. Gone(a) /\ a \notin Unfinished => Clean(a)'
  BY <1>a DEF Swept, GoneAreClean, Gone
<1> USE DEF vars, storeVars, caddyVars, workerVars, counters, Gone, Unfinished, Event
<1>1. ASSUME NEW w \in Workers, NEW b \in Apps, NEW x \in Addresses, NEW p \in Ports,
             Attach(w, b, x, p)
      PROVE  Clean(a)'
  BY <1>1, <1>b DEF Attach, BeginAttach, Begin, Take, LockIsFree
<1>2. ASSUME NEW w \in Workers, NEW b \in Apps, NEW p \in Ports, EnsureInitial(w, b, p)
      PROVE  Clean(a)'
  BY <1>2, <1>b DEF EnsureInitial, BeginAttach, Begin, Take, LockIsFree
<1>3. ASSUME NEW w \in Workers, NEW b \in Apps, NEW x \in Addresses, Detach(w, b, x)
      PROVE  Clean(a)'
  BY <1>3, <1>b DEF Detach, Begin, Take, LockIsFree
<1>4. ASSUME NEW w \in Workers, NEW b \in Apps, Remove(w, b)
      PROVE  Clean(a)'
  BY <1>4, <1>b DEF Remove, Begin, Event, Swept, Typed, TypeOK
<1>5. ASSUME NEW w \in Workers, StoreAttach(w)
      PROVE  Clean(a)'
  BY <1>5, <1>b DEF StoreAttach
<1>6. ASSUME NEW w \in Workers, StoreDetach(w)
      PROVE  Clean(a)'
  BY <1>6, <1>b DEF StoreDetach
<1>7. ASSUME NEW w \in Workers, Rebuild(w)
      PROVE  Clean(a)'
  BY <1>7, <1>b DEF Rebuild
<1>8. ASSUME NEW w \in Workers, WriteConfig(w)
      PROVE  Clean(a)'
  BY <1>8, <1>b DEF WriteConfig
<1>9. ASSUME NEW w \in Workers, Reload(w)
      PROVE  Clean(a)'
  BY <1>9, <1>b DEF Reload
<1>10. ASSUME NEW w \in Workers, RecordFailure(w)
      PROVE  Clean(a)'
  BY <1>10, <1>b DEF RecordFailure
<1>11. ASSUME NEW w \in Workers, ClearFailures(w)
      PROVE  Clean(a)'
  BY <1>11, <1>b DEF ClearFailures
<1>12. ASSUME NEW w \in Workers, DeleteApp(w)
      PROVE  Clean(a)'
  <2>1. CASE app[w] = a
    <3>1. kind[w] = "remove" /\ a \in apps /\ a \notin recreated
      BY <1>12, <2>1 DEF DeleteApp, Swept, Typed, LockAgrees, WorkerAgrees
    <3>2. removal[a] # "none" /\ removal[a] # "succeeded"
      BY <1>12, <2>1, <3>1 DEF DeleteApp, Swept, RemoverAgrees, LivingNotRemoved
    <3> QED
      BY <1>12, <3>2 DEF DeleteApp, Swept, Typed, TypeOK, RemovalEvents
  <2>2. CASE app[w] # a
    BY <1>12, <1>b, <2>2 DEF DeleteApp
  <2> QED
    BY <2>1, <2>2
<1>13. ASSUME NEW w \in Workers, RemoveFails(w)
      PROVE  Clean(a)'
  BY <1>13, <1>b DEF RemoveFails
<1>14. ASSUME NEW w \in Workers, Reconcile(w)
      PROVE  Clean(a)'
  BY <1>14, <1>b DEF Reconcile, Take, LockIsFree
<1>15. ASSUME NEW w \in Workers, RecordRemoval(w)
      PROVE  Clean(a)'
  <2>1. app[w] \in Apps /\ kind[w] = "remove" /\ pc[w] # "idle" /\ RemoverAgrees(w)
    BY <1>15 DEF RecordRemoval, Swept, Typed, LockAgrees, WorkerAgrees
  <2>2. CASE app[w] = a
    <3>1. pc[w] = "succeed" => Clean(a)'
      BY <1>15, <1>a, <2>1, <2>2 DEF RecordRemoval, RemoverAgrees
    <3> QED
      BY <1>15, <1>b, <2>2, <3>1 DEF RecordRemoval, AuditedAs, Swept, Typed, TypeOK
  <2>3. CASE app[w] # a
    BY <1>15, <1>b, <2>1, <2>3 DEF RecordRemoval, Swept, Typed, TypeOK
  <2> QED
    BY <2>2, <2>3
<1>16. ASSUME NEW w \in Workers, Kill(w)
      PROVE  Clean(a)'
  BY <1>16, <1>b DEF Kill
<1>17. ASSUME NEW b \in Apps, CreateApp(b)
      PROVE  Clean(a)'
  BY <1>17, <1>b DEF CreateApp
<1>18. ASSUME CaddyRestarts
      PROVE  Clean(a)'
  BY <1>18, <1>b DEF CaddyRestarts
<1>19. ASSUME UNCHANGED vars
      PROVE  Clean(a)'
  BY <1>19, <1>b DEF vars
<1> QED
  BY <1>1, <1>2, <1>3, <1>4, <1>5, <1>6, <1>7, <1>8, <1>9, <1>10, <1>11,
     <1>12, <1>13, <1>14, <1>15, <1>16, <1>17, <1>18, <1>19
  DEF Next, Requests, Works

(* What Caddy serves of an app that is gone can be taken away by repeating *)
(* its removal, whatever was killed, refused or run at once: no removal is  *)
(* recorded as a success, or never recorded, before its routes are gone.    *)
THEOREM OrphanRoutesAreResumable == Spec => []OrphanRouteIsResumable
<1>1. Swept /\ [Next]_vars => Swept'
  BY TypeStep, LockStep, RowsOwnedStep, ListedStep, LivingStep, RemoverStep, GoneStep
  DEF Swept, Typed
<1>2. Swept => OrphanRouteIsResumable
  BY DEF Swept, GoneAreClean, Gone, Clean, OrphanRouteIsResumable
<1> QED
  BY <1>1, <1>2, InitSwept, PTL DEF Spec
-----------------------------------------------------------------------------
(* What Caddy lacks is known.  As long as no process was killed, no write   *)
(* refused and no name used again, every app there is is served as stored,  *)
(* or an attach or a detach of it is under way, or its failure is on record. *)
(* Whoever lists the domains brings all of them to the file and to Caddy.   *)
Quiet == disturbances = 0 /\ recreated = {} /\ Aliased = {}

Agrees(a, routes) == OfApp(a, routes) = Config(RowsOf(a))

OnIt(w, a) ==
  /\ app[w] = a /\ kind[w] # "remove"
  /\ pc[w] \in {"detach", "rebuild", "write", "reload", "failed"}

Known(a) ==
  \/ Agrees(a, caddy) /\ Agrees(a, file)
  \/ \E f \in failures : f.app = a
  \/ \E w \in Workers : OnIt(w, a)

Carries(w, a) ==
  /\ pc[w] = "write" => Agrees(a, Config(listed[w]))
  /\ pc[w] \in {"reload", "applied"} => Agrees(a, file)
  /\ pc[w] = "applied" => Agrees(a, caddy)
  /\ pc[w] = "detach" /\ app[w] = a => \A x \in plan[w] : \E r \in RowsOf(a) : r.address = x

Begun(a) == \E w \in Workers : pc[w] # "idle" /\ app[w] = a

Tracked(a) ==
  /\ a \in apps => Known(a) /\ \A w \in Workers : Carries(w, a)
  /\ a \notin apps /\ removal[a] = "none" => ~ Begun(a)

Followed == Sound /\ Swept /\ (Quiet => \A a \in Apps : Tracked(a))

(* The routes of an app among those of all rows are those of its rows. *)
LEMMA ServedRows ==
  ASSUME NEW a, NEW rows
  PROVE  /\ OfApp(a, Config(rows)) = Config(OfApp(a, rows))
         /\ Config({}) = {}
BY DEF OfApp, Config, RouteOf

(* Initially there is no app. *)
LEMMA InitFollowed == Init => Followed
BY InitSound, InitSwept DEF Init, Followed, Quiet, Tracked, Begun

(* A step leaves an app tracked that changes neither its rows nor what is   *)
(* written or served, and takes a worker from one step without a part in    *)
(* either to another.                                                        *)
Aside(w) == pc[w] \in {"idle", "attach", "remove", "reconcile", "succeed", "fail"}

LEMMA TrackedAside ==
  ASSUME NEW w \in Workers, NEW a \in Apps, TypeOK, Tracked(a), Aside(w), Aside(w)',
         a \in apps' => a \in apps,
         removal'[a] = "none" => removal[a] = "none" /\ (a \in apps => a \in apps'),
         pc'[w] # "idle" /\ app'[w] = a => a \in apps' \/ removal'[a] # "none" \/ Begun(a),
         RowsOf(a)' = RowsOf(a), UNCHANGED <<file, caddy>>,
         \A f \in failures : f.app = a => f \in failures',
         \A v \in Workers \ {w} :
           /\ pc'[v] = pc[v] /\ kind'[v] = kind[v] /\ app'[v] = app[v]
           /\ plan'[v] = plan[v] /\ listed'[v] = listed[v]
  PROVE  Tracked(a)'
<1>1. Agrees(a, caddy)' = Agrees(a, caddy) /\ Agrees(a, file)' = Agrees(a, file)
  BY DEF Agrees, OfApp
<1>2. \A v \in Workers \ {w} : Agrees(a, Config(listed[v])) => Agrees(a, Config(listed[v]))'
  BY DEF Agrees, OfApp, Config
<1>3. a \in apps' => Known(a)'
  BY <1>1 DEF Tracked, Known, OnIt, Aside
<1>4. ASSUME NEW v \in Workers, a \in apps'
      PROVE  Carries(v, a)'
  <2>1. CASE v = w
    BY <2>1 DEF Carries, Aside
  <2>2. CASE v # w
    BY <1>1, <1>2, <1>4, <2>2 DEF Tracked, Carries
  <2> QED
    BY <2>1, <2>2
<1>5. a \notin apps' /\ removal'[a] = "none" => ~ Begun(a)'
  BY DEF Tracked, Begun
<1> QED
  BY <1>3, <1>4, <1>5 DEF Tracked

(* Quiet is left for ever. *)
LEMMA QuietBefore == TypeOK /\ [Next]_vars /\ Quiet' => Quiet
<1> SUFFICES ASSUME TypeOK, [Next]_vars, Quiet' PROVE Quiet
  OBVIOUS
<1> USE DEF TypeOK, Quiet, vars, storeVars, caddyVars, workerVars, counters, Disturbance
<1>1. ASSUME NEW w \in Workers, Requests(w)
      PROVE  Quiet
  BY <1>1 DEF Requests, Attach, EnsureInitial, BeginAttach, Detach, Remove
<1>2. ASSUME NEW w \in Workers, Works(w)
      PROVE  Quiet
  BY <1>2 DEF Works, StoreAttach, StoreDetach, Rebuild, WriteConfig, Reload, RecordFailure,
              ClearFailures, DeleteApp, RemoveFails, Reconcile, RecordRemoval
<1>3. ASSUME NEW w \in Workers, Kill(w)
      PROVE  Quiet
  BY <1>3 DEF Kill
<1>4. ASSUME NEW b \in Apps, CreateApp(b)
      PROVE  Quiet
  BY <1>4 DEF CreateApp
<1> QED
  BY <1>1, <1>2, <1>3, <1>4 DEF Next, CaddyRestarts

(* Every step keeps every app tracked. *)
LEMMA TrackedStep ==
  ASSUME Sound, Swept, [Next]_vars, Quiet', NEW a \in Apps, Quiet => Tracked(a)
  PROVE  Tracked(a)'
<1>0. /\ TypeOK
      /\ \A v \in Workers : WorkerAgrees(v) /\ RemoverAgrees(v)
  BY DEF Swept, Typed, LockAgrees
<1>a. domains' = domains => RowsOf(a)' = RowsOf(a)
  BY DEF RowsOf
<1>q. Quiet /\ Tracked(a)
  BY <1>0, QuietBefore
<1> USE DEF TypeOK, vars, storeVars, caddyVars, workerVars, counters, Go, Release, Return,
            Forgotten, Event, Disturbance, ApplyFailure
<1>1. ASSUME NEW w \in Workers, NEW b \in Apps, NEW x \in Addresses, NEW p \in Ports,
             Attach(w, b, x, p)
      PROVE  Tracked(a)'
  BY <1>1, <1>0, <1>a, <1>q, TrackedAside
  DEF Attach, BeginAttach, Begin, Take, LockIsFree, Aside, Begun
<1>2. ASSUME NEW w \in Workers, NEW b \in Apps, NEW p \in Ports, EnsureInitial(w, b, p)
      PROVE  Tracked(a)'
  BY <1>2, <1>0, <1>a, <1>q, TrackedAside
  DEF EnsureInitial, BeginAttach, Begin, Take, LockIsFree, Aside, Begun
<1>3. ASSUME NEW w \in Workers, NEW b \in Apps, NEW x \in Addresses, Detach(w, b, x)
      PROVE  Tracked(a)'
  BY <1>3, <1>0, <1>a, <1>q
  DEF Detach, Detachable, RowsOf, Begin, Take, LockIsFree, Tracked, Known, Carries, OnIt, Agrees, Begun, OfApp, WorkerAgrees, LockedSteps
<1>4. ASSUME NEW w \in Workers, NEW b \in Apps, Remove(w, b)
      PROVE  Tracked(a)'
  BY <1>4, <1>0, <1>a, <1>q, TrackedAside
  DEF Remove, Begin, Aside, Begun
<1>5. ASSUME NEW w \in Workers, StoreAttach(w)
      PROVE  Tracked(a)'
  <2>1. /\ pc[w] = "attach" /\ kind[w] # "remove" /\ row[w].app = app[w] /\ app[w] \in Apps
        /\ \A v \in Workers \ {w} : pc[v] \notin LockedSteps
    BY <1>5, <1>0 DEF StoreAttach, WorkerAgrees, LockedSteps
  <2>2. CASE app[w] \in apps /\ domains' = Upsert(w)
    <3>1. pc' = [pc EXCEPT ![w] = "rebuild"] /\ UNCHANGED <<kind, app, plan, listed>>
      BY <1>5, <2>1, <2>2, <1>q DEF StoreAttach, Quiet
    <3>2. UNCHANGED <<apps, removal, failures, file, caddy>>
      BY <1>5 DEF StoreAttach
    <3>3. CASE a = app[w]
      BY <1>0, <2>1, <2>2, <3>1, <3>2, <3>3 DEF Tracked, Known, Carries, OnIt, LockedSteps
    <3>4. CASE a # app[w]
      <4>1. RowsOf(a)' = RowsOf(a)
        BY <2>1, <2>2, <3>4
        DEF Upsert, RowsOf, Sound, IDsAgree, ChoicesAgree, Chosen, IDAgrees
      <4>2. \A v \in Workers : OnIt(v, a)' <=> OnIt(v, a)
        BY <2>1, <3>1, <3>4 DEF OnIt
      <4> QED
        BY <1>q, <2>1, <2>2, <3>1, <3>2, <3>4, <4>1, <4>2
        DEF Tracked, Known, Carries, Agrees, Begun, OfApp, LockedSteps
    <3> QED
      BY <3>3, <3>4
  <2>3. CASE app[w] \notin apps /\ domains' = domains
    <3>1. pc' = [pc EXCEPT ![w] = "idle"]
      BY <1>5, <2>1, <2>3 DEF StoreAttach
    <3> QED
      BY <1>5, <1>0, <1>a, <1>q, <2>1, <2>3, <3>1, TrackedAside DEF StoreAttach, Aside
  <2> QED
    BY <1>5, <1>0, <2>2, <2>3 DEF StoreAttach, Quiet
<1>6. ASSUME NEW w \in Workers, StoreDetach(w)
      PROVE  Tracked(a)'
  <2>1. /\ pc[w] = "detach" /\ kind[w] # "remove" /\ app[w] \in Apps
        /\ \A v \in Workers \ {w} : pc[v] \notin LockedSteps
        /\ UNCHANGED <<apps, removal, failures, file, caddy>>
    BY <1>6, <1>0 DEF StoreDetach, WorkerAgrees, LockedSteps
  <2>2. PICK x \in plan[w] :
          LET found == {r \in RowsOf(app[w]) : r.address = x} IN
          \/ /\ found # {}
             /\ domains' = domains \ found
             /\ plan' = [plan EXCEPT ![w] = @ \ {x}]
             /\ pc' = [pc EXCEPT ![w] = IF plan[w] = {x} THEN "rebuild" ELSE "detach"]
             /\ UNCHANGED <<kind, app, listed>>
          \/ /\ found = {} /\ domains' = domains
             /\ pc' = [pc EXCEPT ![w] = "idle"]
             /\ \A v \in Workers \ {w} :
                  /\ kind'[v] = kind[v] /\ app'[v] = app[v]
                  /\ plan'[v] = plan[v] /\ listed'[v] = listed[v]
    BY <1>6, <1>0, <2>1 DEF StoreDetach, Quiet
  <2> DEFINE found == {r \in RowsOf(app[w]) : r.address = x}
  <2>3. CASE found # {}
    <3>1. /\ domains' = domains \ found
          /\ plan' = [plan EXCEPT ![w] = @ \ {x}]
          /\ pc' = [pc EXCEPT ![w] = IF plan[w] = {x} THEN "rebuild" ELSE "detach"]
          /\ UNCHANGED <<kind, app, listed>>
      BY <2>2, <2>3
    <3>2. CASE a = app[w]
      <4>1. \A r \in RowsOf(a) : r.address # x => r \in RowsOf(a)'
        BY <3>1, <3>2 DEF RowsOf
      <4>2. a \in apps => Carries(w, a)'
        BY <1>0, <1>q, <2>1, <3>1, <3>2, <4>1 DEF Tracked, Carries
      <4>3. \A v \in Workers \ {w} : Carries(v, a)'
        BY <2>1, <3>1 DEF Carries, LockedSteps
      <4>4. OnIt(w, a)'
        BY <2>1, <3>1, <3>2 DEF OnIt
      <4>5. ~ (a \notin apps /\ removal[a] = "none")
        BY <1>q, <2>1, <3>2 DEF Tracked, Begun
      <4> QED
        BY <2>1, <4>2, <4>3, <4>4, <4>5 DEF Tracked, Known
    <3>3. CASE a # app[w]
      <4>1. RowsOf(a)' = RowsOf(a)
        BY <3>1, <3>3 DEF RowsOf
      <4>2. \A v \in Workers : (OnIt(v, a)' <=> OnIt(v, a)) /\ Carries(v, a)'
        BY <2>1, <3>1, <3>3 DEF OnIt, Carries, LockedSteps
      <4>3. Begun(a)' => Begun(a)
        BY <2>1, <3>1, <3>3 DEF Begun
      <4> QED
        BY <1>q, <2>1, <4>1, <4>2, <4>3 DEF Tracked, Known, Agrees, OfApp
    <3> QED
      BY <3>2, <3>3
  <2>4. CASE found = {}
    <3>1. /\ domains' = domains /\ pc' = [pc EXCEPT ![w] = "idle"]
          /\ \A v \in Workers \ {w} :
               /\ kind'[v] = kind[v] /\ app'[v] = app[v]
               /\ plan'[v] = plan[v] /\ listed'[v] = listed[v]
      BY <2>2, <2>4
    <3>2. a \in apps => a # app[w]
      BY <1>q, <2>1, <2>4 DEF Tracked, Carries
    <3>3. \A v \in Workers : Carries(v, a)'
      BY <1>0, <2>1, <3>1 DEF Carries, LockedSteps
    <3>4. a \in apps => \A v \in Workers : OnIt(v, a) => OnIt(v, a)'
      BY <2>1, <3>1, <3>2 DEF OnIt
    <3>5. Begun(a)' => Begun(a)
      BY <1>0, <3>1 DEF Begun
    <3> QED
      BY <1>a, <1>q, <2>1, <3>1, <3>3, <3>4, <3>5 DEF Tracked, Known, Agrees, OfApp
  <2> QED
    BY <2>3, <2>4
<1>7. ASSUME NEW w \in Workers, Rebuild(w)
      PROVE  Tracked(a)'
  <2>1. OfApp(a, Config(domains)) = Config(RowsOf(a))
    <3>1. OfApp(a, domains) = RowsOf(a)
      BY DEF OfApp, RowsOf
    <3> QED
      BY <3>1, ServedRows
  <2>2. \A v \in Workers \ {w} : pc[v] \notin LockedSteps
    BY <1>7, <1>0 DEF Rebuild, WorkerAgrees, LockedSteps
  <2>3. \A v \in Workers : Carries(v, a)'
    BY <1>7, <1>0, <1>a, <2>1, <2>2 DEF Rebuild, Carries, Agrees, LockedSteps, OfApp
  <2>4. \A v \in Workers : OnIt(v, a) => OnIt(v, a)'
    BY <1>7, <1>0 DEF Rebuild, OnIt
  <2>5. Begun(a)' => Begun(a)
    BY <1>7, <1>0 DEF Rebuild, Begun
  <2> QED
    BY <1>7, <1>a, <1>q, <2>3, <2>4, <2>5 DEF Rebuild, Tracked, Known, Agrees, OfApp
<1>8. ASSUME NEW w \in Workers, WriteConfig(w)
      PROVE  Tracked(a)'
  BY <1>8, <1>0, <1>a, <1>q
  DEF WriteConfig, Tracked, Known, Carries, OnIt, Agrees, Begun, OfApp, WorkerAgrees, LockedSteps
<1>9. ASSUME NEW w \in Workers, Reload(w)
      PROVE  Tracked(a)'
  BY <1>9, <1>0, <1>a, <1>q
  DEF Reload, Tracked, Known, Carries, OnIt, Agrees, Begun, OfApp, WorkerAgrees, LockedSteps
<1>10. ASSUME NEW w \in Workers, RecordFailure(w)
      PROVE  Tracked(a)'
  <2>1. pc[w] = "failed" /\ app[w] \in Apps /\ \A v \in Workers \ {w} : pc[v] \notin LockedSteps
    BY <1>10, <1>0 DEF RecordFailure, WorkerAgrees, LockedSteps
  <2>2. \A v \in Workers : Carries(v, a)'
    BY <1>10, <1>0, <2>1 DEF RecordFailure, Carries, LockedSteps
  <2>3. \A v \in Workers \ {w} : OnIt(v, a) => OnIt(v, a)'
    BY <1>10, <1>0 DEF RecordFailure, OnIt
  <2>4. (\E f \in failures : f.app = a) \/ OnIt(w, a) => \E f \in failures' : f.app = a
    <3>1. CASE kind[w] = "remove"
      BY <1>10, <3>1 DEF RecordFailure, OnIt
    <3>2. CASE kind[w] # "remove"
      <4>1. failures' = WithFailure(w) /\ FailureOf(w).app = app[w]
        BY <1>10, <3>2, <1>0 DEF RecordFailure, Quiet, FailureOf
      <4> QED
        BY <4>1 DEF WithFailure, OnIt
    <3> QED
      BY <3>1, <3>2
  <2>5. Begun(a)' => Begun(a)
    BY <1>10, <1>0, <2>1 DEF RecordFailure, Begun
  <2>6. a \in apps => Known(a)'
    BY <1>10, <1>a, <1>q, <2>3, <2>4 DEF RecordFailure, Tracked, Known, Agrees, OfApp
  <2> QED
    BY <1>10, <1>q, <2>2, <2>5, <2>6 DEF RecordFailure, Tracked
<1>11. ASSUME NEW w \in Workers, ClearFailures(w)
      PROVE  Tracked(a)'
  BY <1>11, <1>0, <1>a, <1>q
  DEF ClearFailures, Tracked, Known, Carries, OnIt, Agrees, Begun, OfApp, WorkerAgrees, LockedSteps
<1>12. ASSUME NEW w \in Workers, DeleteApp(w)
      PROVE  Tracked(a)'
  <2>1. kind[w] = "remove" /\ pc[w] = "remove" /\ app[w] \in Apps /\ removal[app[w]] # "none"
    BY <1>12, <1>0 DEF DeleteApp, WorkerAgrees, RemoverAgrees
  <2>2. CASE a = app[w]
    BY <1>12, <2>1, <2>2 DEF DeleteApp, Tracked
  <2>3. CASE a # app[w]
    <3>1. RowsOf(a)' = RowsOf(a)
      BY <1>12, <2>3 DEF DeleteApp, RowsOf
    <3> QED
      BY <1>12, <1>0, <1>q, <2>1, <2>3, <3>1, TrackedAside DEF DeleteApp, Aside, Begun
  <2> QED
    BY <2>2, <2>3
<1>13. ASSUME NEW w \in Workers, RemoveFails(w)
      PROVE  Tracked(a)'
  BY <1>13, <1>0, <1>a, <1>q, TrackedAside
  DEF RemoveFails, Aside, Begun
<1>14. ASSUME NEW w \in Workers, Reconcile(w)
      PROVE  Tracked(a)'
  BY <1>14, <1>0, <1>a, <1>q
  DEF Reconcile, Take, LockIsFree, Tracked, Known, Carries, OnIt, Agrees, Begun, OfApp, WorkerAgrees, LockedSteps
<1>15. ASSUME NEW w \in Workers, RecordRemoval(w)
      PROVE  Tracked(a)'
  BY <1>15, <1>0, <1>a, <1>q, TrackedAside
  DEF RecordRemoval, AuditedAs, WorkerAgrees, Aside, Begun
<1>16. ASSUME NEW w \in Workers, Kill(w)
      PROVE  Tracked(a)'
  BY <1>16, <1>0 DEF Kill, Quiet
<1>17. ASSUME NEW b \in Apps, CreateApp(b)
      PROVE  Tracked(a)'
  <2>1. CASE a = b
    <3>1. removal[a] = "none" /\ a \notin apps
      BY <1>17, <2>1 DEF CreateApp, Quiet
    <3>2. RowsOf(a) = {} /\ Clean(a)
      BY <3>1, <1>q DEF Swept, RowsOwned, RowsOf, GoneAreClean, Gone, Unfinished, Quiet
    <3>3. Agrees(a, caddy)' /\ Agrees(a, file)'
      BY <1>17, <1>a, <3>2, ServedRows DEF CreateApp, Agrees, Clean, OfApp
    <3>4. ASSUME NEW v \in Workers PROVE Carries(v, a)'
      <4>1. OfApp(a, Config(listed[v])) = {}
        BY <3>2, ServedRows DEF Clean
      <4>2. pc[v] # "idle" => app[v] # a
        BY <1>q, <3>1 DEF Tracked, Begun
      <4> QED
        BY <1>17, <1>a, <3>2, <3>3, <4>1, <4>2, ServedRows DEF CreateApp, Carries, Agrees, OfApp
    <3> QED
      BY <1>17, <2>1, <3>3, <3>4 DEF CreateApp, Tracked, Known
  <2>2. CASE a # b
    BY <1>17, <1>a, <1>q, <2>2
    DEF CreateApp, Tracked, Known, Carries, OnIt, Agrees, Begun, OfApp
  <2> QED
    BY <2>1, <2>2
<1>18. ASSUME CaddyRestarts
      PROVE  Tracked(a)'
  BY <1>18, <1>0, <1>a, <1>q
  DEF CaddyRestarts, Tracked, Known, Carries, OnIt, Agrees, Begun, OfApp, WorkerAgrees, LockedSteps
<1>19. ASSUME UNCHANGED vars
      PROVE  Tracked(a)'
  BY <1>19, <1>0, <1>a, <1>q
  DEF Tracked, Known, Carries, OnIt, Agrees, Begun, OfApp, WorkerAgrees, LockedSteps
<1> QED
  BY <1>1, <1>2, <1>3, <1>4, <1>5, <1>6, <1>7, <1>8, <1>9, <1>10, <1>11,
     <1>12, <1>13, <1>14, <1>15, <1>16, <1>17, <1>18, <1>19
  DEF Next, Requests, Works

(* ADR 0003: a failure of Caddy that nobody is at is on record, or the last *)
(* event of an app asks for its removal to be repeated, as long as nothing  *)
(* was killed or refused and no name was used again.                        *)
THEOREM StaleRoutesAreKnown == Spec => []StaleIsKnown
<1>1. Followed /\ [Next]_vars => Followed'
  <2> SUFFICES ASSUME Followed, [Next]_vars PROVE Followed'
    OBVIOUS
  <2>1. Sound' /\ Swept'
    BY TypeStep, LockStep, IDsStep, ChoiceStep, RowsOwnedStep, ListedStep, LivingStep,
       RemoverStep, GoneStep
    DEF Followed, Sound, Swept, Typed, ChoicesAgree
  <2>2. Quiet' => Quiet
    BY QuietBefore DEF Followed, Swept, Typed
  <2>3. ASSUME Quiet', NEW a \in Apps PROVE Tracked(a)'
    BY <2>2, <2>3, TrackedStep DEF Followed
  <2> QED
    BY <2>1, <2>3 DEF Followed
<1>2. Followed => StaleIsKnown
  <2> SUFFICES ASSUME Followed, Quiet, \A w \in Workers : pc[w] = "idle",
                      failures = {}, Unfinished = {}
               PROVE  caddy = Config(domains)
    BY DEF StaleIsKnown, Quiet
  <2>1. ASSUME NEW a \in Apps PROVE OfApp(a, caddy) = Config(RowsOf(a))
    <3>1. CASE a \in apps
      BY <3>1 DEF Followed, Tracked, Known, Agrees, OnIt
    <3>2. CASE a \notin apps
      <4>1. OfApp(a, caddy) = {}
        BY <3>2 DEF Followed, Swept, GoneAreClean, Gone, Clean, Quiet
      <4>2. RowsOf(a) = {}
        BY <3>2 DEF Followed, Swept, RowsOwned, RowsOf
      <4> QED
        BY <4>1, <4>2, ServedRows
    <3> QED
      BY <3>1, <3>2
  <2>2. \A q \in caddy : q.app \in Apps
    BY DEF Followed, Sound, Typed, TypeOK, Routes
  <2>3. \A r \in domains : r.app \in Apps
    BY DEF Followed, Sound, Typed, TypeOK, Rows
  <2>4. \A q \in caddy : q \in Config(domains)
    BY <2>1, <2>2 DEF OfApp, Config, RowsOf
  <2>5. \A r \in domains : RouteOf(r) \in caddy
    BY <2>1, <2>3 DEF OfApp, Config, RowsOf
  <2> QED
    BY <2>4, <2>5 DEF Config
<1> QED
  BY <1>1, <1>2, InitFollowed, PTL DEF Spec
=============================================================================
