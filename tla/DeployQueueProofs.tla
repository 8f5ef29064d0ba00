------------------------- MODULE DeployQueueProofs -------------------------
(***************************************************************************)
(* Theorems about DeployQueue, for every set of apps, commits, sessions    *)
(* and redeployers and every bound.                                         *)
(***************************************************************************)
EXTENDS DeployQueue, WellFoundedInduction, TLAPS

(* Every set of natural numbers has a smallest one: the library states it  *)
(* for its well-founded order.                                              *)
LEMMA LeastNatural ==
  ASSUME NEW S, S \subseteq Nat, S # {}
  PROVE  \E x \in S : \A y \in S : x <= y
<1>1. IsWellFoundedOn(OpToRel(<, Nat), Nat)
  BY NatLessThanWellFounded
<1>2. PICK x \in S : \A y \in S : ~ (<<y, x>> \in OpToRel(<, Nat))
  BY <1>1, WFMin
<1>3. \A y \in S : ~ (y < x)
  BY <1>2 DEF OpToRel
<1> QED
  BY <1>3

(* The oldest of some attempts is one of them. *)
LEMMA MinOfAttempts ==
  ASSUME NEW S, S \subseteq Attempts, S # {}
  PROVE  Min(S) \in S /\ \A j \in S : Min(S) <= j
<1>1. S \subseteq Nat
  BY DEF Attempts
<1>2. \E x \in S : \A y \in S : x <= y
  BY <1>1, LeastNatural
<1> QED
  BY <1>2 DEF Min

(* The latest of some attempts is one of them. *)
LEMMA MaxOfAttempts ==
  ASSUME NEW S, S \subseteq Attempts, S # {}
  PROVE  Max(S) \in S /\ \A j \in S : j <= Max(S)
<1> DEFINE Back == {MaxAttempts - x : x \in S}
<1>1. MaxAttempts \in Nat
  BY ConstantsAssumption
<1>2. Back \subseteq Nat
  BY <1>1 DEF Attempts
<1>0. Back # {}
  OBVIOUS
<1>3. PICK b \in Back : \A y \in Back : b <= y
  BY <1>2, <1>0, LeastNatural
<1>4. PICK m \in S : b = MaxAttempts - m
  BY <1>3
<1>5. \A y \in S : y <= m
  <2> SUFFICES ASSUME NEW y \in S PROVE y <= m
    OBVIOUS
  <2>1. b <= MaxAttempts - y
    BY <1>3
  <2>2. y \in Nat /\ m \in Nat
    BY DEF Attempts
  <2> QED
    BY <1>1, <1>4, <2>1, <2>2
<1>6. \E x \in S : \A y \in S : x >= y
  BY <1>5 DEF Attempts
<1>7. Max(S) \in S /\ \A y \in S : Max(S) >= y
  BY <1>6 DEF Max
<1> QED
  BY <1>7 DEF Attempts

-----------------------------------------------------------------------------
(* Type correctness.  A recorded or executed attempt is a real one, which  *)
(* the types alone do not say: the processes must hold it.                  *)

(* A session recovers or records only when it has found an attempt, and    *)
(* its parent waits for the child.                                          *)
SessionsAgree ==
  \A s \in Sessions :
    /\ rpc[s] \in {"recovering", "finishing", "following"} => git[s] \in {"exited", "killed"}
    /\ git[s] # "none" => sapp[s] \in Apps
    /\ rpc[s] = "recovering" \/ git[s] = "found"
         => target[s] \in Attempts /\ status[target[s]] # "none"

(* The daemon's current attempt is a row, and one it executes is deploying. *)
DaemonAgrees ==
  /\ daemon \in {"guarded", "recovering", "executing", "recorded"}
       => current \in Attempts /\ status[current] # "none"
  /\ daemon \in {"executing", "recorded"} => status[current] = "deploying"
  /\ daemon = "recorded" => outcome \in Terminal
  /\ \A i \in todo : status[i] # "none"

(* Rows are inserted in the order of their numbers, only rows have events, *)
(* and every row is of some app.                                            *)
RowsAgree ==
  /\ \A i \in Attempts : i >= nextID => status[i] = "none"
  /\ \A i \in Attempts : i \in queued => status[i] # "none"
  /\ \A i \in Attempts : status[i] # "none" => depApp[i] \in Apps

Consistent == TypeOK /\ SessionsAgree /\ DaemonAgrees /\ RowsAgree

(* The initial state is consistent. *)
LEMMA InitConsistent == Init => Consistent
BY ConstantsAssumption
DEF Init, Consistent, TypeOK, SessionsAgree, DaemonAgrees, RowsAgree, Attempts, AppStatus,
    AttemptStatus, ReceiveStep, GitStep, DaemonStep, Terminal, NoAttempt

-----------------------------------------------------------------------------
(* The attempts that the queries choose. *)

(* The row that a query picks out of a non-empty result is in the result,   *)
(* and the row claimed is the oldest one.                                   *)
LEMMA ChosenAttempts ==
  ASSUME TypeOK
  PROVE  /\ \A a : Recoverable(a) \subseteq Unqueued
         /\ \A a : Recoverable(a) # {} => Min(Recoverable(a)) \in Recoverable(a)
         /\ \A s : AcceptedSince(s) # {} => Min(AcceptedSince(s)) \in Attempts
         /\ \A a, c : OfCommit(a, c) # {} => Max(OfCommit(a, c)) \in OfCommit(a, c)
         /\ \A a : ActiveOf(a) # {} => Min(ActiveOf(a)) \in ActiveOf(a)
         /\ Claimable # {} => NextClaimed \in Claimable /\ \A j \in Claimable : NextClaimed <= j
         /\ Deploying # {} => Min(Deploying) \in Deploying
         /\ todo # {} => Min(todo) \in todo
<1>1. \A a : Recoverable(a) \subseteq Unqueued /\ Recoverable(a) \subseteq Attempts
  BY DEF Recoverable, Unqueued
<1>2. \A s : AcceptedSince(s) \subseteq Attempts
  BY DEF TypeOK, AcceptedSince
<1>3. \A a, c : OfCommit(a, c) \subseteq Attempts
  BY DEF OfCommit
<1>4. \A a : ActiveOf(a) \subseteq Attempts
  BY DEF ActiveOf
<1>5. Claimable \subseteq Attempts /\ Deploying \subseteq Attempts /\ todo \subseteq Attempts
  BY DEF TypeOK, Claimable, Deploying
<1>6. Claimable # {} => NextClaimed \in Claimable /\ \A j \in Claimable : NextClaimed <= j
  BY <1>5, MinOfAttempts DEF NextClaimed
<1>7. Deploying # {} => Min(Deploying) \in Deploying
  BY <1>5, MinOfAttempts
<1>8. todo # {} => Min(todo) \in todo
  BY <1>5, MinOfAttempts
<1>9. \A a : Recoverable(a) # {} => Min(Recoverable(a)) \in Recoverable(a)
  BY <1>1, MinOfAttempts
<1>10. \A s : AcceptedSince(s) # {} => Min(AcceptedSince(s)) \in Attempts
  BY <1>2, MinOfAttempts
<1>11. \A a, c : OfCommit(a, c) # {} => Max(OfCommit(a, c)) \in OfCommit(a, c)
  BY <1>3, MaxOfAttempts
<1>12. \A a : ActiveOf(a) # {} => Min(ActiveOf(a)) \in ActiveOf(a)
  BY <1>4, MinOfAttempts
<1> QED
  BY <1>1, <1>6, <1>7, <1>8, <1>9, <1>10, <1>11, <1>12

(* Every query returns attempts. *)
LEMMA SubsetsOfAttempts ==
  /\ Unqueued \subseteq Attempts
  /\ Deploying \subseteq Attempts
  /\ Claimable \subseteq Attempts
  /\ \A a, c : OfCommit(a, c) \subseteq Attempts /\ Landing(a, c) \subseteq Attempts
  /\ \A a : ActiveOf(a) \subseteq Attempts
BY DEF Unqueued, Deploying, Claimable, OfCommit, Landing, ActiveOf

-----------------------------------------------------------------------------
(* Every action keeps the types, given that the processes hold real rows. *)
LEMMA TypeStep == Consistent /\ [Next]_vars => TypeOK'
<1> SUFFICES ASSUME Consistent, [Next]_vars
             PROVE  TypeOK'
  OBVIOUS
<1> USE ConstantsAssumption, ChosenAttempts, SubsetsOfAttempts
    DEF Consistent, TypeOK, SessionsAgree, DaemonAgrees, vars, storeVars, sessionVars, daemonVars,
        otherThanDaemon, AppStatus, AttemptStatus, ReceiveStep, GitStep, DaemonStep,
        Terminal, Fault, NoFault, GitGoes, LockIsFree
<1>1. ASSUME NEW s \in Sessions, NEW a \in Apps, NEW c \in Commits, Receive(s, a, c)
      PROVE  TypeOK'
  BY <1>1 DEF Receive, Attempts
<1>2. ASSUME NEW r \in Redeployers, NEW a \in Apps, ResolveCurrentMain(r, a)
      PROVE  TypeOK'
  BY <1>2 DEF ResolveCurrentMain
<1>3. ASSUME NEW s \in Sessions, KillReceive(s)
      PROVE  TypeOK'
  <2>1. appLock' \in [Apps -> Sessions \cup {Daemon, None}]
    BY <1>3 DEF KillReceive, Unlocked
  <2>2. /\ rpc' \in [Sessions -> ReceiveStep]
        /\ git' \in [Sessions -> GitStep]
    BY <1>3 DEF KillReceive, Forget
  <2>3. /\ sapp' \in [Sessions -> Apps \cup {None}]
        /\ old' \in [Sessions -> Commits \cup {None}]
        /\ new' \in [Sessions -> Commits \cup {None}]
        /\ before' \in [Sessions -> 0 .. MaxAttempts + 1]
    BY <1>3 DEF KillReceive, Forget
  <2>4. /\ reserved' \in [Sessions -> Attempts \cup {NoAttempt}]
        /\ target' \in [Sessions -> Attempts \cup {NoAttempt}]
    BY <1>3 DEF KillReceive, Forget
  <2> QED
    BY <1>3, <2>1, <2>2, <2>3, <2>4 DEF KillReceive
<1>4. ASSUME NEW s \in Sessions, KillGit(s)
      PROVE  TypeOK'
  BY <1>4 DEF KillGit
<1>5. ASSUME NEW s \in Sessions, PostReceiveFails(s)
      PROVE  TypeOK'
  BY <1>5 DEF PostReceiveFails
<1>6. ASSUME LoseFinish
      PROVE  TypeOK'
  BY <1>6 DEF LoseFinish
<1>7. ASSUME KillDaemon
      PROVE  TypeOK'
  BY <1>7 DEF KillDaemon, Unlocked
<1>8. ASSUME NEW s \in Sessions, ReceiveRecoverResolve(s)
      PROVE  TypeOK'
  BY <1>8 DEF ReceiveRecoverResolve
<1>9. ASSUME NEW s \in Sessions, ReceiveRecoverRecord(s)
      PROVE  TypeOK'
  BY <1>9 DEF ReceiveRecoverRecord, RecordQueued
<1>10. ASSUME NEW s \in Sessions, FinishReceive(s)
      PROVE  TypeOK'
  BY <1>10 DEF FinishReceive
<1>11. ASSUME NEW s \in Sessions, Detach(s)
      PROVE  TypeOK'
  BY <1>11 DEF Detach, Forget
<1>12. ASSUME NEW s \in Sessions, OrphanEnds(s)
      PROVE  TypeOK'
  BY <1>12 DEF OrphanEnds, Forget
<1>13. ASSUME NEW s \in Sessions, PreReceive(s)
      PROVE  TypeOK'
  <2>1. nextID \in Attempts
    BY <1>13 DEF PreReceive, Reserve
  <2>2. /\ status' \in [Attempts -> AttemptStatus]
        /\ depApp' \in [Attempts -> Apps \cup {None}]
        /\ depCommit' \in [Attempts -> Commits \cup {None}]
        /\ depTrigger' \in [Attempts -> {"none", "push", "redeploy"}]
    BY <1>13 DEF PreReceive, Reserve
  <2>3. /\ appStatus' \in [Apps -> AppStatus]
        /\ queued' \subseteq Attempts /\ landed' \subseteq Attempts
        /\ accepted' \subseteq Attempts
    BY <1>13, <2>1 DEF PreReceive, Reserve
  <2>4. nextID' \in 1 .. MaxAttempts + 1
    BY <1>13, <2>1 DEF PreReceive, Reserve, Attempts
  <2>5. /\ reserved' \in [Sessions -> Attempts \cup {NoAttempt}]
        /\ git' \in [Sessions -> GitStep]
    BY <1>13, <2>1 DEF PreReceive
  <2> QED
    BY <1>13, <2>2, <2>3, <2>4, <2>5 DEF PreReceive
<1>14. ASSUME NEW s \in Sessions, PreReceiveRejects(s)
      PROVE  TypeOK'
  BY <1>14 DEF PreReceiveRejects
<1>15. ASSUME NEW s \in Sessions, UpdateRef(s)
      PROVE  TypeOK'
  BY <1>15 DEF UpdateRef
<1>16. ASSUME NEW s \in Sessions, RefuseRef(s)
      PROVE  TypeOK'
  BY <1>16 DEF RefuseRef
<1>17. ASSUME NEW s \in Sessions, PostReceiveFind(s)
      PROVE  TypeOK'
  BY <1>17 DEF PostReceiveFind
<1>18. ASSUME NEW s \in Sessions, PostReceiveRecord(s)
      PROVE  TypeOK'
  BY <1>18 DEF PostReceiveRecord, RecordQueued
<1>19. ASSUME NEW r \in Redeployers, QueueRedeployment(r)
      PROVE  TypeOK'
  BY <1>19 DEF QueueRedeployment, Reserve, Attempts
<1>20. ASSUME NEW r \in Redeployers, RedeployRejected(r)
      PROVE  TypeOK'
  BY <1>20 DEF RedeployRejected
<1>21. ASSUME StartDaemon
      PROVE  TypeOK'
  BY <1>21 DEF StartDaemon
<1>22. ASSUME FailInterrupted
      PROVE  TypeOK'
  BY <1>22 DEF FailInterrupted
<1>23. ASSUME Serve
      PROVE  TypeOK'
  BY <1>23 DEF Serve
<1>24. ASSUME ListUnqueued
      PROVE  TypeOK'
  BY <1>24 DEF ListUnqueued
<1>25. ASSUME GuardNext
      PROVE  TypeOK'
  BY <1>25 DEF GuardNext
<1>26. ASSUME RecoverResolve
      PROVE  TypeOK'
  <2>1. appLock' \in [Apps -> Sessions \cup {Daemon, None}]
    BY <1>26 DEF RecoverResolve
  <2>2. current' \in Attempts \cup {NoAttempt}
    BY <1>26 DEF RecoverResolve
  <2>3. todo' \subseteq Attempts
    BY <1>26 DEF RecoverResolve
  <2> QED
    BY <1>26, <2>1, <2>2, <2>3 DEF RecoverResolve
<1>27. ASSUME RecoverRecord
      PROVE  TypeOK'
  <2>1. current \in Attempts
    BY <1>27 DEF RecoverRecord
  <2>2. appLock' \in [Apps -> Sessions \cup {Daemon, None}]
    BY <1>27 DEF RecoverRecord
  <2>3. accepted' \subseteq Attempts /\ queued' \subseteq Attempts /\ todo' \subseteq Attempts
    BY <1>27, <2>1 DEF RecoverRecord
  <2> QED
    BY <1>27, <2>2, <2>3 DEF RecoverRecord
<1>28. ASSUME Claim
      PROVE  TypeOK'
  BY <1>28 DEF Claim
<1>29. ASSUME NEW result \in Terminal, Execute(result)
      PROVE  TypeOK'
  BY <1>29 DEF Execute, AppStatusAfter
<1>30. ASSUME Finish
      PROVE  TypeOK'
  BY <1>30 DEF Finish
<1>31. ASSUME UNCHANGED vars
      PROVE  TypeOK'
  BY <1>31
<1> QED
  BY <1>1, <1>2, <1>3, <1>4, <1>5, <1>6, <1>7, <1>8, <1>9, <1>10, <1>11,
     <1>12, <1>13, <1>14, <1>15, <1>16, <1>17, <1>18, <1>19, <1>20, <1>21, <1>22,
     <1>23, <1>24, <1>25, <1>26, <1>27, <1>28, <1>29, <1>30, <1>31
  DEF Next, Clients, Faults, SessionStep, GitChildStep, RedeployStep, DaemonStepTaken

-----------------------------------------------------------------------------
(* What the reservation transaction does to the rows. *)
LEMMA ReserveEffect ==
  ASSUME TypeOK, RowsAgree, NEW a, NEW c, NEW trigger, NEW expected,
         Reserve(a, c, trigger, expected)
  PROVE  /\ nextID \in Attempts /\ status[nextID] = "none"
         /\ status'[nextID] = "pending"
         /\ \A i \in Attempts \ {nextID} :
              \/ /\ status'[i] = status[i]
                 /\ trigger = "push" => i # Min(ActiveOf(a)) \/ ActiveOf(a) = {}
              \/ /\ status'[i] = "discarded" /\ trigger = "push"
                 /\ ActiveOf(a) # {} /\ i = Min(ActiveOf(a)) /\ MayDiscard(i, expected)
<1> DEFINE oldest == Min(ActiveOf(a))
<1>1. nextID \in Attempts /\ nextID \in Nat /\ status[nextID] = "none"
  BY DEF Reserve, RowsAgree, Attempts
<1>2. status' = [i \in Attempts |->
                   IF i = nextID THEN "pending"
                   ELSE IF i \in Discards(a, trigger) THEN "discarded" ELSE status[i]]
  BY DEF Reserve
<1>3. ActiveOf(a) # {} => oldest \in ActiveOf(a)
  BY ChosenAttempts
<1>4. ActiveOf(a) # {} => trigger = "push" /\ MayDiscard(oldest, expected)
  BY DEF Reserve, Admits
<1>5. Discards(a, trigger) = IF ActiveOf(a) # {} THEN {oldest} ELSE {}
  BY <1>3, <1>4 DEF Discards
<1> QED
  BY <1>1, <1>2, <1>4, <1>5


-----------------------------------------------------------------------------
(* The steps that change the deployments table or its events, apart from   *)
(* the two that insert a row.                                               *)

NoRowStep == UNCHANGED <<depApp, depCommit, depTrigger, status, accepted, queued, nextID>>

(* An attempt's acceptance is recorded, by the hook or by a recovery. *)
IsHeld(i) ==
  \/ \E s \in Sessions : (rpc[s] = "recovering" \/ git[s] = "found") /\ i = target[s]
  \/ daemon = "recovering" /\ i = current

RecordStep ==
  \E i \in Attempts :
    /\ IsHeld(i) /\ status[i] # "none"
    /\ accepted' = accepted \cup {i} /\ queued' = queued \cup {i}
    /\ UNCHANGED <<depApp, depCommit, depTrigger, status, nextID>>

(* The daemon claims the oldest queued attempt, *)
ClaimStep ==
  \E i \in Claimable :
    /\ \A j \in Claimable : i <= j
    /\ status' = [status EXCEPT ![i] = "deploying"]
    /\ UNCHANGED <<depApp, depCommit, depTrigger, accepted, queued, nextID>>

(* and ends the one it executed, or one that a dead daemon left. *)
EndStep ==
  \E i \in Deploying, result \in Terminal :
    /\ status' = [status EXCEPT ![i] = result]
    /\ daemon = "starting" \/ daemon' = "scanning"
    /\ UNCHANGED <<depApp, depCommit, depTrigger, accepted, queued, nextID>>

PushReserves ==
  \E s \in Sessions :
    git[s] = "advertised" /\ sapp[s] \in Apps /\ Reserve(sapp[s], new[s], "push", old[s])
RedeployQueues ==
  \E r \in Redeployers, a \in Apps, c \in Commits : Reserve(a, c, "redeploy", None)

RowStep ==
  NoRowStep \/ RecordStep \/ ClaimStep \/ EndStep \/ PushReserves \/ RedeployQueues

(* Nothing else touches the table. *)
LEMMA EveryStepIsRowStep == Consistent /\ [Next]_vars => RowStep
<1> SUFFICES ASSUME Consistent, [Next]_vars
             PROVE  RowStep
  OBVIOUS
<1> USE ChosenAttempts
    DEF Consistent, TypeOK, RowStep, vars, storeVars, sessionVars, daemonVars, otherThanDaemon
<1>1. ASSUME NEW s \in Sessions, NEW a \in Apps, NEW c \in Commits, Receive(s, a, c)
      PROVE  RowStep
  BY <1>1 DEF Receive, NoRowStep
<1>2. ASSUME NEW r \in Redeployers, NEW a \in Apps, ResolveCurrentMain(r, a)
      PROVE  RowStep
  BY <1>2 DEF ResolveCurrentMain, NoRowStep
<1>3. ASSUME NEW s \in Sessions, KillReceive(s)
      PROVE  RowStep
  BY <1>3 DEF KillReceive, NoRowStep
<1>4. ASSUME NEW s \in Sessions, KillGit(s)
      PROVE  RowStep
  BY <1>4 DEF KillGit, NoRowStep
<1>5. ASSUME NEW s \in Sessions, PostReceiveFails(s)
      PROVE  RowStep
  BY <1>5 DEF PostReceiveFails, NoRowStep
<1>6. ASSUME LoseFinish
      PROVE  RowStep
  BY <1>6 DEF LoseFinish, NoRowStep
<1>7. ASSUME KillDaemon
      PROVE  RowStep
  BY <1>7 DEF KillDaemon, NoRowStep
<1>8. ASSUME NEW s \in Sessions, ReceiveRecoverResolve(s)
      PROVE  RowStep
  BY <1>8 DEF ReceiveRecoverResolve, NoRowStep
<1>9. ASSUME NEW s \in Sessions, ReceiveRecoverRecord(s)
      PROVE  RowStep
  BY <1>9 DEF ReceiveRecoverRecord, RecordQueued, RecordStep, IsHeld, SessionsAgree
<1>10. ASSUME NEW s \in Sessions, FinishReceive(s)
      PROVE  RowStep
  BY <1>10 DEF FinishReceive, NoRowStep
<1>11. ASSUME NEW s \in Sessions, Detach(s)
      PROVE  RowStep
  BY <1>11 DEF Detach, NoRowStep
<1>12. ASSUME NEW s \in Sessions, OrphanEnds(s)
      PROVE  RowStep
  BY <1>12 DEF OrphanEnds, NoRowStep
<1>13. ASSUME NEW s \in Sessions, PreReceive(s)
      PROVE  RowStep
  BY <1>13 DEF PreReceive, PushReserves, SessionsAgree
<1>14. ASSUME NEW s \in Sessions, PreReceiveRejects(s)
      PROVE  RowStep
  BY <1>14 DEF PreReceiveRejects, NoRowStep
<1>15. ASSUME NEW s \in Sessions, UpdateRef(s)
      PROVE  RowStep
  BY <1>15 DEF UpdateRef, NoRowStep
<1>16. ASSUME NEW s \in Sessions, RefuseRef(s)
      PROVE  RowStep
  BY <1>16 DEF RefuseRef, NoRowStep
<1>17. ASSUME NEW s \in Sessions, PostReceiveFind(s)
      PROVE  RowStep
  BY <1>17 DEF PostReceiveFind, NoRowStep
<1>18. ASSUME NEW s \in Sessions, PostReceiveRecord(s)
      PROVE  RowStep
  BY <1>18 DEF PostReceiveRecord, RecordQueued, RecordStep, IsHeld, SessionsAgree
<1>19. ASSUME NEW r \in Redeployers, QueueRedeployment(r)
      PROVE  RowStep
  BY <1>19 DEF QueueRedeployment, RedeployQueues
<1>20. ASSUME NEW r \in Redeployers, RedeployRejected(r)
      PROVE  RowStep
  BY <1>20 DEF RedeployRejected, NoRowStep
<1>21. ASSUME StartDaemon
      PROVE  RowStep
  BY <1>21 DEF StartDaemon, NoRowStep
<1>22. ASSUME FailInterrupted
      PROVE  RowStep
  BY <1>22 DEF FailInterrupted, EndStep, Terminal
<1>23. ASSUME Serve
      PROVE  RowStep
  BY <1>23 DEF Serve, NoRowStep
<1>24. ASSUME ListUnqueued
      PROVE  RowStep
  BY <1>24 DEF ListUnqueued, NoRowStep
<1>25. ASSUME GuardNext
      PROVE  RowStep
  BY <1>25 DEF GuardNext, NoRowStep
<1>26. ASSUME RecoverResolve
      PROVE  RowStep
  BY <1>26 DEF RecoverResolve, NoRowStep
<1>27. ASSUME RecoverRecord
      PROVE  RowStep
  BY <1>27 DEF RecoverRecord, RecordStep, IsHeld, DaemonAgrees
<1>28. ASSUME Claim
      PROVE  RowStep
  BY <1>28 DEF Claim, ClaimStep, NoRowStep
<1>29. ASSUME NEW result \in Terminal, Execute(result)
      PROVE  RowStep
  BY <1>29 DEF Execute, NoRowStep
<1>30. ASSUME Finish
      PROVE  RowStep
  BY <1>30 DEF Finish, EndStep, DaemonAgrees, Deploying
<1>31. ASSUME UNCHANGED vars
      PROVE  RowStep
  BY <1>31 DEF NoRowStep
<1> QED
  BY <1>1, <1>2, <1>3, <1>4, <1>5, <1>6, <1>7, <1>8, <1>9, <1>10, <1>11,
     <1>12, <1>13, <1>14, <1>15, <1>16, <1>17, <1>18, <1>19, <1>20, <1>21, <1>22,
     <1>23, <1>24, <1>25, <1>26, <1>27, <1>28, <1>29, <1>30, <1>31
  DEF Next, Clients, Faults, SessionStep, GitChildStep, RedeployStep, DaemonStepTaken

(* A row never disappears without a trace nor changes its app, commit or   *)
(* trigger, and one that is deploying changes only when the daemon ends it. *)
RowsKept ==
  \A i \in Attempts :
    /\ status[i] # "none" =>
         /\ status'[i] # "none"
         /\ depApp'[i] = depApp[i] /\ depCommit'[i] = depCommit[i]
         /\ depTrigger'[i] = depTrigger[i]
    /\ status[i] = "deploying" /\ status'[i] # "deploying"
         => daemon = "starting" \/ daemon' = "scanning"

(* The transactions keep rows in place, and inserts follow their order. *)
LEMMA RowsKeptStep == Consistent /\ RowStep => RowsKept /\ RowsAgree'
<1> SUFFICES ASSUME Consistent, RowStep
             PROVE  RowsKept /\ RowsAgree'
  OBVIOUS
<1> USE DEF RowsKept, RowsAgree, Consistent, TypeOK
<1>1. CASE NoRowStep \/ RecordStep
  BY <1>1 DEF NoRowStep, RecordStep
<1>2. CASE ClaimStep
  BY <1>2 DEF ClaimStep, Claimable
<1>3. CASE EndStep
  BY <1>3 DEF EndStep, Deploying, Terminal
<1>4. ASSUME NEW a \in Apps, NEW c, NEW trigger, NEW expected, Reserve(a, c, trigger, expected)
      PROVE  RowsKept /\ RowsAgree'
  <2>1. /\ nextID' = nextID + 1
        /\ queued' = queued \/ queued' = queued \cup {nextID}
        /\ depApp' = [depApp EXCEPT ![nextID] = a]
        /\ depCommit' = [depCommit EXCEPT ![nextID] = c]
        /\ depTrigger' = [depTrigger EXCEPT ![nextID] = trigger]
    BY <1>4 DEF Reserve
  <2>2. /\ nextID \in Attempts /\ status'[nextID] = "pending" /\ status[nextID] = "none"
        /\ \A i \in Attempts \ {nextID} :
             status'[i] = status[i] \/ (status[i] = "pending" /\ status'[i] = "discarded")
    BY <1>4, ReserveEffect DEF MayDiscard
  <2> QED
    BY <2>1, <2>2 DEF Attempts
<1> QED
  BY <1>1, <1>2, <1>3, <1>4 DEF RowStep, PushReserves, RedeployQueues

-----------------------------------------------------------------------------
(* No transaction of another process takes away the row that a session is   *)
(* about to record: rows are discarded, never emptied.                      *)
LEMMA SessionsStep == Consistent /\ [Next]_vars => SessionsAgree'
<1> SUFFICES ASSUME Consistent, [Next]_vars, RowsKept
             PROVE  SessionsAgree'
  BY EveryStepIsRowStep, RowsKeptStep
<1> USE ConstantsAssumption, ChosenAttempts, SubsetsOfAttempts
    DEF Consistent, TypeOK, SessionsAgree, RowsKept, vars, storeVars, sessionVars, daemonVars,
        otherThanDaemon, GitGoes
<1>1. ASSUME NEW s \in Sessions, NEW a \in Apps, NEW c \in Commits, Receive(s, a, c)
      PROVE  SessionsAgree'
  BY <1>1 DEF Receive
<1>2. ASSUME NEW r \in Redeployers, NEW a \in Apps, ResolveCurrentMain(r, a)
      PROVE  SessionsAgree'
  BY <1>2 DEF ResolveCurrentMain
<1>3. ASSUME NEW s \in Sessions, KillReceive(s)
      PROVE  SessionsAgree'
  BY <1>3 DEF KillReceive, Forget
<1>4. ASSUME NEW s \in Sessions, KillGit(s)
      PROVE  SessionsAgree'
  BY <1>4 DEF KillGit
<1>5. ASSUME NEW s \in Sessions, PostReceiveFails(s)
      PROVE  SessionsAgree'
  BY <1>5 DEF PostReceiveFails
<1>6. ASSUME LoseFinish
      PROVE  SessionsAgree'
  BY <1>6 DEF LoseFinish
<1>7. ASSUME KillDaemon
      PROVE  SessionsAgree'
  BY <1>7 DEF KillDaemon
<1>8. ASSUME NEW s \in Sessions, ReceiveRecoverResolve(s)
      PROVE  SessionsAgree'
  BY <1>8 DEF ReceiveRecoverResolve, Unqueued
<1>9. ASSUME NEW s \in Sessions, ReceiveRecoverRecord(s)
      PROVE  SessionsAgree'
  BY <1>9 DEF ReceiveRecoverRecord, RecordQueued
<1>10. ASSUME NEW s \in Sessions, FinishReceive(s)
      PROVE  SessionsAgree'
  BY <1>10 DEF FinishReceive
<1>11. ASSUME NEW s \in Sessions, Detach(s)
      PROVE  SessionsAgree'
  BY <1>11 DEF Detach, Forget
<1>12. ASSUME NEW s \in Sessions, OrphanEnds(s)
      PROVE  SessionsAgree'
  BY <1>12 DEF OrphanEnds, Forget
<1>13. ASSUME NEW s \in Sessions, PreReceive(s)
      PROVE  SessionsAgree'
  BY <1>13 DEF PreReceive
<1>14. ASSUME NEW s \in Sessions, PreReceiveRejects(s)
      PROVE  SessionsAgree'
  BY <1>14 DEF PreReceiveRejects
<1>15. ASSUME NEW s \in Sessions, UpdateRef(s)
      PROVE  SessionsAgree'
  BY <1>15 DEF UpdateRef
<1>16. ASSUME NEW s \in Sessions, RefuseRef(s)
      PROVE  SessionsAgree'
  BY <1>16 DEF RefuseRef
<1>17. ASSUME NEW s \in Sessions, PostReceiveFind(s)
      PROVE  SessionsAgree'
  <2>1. ASSUME OfCommit(sapp[s], new[s]) # {}
        PROVE  Max(OfCommit(sapp[s], new[s])) \in Attempts
               /\ status[Max(OfCommit(sapp[s], new[s]))] # "none"
    <3>1. \A i \in OfCommit(sapp[s], new[s]) : i \in Attempts /\ status[i] # "none"
      BY DEF OfCommit
    <3> QED
      BY <2>1, <3>1
  <2>2. target' = IF OfCommit(sapp[s], new[s]) # {}
                  THEN [target EXCEPT ![s] = Max(OfCommit(sapp[s], new[s]))] ELSE target
    BY <1>17 DEF PostReceiveFind
  <2>3. git' = [git EXCEPT ![s] = IF OfCommit(sapp[s], new[s]) # {} THEN "found" ELSE "exited"]
    BY <1>17 DEF PostReceiveFind
  <2>4. UNCHANGED <<rpc, sapp, status>> /\ git[s] = "updated"
    BY <1>17 DEF PostReceiveFind
  <2> QED
    BY <2>1, <2>2, <2>3, <2>4
<1>18. ASSUME NEW s \in Sessions, PostReceiveRecord(s)
      PROVE  SessionsAgree'
  BY <1>18 DEF PostReceiveRecord, RecordQueued
<1>19. ASSUME NEW r \in Redeployers, QueueRedeployment(r)
      PROVE  SessionsAgree'
  BY <1>19 DEF QueueRedeployment
<1>20. ASSUME NEW r \in Redeployers, RedeployRejected(r)
      PROVE  SessionsAgree'
  BY <1>20 DEF RedeployRejected
<1>21. ASSUME StartDaemon
      PROVE  SessionsAgree'
  BY <1>21 DEF StartDaemon
<1>22. ASSUME FailInterrupted
      PROVE  SessionsAgree'
  BY <1>22 DEF FailInterrupted
<1>23. ASSUME Serve
      PROVE  SessionsAgree'
  BY <1>23 DEF Serve
<1>24. ASSUME ListUnqueued
      PROVE  SessionsAgree'
  BY <1>24 DEF ListUnqueued
<1>25. ASSUME GuardNext
      PROVE  SessionsAgree'
  BY <1>25 DEF GuardNext
<1>26. ASSUME RecoverResolve
      PROVE  SessionsAgree'
  BY <1>26 DEF RecoverResolve
<1>27. ASSUME RecoverRecord
      PROVE  SessionsAgree'
  BY <1>27 DEF RecoverRecord
<1>28. ASSUME Claim
      PROVE  SessionsAgree'
  BY <1>28 DEF Claim
<1>29. ASSUME NEW result \in Terminal, Execute(result)
      PROVE  SessionsAgree'
  BY <1>29 DEF Execute
<1>30. ASSUME Finish
      PROVE  SessionsAgree'
  BY <1>30 DEF Finish
<1>31. ASSUME UNCHANGED vars
      PROVE  SessionsAgree'
  BY <1>31
<1> QED
  BY <1>1, <1>2, <1>3, <1>4, <1>5, <1>6, <1>7, <1>8, <1>9, <1>10, <1>11,
     <1>12, <1>13, <1>14, <1>15, <1>16, <1>17, <1>18, <1>19, <1>20, <1>21, <1>22,
     <1>23, <1>24, <1>25, <1>26, <1>27, <1>28, <1>29, <1>30, <1>31
  DEF Next, Clients, Faults, SessionStep, GitChildStep, RedeployStep, DaemonStepTaken

(* The daemon keeps hold of a real row in every phase, and the row it       *)
(* executes stays deploying whatever the other processes do.                *)
LEMMA DaemonRowsStep == Consistent /\ [Next]_vars => DaemonAgrees'
<1> SUFFICES ASSUME Consistent, [Next]_vars, RowsKept
             PROVE  DaemonAgrees'
  BY EveryStepIsRowStep, RowsKeptStep
<1> USE ConstantsAssumption, ChosenAttempts, SubsetsOfAttempts
    DEF Consistent, TypeOK, DaemonAgrees, RowsKept, vars, storeVars, daemonVars, otherThanDaemon
<1>1. ASSUME NEW s \in Sessions, NEW a \in Apps, NEW c \in Commits, Receive(s, a, c)
      PROVE  DaemonAgrees'
  BY <1>1 DEF Receive
<1>2. ASSUME NEW r \in Redeployers, NEW a \in Apps, ResolveCurrentMain(r, a)
      PROVE  DaemonAgrees'
  BY <1>2 DEF ResolveCurrentMain
<1>3. ASSUME NEW s \in Sessions, KillReceive(s)
      PROVE  DaemonAgrees'
  BY <1>3 DEF KillReceive
<1>4. ASSUME NEW s \in Sessions, KillGit(s)
      PROVE  DaemonAgrees'
  BY <1>4 DEF KillGit
<1>5. ASSUME NEW s \in Sessions, PostReceiveFails(s)
      PROVE  DaemonAgrees'
  BY <1>5 DEF PostReceiveFails
<1>6. ASSUME LoseFinish
      PROVE  DaemonAgrees'
  BY <1>6 DEF LoseFinish
<1>7. ASSUME KillDaemon
      PROVE  DaemonAgrees'
  BY <1>7 DEF KillDaemon
<1>8. ASSUME NEW s \in Sessions, ReceiveRecoverResolve(s)
      PROVE  DaemonAgrees'
  BY <1>8 DEF ReceiveRecoverResolve
<1>9. ASSUME NEW s \in Sessions, ReceiveRecoverRecord(s)
      PROVE  DaemonAgrees'
  BY <1>9 DEF ReceiveRecoverRecord
<1>10. ASSUME NEW s \in Sessions, FinishReceive(s)
      PROVE  DaemonAgrees'
  BY <1>10 DEF FinishReceive
<1>11. ASSUME NEW s \in Sessions, Detach(s)
      PROVE  DaemonAgrees'
  BY <1>11 DEF Detach
<1>12. ASSUME NEW s \in Sessions, OrphanEnds(s)
      PROVE  DaemonAgrees'
  BY <1>12 DEF OrphanEnds
<1>13. ASSUME NEW s \in Sessions, PreReceive(s)
      PROVE  DaemonAgrees'
  BY <1>13 DEF PreReceive
<1>14. ASSUME NEW s \in Sessions, PreReceiveRejects(s)
      PROVE  DaemonAgrees'
  BY <1>14 DEF PreReceiveRejects
<1>15. ASSUME NEW s \in Sessions, UpdateRef(s)
      PROVE  DaemonAgrees'
  BY <1>15 DEF UpdateRef
<1>16. ASSUME NEW s \in Sessions, RefuseRef(s)
      PROVE  DaemonAgrees'
  BY <1>16 DEF RefuseRef
<1>17. ASSUME NEW s \in Sessions, PostReceiveFind(s)
      PROVE  DaemonAgrees'
  BY <1>17 DEF PostReceiveFind
<1>18. ASSUME NEW s \in Sessions, PostReceiveRecord(s)
      PROVE  DaemonAgrees'
  BY <1>18 DEF PostReceiveRecord
<1>19. ASSUME NEW r \in Redeployers, QueueRedeployment(r)
      PROVE  DaemonAgrees'
  BY <1>19 DEF QueueRedeployment
<1>20. ASSUME NEW r \in Redeployers, RedeployRejected(r)
      PROVE  DaemonAgrees'
  BY <1>20 DEF RedeployRejected
<1>21. ASSUME StartDaemon
      PROVE  DaemonAgrees'
  BY <1>21 DEF StartDaemon
<1>22. ASSUME FailInterrupted
      PROVE  DaemonAgrees'
  BY <1>22 DEF FailInterrupted
<1>23. ASSUME Serve
      PROVE  DaemonAgrees'
  BY <1>23 DEF Serve
<1>24. ASSUME ListUnqueued
      PROVE  DaemonAgrees'
  BY <1>24 DEF ListUnqueued, Unqueued
<1>25. ASSUME GuardNext
      PROVE  DaemonAgrees'
  BY <1>25 DEF GuardNext
<1>26. ASSUME RecoverResolve
      PROVE  DaemonAgrees'
  BY <1>26 DEF RecoverResolve, Unqueued
<1>27. ASSUME RecoverRecord
      PROVE  DaemonAgrees'
  BY <1>27 DEF RecoverRecord
<1>28. ASSUME Claim
      PROVE  DaemonAgrees'
  BY <1>28 DEF Claim, Claimable
<1>29. ASSUME NEW result \in Terminal, Execute(result)
      PROVE  DaemonAgrees'
  BY <1>29 DEF Execute
<1>30. ASSUME Finish
      PROVE  DaemonAgrees'
  BY <1>30 DEF Finish
<1>31. ASSUME UNCHANGED vars
      PROVE  DaemonAgrees'
  BY <1>31
<1> QED
  BY <1>1, <1>2, <1>3, <1>4, <1>5, <1>6, <1>7, <1>8, <1>9, <1>10, <1>11,
     <1>12, <1>13, <1>14, <1>15, <1>16, <1>17, <1>18, <1>19, <1>20, <1>21, <1>22,
     <1>23, <1>24, <1>25, <1>26, <1>27, <1>28, <1>29, <1>30, <1>31
  DEF Next, Clients, Faults, SessionStep, GitChildStep, RedeployStep, DaemonStepTaken

(* The parts together are inductive. *)
LEMMA ConsistentStep == Consistent /\ [Next]_vars => Consistent'
BY TypeStep, SessionsStep, DaemonRowsStep, EveryStepIsRowStep, RowsKeptStep DEF Consistent

(* They hold in every behaviour. *)
LEMMA AlwaysConsistent == Spec => []Consistent
<1> QED
  BY InitConsistent, ConsistentStep, PTL DEF Spec

(* Every variable keeps its type, in every interleaving of pushes, hooks,  *)
(* redeploys, recoveries, crashes and restarts: no process ever records,   *)
(* claims, executes or ends an attempt it does not hold.                    *)
THEOREM TypeCorrect == Spec => []TypeOK
<1>1. Consistent => TypeOK
  BY DEF Consistent
<1> QED
  BY <1>1, AlwaysConsistent, PTL

-----------------------------------------------------------------------------
(* A reservation is admitted beside no other active row, or in the place of *)
(* the one it discards.                                                     *)
LEMMA OneActiveStep == Consistent /\ OneActivePerApp /\ RowStep => OneActivePerApp'
<1> SUFFICES ASSUME Consistent, OneActivePerApp, RowStep
             PROVE  OneActivePerApp'
  OBVIOUS
<1> USE DEF OneActivePerApp, IsActive
<1>1. CASE NoRowStep \/ RecordStep
  BY <1>1 DEF NoRowStep, RecordStep
<1>2. CASE ClaimStep
  BY <1>2 DEF ClaimStep, Claimable, Consistent, TypeOK
<1>3. CASE EndStep
  BY <1>3 DEF EndStep, Deploying, Consistent, TypeOK, Terminal
<1>4. ASSUME NEW a, NEW c, NEW trigger, NEW expected, Reserve(a, c, trigger, expected)
      PROVE  OneActivePerApp'
  (* The transaction leaves no other row of the app active. *)
  <2>1. /\ nextID \in Attempts
        /\ status'[nextID] = "pending"
        /\ \A i \in Attempts \ {nextID} : status'[i] = status[i] \/ status'[i] = "discarded"
    BY <1>4, ReserveEffect DEF Consistent
  <2>2. depApp' = [depApp EXCEPT ![nextID] = a] /\ depApp \in [Attempts -> Apps \cup {None}]
    BY <1>4 DEF Reserve, Consistent, TypeOK
  <2>3. ASSUME NEW i \in Attempts \ {nextID}, depApp[i] = a
        PROVE  ~ IsActive(i)'
    <3>1. CASE ActiveOf(a) = {}
      <4>1. ~ IsActive(i)
        BY <2>3, <3>1 DEF ActiveOf
      <4> QED
        BY <2>1, <4>1
    <3>2. CASE ActiveOf(a) # {}
      <4>1. \A j \in ActiveOf(a) : j = Min(ActiveOf(a))
        <5>1. Min(ActiveOf(a)) \in ActiveOf(a)
          BY <3>2, ChosenAttempts DEF Consistent
        <5> QED
          BY <5>1 DEF ActiveOf
      <4>2. trigger = "push"
        BY <1>4, <3>2 DEF Reserve, Admits
      <4>3. IsActive(i) => status'[i] = "discarded"
        <5>1. SUFFICES ASSUME IsActive(i) PROVE status'[i] = "discarded"
          OBVIOUS
        <5>2. i \in ActiveOf(a)
          BY <5>1, <2>3 DEF ActiveOf
        <5> QED
          BY <1>4, <3>2, <4>1, <4>2, <5>2, ReserveEffect DEF Consistent
      <4> QED
        BY <2>1, <4>3
    <3> QED
      BY <3>1, <3>2
  <2>4. \A i, j \in Attempts \ {nextID} :
          IsActive(i)' /\ IsActive(j)' /\ depApp'[i] = depApp'[j] => i = j
    BY <2>1, <2>2
  <2> QED
    BY <2>1, <2>2, <2>3, <2>4
<1> QED
  BY <1>1, <1>2, <1>3, <1>4 DEF RowStep, PushReserves, RedeployQueues

(* README.md:120: whatever pushes, redeploys and recoveries run at once,   *)
(* an app never has two attempts pending or deploying.                      *)
THEOREM OneActive == Spec => []OneActivePerApp
<1>1. Init => OneActivePerApp
  BY DEF Init, OneActivePerApp, IsActive
<1>2. Consistent /\ OneActivePerApp /\ [Next]_vars => OneActivePerApp'
  BY EveryStepIsRowStep, OneActiveStep
<1> QED
  BY <1>1, <1>2, AlwaysConsistent, PTL DEF Spec

-----------------------------------------------------------------------------
(* An attempt that ended has another status than discarded, and the only    *)
(* row a reservation discards has no acceptance on record.                  *)
LEMMA AcceptedKeptStep ==
  Consistent /\ RowStep =>
    \A i \in Attempts :
      i \in accepted /\ status[i] # "discarded" => status'[i] # "discarded"
<1> SUFFICES ASSUME Consistent, RowStep,
                    NEW i \in Attempts, i \in accepted, status[i] # "discarded"
             PROVE  status'[i] # "discarded"
  OBVIOUS
<1>1. CASE NoRowStep \/ RecordStep
  BY <1>1 DEF NoRowStep, RecordStep
<1>2. CASE ClaimStep
  BY <1>2 DEF ClaimStep, Claimable, Consistent, TypeOK
<1>3. CASE EndStep
  BY <1>3 DEF EndStep, Deploying, Consistent, TypeOK, Terminal
<1>4. ASSUME NEW a, NEW c, NEW trigger, NEW expected, Reserve(a, c, trigger, expected)
      PROVE  status'[i] # "discarded"
  BY <1>4, ReserveEffect DEF Consistent, MayDiscard
<1> QED
  BY <1>1, <1>2, <1>3, <1>4 DEF RowStep, PushReserves, RedeployQueues

(* README.md:116: once the acceptance of a push is on record no later push  *)
(* takes its attempt away, also one whose receive was killed or orphaned.   *)
THEOREM AcceptedStay == Spec => AcceptedIsKept
<1>1. Consistent /\ [Next]_vars =>
        [\A i \in Attempts :
           i \in accepted /\ status[i] # "discarded" => status'[i] # "discarded"]_vars
  BY EveryStepIsRowStep, AcceptedKeptStep
<1> QED
  BY <1>1, AlwaysConsistent, PTL DEF Spec, AcceptedIsKept

-----------------------------------------------------------------------------
(* The queue implements AttemptLifecycle. *)

Phase == [i \in Attempts |-> PhaseOf(i)]

(* No attempt exists initially, in the queue and in its abstract life. *)
LEMMA LifecycleInit == Init => Lifecycle!Init
BY DEF Init, Lifecycle!Init, Lifecycle!Attempts, Attempts, PhaseOf

(* A step that changes the table changes the phase of one attempt, or of   *)
(* two when a reservation is replaced, as the abstract life allows.         *)
LEMMA LifecycleStep ==
  Consistent /\ OneActivePerApp /\ RowStep => [Lifecycle!Next]_(Lifecycle!vars)
<1> SUFFICES ASSUME Consistent, OneActivePerApp, RowStep
             PROVE  Lifecycle!Next \/ (Phase' = Phase /\ depApp' = depApp)
  BY DEF Lifecycle!vars, Phase
<1> USE DEF Consistent, TypeOK, Phase, PhaseOf
<1>1. CASE NoRowStep
  BY <1>1 DEF NoRowStep
<1>2. CASE RecordStep
  <2>1. PICK i \in Attempts :
          /\ status[i] # "none"
          /\ queued' = queued \cup {i}
          /\ UNCHANGED <<depApp, status>>
    BY <1>2 DEF RecordStep
  <2>2. CASE status[i] = "pending" /\ i \notin queued
    <3>1. Phase[i] = "reserved" /\ Phase' = [Phase EXCEPT ![i] = "queued"]
      BY <2>1, <2>2
    <3>2. Lifecycle!Accept(i)
      BY <2>1, <3>1 DEF Lifecycle!Accept
    <3> QED
      BY <3>2 DEF Lifecycle!Next, Lifecycle!Attempts, Attempts
  <2>3. CASE status[i] # "pending" \/ i \in queued
    BY <2>1, <2>3
  <2> QED
    BY <2>2, <2>3
<1>3. CASE ClaimStep
  <2>1. PICK i \in Claimable :
          /\ \A j \in Claimable : i <= j
          /\ status' = [status EXCEPT ![i] = "deploying"]
          /\ UNCHANGED <<depApp, queued>>
    BY <1>3 DEF ClaimStep
  <2>2. i \in Attempts /\ status[i] = "pending" /\ i \in queued
    BY DEF Claimable
  <2>3. Phase[i] = "queued" /\ Phase' = [Phase EXCEPT ![i] = "deploying"]
    BY <2>1, <2>2
  <2>4. \A j \in Attempts : Phase[j] = "queued" => j \in Claimable
    BY DEF Claimable, AttemptStatus
  <2>5. Lifecycle!Start(i)
    BY <2>1, <2>3, <2>4 DEF Lifecycle!Start, Lifecycle!Attempts, Attempts
  <2> QED
    BY <2>2, <2>5 DEF Lifecycle!Next, Lifecycle!Attempts, Attempts
<1>4. CASE EndStep
  <2>1. PICK i \in Deploying, result \in Terminal :
          /\ status' = [status EXCEPT ![i] = result]
          /\ UNCHANGED <<depApp, queued>>
    BY <1>4 DEF EndStep
  <2>2. i \in Attempts /\ Phase[i] = "deploying" /\ Phase' = [Phase EXCEPT ![i] = result]
    BY <2>1 DEF Deploying, Terminal
  <2>3. Lifecycle!End(i)
    BY <2>1, <2>2 DEF Lifecycle!End, Lifecycle!Ended, Terminal
  <2> QED
    BY <2>2, <2>3 DEF Lifecycle!Next, Lifecycle!Attempts, Attempts
<1>5. ASSUME NEW a \in Apps, NEW c, NEW trigger \in {"push", "redeploy"}, NEW expected,
             Reserve(a, c, trigger, expected)
      PROVE  Lifecycle!Next
  <2> DEFINE p == IF trigger = "redeploy" THEN "queued" ELSE "reserved"
  <2>1. /\ nextID \in Attempts /\ status[nextID] = "none" /\ status'[nextID] = "pending"
        /\ nextID \notin queued
        /\ \A i \in Attempts \ {nextID} :
             \/ status'[i] = status[i] /\ (trigger = "push" => i # Min(ActiveOf(a)) \/ ActiveOf(a) = {})
             \/ /\ status'[i] = "discarded" /\ trigger = "push"
                /\ ActiveOf(a) # {} /\ i = Min(ActiveOf(a)) /\ MayDiscard(i, expected)
    BY <1>5, ReserveEffect DEF RowsAgree
  <2>2. /\ depApp' = [depApp EXCEPT ![nextID] = a]
        /\ queued' = IF trigger = "redeploy" THEN queued \cup {nextID} ELSE queued
    BY <1>5 DEF Reserve
  <2>3. Phase[nextID] = "none" /\ Phase'[nextID] = p
    BY <2>1, <2>2
  <2>4. Lifecycle!ActiveOf(a) = ActiveOf(a)
    BY DEF Lifecycle!ActiveOf, Lifecycle!Attempts, Lifecycle!Active, ActiveOf, IsActive,
           Attempts, AttemptStatus
  <2>5. CASE ActiveOf(a) = {}
    <3>1. \A i \in Attempts \ {nextID} : status'[i] = status[i]
      BY <2>1, <2>5
    <3>2. Phase' = [Phase EXCEPT ![nextID] = p]
      BY <2>1, <2>2, <2>3, <3>1
    <3>3. Lifecycle!Admit(nextID, a, p)
      BY <2>2, <2>3, <2>4, <2>5, <3>2 DEF Lifecycle!Admit
    <3> QED
      BY <2>1, <3>3 DEF Lifecycle!Next, Lifecycle!Attempts, Attempts
  <2>6. CASE ActiveOf(a) # {}
    <3> DEFINE j == Min(ActiveOf(a))
    <3>1. trigger = "push" /\ MayDiscard(j, expected)
      BY <1>5, <2>6 DEF Reserve, Admits
    <3>2. j \in ActiveOf(a) /\ j \in Attempts /\ depApp[j] = a
      <4>1. j \in ActiveOf(a)
        BY <2>6, ChosenAttempts
      <4> QED
        BY <4>1 DEF ActiveOf
    <3>3. ActiveOf(a) = {j}
      BY <3>2 DEF ActiveOf, OneActivePerApp
    <3>4. Phase[j] = "reserved" /\ j # nextID
      BY <2>1, <3>1, <3>2 DEF MayDiscard
    <3>5. status'[j] = "discarded" /\ \A i \in Attempts \ {nextID, j} : status'[i] = status[i]
      BY <2>1, <2>6, <3>1, <3>2, <3>4
    <3>6. Phase' = [Phase EXCEPT ![nextID] = "reserved", ![j] = "discarded"]
      BY <2>1, <2>2, <2>3, <3>1, <3>4, <3>5
    <3>7. Lifecycle!Replace(nextID, j, a)
      BY <2>2, <2>3, <2>4, <3>3, <3>4, <3>6 DEF Lifecycle!Replace
    <3> QED
      BY <2>1, <3>2, <3>7 DEF Lifecycle!Next, Lifecycle!Attempts, Attempts
  <2> QED
    BY <2>5, <2>6
<1>6. CASE PushReserves
  BY <1>5, <1>6 DEF PushReserves
<1>7. CASE RedeployQueues
  BY <1>5, <1>7 DEF RedeployQueues
<1> QED
  BY <1>1, <1>2, <1>3, <1>4, <1>6, <1>7 DEF RowStep

(* README.md:120 and 162: the queue with all its processes, crashes and    *)
(* lost writes implements the abstract life of attempts: only a reservation *)
(* is ever replaced, the oldest queued attempt is claimed, and an attempt   *)
(* ends at most once.                                                       *)
THEOREM Implements == Spec => ImplementsLifecycle
<1>1. Consistent /\ OneActivePerApp /\ [Next]_vars => [Lifecycle!Next]_(Lifecycle!vars)
  BY EveryStepIsRowStep, LifecycleStep
<1> QED
  BY <1>1, LifecycleInit, AlwaysConsistent, OneActive, PTL DEF Spec, ImplementsLifecycle, Lifecycle!Spec

-----------------------------------------------------------------------------
(* What the app lock buys when a killed receive takes git-receive-pack      *)
(* with it (AllowOrphans = FALSE): main moves only under the lock, so a     *)
(* reservation for the commit that main holds is one that Git accepted, a   *)
(* receive follows its own attempt, and the newest push is main's.          *)

ChildRuns(s) == git[s] \in {"advertised", "reserved", "updated", "found"}

(* A receive holds the lock of its app as long as it works, and its child  *)
(* runs only meanwhile; so does the daemon when it recovers.                *)
LockAgrees ==
  /\ \A s \in Sessions :
       /\ rpc[s] \in {"receiving", "recovering", "finishing"}
            => sapp[s] \in Apps /\ appLock[sapp[s]] = s
       /\ ChildRuns(s) => rpc[s] = "receiving"
  /\ daemon \in {"guarded", "recovering"} => appLock[depApp[current]] = Daemon

(* While the child runs nobody else moves main. *)
MainAgrees ==
  \A s \in Sessions :
    /\ git[s] \in {"advertised", "reserved"} => main[sapp[s]] = old[s]
    /\ git[s] \in {"updated", "found"} => main[sapp[s]] = new[s]
    /\ ChildRuns(s) => new[s] \in Commits

Exclusive == Consistent /\ LockAgrees /\ MainAgrees

(* Two working receives, or the daemon and a receive, are at different apps. *)
LEMMA DifferentApps ==
  ASSUME Exclusive, NEW s \in Sessions, ChildRuns(s)
  PROVE  /\ sapp[s] \in Apps /\ appLock[sapp[s]] = s
         /\ \A t \in Sessions \ {s} : ChildRuns(t) => sapp[t] # sapp[s]
BY DEF Exclusive, LockAgrees

(* Without orphans every step keeps the lock discipline: a receive whose    *)
(* child runs, and a daemon that recovers an app, hold the app's lock.      *)
LEMMA LockStep ==
  ASSUME AllowOrphans = FALSE, Consistent, LockAgrees, [Next]_vars
  PROVE  LockAgrees'
<1>0. RowsKept
  BY EveryStepIsRowStep, RowsKeptStep
<1> USE <1>0, ConstantsAssumption, ChosenAttempts
    DEF RowsKept, RowsAgree, Consistent, TypeOK, SessionsAgree, DaemonAgrees, LockAgrees,
        ChildRuns, vars, storeVars, sessionVars, daemonVars, otherThanDaemon, GitGoes, LockIsFree
<1>1. ASSUME NEW s \in Sessions, NEW a \in Apps, NEW c \in Commits, Receive(s, a, c)
      PROVE  LockAgrees'
  BY <1>1 DEF Receive
<1>2. ASSUME NEW r \in Redeployers, NEW a \in Apps, ResolveCurrentMain(r, a)
      PROVE  LockAgrees'
  BY <1>2 DEF ResolveCurrentMain
<1>3. ASSUME NEW s \in Sessions, KillReceive(s)
      PROVE  LockAgrees'
  <2>1. /\ rpc' = [rpc EXCEPT ![s] = "idle"] /\ git' = [git EXCEPT ![s] = "none"]
        /\ sapp' = [sapp EXCEPT ![s] = None]
        /\ appLock' = [a \in Apps |-> IF appLock[a] = s THEN None ELSE appLock[a]]
        /\ UNCHANGED <<daemon, current, depApp>>
    BY <1>3 DEF KillReceive, Forget, Unlocked
  <2>2. daemon \in {"guarded", "recovering"} => depApp[current] \in Apps
    OBVIOUS
  <2> QED
    BY <2>1, <2>2
<1>4. ASSUME NEW s \in Sessions, KillGit(s)
      PROVE  LockAgrees'
  BY <1>4 DEF KillGit
<1>5. ASSUME NEW s \in Sessions, PostReceiveFails(s)
      PROVE  LockAgrees'
  BY <1>5 DEF PostReceiveFails
<1>6. ASSUME LoseFinish
      PROVE  LockAgrees'
  BY <1>6 DEF LoseFinish
<1>7. ASSUME KillDaemon
      PROVE  LockAgrees'
  BY <1>7 DEF KillDaemon, Unlocked
<1>8. ASSUME NEW s \in Sessions, ReceiveRecoverResolve(s)
      PROVE  LockAgrees'
  BY <1>8 DEF ReceiveRecoverResolve
<1>9. ASSUME NEW s \in Sessions, ReceiveRecoverRecord(s)
      PROVE  LockAgrees'
  BY <1>9 DEF ReceiveRecoverRecord
<1>10. ASSUME NEW s \in Sessions, FinishReceive(s)
      PROVE  LockAgrees'
  BY <1>10 DEF FinishReceive
<1>11. ASSUME NEW s \in Sessions, Detach(s)
      PROVE  LockAgrees'
  BY <1>11 DEF Detach, Forget
<1>12. ASSUME NEW s \in Sessions, OrphanEnds(s)
      PROVE  LockAgrees'
  BY <1>12 DEF OrphanEnds, Forget
<1>13. ASSUME NEW s \in Sessions, PreReceive(s)
      PROVE  LockAgrees'
  BY <1>13 DEF PreReceive
<1>14. ASSUME NEW s \in Sessions, PreReceiveRejects(s)
      PROVE  LockAgrees'
  BY <1>14 DEF PreReceiveRejects
<1>15. ASSUME NEW s \in Sessions, UpdateRef(s)
      PROVE  LockAgrees'
  BY <1>15 DEF UpdateRef
<1>16. ASSUME NEW s \in Sessions, RefuseRef(s)
      PROVE  LockAgrees'
  BY <1>16 DEF RefuseRef
<1>17. ASSUME NEW s \in Sessions, PostReceiveFind(s)
      PROVE  LockAgrees'
  BY <1>17 DEF PostReceiveFind
<1>18. ASSUME NEW s \in Sessions, PostReceiveRecord(s)
      PROVE  LockAgrees'
  BY <1>18 DEF PostReceiveRecord
<1>19. ASSUME NEW r \in Redeployers, QueueRedeployment(r)
      PROVE  LockAgrees'
  BY <1>19 DEF QueueRedeployment
<1>20. ASSUME NEW r \in Redeployers, RedeployRejected(r)
      PROVE  LockAgrees'
  BY <1>20 DEF RedeployRejected
<1>21. ASSUME StartDaemon
      PROVE  LockAgrees'
  BY <1>21 DEF StartDaemon
<1>22. ASSUME FailInterrupted
      PROVE  LockAgrees'
  BY <1>22 DEF FailInterrupted
<1>23. ASSUME Serve
      PROVE  LockAgrees'
  BY <1>23 DEF Serve
<1>24. ASSUME ListUnqueued
      PROVE  LockAgrees'
  BY <1>24 DEF ListUnqueued
<1>25. ASSUME GuardNext
      PROVE  LockAgrees'
  <2>1. todo # {} => Min(todo) \in Attempts /\ depApp[Min(todo)] \in Apps
    OBVIOUS
  <2>2. \/ UNCHANGED <<appLock, daemon, current>>
        \/ /\ appLock[depApp[Min(todo)]] = None
           /\ appLock' = [appLock EXCEPT ![depApp[Min(todo)]] = Daemon]
           /\ current' = Min(todo) /\ todo # {}
    BY <1>25 DEF GuardNext
  <2>3. UNCHANGED <<rpc, git, sapp, depApp>> /\ daemon = "checking"
    BY <1>25 DEF GuardNext
  <2> QED
    BY <2>1, <2>2, <2>3
<1>26. ASSUME RecoverResolve
      PROVE  LockAgrees'
  <2>1. /\ daemon = "guarded" /\ depApp[current] \in Apps
        /\ appLock[depApp[current]] = Daemon
        /\ UNCHANGED <<rpc, git, sapp, depApp>>
    BY <1>26 DEF RecoverResolve
  <2>2. \/ /\ appLock' = [appLock EXCEPT ![depApp[current]] = None]
           /\ daemon' = "checking"
        \/ /\ UNCHANGED appLock
           /\ current' = Min(Recoverable(depApp[current]))
           /\ Recoverable(depApp[current]) # {}
    BY <1>26 DEF RecoverResolve
  <2>3. \A a \in Apps : \A i \in Recoverable(a) : depApp[i] = a
    BY DEF Recoverable
  <2> QED
    BY <2>1, <2>2, <2>3
<1>27. ASSUME RecoverRecord
      PROVE  LockAgrees'
  BY <1>27 DEF RecoverRecord
<1>28. ASSUME Claim
      PROVE  LockAgrees'
  BY <1>28 DEF Claim
<1>29. ASSUME NEW result \in Terminal, Execute(result)
      PROVE  LockAgrees'
  BY <1>29 DEF Execute
<1>30. ASSUME Finish
      PROVE  LockAgrees'
  BY <1>30 DEF Finish
<1>31. ASSUME UNCHANGED vars
      PROVE  LockAgrees'
  BY <1>31
<1> QED
  BY <1>1, <1>2, <1>3, <1>4, <1>5, <1>6, <1>7, <1>8, <1>9, <1>10, <1>11,
     <1>12, <1>13, <1>14, <1>15, <1>16, <1>17, <1>18, <1>19, <1>20, <1>21, <1>22,
     <1>23, <1>24, <1>25, <1>26, <1>27, <1>28, <1>29, <1>30, <1>31
  DEF Next, Clients, Faults, SessionStep, GitChildStep, RedeployStep, DaemonStepTaken

(* Without orphans main stays at the commit the one working push of the     *)
(* app was advertised, until that push moves it.                            *)
LEMMA MainStep ==
  ASSUME AllowOrphans = FALSE, Exclusive, [Next]_vars
  PROVE  MainAgrees'
<1> USE ConstantsAssumption
    DEF Exclusive, Consistent, TypeOK, LockAgrees, MainAgrees, ChildRuns, vars, storeVars,
        sessionVars, daemonVars, otherThanDaemon, GitGoes, LockIsFree
<1>1. ASSUME NEW s \in Sessions, NEW a \in Apps, NEW c \in Commits, Receive(s, a, c)
      PROVE  MainAgrees'
  BY <1>1 DEF Receive
<1>2. ASSUME NEW r \in Redeployers, NEW a \in Apps, ResolveCurrentMain(r, a)
      PROVE  MainAgrees'
  BY <1>2 DEF ResolveCurrentMain
<1>3. ASSUME NEW s \in Sessions, KillReceive(s)
      PROVE  MainAgrees'
  BY <1>3 DEF KillReceive, Forget, Unlocked
<1>4. ASSUME NEW s \in Sessions, KillGit(s)
      PROVE  MainAgrees'
  BY <1>4 DEF KillGit
<1>5. ASSUME NEW s \in Sessions, PostReceiveFails(s)
      PROVE  MainAgrees'
  BY <1>5 DEF PostReceiveFails
<1>6. ASSUME LoseFinish
      PROVE  MainAgrees'
  BY <1>6 DEF LoseFinish
<1>7. ASSUME KillDaemon
      PROVE  MainAgrees'
  BY <1>7 DEF KillDaemon, Unlocked
<1>8. ASSUME NEW s \in Sessions, ReceiveRecoverResolve(s)
      PROVE  MainAgrees'
  BY <1>8 DEF ReceiveRecoverResolve
<1>9. ASSUME NEW s \in Sessions, ReceiveRecoverRecord(s)
      PROVE  MainAgrees'
  BY <1>9 DEF ReceiveRecoverRecord
<1>10. ASSUME NEW s \in Sessions, FinishReceive(s)
      PROVE  MainAgrees'
  BY <1>10 DEF FinishReceive
<1>11. ASSUME NEW s \in Sessions, Detach(s)
      PROVE  MainAgrees'
  BY <1>11 DEF Detach, Forget
<1>12. ASSUME NEW s \in Sessions, OrphanEnds(s)
      PROVE  MainAgrees'
  BY <1>12 DEF OrphanEnds, Forget
<1>13. ASSUME NEW s \in Sessions, PreReceive(s)
      PROVE  MainAgrees'
  BY <1>13 DEF PreReceive
<1>14. ASSUME NEW s \in Sessions, PreReceiveRejects(s)
      PROVE  MainAgrees'
  BY <1>14 DEF PreReceiveRejects
<1>15. ASSUME NEW s \in Sessions, UpdateRef(s)
      PROVE  MainAgrees'
  BY <1>15 DEF UpdateRef
<1>16. ASSUME NEW s \in Sessions, RefuseRef(s)
      PROVE  MainAgrees'
  BY <1>16 DEF RefuseRef
<1>17. ASSUME NEW s \in Sessions, PostReceiveFind(s)
      PROVE  MainAgrees'
  BY <1>17 DEF PostReceiveFind
<1>18. ASSUME NEW s \in Sessions, PostReceiveRecord(s)
      PROVE  MainAgrees'
  BY <1>18 DEF PostReceiveRecord
<1>19. ASSUME NEW r \in Redeployers, QueueRedeployment(r)
      PROVE  MainAgrees'
  BY <1>19 DEF QueueRedeployment
<1>20. ASSUME NEW r \in Redeployers, RedeployRejected(r)
      PROVE  MainAgrees'
  BY <1>20 DEF RedeployRejected
<1>21. ASSUME StartDaemon
      PROVE  MainAgrees'
  BY <1>21 DEF StartDaemon
<1>22. ASSUME FailInterrupted
      PROVE  MainAgrees'
  BY <1>22 DEF FailInterrupted
<1>23. ASSUME Serve
      PROVE  MainAgrees'
  BY <1>23 DEF Serve
<1>24. ASSUME ListUnqueued
      PROVE  MainAgrees'
  BY <1>24 DEF ListUnqueued
<1>25. ASSUME GuardNext
      PROVE  MainAgrees'
  BY <1>25 DEF GuardNext
<1>26. ASSUME RecoverResolve
      PROVE  MainAgrees'
  BY <1>26 DEF RecoverResolve
<1>27. ASSUME RecoverRecord
      PROVE  MainAgrees'
  BY <1>27 DEF RecoverRecord
<1>28. ASSUME Claim
      PROVE  MainAgrees'
  BY <1>28 DEF Claim
<1>29. ASSUME NEW result \in Terminal, Execute(result)
      PROVE  MainAgrees'
  BY <1>29 DEF Execute
<1>30. ASSUME Finish
      PROVE  MainAgrees'
  BY <1>30 DEF Finish
<1>31. ASSUME UNCHANGED vars
      PROVE  MainAgrees'
  BY <1>31
<1> QED
  BY <1>1, <1>2, <1>3, <1>4, <1>5, <1>6, <1>7, <1>8, <1>9, <1>10, <1>11,
     <1>12, <1>13, <1>14, <1>15, <1>16, <1>17, <1>18, <1>19, <1>20, <1>21, <1>22,
     <1>23, <1>24, <1>25, <1>26, <1>27, <1>28, <1>29, <1>30, <1>31
  DEF Next, Clients, Faults, SessionStep, GitChildStep, RedeployStep, DaemonStepTaken

(* The lock discipline holds in every behaviour without orphans. *)
LEMMA AlwaysExclusive ==
  ASSUME AllowOrphans = FALSE
  PROVE  Spec => []Exclusive
<1>1. Init => Exclusive
  BY InitConsistent, ConstantsAssumption
  DEF Init, Exclusive, LockAgrees, MainAgrees, ChildRuns
<1>2. Exclusive /\ [Next]_vars => Exclusive'
  BY ConsistentStep, LockStep, MainStep DEF Exclusive
<1> QED
  BY <1>1, <1>2, PTL DEF Spec

-----------------------------------------------------------------------------
(* What happens to main, and what becomes landed with it. *)
MainMoves ==
  \/ main' = main /\ landed \subseteq landed'
  \/ \E s \in Sessions : UpdateRef(s)

(* Only git-receive-pack moves main, and nothing un-lands an attempt. *)
LEMMA EveryStepMovesMain == [Next]_vars => MainMoves
BY DEF Next, Clients, Faults, SessionStep, GitChildStep, RedeployStep, DaemonStepTaken, MainMoves,
   vars, storeVars, sessionVars, daemonVars, otherThanDaemon,
   Receive, ResolveCurrentMain, KillReceive, KillGit, PostReceiveFails, LoseFinish, KillDaemon,
   ReceiveRecoverResolve, ReceiveRecoverRecord, FinishReceive, Detach, OrphanEnds, PreReceive,
   PreReceiveRejects, RefuseRef, PostReceiveFind, PostReceiveRecord, QueueRedeployment,
   RedeployRejected, StartDaemon, FailInterrupted, Serve, ListUnqueued, GuardNext, RecoverResolve,
   RecoverRecord, Claim, Execute, Finish, Reserve

-----------------------------------------------------------------------------
(* Acceptance is real. *)

(* A pending row for the commit of main has landed, *)
PendingLanded ==
  \A i \in Attempts :
    status[i] = "pending" /\ depCommit[i] = main[depApp[i]] => i \in landed

(* and so has a push that a hook or a recovery holds to record. *)
HeldLanded == \A i \in Attempts : IsHeld(i) /\ depTrigger[i] = "push" => i \in landed

Acceptance == Exclusive /\ PendingLanded /\ HeldLanded /\ QueuedPushWasAccepted

(* A row that comes to be pending for the commit of main has landed:        *)
(* either main moved there, or the reservation found it there.              *)
LEMMA PendingLandedStep ==
  ASSUME Consistent, PendingLanded, [Next]_vars
  PROVE  PendingLanded'
<1> SUFFICES ASSUME NEW i \in Attempts, status'[i] = "pending",
                    depCommit'[i] = main'[depApp'[i]]
             PROVE  i \in landed'
  BY DEF PendingLanded
<1> USE DEF Consistent, TypeOK
<1>0. RowStep /\ MainMoves /\ RowsKept
  BY EveryStepIsRowStep, EveryStepMovesMain, RowsKeptStep
<1>1. ASSUME NEW s \in Sessions, UpdateRef(s)
      PROVE  i \in landed'
  <2>1. /\ status[i] = "pending" /\ depCommit[i] = main'[depApp[i]] /\ depApp[i] \in Apps
        /\ main' = [main EXCEPT ![sapp[s]] = new[s]]
        /\ landed' = landed \cup Landing(sapp[s], new[s])
    BY <1>1 DEF UpdateRef, storeVars, RowsAgree
  <2>2. CASE depApp[i] = sapp[s]
    BY <2>1, <2>2 DEF Landing
  <2>3. CASE depApp[i] # sapp[s]
    BY <2>1, <2>3 DEF PendingLanded
  <2> QED
    BY <2>2, <2>3
<1>2. ASSUME main' = main, landed \subseteq landed', status[i] = "pending"
      PROVE  i \in landed'
  BY <1>0, <1>2 DEF RowsKept, PendingLanded
<1>3. ASSUME main' = main, status[i] # "pending"
      PROVE  i \in landed'
  <2>1. ASSUME NEW a \in Apps, NEW c, NEW trigger, NEW expected, Reserve(a, c, trigger, expected)
        PROVE  i \in landed'
    <3>1. i = nextID /\ nextID \in Attempts
      BY <1>3, <2>1, ReserveEffect
    <3>2. depApp'[i] = a /\ depCommit'[i] = c
      BY <2>1, <3>1 DEF Reserve
    <3> QED
      BY <1>3, <2>1, <3>1, <3>2 DEF Reserve
  <2>2. ~ (NoRowStep \/ RecordStep \/ ClaimStep \/ EndStep)
    BY <1>3 DEF NoRowStep, RecordStep, ClaimStep, EndStep, Claimable, Deploying, Terminal
  <2> QED
    BY <1>0, <2>1, <2>2 DEF RowStep, PushReserves, RedeployQueues
<1> QED
  BY <1>0, <1>1, <1>2, <1>3 DEF MainMoves

(* What a recovery finds has landed: it is pending and main is there. *)
LEMMA RecoverableLanded ==
  ASSUME Acceptance, NEW a, Recoverable(a) # {}
  PROVE  Min(Recoverable(a)) \in landed
<1>1. Min(Recoverable(a)) \in Recoverable(a)
  BY ChosenAttempts DEF Acceptance, Exclusive, Consistent
<1> QED
  BY <1>1 DEF Recoverable, Unqueued, Acceptance, PendingLanded

(* A hook or a recovery never takes up a push that has not landed: the      *)
(* hook runs after the ref update, a recovery compares with main under lock.*)
LEMMA HeldLandedStep ==
  ASSUME Acceptance, [Next]_vars
  PROVE  HeldLanded'
<1>0. /\ RowsKept /\ landed \subseteq landed' /\ HeldLanded
      /\ \A s \in Sessions : rpc[s] = "recovering" \/ git[s] = "found"
                               => target[s] \in Attempts /\ status[target[s]] # "none"
      /\ \A s \in Sessions : rpc[s] \in {"recovering", "finishing", "following"}
                               => git[s] \in {"exited", "killed"}
      /\ daemon = "recovering" => current \in Attempts /\ status[current] # "none"
  BY EveryStepIsRowStep, RowsKeptStep, EveryStepMovesMain
  DEF Acceptance, Exclusive, MainMoves, UpdateRef, Consistent, SessionsAgree, DaemonAgrees
<1>00. /\ git \in [Sessions -> GitStep] /\ rpc \in [Sessions -> ReceiveStep]
       /\ target \in [Sessions -> Attempts \cup {NoAttempt}]
       /\ NoAttempt \notin Attempts
  BY DEF Acceptance, Exclusive, Consistent, TypeOK, NoAttempt, Attempts
<1> USE <1>0, <1>00
    DEF RowsKept, HeldLanded, IsHeld, vars, storeVars, sessionVars, daemonVars, otherThanDaemon,
        GitGoes
<1>1. ASSUME NEW s \in Sessions, NEW a \in Apps, NEW c \in Commits, Receive(s, a, c)
      PROVE  HeldLanded'
  BY <1>1 DEF Receive
<1>2. ASSUME NEW r \in Redeployers, NEW a \in Apps, ResolveCurrentMain(r, a)
      PROVE  HeldLanded'
  BY <1>2 DEF ResolveCurrentMain
<1>3. ASSUME NEW s \in Sessions, KillReceive(s)
      PROVE  HeldLanded'
  BY <1>3 DEF KillReceive, Forget
<1>4. ASSUME NEW s \in Sessions, KillGit(s)
      PROVE  HeldLanded'
  BY <1>4 DEF KillGit
<1>5. ASSUME NEW s \in Sessions, PostReceiveFails(s)
      PROVE  HeldLanded'
  BY <1>5 DEF PostReceiveFails
<1>6. ASSUME LoseFinish
      PROVE  HeldLanded'
  BY <1>6 DEF LoseFinish
<1>7. ASSUME KillDaemon
      PROVE  HeldLanded'
  BY <1>7 DEF KillDaemon
<1>8. ASSUME NEW s \in Sessions, ReceiveRecoverResolve(s)
      PROVE  HeldLanded'
  <2>1. UNCHANGED <<git, daemon, current, depTrigger>> /\ git[s] \in {"exited", "killed"}
    BY <1>8 DEF ReceiveRecoverResolve
  <2>2. \/ rpc' = [rpc EXCEPT ![s] = "finishing"] /\ target' = [target EXCEPT ![s] = NoAttempt]
        \/ /\ rpc' = [rpc EXCEPT ![s] = "recovering"]
           /\ target' = [target EXCEPT ![s] = Min(Recoverable(sapp[s]))]
           /\ Recoverable(sapp[s]) # {}
    BY <1>8 DEF ReceiveRecoverResolve
  <2>3. Recoverable(sapp[s]) # {} => Min(Recoverable(sapp[s])) \in landed
    BY RecoverableLanded
  <2> QED
    BY <2>1, <2>2, <2>3
<1>9. ASSUME NEW s \in Sessions, ReceiveRecoverRecord(s)
      PROVE  HeldLanded'
  <2>1. /\ git[s] \in {"exited", "killed"} /\ rpc' = [rpc EXCEPT ![s] = "finishing"]
        /\ target' = [target EXCEPT ![s] = NoAttempt]
        /\ UNCHANGED <<git, daemon, current, depTrigger>>
    BY <1>9 DEF ReceiveRecoverRecord, RecordQueued
  <2> QED
    BY <2>1
<1>10. ASSUME NEW s \in Sessions, FinishReceive(s)
      PROVE  HeldLanded'
  BY <1>10 DEF FinishReceive
<1>11. ASSUME NEW s \in Sessions, Detach(s)
      PROVE  HeldLanded'
  BY <1>11 DEF Detach, Forget
<1>12. ASSUME NEW s \in Sessions, OrphanEnds(s)
      PROVE  HeldLanded'
  BY <1>12 DEF OrphanEnds, Forget
<1>13. ASSUME NEW s \in Sessions, PreReceive(s)
      PROVE  HeldLanded'
  BY <1>13 DEF PreReceive
<1>14. ASSUME NEW s \in Sessions, PreReceiveRejects(s)
      PROVE  HeldLanded'
  BY <1>14 DEF PreReceiveRejects
<1>15. ASSUME NEW s \in Sessions, UpdateRef(s)
      PROVE  HeldLanded'
  BY <1>15 DEF UpdateRef
<1>16. ASSUME NEW s \in Sessions, RefuseRef(s)
      PROVE  HeldLanded'
  BY <1>16 DEF RefuseRef
<1>17. ASSUME NEW s \in Sessions, PostReceiveFind(s)
      PROVE  HeldLanded'
  <2> DEFINE found == Max(OfCommit(sapp[s], new[s]))
  <2>1. /\ git[s] = "updated" /\ main[sapp[s]] = new[s]
        /\ UNCHANGED <<rpc, daemon, current, depTrigger>>
    BY <1>17 DEF PostReceiveFind, Acceptance, Exclusive, MainAgrees
  <2>2. \/ git' = [git EXCEPT ![s] = "exited"] /\ UNCHANGED target
        \/ /\ git' = [git EXCEPT ![s] = "found"]
           /\ target' = [target EXCEPT ![s] = found]
           /\ OfCommit(sapp[s], new[s]) # {}
    BY <1>17 DEF PostReceiveFind
  <2>3. OfCommit(sapp[s], new[s]) # {} => (depTrigger[found] = "push" => found \in landed)
    <3>1. SUFFICES ASSUME OfCommit(sapp[s], new[s]) # {}, depTrigger[found] = "push"
                   PROVE  found \in landed
      OBVIOUS
    <3>2. found \in OfCommit(sapp[s], new[s])
      BY <3>1, ChosenAttempts DEF Acceptance, Exclusive, Consistent
    <3>3. /\ found \in Attempts /\ depApp[found] = sapp[s] /\ depCommit[found] = new[s]
          /\ status[found] \in AttemptStatus \ {"none", "discarded"}
      BY <3>2 DEF OfCommit, Acceptance, Exclusive, Consistent, TypeOK
    <3> QED
      BY <2>1, <3>1, <3>3
      DEF Acceptance, PendingLanded, QueuedPushWasAccepted, IsClaimed, AttemptStatus
  <2> QED
    BY <2>1, <2>2, <2>3
<1>18. ASSUME NEW s \in Sessions, PostReceiveRecord(s)
      PROVE  HeldLanded'
  <2>1. /\ git' = [git EXCEPT ![s] = "exited"] /\ target' = [target EXCEPT ![s] = NoAttempt]
        /\ UNCHANGED <<rpc, daemon, current, depTrigger>>
    BY <1>18 DEF PostReceiveRecord, RecordQueued
  <2> QED
    BY <2>1
<1>19. ASSUME NEW r \in Redeployers, QueueRedeployment(r)
      PROVE  HeldLanded'
  BY <1>19 DEF QueueRedeployment
<1>20. ASSUME NEW r \in Redeployers, RedeployRejected(r)
      PROVE  HeldLanded'
  BY <1>20 DEF RedeployRejected
<1>21. ASSUME StartDaemon
      PROVE  HeldLanded'
  BY <1>21 DEF StartDaemon
<1>22. ASSUME FailInterrupted
      PROVE  HeldLanded'
  BY <1>22 DEF FailInterrupted
<1>23. ASSUME Serve
      PROVE  HeldLanded'
  BY <1>23 DEF Serve
<1>24. ASSUME ListUnqueued
      PROVE  HeldLanded'
  BY <1>24 DEF ListUnqueued
<1>25. ASSUME GuardNext
      PROVE  HeldLanded'
  BY <1>25 DEF GuardNext
<1>26. ASSUME RecoverResolve
      PROVE  HeldLanded'
  <2>1. UNCHANGED <<git, rpc, target, depTrigger>> /\ daemon = "guarded"
    BY <1>26 DEF RecoverResolve
  <2>2. \/ daemon' = "checking"
        \/ /\ current' = Min(Recoverable(depApp[current]))
           /\ Recoverable(depApp[current]) # {}
    BY <1>26 DEF RecoverResolve
  <2>3. Recoverable(depApp[current]) # {} => Min(Recoverable(depApp[current])) \in landed
    BY RecoverableLanded
  <2> QED
    BY <2>1, <2>2, <2>3
<1>27. ASSUME RecoverRecord
      PROVE  HeldLanded'
  BY <1>27 DEF RecoverRecord
<1>28. ASSUME Claim
      PROVE  HeldLanded'
  BY <1>28 DEF Claim
<1>29. ASSUME NEW result \in Terminal, Execute(result)
      PROVE  HeldLanded'
  BY <1>29 DEF Execute
<1>30. ASSUME Finish
      PROVE  HeldLanded'
  BY <1>30 DEF Finish
<1>31. ASSUME UNCHANGED vars
      PROVE  HeldLanded'
  BY <1>31
<1> QED
  BY <1>1, <1>2, <1>3, <1>4, <1>5, <1>6, <1>7, <1>8, <1>9, <1>10, <1>11,
     <1>12, <1>13, <1>14, <1>15, <1>16, <1>17, <1>18, <1>19, <1>20, <1>21, <1>22,
     <1>23, <1>24, <1>25, <1>26, <1>27, <1>28, <1>29, <1>30, <1>31
  DEF Next, Clients, Faults, SessionStep, GitChildStep, RedeployStep, DaemonStepTaken

(* What is queued was held, and what is claimed was queued. *)
LEMMA QueuedPushStep ==
  ASSUME Acceptance, [Next]_vars
  PROVE  QueuedPushWasAccepted'
<1> SUFFICES ASSUME NEW i \in Attempts, depTrigger'[i] = "push",
                    IsClaimed(i)' \/ (i \in queued' /\ status'[i] = "pending")
             PROVE  i \in landed'
  BY DEF QueuedPushWasAccepted
<1> USE DEF Acceptance, Exclusive, Consistent, TypeOK, QueuedPushWasAccepted, IsClaimed
<1>0. RowStep /\ landed \subseteq landed'
  BY EveryStepIsRowStep, EveryStepMovesMain DEF MainMoves, UpdateRef
<1>1. CASE NoRowStep
  BY <1>0, <1>1 DEF NoRowStep
<1>2. CASE RecordStep
  BY <1>0, <1>2 DEF RecordStep, HeldLanded
<1>3. CASE ClaimStep
  BY <1>0, <1>3 DEF ClaimStep, Claimable
<1>4. CASE EndStep
  BY <1>0, <1>4 DEF EndStep, Deploying, Terminal
<1>5. ASSUME NEW a, NEW c, NEW trigger \in {"push", "redeploy"}, NEW expected,
             Reserve(a, c, trigger, expected)
      PROVE  i \in landed'
  <2>1. /\ nextID \in Attempts /\ status'[nextID] = "pending" /\ nextID \notin queued
        /\ \A j \in Attempts \ {nextID} : status'[j] = status[j] \/ status'[j] = "discarded"
    BY <1>5, ReserveEffect DEF RowsAgree
  <2>2. /\ depTrigger' = [depTrigger EXCEPT ![nextID] = trigger]
        /\ queued' = IF trigger = "redeploy" THEN queued \cup {nextID} ELSE queued
    BY <1>5 DEF Reserve
  <2>3. i # nextID
    BY <2>1, <2>2
  <2>4. status'[i] = status[i] /\ depTrigger[i] = "push" /\ (i \in queued' => i \in queued)
    BY <2>1, <2>2, <2>3
  <2> QED
    BY <1>0, <2>4
<1> QED
  BY <1>0, <1>1, <1>2, <1>3, <1>4, <1>5 DEF RowStep, PushReserves, RedeployQueues

(* CLI_COMMANDS.md:309: a push attempt is queued, claimed or executed only *)
(* if main was at its commit while the attempt existed, whatever hooks and  *)
(* recoveries were cut short, as long as no child outlives its receive.     *)
THEOREM QueuedPushesLanded ==
  ASSUME AllowOrphans = FALSE
  PROVE  Spec => []QueuedPushWasAccepted
<1>1. Init /\ Exclusive => Acceptance
  BY DEF Init, Acceptance, PendingLanded, HeldLanded, IsHeld, QueuedPushWasAccepted, IsClaimed
<1>2. Acceptance /\ [Next]_vars /\ Exclusive' => Acceptance'
  BY PendingLandedStep, HeldLandedStep, QueuedPushStep DEF Acceptance, Exclusive
<1>3. Acceptance => QueuedPushWasAccepted
  BY DEF Acceptance
<1> QED
  BY <1>1, <1>2, <1>3, AlwaysExclusive, PTL DEF Spec

-----------------------------------------------------------------------------
(* Acceptance is recorded. *)

(* A row is discarded only by a push that started elsewhere. *)
LEMMA DiscardedByPush ==
  ASSUME Consistent, RowStep, NEW i \in Attempts,
         status[i] \notin {"none", "discarded"}, status'[i] = "discarded"
  PROVE  \E s \in Sessions :
           git[s] = "advertised" /\ depApp[i] = sapp[s] /\ depCommit[i] # old[s]
<1> USE DEF Consistent, TypeOK
<1>1. ~ (NoRowStep \/ RecordStep \/ ClaimStep \/ EndStep)
  BY DEF NoRowStep, RecordStep, ClaimStep, EndStep, Claimable, Deploying, Terminal
<1>2. ASSUME NEW a, NEW c, NEW trigger, NEW expected, Reserve(a, c, trigger, expected)
      PROVE  trigger = "push" /\ depApp[i] = a /\ depCommit[i] # expected
  <2>1. /\ trigger = "push" /\ ActiveOf(a) # {} /\ i = Min(ActiveOf(a))
        /\ MayDiscard(i, expected)
    BY <1>2, ReserveEffect
  <2>2. i \in ActiveOf(a)
    BY <2>1, ChosenAttempts
  <2> QED
    BY <2>1, <2>2 DEF ActiveOf, MayDiscard
<1>3. ~ RedeployQueues
  BY <1>2 DEF RedeployQueues
<1> QED
  BY <1>1, <1>2, <1>3 DEF RowStep, PushReserves

(* Between its two hooks a push keeps its reservation, *)
ReservedAgrees ==
  \A s \in Sessions : git[s] = "reserved" => reserved[s] \in OfCommit(sapp[s], new[s])

Recorded == Exclusive /\ ReservedAgrees /\ AcceptedPushHasAttempt

(* A session that stands between its hooks keeps its reservation and its    *)
(* target, or has just reserved it.                                         *)
LEMMA ReservationKept ==
  ASSUME Consistent, [Next]_vars, NEW s \in Sessions, git'[s] = "reserved"
  PROVE  \/ git[s] = "reserved" /\ UNCHANGED <<reserved[s], sapp[s], new[s]>>
         \/ PreReceive(s)
<1> USE DEF Consistent, TypeOK, vars, sessionVars, otherThanDaemon, GitGoes
<1>1. CASE UNCHANGED vars
  BY <1>1
<1>2. ASSUME NEW t \in Sessions, SessionStep(t) \/ KillReceive(t) \/ PreReceiveRejects(t)
      PROVE  git[s] = "reserved" /\ UNCHANGED <<reserved[s], sapp[s], new[s]>>
  BY <1>2 DEF SessionStep, ReceiveRecoverResolve, ReceiveRecoverRecord, FinishReceive, Detach,
     OrphanEnds, Forget, KillReceive, PreReceiveRejects
<1>3. ASSUME NEW t \in Sessions, KillGit(t) \/ PostReceiveFails(t) \/ UpdateRef(t) \/ RefuseRef(t)
                                  \/ PostReceiveFind(t) \/ PostReceiveRecord(t)
      PROVE  git[s] = "reserved" /\ UNCHANGED <<reserved[s], sapp[s], new[s]>>
  BY <1>3 DEF KillGit, PostReceiveFails, UpdateRef, RefuseRef, PostReceiveFind, PostReceiveRecord
<1>4. ASSUME NEW t \in Sessions, PreReceive(t), t # s
      PROVE  git[s] = "reserved" /\ UNCHANGED <<reserved[s], sapp[s], new[s]>>
  BY <1>4 DEF PreReceive
<1>5. ASSUME NEW t \in Sessions, NEW a \in Apps, NEW c \in Commits, Receive(t, a, c)
      PROVE  git[s] = "reserved" /\ UNCHANGED <<reserved[s], sapp[s], new[s]>>
  BY <1>5 DEF Receive
<1>6. ASSUME \/ \E r \in Redeployers, a \in Apps : ResolveCurrentMain(r, a)
             \/ \E r \in Redeployers : RedeployStep(r)
      PROVE  git[s] = "reserved" /\ UNCHANGED <<reserved[s], sapp[s], new[s]>>
  BY <1>6 DEF ResolveCurrentMain, RedeployStep, QueueRedeployment, RedeployRejected
<1>7. CASE DaemonStepTaken \/ LoseFinish \/ KillDaemon
  BY <1>7 DEF DaemonStepTaken, StartDaemon, FailInterrupted, Serve, ListUnqueued, GuardNext,
     RecoverResolve, RecoverRecord, Claim, Execute, Finish, LoseFinish, KillDaemon
<1> QED
  BY <1>1, <1>2, <1>3, <1>4, <1>5, <1>6, <1>7 DEF Next, Clients, Faults, GitChildStep

(* since no other push of the app runs. *)
LEMMA ReservedStep ==
  ASSUME Recorded, [Next]_vars
  PROVE  ReservedAgrees'
<1>1. RowStep /\ RowsKept
  BY EveryStepIsRowStep, RowsKeptStep DEF Recorded, Exclusive
<1>2. ASSUME NEW s \in Sessions, git[s] = "reserved"
      PROVE  /\ reserved[s] \in Attempts
             /\ status'[reserved[s]] \notin {"none", "discarded"}
             /\ depApp'[reserved[s]] = sapp[s] /\ depCommit'[reserved[s]] = new[s]
  <2>1. /\ reserved[s] \in Attempts /\ status[reserved[s]] \notin {"none", "discarded"}
        /\ depApp[reserved[s]] = sapp[s] /\ depCommit[reserved[s]] = new[s]
    BY <1>2 DEF Recorded, ReservedAgrees, OfCommit
  <2>2. status'[reserved[s]] # "discarded"
    BY <1>1, <1>2, <2>1, DiscardedByPush, DifferentApps DEF ChildRuns, Recorded, Exclusive
  <2> QED
    BY <1>1, <2>1, <2>2 DEF RowsKept
<1>3. SUFFICES ASSUME NEW s \in Sessions, git'[s] = "reserved"
               PROVE  /\ reserved'[s] \in Attempts
                      /\ status'[reserved'[s]] \notin {"none", "discarded"}
                      /\ depApp'[reserved'[s]] = sapp'[s]
                      /\ depCommit'[reserved'[s]] = new'[s]
  BY DEF ReservedAgrees, OfCommit
<1> DEFINE Goal == /\ reserved'[s] \in Attempts
                   /\ status'[reserved'[s]] \notin {"none", "discarded"}
                   /\ depApp'[reserved'[s]] = sapp'[s]
                   /\ depCommit'[reserved'[s]] = new'[s]
<1>4. CASE git[s] = "reserved" /\ UNCHANGED <<reserved[s], sapp[s], new[s]>>
  BY <1>2, <1>4
<1>5. CASE PreReceive(s)
  <2>1. /\ reserved'[s] = nextID /\ UNCHANGED <<sapp, new>>
        /\ depApp' = [depApp EXCEPT ![nextID] = sapp[s]]
        /\ depCommit' = [depCommit EXCEPT ![nextID] = new[s]]
    BY <1>5 DEF PreReceive, Reserve, Recorded, Exclusive, Consistent, TypeOK
  <2>2. nextID \in Attempts /\ status'[nextID] = "pending"
    BY <1>5, ReserveEffect DEF PreReceive, Recorded, Exclusive, Consistent
  <2> QED
    BY <2>1, <2>2 DEF Recorded, Exclusive, Consistent, TypeOK
<1>6. \/ git[s] = "reserved" /\ UNCHANGED <<reserved[s], sapp[s], new[s]>>
      \/ PreReceive(s)
  BY <1>3, ReservationKept DEF Recorded, Exclusive, Consistent
<1> QED
  BY <1>4, <1>5, <1>6

(* An accepted push has its row when main moves, and the row of main is    *)
(* never the one a later push discards: that push starts from main.         *)
LEMMA HasAttemptStep ==
  ASSUME Recorded, [Next]_vars
  PROVE  AcceptedPushHasAttempt'
<1> SUFFICES ASSUME NEW a \in Apps, main'[a] # None
             PROVE  OfCommit(a, main[a])' # {}
  BY DEF AcceptedPushHasAttempt
<1>0. RowStep /\ RowsKept /\ MainMoves
  BY EveryStepIsRowStep, RowsKeptStep, EveryStepMovesMain DEF Recorded, Exclusive
<1>1. CASE main'[a] = main[a]
  <2>1. PICK i \in OfCommit(a, main[a]) : TRUE
    BY <1>1 DEF Recorded, AcceptedPushHasAttempt
  <2>2. /\ i \in Attempts /\ depApp[i] = a /\ depCommit[i] = main[a]
        /\ status[i] \notin {"none", "discarded"}
    BY DEF OfCommit
  <2>3. status'[i] # "discarded"
    BY <1>0, <2>2, DiscardedByPush DEF Recorded, Exclusive, MainAgrees
  <2>4. depApp'[i] = a /\ depCommit'[i] = main'[a] /\ status'[i] \notin {"none", "discarded"}
    BY <1>0, <1>1, <2>2, <2>3 DEF RowsKept
  <2> QED
    BY <2>2, <2>4 DEF OfCommit
<1>2. ASSUME NEW s \in Sessions, UpdateRef(s), main'[a] # main[a]
      PROVE  OfCommit(a, main[a])' # {}
  <2>1. /\ git[s] = "reserved" /\ main' = [main EXCEPT ![sapp[s]] = new[s]]
        /\ UNCHANGED <<depApp, depCommit, status>>
    BY <1>2 DEF UpdateRef, storeVars
  <2>2. a = sapp[s] /\ main'[a] = new[s]
    BY <1>2, <2>1 DEF Recorded, Exclusive, Consistent, TypeOK
  <2>3. reserved[s] \in OfCommit(a, new[s])
    BY <2>1, <2>2 DEF Recorded, ReservedAgrees
  <2> QED
    BY <2>1, <2>2, <2>3 DEF OfCommit
<1> QED
  BY <1>0, <1>1, <1>2 DEF MainMoves

(* README.md:116: whatever commit main is at, the attempt for it exists,   *)
(* as long as no git-receive-pack outlives its receive.                     *)
THEOREM AcceptedPushesRecorded ==
  ASSUME AllowOrphans = FALSE
  PROVE  Spec => []AcceptedPushHasAttempt
<1>1. Init /\ Exclusive => Recorded
  BY DEF Init, Recorded, ReservedAgrees, AcceptedPushHasAttempt
<1>2. Recorded /\ [Next]_vars /\ Exclusive' => Recorded'
  BY ReservedStep, HasAttemptStep DEF Recorded
<1>3. Recorded => AcceptedPushHasAttempt
  BY DEF Recorded
<1> QED
  BY <1>1, <1>2, <1>3, AlwaysExclusive, PTL DEF Spec

-----------------------------------------------------------------------------
(* Which attempt a push ends with: a receive follows its own attempt, and   *)
(* the newest push of an app is main once nothing of the app is active.      *)

Works(s) == rpc[s] \in {"receiving", "recovering", "finishing"}

OwnStep(s) ==
  \/ \E a \in Apps, c \in Commits : Receive(s, a, c)
  \/ SessionStep(s) \/ GitChildStep(s) \/ KillReceive(s) \/ KillGit(s) \/ PostReceiveFails(s)

(* Only the processes of a session write its variables. *)
LEMMA OthersKept ==
  ASSUME Consistent, [Next]_vars, NEW s \in Sessions, ~ OwnStep(s)
  PROVE  UNCHANGED <<rpc[s], git[s], sapp[s], new[s], before[s], reserved[s], target[s]>>
<1> DEFINE Kept == UNCHANGED <<rpc[s], git[s], sapp[s], new[s], before[s], reserved[s], target[s]>>
<1> USE DEF Consistent, TypeOK, vars, storeVars, sessionVars, otherThanDaemon, GitGoes, Forget
<1>1. CASE UNCHANGED vars
  BY <1>1
<1>2. ASSUME NEW t \in Sessions, SessionStep(t) \/ KillReceive(t)
      PROVE  Kept
  <2>1. t # s
    BY <1>2 DEF OwnStep
  <2> QED
    BY <1>2, <2>1 DEF SessionStep, ReceiveRecoverResolve, ReceiveRecoverRecord, FinishReceive, Detach,
       OrphanEnds, KillReceive
<1>3. ASSUME NEW t \in Sessions, KillGit(t) \/ PostReceiveFails(t) \/ GitChildStep(t)
      PROVE  Kept
  <2>1. t # s
    BY <1>3 DEF OwnStep
  <2> QED
    BY <1>3, <2>1 DEF KillGit, PostReceiveFails, GitChildStep, PreReceive, PreReceiveRejects, UpdateRef,
       RefuseRef, PostReceiveFind, PostReceiveRecord
<1>4. ASSUME NEW t \in Sessions, NEW a \in Apps, NEW c \in Commits, Receive(t, a, c)
      PROVE  Kept
  <2>1. t # s
    BY <1>4 DEF OwnStep
  <2> QED
    BY <1>4, <2>1 DEF Receive
<1>5. ASSUME \/ \E r \in Redeployers, a \in Apps : ResolveCurrentMain(r, a)
             \/ \E r \in Redeployers : RedeployStep(r)
      PROVE  Kept
  BY <1>5 DEF ResolveCurrentMain, RedeployStep, QueueRedeployment, RedeployRejected
<1>6. CASE DaemonStepTaken \/ LoseFinish \/ KillDaemon
  BY <1>6 DEF DaemonStepTaken, StartDaemon, FailInterrupted, Serve, ListUnqueued, GuardNext,
     RecoverResolve, RecoverRecord, Claim, Execute, Finish, LoseFinish, KillDaemon
<1> QED
  BY <1>1, <1>2, <1>3, <1>4, <1>5, <1>6 DEF Next, Clients, Faults

(* Rows are inserted by a pre-receive hook or a redeploy. *)
LEMMA InsertStep ==
  ASSUME [Next]_vars
  PROVE  \/ UNCHANGED <<depApp, depCommit, depTrigger, nextID>>
         \/ \E t \in Sessions : PreReceive(t)
         \/ \E r \in Redeployers : QueueRedeployment(r)
BY DEF Next, Clients, Faults, SessionStep, GitChildStep, RedeployStep, DaemonStepTaken,
   vars, storeVars, otherThanDaemon, RecordQueued,
   Receive, ResolveCurrentMain, KillReceive, KillGit, PostReceiveFails, LoseFinish, KillDaemon,
   ReceiveRecoverResolve, ReceiveRecoverRecord, FinishReceive, Detach, OrphanEnds,
   PreReceiveRejects, UpdateRef, RefuseRef, PostReceiveFind, PostReceiveRecord,
   RedeployRejected, StartDaemon, FailInterrupted, Serve, ListUnqueued, GuardNext, RecoverResolve,
   RecoverRecord, Claim, Execute, Finish

(* While a receive works no other push runs for its app. *)
LEMMA Alone ==
  ASSUME Exclusive, NEW s \in Sessions, NEW t \in Sessions, Works(s), ChildRuns(t), t # s
  PROVE  sapp[t] # sapp[s]
BY DEF Exclusive, LockAgrees, Works

-----------------------------------------------------------------------------
(* A receive follows its own attempt. *)

(* No push row of the app since the receive began but its own. *)
OwnRow(s) ==
  /\ rpc[s] = "idle" \/ git[s] \in {"none", "advertised"} => reserved[s] = NoAttempt
  /\ Works(s) => \A i \in Attempts :
       depTrigger[i] = "push" /\ depApp[i] = sapp[s] /\ i >= before[s] => i = reserved[s]
  /\ rpc[s] = "following" /\ target[s] # NoAttempt => target[s] = reserved[s]
FreshRows == \A i \in Attempts : i >= nextID => depTrigger[i] # "push"

Owned == Exclusive /\ FreshRows /\ \A s \in Sessions : OwnRow(s)

(* Rows yet to be inserted are no push. *)
LEMMA FreshStep ==
  ASSUME Owned, [Next]_vars
  PROVE  FreshRows'
<1> USE DEF Owned, Exclusive, Consistent, TypeOK, FreshRows, Attempts
<1>1. ASSUME NEW a, NEW c, NEW trigger, NEW expected, Reserve(a, c, trigger, expected)
      PROVE  FreshRows'
  BY <1>1 DEF Reserve
<1>2. CASE UNCHANGED <<depApp, depCommit, depTrigger, nextID>>
  BY <1>2
<1> QED
  BY <1>1, <1>2, InsertStep DEF PreReceive, QueueRedeployment

(* Rows that others insert are of other apps or of redeploys. *)
LEMMA OwnRowByOthers ==
  ASSUME Owned, [Next]_vars, NEW s \in Sessions, ~ OwnStep(s)
  PROVE  OwnRow(s)'
<1>1. UNCHANGED <<rpc[s], git[s], sapp[s], new[s], before[s], reserved[s], target[s]>>
  BY OthersKept DEF Owned, Exclusive
<1>2. SUFFICES ASSUME Works(s), NEW i \in Attempts, depTrigger'[i] = "push", depApp'[i] = sapp[s],
                      i >= before[s]
               PROVE  i = reserved[s]
  BY <1>1 DEF Owned, OwnRow, Works
<1>3. CASE UNCHANGED <<depApp, depCommit, depTrigger, nextID>>
  BY <1>2, <1>3 DEF Owned, OwnRow
<1>4. ASSUME NEW a \in Apps, NEW c, NEW trigger, NEW expected, Reserve(a, c, trigger, expected),
             trigger = "push" => a # sapp[s]
      PROVE  i = reserved[s]
  <2>1. /\ nextID \in Attempts /\ depApp' = [depApp EXCEPT ![nextID] = a]
        /\ depTrigger' = [depTrigger EXCEPT ![nextID] = trigger]
    BY <1>4 DEF Reserve
  <2>2. i # nextID
    BY <1>2, <1>4, <2>1 DEF Owned, Exclusive, Consistent, TypeOK
  <2>3. depApp[i] = sapp[s] /\ depTrigger[i] = "push"
    BY <1>2, <2>1, <2>2 DEF Owned, Exclusive, Consistent, TypeOK
  <2> QED
    BY <1>2, <2>3 DEF Owned, OwnRow
<1>5. ASSUME NEW t \in Sessions, PreReceive(t)
      PROVE  i = reserved[s]
  <2>1. t # s /\ ChildRuns(t) /\ Reserve(sapp[t], new[t], "push", old[t])
    BY <1>5 DEF OwnStep, GitChildStep, PreReceive, ChildRuns
  <2>2. sapp[t] # sapp[s]
    BY <1>2, <2>1, Alone DEF Owned
  <2>3. sapp[t] \in Apps
    BY <2>1, DifferentApps DEF Owned
  <2> QED
    BY <1>4, <2>1, <2>2, <2>3
<1>6. ASSUME NEW r \in Redeployers, QueueRedeployment(r)
      PROVE  i = reserved[s]
  <2>1. redeploy[r][1] \in Apps
    BY <1>6, ConstantsAssumption DEF QueueRedeployment, Owned, Exclusive, Consistent, TypeOK
  <2> QED
    BY <1>4, <1>6, <2>1 DEF QueueRedeployment
<1> QED
  BY <1>3, <1>5, <1>6, InsertStep

(* Its own steps: the hook reserves the first row, and what the receive      *)
(* finds accepted at its end is that row.                                    *)
LEMMA OwnRowBySelf ==
  ASSUME AllowOrphans = FALSE, Owned, [Next]_vars, NEW s \in Sessions, OwnStep(s)
  PROVE  OwnRow(s)'
<1> USE DEF Owned, Exclusive, Consistent, TypeOK
<1>0. /\ OwnRow(s)
      /\ ChildRuns(s) => rpc[s] = "receiving"
      /\ rpc[s] \in {"recovering", "finishing", "following"} => git[s] \in {"exited", "killed"}
  BY DEF LockAgrees, SessionsAgree
<1>1. ASSUME NEW a \in Apps, NEW c \in Commits, Receive(s, a, c)
      PROVE  OwnRow(s)'
  <2>1. /\ rpc'[s] = "receiving" /\ before'[s] = nextID /\ reserved'[s] = NoAttempt
        /\ UNCHANGED <<depApp, depTrigger>>
    BY <1>0, <1>1 DEF Receive, OwnRow
  <2>2. \A i \in Attempts : ~ (depTrigger[i] = "push" /\ i >= nextID)
    BY DEF FreshRows
  <2> QED
    BY <2>1, <2>2 DEF OwnRow, Works
<1>2. CASE Detach(s) \/ OrphanEnds(s) \/ KillReceive(s)
  <2>1. rpc'[s] = "idle" /\ reserved'[s] = NoAttempt /\ target'[s] = NoAttempt
    BY <1>2 DEF Detach, OrphanEnds, KillReceive, Forget
  <2> QED
    BY <2>1 DEF OwnRow, Works
<1>3. CASE ReceiveRecoverResolve(s) \/ ReceiveRecoverRecord(s)
  <2>1. /\ Works(s) /\ rpc'[s] \in {"recovering", "finishing"} /\ git'[s] = git[s]
        /\ git[s] \in {"exited", "killed"}
        /\ UNCHANGED <<sapp, before, reserved, depApp, depTrigger>>
    BY <1>0, <1>3 DEF ReceiveRecoverResolve, ReceiveRecoverRecord, RecordQueued, storeVars, Works
  <2> QED
    BY <1>0, <2>1 DEF OwnRow, Works
<1>4. CASE FinishReceive(s)
  <2>1. /\ Works(s) /\ rpc'[s] = "following" /\ git'[s] = git[s] /\ git[s] \in {"exited", "killed"}
        /\ UNCHANGED <<sapp, before, reserved>>
        /\ \/ target'[s] = NoAttempt
           \/ \E i \in Attempts : AcceptedSince(s) = {i} /\ target'[s] = Min({i})
    BY <1>0, <1>4 DEF FinishReceive, Works
  <2>2. ASSUME NEW i \in Attempts, AcceptedSince(s) = {i}
        PROVE  Min({i}) = reserved[s]
    <3>1. i = reserved[s]
      BY <1>0, <2>1, <2>2 DEF AcceptedSince, OwnRow
    <3>2. Min({i}) = i
      <4>1. {i} \subseteq Attempts /\ {i} # {}
        OBVIOUS
      <4> QED
        BY <4>1, MinOfAttempts
    <3> QED
      BY <3>1, <3>2
  <2> QED
    BY <2>1, <2>2 DEF OwnRow, Works
<1>5. CASE PreReceive(s)
  <2>1. /\ rpc'[s] = "receiving" /\ git'[s] = "reserved" /\ Works(s)
        /\ reserved'[s] = nextID /\ reserved[s] = NoAttempt
        /\ UNCHANGED <<sapp, before>>
        /\ depApp' = [depApp EXCEPT ![nextID] = sapp[s]]
        /\ depTrigger' = [depTrigger EXCEPT ![nextID] = "push"]
    BY <1>0, <1>5 DEF PreReceive, Reserve, GitGoes, ChildRuns, OwnRow, Works
  <2>2. \A i \in Attempts : ~ (depTrigger[i] = "push" /\ depApp[i] = sapp[s] /\ i >= before[s])
    BY <1>0, <2>1 DEF OwnRow, NoAttempt, Attempts
  <2> QED
    BY <2>1, <2>2 DEF OwnRow, Works
<1>6. CASE PreReceiveRejects(s) \/ UpdateRef(s) \/ RefuseRef(s) \/ PostReceiveFind(s)
             \/ PostReceiveRecord(s) \/ KillGit(s) \/ PostReceiveFails(s)
  <2>1. /\ rpc' = rpc /\ rpc[s] = "receiving"
        /\ git'[s] \in {"exited", "updated", "found", "killed"}
        /\ UNCHANGED <<sapp, before, reserved, depApp, depTrigger>>
    BY <1>0, <1>6 DEF PreReceiveRejects, UpdateRef, RefuseRef, PostReceiveFind, PostReceiveRecord,
       RecordQueued, KillGit, PostReceiveFails, GitGoes, storeVars, ChildRuns
  <2> QED
    BY <1>0, <2>1 DEF OwnRow, Works
<1> QED
  BY <1>1, <1>2, <1>3, <1>4, <1>5, <1>6 DEF OwnStep, SessionStep, GitChildStep

(* What a receive finds new and accepted in the tables when its push has     *)
(* ended is the attempt its own hook reserved, and this is what it follows.  *)
THEOREM ReceivesFollowTheirOwn ==
  ASSUME AllowOrphans = FALSE
  PROVE  Spec => []FollowsOwnAttempt
<1>1. Init /\ Exclusive => Owned
  BY DEF Init, Owned, FreshRows, OwnRow, Works
<1>2. Owned /\ [Next]_vars /\ Exclusive' => Owned'
  BY FreshStep, OwnRowByOthers, OwnRowBySelf DEF Owned
<1>3. Owned => FollowsOwnAttempt
  BY DEF Owned, OwnRow, FollowsOwnAttempt
<1> QED
  BY <1>1, <1>2, <1>3, AlwaysExclusive, PTL DEF Spec

-----------------------------------------------------------------------------
(* The newest push is main. *)

(* Main stays where it is unless a push of the app is between its hooks. *)
LEMMA MainKept ==
  ASSUME Consistent, [Next]_vars, NEW a \in Apps,
         \A s \in Sessions : git[s] = "reserved" => sapp[s] # a
  PROVE  main'[a] = main[a]
<1>1. ASSUME NEW s \in Sessions, UpdateRef(s)
      PROVE  main'[a] = main[a]
  <2>1. sapp[s] # a /\ main' = [main EXCEPT ![sapp[s]] = new[s]]
    BY <1>1 DEF UpdateRef
  <2> QED
    BY <2>1 DEF Consistent, TypeOK
<1> QED
  BY <1>1, EveryStepMovesMain DEF MainMoves

(* What a hook, a receive or the daemon holds to record is at main. *)
HeldBy(s) == rpc[s] = "recovering" \/ git[s] = "found"
HeldIsMain(s) ==
  HeldBy(s) => depApp[target[s]] = sapp[s] /\ depCommit[target[s]] = main[sapp[s]]
DaemonHeldIsMain == daemon = "recovering" => depCommit[current] = main[depApp[current]]
HeldAgrees == DaemonHeldIsMain /\ \A s \in Sessions : HeldIsMain(s)

(* A session that stands with its target has just found it or keeps it. *)
LEMMA HeldStep ==
  ASSUME AllowOrphans = FALSE, Exclusive, HeldAgrees, [Next]_vars, NEW s \in Sessions
  PROVE  HeldIsMain(s)'
<1> USE DEF Exclusive, Consistent, TypeOK
<1>0. RowsKept
  BY EveryStepIsRowStep, RowsKeptStep
<1>1. ASSUME HeldBy(s), UNCHANGED <<sapp[s], target[s]>>
      PROVE  HeldIsMain(s)'
  <2>1. Works(s) /\ git[s] # "reserved" /\ target[s] \in Attempts /\ status[target[s]] # "none"
    BY <1>1 DEF HeldBy, Works, LockAgrees, ChildRuns, SessionsAgree
  <2>2. sapp[s] \in Apps
    BY <2>1 DEF Works, LockAgrees
  <2>3. \A t \in Sessions : git[t] = "reserved" => sapp[t] # sapp[s]
    BY <2>1, Alone DEF ChildRuns
  <2>4. main'[sapp[s]] = main[sapp[s]]
    BY <2>2, <2>3, MainKept
  <2> QED
    BY <1>0, <1>1, <2>1, <2>4 DEF HeldAgrees, HeldIsMain, RowsKept
<1>2. ASSUME ~ HeldBy(s)'
      PROVE  HeldIsMain(s)'
  BY <1>2 DEF HeldIsMain, HeldBy
<1>3. CASE ReceiveRecoverResolve(s)
  <2>1. CASE Recoverable(sapp[s]) # {}
    <3>1. Min(Recoverable(sapp[s])) \in Recoverable(sapp[s])
      BY <2>1, ChosenAttempts
    <3>2. /\ target'[s] = Min(Recoverable(sapp[s]))
          /\ UNCHANGED <<main, sapp, depApp, depCommit>>
      BY <1>3, <2>1 DEF ReceiveRecoverResolve, storeVars
    <3> QED
      BY <3>1, <3>2 DEF Recoverable, HeldIsMain
  <2>2. CASE Recoverable(sapp[s]) = {}
    <3>1. rpc'[s] = "finishing" /\ git'[s] = git[s] /\ git[s] \in {"exited", "killed"}
      BY <1>3, <2>2 DEF ReceiveRecoverResolve
    <3> QED
      BY <1>2, <3>1 DEF HeldBy
  <2> QED
    BY <2>1, <2>2
<1>4. CASE PostReceiveFind(s)
  <2> DEFINE Found == OfCommit(sapp[s], new[s])
  <2>1. git[s] = "updated" /\ main[sapp[s]] = new[s] /\ rpc'[s] = "receiving"
    BY <1>4 DEF PostReceiveFind, MainAgrees, LockAgrees, ChildRuns
  <2>2. CASE Found # {}
    <3>1. Max(Found) \in Found
      BY <2>2, ChosenAttempts
    <3>2. target'[s] = Max(Found) /\ UNCHANGED <<main, sapp, depApp, depCommit>>
      BY <1>4, <2>2 DEF PostReceiveFind, storeVars
    <3> QED
      BY <2>1, <3>1, <3>2 DEF OfCommit, HeldIsMain
  <2>3. CASE Found = {}
    <3>1. git'[s] = "exited"
      BY <1>4, <2>3 DEF PostReceiveFind, GitGoes
    <3> QED
      BY <1>2, <2>1, <3>1 DEF HeldBy
  <2> QED
    BY <2>2, <2>3
<1>5. ASSUME OwnStep(s), ~ ReceiveRecoverResolve(s), ~ PostReceiveFind(s)
      PROVE  ~ HeldBy(s)'
  <2>1. /\ ChildRuns(s) => rpc[s] = "receiving"
        /\ rpc[s] \in {"recovering", "finishing", "following"} => git[s] \in {"exited", "killed"}
    BY DEF LockAgrees, SessionsAgree
  <2>2. ASSUME NEW a \in Apps, NEW c \in Commits, Receive(s, a, c)
        PROVE  ~ HeldBy(s)'
    BY <2>2 DEF Receive, HeldBy
  <2>3. CASE ReceiveRecoverRecord(s) \/ FinishReceive(s) \/ Detach(s) \/ OrphanEnds(s) \/ KillReceive(s)
    BY <2>1, <2>3 DEF ReceiveRecoverRecord, FinishReceive, Detach, OrphanEnds, KillReceive, Forget,
       HeldBy
  <2>4. CASE PreReceive(s) \/ PreReceiveRejects(s) \/ UpdateRef(s) \/ RefuseRef(s)
             \/ PostReceiveRecord(s) \/ KillGit(s) \/ PostReceiveFails(s)
    BY <2>1, <2>4 DEF PreReceive, PreReceiveRejects, UpdateRef, RefuseRef, PostReceiveRecord, KillGit,
       PostReceiveFails, GitGoes, ChildRuns, HeldBy
  <2> QED
    BY <1>5, <2>2, <2>3, <2>4 DEF OwnStep, SessionStep, GitChildStep
<1>6. CASE ~ OwnStep(s)
  BY <1>1, <1>2, <1>6, OthersKept DEF HeldBy
<1> QED
  BY <1>2, <1>3, <1>4, <1>5, <1>6

(* The daemon finds what it records under the same lock. *)
LEMMA DaemonHeldStep ==
  ASSUME Exclusive, HeldAgrees, [Next]_vars
  PROVE  DaemonHeldIsMain'
<1> USE DEF Exclusive, Consistent, TypeOK
<1>0. RowsKept
  BY EveryStepIsRowStep, RowsKeptStep
<1>1. ASSUME daemon = "recovering", UNCHANGED current
      PROVE  DaemonHeldIsMain'
  <2>1. current \in Attempts /\ status[current] # "none" /\ depApp[current] \in Apps
    BY <1>1 DEF DaemonAgrees, RowsAgree
  <2>2. \A t \in Sessions : git[t] = "reserved" => sapp[t] # depApp[current]
    BY <1>1, ConstantsAssumption DEF LockAgrees, ChildRuns
  <2>3. main'[depApp[current]] = main[depApp[current]]
    BY <2>1, <2>2, MainKept
  <2> QED
    BY <1>0, <1>1, <2>1, <2>3 DEF HeldAgrees, DaemonHeldIsMain, RowsKept
<1>2. CASE RecoverResolve
  <2> DEFINE Found == Recoverable(depApp[current])
  <2>1. CASE Found # {}
    <3>1. Min(Found) \in Found
      BY <2>1, ChosenAttempts
    <3>2. current' = Min(Found) /\ UNCHANGED <<main, depApp, depCommit>>
      BY <1>2, <2>1 DEF RecoverResolve, otherThanDaemon
    <3> QED
      BY <3>1, <3>2 DEF Recoverable, DaemonHeldIsMain
  <2>2. CASE Found = {}
    BY <1>2, <2>2 DEF RecoverResolve, DaemonHeldIsMain
  <2> QED
    BY <2>1, <2>2
<1>3. \/ daemon' # "recovering" \/ RecoverResolve
      \/ daemon = "recovering" /\ UNCHANGED current
  BY DEF Next, Clients, Faults, SessionStep, GitChildStep, RedeployStep, DaemonStepTaken,
     vars, daemonVars, Receive, ResolveCurrentMain, KillReceive, KillGit, PostReceiveFails, LoseFinish,
     KillDaemon, ReceiveRecoverResolve, ReceiveRecoverRecord, FinishReceive, Detach, OrphanEnds,
     PreReceive, PreReceiveRejects, UpdateRef, RefuseRef, PostReceiveFind, PostReceiveRecord,
     QueueRedeployment, RedeployRejected, StartDaemon, FailInterrupted, Serve, ListUnqueued, GuardNext,
     RecoverRecord, Claim, Execute, Finish
<1> QED
  BY <1>1, <1>2, <1>3 DEF DaemonHeldIsMain

(* Between its hooks a push keeps its reservation the newest of its app. *)
IsPush(i) == depTrigger[i] = "push" /\ status[i] \notin {"none", "discarded"}
IsNewest(i) ==
  i \in Attempts /\ IsPush(i) /\ \A j \in Attempts : IsPush(j) /\ depApp[j] = depApp[i] => j <= i
ReservedNewest ==
  \A s \in Sessions : git[s] = "reserved" =>
    IsNewest(reserved[s]) /\ depApp[reserved[s]] = sapp[s] /\ depCommit[reserved[s]] = new[s]

(* The newest push of an app is main, or a reservation that nothing records. *)
NewestAgrees ==
  \A i \in Attempts : IsNewest(i) =>
    depCommit[i] = main[depApp[i]] \/ (status[i] = "pending" /\ i \notin queued)

Newest == Exclusive /\ HeldAgrees /\ ReservedNewest /\ NewestAgrees

(* A reservation discards at most a pending row of its own app. *)
LEMMA ReserveKeepsOthers ==
  ASSUME Consistent, NEW a \in Apps, NEW c, NEW trigger, NEW expected,
         Reserve(a, c, trigger, expected), NEW i \in Attempts, i # nextID
  PROVE  status'[i] = status[i] \/ (depApp[i] = a /\ status'[i] = "discarded" /\ status[i] # "none")
<1>1. \/ status'[i] = status[i]
      \/ /\ status'[i] = "discarded" /\ ActiveOf(a) # {} /\ i = Min(ActiveOf(a))
         /\ MayDiscard(i, expected)
  BY ReserveEffect DEF Consistent
<1>2. ActiveOf(a) # {} => Min(ActiveOf(a)) \in ActiveOf(a)
  BY ChosenAttempts DEF Consistent
<1>3. i \in ActiveOf(a) => depApp[i] = a
  BY DEF ActiveOf
<1>4. MayDiscard(i, expected) => status[i] # "none"
  BY DEF MayDiscard
<1> QED
  BY <1>1, <1>2, <1>3, <1>4

(* A push that reserves is the newest of its app from then on. *)
LEMMA ReserveIsNewest ==
  ASSUME Consistent, NEW a \in Apps, NEW c, NEW expected, Reserve(a, c, "push", expected),
         NEW n \in Attempts, n = nextID
  PROVE  /\ depApp'[n] = a /\ depCommit'[n] = c
         /\ status'[n] = "pending" /\ n \notin queued'
         /\ IsNewest(n)'
         /\ \A i \in Attempts : IsNewest(i)' /\ depApp'[i] = a => i = n
         /\ \A i \in Attempts : IsNewest(i)' /\ depApp'[i] # a
              => IsNewest(i) /\ depApp'[i] = depApp[i] /\ depCommit'[i] = depCommit[i]
                 /\ status'[i] = status[i] /\ (i \in queued' <=> i \in queued)
<1> USE DEF Consistent, TypeOK
<1>1. n = nextID /\ status[n] = "none" /\ status'[n] = "pending"
  BY ReserveEffect
<1>2. /\ depApp' = [depApp EXCEPT ![n] = a] /\ depCommit' = [depCommit EXCEPT ![n] = c]
      /\ depTrigger' = [depTrigger EXCEPT ![n] = "push"] /\ queued' = queued
  BY <1>1 DEF Reserve
<1>3. n \notin queued
  BY <1>1 DEF RowsAgree
<1>4. ASSUME NEW i \in Attempts, i # n
      PROVE  status'[i] = status[i] \/ (depApp[i] = a /\ status'[i] = "discarded" /\ status[i] # "none")
  BY <1>1, <1>4, ReserveKeepsOthers
<1>5. \A i \in Attempts : status'[i] # "none" => i <= n
  BY <1>1, <1>4 DEF RowsAgree, Attempts
<1>6. IsPush(n)' /\ depApp'[n] = a
  BY <1>1, <1>2 DEF IsPush
<1>7. IsNewest(n)'
  BY <1>1, <1>5, <1>6 DEF IsNewest, IsPush
<1>8. ASSUME NEW i \in Attempts, IsNewest(i)', depApp'[i] = a
      PROVE  i = n
  <2>1. n <= i
    BY <1>6, <1>8 DEF IsNewest
  <2>2. i <= n
    BY <1>5, <1>8 DEF IsNewest, IsPush
  <2> QED
    BY <2>1, <2>2 DEF Attempts
<1>9. ASSUME NEW i \in Attempts, IsNewest(i)', depApp'[i] # a
      PROVE  /\ IsNewest(i) /\ depApp'[i] = depApp[i] /\ depCommit'[i] = depCommit[i]
             /\ status'[i] = status[i]
  <2>1. i # n /\ depApp'[i] = depApp[i] /\ depCommit'[i] = depCommit[i]
    BY <1>1, <1>2, <1>9
  <2>2. status'[i] = status[i] /\ depTrigger'[i] = depTrigger[i]
    BY <1>1, <1>2, <1>4, <1>9, <2>1
  <2>3. ASSUME NEW j \in Attempts, IsPush(j), depApp[j] = depApp[i]
        PROVE  IsPush(j)' /\ depApp'[j] = depApp'[i]
    BY <1>1, <1>2, <1>4, <1>9, <2>1, <2>3 DEF IsPush
  <2> QED
    BY <1>9, <2>1, <2>2, <2>3 DEF IsNewest, IsPush
<1> QED
  BY <1>1, <1>2, <1>3, <1>6, <1>7, <1>8, <1>9

(* No other step makes or removes a push row. *)
LEMMA PushRowsKept ==
  ASSUME Consistent, RowStep, ~ PushReserves
  PROVE  \A i \in Attempts : IsNewest(i)' <=> IsNewest(i)
<1> USE DEF Consistent, TypeOK
<1>1. ASSUME NEW j \in Attempts
      PROVE  IsPush(j)' <=> IsPush(j)
  <2>1. CASE NoRowStep \/ RecordStep
    BY <2>1 DEF NoRowStep, RecordStep, IsPush
  <2>2. CASE ClaimStep \/ EndStep
    BY <2>2 DEF ClaimStep, EndStep, Claimable, Deploying, Terminal, IsPush
  <2>3. ASSUME NEW b \in Apps, NEW c \in Commits, Reserve(b, c, "redeploy", None)
        PROVE  IsPush(j)' <=> IsPush(j)
    <3>1. /\ nextID \in Attempts /\ status[nextID] = "none"
          /\ \A i \in Attempts \ {nextID} : status'[i] = status[i]
      BY <2>3, ReserveEffect
    <3>2. depTrigger' = [depTrigger EXCEPT ![nextID] = "redeploy"]
      BY <2>3 DEF Reserve
    <3> QED
      BY <3>1, <3>2 DEF IsPush
  <2> QED
    BY <2>1, <2>2, <2>3 DEF RowStep, RedeployQueues
<1>2. \A j \in Attempts : IsPush(j) => depApp'[j] = depApp[j]
  BY RowsKeptStep DEF RowsKept, IsPush
<1> QED
  BY <1>1, <1>2 DEF IsNewest

(* A reservation stays the newest: no other push of its app runs. *)
LEMMA ReservedNewestStep ==
  ASSUME Newest, [Next]_vars
  PROVE  ReservedNewest'
<1> SUFFICES ASSUME NEW s \in Sessions, git'[s] = "reserved"
             PROVE  \E n \in Attempts : /\ reserved'[s] = n /\ IsNewest(n)'
                                        /\ depApp'[n] = sapp'[s] /\ depCommit'[n] = new'[s]
  BY DEF ReservedNewest, IsNewest, IsPush
<1> USE DEF Newest, Exclusive, Consistent, TypeOK
<1>0. RowStep /\ RowsKept
  BY EveryStepIsRowStep, RowsKeptStep
<1>1. CASE PreReceive(s)
  <2>1. /\ Reserve(sapp[s], new[s], "push", old[s]) /\ reserved'[s] = nextID
        /\ UNCHANGED <<sapp, new>> /\ ChildRuns(s) /\ nextID \in Attempts
    BY <1>1 DEF PreReceive, ChildRuns, Reserve
  <2>2. sapp[s] \in Apps
    BY <2>1, DifferentApps
  <2>3. PICK n \in Attempts : n = nextID
    BY <2>1
  <2>4. IsNewest(n)' /\ depApp'[n] = sapp[s] /\ depCommit'[n] = new[s]
    BY <2>1, <2>2, <2>3, ReserveIsNewest
  <2>5. reserved'[s] = n
    BY <2>1, <2>3
  <2> WITNESS n \in Attempts
  <2> QED
    BY <2>1, <2>4, <2>5
<1>2. CASE git[s] = "reserved" /\ UNCHANGED <<reserved[s], sapp[s], new[s]>>
  <2>0. PICK i \in Attempts : i = reserved[s]
    BY <1>2 DEF ReservedNewest, IsNewest
  <2>1. reserved'[s] = i /\ IsNewest(i) /\ depApp[i] = sapp[s] /\ depCommit[i] = new[s]
        /\ status[i] # "none"
    BY <1>2, <2>0 DEF ReservedNewest, IsNewest, IsPush
  <2>2. depApp'[i] = sapp[s] /\ depCommit'[i] = new[s]
    BY <1>0, <2>1 DEF RowsKept
  <2>3. ASSUME ~ PushReserves
        PROVE  IsNewest(i)'
    BY <1>0, <2>1, <2>3, PushRowsKept
  <2>4. ASSUME NEW t \in Sessions, git[t] = "advertised", sapp[t] \in Apps,
               Reserve(sapp[t], new[t], "push", old[t])
        PROVE  IsNewest(i)'
    <3>1. sapp[t] # sapp[s]
      BY <1>2, <2>4, DifferentApps DEF ChildRuns
    <3>2. nextID \in Attempts /\ status[nextID] = "none"
      BY <2>4, ReserveEffect
    <3>3. /\ depApp' = [depApp EXCEPT ![nextID] = sapp[t]]
          /\ depTrigger' = [depTrigger EXCEPT ![nextID] = "push"]
      BY <2>4 DEF Reserve
    <3>4. \A j \in Attempts \ {nextID} :
            status'[j] = status[j] \/ (depApp[j] = sapp[t] /\ status'[j] = "discarded")
      BY <2>4, ReserveKeepsOthers
    <3>5. ASSUME NEW j \in Attempts, IsPush(j)', depApp'[j] = sapp[s]
          PROVE  IsPush(j) /\ depApp[j] = sapp[s]
      BY <3>1, <3>2, <3>3, <3>4, <3>5 DEF IsPush
    <3>6. IsPush(i)'
      BY <2>1, <3>1, <3>2, <3>3, <3>4 DEF IsNewest, IsPush
    <3> QED
      BY <2>1, <2>2, <3>5, <3>6 DEF IsNewest
  <2>5. IsNewest(i)'
    BY <2>3, <2>4 DEF PushReserves
  <2> WITNESS i \in Attempts
  <2> QED
    BY <1>2, <2>1, <2>2, <2>5
<1> QED
  BY <1>1, <1>2, ReservationKept

(* The newest row of an app is recorded only when main is there, and main   *)
(* moves only to the newest row.                                            *)
LEMMA NewestStep ==
  ASSUME Newest, [Next]_vars
  PROVE  NewestAgrees'
<1> SUFFICES ASSUME NEW i \in Attempts, IsNewest(i)'
             PROVE  \/ depCommit'[i] = main'[depApp'[i]]
                    \/ status'[i] = "pending" /\ i \notin queued'
  BY DEF NewestAgrees
<1> DEFINE Goal == \/ depCommit'[i] = main'[depApp'[i]]
                   \/ status'[i] = "pending" /\ i \notin queued'
<1> USE DEF Newest, Exclusive, Consistent, TypeOK
<1>0. RowStep /\ RowsKept
  BY EveryStepIsRowStep, RowsKeptStep
<1>1. ASSUME NEW s \in Sessions, UpdateRef(s)
      PROVE  Goal
  <2>1. /\ git[s] = "reserved" /\ main' = [main EXCEPT ![sapp[s]] = new[s]] /\ sapp[s] \in Apps
        /\ UNCHANGED <<depApp, depCommit, depTrigger, status, queued>>
    BY <1>1, DifferentApps DEF UpdateRef, storeVars, ChildRuns
  <2>2. IsNewest(i) /\ status[i] # "none" /\ depApp[i] \in Apps
    BY <2>1 DEF IsNewest, IsPush, RowsAgree
  <2>3. CASE depApp[i] = sapp[s]
    <3>1. /\ IsNewest(reserved[s]) /\ depApp[reserved[s]] = sapp[s]
          /\ depCommit[reserved[s]] = new[s]
      BY <2>1 DEF ReservedNewest
    <3>2. i = reserved[s]
      BY <2>2, <2>3, <3>1 DEF IsNewest, IsPush, Attempts
    <3> QED
      BY <2>1, <2>3, <3>1, <3>2
  <2>4. CASE depApp[i] # sapp[s]
    BY <2>1, <2>2, <2>4 DEF NewestAgrees
  <2> QED
    BY <2>3, <2>4
<1>2. ASSUME main' = main, ~ PushReserves
      PROVE  Goal
  <2>1. IsNewest(i) /\ status[i] # "none"
    BY <1>0, <1>2, PushRowsKept DEF IsNewest, IsPush
  <2>2. depCommit'[i] = depCommit[i] /\ depApp'[i] = depApp[i]
    BY <1>0, <2>1 DEF RowsKept
  <2>3. CASE depCommit[i] = main[depApp[i]]
    BY <1>2, <2>2, <2>3
  <2>4. ASSUME depCommit[i] # main[depApp[i]]
        PROVE  status'[i] = "pending" /\ i \notin queued'
    <3>1. status[i] = "pending" /\ i \notin queued
      BY <2>1, <2>4 DEF NewestAgrees
    <3>2. ~ IsHeld(i)
      BY <2>4 DEF IsHeld, HeldAgrees, HeldIsMain, HeldBy, DaemonHeldIsMain
    <3>3. CASE NoRowStep \/ RecordStep
      BY <3>1, <3>2, <3>3 DEF NoRowStep, RecordStep
    <3>4. CASE ClaimStep \/ EndStep
      BY <3>1, <3>4 DEF ClaimStep, EndStep, Claimable, Deploying
    <3>5. ASSUME NEW a \in Apps, NEW c \in Commits, Reserve(a, c, "redeploy", None)
          PROVE  status'[i] = "pending" /\ i \notin queued'
      <4>1. nextID \in Attempts /\ i # nextID /\ status'[i] = status[i]
        BY <3>1, <3>5, ReserveEffect
      <4>2. queued' = queued \cup {nextID}
        BY <3>5 DEF Reserve
      <4> QED
        BY <3>1, <4>1, <4>2
    <3> QED
      BY <1>0, <1>2, <3>3, <3>4, <3>5 DEF RowStep, RedeployQueues
  <2> QED
    BY <2>3, <2>4
<1>3. ASSUME main' = main, NEW s \in Sessions, sapp[s] \in Apps,
             Reserve(sapp[s], new[s], "push", old[s])
      PROVE  Goal
  <2>0. PICK n \in Attempts : n = nextID
    BY <1>3 DEF Reserve
  <2>1. CASE depApp'[i] = sapp[s]
    <3>1. i = n /\ status'[n] = "pending" /\ n \notin queued'
      BY <1>3, <2>0, <2>1, ReserveIsNewest
    <3> QED
      BY <3>1
  <2>2. CASE depApp'[i] # sapp[s]
    <3>1. /\ IsNewest(i) /\ depApp'[i] = depApp[i] /\ depCommit'[i] = depCommit[i]
          /\ status'[i] = status[i] /\ (i \in queued' <=> i \in queued)
      BY <1>3, <2>0, <2>2, ReserveIsNewest
    <3> QED
      BY <1>3, <3>1 DEF NewestAgrees
  <2> QED
    BY <2>1, <2>2
<1> QED
  BY <1>1, <1>2, <1>3, EveryStepMovesMain DEF MainMoves, PushReserves

(* Once no attempt of an app is active, the newest push attempt is the one  *)
(* for main: no interleaving of pushes, discards, recoveries and crashes    *)
(* lets an older push end after a newer one.                                *)
THEOREM NewestPushesMain ==
  ASSUME AllowOrphans = FALSE
  PROVE  Spec => []NewestPushIsMain
<1>1. Init /\ Exclusive => Newest
  BY DEF Init, Newest, HeldAgrees, HeldIsMain, HeldBy, DaemonHeldIsMain, ReservedNewest, NewestAgrees,
     IsNewest, IsPush
<1>2. Newest /\ [Next]_vars /\ Exclusive' => Newest'
  BY HeldStep, DaemonHeldStep, ReservedNewestStep, NewestStep DEF Newest, HeldAgrees
<1>3. Newest => NewestPushIsMain
  <2> SUFFICES ASSUME Newest, NEW a \in Apps, ActiveOf(a) = {}, PushRows(a) # {}
               PROVE  depCommit[Max(PushRows(a))] = main[a]
    BY DEF NewestPushIsMain
  <2>1. PushRows(a) \subseteq Attempts
    BY DEF PushRows
  <2>2. Max(PushRows(a)) \in PushRows(a) /\ \A j \in PushRows(a) : j <= Max(PushRows(a))
    BY <2>1, MaxOfAttempts
  <2>3. depApp[Max(PushRows(a))] = a /\ IsNewest(Max(PushRows(a))) /\ Max(PushRows(a)) \in Attempts
    BY <2>2 DEF PushRows, IsNewest, IsPush
  <2>4. status[Max(PushRows(a))] # "pending"
    BY <2>3 DEF ActiveOf, IsActive
  <2> QED
    BY <2>3, <2>4 DEF Newest, NewestAgrees
<1> QED
  BY <1>1, <1>2, <1>3, AlwaysExclusive, PTL DEF Spec

=============================================================================
