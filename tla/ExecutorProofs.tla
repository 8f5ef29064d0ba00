--------------------------- MODULE ExecutorProofs ---------------------------
(***************************************************************************)
(* Theorems about Executor, for every set of apps and commits and every    *)
(* bound: what a success on record stands for, and that it is never taken   *)
(* away.                                                                     *)
(***************************************************************************)
EXTENDS Executor, FiniteSetTheorems, WellFoundedInduction, TLAPS

(* Every set of natural numbers has a smallest one: the library states it  *)
(* for its well-founded order.                                              *)
LEMMA LeastNatural ==
  ASSUME NEW S, S \subseteq Nat, S # {}
  PROVE  \E x \in S : \A y \in S : x <= y
<1>1. IsWellFoundedOn(OpToRel(<, Nat), Nat)
  BY NatLessThanWellFounded
<1>2. PICK x \in S : \A y \in S : ~ (<<y, x>> \in OpToRel(<, Nat))
  BY <1>1, WFMin
<1>3. \A y \in S : ~ (y < x)
  BY <1>2 DEF OpToRel
<1> QED
  BY <1>3

(* The oldest of some attempts is one of them. *)
LEMMA MinOfAttempts ==
  ASSUME NEW S, S \subseteq Attempts, S # {}
  PROVE  Min(S) \in S /\ \A j \in S : Min(S) <= j
<1>1. S \subseteq Nat
  BY DEF Attempts
<1>2. \E x \in S : \A y \in S : x <= y
  BY <1>1, LeastNatural
<1> QED
  BY <1>2 DEF Min


-----------------------------------------------------------------------------
(* The daemon works on an attempt that is deploying, and its list of       *)
(* interrupted attempts holds no other while it finalizes them.             *)
WorkAgrees ==
  /\ step \in ExecuteSteps \cup FailSteps => current \in Attempts /\ status[current] = "deploying"
  /\ step \in ExecuteSteps => ~ booting
  /\ ~ booting => todo = {}
  /\ booting => step \in {"recover"} \cup FailSteps
  /\ \A i \in todo : status[i] = "deploying"
  /\ \A i \in Attempts : status[i] # "none" => depApp[i] \in Apps /\ depCommit[i] \in Commits

(* A release is created only if there is none. *)
StoredAgrees ==
  /\ step \in {"start", "checkout", "create release"} /\ ~ stored => ReleaseOf(current) = "absent"
  /\ step = "create release" => ~ stored

(* What a run without errors has behind it at each write of its end. *)
TailAgrees ==
  ~ problem =>
    /\ step \in {"mark release", "mark app", "success event", "finish"} => current \in routed
    /\ step \in {"mark app", "success event", "finish"} => ReleaseOf(current) = "succeeded"
    /\ step = "finish" => "succeeded" \in events[current]

Sound == TypeOK /\ WorkAgrees /\ StoredAgrees /\ TailAgrees

(* Initially no attempt, and no daemon, exists. *)
LEMMA InitSound == Init => Sound
<1> SUFFICES ASSUME Init PROVE Sound
  OBVIOUS
<1> USE DEF Init
<1>1. /\ status \in [Attempts -> AttemptStatus]
      /\ depApp \in [Attempts -> Apps \cup {None}]
      /\ depCommit \in [Attempts -> Commits \cup {None}]
  BY DEF AttemptStatus
<1>2. events \in [Attempts -> SUBSET {"started", "succeeded", "failed"}]
  OBVIOUS
<1>3. /\ release \in [Apps -> [Commits -> ReleaseStatus]]
      /\ appStatus \in [Apps -> AppStatus]
  BY DEF ReleaseStatus, AppStatus
<1>4. /\ step \in Steps
      /\ current \in Attempts \cup {NoAttempt}
      /\ crashes \in 0 .. MaxCrashes /\ refusals \in 0 .. MaxRefusals
  BY ExecutorAssumption DEF Steps
<1>5. TypeOK
  BY <1>1, <1>2, <1>3, <1>4 DEF TypeOK
<1>6. WorkAgrees /\ StoredAgrees /\ TailAgrees
  BY DEF WorkAgrees, StoredAgrees, TailAgrees, ExecuteSteps, FailSteps
<1> QED
  BY <1>5, <1>6 DEF Sound

(* The oldest attempt of a list or of the queue is one of them. *)
LEMMA OldestInList ==
  ASSUME TypeOK
  PROVE  /\ todo # {} => Min(todo) \in todo
         /\ Pending # {} => Min(Pending) \in Pending
         /\ Pending \subseteq Attempts /\ Deploying \subseteq Attempts
<1>1. todo \subseteq Attempts /\ Pending \subseteq Attempts /\ Deploying \subseteq Attempts
  BY DEF TypeOK, Pending, Deploying
<1>2. todo # {} => Min(todo) \in todo
  BY <1>1, MinOfAttempts
<1>3. Pending # {} => Min(Pending) \in Pending
  BY <1>1, MinOfAttempts
<1> QED
  BY <1>1, <1>2, <1>3

-----------------------------------------------------------------------------
(* Each write leaves its column with a value of its type. *)
LEMMA WritesTyped ==
  ASSUME Sound
  PROVE  /\ \A i \in Attempts, s \in AttemptStatus :
              SetStatus(i, s) => status' \in [Attempts -> AttemptStatus]
         /\ \A s \in ReleaseStatus :
              step \in ExecuteSteps \cup FailSteps /\ SetRelease(current, s)
                => release' \in [Apps -> [Commits -> ReleaseStatus]]
         /\ \A s \in AppStatus : SetApp(current, s) => appStatus' \in [Apps -> AppStatus]
         /\ \A e \in {"started", "succeeded", "failed"} :
              AddEvent(current, e)
                => events' \in [Attempts -> SUBSET {"started", "succeeded", "failed"}]
         /\ \A s \in ReleaseStatus : UnlessSucceeded(current, s) \in ReleaseStatus
         /\ Refused => refusals' \in 0 .. MaxRefusals
         /\ Crash => crashes' \in 0 .. MaxCrashes
<1> USE DEF Sound, TypeOK
<1>1. ASSUME NEW i \in Attempts, NEW s \in AttemptStatus, SetStatus(i, s)
      PROVE  status' \in [Attempts -> AttemptStatus]
  BY <1>1 DEF SetStatus
<1>2. ASSUME NEW s \in ReleaseStatus, step \in ExecuteSteps \cup FailSteps, SetRelease(current, s)
      PROVE  release' \in [Apps -> [Commits -> ReleaseStatus]]
  <2>1. [release[depApp[current]] EXCEPT ![depCommit[current]] = s] \in [Commits -> ReleaseStatus]
    BY <1>2 DEF WorkAgrees
  <2> QED
    BY <1>2, <2>1 DEF SetRelease
<1>3. ASSUME NEW s \in AppStatus, SetApp(current, s)
      PROVE  appStatus' \in [Apps -> AppStatus]
  BY <1>3 DEF SetApp
<1>4. ASSUME NEW e \in {"started", "succeeded", "failed"}, AddEvent(current, e)
      PROVE  events' \in [Attempts -> SUBSET {"started", "succeeded", "failed"}]
  <2> DEFINE Kinds == {"started", "succeeded", "failed"}
  <2>1. \A i \in Attempts : events[i] \cup {e} \subseteq Kinds
    OBVIOUS
  <2>2. events \in [Attempts -> SUBSET Kinds] /\ e \in Kinds
    OBVIOUS
  <2> HIDE DEF Kinds
  <2>3. events' \in [Attempts -> SUBSET Kinds]
    BY <1>4, <2>1, <2>2 DEF AddEvent
  <2> QED
    BY <2>3 DEF Kinds
<1>5. ASSUME NEW s \in ReleaseStatus
      PROVE  UnlessSucceeded(current, s) \in ReleaseStatus
  BY DEF UnlessSucceeded, ReleaseStatus, Terminal
<1>6. Refused => refusals' \in 0 .. MaxRefusals
  BY ExecutorAssumption DEF Refused
<1>7. Crash => crashes' \in 0 .. MaxCrashes
  <2>1. crashes \in Nat /\ MaxCrashes \in Nat
    BY ExecutorAssumption
  <2> HIDE DEF Sound, TypeOK
  <2> QED
    BY <2>1 DEF Crash
<1> QED
  BY <1>1, <1>2, <1>3, <1>4, <1>5, <1>6, <1>7

(* Every step keeps the types. *)
LEMMA TypeStep ==
  ASSUME Sound, [Next]_vars
  PROVE  TypeOK'
<1> USE ExecutorAssumption, OldestInList, WritesTyped
    DEF Sound, TypeOK, WorkAgrees, vars, storeVars, daemonVars, historyVars, AttemptStatus,
        ReleaseStatus, AppStatus, Steps, ExecuteSteps, FailSteps, Terminal, Written, EventRefused
<1>1. ASSUME NEW i \in Attempts, NEW a \in Apps, NEW c \in Commits, Queue(i, a, c)
      PROVE  TypeOK'
  BY <1>1 DEF Queue, Attempts
<1>2. ASSUME StartDaemon
      PROVE  TypeOK'
  BY <1>2 DEF StartDaemon, Interrupted
<1>3. ASSUME FailInterrupted
      PROVE  TypeOK'
  BY <1>3 DEF FailInterrupted
<1>4. ASSUME Serve
      PROVE  TypeOK'
  BY <1>4 DEF Serve
<1>5. ASSUME Poll
      PROVE  TypeOK'
  BY <1>5 DEF Poll
<1>6. ASSUME Claim
      PROVE  TypeOK'
  BY <1>6 DEF Claim
<1>7. ASSUME LoadRelease
      PROVE  TypeOK'
  BY <1>7 DEF LoadRelease
<1>8. ASSUME RecordStart
      PROVE  TypeOK'
  BY <1>8 DEF RecordStart
<1>9. ASSUME Checkout
      PROVE  TypeOK'
  BY <1>9 DEF Checkout
<1>10. ASSUME CreateRelease
      PROVE  TypeOK'
  BY <1>10 DEF CreateRelease
<1>11. ASSUME Deploy
      PROVE  TypeOK'
  BY <1>11 DEF Deploy
<1>12. ASSUME Route
      PROVE  TypeOK'
  BY <1>12 DEF Route
<1>13. ASSUME MarkRelease
      PROVE  TypeOK'
  BY <1>13 DEF MarkRelease
<1>14. ASSUME MarkApp
      PROVE  TypeOK'
  BY <1>14 DEF MarkApp
<1>15. ASSUME RecordSuccess
      PROVE  TypeOK'
  BY <1>15 DEF RecordSuccess
<1>16. ASSUME FinishSuccess
      PROVE  TypeOK'
  BY <1>16 DEF FinishSuccess, MarkSucceeded, OutcomeDetail
<1>17. ASSUME FailApp
      PROVE  TypeOK'
  BY <1>17 DEF FailApp
<1>18. ASSUME RecordFailure
      PROVE  TypeOK'
  BY <1>18 DEF RecordFailure
<1>19. ASSUME FailRelease
      PROVE  TypeOK'
  BY <1>19 DEF FailRelease
<1>20. ASSUME FailAttempt
      PROVE  TypeOK'
  BY <1>20 DEF FailAttempt, MarkFailed, AfterFailure
<1>21. ASSUME Crash
      PROVE  TypeOK'
  BY <1>21 DEF Crash
<1>22. ASSUME UNCHANGED vars
      PROVE  TypeOK'
  BY <1>22
<1> QED
  BY <1>1, <1>2, <1>3, <1>4, <1>5, <1>6, <1>7, <1>8, <1>9, <1>10, <1>11,
     <1>12, <1>13, <1>14, <1>15, <1>16, <1>17, <1>18, <1>19, <1>20, <1>21, <1>22
  DEF Next, DaemonGoes

(* Every step keeps the daemon on a deploying attempt. *)
LEMMA WorkStep ==
  ASSUME Sound, [Next]_vars
  PROVE  WorkAgrees'
<1> USE ExecutorAssumption, OldestInList
    DEF Sound, TypeOK, WorkAgrees, vars, storeVars, daemonVars, historyVars, ExecuteSteps,
        FailSteps, SetStatus
<1>1. ASSUME NEW i \in Attempts, NEW a \in Apps, NEW c \in Commits, Queue(i, a, c)
      PROVE  WorkAgrees'
  BY <1>1 DEF Queue
<1>2. ASSUME StartDaemon
      PROVE  WorkAgrees'
  BY <1>2 DEF StartDaemon, Interrupted, Deploying
<1>3. ASSUME FailInterrupted
      PROVE  WorkAgrees'
  <2>1. CASE step' = "down"
    BY <1>3, <2>1 DEF FailInterrupted
  <2>2. CASE step' # "down"
    <3>1. /\ current' \in todo /\ todo' = todo /\ booting' = booting
          /\ step' = "fail app" /\ step = "recover"
          /\ UNCHANGED <<status, depApp, depCommit>>
      BY <1>3, <2>2 DEF FailInterrupted
    <3>2. status[current'] = "deploying" /\ current' \in Attempts
      BY <3>1
    <3> QED
      BY <3>1, <3>2
  <2> QED
    BY <2>1, <2>2
<1>4. ASSUME Serve
      PROVE  WorkAgrees'
  BY <1>4 DEF Serve
<1>5. ASSUME Poll
      PROVE  WorkAgrees'
  BY <1>5 DEF Poll
<1>6. ASSUME Claim
      PROVE  WorkAgrees'
  <2>1. PICK i \in Attempts : i = Min(Pending) /\ status[i] = "pending"
    BY <1>6 DEF Claim, Pending
  <2>2. /\ current' = i /\ status' = [status EXCEPT ![i] = "deploying"]
        /\ step' = "load" /\ UNCHANGED <<depApp, depCommit, todo, booting>>
    BY <1>6, <2>1 DEF Claim
  <2>3. ~ booting /\ todo = {}
    BY <1>6 DEF Claim
  <2> QED
    BY <2>1, <2>2, <2>3
<1>7. ASSUME LoadRelease
      PROVE  WorkAgrees'
  BY <1>7 DEF LoadRelease
<1>8. ASSUME RecordStart
      PROVE  WorkAgrees'
  BY <1>8 DEF RecordStart
<1>9. ASSUME Checkout
      PROVE  WorkAgrees'
  BY <1>9 DEF Checkout
<1>10. ASSUME CreateRelease
      PROVE  WorkAgrees'
  BY <1>10 DEF CreateRelease
<1>11. ASSUME Deploy
      PROVE  WorkAgrees'
  BY <1>11 DEF Deploy
<1>12. ASSUME Route
      PROVE  WorkAgrees'
  BY <1>12 DEF Route
<1>13. ASSUME MarkRelease
      PROVE  WorkAgrees'
  BY <1>13 DEF MarkRelease
<1>14. ASSUME MarkApp
      PROVE  WorkAgrees'
  BY <1>14 DEF MarkApp
<1>15. ASSUME RecordSuccess
      PROVE  WorkAgrees'
  BY <1>15 DEF RecordSuccess
<1>16. ASSUME FinishSuccess
      PROVE  WorkAgrees'
  BY <1>16 DEF FinishSuccess, MarkSucceeded
<1>17. ASSUME FailApp
      PROVE  WorkAgrees'
  BY <1>17 DEF FailApp
<1>18. ASSUME RecordFailure
      PROVE  WorkAgrees'
  BY <1>18 DEF RecordFailure
<1>19. ASSUME FailRelease
      PROVE  WorkAgrees'
  BY <1>19 DEF FailRelease
<1>20. ASSUME FailAttempt
      PROVE  WorkAgrees'
  BY <1>20 DEF FailAttempt, MarkFailed, AfterFailure
<1>21. ASSUME Crash
      PROVE  WorkAgrees'
  BY <1>21 DEF Crash
<1>22. ASSUME UNCHANGED vars
      PROVE  WorkAgrees'
  BY <1>22
<1> QED
  BY <1>1, <1>2, <1>3, <1>4, <1>5, <1>6, <1>7, <1>8, <1>9, <1>10, <1>11,
     <1>12, <1>13, <1>14, <1>15, <1>16, <1>17, <1>18, <1>19, <1>20, <1>21, <1>22
  DEF Next, DaemonGoes

(* Every step keeps what the writes of Execute rely on. *)
LEMMA WritesStep ==
  ASSUME Sound, [Next]_vars
  PROVE  StoredAgrees' /\ TailAgrees'
<1> USE OldestInList
    DEF Sound, TypeOK, WorkAgrees, StoredAgrees, TailAgrees, vars, storeVars, daemonVars,
        historyVars, ExecuteSteps, FailSteps, SetStatus, SetRelease, ReleaseOf
<1>1. ASSUME NEW i \in Attempts, NEW a \in Apps, NEW c \in Commits, Queue(i, a, c)
      PROVE  StoredAgrees' /\ TailAgrees'
  BY <1>1 DEF Queue
<1>2. ASSUME StartDaemon
      PROVE  StoredAgrees' /\ TailAgrees'
  BY <1>2 DEF StartDaemon, Interrupted, Deploying
<1>3. ASSUME FailInterrupted
      PROVE  StoredAgrees' /\ TailAgrees'
  BY <1>3 DEF FailInterrupted
<1>4. ASSUME Serve
      PROVE  StoredAgrees' /\ TailAgrees'
  BY <1>4 DEF Serve
<1>5. ASSUME Poll
      PROVE  StoredAgrees' /\ TailAgrees'
  BY <1>5 DEF Poll
<1>6. ASSUME Claim
      PROVE  StoredAgrees' /\ TailAgrees'
  BY <1>6 DEF Claim, Pending
<1>7. ASSUME LoadRelease
      PROVE  StoredAgrees' /\ TailAgrees'
  BY <1>7 DEF LoadRelease
<1>8. ASSUME RecordStart
      PROVE  StoredAgrees' /\ TailAgrees'
  BY <1>8 DEF RecordStart
<1>9. ASSUME Checkout
      PROVE  StoredAgrees' /\ TailAgrees'
  BY <1>9 DEF Checkout
<1>10. ASSUME CreateRelease
      PROVE  StoredAgrees' /\ TailAgrees'
  BY <1>10 DEF CreateRelease
<1>11. ASSUME Deploy
      PROVE  StoredAgrees' /\ TailAgrees'
  BY <1>11 DEF Deploy
<1>12. ASSUME Route
      PROVE  StoredAgrees' /\ TailAgrees'
  BY <1>12 DEF Route
<1>13. ASSUME MarkRelease
      PROVE  StoredAgrees' /\ TailAgrees'
  <2>1. step' = "mark app" /\ step = "mark release"
        /\ UNCHANGED <<current, stored, routed, depApp, depCommit>>
    BY <1>13 DEF MarkRelease
  <2>2. ~ problem' => ~ problem /\ SetRelease(current, "succeeded")
    BY <1>13 DEF MarkRelease
  <2>3. ~ problem' => ReleaseOf(current)' = "succeeded"
    <3> HAVE ~ problem'
    <3>1. PICK b \in Apps, d \in Commits : b = depApp[current] /\ d = depCommit[current]
      BY <2>1
    <3>2. release' = [release EXCEPT ![b][d] = "succeeded"]
      BY <2>2, <3>1
    <3>3. release'[b][d] = "succeeded"
      BY <3>2
    <3> QED
      BY <2>1, <3>1, <3>3
  <2> QED
    BY <2>1, <2>2, <2>3
<1>14. ASSUME MarkApp
      PROVE  StoredAgrees' /\ TailAgrees'
  BY <1>14 DEF MarkApp
<1>15. ASSUME RecordSuccess
      PROVE  StoredAgrees' /\ TailAgrees'
  <2>1. /\ step' = "finish" /\ step = "success event"
        /\ UNCHANGED <<current, stored, routed, depApp, depCommit, release>>
    BY <1>15 DEF RecordSuccess
  <2>2. ~ problem' => ~ problem /\ AddEvent(current, "succeeded")
    BY <1>15 DEF RecordSuccess
  <2>3. ~ problem' => "succeeded" \in events'[current]
    <3> HAVE ~ problem'
    <3>1. events' = [events EXCEPT ![current] = @ \cup {"succeeded"}]
      BY <2>2 DEF AddEvent
    <3>2. current \in Attempts
      BY <2>1
    <3> QED
      BY <3>1, <3>2
  <2> QED
    BY <2>1, <2>2, <2>3
<1>16. ASSUME FinishSuccess
      PROVE  StoredAgrees' /\ TailAgrees'
  BY <1>16 DEF FinishSuccess, MarkSucceeded
<1>17. ASSUME FailApp
      PROVE  StoredAgrees' /\ TailAgrees'
  BY <1>17 DEF FailApp
<1>18. ASSUME RecordFailure
      PROVE  StoredAgrees' /\ TailAgrees'
  BY <1>18 DEF RecordFailure
<1>19. ASSUME FailRelease
      PROVE  StoredAgrees' /\ TailAgrees'
  BY <1>19 DEF FailRelease
<1>20. ASSUME FailAttempt
      PROVE  StoredAgrees' /\ TailAgrees'
  BY <1>20 DEF FailAttempt, MarkFailed, AfterFailure
<1>21. ASSUME Crash
      PROVE  StoredAgrees' /\ TailAgrees'
  BY <1>21 DEF Crash
<1>22. ASSUME UNCHANGED vars
      PROVE  StoredAgrees' /\ TailAgrees'
  BY <1>22
<1> QED
  BY <1>1, <1>2, <1>3, <1>4, <1>5, <1>6, <1>7, <1>8, <1>9, <1>10, <1>11,
     <1>12, <1>13, <1>14, <1>15, <1>16, <1>17, <1>18, <1>19, <1>20, <1>21, <1>22
  DEF Next, DaemonGoes

(* What the lemmas keep holds in every state. *)
LEMMA AlwaysSound == Spec => []Sound
<1>1. Sound /\ [Next]_vars => Sound'
  BY TypeStep, WorkStep, WritesStep DEF Sound
<1> QED
  BY <1>1, InitSound, PTL DEF Spec

-----------------------------------------------------------------------------
(* Every column and every variable of the daemon keeps its type. *)
THEOREM TypeCorrect == Spec => []TypeOK
<1>1. Sound => TypeOK
  BY DEF Sound
<1> QED
  BY <1>1, AlwaysSound, PTL

(* A success is only written over another status, never over: the writes   *)
(* of a retry, of its failure and of a recovery leave it (README.md:164).    *)
LEMMA SuccessStep ==
  ASSUME Sound, [Next]_vars, NEW a \in Apps, NEW c \in Commits, release[a][c] = "succeeded"
  PROVE  release'[a][c] = "succeeded"
<1>1. ASSUME NEW s, step \in ExecuteSteps \cup FailSteps,
             SetRelease(current, UnlessSucceeded(current, s)) \/ SetRelease(current, "succeeded")
      PROVE  release'[a][c] = "succeeded"
  <2>1. PICK b \in Apps, d \in Commits : b = depApp[current] /\ d = depCommit[current]
    BY <1>1 DEF Sound, WorkAgrees
  <2>2. release \in [Apps -> [Commits -> ReleaseStatus]]
    BY DEF Sound, TypeOK
  <2>3. CASE a = b /\ c = d
    BY <1>1, <2>1, <2>2, <2>3 DEF SetRelease, UnlessSucceeded, ReleaseOf
  <2>4. CASE ~ (a = b /\ c = d)
    BY <1>1, <2>1, <2>2, <2>4 DEF SetRelease
  <2> QED
    BY <2>3, <2>4
<1>2. CASE LoadRelease
  BY <1>1, <1>2 DEF LoadRelease, ExecuteSteps
<1>3. CASE CreateRelease
  <2>1. CASE UNCHANGED release
    BY <2>1
  <2>2. CASE SetRelease(current, "deploying")
    <3>1. step = "create release" /\ ReleaseOf(current) = "absent"
      BY <1>3 DEF CreateRelease, Sound, StoredAgrees
    <3>2. PICK b \in Apps, d \in Commits : b = depApp[current] /\ d = depCommit[current]
      BY <3>1 DEF Sound, WorkAgrees, ExecuteSteps
    <3>3. ~ (a = b /\ c = d)
      BY <3>1, <3>2 DEF ReleaseOf
    <3> QED
      BY <2>2, <3>2, <3>3 DEF SetRelease, Sound, TypeOK
  <2> QED
    BY <1>3, <2>1, <2>2 DEF CreateRelease
<1>4. CASE MarkRelease
  BY <1>1, <1>4 DEF MarkRelease, ExecuteSteps
<1>5. CASE FailRelease
  BY <1>1, <1>5 DEF FailRelease, FailSteps
<1>6. CASE UNCHANGED release
  BY <1>6
<1>7. UNCHANGED release \/ LoadRelease \/ CreateRelease \/ MarkRelease \/ FailRelease
  BY DEF Next, DaemonGoes, vars, storeVars, Queue, StartDaemon, FailInterrupted, Serve, Poll, Claim,
         RecordStart, Checkout, Deploy, Route, MarkApp, RecordSuccess, FinishSuccess, MarkSucceeded, FailApp,
         RecordFailure, FailAttempt, Crash
<1> QED
  BY <1>2, <1>3, <1>4, <1>5, <1>6, <1>7

(* README.md:164: no retry, crash, recovery or refused write takes an      *)
(* earlier success of a release away.                                       *)
THEOREM SuccessKept == Spec => EarlierSuccessIsKept
<1>1. Sound /\ [Next]_vars =>
        [\A a \in Apps, c \in Commits :
           release[a][c] = "succeeded" => release'[a][c] = "succeeded"]_vars
  BY SuccessStep
<1> QED
  BY <1>1, AlwaysSound, PTL DEF Spec, EarlierSuccessIsKept

-----------------------------------------------------------------------------
(* What is on record of an attempt stays: its app and commit, its events,  *)
(* that it was routed.                                                      *)
LEMMA RecordKept ==
  ASSUME Sound, [Next]_vars, NEW i \in Attempts
  PROVE  /\ i \in routed => i \in routed'
         /\ events[i] \subseteq events'[i]
         /\ status[i] # "none" => depApp'[i] = depApp[i] /\ depCommit'[i] = depCommit[i]
<1>1. i \in routed => i \in routed'
  <2>1. UNCHANGED routed \/ routed' = routed \cup {current}
    BY DEF Next, DaemonGoes, vars, historyVars, Queue, StartDaemon, FailInterrupted, Serve, Poll,
           Claim, LoadRelease, RecordStart, Checkout, CreateRelease, Deploy, Route, MarkRelease,
           MarkApp, RecordSuccess, FinishSuccess, MarkSucceeded, FailApp, RecordFailure, FailRelease, FailAttempt,
           Crash
  <2> QED
    BY <2>1
<1>2. events[i] \subseteq events'[i]
  <2>1. ASSUME NEW e, AddEvent(current, e)
        PROVE  events[i] \subseteq events'[i]
    <3>1. events' = [events EXCEPT ![current] = events[current] \cup {e}]
      BY <2>1 DEF AddEvent
    <3>2. events'[i] = events[i] \/ events'[i] = events[i] \cup {e}
      BY <3>1 DEF Sound, TypeOK
    <3> QED
      BY <3>2
  <2>2. UNCHANGED events \/ \E e \in {"started", "succeeded", "failed"} : AddEvent(current, e)
    BY DEF Next, DaemonGoes, vars, storeVars, Queue, StartDaemon, FailInterrupted, Serve, Poll,
           Claim, LoadRelease, RecordStart, Checkout, CreateRelease, Deploy, Route, MarkRelease,
           MarkApp, RecordSuccess, FinishSuccess, MarkSucceeded, FailApp, RecordFailure, FailRelease, FailAttempt,
           Crash
  <2> QED
    BY <2>1, <2>2
<1>3. status[i] # "none" => depApp'[i] = depApp[i] /\ depCommit'[i] = depCommit[i]
  <2>1. CASE UNCHANGED <<depApp, depCommit>>
    BY <2>1
  <2>2. CASE \E j \in Attempts, a \in Apps, c \in Commits : Queue(j, a, c)
    BY <2>2 DEF Queue, Sound, TypeOK
  <2>3. \/ UNCHANGED <<depApp, depCommit>>
        \/ \E j \in Attempts, a \in Apps, c \in Commits : Queue(j, a, c)
    BY DEF Next, DaemonGoes, vars, storeVars, StartDaemon, FailInterrupted, Serve, Poll, Claim,
           LoadRelease, RecordStart, Checkout, CreateRelease, Deploy, Route, MarkRelease, MarkApp,
           RecordSuccess, FinishSuccess, MarkSucceeded, FailApp, RecordFailure, FailRelease, FailAttempt, Crash
  <2> QED
    BY <2>1, <2>2, <2>3
<1> QED
  BY <1>1, <1>2, <1>3

(* An attempt becomes a success without detail only when Execute finishes  *)
(* it without a problem.                                                    *)
LEMMA OnlyFinishSucceeds ==
  ASSUME Sound, [Next]_vars, NEW i \in Attempts, status'[i] = "succeeded", i \notin detail'
  PROVE  \/ status[i] = "succeeded" /\ i \notin detail
         \/ /\ step = "finish" /\ i = current /\ ~ problem
            /\ UNCHANGED <<depApp, depCommit, events, release, routed>>
<1> USE DEF Sound, TypeOK
<1>1. CASE UNCHANGED <<status, detail>>
  BY <1>1
<1>2. CASE \E j \in Attempts, a \in Apps, c \in Commits : Queue(j, a, c)
  BY <1>2 DEF Queue, SetStatus
<1>3. CASE Claim
  BY <1>3 DEF Claim, SetStatus
<1>4. CASE FinishSuccess /\ ~ UNCHANGED <<status, detail>>
  <2>1. /\ step = "finish" /\ SetStatus(current, "succeeded") /\ detail' = OutcomeDetail
        /\ UNCHANGED <<depApp, depCommit, events, release, routed>>
    BY <1>4 DEF FinishSuccess, MarkSucceeded
  <2>2. CASE i = current
    <3>1. ~ problem
      BY <2>1, <2>2 DEF OutcomeDetail
    <3> QED
      BY <2>1, <2>2, <3>1
  <2>3. CASE i # current
    <3>1. status'[i] = status[i]
      BY <2>1, <2>3 DEF SetStatus
    <3>2. i \notin detail
      BY <2>1, <2>3 DEF OutcomeDetail
    <3> QED
      BY <3>1, <3>2
  <2> QED
    BY <2>2, <2>3
<1>5. CASE FailAttempt /\ ~ UNCHANGED <<status, detail>>
  <2>1. MarkFailed(current)
    BY <1>5 DEF FailAttempt
  <2> QED
    BY <2>1 DEF MarkFailed, SetStatus
<1>6. \/ UNCHANGED <<status, detail>> \/ Claim \/ FinishSuccess \/ FailAttempt
      \/ \E j \in Attempts, a \in Apps, c \in Commits : Queue(j, a, c)
  BY DEF Next, DaemonGoes, vars, storeVars, StartDaemon, FailInterrupted, Serve, Poll, LoadRelease,
         RecordStart, Checkout, CreateRelease, Deploy, Route, MarkRelease, MarkApp, RecordSuccess,
         FailApp, RecordFailure, FailRelease, Crash
<1> QED
  BY <1>1, <1>2, <1>3, <1>4, <1>5, <1>6

(* A success without detail stays complete. *)
LEMMA CleanStep ==
  ASSUME Sound, [Next]_vars, CleanSuccessIsComplete
  PROVE  CleanSuccessIsComplete'
<1> SUFFICES ASSUME NEW i \in Attempts, status'[i] = "succeeded", i \notin detail'
             PROVE  /\ i \in routed'
                    /\ release'[depApp'[i]][depCommit'[i]] = "succeeded"
                    /\ "succeeded" \in events'[i]
  BY DEF CleanSuccessIsComplete, ReleaseOf
<1>1. CASE status[i] = "succeeded" /\ i \notin detail
  <2>1. i \in routed /\ ReleaseOf(i) = "succeeded" /\ "succeeded" \in events[i]
    BY <1>1 DEF CleanSuccessIsComplete
  <2>2. /\ i \in routed' /\ "succeeded" \in events'[i]
        /\ depApp'[i] = depApp[i] /\ depCommit'[i] = depCommit[i]
    BY <1>1, <2>1, RecordKept
  <2>3. depApp[i] \in Apps /\ depCommit[i] \in Commits
    BY <1>1 DEF Sound, WorkAgrees
  <2> QED
    BY <2>1, <2>2, <2>3, SuccessStep DEF ReleaseOf
<1>2. CASE /\ step = "finish" /\ i = current /\ ~ problem
           /\ UNCHANGED <<depApp, depCommit, events, release, routed>>
  BY <1>2 DEF Sound, TailAgrees, ReleaseOf
<1> QED
  BY <1>1, <1>2, OnlyFinishSucceeds

(* ADR 0002: an attempt shown as succeeded without an error detail was     *)
(* routed, and its release and its event are on record, whatever crashed    *)
(* and whichever writes the store refused.                                  *)
THEOREM CleanSuccess == Spec => []CleanSuccessIsComplete
<1>1. Init => CleanSuccessIsComplete
  BY DEF Init, CleanSuccessIsComplete
<1>2. Sound /\ CleanSuccessIsComplete /\ [Next]_vars => CleanSuccessIsComplete'
  BY CleanStep
<1> QED
  BY <1>1, <1>2, AlwaysSound, PTL DEF Spec

-----------------------------------------------------------------------------
(* Attempts whose execution returned and which are not a success on record. *)
Unrecorded == {i \in returned : status[i] # "succeeded"}
FewUnrecorded == Cardinality(Unrecorded) <= refusals

(* A status is written by the queue, at the claim and at either end.        *)
LEMMA StatusWrites ==
  ASSUME Next
  PROVE  \/ UNCHANGED status
         \/ \E j \in Attempts, a \in Apps, c \in Commits : Queue(j, a, c)
         \/ Claim \/ FinishSuccess \/ FailAttempt
  BY DEF Next, DaemonGoes, vars, storeVars, StartDaemon, FailInterrupted, Serve, Poll, LoadRelease,
         RecordStart, Checkout, CreateRelease, Deploy, Route, MarkRelease, MarkApp, RecordSuccess,
         FailApp, RecordFailure, FailRelease, Crash

(* A step refuses one write at most. *)
LEMMA RefusalsStep ==
  ASSUME Sound, [Next]_vars
  PROVE  refusals \in Nat /\ (refusals' = refusals \/ refusals' = refusals + 1)
<1>1. UNCHANGED refusals \/ Refused
  BY DEF Next, DaemonGoes, vars, Queue, StartDaemon, FailInterrupted, Serve, Poll, Claim,
         LoadRelease, RecordStart, Checkout, CreateRelease, Deploy, Route, MarkRelease, MarkApp,
         RecordSuccess, FinishSuccess, FailApp, RecordFailure, FailRelease, FailAttempt, Crash,
         Written, EventRefused
<1>2. refusals \in Nat
  BY ExecutorAssumption DEF Sound, TypeOK
<1> QED
  BY <1>1, <1>2 DEF Refused

(* A success on record stays one. *)
LEMMA SucceededKept ==
  ASSUME Sound, [Next]_vars, NEW i \in Attempts, status[i] = "succeeded"
  PROVE  status'[i] = "succeeded"
<1> USE DEF Sound, TypeOK, SetStatus
<1>1. CASE UNCHANGED status
  BY <1>1
<1>2. CASE \E j \in Attempts, a \in Apps, c \in Commits : Queue(j, a, c)
  BY <1>2 DEF Queue
<1>3. CASE Claim
  <2>1. Min(Pending) \in Pending
    BY <1>3, OldestInList DEF Claim
  <2> QED
    BY <1>3, <2>1 DEF Claim, Pending
<1>4. CASE FinishSuccess
  BY <1>4 DEF FinishSuccess, MarkSucceeded, WorkAgrees, ExecuteSteps
<1>5. CASE FailAttempt
  BY <1>5 DEF FailAttempt, MarkFailed, WorkAgrees, FailSteps
<1>6. CASE UNCHANGED vars
  BY <1>6 DEF vars, storeVars
<1> QED
  BY <1>1, <1>2, <1>3, <1>4, <1>5, <1>6, StatusWrites

(* Only a last write that is refused leaves one attempt more unrecorded.    *)
LEMMA UnrecordedStep ==
  ASSUME Sound, [Next]_vars
  PROVE  \/ Unrecorded' \subseteq Unrecorded /\ refusals' >= refusals
         \/ Unrecorded' \subseteq Unrecorded \cup {current} /\ refusals' = refusals + 1
<1>1. CASE FinishSuccess
  <2>1. current \in Attempts /\ returned' = returned \cup {current}
    BY <1>1 DEF FinishSuccess, Sound, WorkAgrees, ExecuteSteps
  <2>2. CASE MarkSucceeded(current) /\ Written
    <3>1. status'[current] = "succeeded"
      BY <2>1, <2>2 DEF MarkSucceeded, SetStatus, Sound, TypeOK
    <3>2. Unrecorded' \subseteq Unrecorded
      BY <2>1, <3>1, SucceededKept DEF Unrecorded, Sound, TypeOK
    <3> QED
      BY <2>2, <3>2 DEF Written, Sound, TypeOK
  <2>3. CASE Refused /\ UNCHANGED <<status, detail>>
    BY <2>1, <2>3 DEF Refused, Unrecorded
  <2> QED
    BY <1>1, <2>2, <2>3 DEF FinishSuccess
<1>2. CASE UNCHANGED returned
  <2>1. Unrecorded' \subseteq Unrecorded
    BY <1>2, SucceededKept DEF Unrecorded, Sound, TypeOK
  <2> QED
    BY <2>1, RefusalsStep
<1>3. UNCHANGED returned \/ FinishSuccess
  BY DEF Next, DaemonGoes, vars, historyVars, Queue, StartDaemon, FailInterrupted, Serve, Poll,
         Claim, LoadRelease, RecordStart, Checkout, CreateRelease, Deploy, Route, MarkRelease,
         MarkApp, RecordSuccess, FailApp, RecordFailure, FailRelease, FailAttempt, Crash
<1> QED
  BY <1>1, <1>2, <1>3

(* Any set of attempts is finite. *)
LEMMA FiniteAttempts == ASSUME NEW S, S \subseteq Attempts PROVE IsFiniteSet(S)
<1>1. 1 \in Int /\ MaxAttempts \in Int
  BY ExecutorAssumption
<1>2. IsFiniteSet(Attempts)
  BY <1>1, FS_Interval DEF Attempts
<1> QED
  BY <1>2, FS_Subset

(* There are at most as many unrecorded attempts as refusals. *)
LEMMA UnrecordedCount ==
  ASSUME Sound, FewUnrecorded, [Next]_vars
  PROVE  FewUnrecorded'
<1>1. IsFiniteSet(Unrecorded) /\ Unrecorded \subseteq Attempts
  BY FiniteAttempts DEF Unrecorded, Sound, TypeOK
<1>2. Cardinality(Unrecorded) \in Nat /\ refusals \in Nat
  BY <1>1, FS_CardinalityType DEF Sound, TypeOK
<1>3. CASE Unrecorded' \subseteq Unrecorded /\ refusals' >= refusals
  <2>1. Cardinality(Unrecorded') <= Cardinality(Unrecorded) /\ Cardinality(Unrecorded') \in Nat
    BY <1>1, <1>3, FS_Subset, FS_CardinalityType
  <2>2. refusals' \in Nat
    BY TypeStep DEF TypeOK
  <2> QED
    BY <1>2, <1>3, <2>1, <2>2 DEF FewUnrecorded
<1>4. CASE Unrecorded' \subseteq Unrecorded \cup {current} /\ refusals' = refusals + 1
  <2>1. /\ IsFiniteSet(Unrecorded \cup {current})
        /\ Cardinality(Unrecorded \cup {current}) <= Cardinality(Unrecorded) + 1
    BY <1>1, <1>2, FS_AddElement
  <2>2. /\ Cardinality(Unrecorded') <= Cardinality(Unrecorded \cup {current})
        /\ Cardinality(Unrecorded') \in Nat /\ Cardinality(Unrecorded \cup {current}) \in Nat
    BY <1>4, <2>1, FS_Subset, FS_CardinalityType
  <2> QED
    BY <1>2, <1>4, <2>1, <2>2 DEF FewUnrecorded
<1> QED
  BY <1>3, <1>4, UnrecordedStep

(* README.md:164: an attempt that was deployed is shown as failed only where *)
(* the store refused a write, at most one for each that it refused.          *)
THEOREM OutcomesLostByRefusal == Spec => []OutcomeIsLostByRefusal
<1>1. Init => FewUnrecorded
  <2> SUFFICES ASSUME Init PROVE FewUnrecorded
    OBVIOUS
  <2>1. Unrecorded = {} /\ refusals = 0
    BY DEF Init, Unrecorded
  <2> QED
    BY <2>1, FS_EmptySet DEF FewUnrecorded
<1>2. Sound /\ FewUnrecorded => OutcomeIsLostByRefusal
  <2> SUFFICES ASSUME Sound, FewUnrecorded PROVE OutcomeIsLostByRefusal
    OBVIOUS
  <2>1. LostOutcomes \subseteq Unrecorded /\ Unrecorded \subseteq Attempts
    BY DEF LostOutcomes, Unrecorded, Sound, TypeOK
  <2>2. /\ IsFiniteSet(Unrecorded) /\ Cardinality(Unrecorded) \in Nat
        /\ Cardinality(LostOutcomes) \in Nat /\ Cardinality(LostOutcomes) <= Cardinality(Unrecorded)
    BY <2>1, FiniteAttempts, FS_Subset, FS_CardinalityType
  <2> QED
    BY <2>2 DEF FewUnrecorded, OutcomeIsLostByRefusal, Sound, TypeOK
<1> QED
  BY <1>1, <1>2, AlwaysSound, UnrecordedCount, PTL DEF Spec

-----------------------------------------------------------------------------
(* The latest of some attempts is one of them. *)
LEMMA MaxOfAttempts ==
  ASSUME NEW S, S \subseteq Attempts, S # {}
  PROVE  Max(S) \in S /\ \A j \in S : Max(S) >= j
<1> DEFINE Distances == {MaxAttempts - x : x \in S}
<1>1. MaxAttempts \in Nat /\ S \subseteq Nat /\ \A x \in S : x <= MaxAttempts
  BY ExecutorAssumption DEF Attempts
<1>2. Distances \subseteq Nat /\ Distances # {}
  BY <1>1
<1>3. \E x \in S : \A y \in S : MaxAttempts - x <= MaxAttempts - y
  <2> HIDE DEF Distances
  <2>1. PICK d \in Distances : \A e \in Distances : d <= e
    BY <1>2, LeastNatural
  <2> USE DEF Distances
  <2>2. PICK x \in S : d = MaxAttempts - x
    BY <2>1
  <2>3. \A y \in S : MaxAttempts - y \in Distances
    OBVIOUS
  <2> QED
    BY <2>1, <2>2, <2>3
<1>4. \E x \in S : \A y \in S : x >= y
  BY <1>1, <1>3
<1> QED
  BY <1>4 DEF Max

(* Attempts are numbered as they come, and nobody queues behind an active   *)
(* attempt of the same app.                                                 *)
Latest(i) == \A j \in Attempts : j > i /\ status[j] # "none" => depApp[j] # depApp[i]
OrderAgrees ==
  /\ \A i, j \in Attempts : status[i] # "none" /\ j < i => status[j] # "none"
  /\ \A i \in Attempts : IsActive(i) => Latest(i)

(* While no write was refused an app is as its latest attempt ended, and as *)
(* the one that is ending will end.                                         *)
LastAgrees ==
  refusals = 0 =>
    /\ \A i \in Attempts :
         status[i] \in Terminal /\ Latest(i) =>
           (appStatus[depApp[i]] = "healthy" <=> status[i] = "succeeded")
    /\ step \in {"success event", "finish"} => appStatus[depApp[current]] = "healthy"
    /\ step \in {"fail event", "fail release", "fail attempt"} =>
         appStatus[depApp[current]] # "healthy"

(* Rows come in order, and keep their app. *)
LEMMA OrderStep ==
  ASSUME Sound, OrderAgrees, [Next]_vars
  PROVE  OrderAgrees'
<1> USE DEF Sound, TypeOK, SetStatus, OrderAgrees, Latest, IsActive
<1>1. ASSUME NEW i \in Attempts, NEW a \in Apps, NEW c \in Commits, Queue(i, a, c)
      PROVE  OrderAgrees'
  <2>1. /\ status' = [status EXCEPT ![i] = "pending"] /\ depApp' = [depApp EXCEPT ![i] = a]
        /\ status[i] = "none"
        /\ \A j \in Attempts : j < i => status[j] # "none"
        /\ \A j \in Attempts : IsActive(j) => depApp[j] # a
    BY <1>1 DEF Queue
  <2>2. \A j \in Attempts : j > i => status[j] = "none"
    BY <2>1 DEF Attempts
  <2> QED
    BY <2>1, <2>2 DEF Attempts
<1>2. ASSUME NEW i \in Attempts, NEW s, SetStatus(i, s), IsActive(i), s # "none", UNCHANGED depApp
      PROVE  OrderAgrees'
  BY <1>2
<1>3. CASE Claim
  <2>1. Min(Pending) \in Pending
    BY <1>3, OldestInList DEF Claim
  <2> QED
    BY <1>2, <1>3, <2>1 DEF Claim, Pending
<1>4. CASE FinishSuccess
  <2>1. current \in Attempts /\ status[current] = "deploying" /\ UNCHANGED depApp
    BY <1>4 DEF FinishSuccess, WorkAgrees, ExecuteSteps
  <2> QED
    BY <1>2, <1>4, <2>1 DEF FinishSuccess, MarkSucceeded
<1>5. CASE FailAttempt
  <2>1. current \in Attempts /\ status[current] = "deploying" /\ UNCHANGED depApp
    BY <1>5 DEF FailAttempt, WorkAgrees, FailSteps
  <2> QED
    BY <1>2, <1>5, <2>1 DEF FailAttempt, MarkFailed
<1>6. CASE UNCHANGED <<status, depApp>>
  BY <1>6
<1>7. \/ UNCHANGED <<status, depApp>> \/ Claim \/ FinishSuccess \/ FailAttempt
      \/ \E j \in Attempts, a \in Apps, c \in Commits : Queue(j, a, c)
  BY DEF Next, DaemonGoes, vars, storeVars, StartDaemon, FailInterrupted, Serve, Poll, LoadRelease,
         RecordStart, Checkout, CreateRelease, Deploy, Route, MarkRelease, MarkApp, RecordSuccess,
         FailApp, RecordFailure, FailRelease, Crash
<1> QED
  BY <1>1, <1>3, <1>4, <1>5, <1>6, <1>7

(* The app's record is written before the attempt's, and by its latest      *)
(* attempt only.                                                            *)
LEMMA LastStep ==
  ASSUME Sound, OrderAgrees, LastAgrees, [Next]_vars
  PROVE  LastAgrees'
<1> SUFFICES ASSUME refusals' = 0 PROVE LastAgrees'
  BY DEF LastAgrees
<1>0. refusals = 0 /\ ~ Refused
  BY RefusalsStep DEF Refused
<1>a. /\ \A i \in Attempts : status[i] \in Terminal /\ Latest(i) =>
           (appStatus[depApp[i]] = "healthy" <=> status[i] = "succeeded")
      /\ step \in {"success event", "finish"} => appStatus[depApp[current]] = "healthy"
      /\ step \in {"fail event", "fail release", "fail attempt"} =>
           appStatus[depApp[current]] # "healthy"
  BY <1>0 DEF LastAgrees
<1>1. ASSUME NEW i \in Attempts, NEW a \in Apps, NEW c \in Commits, Queue(i, a, c)
      PROVE  LastAgrees'
  <2>1. /\ status' = [status EXCEPT ![i] = "pending"] /\ depApp' = [depApp EXCEPT ![i] = a]
        /\ appStatus' = [appStatus EXCEPT ![a] = "deploying"]
        /\ status[i] = "none" /\ UNCHANGED <<step, current>>
        /\ \A j \in Attempts : j < i => status[j] # "none"
        /\ \A j \in Attempts : IsActive(j) => depApp[j] # a
    BY <1>1 DEF Queue, SetStatus, daemonVars
  <2>2. \A j \in Attempts : j > i => status[j] = "none"
    BY <2>1 DEF OrderAgrees
  <2>t. /\ status \in [Attempts -> AttemptStatus] /\ depApp \in [Attempts -> Apps \cup {None}]
        /\ appStatus \in [Apps -> AppStatus]
        /\ \A k \in Attempts : status[k] # "none" => depApp[k] \in Apps
    BY DEF Sound, TypeOK, WorkAgrees
  <2>3. ASSUME NEW j \in Attempts, status'[j] \in Terminal, Latest(j)'
        PROVE  appStatus'[depApp'[j]] = "healthy" <=> status'[j] = "succeeded"
    <3>1. j # i /\ status[j] = status'[j] /\ depApp'[j] = depApp[j]
      BY <2>1, <2>3, <2>t DEF Terminal
    <3>2. j < i
      BY <2>2, <2>3, <3>1 DEF Terminal, Attempts
    <3>3. status'[i] # "none" /\ depApp'[i] = a
      BY <2>1, <2>t
    <3>4. depApp[j] # a
      BY <2>3, <3>1, <3>2, <3>3 DEF Latest, Attempts
    <3>5. Latest(j)
      <4> SUFFICES ASSUME NEW k \in Attempts, k > j, status[k] # "none" PROVE depApp[k] # depApp[j]
        BY DEF Latest
      <4>1. k # i /\ status'[k] = status[k] /\ depApp'[k] = depApp[k]
        BY <2>1, <2>t
      <4> QED
        BY <2>3, <3>1, <4>1 DEF Latest
    <3>6. appStatus'[depApp[j]] = appStatus[depApp[j]]
      BY <2>1, <2>t, <3>4
    <3> QED
      BY <1>a, <2>3, <3>1, <3>5, <3>6
  <2>4. step \in ExecuteSteps \cup FailSteps =>
          /\ depApp'[current] = depApp[current]
          /\ appStatus'[depApp[current]] = appStatus[depApp[current]]
    <3> HAVE step \in ExecuteSteps \cup FailSteps
    <3>1. current \in Attempts /\ status[current] = "deploying"
      BY DEF Sound, WorkAgrees
    <3>2. current # i /\ depApp[current] # a
      BY <2>1, <3>1 DEF IsActive
    <3> QED
      BY <2>1, <2>t, <3>1, <3>2
  <2>5. /\ step' \in {"success event", "finish"} => appStatus'[depApp'[current']] = "healthy"
        /\ step' \in {"fail event", "fail release", "fail attempt"} =>
             appStatus'[depApp'[current']] # "healthy"
    BY <1>a, <2>1, <2>4 DEF ExecuteSteps, FailSteps
  <2> QED
    BY <2>3, <2>5 DEF LastAgrees
<1>2. ASSUME NEW s \in AppStatus, step \in ExecuteSteps \cup FailSteps, SetApp(current, s),
             UNCHANGED <<status, depApp, current>>,
             \/ step' = "success event" /\ s = "healthy"
             \/ step' = "fail event" /\ s # "healthy"
      PROVE  LastAgrees'
  <2>1. current \in Attempts /\ status[current] = "deploying" /\ depApp[current] \in Apps
    BY <1>2 DEF Sound, WorkAgrees
  <2>2. /\ appStatus'[depApp[current]] = s
        /\ \A a \in Apps : a # depApp[current] => appStatus'[a] = appStatus[a]
    BY <1>2, <2>1 DEF SetApp, Sound, TypeOK
  <2>3. ASSUME NEW i \in Attempts, status[i] \in Terminal, Latest(i)
        PROVE  appStatus'[depApp[i]] = "healthy" <=> status[i] = "succeeded"
    <3>1. depApp[i] # depApp[current]
      <4>1. Latest(current) /\ i # current
        BY <2>1, <2>3 DEF OrderAgrees, IsActive, Terminal
      <4> QED
        BY <2>1, <2>3, <4>1 DEF Latest, Terminal, Attempts
    <3>2. depApp[i] \in Apps
      BY <2>3 DEF Sound, WorkAgrees, Terminal
    <3> QED
      BY <1>a, <2>2, <2>3, <3>1, <3>2
  <2> QED
    BY <1>2, <2>2, <2>3 DEF LastAgrees, Latest
<1>3. ASSUME NEW s \in Terminal, step \in {"finish", "fail attempt"}, SetStatus(current, s),
             s = "succeeded" <=> step = "finish",
             UNCHANGED <<depApp, appStatus>>, step' \in {"idle", "down", "recover"}
      PROVE  LastAgrees'
  <2>1. current \in Attempts /\ status[current] = "deploying" /\ Latest(current)
    BY <1>3 DEF Sound, WorkAgrees, OrderAgrees, IsActive, ExecuteSteps, FailSteps
  <2>2. /\ status'[current] = s
        /\ \A i \in Attempts : i # current => status'[i] = status[i]
    BY <1>3, <2>1 DEF SetStatus, Sound, TypeOK
  <2>3. ASSUME NEW i \in Attempts, status'[i] \in Terminal, Latest(i)'
        PROVE  appStatus[depApp[i]] = "healthy" <=> status'[i] = "succeeded"
    <3>1. CASE i = current
      BY <1>3, <1>a, <2>2, <3>1
    <3>2. CASE i # current
      <4>1. Latest(i)
        BY <1>3, <2>1, <2>2, <2>3 DEF Latest, Terminal
      <4> QED
        BY <1>a, <2>2, <2>3, <3>2, <4>1
    <3> QED
      BY <3>1, <3>2
  <2> QED
    BY <1>3, <2>3 DEF LastAgrees
<1> USE <1>0 DEF storeVars, daemonVars, historyVars, vars
<1>4. CASE MarkApp \/ FailApp
  <2>1. {"healthy", "failed"} \subseteq AppStatus /\ "healthy" # "failed"
    BY DEF AppStatus
  <2>2. /\ UNCHANGED <<status, depApp, current>> /\ step \in ExecuteSteps \cup FailSteps
        /\ \/ step' = "success event" /\ SetApp(current, "healthy")
           \/ step' = "fail event" /\ SetApp(current, "failed")
    BY <1>4 DEF MarkApp, FailApp, ExecuteSteps, FailSteps
  <2> QED
    BY <1>2, <2>1, <2>2
<1>5. CASE FinishSuccess \/ FailAttempt
  BY <1>3, <1>5 DEF FinishSuccess, MarkSucceeded, FailAttempt, MarkFailed, AfterFailure, Terminal
<1>6. CASE Claim
  <2>1. Min(Pending) \in Attempts /\ status[Min(Pending)] = "pending"
    BY <1>6, OldestInList DEF Claim, Pending, Sound
  <2>2. /\ status' = [status EXCEPT ![Min(Pending)] = "deploying"] /\ step' = "load"
        /\ UNCHANGED <<depApp, appStatus>>
    BY <1>6 DEF Claim, SetStatus
  <2>3. \A i \in Attempts : status'[i] \in Terminal => status[i] = status'[i]
    BY <2>1, <2>2 DEF Sound, TypeOK, Terminal
  <2>4. \A i \in Attempts : status[i] # "none" => status'[i] # "none"
    BY <2>1, <2>2 DEF Sound, TypeOK
  <2> QED
    BY <1>a, <2>2, <2>3, <2>4 DEF LastAgrees, Latest
<1>7. CASE RecordSuccess \/ RecordFailure \/ FailRelease
  <2>1. /\ UNCHANGED <<status, depApp, appStatus, current>>
        /\ \/ step = "success event" /\ step' = "finish"
           \/ step = "fail event" /\ step' = "fail release"
           \/ step = "fail release" /\ step' = "fail attempt"
    BY <1>7 DEF RecordSuccess, RecordFailure, FailRelease
  <2> QED
    BY <1>a, <2>1 DEF LastAgrees, Latest
<1>8. CASE /\ UNCHANGED <<status, depApp, appStatus>>
           /\ step' \notin {"success event", "finish", "fail event", "fail release", "fail attempt"}
  BY <1>a, <1>8 DEF LastAgrees, Latest
<1>9. \/ MarkApp \/ FailApp \/ FinishSuccess \/ FailAttempt \/ Claim
      \/ RecordSuccess \/ RecordFailure \/ FailRelease
      \/ UNCHANGED vars
      \/ \E j \in Attempts, a \in Apps, c \in Commits : Queue(j, a, c)
      \/ /\ UNCHANGED <<status, depApp, appStatus>>
         /\ step' \notin {"success event", "finish", "fail event", "fail release", "fail attempt"}
  BY DEF Next, DaemonGoes, StartDaemon, FailInterrupted, Serve, Poll, LoadRelease,
         RecordStart, Checkout, CreateRelease, Deploy, Route, MarkRelease, Crash
<1>10. CASE UNCHANGED vars
  BY <1>a, <1>10 DEF LastAgrees, Latest
<1> QED
  BY <1>1, <1>4, <1>5, <1>6, <1>7, <1>8, <1>9, <1>10

(* When the loop is idle, an app without an active attempt has the outcome   *)
(* of its latest one as its status, however often the daemon died, unless    *)
(* the store refused a write.                                                *)
THEOREM AppStatusLast == Spec => []AppStatusIsLastOutcome
<1>1. Init => OrderAgrees /\ LastAgrees
  BY DEF Init, OrderAgrees, LastAgrees, IsActive, Terminal
<1>2. Sound /\ LastAgrees => AppStatusIsLastOutcome
  <2> SUFFICES ASSUME Sound, LastAgrees, refusals = 0, NEW a \in Apps, EndedOf(a) # {},
                      \A i \in EndedOf(a) : ~ IsActive(i)
               PROVE  appStatus[a] = "healthy" <=> status[Max(EndedOf(a))] = "succeeded"
    BY DEF AppStatusIsLastOutcome
  <2>1. EndedOf(a) \subseteq Attempts
    BY DEF EndedOf
  <2>2. PICK i \in EndedOf(a) : i = Max(EndedOf(a)) /\ \A j \in EndedOf(a) : i >= j
    BY <2>1, MaxOfAttempts
  <2>3. status[i] \in Terminal /\ depApp[i] = a
    BY <2>1, <2>2 DEF EndedOf, IsActive, Sound, TypeOK, AttemptStatus, Terminal
  <2>4. Latest(i)
    BY <2>1, <2>2 DEF EndedOf, Latest, Attempts
  <2> QED
    BY <2>1, <2>2, <2>3, <2>4 DEF LastAgrees
<1> QED
  BY <1>1, <1>2, AlwaysSound, OrderStep, LastStep, PTL DEF Spec

=============================================================================
