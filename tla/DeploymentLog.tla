--------------------------- MODULE DeploymentLog ---------------------------
(***************************************************************************)
(* The deployment logs of one app: an attempt is reserved with an empty     *)
(* log, the daemon's executor appends to it and then records the outcome,   *)
(* and followers (an attached push, `deployments logs -f') poll the log and  *)
(* the status of an attempt, one query after the other.  Only the newest    *)
(* logs are kept.  Lines of the output are numbered as they are written.    *)
(***************************************************************************)
EXTENDS LogText, FiniteSets

CONSTANTS
  Followers,
  Kept,         \* logs kept per app: 20
  MaxAttempts,  \* bound: attempts reserved
  MaxLines,     \* bound: lines of one attempt before its outcome
  MaxFaults     \* bound: crashes of the daemon and writes the store refuses

ASSUME LogAssumption ==
  /\ Kept \in Nat \ {0}
  /\ MaxAttempts \in Nat \ {0} /\ MaxLines \in Nat /\ MaxFaults \in Nat

VARIABLES
  status,   \* per attempt: "none", "pending", "queued" (accepted), "deploying", "ended",
            \* or "deleted"
  log,      \* per attempt: [kept, content, truncated]
  lines,    \* per attempt: lines written or refused so far
  daemon,   \* step of the daemon
  faults,
  pc,       \* [Followers -> step]
  follows,  \* [Followers -> attempt, and whether it polls]
  printed   \* [Followers -> what it has printed]

attemptVars == <<status, log, lines, faults>>
followVars == <<pc, follows, printed>>
vars == <<attemptVars, daemon, followVars>>

Attempts == 1 .. MaxAttempts
Active == {a \in Attempts : status[a] \in {"pending", "queued", "deploying"}}
Deploying == {a \in Attempts : status[a] = "deploying"}
Oldest(n, S) == {a \in S : Cardinality({b \in S : b < a}) < n}
Newest(n, S) == {a \in S : Cardinality({b \in S : b > a}) < n}
HasLog == {a \in Attempts : log[a].kept}
NoLog == [kept |-> FALSE, content |-> <<>>, truncated |-> FALSE]
Reserved == Cardinality({a \in Attempts : status[a] # "none"})

TypeOK ==
  /\ status \in [Attempts -> {"none", "pending", "queued", "deploying", "ended", "deleted"}]
  /\ log \in [Attempts -> [kept : BOOLEAN, content : Seq(Nat), truncated : BOOLEAN]]
  /\ \A a \in Attempts : Len(log[a].content) <= MaxContent + 1
  /\ lines \in [Attempts -> Nat]
  /\ daemon \in {"down", "idle", "start", "run", "outcome", "record", "recover", "recover record"}
  /\ faults \in 0 .. MaxFaults
  /\ pc \in [Followers -> {"idle", "write", "check", "last", "poll", "done", "error"}]
  /\ follows \in [Followers -> [attempt : Attempts, polls : BOOLEAN]]
  /\ printed \in [Followers -> Seq(Nat)]

Init ==
  /\ status = [a \in Attempts |-> "none"]
  /\ log = [a \in Attempts |-> NoLog]
  /\ lines = [a \in Attempts |-> 0]
  /\ daemon = "idle" /\ faults = 0
  /\ pc = [f \in Followers |-> "idle"]
  /\ follows = [f \in Followers |-> [attempt |-> 1, polls |-> TRUE]]
  /\ printed = [f \in Followers |-> <<>>]

-----------------------------------------------------------------------------
(* The transactions of the store. *)
Retained(logs, n) ==
  LET kept == {a \in Attempts : logs[a].kept} IN
  [a \in Attempts |-> IF a \in Newest(n, kept) THEN logs[a] ELSE [logs[a] EXCEPT !.kept = FALSE]]

(* A new attempt takes the place of one that was not accepted yet, log and   *)
(* all; next to any other active one it is refused.                         *)
Reserve ==
  /\ Reserved < MaxAttempts
  /\ Active \subseteq {a \in Attempts : status[a] = "pending"}
  /\ LET a == Reserved + 1
         created == [b \in Attempts |->
           IF b = a THEN [NoLog EXCEPT !.kept = TRUE] ELSE IF b \in Active THEN NoLog ELSE log[b]] IN
     /\ status' = [b \in Attempts |->
          IF b = a THEN "pending" ELSE IF b \in Active THEN "deleted" ELSE status[b]]
     /\ log' = Retained(created, Kept)
  /\ UNCHANGED <<lines, daemon, faults, followVars>>
RecordQueued ==
  /\ \E a \in Attempts : status[a] = "pending" /\ status' = [status EXCEPT ![a] = "queued"]
  /\ UNCHANGED <<log, lines, daemon, faults, followVars>>
(* The app is removed with its attempts and logs. *)
DeleteApp ==
  /\ Active # {}
  /\ status' = [a \in Attempts |-> IF status[a] = "none" THEN "none" ELSE "deleted"]
  /\ log' = [a \in Attempts |-> NoLog]
  /\ UNCHANGED <<lines, daemon, faults, followVars>>

-----------------------------------------------------------------------------
(* The daemon.  It appends to the log of an attempt that is gone as little   *)
(* as it records its status; an append can also be refused.                 *)
Goto(here, step) == daemon = here /\ daemon' = step /\ UNCHANGED followVars

Claim ==
  /\ Goto("idle", "start")
  /\ \E a \in Attempts : status[a] = "queued" /\ status' = [status EXCEPT ![a] = "deploying"]
  /\ UNCHANGED <<log, lines, faults>>

AppendLines(a, n) ==
  /\ lines' = [lines EXCEPT ![a] = @ + n]
  /\ LET output == [i \in 1 .. n |-> Marker + lines[a] + i] IN
     log' = [log EXCEPT ![a] =
       [kept |-> TRUE, content |-> Appended(log[a], output).content,
        truncated |-> Appended(log[a], output).truncated]]
Append1(a, n, here, then) == a \in HasLog /\ Goto(here, then) /\ AppendLines(a, n) /\ UNCHANGED <<status, faults>>
(* A line is lost with its log or, counted as a fault, refused by the store. *)
Unwritten(here, then) ==
  /\ Goto(here, then)
  /\ \/ Deploying \cap HasLog = {} /\ UNCHANGED faults
     \/ faults < MaxFaults /\ faults' = faults + 1
  /\ UNCHANGED <<status, log, lines>>

Started == \E a \in Deploying : Append1(a, 1, "start", "run")
Output == \E a \in Deploying, n \in 1 .. 2 : lines[a] + n <= MaxLines /\ Append1(a, n, "run", "run")
RunEnds == Goto("run", "outcome") /\ UNCHANGED attemptVars
Outcome == \E a \in Deploying : Append1(a, 1, "outcome", "record")
FailsToAppend == Unwritten("start", "outcome") \/ Unwritten("run", "outcome") \/ Unwritten("outcome", "record")
EndAttempt(here) ==
  /\ Goto(here, "idle")
  /\ status' = [a \in Attempts |-> IF a \in Deploying THEN "ended" ELSE status[a]]
  /\ UNCHANGED <<log, lines, faults>>
RecordStatus == EndAttempt("record")
(* The store refuses the status: the attempt stays deploying until a restart. *)
StatusUnwritten ==
  /\ Goto("record", "idle")
  /\ faults < MaxFaults /\ faults' = faults + 1
  /\ UNCHANGED <<status, log, lines>>
Lost == daemon = "idle" /\ Deploying # {}

Crash ==
  /\ daemon # "down" /\ faults < MaxFaults
  /\ daemon' = "down" /\ faults' = faults + 1
  /\ UNCHANGED <<status, log, lines, followVars>>
Restart == Goto("down", IF Deploying = {} THEN "idle" ELSE "recover") /\ UNCHANGED attemptVars
RecoverOutcome == \E a \in Deploying : Append1(a, 1, "recover", "recover record")
RecoverUnwritten == Unwritten("recover", "recover record")
RecoverStatus == EndAttempt("recover record")

-----------------------------------------------------------------------------
(* Followers. *)
Step(f, here, step) == pc[f] = here /\ pc' = [pc EXCEPT ![f] = step] /\ UNCHANGED <<attemptVars, daemon>>
Log(f) == log[follows[f].attempt]

(* By ID, or the latest that has a log. *)
BeginFollow(f, a, polls) ==
  /\ Step(f, "idle", "write")
  /\ a \in HasLog
  /\ follows' = [follows EXCEPT ![f] = [attempt |-> a, polls |-> polls]]
  /\ UNCHANGED printed
Unprinted(f) == SubSeq(Log(f).content, Len(printed[f]) + 1, Len(Log(f).content))
WriteLatest(f, here, then) ==
  /\ Step(f, here, IF Log(f).kept THEN then ELSE "error")
  /\ printed' = IF Log(f).kept THEN [printed EXCEPT ![f] = @ \o Unprinted(f)] ELSE printed
  /\ UNCHANGED follows
Stream(f) == WriteLatest(f, "write", IF follows[f].polls THEN "check" ELSE "done")
DeploymentEnded(f) ==
  /\ Step(f, "check", IF status[follows[f].attempt] = "deleted" THEN "error"
                      ELSE IF follows[f].attempt \in Active THEN "poll" ELSE "done")
  /\ UNCHANGED <<follows, printed>>
DeploymentListed(f) ==
  /\ Step(f, "check", IF status[follows[f].attempt] = "deleted" THEN "error" ELSE "poll")
  /\ UNCHANGED <<follows, printed>>
DeploymentActive(f) ==
  /\ Step(f, "check", IF status[follows[f].attempt] = "deleted" THEN "error"
                      ELSE IF follows[f].attempt \in Active THEN "poll" ELSE "last")
  /\ UNCHANGED <<follows, printed>>
WriteLast(f) == WriteLatest(f, "last", "done")
Poll(f) == Step(f, "poll", "write") /\ UNCHANGED <<follows, printed>>
Detach(f) ==
  /\ \E here \in {"write", "check", "poll", "last"} : Step(f, here, "error")
  /\ UNCHANGED <<follows, printed>>

DaemonStep ==
  \/ Claim \/ Started \/ Output \/ RunEnds \/ Outcome \/ FailsToAppend \/ RecordStatus \/ StatusUnwritten
  \/ Restart \/ RecoverOutcome \/ RecoverUnwritten \/ RecoverStatus
FollowStep(f) == Stream(f) \/ DeploymentActive(f) \/ WriteLast(f) \/ Poll(f)
Next ==
  \/ Reserve \/ RecordQueued \/ DeleteApp \/ DaemonStep \/ Crash
  \/ \E f \in Followers :
       \/ \E a \in Attempts, polls \in BOOLEAN : BeginFollow(f, a, polls)
       \/ FollowStep(f) \/ Detach(f)
Spec == Init /\ [][Next]_vars

(* The daemon goes on, and is restarted; a follower that is attached polls.  *)
FairSpec == Spec /\ WF_vars(DaemonStep) /\ \A f \in Followers : WF_vars(FollowStep(f))

-----------------------------------------------------------------------------
(* Whatever a follower has printed is how the log begins, for as long as it  *)
(* is kept: an append, the limit included, never changes what was there.    *)
PrintedIsPrefix ==
  \A f \in Followers : Log(f).kept /\ pc[f] # "idle" => IsPrefix(printed[f], Log(f).content)

(* A follower that ended by itself has printed all of the log, and no line   *)
(* is appended after that: the outcome is in the log before the attempt      *)
(* ends, and the follower reads once more after it saw the end.             *)
EndedSawAll ==
  \A f \in Followers :
    pc[f] = "done" /\ follows[f].polls /\ Log(f).kept => printed[f] = Log(f).content

(* What a follower prints is the log: no more at any time, no less at the end. *)
PrintedIsLog == PrintedIsPrefix /\ EndedSawAll

(* The log that is being written is never among those dropped. *)
ActiveLogIsKept == Active \subseteq HasLog

(* A follower of an attempt that is deploying ends: the attempt does, unless *)
(* the store refused its status, and then the log was read to its end.      *)
FollowEnds ==
  \A f \in Followers :
    (pc[f] = "check" /\ follows[f].attempt \in Deploying) ~> (pc[f] \in {"done", "error"} \/ Lost)
=============================================================================
