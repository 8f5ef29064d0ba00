------------------------- MODULE DeploymentLogProofs -------------------------
(***************************************************************************)
(* What deployment logs promise, for any number of attempts, lines and      *)
(* followers and any limit: the log of an active attempt is never dropped,  *)
(* and what a follower prints is the log, to its end.  A log only grows, up *)
(* to its limit, and only while its attempt is deploying.                   *)
(*                                                                          *)
(* After that the text of logs, as Algorithms has it: output of any length, *)
(* cut into any writes, is cut once and redacted as one.                    *)
(***************************************************************************)
EXTENDS DeploymentLog, Algorithms, FiniteSetTheorems, SequenceTheorems, WellFoundedInduction, TLAPS

-----------------------------------------------------------------------------
(* Sequences.  A prefix agrees element by element. *)
LEMMA PrefixElements ==
  ASSUME NEW s \in Seq(Nat), NEW t \in Seq(Nat)
  PROVE  IsPrefix(s, t) <=> Len(s) <= Len(t) /\ \A i \in 1 .. Len(s) : s[i] = t[i]
<1>1. Len(s) <= Len(t) =>
        Len(SubSeq(s, 1, Len(s))) = Len(s) /\ Len(SubSeq(t, 1, Len(s))) = Len(s)
  OBVIOUS
<1>2. Len(s) <= Len(t) =>
        \A i \in 1 .. Len(s) :
          SubSeq(s, 1, Len(s))[i] = s[i] /\ SubSeq(t, 1, Len(s))[i] = t[i]
  OBVIOUS
<1> QED
  BY <1>1, <1>2 DEF IsPrefix

(* What is left to print completes what was printed. *)
LEMMA PrefixCompleted ==
  ASSUME NEW s \in Seq(Nat), NEW t \in Seq(Nat), IsPrefix(s, t)
  PROVE  s \o SubSeq(t, Len(s) + 1, Len(t)) = t
<1>1. Len(s) <= Len(t) /\ \A i \in 1 .. Len(s) : s[i] = t[i]
  BY PrefixElements
<1> DEFINE u == SubSeq(t, Len(s) + 1, Len(t))
<1>2. u \in Seq(Nat) /\ Len(u) = Len(t) - Len(s)
  BY <1>1
<1>3. \A i \in 1 .. Len(u) : u[i] = t[Len(s) + i]
  BY <1>1, <1>2
<1>4. Len(s \o u) = Len(t) /\ s \o u \in Seq(Nat)
  BY <1>1, <1>2
<1>5. \A i \in 1 .. Len(t) : (s \o u)[i] = t[i]
  BY <1>1, <1>2, <1>3
<1> QED
  BY <1>4, <1>5, SeqEqual

(* A sequence begins itself, and a prefix of a prefix is one. *)
LEMMA PrefixOrder ==
  ASSUME NEW s \in Seq(Nat), NEW t \in Seq(Nat), NEW u \in Seq(Nat)
  PROVE  /\ IsPrefix(t, t) /\ IsPrefix(<<>>, t)
         /\ IsPrefix(s, t) /\ IsPrefix(t, u) => IsPrefix(s, u)
<1>1. IsPrefix(t, t)
  BY PrefixElements
<1>2. IsPrefix(<<>>, t)
  <2>1. Len(<<>>) = 0 /\ Len(t) \in Nat
    OBVIOUS
  <2>2. SubSeq(<<>>, 1, 0) = <<>> /\ SubSeq(t, 1, 0) = <<>>
    BY SubSeqEmpty, EmptySeq
  <2> QED
    BY <2>1, <2>2 DEF IsPrefix
<1>3. IsPrefix(s, t) /\ IsPrefix(t, u) => IsPrefix(s, u)
  BY PrefixElements
<1> QED
  BY <1>1, <1>2, <1>3

LogRecord == [kept : BOOLEAN, content : Seq(Nat), truncated : BOOLEAN]

(* The limit: a log is full only with its marker. *)
Fits(record) ==
  /\ Len(record.content) <= MaxContent + 1
  /\ ~ record.truncated => Len(record.content) <= MaxContent

(* appendDeploymentLogContent: what was there stays, and the limit is kept.  *)
LEMMA AppendGrows ==
  ASSUME NEW record \in LogRecord, Fits(record), NEW output \in Seq(Nat)
  PROVE  LET after == Appended(record, output) IN
         /\ after.content \in Seq(Nat) /\ after.truncated \in BOOLEAN
         /\ Fits(after)
         /\ IsPrefix(record.content, after.content)
<1> DEFINE content == record.content
           whole == content \o output
<1>0. content \in Seq(Nat) /\ MaxContent \in Nat /\ Len(content) \in Nat
  BY LogTextAssumption DEF LogRecord
<1>1. whole \in Seq(Nat) /\ Len(whole) = Len(content) + Len(output)
      /\ \A i \in 1 .. Len(content) : whole[i] = content[i]
  BY <1>0
<1> HIDE DEF content, whole
<1>2. CASE output = <<>> \/ record.truncated
  BY <1>0, <1>2, PrefixOrder DEF Appended, LogRecord, content
<1>3. CASE ~ (output = <<>> \/ record.truncated) /\ Len(content) + Len(output) <= MaxContent
  <2>1. Appended(record, output) = [content |-> whole, truncated |-> FALSE]
    BY <1>3 DEF Appended, AppendContent, content, whole
  <2>2. IsPrefix(content, whole)
    <3>1. Len(output) \in Nat
      OBVIOUS
    <3>2. Len(content) <= Len(whole)
      BY <1>0, <1>1, <3>1
    <3>3. content \in Seq(Nat) /\ whole \in Seq(Nat)
          /\ \A i \in 1 .. Len(content) : content[i] = whole[i]
      BY <1>0, <1>1
    <3>4. IsPrefix(content, whole) <=>
            Len(content) <= Len(whole) /\ \A i \in 1 .. Len(content) : content[i] = whole[i]
      BY <3>3, PrefixElements, Zenon
    <3> QED
      BY <3>2, <3>3, <3>4, Zenon
  <2> QED
    BY <1>0, <1>1, <1>3, <2>1, <2>2 DEF Fits, content
<1>4. CASE ~ (output = <<>> \/ record.truncated) /\ ~ (Len(content) + Len(output) <= MaxContent)
  <2> DEFINE cut == SubSeq(whole, 1, MaxContent)
             marked == Append(cut, Marker)
  <2>1. Appended(record, output) = [content |-> marked, truncated |-> TRUE]
    BY <1>4 DEF Appended, AppendContent, content, whole
  <2>2. cut \in Seq(Nat) /\ Len(cut) = MaxContent /\ \A i \in 1 .. MaxContent : cut[i] = whole[i]
    <3>1. Len(whole) > MaxContent
      BY <1>0, <1>1, <1>4
    <3>2. \A i \in 1 .. MaxContent : whole[i] \in Nat
      BY <1>0, <1>1, <3>1
    <3> QED
      BY <1>0, <3>2, SubSeqProperties
  <2> HIDE DEF cut
  <2>3. marked \in Seq(Nat) /\ Len(marked) = MaxContent + 1
        /\ \A i \in 1 .. MaxContent : marked[i] = cut[i]
    BY <1>0, <2>2, AppendProperties DEF Marker
  <2> HIDE DEF marked
  <2>4. Len(content) <= MaxContent
    BY <1>4 DEF Fits, content
  <2>5. IsPrefix(content, marked)
    <3>1. \A i \in 1 .. Len(content) : content[i] = marked[i]
      BY <1>0, <1>1, <2>2, <2>3, <2>4
    <3>2. Len(content) <= Len(marked)
      BY <1>0, <2>3, <2>4
    <3> QED
      BY <1>0, <2>3, <3>1, <3>2, PrefixElements
  <2> QED
    BY <1>0, <2>1, <2>3, <2>5 DEF Fits, content
<1> QED
  BY <1>2, <1>3, <1>4

-----------------------------------------------------------------------------
(* Attempts are numbered in order, and a log belongs to one that is there.  *)
Numbered ==
  \E n \in 0 .. MaxAttempts : \A a \in Attempts : status[a] # "none" <=> a <= n
LogsOfAttempts == \A a \in HasLog : status[a] \notin {"none", "deleted"}
LogsFit == \A a \in Attempts : Fits(log[a])

(* What a follower has printed, and what it knows: it reads the log once    *)
(* more, and ends, only after it saw its attempt ended.                      *)
FollowAgrees(f) ==
  LET a == follows[f].attempt IN
  /\ pc[f] = "idle" => printed[f] = <<>>
  /\ pc[f] # "idle" => status[a] # "none"
  /\ pc[f] # "idle" /\ log[a].kept => IsPrefix(printed[f], log[a].content)
  /\ pc[f] = "last" \/ (pc[f] = "done" /\ follows[f].polls) => a \notin Active
  /\ pc[f] = "done" /\ follows[f].polls /\ log[a].kept => printed[f] = log[a].content

Stored == TypeOK /\ Numbered /\ LogsOfAttempts /\ LogsFit /\ ActiveLogIsKept
Sound == Stored /\ \A f \in Followers : FollowAgrees(f)

(* Initially there is no attempt. *)
LEMMA InitSound == Init => Sound
<1> SUFFICES ASSUME Init PROVE Sound
  OBVIOUS
<1>1. TypeOK
  BY LogAssumption, LogTextAssumption DEF Init, TypeOK, NoLog, Attempts
<1>2. Numbered
  <2>1. \A a \in Attempts : status[a] # "none" <=> a <= 0
    BY LogAssumption DEF Init, Attempts
  <2> QED
    BY <2>1, LogAssumption DEF Numbered
<1>3. LogsOfAttempts /\ LogsFit /\ ActiveLogIsKept
  BY LogTextAssumption
  DEF Init, LogsOfAttempts, LogsFit, ActiveLogIsKept, HasLog, NoLog, Active, Fits
<1>4. \A f \in Followers : FollowAgrees(f)
  BY DEF Init, FollowAgrees
<1> QED
  BY <1>1, <1>2, <1>3, <1>4 DEF Sound, Stored

-----------------------------------------------------------------------------
(* What a step does to attempts and their logs, apart from a reservation    *)
(* and a removal of the app: nothing, another status of an active attempt,  *)
(* or lines for one that is deploying and has a log.                        *)
Moves ==
  /\ status' \in [Attempts -> {"none", "pending", "queued", "deploying", "ended", "deleted"}]
  /\ \A a \in Attempts :
       status'[a] = status[a] \/ (a \in Active /\ status'[a] \in {"queued", "deploying", "ended"})
  /\ UNCHANGED <<log, lines>>
Appends ==
  \E a \in Deploying \cap HasLog, n \in 1 .. 2 : AppendLines(a, n) /\ UNCHANGED status

FollowsOn(f) ==
  \/ \E a \in Attempts, polls \in BOOLEAN : BeginFollow(f, a, polls)
  \/ FollowStep(f) \/ Detach(f)

(* Faults are counted up to their bound. *)
LEMMA FaultCounted ==
  ASSUME faults \in 0 .. MaxFaults,
         faults' = faults \/ (faults < MaxFaults /\ faults' = faults + 1)
  PROVE  faults' \in 0 .. MaxFaults
BY LogAssumption

(* Every step is of one of these kinds. *)
LEMMA EveryStepIsAKind ==
  ASSUME TypeOK, [Next]_vars
  PROVE  /\ \/ (Reserve \/ DeleteApp \/ Moves \/ Appends) /\ UNCHANGED followVars
            \/ \E f \in Followers : FollowsOn(f)
         /\ daemon' \in {"down", "idle", "start", "run", "outcome", "record", "recover",
                         "recover record"}
         /\ faults' \in 0 .. MaxFaults
<1>0. /\ status \in [Attempts -> {"none", "pending", "queued", "deploying", "ended", "deleted"}]
      /\ daemon \in {"down", "idle", "start", "run", "outcome", "record", "recover",
                     "recover record"}
      /\ faults \in 0 .. MaxFaults /\ MaxFaults \in Nat
  BY LogAssumption DEF TypeOK
<1> USE DEF vars, attemptVars, followVars
<1>1. CASE Reserve
  BY <1>1, <1>0 DEF Reserve
<1>2. CASE RecordQueued
  BY <1>2, <1>0 DEF RecordQueued, Moves, Active
<1>3. CASE DeleteApp
  BY <1>3, <1>0 DEF DeleteApp
<1>4. CASE Claim
  BY <1>4, <1>0 DEF Claim, Goto, Moves, Active
<1>5. ASSUME NEW a \in Deploying, NEW n \in 1 .. 2,
             NEW here, NEW then \in {"run", "record", "recover record"}, Append1(a, n, here, then)
      PROVE  Appends /\ UNCHANGED <<faults, followVars>> /\ daemon' = then
  BY <1>5, <1>0 DEF Append1, Goto, Appends
<1>6. ASSUME NEW here, NEW then, Unwritten(here, then)
      PROVE  Moves /\ UNCHANGED followVars /\ daemon' = then /\ faults' \in 0 .. MaxFaults
  <2>1. Moves /\ UNCHANGED followVars /\ daemon' = then
    BY <1>6, <1>0 DEF Unwritten, Goto, Moves
  <2>2. faults' = faults \/ (faults < MaxFaults /\ faults' = faults + 1)
    BY <1>6 DEF Unwritten
  <2> QED
    BY <1>0, <2>1, <2>2, FaultCounted
<1>10. CASE Started \/ Output \/ Outcome \/ RecoverOutcome
  <2>1. 1 \in 1 .. 2
    OBVIOUS
  <2> QED
    BY <1>5, <1>10, <1>0, <2>1 DEF Started, Output, Outcome, RecoverOutcome
<1>11. CASE FailsToAppend \/ RecoverUnwritten
  BY <1>6, <1>11 DEF FailsToAppend, RecoverUnwritten
<1>12. CASE RunEnds \/ StatusUnwritten \/ Restart \/ Crash
  <2>1. Moves /\ UNCHANGED followVars
    BY <1>12, <1>0 DEF RunEnds, StatusUnwritten, Restart, Crash, Goto, Moves
  <2>2. faults' = faults \/ (faults < MaxFaults /\ faults' = faults + 1)
    BY <1>12 DEF RunEnds, StatusUnwritten, Restart, Crash
  <2>3. daemon' \in {"outcome", "idle", "recover", "down"}
    BY <1>12, <1>0 DEF RunEnds, StatusUnwritten, Restart, Crash, Goto
  <2> QED
    BY <1>0, <2>1, <2>2, <2>3, FaultCounted
<1>7. CASE RecordStatus \/ RecoverStatus
  BY <1>7, <1>0 DEF RecordStatus, RecoverStatus, EndAttempt, Goto, Moves, Active, Deploying
<1>8. ASSUME NEW f \in Followers, FollowsOn(f)
      PROVE  daemon' = daemon /\ faults' = faults
  BY <1>8, <1>0
  DEF FollowsOn, BeginFollow, FollowStep, Stream, DeploymentActive, WriteLast, WriteLatest,
      Poll, Detach, Step
<1>9. CASE UNCHANGED vars
  BY <1>9, <1>0 DEF Moves
<1> QED
  BY <1>0, <1>1, <1>2, <1>3, <1>4, <1>7, <1>8, <1>9, <1>10, <1>11, <1>12
  DEF Next, DaemonStep, FollowsOn

(* The number of attempts there are. *)
LEMMA ReservedIsLast ==
  ASSUME NEW n \in 0 .. MaxAttempts, \A a \in Attempts : status[a] # "none" <=> a <= n
  PROVE  Reserved = n
<1>1. {a \in Attempts : status[a] # "none"} = 1 .. n
  BY LogAssumption DEF Attempts
<1>2. Cardinality(1 .. n) = n
  BY FS_Interval
<1> QED
  BY <1>1, <1>2 DEF Reserved

(* A reservation, row by row: the new attempt is the last and has an empty  *)
(* log, which is not among those dropped; another active one is deleted.    *)
LEMMA ReserveEffect ==
  ASSUME Stored, Reserve
  PROVE  \E n \in 0 .. MaxAttempts - 1 :
    /\ \A a \in Attempts : status[a] # "none" <=> a <= n
    /\ n + 1 \in Attempts
    /\ status'[n + 1] = "pending" /\ log'[n + 1] = [NoLog EXCEPT !.kept = TRUE]
    /\ \A a \in Attempts \ {n + 1} :
         /\ status'[a] = IF a \in Active THEN "deleted" ELSE status[a]
         /\ log'[a].kept => a \notin Active /\ log'[a] = log[a]
         /\ log'[a] \in LogRecord /\ Fits(log'[a])
    /\ status' \in [Attempts -> {"none", "pending", "queued", "deploying", "ended", "deleted"}]
    /\ log' \in [Attempts -> LogRecord]
    /\ lines' = lines
<1> USE DEF Stored
<1>1. PICK n \in 0 .. MaxAttempts : \A a \in Attempts : status[a] # "none" <=> a <= n
  BY DEF Numbered
<1>2. Reserved = n /\ n < MaxAttempts
  BY <1>1, ReservedIsLast DEF Reserve
<1>3. n \in 0 .. MaxAttempts - 1 /\ n + 1 \in Attempts
  BY <1>2, LogAssumption DEF Attempts
<1> DEFINE last == n + 1
           created == [b \in Attempts |->
             IF b = last THEN [NoLog EXCEPT !.kept = TRUE]
             ELSE IF b \in Active THEN NoLog ELSE log[b]]
           kept == {a \in Attempts : created[a].kept}
<1>4. /\ log' = Retained(created, Kept)
      /\ status' = [b \in Attempts |->
           IF b = last THEN "pending" ELSE IF b \in Active THEN "deleted" ELSE status[b]]
      /\ lines' = lines
  BY <1>2 DEF Reserve
<1>5. log \in [Attempts -> LogRecord]
  BY DEF TypeOK, LogRecord
<1>6. NoLog \in LogRecord /\ ~ NoLog.kept /\ Fits(NoLog)
      /\ [NoLog EXCEPT !.kept = TRUE] \in LogRecord /\ [NoLog EXCEPT !.kept = TRUE].kept
  <2>1. Len(<<>>) = 0 /\ <<>> \in Seq(Nat)
    OBVIOUS
  <2>2. NoLog \in LogRecord /\ ~ NoLog.kept /\ NoLog.content = <<>>
    BY <2>1 DEF NoLog, LogRecord
  <2>3. Fits(NoLog)
    BY <2>1, <2>2, LogTextAssumption DEF Fits
  <2> QED
    BY <2>2, <2>3 DEF LogRecord
<1>7. created \in [Attempts -> LogRecord]
  BY <1>5, <1>6
<1>8. last \in Newest(Kept, kept)
  <2>1. last \in kept
    BY <1>3, <1>6
  <2>2. {b \in kept : b > last} = {}
    <3>1. \A b \in kept : b \in Attempts /\ (b = last \/ status[b] # "none")
      BY <1>6, <1>7 DEF LogsOfAttempts, HasLog
    <3> QED
      BY <1>1, <1>3, <3>1 DEF Attempts
  <2> QED
    <3>1. Cardinality({b \in kept : b > last}) = 0
      BY <2>2, FS_EmptySet
    <3> QED
      BY <2>1, <3>1, LogAssumption DEF Newest
<1>9. \A a \in Attempts :
        log'[a] = IF a \in Newest(Kept, kept) THEN created[a] ELSE [created[a] EXCEPT !.kept = FALSE]
  BY <1>4 DEF Retained
<1>10. log' \in [Attempts -> LogRecord]
  BY <1>4, <1>7 DEF Retained, LogRecord
<1>11. ASSUME NEW a \in Attempts \ {last}
       PROVE  /\ log'[a].kept => a \notin Active /\ log'[a] = log[a]
              /\ Fits(log'[a])
  <2>1. created[a] \in LogRecord /\ Fits(created[a])
    BY <1>6, <1>7 DEF LogsFit
  <2>2. CASE a \in Newest(Kept, kept)
    BY <1>6, <1>9, <1>11, <2>1, <2>2
  <2>3. CASE a \notin Newest(Kept, kept)
    BY <1>9, <2>1, <2>3, ZenonT(40) DEF LogRecord, Fits
  <2> QED
    BY <2>2, <2>3
<1>12. status' \in [Attempts -> {"none", "pending", "queued", "deploying", "ended", "deleted"}]
  BY <1>4 DEF TypeOK
<1> QED
  BY <1>1, <1>3, <1>4, <1>8, <1>9, <1>10, <1>11, <1>12
-----------------------------------------------------------------------------
(* What every step leaves of an attempt that is there: it never becomes     *)
(* active again, and its log only goes, or grows while it is active.         *)
Grows(a) ==
  status[a] # "none" =>
    /\ status'[a] # "none" /\ (a \in Active' => a \in Active)
    /\ log'[a].kept =>
         /\ log[a].kept /\ IsPrefix(log[a].content, log'[a].content)
         /\ a \notin Active => log'[a].content = log[a].content

RowTypes ==
  /\ status \in [Attempts -> {"none", "pending", "queued", "deploying", "ended", "deleted"}]
  /\ log \in [Attempts -> LogRecord]
  /\ lines \in [Attempts -> Nat]
Rows == RowTypes /\ Numbered /\ LogsOfAttempts /\ LogsFit /\ ActiveLogIsKept

(* What is stored is well formed. *)
LEMMA RowsOfStored == Stored => Rows
BY DEF Stored, TypeOK, Rows, RowTypes, LogRecord

(* A reservation keeps the log of the attempt it makes active. *)
LEMMA ReserveStep ==
  ASSUME Stored, Reserve
  PROVE  Rows' /\ \A a \in Attempts : Grows(a)
<1>1. PICK n \in 0 .. MaxAttempts - 1 :
    /\ \A a \in Attempts : status[a] # "none" <=> a <= n
    /\ n + 1 \in Attempts
    /\ status'[n + 1] = "pending" /\ log'[n + 1] = [NoLog EXCEPT !.kept = TRUE]
    /\ \A a \in Attempts \ {n + 1} :
         /\ status'[a] = IF a \in Active THEN "deleted" ELSE status[a]
         /\ log'[a].kept => a \notin Active /\ log'[a] = log[a]
         /\ log'[a] \in LogRecord /\ Fits(log'[a])
    /\ status' \in [Attempts -> {"none", "pending", "queued", "deploying", "ended", "deleted"}]
    /\ log' \in [Attempts -> LogRecord]
    /\ lines' = lines
  BY ReserveEffect
<1>2. Rows
  BY RowsOfStored
<1>3. RowTypes'
  BY <1>1, <1>2 DEF Rows, RowTypes
<1>4. Numbered'
  <2>1. \A a \in Attempts : status'[a] # "none" <=> a <= n + 1
    BY <1>1 DEF Attempts, Active
  <2>2. n + 1 \in 0 .. MaxAttempts
    BY LogAssumption
  <2> QED
    BY <2>1, <2>2 DEF Numbered
<1>5. log'[n + 1].kept /\ Fits(log'[n + 1])
  <2>1. NoLog.content = <<>> /\ Len(<<>>) = 0
    BY DEF NoLog
  <2>2. log'[n + 1].kept /\ log'[n + 1].content = <<>>
    BY <1>1, <2>1 DEF NoLog
  <2> QED
    BY <2>1, <2>2, LogTextAssumption DEF Fits
<1>6. LogsOfAttempts' /\ ActiveLogIsKept'
  <2>1. \A a \in Attempts \ {n + 1} : a \notin Active'
    BY <1>1 DEF Active
  <2>2. \A a \in HasLog' \ {n + 1} : a \in HasLog /\ status'[a] = status[a]
    BY <1>1 DEF HasLog
  <2> QED
    BY <1>1, <1>2, <1>5, <2>1, <2>2
    DEF Rows, LogsOfAttempts, ActiveLogIsKept, HasLog, Active
<1>7. LogsFit'
  BY <1>1, <1>5 DEF LogsFit
<1>8. ASSUME NEW a \in Attempts PROVE Grows(a)
  <2>1. status[a] # "none" => a # n + 1
    BY <1>1 DEF Attempts
  <2>2. IsPrefix(log[a].content, log[a].content)
    BY <1>2, PrefixOrder DEF Rows, RowTypes, LogRecord
  <2> QED
    BY <1>1, <2>1, <2>2 DEF Grows, Active
<1> QED
  BY <1>3, <1>4, <1>6, <1>7, <1>8 DEF Rows

(* A removal of the app takes all logs with it. *)
LEMMA DeleteStep ==
  ASSUME Stored, DeleteApp
  PROVE  Rows' /\ \A a \in Attempts : Grows(a)
<1>1. /\ status' = [a \in Attempts |-> IF status[a] = "none" THEN "none" ELSE "deleted"]
      /\ log' = [a \in Attempts |-> NoLog] /\ lines' = lines
  BY DEF DeleteApp
<1>2. NoLog \in LogRecord /\ ~ NoLog.kept /\ Fits(NoLog)
  <2>1. Len(<<>>) = 0 /\ <<>> \in Seq(Nat)
    OBVIOUS
  <2> QED
    BY <2>1, LogTextAssumption DEF NoLog, LogRecord, Fits
<1>3. Rows
  BY RowsOfStored
<1>4. RowTypes' /\ LogsFit' /\ LogsOfAttempts' /\ ActiveLogIsKept'
  BY <1>1, <1>2, <1>3
  DEF Rows, RowTypes, LogsFit, LogsOfAttempts, ActiveLogIsKept, HasLog, Active
<1>5. Numbered'
  BY <1>1, <1>3 DEF Rows, Numbered
<1>6. \A a \in Attempts : Grows(a)
  BY <1>1, <1>2 DEF Grows, Active
<1> QED
  BY <1>4, <1>5, <1>6 DEF Rows

(* Another status of an active attempt. *)
LEMMA MovesStep ==
  ASSUME Stored, Moves
  PROVE  Rows' /\ \A a \in Attempts : Grows(a)
<1>1. Rows
  BY RowsOfStored
<1>2. RowTypes' /\ LogsFit'
  BY <1>1 DEF Moves, Rows, RowTypes, LogsFit
<1>3. Numbered'
  BY <1>1 DEF Moves, Rows, Numbered, Active
<1>4. LogsOfAttempts' /\ ActiveLogIsKept'
  BY <1>1 DEF Moves, Rows, LogsOfAttempts, ActiveLogIsKept, HasLog, Active
<1>5. ASSUME NEW a \in Attempts PROVE Grows(a)
  <2>1. IsPrefix(log[a].content, log[a].content)
    BY <1>1, PrefixOrder DEF Rows, RowTypes, LogRecord
  <2> QED
    BY <2>1 DEF Moves, Grows, Active
<1> QED
  BY <1>2, <1>3, <1>4, <1>5 DEF Rows

(* Lines for an attempt that is deploying. *)
LEMMA AppendsStep ==
  ASSUME Stored, Appends
  PROVE  Rows' /\ \A a \in Attempts : Grows(a)
<1>1. PICK b \in Deploying \cap HasLog, n \in 1 .. 2 : AppendLines(b, n) /\ UNCHANGED status
  BY DEF Appends
<1> DEFINE output == [i \in 1 .. n |-> Marker + lines[b] + i]
           after == Appended(log[b], output)
<1>2. Rows /\ b \in Attempts /\ log[b] \in LogRecord /\ Fits(log[b]) /\ lines[b] \in Nat
  BY <1>1, RowsOfStored DEF Rows, RowTypes, LogsFit, Deploying, HasLog
<1>3. output \in Seq(Nat)
  <2>1. n \in Nat /\ \A i \in 1 .. n : Marker + lines[b] + i \in Nat
    BY <1>2 DEF Marker
  <2> QED
    BY <2>1, IsASeq
<1>4. /\ after.content \in Seq(Nat) /\ after.truncated \in BOOLEAN
      /\ Fits(after) /\ IsPrefix(log[b].content, after.content)
  BY <1>2, <1>3, AppendGrows
<1> DEFINE entry == [kept |-> TRUE, content |-> after.content, truncated |-> after.truncated]
<1>5. log' = [log EXCEPT ![b] = entry] /\ lines' = [lines EXCEPT ![b] = @ + n]
  BY <1>1 DEF AppendLines
<1> HIDE DEF output, after
<1>6. entry \in LogRecord /\ Fits(entry) /\ entry.kept /\ entry.content = after.content
  BY <1>4 DEF LogRecord, Fits
<1> HIDE DEF entry
<1>7. RowTypes'
  BY <1>1, <1>2, <1>5, <1>6 DEF Rows, RowTypes
<1>8. LogsFit' /\ LogsOfAttempts' /\ ActiveLogIsKept' /\ Numbered'
  <2>1. HasLog' = HasLog /\ Active' = Active
    BY <1>1, <1>2, <1>5, <1>6 DEF HasLog, Active, Rows, RowTypes
  <2>2. LogsFit'
    BY <1>2, <1>5, <1>6 DEF LogsFit, Rows, RowTypes
  <2> QED
    BY <1>1, <1>2, <2>1, <2>2 DEF Rows, LogsOfAttempts, ActiveLogIsKept, Numbered
<1>9. ASSUME NEW a \in Attempts PROVE Grows(a)
  <2>1. IsPrefix(log[a].content, log[a].content)
    BY <1>2, PrefixOrder DEF Rows, RowTypes, LogRecord
  <2>2. CASE a = b
    BY <1>1, <1>2, <1>4, <1>5, <1>6, <2>2 DEF Grows, Active, Deploying, HasLog, Rows, RowTypes
  <2>3. CASE a # b
    BY <1>1, <1>2, <1>5, <2>1, <2>3 DEF Grows, Active, Rows, RowTypes
  <2> QED
    BY <2>2, <2>3
<1> QED
  BY <1>7, <1>8, <1>9 DEF Rows

-----------------------------------------------------------------------------
(* A step of the store or the daemon leaves every follower in agreement.    *)
LEMMA FollowersStay ==
  ASSUME Sound, Rows', \A a \in Attempts : Grows(a), UNCHANGED followVars,
         NEW f \in Followers
  PROVE  FollowAgrees(f)'
<1> DEFINE a == follows[f].attempt
<1>1. a \in Attempts /\ FollowAgrees(f) /\ Grows(a) /\ printed[f] \in Seq(Nat)
  BY DEF Sound, Stored, TypeOK
<1>2. log[a].content \in Seq(Nat) /\ log'[a].content \in Seq(Nat)
  BY <1>1, RowsOfStored DEF Sound, Rows, RowTypes, LogRecord
<1>3. IsPrefix(printed[f], log[a].content) /\ IsPrefix(log[a].content, log'[a].content) =>
        IsPrefix(printed[f], log'[a].content)
  BY <1>1, <1>2, PrefixOrder
<1>4. pc'[f] = pc[f] /\ follows'[f] = follows[f] /\ printed'[f] = printed[f]
  BY DEF followVars
<1> HIDE DEF a
<1>5. pc[f] = "idle" \/ status[a] # "none"
  BY <1>1 DEF FollowAgrees, a
<1>6. CASE pc[f] = "idle"
  BY <1>1, <1>4, <1>6 DEF FollowAgrees, a
<1>7. CASE pc[f] # "idle"
  BY <1>1, <1>3, <1>4, <1>5, <1>7 DEF FollowAgrees, Grows, a
<1> QED
  BY <1>6, <1>7

(* Printing what is left of a log that is kept prints all of it. *)
LEMMA WritesAll ==
  ASSUME Sound, NEW f \in Followers, pc[f] # "idle", Log(f).kept
  PROVE  printed[f] \o Unprinted(f) = Log(f).content /\ Log(f).content \in Seq(Nat)
<1>1. printed[f] \in Seq(Nat) /\ Log(f).content \in Seq(Nat)
  BY DEF Sound, Stored, TypeOK, Log
<1>2. IsPrefix(printed[f], Log(f).content)
  BY DEF Sound, FollowAgrees, Log
<1> QED
  BY <1>1, <1>2, PrefixCompleted DEF Unprinted

(* A step of a follower. *)
LEMMA FollowersStep ==
  ASSUME Sound, NEW g \in Followers, FollowsOn(g)
  PROVE  /\ Rows' /\ \A f \in Followers : FollowAgrees(f)'
         /\ pc' \in [Followers -> {"idle", "write", "check", "last", "poll", "done", "error"}]
         /\ follows' \in [Followers -> [attempt : Attempts, polls : BOOLEAN]]
         /\ printed' \in [Followers -> Seq(Nat)]
<1>0. /\ pc \in [Followers -> {"idle", "write", "check", "last", "poll", "done", "error"}]
      /\ follows \in [Followers -> [attempt : Attempts, polls : BOOLEAN]]
      /\ printed \in [Followers -> Seq(Nat)]
      /\ Rows /\ \A f \in Followers : FollowAgrees(f)
  BY RowsOfStored DEF Sound, Stored, TypeOK
<1>1. UNCHANGED <<status, log, lines>>
  BY DEF FollowsOn, BeginFollow, FollowStep, Stream, DeploymentActive, WriteLast, WriteLatest,
         Poll, Detach, Step, attemptVars
<1>2. Rows'
  BY <1>0, <1>1
  DEF Rows, RowTypes, Numbered, LogsOfAttempts, LogsFit, ActiveLogIsKept, HasLog, Active
<1>3. \A f \in Followers \ {g} :
        pc'[f] = pc[f] /\ follows'[f] = follows[f] /\ printed'[f] = printed[f]
  BY <1>0
  DEF FollowsOn, BeginFollow, FollowStep, Stream, DeploymentActive, WriteLast, WriteLatest,
      Poll, Detach, Step
<1>4. \A f \in Followers \ {g} : FollowAgrees(f)'
  BY <1>0, <1>1, <1>3 DEF FollowAgrees, Active
<1> DEFINE Done == /\ FollowAgrees(g)'
                   /\ pc' \in [Followers -> {"idle", "write", "check", "last", "poll", "done",
                                            "error"}]
                   /\ follows' \in [Followers -> [attempt : Attempts, polls : BOOLEAN]]
                   /\ printed' \in [Followers -> Seq(Nat)]
<1>5. ASSUME NEW a \in Attempts, NEW polls \in BOOLEAN, BeginFollow(g, a, polls)
      PROVE  Done
  <2>1. /\ pc[g] = "idle" /\ pc' = [pc EXCEPT ![g] = "write"]
        /\ follows' = [follows EXCEPT ![g] = [attempt |-> a, polls |-> polls]]
        /\ printed' = printed /\ a \in HasLog
    BY <1>5 DEF BeginFollow, Step
  <2>2. printed[g] = <<>> /\ status[a] # "none" /\ IsPrefix(<<>>, log[a].content)
    BY <1>0, <2>1, PrefixOrder
    DEF FollowAgrees, Rows, RowTypes, LogRecord, LogsOfAttempts, HasLog
  <2> QED
    BY <1>0, <1>1, <2>1, <2>2 DEF FollowAgrees
<1>6. ASSUME NEW here \in {"write", "last"}, NEW then \in {"check", "done"},
             WriteLatest(g, here, then),
             then = "done" => here = "last" \/ ~ follows[g].polls
      PROVE  Done
  <2>1. /\ pc[g] = here /\ follows' = follows
        /\ pc' = [pc EXCEPT ![g] = IF Log(g).kept THEN then ELSE "error"]
        /\ printed' = IF Log(g).kept THEN [printed EXCEPT ![g] = @ \o Unprinted(g)] ELSE printed
    BY <1>6 DEF WriteLatest, Step
  <2>2. CASE Log(g).kept
    <3>1. printed[g] \o Unprinted(g) = Log(g).content /\ Log(g).content \in Seq(Nat)
      BY <2>1, <2>2, WritesAll
    <3>2. printed' = [printed EXCEPT ![g] = Log(g).content]
      BY <2>1, <2>2, <3>1
    <3>3. IsPrefix(Log(g).content, Log(g).content)
      BY <3>1, PrefixOrder
    <3> QED
      BY <1>0, <1>1, <1>6, <2>1, <2>2, <3>1, <3>2, <3>3 DEF FollowAgrees, Log, Active
  <2>3. CASE ~ Log(g).kept
    BY <1>0, <1>1, <1>6, <2>1, <2>3 DEF FollowAgrees, Log
  <2> QED
    BY <2>2, <2>3
<1>7. ASSUME NEW here \in {"write", "check", "poll", "last"},
             NEW then \in {"write", "poll", "last", "error"},
             Step(g, here, then), UNCHANGED <<follows, printed>>,
             then = "last" => follows[g].attempt \notin Active
      PROVE  Done
  <2>1. pc[g] = here /\ pc' = [pc EXCEPT ![g] = then] /\ pc'[g] = then
    BY <1>0, <1>7 DEF Step
  <2>2. FollowAgrees(g)'
    BY <1>0, <1>1, <1>7, <2>1 DEF FollowAgrees, Active
  <2> QED
    BY <1>0, <1>7, <2>1, <2>2
<1> HIDE DEF Done
<1>8. ASSUME Stream(g) \/ WriteLast(g)
      PROVE  Done
  <2>1. CASE Stream(g) /\ follows[g].polls
    <3>1. WriteLatest(g, "write", "check")
      BY <2>1 DEF Stream
    <3> QED
      BY <1>6, <3>1
  <2>2. CASE Stream(g) /\ ~ follows[g].polls
    <3>1. WriteLatest(g, "write", "done")
      BY <2>2 DEF Stream
    <3> QED
      BY <1>6, <2>2, <3>1
  <2>3. CASE WriteLast(g)
    <3>1. WriteLatest(g, "last", "done")
      BY <2>3 DEF WriteLast
    <3> QED
      BY <1>6, <3>1
  <2> QED
    BY <1>8, <2>1, <2>2, <2>3
<1>9. ASSUME DeploymentActive(g) \/ Poll(g) \/ Detach(g)
      PROVE  Done
  <2>1. CASE DeploymentActive(g)
    <3>1. PICK then \in {"poll", "last", "error"} :
            Step(g, "check", then) /\ (then = "last" => follows[g].attempt \notin Active)
      BY <2>1 DEF DeploymentActive
    <3> QED
      BY <1>7, <2>1, <3>1 DEF DeploymentActive
  <2>2. CASE Poll(g)
    BY <1>7, <2>2 DEF Poll
  <2>3. CASE Detach(g)
    BY <1>7, <2>3 DEF Detach
  <2> QED
    BY <1>9, <2>1, <2>2, <2>3
<1> QED
  BY <1>2, <1>4, <1>5, <1>8, <1>9 DEF Done, FollowsOn, FollowStep

(* Everything holds after every step. *)
LEMMA SoundStep == Sound /\ [Next]_vars => Sound'
<1> SUFFICES ASSUME Sound, [Next]_vars PROVE Sound'
  OBVIOUS
<1>1. /\ \/ (Reserve \/ DeleteApp \/ Moves \/ Appends) /\ UNCHANGED followVars
         \/ \E f \in Followers : FollowsOn(f)
      /\ daemon' \in {"down", "idle", "start", "run", "outcome", "record", "recover",
                      "recover record"}
      /\ faults' \in 0 .. MaxFaults
  BY EveryStepIsAKind DEF Sound, Stored
<1>2. ASSUME Rows', \A f \in Followers : FollowAgrees(f)',
             pc' \in [Followers -> {"idle", "write", "check", "last", "poll", "done", "error"}],
             follows' \in [Followers -> [attempt : Attempts, polls : BOOLEAN]],
             printed' \in [Followers -> Seq(Nat)]
      PROVE  Sound'
  <2>1. TypeOK'
    BY <1>1, <1>2 DEF TypeOK, Rows, RowTypes, LogRecord, LogsFit, Fits
  <2> QED
    BY <1>2, <2>1 DEF Sound, Stored, Rows
<1>3. ASSUME Reserve \/ DeleteApp \/ Moves \/ Appends, UNCHANGED followVars
      PROVE  Sound'
  <2>1. Rows' /\ \A a \in Attempts : Grows(a)
    BY <1>3, ReserveStep, DeleteStep, MovesStep, AppendsStep DEF Sound
  <2>2. \A f \in Followers : FollowAgrees(f)'
    BY <1>3, <2>1, FollowersStay
  <2>3. pc' = pc /\ follows' = follows /\ printed' = printed
    BY <1>3 DEF followVars
  <2> QED
    BY <1>2, <2>1, <2>2, <2>3 DEF Sound, Stored, TypeOK
<1>4. ASSUME NEW f \in Followers, FollowsOn(f)
      PROVE  Sound'
  BY <1>2, <1>4, FollowersStep
<1> QED
  BY <1>1, <1>3, <1>4

(* Attempts, logs and followers are as the lemmas say in every behaviour. *)
LEMMA AlwaysSound == Spec => []Sound
BY InitSound, SoundStep, PTL DEF Spec

(* Every attempt, log, daemon step and follower keeps its type. *)
THEOREM TypeCorrect == Spec => []TypeOK
<1>1. Sound => TypeOK
  BY DEF Sound, Stored
<1> QED
  BY <1>1, AlwaysSound, PTL

(* retainRecentDeploymentLogs: however many logs are dropped, and whatever  *)
(* takes the place of what, an attempt that may still write has its log.     *)
THEOREM ActiveLogsAreKept == Spec => []ActiveLogIsKept
<1>1. Sound => ActiveLogIsKept
  BY DEF Sound, Stored
<1> QED
  BY <1>1, AlwaysSound, PTL

(* DeploymentLogStreamer: what a follower prints is the log, without gaps or *)
(* repetitions and, if it ends by itself, to the end, also when the log is   *)
(* cut at its limit or its attempt was ended by another start of the daemon. *)
THEOREM PrintedLogs == Spec => []PrintedIsLog
<1>1. Sound => PrintedIsLog
  BY DEF Sound, FollowAgrees, PrintedIsLog, PrintedIsPrefix, EndedSawAll, Log
<1> QED
  BY <1>1, AlwaysSound, PTL
-----------------------------------------------------------------------------
(* Induction, by the smallest counterexample, and folds over 1 .. N. *)

LEMMA LeastNatural ==
  ASSUME NEW X \in SUBSET Nat, X # {}
  PROVE  \E n \in X : \A m \in X : n <= m
<1>1. IsWellFoundedOn(OpToRel(<, Nat), Nat)
  BY NatLessThanWellFounded
<1>2. PICK n \in X : \A m \in X : ~(<<m, n>> \in OpToRel(<, Nat))
  BY <1>1, WFMin
<1>3. \A m \in X : m \in Nat /\ n \in Nat
  OBVIOUS
<1>4. ASSUME NEW m \in X
      PROVE  ~(m < n)
  BY <1>2, <1>3 DEF OpToRel
<1> QED
  BY <1>3, <1>4

LEMMA ByInduction ==
  ASSUME NEW N \in Nat, NEW X, 0 \in X, \A n \in 0 .. N - 1 : n \in X => n + 1 \in X
  PROVE  N \in X
<1> DEFINE Y == {n \in 0 .. N : n \notin X}
<1>1. SUFFICES ASSUME Y # {} PROVE FALSE
  <2>1. Y = {} => N \in X
    OBVIOUS
  <2> QED
    BY <2>1
<1>2. PICK n \in Y : \A m \in Y : n <= m
  <2> Y \in SUBSET Nat
    OBVIOUS
  <2> HIDE DEF Y
  <2> QED
    BY <1>1, LeastNatural
<1>3. n \in 0 .. N /\ n \notin X /\ n # 0
  OBVIOUS
<1>4. n - 1 \in 0 .. N - 1 /\ n - 1 \notin Y
  BY <1>2, <1>3
<1>5. n - 1 \in X
  BY <1>4
<1>6. (n - 1) + 1 \in X
  BY <1>4, <1>5
<1> QED
  BY <1>3, <1>6

LEMMA MaxOfTop ==
  ASSUME NEW n \in Nat, n > 0
  PROVE  Max(1 .. n) = n /\ (1 .. n) \ {n} = 1 .. n - 1 /\ 1 .. n # {}
<1>1. \A m \in 1 .. n : (\A y \in 1 .. n : m >= y) <=> m = n
  OBVIOUS
<1>2. Max(1 .. n) = n
  BY <1>1 DEF Max
<1> QED
  BY <1>2

LEMMA MaxOfPart ==
  ASSUME NEW N \in Nat, NEW S \in SUBSET (1 .. N), S # {}
  PROVE  Max(S) \in S
<1> DEFINE X == {x \in 0 .. N : N - x \in S}
<1>1. X \in SUBSET Nat /\ X # {}
  <2>1. PICK i \in S : TRUE
    OBVIOUS
  <2>2. PICK x : x = N - i
    OBVIOUS
  <2>3. x \in 0 .. N /\ N - x = i
    BY <2>2
  <2> QED
    BY <2>3
<1>2. PICK x \in X : \A y \in X : x <= y
  <2> HIDE DEF X
  <2> QED
    BY <1>1, LeastNatural
<1>3. ASSUME NEW j \in S
      PROVE  N - x >= j
  <2>1. N - j \in 0 .. N /\ N - (N - j) = j
    OBVIOUS
  <2>2. N - j \in X
    BY <2>1
  <2> QED
    BY <1>2, <2>2
<1>4. \E m \in S : \A j \in S : m >= j
  BY <1>3
<1> QED
  BY <1>4 DEF Max

(* Each set of indices is folded without its last one first. *)
FoldsAt(iter, S, base, step) ==
  iter[S] = IF S = {} THEN base ELSE step[Max(S)][iter[S \ {Max(S)}]]
FoldsUpTo(iter, N, k, T, base, step) ==
  \A S \in SUBSET (1 .. N) : Cardinality(S) <= k => iter[S] \in T /\ FoldsAt(iter, S, base, step)

LEMMA PartOfInterval ==
  ASSUME NEW N \in Nat, NEW S \in SUBSET (1 .. N)
  PROVE  /\ Cardinality(S) \in Nat /\ Cardinality(S) <= N
         /\ Cardinality(S) = 0 <=> S = {}
         /\ S # {} => Cardinality(S \ {Max(S)}) = Cardinality(S) - 1
<1>1. IsFiniteSet(1 .. N) /\ Cardinality(1 .. N) = N
  BY FS_Interval
<1>2. IsFiniteSet(S) /\ Cardinality(S) <= N
  BY <1>1, FS_Subset
<1>3. Cardinality(S) \in Nat /\ (Cardinality(S) = 0 <=> S = {})
  BY <1>2, FS_CardinalityType, FS_EmptySet
<1>4. ASSUME S # {}
      PROVE  Cardinality(S \ {Max(S)}) = Cardinality(S) - 1
  <2>1. PICK m : m = Max(S)
    OBVIOUS
  <2>2. m \in S
    BY <1>4, <2>1, MaxOfPart
  <2> QED
    BY <1>2, <2>1, <2>2, FS_RemoveElement
<1> QED
  BY <1>2, <1>3, <1>4

LEMMA FoldExtends ==
  ASSUME NEW N \in Nat, NEW T, NEW base \in T, NEW step \in [1 .. N -> [T -> T]],
         NEW k \in Nat, NEW h, FoldsUpTo(h, N, k, T, base, step)
  PROVE  \E g : FoldsUpTo(g, N, k + 1, T, base, step)
<1> DEFINE g == [S \in SUBSET (1 .. N) |-> IF Cardinality(S) <= k THEN h[S] ELSE step[Max(S)][h[S \ {Max(S)}]]]
<1>1. ASSUME NEW S \in SUBSET (1 .. N), Cardinality(S) <= k
      PROVE  g[S] = h[S]
  BY <1>1
<1>2. ASSUME NEW S \in SUBSET (1 .. N), Cardinality(S) <= k + 1, S # {}
      PROVE  /\ S \ {Max(S)} \in SUBSET (1 .. N)
             /\ Cardinality(S \ {Max(S)}) <= k
  <2> HIDE DEF g
  <2>1. Cardinality(S) \in Nat /\ Cardinality(S \ {Max(S)}) = Cardinality(S) - 1
    BY <1>2, PartOfInterval, Zenon
  <2>2. Cardinality(S \ {Max(S)}) <= k
    BY <1>2, <2>1
  <2>3. S \ {Max(S)} \in SUBSET (1 .. N)
    OBVIOUS
  <2> QED
    BY <2>2, <2>3
<1>3. ASSUME NEW S \in SUBSET (1 .. N), Cardinality(S) <= k + 1
      PROVE  g[S] \in T /\ FoldsAt(g, S, base, step)
  <2>1. CASE S = {}
    <3>1. Cardinality(S) <= k
      <4>1. Cardinality(S) = 0
        BY <2>1, PartOfInterval, Zenon
      <4> QED
        BY <4>1
    <3> QED
      BY <1>1, <2>1, <3>1 DEF FoldsUpTo, FoldsAt
  <2>2. CASE S # {}
    <3>1. PICK m, R : m = Max(S) /\ R = S \ {m} /\ R \in SUBSET (1 .. N) /\ Cardinality(R) <= k
      BY <1>2, <1>3, <2>2
    <3>2. m \in 1 .. N
      BY <2>2, <3>1, MaxOfPart
    <3>3. h[R] \in T /\ g[R] = h[R]
      BY <1>1, <3>1 DEF FoldsUpTo
    <3>4. step[m][h[R]] \in T
      BY <3>2, <3>3
    <3>5. g[S] = step[m][h[R]]
      <4>1. CASE Cardinality(S) <= k
        BY <1>1, <2>2, <3>1, <4>1 DEF FoldsUpTo, FoldsAt
      <4>2. CASE ~(Cardinality(S) <= k)
        BY <3>1, <4>2
      <4> QED
        BY <4>1, <4>2
    <3> HIDE DEF g
    <3> QED
      BY <2>2, <3>1, <3>3, <3>4, <3>5 DEF FoldsAt
  <2> QED
    BY <2>1, <2>2
<1> HIDE DEF g
<1> QED
  BY <1>3 DEF FoldsUpTo

LEMMA FoldStarts ==
  ASSUME NEW N \in Nat, NEW T, NEW base \in T, NEW step
  PROVE  \E h : FoldsUpTo(h, N, 0, T, base, step)
<1> DEFINE h == [S \in SUBSET (1 .. N) |-> base]
<1>1. ASSUME NEW S \in SUBSET (1 .. N), Cardinality(S) <= 0
      PROVE  h[S] \in T /\ FoldsAt(h, S, base, step)
  <2>1. S = {}
    <3>1. Cardinality(S) \in Nat /\ (Cardinality(S) = 0 <=> S = {})
      BY PartOfInterval, Zenon
    <3> QED
      BY <1>1, <3>1
  <2> QED
    BY <2>1 DEF FoldsAt
<1> HIDE DEF h
<1> QED
  BY <1>1 DEF FoldsUpTo

IsFold(iter, N, base, step) ==
  iter = [S \in SUBSET (1 .. N) |-> IF S = {} THEN base ELSE step[Max(S)][iter[S \ {Max(S)}]]]

LEMMA FoldExists ==
  ASSUME NEW N \in Nat, NEW T, NEW base \in T, NEW step \in [1 .. N -> [T -> T]]
  PROVE  \E iter : IsFold(iter, N, base, step) /\ \A S \in SUBSET (1 .. N) : iter[S] \in T
<1> DEFINE X == {k \in Nat : \E h : FoldsUpTo(h, N, k, T, base, step)}
<1>1. 0 \in X
  BY FoldStarts
<1>2. \A k \in 0 .. N - 1 : k \in X => k + 1 \in X
  BY FoldExtends
<1>3. N \in X
  <2> HIDE DEF X
  <2> QED
    BY <1>1, <1>2, ByInduction, Zenon
<1>4. PICK h : FoldsUpTo(h, N, N, T, base, step)
  BY <1>3
<1>5. \A S \in SUBSET (1 .. N) : h[S] \in T /\ FoldsAt(h, S, base, step)
  <2>1. \A S \in SUBSET (1 .. N) : Cardinality(S) <= N
    BY PartOfInterval, Zenon
  <2> QED
    BY <1>4, <2>1, Zenon DEF FoldsUpTo
<1> DEFINE iter == [S \in SUBSET (1 .. N) |-> h[S]]
<1>6. ASSUME NEW S \in SUBSET (1 .. N)
      PROVE  iter[S] = IF S = {} THEN base ELSE step[Max(S)][iter[S \ {Max(S)}]]
  <2>1. iter[S] = h[S] /\ iter[S \ {Max(S)}] = h[S \ {Max(S)}]
    OBVIOUS
  <2> HIDE DEF iter
  <2> QED
    BY <1>5, <2>1 DEF FoldsAt
<1>7. iter = [S \in SUBSET (1 .. N) |-> IF S = {} THEN base ELSE step[Max(S)][iter[S \ {Max(S)}]]]
  BY <1>6
<1>8. \A S \in SUBSET (1 .. N) : iter[S] \in T
  BY <1>5
<1> HIDE DEF iter
<1> QED
  BY <1>7, <1>8 DEF IsFold

(* A fold over 1 .. N, one index at a time. *)
IsUnfolding(acc, it, N) ==
  /\ acc[0] = it[{}] /\ acc[N] = it[1 .. N]
  /\ \A n \in 1 .. N : acc[n] = it[1 .. n] /\ acc[n - 1] = it[(1 .. n) \ {n}]

LEMMA FoldPrefixes ==
  ASSUME NEW N \in Nat, NEW it
  PROVE  \E acc : IsUnfolding(acc, it, N)
<1> DEFINE acc == [n \in 0 .. N |-> it[1 .. n]]
<1>1. \A n \in 0 .. N : acc[n] = it[1 .. n]
  OBVIOUS
<1>2. 1 .. 0 = {}
  OBVIOUS
<1> HIDE DEF acc
<1>3. acc[0] = it[{}] /\ acc[N] = it[1 .. N]
  BY <1>1, <1>2
<1>4. ASSUME NEW n \in 1 .. N
      PROVE  acc[n] = it[1 .. n] /\ acc[n - 1] = it[(1 .. n) \ {n}]
  <2>1. (1 .. n) \ {n} = 1 .. n - 1
    BY MaxOfTop
  <2>2. n - 1 \in 0 .. N /\ n \in 0 .. N
    OBVIOUS
  <2> QED
    BY <1>1, <2>1, <2>2
<1>5. IsUnfolding(acc, it, N)
  BY <1>3, <1>4, Zenon DEF IsUnfolding
<1> QED
  BY <1>5

-----------------------------------------------------------------------------
(* Sequences. *)

LEMMA ConcatParts ==
  ASSUME NEW C, NEW s \in Seq(C), NEW t \in Seq(C)
  PROVE  /\ s \o t \in Seq(C) /\ Len(s \o t) = Len(s) + Len(t)
         /\ \A i \in 1 .. Len(s) : (s \o t)[i] = s[i]
         /\ \A i \in 1 .. Len(t) : (s \o t)[Len(s) + i] = t[i]
OBVIOUS

LEMMA ConcatNothing ==
  ASSUME NEW C, NEW s \in Seq(C)
  PROVE  <<>> \o s = s /\ s \o <<>> = s /\ <<>> \in Seq(C)
<1>1. <<>> \in Seq(C) /\ Len(<<>>) = 0
  OBVIOUS
<1>2. <<>> \o s \in Seq(C) /\ Len(<<>> \o s) = Len(s) /\ \A i \in 1 .. Len(s) : (<<>> \o s)[i] = s[i]
  OBVIOUS
<1>3. s \o <<>> \in Seq(C) /\ Len(s \o <<>>) = Len(s) /\ \A i \in 1 .. Len(s) : (s \o <<>>)[i] = s[i]
  OBVIOUS
<1> QED
  BY <1>1, <1>2, <1>3, SeqEqual

(* A function of the first numbers is a sequence. *)
LEMMA FunctionIsSeq ==
  ASSUME NEW C, NEW N \in Nat, NEW f \in [1 .. N -> C]
  PROVE  f \in Seq(C) /\ Len(f) = N
OBVIOUS

LEMMA FlattenStepwise ==
  ASSUME NEW C, NEW pieces \in Seq(Seq(C))
  PROVE  \E acc :
           /\ acc[0] = <<>>
           /\ \A n \in 1 .. Len(pieces) : acc[n] = acc[n - 1] \o pieces[n]
           /\ \A n \in 0 .. Len(pieces) : acc[n] \in Seq(C)
           /\ FlattenSeq(pieces) = acc[Len(pieces)]
<1>1. PICK N : N = Len(pieces) /\ N \in Nat
  OBVIOUS
<1>2. \A n \in 1 .. N : pieces[n] \in Seq(C)
  BY <1>1
<1> DEFINE T == Seq(C)
           step == [n \in 1 .. N |-> [s \in T |-> s \o pieces[n]]]
           base == <<>>
<1>3. base \in T /\ step \in [1 .. N -> [T -> T]]
  BY <1>2
<1>4. PICK e : IsFold(e, N, base, step) /\ \A S \in SUBSET (1 .. N) : e[S] \in T
  <2> HIDE DEF step, base, T
  <2> QED
    BY <1>1, <1>3, FoldExists, Zenon
<1>5. PICK acc : /\ acc[0] = e[{}] /\ acc[N] = e[1 .. N]
                 /\ \A n \in 1 .. N : acc[n] = e[1 .. n] /\ acc[n - 1] = e[(1 .. n) \ {n}]
  <2>1. N \in Nat
    BY <1>1
  <2> HIDE DEF step, base, T
  <2>2. PICK other : IsUnfolding(other, e, N)
    BY <2>1, FoldPrefixes, Zenon
  <2> QED
    BY <2>2, Zenon DEF IsUnfolding
<1>6. acc[0] = <<>>
  <2> HIDE DEF step
  <2> QED
    BY <1>4, <1>5 DEF IsFold
<1>7. ASSUME NEW n \in 1 .. N
      PROVE  acc[n] = acc[n - 1] \o pieces[n] /\ acc[n] \in T
  <2>1. Max(1 .. n) = n /\ 1 .. n # {}
    BY <1>1, MaxOfTop
  <2>4. 1 .. n \in SUBSET (1 .. N) /\ (1 .. n) \ {n} \in SUBSET (1 .. N)
    BY <1>1
  <2>2. e[1 .. n] = step[n][e[(1 .. n) \ {n}]]
    <3> HIDE DEF step, base
    <3> QED
      BY <1>4, <2>1, <2>4 DEF IsFold
  <2>3. acc[n - 1] \in T /\ acc[n] \in T
    BY <1>4, <1>5, <2>4
  <2>5. step[n][acc[n - 1]] = acc[n - 1] \o pieces[n]
    <3> HIDE DEF T
    <3> QED
      BY <2>3
  <2> QED
    BY <1>5, <2>2, <2>3, <2>5
<1> HIDE DEF step
<1>8. ASSUME NEW n \in 0 .. N
      PROVE  acc[n] \in T
  <2> HIDE DEF T
  <2>1. n = 0 \/ n \in 1 .. N
    BY <1>1
  <2> QED
    BY <1>3, <1>6, <1>7, <2>1
<1>9. FlattenSeq(pieces) = acc[N]
  <2>1. CASE N = 0
    <3>1. Len(pieces) = 0 /\ pieces = <<>>
      BY <1>1, <2>1, EmptySeq
    <3> QED
      BY <1>6, <2>1, <3>1, Zenon DEF FlattenSeq
  <2>2. CASE N > 0
    <3> DEFINE f == [i \in 1 .. N |-> acc[i]]
    <3>1. ASSUME NEW i \in 1 .. N
          PROVE  f[i] = IF i = 1 THEN pieces[i] ELSE f[i - 1] \o pieces[i]
      <4>1. CASE i = 1
        <5>1. 1 \in 1 .. N /\ 1 - 1 = 0
          BY <1>1, <2>2
        <5>2. acc[1] = <<>> \o pieces[1] /\ pieces[1] \in Seq(C)
          BY <1>2, <1>6, <1>7, <5>1
        <5>3. acc[1] = pieces[1]
          BY <5>2, ConcatNothing, Zenon
        <5> QED
          BY <4>1, <5>1, <5>3
      <4>2. CASE i # 1
        <5>1. i - 1 \in 1 .. N
          BY <1>1, <4>2
        <5>2. f[i] = acc[i] /\ f[i - 1] = acc[i - 1]
          BY <5>1
        <5> QED
          BY <1>7, <4>2, <5>2
      <4> QED
        BY <4>1, <4>2
    <3>2. f = [i \in 1 .. N |-> IF i = 1 THEN pieces[i] ELSE f[i - 1] \o pieces[i]]
      BY <3>1
    <3>3. PICK g : /\ g = [i \in 1 .. N |-> IF i = 1 THEN pieces[i] ELSE g[i - 1] \o pieces[i]]
                   /\ FlattenSeq(pieces) = g[N]
      <4> HIDE DEF f
      <4>1. Len(pieces) # 0
        BY <1>1, <2>2
      <4> QED
        BY <1>1, <3>2, <4>1, Zenon DEF FlattenSeq
    <3> DEFINE X == {n \in 0 .. N : n > 0 => g[n] = acc[n]}
    <3>4. 0 \in X
      BY <1>1
    <3>5. ASSUME NEW n \in 0 .. N - 1, n \in X
          PROVE  n + 1 \in X
      <4>1. n + 1 \in 1 .. N /\ (n + 1) - 1 = n /\ n \in Nat
        BY <1>1
      <4>2. g[n + 1] = IF n + 1 = 1 THEN pieces[n + 1] ELSE g[n] \o pieces[n + 1]
        BY <3>3, <4>1
      <4>3. acc[n + 1] = acc[n] \o pieces[n + 1] /\ pieces[n + 1] \in Seq(C)
        BY <1>2, <1>7, <4>1
      <4>4. CASE n = 0
        <5>1. g[n + 1] = pieces[n + 1] /\ acc[n + 1] = <<>> \o pieces[n + 1]
          <6>1. n + 1 = 1
            BY <4>4
          <6> QED
            BY <1>6, <4>2, <4>3, <4>4, <6>1, Zenon
        <5>2. acc[n + 1] = pieces[n + 1]
          BY <4>3, <5>1, ConcatNothing, Zenon
        <5> QED
          BY <4>1, <5>1, <5>2
      <4>5. CASE n > 0
        <5>1. g[n] = acc[n] /\ n + 1 # 1
          BY <3>5, <4>1, <4>5
        <5>2. g[n + 1] = acc[n + 1]
          BY <4>2, <4>3, <5>1, Zenon
        <5> QED
          BY <4>1, <5>2
      <4> QED
        BY <4>4, <4>5
    <3>6. N \in X
      <4> HIDE DEF X
      <4> QED
        BY <1>1, <3>4, <3>5, ByInduction, Zenon
    <3> QED
      BY <2>2, <3>3, <3>6
  <2> QED
    BY <1>1, <2>1, <2>2
<1> QED
  BY <1>1, <1>6, <1>7, <1>8, <1>9

-----------------------------------------------------------------------------
(* Log text. *)

LEMMA CutConcat ==
  ASSUME NEW s \in Seq(Nat), NEW t \in Seq(Nat), NEW n \in Nat, n <= Len(s)
  PROVE  SubSeq(s \o t, 1, n) = SubSeq(s, 1, n)
<1> DEFINE u == SubSeq(s \o t, 1, n)
           v == SubSeq(s, 1, n)
<1>1. s \o t \in Seq(Nat) /\ Len(s \o t) = Len(s) + Len(t) /\ Len(s) \in Nat /\ Len(t) \in Nat
  OBVIOUS
<1>2. \A i \in 1 .. n : (s \o t)[i] = s[i]
  OBVIOUS
<1>3. u \in Seq(Nat) /\ Len(u) = n /\ \A i \in 1 .. n : u[i] = (s \o t)[i]
  BY <1>1
<1>4. v \in Seq(Nat) /\ Len(v) = n /\ \A i \in 1 .. n : v[i] = s[i]
  BY <1>1
<1> HIDE DEF u, v
<1>5. \A i \in 1 .. Len(u) : u[i] = v[i]
  BY <1>2, <1>3, <1>4
<1>6. u = v
  BY <1>3, <1>4, <1>5, SeqEqual
<1> QED
  BY <1>6 DEF u, v

(* However the output is cut into writes, the log is its beginning up to the *)
(* limit, and has the marker exactly when something was cut off: an empty    *)
(* log is that of no output, and a piece more is written as if it had been   *)
(* there at once.                                                           *)
THEOREM LogsAreCutOnce ==
  /\ [content |-> <<>>, truncated |-> FALSE] = Cut(<<>>)
  /\ \A output, piece \in Seq(Nat) : Appended(Cut(output), piece) = Cut(output \o piece)
<1>1. [content |-> <<>>, truncated |-> FALSE] = Cut(<<>>)
  BY LogTextAssumption DEF Cut
<1>2. ASSUME NEW output \in Seq(Nat), NEW piece \in Seq(Nat)
      PROVE  Appended(Cut(output), piece) = Cut(output \o piece)
  <2> DEFINE whole == output \o piece
  <2>1. Len(whole) = Len(output) + Len(piece) /\ Len(output) \in Nat /\ Len(piece) \in Nat /\ MaxContent \in Nat
    BY LogTextAssumption
  <2>2. CASE Len(output) > MaxContent
    <3>1. Cut(output) = [content |-> Append(SubSeq(output, 1, MaxContent), Marker), truncated |-> TRUE]
      BY <2>1, <2>2 DEF Cut
    <3>2. Appended(Cut(output), piece) = Cut(output)
      BY <3>1 DEF Appended
    <3>3. SubSeq(whole, 1, MaxContent) = SubSeq(output, 1, MaxContent)
      BY <2>1, <2>2, CutConcat
    <3>4. Len(whole) > MaxContent
      BY <2>1, <2>2
    <3> HIDE DEF whole
    <3>5. Cut(whole) = [content |-> Append(SubSeq(whole, 1, MaxContent), Marker), truncated |-> TRUE]
      BY <2>1, <3>4 DEF Cut
    <3>6. Cut(whole) = Cut(output)
      BY <3>1, <3>3, <3>5
    <3> QED
      BY <3>2, <3>6 DEF whole
  <2>3. CASE ~(Len(output) > MaxContent)
    <3>1. Cut(output) = [content |-> output, truncated |-> FALSE]
      BY <2>1, <2>3 DEF Cut
    <3>2. CASE piece = <<>>
      <4>1. whole = output
        BY <3>2
      <4>2. Appended(Cut(output), piece) = Cut(output)
        BY <3>2 DEF Appended
      <4> QED
        BY <4>1, <4>2
    <3>3. CASE piece # <<>>
      <4>1. Appended(Cut(output), piece) = AppendContent(output, piece)
        BY <3>1, <3>3 DEF Appended
      <4>2. AppendContent(output, piece) = Cut(whole)
        BY <2>1 DEF AppendContent, Cut
      <4> QED
        BY <4>1, <4>2
    <3> QED
      BY <3>2, <3>3
  <2> QED
    BY <2>2, <2>3
<1> QED
  BY <1>1, <1>2

(* The state of the log after each piece. *)
LEMMA AppendedStepwise ==
  ASSUME NEW pieces \in Seq(Seq(Nat))
  PROVE  \E acc : /\ acc[0] = Cut(<<>>)
                  /\ \A n \in 1 .. Len(pieces) : acc[n] = Appended(acc[n - 1], pieces[n])
                  /\ AppendedAll(pieces) = acc[Len(pieces)]
<1>1. PICK N : N = Len(pieces) /\ N \in Nat /\ DOMAIN pieces = 1 .. N /\ \A n \in 1 .. N : pieces[n] \in Seq(Nat)
  OBVIOUS
<1> DEFINE T == {Cut(output) : output \in Seq(Nat)}
           step == [n \in 1 .. N |-> [stored \in T |-> Appended(stored, pieces[n])]]
           base == [content |-> <<>>, truncated |-> FALSE]
<1>2. base \in T /\ base = Cut(<<>>)
  <2>1. <<>> \in Seq(Nat)
    OBVIOUS
  <2> QED
    BY <2>1, LogsAreCutOnce, Zenon
<1>3. step \in [1 .. N -> [T -> T]]
  <2>1. ASSUME NEW n \in 1 .. N, NEW stored \in T
        PROVE  Appended(stored, pieces[n]) \in T
    <3>1. PICK output \in Seq(Nat) : stored = Cut(output)
      OBVIOUS
    <3>2. PICK piece : piece = pieces[n] /\ piece \in Seq(Nat)
      BY <1>1
    <3>3. output \o piece \in Seq(Nat)
      BY <3>2
    <3>4. Appended(stored, piece) = Cut(output \o piece)
      BY <3>1, <3>2, LogsAreCutOnce, Zenon
    <3> QED
      BY <3>2, <3>3, <3>4
  <2> HIDE DEF T
  <2> QED
    BY <2>1
<1>4. PICK e : IsFold(e, N, base, step) /\ \A S \in SUBSET (1 .. N) : e[S] \in T
  <2> HIDE DEF step, base, T
  <2> QED
    BY <1>1, <1>2, <1>3, FoldExists, Zenon
<1>5. ASSUME NEW S \in SUBSET (1 .. N), S # {}
      PROVE  step[Max(S)][e[S \ {Max(S)}]] = Appended(e[S \ {Max(S)}], pieces[Max(S)])
  <2>1. PICK m, R : m = Max(S) /\ R = S \ {m}
    OBVIOUS
  <2>2. m \in 1 .. N /\ e[R] \in T
    BY <1>1, <1>4, <1>5, <2>1, MaxOfPart
  <2> HIDE DEF T
  <2> QED
    BY <2>1, <2>2
<1>6. e = [S \in SUBSET (1 .. N) |-> IF S = {} THEN base ELSE Appended(e[S \ {Max(S)}], pieces[Max(S)])]
  <2> HIDE DEF step, base, T
  <2> QED
    BY <1>4, <1>5 DEF IsFold
<1>7. PICK it : /\ it = [S \in SUBSET (1 .. N) |->
                           IF S = {} THEN base ELSE Appended(it[S \ {Max(S)}], pieces[Max(S)])]
                /\ AppendedAll(pieces) = it[1 .. N]
  <2> HIDE DEF step
  <2> QED
    BY <1>1, <1>6, Zenon DEF AppendedAll, FoldLeft, MapThenFoldSet
<1>8. PICK acc : /\ acc[0] = it[{}] /\ acc[N] = it[1 .. N]
                 /\ \A n \in 1 .. N : acc[n] = it[1 .. n] /\ acc[n - 1] = it[(1 .. n) \ {n}]
  <2>1. N \in Nat
    BY <1>1
  <2> HIDE DEF step, base, T
  <2>2. PICK other : IsUnfolding(other, it, N)
    BY <2>1, FoldPrefixes, Zenon
  <2> QED
    BY <2>2, Zenon DEF IsUnfolding
<1> HIDE DEF base, step, T
<1>9. acc[0] = Cut(<<>>)
  BY <1>2, <1>7, <1>8
<1>10. ASSUME NEW n \in 1 .. N
       PROVE  acc[n] = Appended(acc[n - 1], pieces[n])
  <2>1. Max(1 .. n) = n /\ 1 .. n # {}
    BY <1>1, MaxOfTop
  <2>2. 1 .. n \in SUBSET (1 .. N)
    BY <1>1
  <2>3. it[1 .. n] = Appended(it[(1 .. n) \ {n}], pieces[n])
    BY <1>7, <2>1, <2>2
  <2> QED
    BY <1>8, <2>3
<1> QED
  BY <1>1, <1>7, <1>8, <1>9, <1>10

(* In however many pieces the output comes, the log is what it would be had  *)
(* all of it come at once.                                                  *)
THEOREM LogsOfPiecesAreCutOnce ==
  ASSUME input.of = "pieces" => input.pieces \in Seq(Seq(Nat))
  PROVE  LimitCutsOnce
<1> SUFFICES ASSUME NEW pieces \in Seq(Seq(Nat))
             PROVE  AppendedAll(pieces) = Cut(FlattenSeq(pieces))
  BY Zenon DEF LimitCutsOnce
<1>1. PICK N : N = Len(pieces) /\ N \in Nat /\ \A n \in 1 .. N : pieces[n] \in Seq(Nat)
  OBVIOUS
<1>2. PICK acc : /\ acc[0] = Cut(<<>>)
                 /\ \A n \in 1 .. Len(pieces) : acc[n] = Appended(acc[n - 1], pieces[n])
                 /\ AppendedAll(pieces) = acc[Len(pieces)]
  BY AppendedStepwise
<1>3. PICK sofar : /\ sofar[0] = <<>>
                   /\ \A n \in 1 .. Len(pieces) : sofar[n] = sofar[n - 1] \o pieces[n]
                   /\ \A n \in 0 .. Len(pieces) : sofar[n] \in Seq(Nat)
                   /\ FlattenSeq(pieces) = sofar[Len(pieces)]
  BY FlattenStepwise, Zenon
<1> DEFINE X == {n \in 0 .. N : acc[n] = Cut(sofar[n])}
<1>4. 0 \in X
  BY <1>1, <1>2, <1>3
<1>5. ASSUME NEW n \in 0 .. N - 1, n \in X
      PROVE  n + 1 \in X
  <2>1. n + 1 \in 1 .. N /\ (n + 1) - 1 = n /\ n \in 0 .. N /\ n + 1 \in 0 .. N
    BY <1>1
  <2>2. PICK piece, output : /\ piece = pieces[n + 1] /\ output = sofar[n]
                             /\ piece \in Seq(Nat) /\ output \in Seq(Nat)
    BY <1>1, <1>3, <2>1
  <2>3. acc[n + 1] = Appended(acc[n], piece) /\ sofar[n + 1] = output \o piece
    BY <1>1, <1>2, <1>3, <2>1, <2>2
  <2>4. acc[n] = Cut(output)
    BY <1>5, <2>2
  <2>5. acc[n + 1] = Cut(sofar[n + 1])
    BY <2>2, <2>3, <2>4, LogsAreCutOnce, Zenon
  <2> QED
    BY <2>1, <2>5
<1>6. N \in X
  <2> HIDE DEF X
  <2> QED
    BY <1>1, <1>4, <1>5, ByInduction, Zenon
<1> QED
  BY <1>1, <1>2, <1>3, <1>6

-----------------------------------------------------------------------------
(* The order in which values are replaced. *)

Texts == Seq(Nat)

LEMMA DiffersFirst ==
  ASSUME NEW v \in Texts, NEW w \in Texts, Len(v) = Len(w), v # w
  PROVE  \E i \in 1 .. Len(v) : v[i] # w[i] /\ \A j \in 1 .. i - 1 : v[j] = w[j]
<1> USE DEF Texts
<1> DEFINE X == {i \in 1 .. Len(v) : v[i] # w[i]}
<1>1. X # {}
  BY SeqEqual
<1>2. PICK i \in X : \A m \in X : i <= m
  <2> X \in SUBSET Nat
    OBVIOUS
  <2> HIDE DEF X
  <2> QED
    BY <1>1, LeastNatural
<1>3. i \in 1 .. Len(v) /\ v[i] # w[i]
  OBVIOUS
<1>4. ASSUME NEW j \in 1 .. i - 1
      PROVE  v[j] = w[j]
  <2>1. j \in 1 .. Len(v) /\ j \notin X
    BY <1>2, <1>3
  <2> QED
    BY <2>1
<1> QED
  BY <1>3, <1>4

LessAt(v, w, i) == v[i] < w[i] /\ \A j \in 1 .. i - 1 : v[j] = w[j]
Less(v, w, n) == \E i \in 1 .. n : LessAt(v, w, i)

LEMMA BeforeMeans ==
  ASSUME NEW v \in Texts, NEW w
  PROVE  /\ Len(v) = Len(w) => (ReplacedBefore(v, w) <=> Less(v, w, Len(v)))
         /\ Len(v) # Len(w) => (ReplacedBefore(v, w) <=> Len(v) > Len(w))
<1>1. DOMAIN v = 1 .. Len(v)
  BY DEF Texts
<1> QED
  BY <1>1, Zenon DEF ReplacedBefore, Less, LessAt

LEMMA LessOrGreater ==
  ASSUME NEW v \in Texts, NEW w \in Texts, v # w
  PROVE  \/ Len(v) = Len(w) /\ (Less(v, w, Len(v)) \/ Less(w, v, Len(w)))
         \/ Len(v) # Len(w) /\ (Len(v) > Len(w) \/ Len(w) > Len(v))
<1>1. Len(v) \in Nat /\ Len(w) \in Nat
  BY DEF Texts
<1>2. CASE Len(v) = Len(w)
  <2>1. PICK i \in 1 .. Len(v) : v[i] # w[i] /\ \A j \in 1 .. i - 1 : v[j] = w[j]
    BY <1>2, DiffersFirst
  <2>2. v[i] \in Nat /\ w[i] \in Nat
    BY <1>2 DEF Texts
  <2>3. v[i] < w[i] \/ w[i] < v[i]
    BY <2>1, <2>2
  <2> QED
    BY <1>2, <2>1, <2>3 DEF Less, LessAt
<1> QED
  BY <1>1, <1>2

LEMMA BeforeIsTotal ==
  ASSUME NEW v \in Texts, NEW w \in Texts, v # w
  PROVE  ReplacedBefore(v, w) \/ ReplacedBefore(w, v)
BY LessOrGreater, BeforeMeans, Zenon

LEMMA LessIsTransitive ==
  ASSUME NEW u \in Texts, NEW v \in Texts, NEW w \in Texts, NEW n \in Nat,
         Len(u) = n, Len(v) = n, Len(w) = n, Less(u, v, n), Less(v, w, n)
  PROVE  Less(u, w, n)
<1>1. PICK i \in 1 .. n : u[i] < v[i] /\ \A j \in 1 .. i - 1 : u[j] = v[j]
  BY DEF Less, LessAt
<1>2. PICK k \in 1 .. n : v[k] < w[k] /\ \A j \in 1 .. k - 1 : v[j] = w[j]
  BY DEF Less, LessAt
<1>3. \A j \in 1 .. n : u[j] \in Nat /\ v[j] \in Nat /\ w[j] \in Nat
  BY DEF Texts
<1>4. CASE i <= k
  <2>1. u[i] < w[i]
    <3>1. v[i] < w[i] \/ v[i] = w[i]
      <4>1. i = k \/ i \in 1 .. k - 1
        BY <1>4
      <4> QED
        BY <1>2, <4>1
    <3>2. u[i] \in Nat /\ v[i] \in Nat /\ w[i] \in Nat /\ u[i] < v[i]
      BY <1>1, <1>3
    <3> QED
      BY <3>1, <3>2
  <2>2. \A j \in 1 .. i - 1 : u[j] = w[j]
    BY <1>1, <1>2, <1>4
  <2> QED
    BY <2>1, <2>2 DEF Less, LessAt
<1>5. CASE ~(i <= k)
  <2>1. k \in 1 .. i - 1
    BY <1>5
  <2>2. u[k] = v[k]
    BY <1>1, <2>1
  <2>3. u[k] < w[k]
    BY <1>2, <2>2
  <2>4. \A j \in 1 .. k - 1 : u[j] = w[j]
    BY <1>1, <1>2, <1>5
  <2> QED
    BY <2>3, <2>4 DEF Less, LessAt
<1> QED
  BY <1>4, <1>5

LEMMA LengthsOfThree ==
  ASSUME NEW u \in Texts, NEW v \in Texts, NEW w \in Texts,
         Len(u) = Len(v) \/ Len(u) > Len(v), Len(v) = Len(w) \/ Len(v) > Len(w)
  PROVE  /\ Len(u) \in Nat
         /\ Len(u) = Len(w) => Len(v) = Len(u)
         /\ Len(u) # Len(w) => Len(u) > Len(w)
BY DEF Texts

LEMMA BeforeIsTransitive ==
  ASSUME NEW u \in Texts, NEW v \in Texts, NEW w \in Texts, ReplacedBefore(u, v), ReplacedBefore(v, w)
  PROVE  ReplacedBefore(u, w)
<1>1. /\ Len(u) = Len(v) \/ Len(u) > Len(v)
      /\ Len(v) = Len(w) \/ Len(v) > Len(w)
  BY BeforeMeans, Zenon
<1>2. Len(u) \in Nat /\ (Len(u) = Len(w) => Len(v) = Len(u)) /\ (Len(u) # Len(w) => Len(u) > Len(w))
  BY <1>1, LengthsOfThree, Zenon
<1>3. CASE Len(u) = Len(w)
  <2>1. PICK n \in Nat : n = Len(u) /\ Len(v) = n /\ Len(w) = n
    BY <1>2, <1>3
  <2>2. Less(u, v, n)
    BY <2>1, BeforeMeans, Zenon
  <2>3. Less(v, w, n)
    BY <2>1, BeforeMeans, Zenon
  <2>4. Less(u, w, n)
    BY <2>1, <2>2, <2>3, LessIsTransitive, Zenon
  <2> QED
    BY <2>1, <2>4, BeforeMeans, Zenon
<1>4. CASE Len(u) # Len(w)
  BY <1>2, <1>4, BeforeMeans, Zenon
<1> QED
  BY <1>3, <1>4, Zenon

(* In every finite set of values one is replaced last. *)
LEMMA OneIsLast ==
  ASSUME NEW n \in Nat, NEW S \in SUBSET Texts, IsFiniteSet(S), Cardinality(S) = n + 1
  PROVE  \E m \in S : \A v \in S \ {m} : ReplacedBefore(v, m)
<1> DEFINE Has(R) == \E m \in R : \A v \in R \ {m} : ReplacedBefore(v, m)
           X == {k \in Nat : \A R \in SUBSET Texts : IsFiniteSet(R) /\ Cardinality(R) = k + 1 => Has(R)}
<1>1. 0 \in X
  <2>1. ASSUME NEW R \in SUBSET Texts, IsFiniteSet(R), Cardinality(R) = 1
        PROVE  Has(R)
    <3>1. PICK m : R = {m}
      BY <2>1, FS_Singleton
    <3> QED
      BY <3>1
  <2> HIDE DEF Has
  <2> QED
    BY <2>1
<1>2. ASSUME NEW k \in 0 .. n - 1, k \in X
      PROVE  k + 1 \in X
  <2>1. ASSUME NEW R \in SUBSET Texts, IsFiniteSet(R), Cardinality(R) = (k + 1) + 1
        PROVE  Has(R)
    <3>1. R # {}
      BY <2>1, FS_EmptySet
    <3>2. PICK x \in R : TRUE
      BY <3>1
    <3>3. PICK Q : Q = R \ {x}
      OBVIOUS
    <3>4. IsFiniteSet(Q) /\ Cardinality(Q) = k + 1 /\ Q \in SUBSET Texts
      BY <2>1, <3>2, <3>3, FS_RemoveElement
    <3>5. PICK m \in Q : \A v \in Q \ {m} : ReplacedBefore(v, m)
      BY <1>2, <3>4
    <3>6. x # m /\ x \in Texts /\ m \in Texts /\ m \in R
      BY <3>3
    <3>7. CASE ReplacedBefore(x, m)
      BY <3>3, <3>5, <3>6, <3>7
    <3>8. CASE ReplacedBefore(m, x)
      <4>1. ASSUME NEW v \in R \ {x}
            PROVE  ReplacedBefore(v, x)
        <5>1. v \in Texts /\ (v = m \/ v \in Q \ {m})
          BY <3>3
        <5> QED
          BY <3>5, <3>6, <3>8, <5>1, BeforeIsTransitive
      <4> QED
        BY <4>1
    <3> QED
      BY <3>6, <3>7, <3>8, BeforeIsTotal
  <2> HIDE DEF Has
  <2> QED
    BY <2>1
<1>3. n \in X
  <2> HIDE DEF X
  <2> QED
    BY <1>1, <1>2, ByInduction, Zenon
<1> QED
  BY <1>3

InTurn(order) == \A i, j \in DOMAIN order : i < j => ReplacedBefore(order[i], order[j])

LEMMA OrderedExists ==
  ASSUME NEW S \in SUBSET Texts, IsFiniteSet(S)
  PROVE  \E order \in [1 .. Cardinality(S) -> S] : InTurn(order)
<1> DEFINE Has(R) == \E order \in [1 .. Cardinality(R) -> R] : InTurn(order)
           X == {k \in Nat : \A R \in SUBSET Texts : IsFiniteSet(R) /\ Cardinality(R) = k => Has(R)}
<1>1. 0 \in X
  <2>1. ASSUME NEW R \in SUBSET Texts, IsFiniteSet(R), Cardinality(R) = 0
        PROVE  Has(R)
    <3>1. PICK order : order = [i \in 1 .. Cardinality(R) |-> <<>>]
      OBVIOUS
    <3>2. 1 .. Cardinality(R) = {}
      BY <2>1
    <3>3. order \in [1 .. Cardinality(R) -> R] /\ DOMAIN order = {}
      BY <3>1, <3>2
    <3> QED
      BY <3>3 DEF InTurn
  <2> HIDE DEF Has
  <2> QED
    BY <2>1
<1>2. ASSUME NEW k \in Nat, k \in X
      PROVE  k + 1 \in X
  <2>1. ASSUME NEW R \in SUBSET Texts, IsFiniteSet(R), Cardinality(R) = k + 1
        PROVE  Has(R)
    <3>1. PICK m \in R : \A v \in R \ {m} : ReplacedBefore(v, m)
      BY <2>1, OneIsLast
    <3>2. PICK Q : Q = R \ {m}
      OBVIOUS
    <3>3. IsFiniteSet(Q) /\ Cardinality(Q) = k /\ Q \in SUBSET Texts
      <4>1. IsFiniteSet(Q) /\ Cardinality(Q) = Cardinality(R) - 1
        BY <2>1, <3>1, <3>2, FS_RemoveElement
      <4> QED
        BY <1>2, <2>1, <3>2, <4>1
    <3>4. PICK order \in [1 .. k -> Q] : InTurn(order)
      BY <1>2, <3>3
    <3>5. PICK longer : longer = [i \in 1 .. k + 1 |-> IF i = k + 1 THEN m ELSE order[i]]
      OBVIOUS
    <3>6. /\ DOMAIN longer = 1 .. k + 1 /\ longer[k + 1] = m
          /\ \A i \in 1 .. k : longer[i] = order[i] /\ order[i] \in Q
      BY <3>5
    <3>7. longer \in [1 .. k + 1 -> R]
      BY <3>1, <3>2, <3>5, <3>6
    <3>8. InTurn(longer)
      <4>1. ASSUME NEW i \in 1 .. k + 1, NEW j \in 1 .. k + 1, i < j
            PROVE  ReplacedBefore(longer[i], longer[j])
        <5>1. i \in 1 .. k
          BY <4>1
        <5>2. CASE j = k + 1
          BY <3>1, <3>2, <3>6, <5>1, <5>2
        <5>3. CASE j # k + 1
          <6>1. j \in 1 .. k
            BY <5>3
          <6>2. ReplacedBefore(order[i], order[j])
            BY <3>4, <4>1, <5>1, <6>1 DEF InTurn
          <6> QED
            BY <3>6, <5>1, <6>1, <6>2
        <5> QED
          BY <5>2, <5>3
      <4> QED
        BY <3>6, <4>1 DEF InTurn
    <3> QED
      BY <2>1, <3>7, <3>8
  <2> HIDE DEF Has
  <2> QED
    BY <2>1
<1>3. Cardinality(S) \in Nat
  BY FS_CardinalityType
<1>4. Cardinality(S) \in X
  <2> HIDE DEF X
  <2>1. \A k \in 0 .. Cardinality(S) - 1 : k \in X => k + 1 \in X
    BY <1>2
  <2> QED
    BY <1>1, <1>3, <2>1, ByInduction, Zenon
<1> QED
  BY <1>4

LEMMA OrderedValues ==
  ASSUME NEW values, IsFiniteSet(values), values \in SUBSET Texts
  PROVE  Ordered(values) \in Seq(values)
<1>1. \E order \in [1 .. Cardinality(values) -> values] :
        \A i, j \in DOMAIN order : i < j => ReplacedBefore(order[i], order[j])
  BY OrderedExists, Zenon DEF InTurn
<1>2. Ordered(values) \in [1 .. Cardinality(values) -> values]
  BY <1>1, Zenon DEF Ordered
<1>3. Cardinality(values) \in Nat
  BY FS_CardinalityType
<1> QED
  BY <1>2, <1>3, FunctionIsSeq

-----------------------------------------------------------------------------
(* One value is replaced. *)

LEMMA TextParts ==
  ASSUME NEW t \in Texts
  PROVE  Len(t) \in Nat /\ DOMAIN t = 1 .. Len(t) /\ \A i \in 1 .. Len(t) : t[i] \in Nat
BY DEF Texts

EndsWith(t, v) == Len(v) <= Len(t) /\ \A k \in 1 .. Len(v) : t[Len(t) - Len(v) + k] = v[k]

LEMMA BeginningParts ==
  ASSUME NEW t \in Seq(Nat), NEW n \in Nat, n <= Len(t)
  PROVE  /\ SubSeq(t, 1, n) \in Seq(Nat) /\ Len(SubSeq(t, 1, n)) = n
         /\ \A i \in 1 .. n : SubSeq(t, 1, n)[i] = t[i]
OBVIOUS

LEMMA SuffixMeans ==
  ASSUME NEW v \in Texts, NEW t \in Texts
  PROVE  IsSuffix(v, t) <=> EndsWith(t, v)
<1>1. PICK n, m : n = Len(v) /\ m = Len(t) /\ n \in Nat /\ m \in Nat
  BY TextParts, Zenon
<1>2. PICK rv, rt : rv = Reverse(v) /\ rt = Reverse(t)
  OBVIOUS
<1>3. /\ rv = [i \in 1 .. n |-> v[n - i + 1]] /\ rt = [i \in 1 .. m |-> t[m - i + 1]]
  BY <1>1, <1>2, Zenon DEF Reverse
<1>4. /\ \A i \in 1 .. n : n - i + 1 \in 1 .. n /\ v[n - i + 1] \in Nat
      /\ \A i \in 1 .. m : m - i + 1 \in 1 .. m /\ t[m - i + 1] \in Nat
  BY <1>1 DEF Texts
<1>5. rv \in Seq(Nat) /\ rt \in Seq(Nat) /\ Len(rv) = n /\ Len(rt) = m
  BY <1>1, <1>3, <1>4
<1>6. IsSuffix(v, t) <=> Len(rv) <= Len(rt) /\ SubSeq(rv, 1, Len(rv)) = SubSeq(rt, 1, Len(rv))
  BY <1>2, Zenon DEF IsSuffix, IsPrefix
<1>7. CASE n <= m
  <2>1. PICK a, b : a = SubSeq(rv, 1, n) /\ b = SubSeq(rt, 1, n)
    OBVIOUS
  <2>2. /\ a \in Seq(Nat) /\ b \in Seq(Nat) /\ Len(a) = n /\ Len(b) = n
        /\ \A i \in 1 .. n : a[i] = rv[i] /\ b[i] = rt[i]
    <3>1. a \in Seq(Nat) /\ Len(a) = n /\ \A i \in 1 .. n : a[i] = rv[i]
      <4>1. n <= Len(rv)
        BY <1>1, <1>5
      <4> QED
        BY <1>1, <1>5, <2>1, <4>1, BeginningParts, Zenon
    <3>2. b \in Seq(Nat) /\ Len(b) = n /\ \A i \in 1 .. n : b[i] = rt[i]
      <4>1. n <= Len(rt)
        BY <1>1, <1>5, <1>7
      <4> QED
        BY <1>1, <1>5, <2>1, <4>1, BeginningParts, Zenon
    <3> QED
      BY <3>1, <3>2
  <2>3. a = b <=> \A i \in 1 .. n : a[i] = b[i]
    BY <2>2, SeqEqual
  <2>4. \A i \in 1 .. n : rv[i] = v[n - i + 1] /\ rt[i] = t[m - i + 1]
    BY <1>1, <1>3, <1>7
  <2>5. ASSUME a = b, NEW k \in 1 .. n
        PROVE  t[m - n + k] = v[k]
    <3>1. n - k + 1 \in 1 .. n /\ n - (n - k + 1) + 1 = k /\ m - (n - k + 1) + 1 = m - n + k
      BY <1>1
    <3>2. rv[n - k + 1] = v[n - (n - k + 1) + 1] /\ rt[n - k + 1] = t[m - (n - k + 1) + 1]
      BY <2>4, <3>1
    <3>3. rv[n - k + 1] = rt[n - k + 1]
      BY <2>2, <2>5, <3>1
    <3> QED
      BY <3>1, <3>2, <3>3
  <2>6. ASSUME \A k \in 1 .. n : t[m - n + k] = v[k], NEW i \in 1 .. n
        PROVE  a[i] = b[i]
    <3>1. n - i + 1 \in 1 .. n /\ m - n + (n - i + 1) = m - i + 1
      BY <1>1
    <3>2. t[m - n + (n - i + 1)] = v[n - i + 1]
      BY <2>6, <3>1
    <3> QED
      BY <2>2, <2>4, <3>1, <3>2
  <2>7. a = b <=> \A k \in 1 .. n : t[m - n + k] = v[k]
    BY <2>3, <2>5, <2>6
  <2>8. IsSuffix(v, t) <=> a = b
    BY <1>5, <1>6, <1>7, <2>1
  <2> QED
    BY <1>1, <1>7, <2>7, <2>8 DEF EndsWith
<1>8. CASE ~(n <= m)
  <2>1. ~IsSuffix(v, t)
    BY <1>5, <1>6, <1>8
  <2> QED
    BY <1>1, <1>8, <2>1 DEF EndsWith
<1> QED
  BY <1>7, <1>8

(* One turn of strings.ReplaceAll. *)
Replaced(done, char, value) ==
  LET next == Append(done, char) IN
  IF IsSuffix(value, next) THEN Append(SubSeq(next, 1, Len(next) - Len(value)), Redacted) ELSE next

(* The next form is as long as the last and the character behind it; what    *)
(* ends with the value ends with the marker instead.                        *)
IsTurn(done, char, v, next, new) ==
  /\ Len(next) = Len(done) + 1 /\ next[Len(done) + 1] = char
  /\ \A i \in 1 .. Len(done) : next[i] = done[i]
  /\ ~EndsWith(next, v) => new = next
  /\ EndsWith(next, v) =>
       /\ Len(v) <= Len(done) + 1
       /\ Len(new) = Len(done) + 2 - Len(v)
       /\ new[Len(done) + 2 - Len(v)] = Redacted
       /\ \A i \in 1 .. Len(done) + 1 - Len(v) : new[i] = done[i]

LEMMA ReplacedParts ==
  ASSUME NEW done \in Texts, NEW char \in Nat, NEW v \in Texts, Len(v) > 0
  PROVE  /\ Append(done, char) \in Texts /\ Replaced(done, char, v) \in Texts
         /\ IsTurn(done, char, v, Append(done, char), Replaced(done, char, v))
<1> DEFINE next == Append(done, char)
<1>1. PICK n, k : n = Len(done) /\ k = Len(v) /\ n \in Nat /\ k \in Nat /\ k > 0
  BY TextParts, Zenon
<1>2. next \in Texts /\ Len(next) = n + 1 /\ next[n + 1] = char /\ \A i \in 1 .. n : next[i] = done[i]
  BY <1>1 DEF Texts
<1>3. Replaced(done, char, v) = IF IsSuffix(v, next) THEN Append(SubSeq(next, 1, Len(next) - Len(v)), Redacted) ELSE next
  BY Zenon DEF Replaced
<1>4. IsSuffix(v, next) <=> EndsWith(next, v)
  BY <1>2, SuffixMeans, Zenon
<1>5. ASSUME EndsWith(next, v)
      PROVE  /\ Replaced(done, char, v) \in Texts
             /\ k <= n + 1
             /\ Len(Replaced(done, char, v)) = n + 2 - k
             /\ Replaced(done, char, v)[n + 2 - k] = Redacted
             /\ \A i \in 1 .. n + 1 - k : Replaced(done, char, v)[i] = done[i]
  <2>1. k <= n + 1
    BY <1>1, <1>2, <1>5 DEF EndsWith
  <2>2. PICK s : s = SubSeq(next, 1, n + 1 - k)
    OBVIOUS
  <2>3. n + 1 - k \in 0 .. n
    BY <1>1, <2>1
  <2>4. s \in Seq(Nat) /\ Len(s) = n + 1 - k /\ \A i \in 1 .. n + 1 - k : s[i] = next[i]
    <3>1. PICK d \in Nat : d = n + 1 - k /\ d <= Len(next)
      <4>1. n + 1 - k \in Nat /\ n + 1 - k <= n + 1
        BY <1>1, <2>3
      <4>2. n + 1 - k <= Len(next)
        BY <1>2, <4>1
      <4> QED
        BY <4>1, <4>2, Zenon
    <3>2. next \in Seq(Nat)
      BY <1>2, Zenon DEF Texts
    <3>3. /\ SubSeq(next, 1, d) \in Seq(Nat) /\ Len(SubSeq(next, 1, d)) = d
          /\ \A i \in 1 .. d : SubSeq(next, 1, d)[i] = next[i]
      BY <3>1, <3>2, BeginningParts, Zenon
    <3> QED
      BY <2>2, <3>1, <3>3, Zenon
  <2>5. ASSUME NEW i \in 1 .. n + 1 - k
        PROVE  s[i] = done[i]
    <3>1. i \in 1 .. n
      BY <1>1, <2>1
    <3>2. next[i] = done[i]
      BY <1>2, <3>1, Zenon
    <3> QED
      BY <2>4, <3>2, Zenon
  <2>6. PICK r : r = Append(s, Redacted)
    OBVIOUS
  <2>7. Redacted \in Nat
    BY DEF Redacted
  <2>8. /\ r \in Seq(Nat) /\ Len(r) = (n + 1 - k) + 1 /\ r[(n + 1 - k) + 1] = Redacted
        /\ \A i \in 1 .. n + 1 - k : r[i] = s[i]
    BY <2>4, <2>6, <2>7
  <2>9. Replaced(done, char, v) = r
    BY <1>1, <1>2, <1>3, <1>4, <1>5, <2>2, <2>6
  <2>10. (n + 1 - k) + 1 = n + 2 - k
    BY <1>1
  <2> QED
    BY <2>1, <2>5, <2>8, <2>9, <2>10 DEF Texts
<1>6. ASSUME ~EndsWith(next, v)
      PROVE  Replaced(done, char, v) = next
  BY <1>3, <1>4, <1>6, Zenon
<1>7. Replaced(done, char, v) \in Texts
  BY <1>2, <1>5, <1>6
<1> HIDE DEF next
<1>8. IsTurn(done, char, v, next, Replaced(done, char, v))
  BY <1>1, <1>2, <1>5, <1>6 DEF IsTurn
<1> QED
  BY <1>2, <1>7, <1>8 DEF next

LEMMA ReplacedTyped ==
  ASSUME NEW done \in Texts, NEW char \in Nat, NEW v \in Texts, Len(v) > 0
  PROVE  Replaced(done, char, v) \in Texts
BY ReplacedParts, Zenon

Turns(acc, text, v) ==
  /\ acc[0] = <<>>
  /\ \A n \in 1 .. Len(text) : acc[n] = Replaced(acc[n - 1], text[n], v)
  /\ \A n \in 0 .. Len(text) : acc[n] \in Texts

LEMMA ReplaceStepwise ==
  ASSUME NEW text \in Texts, NEW v \in Texts, Len(v) > 0
  PROVE  \E acc : Turns(acc, text, v) /\ Replace(text, v) = acc[Len(text)]
<1>1. PICK N : N = Len(text) /\ N \in Nat /\ DOMAIN text = 1 .. N /\ \A n \in 1 .. N : text[n] \in Nat
  BY TextParts, Zenon
<1> DEFINE step == [n \in 1 .. N |-> [s \in Texts |-> Replaced(s, text[n], v)]]
           base == <<>>
<1>2. base \in Texts
  BY DEF Texts
<1>3. step \in [1 .. N -> [Texts -> Texts]]
  <2>1. \A n \in 1 .. N : \A s \in Texts : Replaced(s, text[n], v) \in Texts
    BY <1>1, ReplacedTyped, Zenon
  <2> QED
    BY <2>1
<1>4. PICK e : IsFold(e, N, base, step) /\ \A S \in SUBSET (1 .. N) : e[S] \in Texts
  <2> HIDE DEF step, base
  <2> QED
    BY <1>1, <1>2, <1>3, FoldExists, Zenon
<1>5. ASSUME NEW S \in SUBSET (1 .. N), S # {}
      PROVE  step[Max(S)][e[S \ {Max(S)}]] = Replaced(e[S \ {Max(S)}], text[Max(S)], v)
  <2>1. PICK m, R : m = Max(S) /\ R = S \ {m}
    OBVIOUS
  <2>2. m \in 1 .. N /\ e[R] \in Texts
    BY <1>1, <1>4, <1>5, <2>1, MaxOfPart
  <2> QED
    BY <2>1, <2>2
<1>6. e = [S \in SUBSET (1 .. N) |-> IF S = {} THEN base ELSE Replaced(e[S \ {Max(S)}], text[Max(S)], v)]
  <2> HIDE DEF step, base
  <2> QED
    BY <1>4, <1>5 DEF IsFold
<1>7. PICK it : /\ it = [S \in SUBSET (1 .. N) |->
                           IF S = {} THEN base ELSE Replaced(it[S \ {Max(S)}], text[Max(S)], v)]
                /\ Replace(text, v) = it[1 .. N]
  <2> HIDE DEF step
  <2> QED
    BY <1>1, <1>6, Zenon DEF Replace, Replaced, FoldLeft, MapThenFoldSet
<1>8. PICK acc : /\ acc[0] = it[{}] /\ acc[N] = it[1 .. N]
                 /\ \A n \in 1 .. N : acc[n] = it[1 .. n] /\ acc[n - 1] = it[(1 .. n) \ {n}]
  <2>1. N \in Nat
    BY <1>1
  <2> HIDE DEF step, base
  <2>2. PICK other : IsUnfolding(other, it, N)
    BY <2>1, FoldPrefixes, Zenon
  <2> QED
    BY <2>2, Zenon DEF IsUnfolding
<1> HIDE DEF step
<1>9. acc[0] = <<>>
  BY <1>7, <1>8
<1>10. ASSUME NEW n \in 1 .. N
       PROVE  acc[n] = Replaced(acc[n - 1], text[n], v)
  <2>1. Max(1 .. n) = n /\ 1 .. n # {}
    BY <1>1, MaxOfTop
  <2>2. 1 .. n \in SUBSET (1 .. N)
    BY <1>1
  <2>3. it[1 .. n] = Replaced(it[(1 .. n) \ {n}], text[n], v)
    BY <1>7, <2>1, <2>2
  <2> QED
    BY <1>8, <2>3
<1> DEFINE X == {n \in 0 .. N : acc[n] \in Texts}
<1>11. ASSUME NEW k \in 0 .. N
       PROVE  k \in X
  <2>1. 0 \in X
    BY <1>1, <1>2, <1>9
  <2>2. ASSUME NEW n \in 0 .. k - 1, n \in X
        PROVE  n + 1 \in X
    <3>1. n + 1 \in 1 .. N /\ (n + 1) - 1 = n /\ n + 1 \in 0 .. N
      BY <1>1
    <3>2. acc[n + 1] = Replaced(acc[n], text[n + 1], v) /\ text[n + 1] \in Nat
      BY <1>1, <1>10, <3>1
    <3>3. acc[n] \in Texts
      BY <2>2
    <3>4. acc[n + 1] \in Texts
      BY <3>2, <3>3, ReplacedTyped, Zenon
    <3> QED
      BY <3>1, <3>4
  <2>3. k \in Nat
    BY <1>1
  <2> HIDE DEF X
  <2> QED
    BY <2>1, <2>2, <2>3, ByInduction, Zenon
<1>12. \A n \in 0 .. N : acc[n] \in Texts
  BY <1>11
<1> QED
  BY <1>1, <1>7, <1>8, <1>9, <1>10, <1>12 DEF Turns

IsSecret(v) == v \in Texts /\ Len(v) > 0 /\ \A k \in 1 .. Len(v) : v[k] # Redacted
Plain(s, i, j) == \A k \in i .. j : s[k] # Redacted

(* What is left of the first n characters of a text: behind the last and     *)
(* before the first replacement it is as it was.                            *)
KeptBehind(a, l, text, n) ==
  \A m \in 0 .. l :
    Plain(a, m + 1, l) => l - m <= n /\ \A k \in 1 .. l - m : a[m + k] = text[n - (l - m) + k]
TailKept(a, text, n) == KeptBehind(a, Len(a), text, n)
HeadKept(a, text, n) ==
  \A m \in 0 .. Len(a) : Plain(a, 1, m) => m <= n /\ \A k \in 1 .. m : a[k] = text[k]
WholeKept(a, n) == Plain(a, 1, Len(a)) => Len(a) = n
IsTrace(a, text, n) == TailKept(a, text, n) /\ HeadKept(a, text, n) /\ WholeKept(a, n)

LEMMA TraceGoesOn ==
  ASSUME NEW text \in Texts, NEW v \in Texts, Len(v) > 0, NEW n \in 0 .. Len(text) - 1,
         NEW a \in Texts, IsTrace(a, text, n)
  PROVE  IsTrace(Replaced(a, text[n + 1], v), text, n + 1)
<1>1. /\ Len(text) \in Nat /\ n \in Nat /\ n + 1 \in 1 .. Len(text) /\ text[n + 1] \in Nat
      /\ Len(v) \in Nat
  BY TextParts
<1>2. PICK L, r : L = Len(a) /\ r = Replaced(a, text[n + 1], v) /\ L \in Nat
  BY TextParts, Zenon
<1>3. PICK next \in Texts :
        /\ Len(next) = L + 1 /\ next[L + 1] = text[n + 1]
        /\ \A i \in 1 .. L : next[i] = a[i]
        /\ ~EndsWith(next, v) => r = next
        /\ EndsWith(next, v) =>
             /\ Len(v) <= L + 1
             /\ Len(r) = L + 2 - Len(v)
             /\ r[L + 2 - Len(v)] = Redacted
             /\ \A i \in 1 .. L + 1 - Len(v) : r[i] = a[i]
  <2>1. /\ Append(a, text[n + 1]) \in Texts
        /\ IsTurn(a, text[n + 1], v, Append(a, text[n + 1]), Replaced(a, text[n + 1], v))
    BY <1>1, ReplacedParts, Zenon
  <2>2. PICK x \in Texts : IsTurn(a, text[n + 1], v, x, Replaced(a, text[n + 1], v))
    BY <2>1, Zenon
  <2> QED
    BY <1>2, <2>2 DEF IsTurn
<1>4. CASE EndsWith(next, v)
  <2>1. PICK l \in 1 .. L + 1 : /\ Len(r) = l /\ r[l] = Redacted /\ \A i \in 1 .. l - 1 : r[i] = a[i]
    <3>1. L + 2 - Len(v) \in 1 .. L + 1 /\ (L + 2 - Len(v)) - 1 = L + 1 - Len(v)
      BY <1>1, <1>2, <1>3, <1>4
    <3> QED
      BY <1>3, <1>4, <3>1
  <2>2. TailKept(r, text, n + 1)
    <3>1. ASSUME NEW m \in 0 .. l, Plain(r, m + 1, l)
          PROVE  m = l
      <4>1. m # l => l \in m + 1 .. l
        BY <1>2, <2>1
      <4> QED
        BY <2>1, <3>1, <4>1 DEF Plain
    <3>2. ASSUME NEW m \in 0 .. Len(r), Plain(r, m + 1, Len(r))
          PROVE  Len(r) - m <= n + 1 /\ 1 .. Len(r) - m = {}
      <4>1. m = l /\ Len(r) = l /\ l \in Nat
        BY <2>1, <3>1, <3>2
      <4> QED
        BY <1>1, <4>1
    <3> QED
      BY <3>2 DEF TailKept, KeptBehind
  <2>3. HeadKept(r, text, n + 1)
    <3>1. ASSUME NEW m \in 0 .. l, Plain(r, 1, m)
          PROVE  m <= n + 1 /\ \A k \in 1 .. m : r[k] = text[k]
      <4>1. m # l
        <5>1. m = l => l \in 1 .. m
          BY <2>1
        <5> QED
          BY <2>1, <3>1, <5>1 DEF Plain
      <4>2. m \in 0 .. L /\ \A k \in 1 .. m : r[k] = a[k]
        BY <1>2, <2>1, <4>1
      <4>3. Plain(a, 1, m)
        BY <3>1, <4>2 DEF Plain
      <4>4. m <= n /\ \A k \in 1 .. m : a[k] = text[k]
        BY <1>2, <4>2, <4>3, Zenon DEF IsTrace, HeadKept
      <4> QED
        BY <1>1, <4>2, <4>4
    <3> QED
      BY <2>1, <3>1 DEF HeadKept
  <2>4. WholeKept(r, n + 1)
    <3>1. l \in 1 .. l
      BY <2>1
    <3> QED
      BY <2>1, <3>1 DEF WholeKept, Plain
  <2> QED
    BY <1>2, <2>2, <2>3, <2>4, Zenon DEF IsTrace
<1>5. CASE ~EndsWith(next, v)
  <2>1. r = next /\ Len(r) = L + 1
    BY <1>3, <1>5
  <2>2. ASSUME NEW m \in 0 .. L, Plain(next, m + 1, L + 1)
        PROVE  (L + 1) - m <= n + 1 /\ \A k \in 1 .. (L + 1) - m : next[m + k] = text[(n + 1) - ((L + 1) - m) + k]
    <3>1. Plain(a, m + 1, L)
      BY <1>2, <1>3, <2>2 DEF Plain
    <3>2. L - m <= n /\ \A k \in 1 .. L - m : a[m + k] = text[n - (L - m) + k]
      BY <1>2, <3>1, Zenon DEF IsTrace, TailKept, KeptBehind
    <3>3. ASSUME NEW k \in 1 .. (L + 1) - m
          PROVE  next[m + k] = text[(n + 1) - ((L + 1) - m) + k]
      <4>1. CASE k = (L + 1) - m
        <5>1. m + k = L + 1 /\ (n + 1) - ((L + 1) - m) + k = n + 1
          BY <1>1, <1>2, <4>1
        <5> QED
          BY <1>3, <5>1
      <4>2. CASE k # (L + 1) - m
        <5>1. k \in 1 .. L - m /\ m + k \in 1 .. L /\ (n + 1) - ((L + 1) - m) + k = n - (L - m) + k
          BY <1>1, <1>2, <4>2
        <5> QED
          BY <1>3, <3>2, <5>1
      <4> QED
        BY <4>1, <4>2
    <3>4. (L + 1) - m <= n + 1
      BY <1>1, <1>2, <3>2
    <3> QED
      BY <3>3, <3>4
  <2>3. TailKept(r, text, n + 1)
    <3>1. ASSUME NEW m \in 0 .. L + 1, Plain(r, m + 1, L + 1)
          PROVE  (L + 1) - m <= n + 1 /\ \A k \in 1 .. (L + 1) - m : r[m + k] = text[(n + 1) - ((L + 1) - m) + k]
      <4>1. CASE m \in 0 .. L
        BY <2>1, <2>2, <3>1, <4>1
      <4>2. CASE m = L + 1
        <5>1. (L + 1) - m = 0 /\ 1 .. (L + 1) - m = {}
          BY <1>2, <4>2
        <5> QED
          BY <1>1, <5>1
      <4>3. m \in 0 .. L \/ m = L + 1
        BY <1>2
      <4> QED
        BY <4>1, <4>2, <4>3, Zenon
    <3>2. KeptBehind(r, L + 1, text, n + 1)
      BY <3>1, Zenon DEF KeptBehind
    <3> QED
      BY <2>1, <3>2 DEF TailKept
  <2>4. Plain(next, 1, L + 1) => L = n /\ \A k \in 1 .. L + 1 : next[k] = text[k]
    <3> SUFFICES ASSUME Plain(next, 1, L + 1) PROVE L = n /\ \A k \in 1 .. L + 1 : next[k] = text[k]
      OBVIOUS
    <3>1. Plain(a, 1, L)
      BY <1>2, <1>3 DEF Plain
    <3>2. L = n
      BY <1>2, <3>1, Zenon DEF IsTrace, WholeKept
    <3>3. L \in 0 .. L
      BY <1>2
    <3>4. \A k \in 1 .. L : a[k] = text[k]
      BY <1>2, <3>1, <3>3, Zenon DEF IsTrace, HeadKept
    <3> QED
      BY <1>2, <1>3, <3>2, <3>4
  <2>5. HeadKept(r, text, n + 1)
    <3>1. ASSUME NEW m \in 0 .. L + 1, Plain(r, 1, m)
          PROVE  m <= n + 1 /\ \A k \in 1 .. m : r[k] = text[k]
      <4>1. CASE m = L + 1
        BY <1>1, <1>2, <2>1, <2>4, <3>1, <4>1
      <4>2. CASE m # L + 1
        <5>1. m \in 0 .. L /\ \A k \in 1 .. m : r[k] = a[k]
          BY <1>2, <1>3, <2>1, <4>2
        <5>2. Plain(a, 1, m)
          BY <3>1, <5>1 DEF Plain
        <5>3. m <= n /\ \A k \in 1 .. m : a[k] = text[k]
          BY <1>2, <5>1, <5>2, Zenon DEF IsTrace, HeadKept
        <5> QED
          BY <1>1, <5>1, <5>3
      <4> QED
        BY <4>1, <4>2
    <3> QED
      BY <2>1, <3>1 DEF HeadKept
  <2>6. WholeKept(r, n + 1)
    BY <1>1, <1>2, <2>1, <2>4 DEF WholeKept
  <2> QED
    BY <1>2, <2>3, <2>5, <2>6, Zenon DEF IsTrace
<1> QED
  BY <1>4, <1>5

LEMMA TraceOfTurns ==
  ASSUME NEW text \in Texts, NEW v \in Texts, Len(v) > 0, NEW acc, Turns(acc, text, v), NEW n \in 0 .. Len(text)
  PROVE  IsTrace(acc[n], text, n)
<1>1. PICK N : N = Len(text) /\ N \in Nat
  BY TextParts, Zenon
<1> DEFINE X == {m \in 0 .. N : IsTrace(acc[m], text, m)}
<1>2. 0 \in X
  <2>1. IsTrace(<<>>, text, 0)
    <3>1. Len(<<>>) = 0 /\ 0 .. 0 = {0} /\ 1 .. 0 = {}
      OBVIOUS
    <3>2. TailKept(<<>>, text, 0)
      <4>1. \A m \in {0} : 0 - m <= 0 /\ \A k \in 1 .. 0 - m : FALSE
        OBVIOUS
      <4> QED
        BY <3>1, <4>1, Zenon DEF TailKept, KeptBehind
    <3>3. HeadKept(<<>>, text, 0)
      BY <3>1 DEF HeadKept
    <3> QED
      BY <3>1, <3>2, <3>3, Zenon DEF IsTrace, WholeKept
  <2> QED
    BY <1>1, <2>1 DEF Turns
<1>3. ASSUME NEW m \in 0 .. n - 1, m \in X
      PROVE  m + 1 \in X
  <2>1. m + 1 \in 1 .. N /\ (m + 1) - 1 = m /\ m \in 0 .. N /\ m \in 0 .. N - 1 /\ m + 1 \in 0 .. N
    BY <1>1
  <2>2. acc[m + 1] = Replaced(acc[m], text[m + 1], v) /\ acc[m] \in Texts
    BY <1>1, <2>1 DEF Turns
  <2>3. IsTrace(acc[m], text, m)
    BY <1>3
  <2>4. IsTrace(acc[m + 1], text, m + 1)
    BY <1>1, <2>1, <2>2, <2>3, TraceGoesOn, Zenon
  <2> QED
    BY <2>1, <2>4
<1>4. n \in Nat
  BY <1>1
<1>5. n \in X
  <2> HIDE DEF X
  <2> QED
    BY <1>2, <1>3, <1>4, ByInduction, Zenon
<1> QED
  BY <1>5

(* A value that does not lie across the cut between two texts is replaced in *)
(* both as in the whole.                                                    *)
Occurs(text, v, i) == i + Len(v) <= Len(text) /\ \A k \in 1 .. Len(v) : text[i + k] = v[k]
LiesApart(a, b, v) == \A i \in Nat : Occurs(a \o b, v, i) => Len(a) <= i \/ i + Len(v) <= Len(a)

LEMMA TextConcat ==
  ASSUME NEW a \in Texts, NEW b \in Texts
  PROVE  /\ a \o b \in Texts /\ Len(a \o b) = Len(a) + Len(b)
         /\ \A i \in 1 .. Len(a) : (a \o b)[i] = a[i]
         /\ \A i \in 1 .. Len(b) : (a \o b)[Len(a) + i] = b[i]
BY DEF Texts

LEMMA TextEqual ==
  ASSUME NEW a \in Texts, NEW b \in Texts, Len(a) = Len(b), \A i \in 1 .. Len(a) : a[i] = b[i]
  PROVE  a = b
BY SeqEqual, Zenon DEF Texts

Agree(s, t, n) == \A i \in 1 .. n : s[i] = t[i]
ShiftedBy(s, t, d, n) == \A j \in 1 .. n : s[d + j] = t[j]
EndsAt(t, l, v, n) == n <= l /\ \A k \in 1 .. n : t[(l - n) + k] = v[k]
LiesAcross(text, v, n, A, B) ==
  \E i \in Nat : i < A /\ A < i + n /\ i + n <= A + B /\ \A k \in 1 .. n : text[i + k] = v[k]

(* Of characters that were read, X before and Y behind a cut: a value that   *)
(* ends them and reaches across lies across the cut in the text, too.       *)
LEMMA ReachesAcross ==
  ASSUME NEW X \in Nat, NEW Y \in Nat, NEW n \in Nat, NEW A \in Nat, NEW B \in Nat, NEW m \in Nat, m < B,
         NEW xy, NEW text, NEW v, NEW next, NEW nexty,
         Plain(v, 1, n), ShiftedBy(next, nexty, X, Y + 1), Agree(next, xy, X + Y),
         next[X + Y + 1] = text[A + (m + 1)],
         Plain(nexty, 1, Y) => Y = m,
         KeptBehind(xy, X + Y, text, A + m),
         n > Y + 1, EndsAt(next, X + Y + 1, v, n)
  PROVE  LiesAcross(text, v, n, A, B)
<1>0. /\ \A k \in 1 .. n : v[k] # Redacted
      /\ \A j \in 1 .. Y + 1 : next[X + j] = nexty[j]
      /\ \A i \in 1 .. X + Y : next[i] = xy[i]
      /\ n <= X + Y + 1
      /\ \A k \in 1 .. n : next[((X + Y + 1) - n) + k] = v[k]
  BY Zenon DEF Plain, ShiftedBy, Agree, EndsAt
<1>1. ASSUME NEW j \in 1 .. Y
      PROVE  nexty[j] # Redacted
  <2>1. PICK k \in 1 .. n : k = n - ((Y + 1) - j)
    OBVIOUS
  <2>2. ((X + Y + 1) - n) + k = X + j
    BY <2>1
  <2>3. next[X + j] = v[k]
    BY <1>0, <2>2
  <2>4. j \in 1 .. Y + 1
    OBVIOUS
  <2> QED
    BY <1>0, <2>3, <2>4
<1>2. Y = m
  BY <1>1, Zenon DEF Plain
<1>3. PICK l \in 0 .. X + Y : l = n - 1
  BY <1>0
<1>4. ASSUME NEW k \in 1 .. l
      PROVE  xy[((X + Y) - l) + k] = v[k] /\ v[k] # Redacted
  <2>1. k \in 1 .. n /\ ((X + Y + 1) - n) + k = ((X + Y) - l) + k /\ ((X + Y) - l) + k \in 1 .. X + Y
    BY <1>3
  <2> QED
    BY <1>0, <2>1
<1>5. PICK p \in 0 .. X + Y : p = (X + Y) - l
  OBVIOUS
<1>6. Plain(xy, p + 1, X + Y)
  <2>1. ASSUME NEW i \in p + 1 .. X + Y
        PROVE  xy[i] # Redacted
    <3>1. PICK k \in 1 .. l : k = i - p
      BY <1>3, <1>5
    <3>2. ((X + Y) - l) + k = i
      BY <1>5, <3>1
    <3> QED
      BY <1>4, <3>2
  <2> QED
    BY <2>1, Zenon DEF Plain
<1>7. /\ (X + Y) - p <= A + m
      /\ \A k \in 1 .. (X + Y) - p : xy[p + k] = text[(A + m) - ((X + Y) - p) + k]
  BY <1>6, Zenon DEF KeptBehind
<1>8. l <= A + m /\ \A k \in 1 .. l : text[((A + m) - l) + k] = v[k]
  <2>1. (X + Y) - p = l
    BY <1>5
  <2>2. ASSUME NEW k \in 1 .. l
        PROVE  text[((A + m) - l) + k] = v[k]
    <3>1. xy[p + k] = text[((A + m) - l) + k]
      BY <1>7, <2>1
    <3>2. p + k = ((X + Y) - l) + k
      BY <1>5
    <3> QED
      BY <1>4, <3>1, <3>2
  <2> QED
    BY <1>7, <2>1, <2>2
<1>9. PICK i \in Nat : i = (A + m) - l
  BY <1>8
<1>10. i + n = A + (m + 1) /\ i < A /\ A < i + n /\ i + n <= A + B
  BY <1>2, <1>3, <1>9
<1>11. ASSUME NEW k \in 1 .. n
       PROVE  text[i + k] = v[k]
  <2>1. CASE k = n
    <3>1. ((X + Y + 1) - n) + n = X + Y + 1
      OBVIOUS
    <3>2. next[X + Y + 1] = v[k]
      BY <1>0, <2>1, <3>1
    <3> QED
      BY <1>10, <2>1, <3>2
  <2>2. CASE k # n
    <3>1. k \in 1 .. l
      BY <1>3, <2>2
    <3> QED
      BY <1>8, <1>9, <3>1
  <2> QED
    BY <2>1, <2>2
<1> QED
  BY <1>10, <1>11, Zenon DEF LiesAcross

LEMMA EndsAlike ==
  ASSUME NEW X \in Nat, NEW Y \in Nat, NEW n \in Nat, n <= Y + 1, NEW next, NEW nexty, NEW v,
         ShiftedBy(next, nexty, X, Y + 1)
  PROVE  EndsAt(next, X + Y + 1, v, n) <=> EndsAt(nexty, Y + 1, v, n)
<1>1. ASSUME NEW k \in 1 .. n
      PROVE  next[((X + Y + 1) - n) + k] = nexty[((Y + 1) - n) + k]
  <2>1. PICK j \in 1 .. Y + 1 : j = ((Y + 1) - n) + k
    OBVIOUS
  <2>2. ((X + Y + 1) - n) + k = X + j
    BY <2>1
  <2> QED
    BY <2>1, <2>2 DEF ShiftedBy
<1>2. n <= X + Y + 1
  OBVIOUS
<1> QED
  BY <1>1, <1>2 DEF EndsAt

LEMMA EndsTogether ==
  ASSUME NEW v, IsSecret(v), NEW a \in Texts, NEW b \in Texts, LiesApart(a, b, v),
         NEW m \in Nat, m < Len(b), NEW x \in Texts, NEW y \in Texts,
         IsTrace(y, b, m), IsTrace(x \o y, a \o b, Len(a) + m)
  PROVE  EndsWith(Append(x \o y, b[m + 1]), v) <=> EndsWith(Append(y, b[m + 1]), v)
<1>0. PICK next, nexty : next = Append(x \o y, b[m + 1]) /\ nexty = Append(y, b[m + 1])
  OBVIOUS
<1>1. PICK X \in Nat, Y \in Nat, n \in Nat, A \in Nat, B \in Nat :
        X = Len(x) /\ Y = Len(y) /\ n = Len(v) /\ A = Len(a) /\ B = Len(b)
  BY TextParts, Zenon DEF IsSecret
<1>2. PICK xy \in Texts, text \in Texts : xy = x \o y /\ text = a \o b
  BY TextConcat
<1>3. /\ Len(xy) = X + Y /\ Len(text) = A + B
      /\ \A i \in 1 .. X : xy[i] = x[i]
      /\ \A i \in 1 .. Y : xy[X + i] = y[i]
      /\ \A i \in 1 .. B : text[A + i] = b[i]
  <2>1. /\ Len(x \o y) = Len(x) + Len(y)
        /\ \A i \in 1 .. Len(x) : (x \o y)[i] = x[i]
        /\ \A i \in 1 .. Len(y) : (x \o y)[Len(x) + i] = y[i]
    BY TextConcat, Zenon
  <2>2. Len(a \o b) = Len(a) + Len(b) /\ \A i \in 1 .. Len(b) : (a \o b)[Len(a) + i] = b[i]
    BY TextConcat, Zenon
  <2> QED
    BY <1>1, <1>2, <2>1, <2>2, Zenon
<1>4. /\ Len(next) = X + Y + 1 /\ next[X + Y + 1] = b[m + 1] /\ \A i \in 1 .. X + Y : next[i] = xy[i]
      /\ Len(nexty) = Y + 1 /\ nexty[Y + 1] = b[m + 1] /\ \A i \in 1 .. Y : nexty[i] = y[i]
  <2>1. b[m + 1] \in Nat
    BY <1>1 DEF Texts
  <2> QED
    BY <1>0, <1>1, <1>2, <1>3, <2>1 DEF Texts
<1>5. m < B /\ next[X + Y + 1] = text[A + (m + 1)]
  BY <1>1, <1>3, <1>4
<1>6. ASSUME NEW j \in 1 .. Y + 1
      PROVE  next[X + j] = nexty[j]
  <2>1. CASE j = Y + 1
    <3>1. X + j = X + Y + 1
      BY <2>1
    <3> QED
      BY <1>4, <2>1, <3>1
  <2>2. CASE j # Y + 1
    <3>1. j \in 1 .. Y /\ X + j \in 1 .. X + Y
      BY <2>2
    <3>2. next[X + j] = xy[X + j] /\ xy[X + j] = y[j] /\ nexty[j] = y[j]
      BY <1>3, <1>4, <3>1, Zenon
    <3> QED
      BY <3>2
  <2> QED
    BY <2>1, <2>2
<1>7. Plain(v, 1, n) /\ ShiftedBy(next, nexty, X, Y + 1) /\ Agree(next, xy, X + Y)
  BY <1>1, <1>4, <1>6 DEF IsSecret, Plain, ShiftedBy, Agree
<1>8. Plain(nexty, 1, Y) => Y = m
  BY <1>1, <1>4 DEF IsTrace, WholeKept, Plain
<1>9. KeptBehind(xy, X + Y, text, A + m)
  BY <1>1, <1>2, <1>3, Zenon DEF IsTrace, TailKept
<1>10. /\ EndsWith(next, v) <=> EndsAt(next, X + Y + 1, v, n)
       /\ EndsWith(nexty, v) <=> EndsAt(nexty, Y + 1, v, n)
  BY <1>1, <1>4, Zenon DEF EndsWith, EndsAt
<1>11. ASSUME EndsAt(next, X + Y + 1, v, n), n > Y + 1
       PROVE  FALSE
  <2>1. LiesAcross(text, v, n, A, B)
    BY <1>5, <1>7, <1>8, <1>9, <1>11, ReachesAcross, Zenon
  <2>2. PICK i \in Nat : i < A /\ A < i + n /\ i + n <= A + B /\ \A k \in 1 .. n : text[i + k] = v[k]
    BY <2>1, Zenon DEF LiesAcross
  <2>3. Occurs(text, v, i)
    BY <1>1, <1>3, <2>2 DEF Occurs
  <2>4. A <= i \/ i + n <= A
    BY <1>1, <1>2, <2>3 DEF LiesApart
  <2> QED
    BY <2>2, <2>4
<1>12. ASSUME n <= Y + 1
       PROVE  EndsWith(next, v) <=> EndsWith(nexty, v)
  BY <1>7, <1>10, <1>12, EndsAlike, Zenon
<1>13. ASSUME n > Y + 1
       PROVE  EndsWith(next, v) <=> EndsWith(nexty, v)
  <2>1. ~EndsAt(nexty, Y + 1, v, n)
    BY <1>13 DEF EndsAt
  <2> QED
    BY <1>10, <1>11, <1>13, <2>1, Zenon
<1>14. n <= Y + 1 \/ n > Y + 1
  OBVIOUS
<1> QED
  BY <1>0, <1>12, <1>13, <1>14, Zenon

IsConcat(s, x, y) == s = x \o y
EndAlike(s, y, c, v) == EndsWith(Append(s, c), v) <=> EndsWith(Append(y, c), v)

LEMMA ReplacedBehind ==
  ASSUME NEW x \in Texts, NEW y \in Texts, NEW c \in Nat, NEW v \in Texts, Len(v) > 0,
         NEW whole, IsConcat(whole, x, y), EndAlike(whole, y, c, v)
  PROVE  IsConcat(Replaced(whole, c, v), x, Replaced(y, c, v))
<1>0. whole = x \o y /\ (EndsWith(Append(x \o y, c), v) <=> EndsWith(Append(y, c), v))
  BY DEF IsConcat, EndAlike
<1>1. PICK X \in Nat, Y \in Nat, k \in Nat : X = Len(x) /\ Y = Len(y) /\ k = Len(v) /\ k > 0
  BY TextParts, Zenon
<1>2. PICK xy \in Texts, r \in Texts, s \in Texts :
        xy = x \o y /\ r = Replaced(x \o y, c, v) /\ s = Replaced(y, c, v)
  <2>1. x \o y \in Texts
    BY TextConcat, Zenon
  <2>2. Replaced(x \o y, c, v) \in Texts /\ Replaced(y, c, v) \in Texts
    BY <2>1, ReplacedTyped, Zenon
  <2> QED
    BY <2>1, <2>2, Zenon
<1>3. Len(xy) = X + Y /\ (\A i \in 1 .. X : xy[i] = x[i]) /\ \A i \in 1 .. Y : xy[X + i] = y[i]
  <2>1. /\ Len(x \o y) = Len(x) + Len(y)
        /\ \A i \in 1 .. Len(x) : (x \o y)[i] = x[i]
        /\ \A i \in 1 .. Len(y) : (x \o y)[Len(x) + i] = y[i]
    BY TextConcat, Zenon
  <2> QED
    BY <1>1, <1>2, <2>1, Zenon
<1>4. PICK next \in Texts :
        /\ Append(xy, c) = next /\ r \in Texts
        /\ Len(next) = X + Y + 1 /\ next[X + Y + 1] = c
        /\ \A i \in 1 .. X + Y : next[i] = xy[i]
        /\ ~EndsWith(next, v) => r = next
        /\ EndsWith(next, v) =>
             /\ k <= X + Y + 1
             /\ Len(r) = X + Y + 2 - k
             /\ r[X + Y + 2 - k] = Redacted
             /\ \A i \in 1 .. X + Y + 1 - k : r[i] = xy[i]
  <2>1. Append(xy, c) \in Texts /\ r \in Texts /\ IsTurn(xy, c, v, Append(xy, c), r)
    BY <1>2, ReplacedParts, Zenon
  <2>2. PICK next \in Texts : Append(xy, c) = next /\ IsTurn(xy, c, v, next, r)
    BY <2>1, Zenon
  <2> QED
    BY <1>1, <1>3, <2>1, <2>2 DEF IsTurn
<1>5. PICK nexty \in Texts :
        /\ Append(y, c) = nexty /\ s \in Texts
        /\ Len(nexty) = Y + 1 /\ nexty[Y + 1] = c
        /\ \A i \in 1 .. Y : nexty[i] = y[i]
        /\ ~EndsWith(nexty, v) => s = nexty
        /\ EndsWith(nexty, v) =>
             /\ k <= Y + 1
             /\ Len(s) = Y + 2 - k
             /\ s[Y + 2 - k] = Redacted
             /\ \A i \in 1 .. Y + 1 - k : s[i] = y[i]
  <2>1. Append(y, c) \in Texts /\ s \in Texts /\ IsTurn(y, c, v, Append(y, c), s)
    BY <1>2, ReplacedParts, Zenon
  <2>2. PICK nexty \in Texts : Append(y, c) = nexty /\ IsTurn(y, c, v, nexty, s)
    BY <2>1, Zenon
  <2> QED
    BY <1>1, <2>1, <2>2 DEF IsTurn
<1>6. /\ EndsWith(Append(x \o y, c), v) <=> EndsWith(next, v)
      /\ EndsWith(Append(y, c), v) <=> EndsWith(nexty, v)
  BY <1>2, <1>4, <1>5
<1>7. r \in Texts /\ s \in Texts
  BY <1>2, <1>4, <1>5
<1>8. PICK xs \in Texts : xs = x \o s
  BY <1>7, TextConcat
<1>9. Len(xs) = X + Len(s) /\ (\A i \in 1 .. X : xs[i] = x[i]) /\ \A i \in 1 .. Len(s) : xs[X + i] = s[i]
  <2>1. /\ Len(x \o s) = Len(x) + Len(s)
        /\ \A i \in 1 .. Len(x) : (x \o s)[i] = x[i]
        /\ \A i \in 1 .. Len(s) : (x \o s)[Len(x) + i] = s[i]
    BY <1>7, TextConcat, Zenon
  <2> QED
    BY <1>1, <1>8, <2>1, Zenon
<1>10. ASSUME NEW d \in Nat, Len(s) = d + 1, Len(r) = X + d + 1, s[d + 1] = r[X + d + 1],
              d <= Y, \A i \in 1 .. d : s[i] = y[i], \A i \in 1 .. X + d : r[i] = xy[i]
       PROVE  r = xs
  <2>1. ASSUME NEW i \in 1 .. X + d + 1
        PROVE  r[i] = xs[i]
    <3>1. CASE i \in 1 .. X
      <4>1. i \in 1 .. X + d
        BY <3>1
      <4> QED
        BY <1>3, <1>9, <1>10, <3>1, <4>1
    <3>2. CASE i \in X + 1 .. X + d
      <4>1. PICK j \in 1 .. d : i = X + j
        <5>1. i - X \in 1 .. d /\ i = X + (i - X)
          BY <3>2
        <5> QED
          BY <5>1
      <4>2. j \in 1 .. Y /\ j \in 1 .. Len(s) /\ i \in 1 .. X + d
        BY <1>10, <4>1
      <4>3. xs[i] = s[j] /\ xy[i] = y[j] /\ s[j] = y[j] /\ r[i] = xy[i]
        BY <1>3, <1>9, <1>10, <4>1, <4>2
      <4> QED
        BY <4>3
    <3>3. CASE i = X + d + 1
      <4>1. X + d + 1 = X + (d + 1) /\ d + 1 \in 1 .. Len(s)
        BY <1>10
      <4>2. xs[X + (d + 1)] = s[d + 1]
        BY <1>9, <4>1
      <4> QED
        BY <1>10, <3>3, <4>1, <4>2
    <3> QED
      BY <3>1, <3>2, <3>3
  <2>2. Len(xs) = X + d + 1
    BY <1>9, <1>10
  <2> QED
    BY <1>7, <1>10, <2>1, <2>2, TextEqual, Zenon
<1>11. ASSUME EndsWith(next, v), EndsWith(nexty, v)
       PROVE  r = xs
  <2>1. k <= Y + 1 /\ Len(s) = Y + 2 - k /\ s[Y + 2 - k] = Redacted /\ \A i \in 1 .. Y + 1 - k : s[i] = y[i]
    BY <1>5, <1>11, Zenon
  <2>2. /\ Len(r) = X + Y + 2 - k /\ r[X + Y + 2 - k] = Redacted
        /\ \A i \in 1 .. X + Y + 1 - k : r[i] = xy[i]
    BY <1>4, <1>11, Zenon
  <2>3. PICK d \in Nat : d = Y + 1 - k
    BY <2>1
  <2>4. /\ d + 1 = Y + 2 - k /\ X + d + 1 = X + Y + 2 - k /\ X + d = X + Y + 1 - k /\ d <= Y
    BY <1>1, <2>3
  <2> QED
    BY <1>10, <2>1, <2>2, <2>3, <2>4
<1>12. ASSUME ~EndsWith(next, v), ~EndsWith(nexty, v)
       PROVE  r = xs
  <2>1. r = next /\ s = nexty
    BY <1>2, <1>4, <1>5, <1>12
  <2>2. /\ Len(s) = Y + 1 /\ Len(r) = X + Y + 1 /\ s[Y + 1] = r[X + Y + 1]
        /\ \A i \in 1 .. Y : s[i] = y[i]
        /\ \A i \in 1 .. X + Y : r[i] = xy[i]
    BY <1>1, <1>3, <1>4, <1>5, <2>1
  <2>3. Y <= Y
    OBVIOUS
  <2> QED
    BY <1>10, <2>2, <2>3
<1>13. r = xs
  BY <1>0, <1>6, <1>11, <1>12
<1> QED
  BY <1>0, <1>2, <1>8, <1>13 DEF IsConcat

LEMMA ConcatTurn ==
  ASSUME NEW v, IsSecret(v), NEW a \in Texts, NEW b \in Texts, LiesApart(a, b, v),
         NEW m \in Nat, m < Len(b), NEW x \in Texts, NEW y \in Texts,
         NEW s, IsConcat(s, x, y), NEW text, IsConcat(text, a, b),
         IsTrace(y, b, m), IsTrace(s, text, Len(a) + m)
  PROVE  IsConcat(Replaced(s, b[m + 1], v), x, Replaced(y, b[m + 1], v))
<1>1. b[m + 1] \in Nat
  BY DEF Texts
<1>2. s = x \o y /\ text = a \o b
  BY Zenon DEF IsConcat
<1>3. IsTrace(x \o y, a \o b, Len(a) + m)
  BY <1>2
<1>4. EndsWith(Append(x \o y, b[m + 1]), v) <=> EndsWith(Append(y, b[m + 1]), v)
  BY <1>3, EndsTogether, Zenon
<1>5. EndAlike(s, y, b[m + 1], v)
  BY <1>2, <1>4 DEF EndAlike
<1>6. v \in Texts /\ Len(v) > 0
  BY Zenon DEF IsSecret
<1> QED
  BY <1>1, <1>5, <1>6, ReplacedBehind, Zenon

LEMMA ReplaceTyped ==
  ASSUME NEW text \in Texts, NEW v \in Texts, Len(v) > 0
  PROVE  Replace(text, v) \in Texts /\ IsTrace(Replace(text, v), text, Len(text))
<1>1. PICK acc : Turns(acc, text, v) /\ Replace(text, v) = acc[Len(text)]
  BY ReplaceStepwise
<1>2. Len(text) \in 0 .. Len(text)
  BY TextParts
<1>3. IsTrace(acc[Len(text)], text, Len(text)) /\ acc[Len(text)] \in Texts
  BY <1>1, <1>2, TraceOfTurns, Zenon DEF Turns
<1> QED
  BY <1>1, <1>3

LEMMA ReplaceConcat ==
  ASSUME NEW v, IsSecret(v), NEW a \in Texts, NEW b \in Texts, LiesApart(a, b, v)
  PROVE  Replace(a \o b, v) = Replace(a, v) \o Replace(b, v)
<1>1. PICK A \in Nat, B \in Nat, text \in Texts :
        A = Len(a) /\ B = Len(b) /\ text = a \o b /\ Len(text) = A + B
        /\ (\A i \in 1 .. A : text[i] = a[i]) /\ \A i \in 1 .. B : text[A + i] = b[i]
  <2>1. Len(a) \in Nat /\ Len(b) \in Nat
    BY TextParts, Zenon
  <2>2. /\ a \o b \in Texts /\ Len(a \o b) = Len(a) + Len(b)
        /\ \A i \in 1 .. Len(a) : (a \o b)[i] = a[i]
        /\ \A i \in 1 .. Len(b) : (a \o b)[Len(a) + i] = b[i]
    BY TextConcat, Zenon
  <2> QED
    BY <2>1, <2>2
<1>2. v \in Texts /\ Len(v) > 0
  BY Zenon DEF IsSecret
<1>3. PICK accA : Turns(accA, a, v) /\ Replace(a, v) = accA[A]
  BY <1>1, <1>2, ReplaceStepwise, Zenon
<1>4. PICK accB : Turns(accB, b, v) /\ Replace(b, v) = accB[B]
  BY <1>1, <1>2, ReplaceStepwise, Zenon
<1>5. PICK acc : Turns(acc, text, v) /\ Replace(text, v) = acc[A + B]
  <2>1. PICK other : Turns(other, text, v) /\ Replace(text, v) = other[Len(text)]
    BY <1>2, ReplaceStepwise, Zenon
  <2> QED
    BY <1>1, <2>1
<1> DEFINE Xa == {n \in 0 .. A : acc[n] = accA[n]}
           Xb == {m \in 0 .. B : acc[A + m] = accA[A] \o accB[m]}
<1>6. 0 \in Xa
  BY <1>3, <1>5 DEF Turns
<1>7. ASSUME NEW n \in 0 .. A - 1, n \in Xa
      PROVE  n + 1 \in Xa
  <2>1. n + 1 \in 1 .. A /\ n + 1 \in 1 .. A + B /\ (n + 1) - 1 = n /\ n + 1 \in 0 .. A
    OBVIOUS
  <2>2. acc[n + 1] = Replaced(acc[n], text[n + 1], v)
    BY <1>1, <1>5, <2>1 DEF Turns
  <2>3. accA[n + 1] = Replaced(accA[n], a[n + 1], v)
    BY <1>1, <1>3, <2>1 DEF Turns
  <2>4. text[n + 1] = a[n + 1] /\ acc[n] = accA[n]
    BY <1>1, <1>7, <2>1
  <2> QED
    BY <2>1, <2>2, <2>3, <2>4
<1>8. A \in Xa
  <2> HIDE DEF Xa
  <2> QED
    BY <1>6, <1>7, ByInduction, Zenon
<1>9. accA[A] \in Texts
  BY <1>1, <1>3 DEF Turns
<1>10. 0 \in Xb
  <2>1. accA[A] \o <<>> = accA[A]
    BY <1>9 DEF Texts
  <2>2. acc[A + 0] = accA[A] /\ 0 \in 0 .. B
    BY <1>8
  <2>3. accB[0] = <<>>
    BY <1>4 DEF Turns
  <2> QED
    BY <2>1, <2>2, <2>3
<1>11. ASSUME NEW m \in 0 .. B - 1, m \in Xb
       PROVE  m + 1 \in Xb
  <2>1. /\ m + 1 \in 1 .. B /\ A + (m + 1) \in 1 .. A + B /\ (A + (m + 1)) - 1 = A + m /\ (m + 1) - 1 = m
        /\ m + 1 \in 0 .. B /\ m \in 0 .. B /\ A + m \in 0 .. A + B /\ m \in Nat /\ m < B
    OBVIOUS
  <2>2. acc[A + (m + 1)] = Replaced(acc[A + m], text[A + (m + 1)], v)
    BY <1>1, <1>5, <2>1 DEF Turns
  <2>3. accB[m + 1] = Replaced(accB[m], b[m + 1], v) /\ accB[m] \in Texts
    BY <1>1, <1>4, <2>1 DEF Turns
  <2>4. text[A + (m + 1)] = b[m + 1] /\ acc[A + m] = accA[A] \o accB[m]
    BY <1>1, <1>11, <2>1
  <2>5. IsTrace(accB[m], b, m)
    BY <1>1, <1>2, <1>4, <2>1, TraceOfTurns, Zenon
  <2>6. IsTrace(acc[A + m], text, A + m)
    BY <1>1, <1>2, <1>5, <2>1, TraceOfTurns, Zenon
  <2>7. /\ IsConcat(acc[A + m], accA[A], accB[m]) /\ IsConcat(text, a, b)
        /\ IsTrace(acc[A + m], text, Len(a) + m) /\ m < Len(b)
    BY <1>1, <2>1, <2>4, <2>6 DEF IsConcat
  <2>8. IsConcat(Replaced(acc[A + m], b[m + 1], v), accA[A], Replaced(accB[m], b[m + 1], v))
    BY <1>9, <2>1, <2>3, <2>5, <2>7, ConcatTurn, Zenon
  <2>9. acc[A + (m + 1)] = accA[A] \o accB[m + 1]
    BY <2>2, <2>3, <2>4, <2>8 DEF IsConcat
  <2> QED
    BY <2>1, <2>9
<1>12. B \in Xb
  <2> HIDE DEF Xb
  <2> QED
    BY <1>10, <1>11, ByInduction, Zenon
<1> QED
  BY <1>1, <1>3, <1>4, <1>5, <1>12

LEMMA ApartStays ==
  ASSUME NEW v, IsSecret(v), NEW w, IsSecret(w), NEW a \in Texts, NEW b \in Texts, LiesApart(a, b, w)
  PROVE  LiesApart(Replace(a, v), Replace(b, v), w)
<1>1. PICK x \in Texts, y \in Texts :
        x = Replace(a, v) /\ y = Replace(b, v) /\ IsTrace(x, a, Len(a)) /\ IsTrace(y, b, Len(b))
  BY ReplaceTyped, Zenon DEF IsSecret
<1>2. PICK X \in Nat, Y \in Nat, A \in Nat, B \in Nat, n \in Nat :
        X = Len(x) /\ Y = Len(y) /\ A = Len(a) /\ B = Len(b) /\ n = Len(w)
  BY TextParts, Zenon DEF IsSecret
<1>3. /\ Len(x \o y) = X + Y /\ Len(a \o b) = A + B
      /\ \A i \in 1 .. X : (x \o y)[i] = x[i]
      /\ \A i \in 1 .. Y : (x \o y)[X + i] = y[i]
      /\ \A i \in 1 .. A : (a \o b)[i] = a[i]
      /\ \A i \in 1 .. B : (a \o b)[A + i] = b[i]
  <2>1. /\ Len(x \o y) = Len(x) + Len(y)
        /\ \A i \in 1 .. Len(x) : (x \o y)[i] = x[i]
        /\ \A i \in 1 .. Len(y) : (x \o y)[Len(x) + i] = y[i]
    BY TextConcat, Zenon
  <2>2. /\ Len(a \o b) = Len(a) + Len(b)
        /\ \A i \in 1 .. Len(a) : (a \o b)[i] = a[i]
        /\ \A i \in 1 .. Len(b) : (a \o b)[Len(a) + i] = b[i]
    BY TextConcat, Zenon
  <2> QED
    BY <1>2, <2>1, <2>2, Zenon
<1>4. ASSUME NEW i \in Nat, Occurs(x \o y, w, i), i < X, X < i + n
      PROVE  FALSE
  <2>1. i + n <= X + Y /\ \A k \in 1 .. n : (x \o y)[i + k] = w[k] /\ w[k] # Redacted
    BY <1>2, <1>3, <1>4 DEF Occurs, IsSecret
  <2>2. PICK h \in Nat, t \in Nat : t = X - i /\ h = n - t /\ t \in 1 .. n /\ h \in 1 .. n /\ h <= Y
    <3>1. X - i \in Nat /\ n - (X - i) \in Nat /\ X - i \in 1 .. n /\ n - (X - i) \in 1 .. n /\ n - (X - i) <= Y
      BY <1>4, <2>1
    <3> QED
      BY <3>1
  <2>3. ASSUME NEW k \in 1 .. t
        PROVE  x[i + k] = w[k] /\ w[k] # Redacted
    <3>1. k \in 1 .. n /\ i + k \in 1 .. X
      BY <2>2
    <3> QED
      BY <1>3, <2>1, <3>1
  <2>4. Plain(x, i + 1, X)
    <3>1. ASSUME NEW j \in i + 1 .. X
          PROVE  x[j] # Redacted
      <4>1. PICK k \in 1 .. t : i + k = j
        <5>1. j - i \in 1 .. t /\ i + (j - i) = j
          BY <2>2
        <5> QED
          BY <5>1
      <4> QED
        BY <2>3, <4>1
    <3> QED
      BY <3>1, Zenon DEF Plain
  <2>5. X - i <= A /\ \A k \in 1 .. X - i : x[i + k] = a[A - (X - i) + k]
    <3>1. i \in 0 .. X
      BY <1>4
    <3> QED
      BY <1>1, <1>2, <2>4, <3>1, Zenon DEF IsTrace, TailKept, KeptBehind
  <2>6. ASSUME NEW k \in 1 .. h
        PROVE  y[k] = w[t + k] /\ w[t + k] # Redacted
    <3>1. t + k \in 1 .. n /\ i + (t + k) = X + k /\ k \in 1 .. Y
      BY <2>2
    <3> QED
      BY <1>3, <2>1, <3>1
  <2>7. Plain(y, 1, h)
    BY <2>6 DEF Plain
  <2>8. h <= B /\ \A k \in 1 .. h : y[k] = b[k]
    <3>1. h \in 0 .. Y
      BY <2>2
    <3> QED
      BY <1>1, <1>2, <2>7, <3>1, Zenon DEF IsTrace, HeadKept
  <2>9. PICK p \in Nat : p = A - t /\ p < A /\ A < p + n /\ p + n <= A + B /\ p + t = A
    <3>1. /\ A - t \in Nat /\ A - t < A /\ A < (A - t) + n /\ (A - t) + n <= A + B /\ (A - t) + t = A
      BY <2>2, <2>5, <2>8
    <3> QED
      BY <3>1
  <2>10. ASSUME NEW k \in 1 .. n
         PROVE  (a \o b)[p + k] = w[k]
    <3>1. CASE k <= t
      <4>1. k \in 1 .. t /\ k \in 1 .. X - i /\ A - (X - i) + k = p + k /\ p + k \in 1 .. A
        BY <2>2, <2>9, <3>1
      <4> QED
        BY <1>3, <2>3, <2>5, <4>1
    <3>2. CASE k > t
      <4>1. PICK j \in 1 .. h : k = t + j
        <5>1. k - t \in 1 .. h /\ k = t + (k - t)
          BY <2>2, <3>2
        <5> QED
          BY <5>1
      <4>2. p + k = A + j /\ j \in 1 .. B
        BY <2>8, <2>9, <4>1
      <4>3. y[j] = w[k] /\ y[j] = b[j]
        BY <2>6, <2>8, <4>1
      <4> QED
        BY <1>3, <4>2, <4>3
    <3>3. k <= t \/ k > t
      BY <2>2
    <3> QED
      BY <3>1, <3>2, <3>3
  <2>11. Occurs(a \o b, w, p)
    BY <1>2, <1>3, <2>9, <2>10 DEF Occurs
  <2>12. A <= p \/ p + n <= A
    BY <1>2, <2>11, Zenon DEF LiesApart
  <2> QED
    BY <2>9, <2>12
<1>5. \A i \in Nat : Occurs(x \o y, w, i) => X <= i \/ i + n <= X
  BY <1>4
<1> QED
  BY <1>1, <1>2, <1>5, Zenon DEF LiesApart

-----------------------------------------------------------------------------
(* All values are replaced, one after the other. *)

AreSecrets(values) ==
  IsFiniteSet(values) /\ values \in SUBSET Texts /\ \A v \in values : v # <<>> => IsSecret(v)
InOrder(order, values) == order \in Seq(values) /\ \A n \in 1 .. Len(order) : IsSecret(order[n])
Redactions(acc, text, order) ==
  /\ acc[0] = text
  /\ \A n \in 1 .. Len(order) : acc[n] = Replace(acc[n - 1], order[n])
  /\ \A n \in 0 .. Len(order) : acc[n] \in Texts

LEMMA OrderOfSecrets ==
  ASSUME NEW values, AreSecrets(values)
  PROVE  InOrder(Ordered(values \ {<<>>}), values)
<1> DEFINE S == values \ {<<>>}
<1>1. IsFiniteSet(S) /\ S \in SUBSET Texts
  <2>1. IsFiniteSet(values) /\ values \in SUBSET Texts
    BY Zenon DEF AreSecrets
  <2>2. IsFiniteSet(S)
    BY <2>1, FS_Subset
  <2> QED
    BY <2>1, <2>2
<1>2. PICK order : order = Ordered(S)
  OBVIOUS
<1>3. order \in Seq(S)
  <2> HIDE DEF S
  <2> QED
    BY <1>1, <1>2, OrderedValues, Zenon
<1>4. ASSUME NEW n \in 1 .. Len(order)
      PROVE  IsSecret(order[n])
  <2>1. order[n] \in S
    BY <1>3
  <2> QED
    BY <2>1, Zenon DEF AreSecrets
<1>5. order \in Seq(values)
  BY <1>3
<1> QED
  BY <1>2, <1>4, <1>5, Zenon DEF InOrder

LEMMA RedactStepwise ==
  ASSUME NEW text \in Texts, NEW values, AreSecrets(values)
  PROVE  \E acc : /\ Redactions(acc, text, Ordered(values \ {<<>>}))
                  /\ RedactValues(text, values) = acc[Len(Ordered(values \ {<<>>}))]
<1>0. PICK order : order = Ordered(values \ {<<>>}) /\ InOrder(order, values)
  BY OrderOfSecrets
<1>1. PICK N : N = Len(order) /\ N \in Nat /\ DOMAIN order = 1 .. N
  BY <1>0 DEF InOrder
<1>2. \A n \in 1 .. N : order[n] \in Texts /\ Len(order[n]) > 0
  BY <1>0, <1>1, Zenon DEF InOrder, IsSecret
<1> DEFINE step == [n \in 1 .. N |-> [s \in Texts |-> Replace(s, order[n])]]
<1>3. step \in [1 .. N -> [Texts -> Texts]]
  <2>1. \A n \in 1 .. N : \A s \in Texts : Replace(s, order[n]) \in Texts
    BY <1>2, ReplaceTyped, Zenon
  <2> QED
    BY <2>1
<1>4. PICK e : IsFold(e, N, text, step) /\ \A S \in SUBSET (1 .. N) : e[S] \in Texts
  <2> HIDE DEF step
  <2> QED
    BY <1>1, <1>3, FoldExists, Zenon
<1>5. ASSUME NEW S \in SUBSET (1 .. N), S # {}
      PROVE  step[Max(S)][e[S \ {Max(S)}]] = Replace(e[S \ {Max(S)}], order[Max(S)])
  <2>1. PICK m, R : m = Max(S) /\ R = S \ {m}
    OBVIOUS
  <2>2. m \in 1 .. N /\ e[R] \in Texts
    BY <1>1, <1>4, <1>5, <2>1, MaxOfPart
  <2> QED
    BY <2>1, <2>2
<1>6. e = [S \in SUBSET (1 .. N) |-> IF S = {} THEN text ELSE Replace(e[S \ {Max(S)}], order[Max(S)])]
  <2> HIDE DEF step
  <2> QED
    BY <1>4, <1>5 DEF IsFold
<1>7. PICK it : /\ it = [S \in SUBSET (1 .. N) |-> IF S = {} THEN text ELSE Replace(it[S \ {Max(S)}], order[Max(S)])]
                /\ RedactValues(text, values) = it[1 .. N]
  <2> HIDE DEF step
  <2> QED
    <3>1. RedactValues(text, values) = FoldLeft(Replace, text, Ordered(values \ {<<>>}))
      BY Zenon DEF RedactValues
    <3>2. RedactValues(text, values) = FoldLeft(Replace, text, order)
      BY <1>0, <3>1, Zenon
    <3> QED
      BY <1>1, <1>6, <3>2, Zenon DEF FoldLeft, MapThenFoldSet
<1>8. PICK acc : /\ acc[0] = it[{}] /\ acc[N] = it[1 .. N]
                 /\ \A n \in 1 .. N : acc[n] = it[1 .. n] /\ acc[n - 1] = it[(1 .. n) \ {n}]
  <2>1. N \in Nat
    BY <1>1
  <2> HIDE DEF step
  <2>2. PICK other : IsUnfolding(other, it, N)
    BY <2>1, FoldPrefixes, Zenon
  <2> QED
    BY <2>2, Zenon DEF IsUnfolding
<1> HIDE DEF step
<1>9. acc[0] = text
  BY <1>7, <1>8
<1>10. ASSUME NEW n \in 1 .. N
       PROVE  acc[n] = Replace(acc[n - 1], order[n])
  <2>1. Max(1 .. n) = n /\ 1 .. n # {}
    BY <1>1, MaxOfTop
  <2>2. 1 .. n \in SUBSET (1 .. N)
    BY <1>1
  <2>3. it[1 .. n] = Replace(it[(1 .. n) \ {n}], order[n])
    BY <1>7, <2>1, <2>2
  <2> QED
    BY <1>8, <2>3
<1> DEFINE X == {n \in 0 .. N : acc[n] \in Texts}
<1>11. ASSUME NEW k \in 0 .. N
       PROVE  k \in X
  <2>1. 0 \in X
    BY <1>1, <1>9
  <2>2. ASSUME NEW n \in 0 .. k - 1, n \in X
        PROVE  n + 1 \in X
    <3>1. n + 1 \in 1 .. N /\ (n + 1) - 1 = n /\ n + 1 \in 0 .. N
      BY <1>1
    <3>2. acc[n + 1] = Replace(acc[n], order[n + 1]) /\ acc[n] \in Texts
      BY <1>10, <2>2, <3>1
    <3>3. acc[n + 1] \in Texts
      BY <1>2, <3>1, <3>2, ReplaceTyped, Zenon
    <3> QED
      BY <3>1, <3>3
  <2>3. k \in Nat
    BY <1>1
  <2> HIDE DEF X
  <2> QED
    BY <2>1, <2>2, <2>3, ByInduction, Zenon
<1>12. \A n \in 0 .. N : acc[n] \in Texts
  BY <1>11
<1>13. Redactions(acc, text, order)
  BY <1>1, <1>9, <1>10, <1>12 DEF Redactions
<1> QED
  BY <1>0, <1>1, <1>7, <1>8, <1>13

LEMMA RedactTyped ==
  ASSUME NEW text \in Texts, NEW values, AreSecrets(values)
  PROVE  RedactValues(text, values) \in Texts
<1>1. PICK acc : /\ Redactions(acc, text, Ordered(values \ {<<>>}))
                 /\ RedactValues(text, values) = acc[Len(Ordered(values \ {<<>>}))]
  BY RedactStepwise, Zenon
<1>2. PICK order : order = Ordered(values \ {<<>>}) /\ InOrder(order, values)
  BY OrderOfSecrets
<1>3. Len(order) \in 0 .. Len(order)
  BY <1>2 DEF InOrder
<1> QED
  BY <1>1, <1>2, <1>3 DEF Redactions

(* No value lies across the cut between two texts. *)
AllApart(a, b, values) == \A w \in values : IsSecret(w) => LiesApart(a, b, w)

LEMMA AllStayApart ==
  ASSUME NEW v, IsSecret(v), NEW a \in Texts, NEW b \in Texts, NEW values, AllApart(a, b, values)
  PROVE  AllApart(Replace(a, v), Replace(b, v), values)
BY ApartStays, Zenon DEF AllApart

LEMMA RedactConcat ==
  ASSUME NEW a \in Texts, NEW b \in Texts, NEW values, AreSecrets(values), AllApart(a, b, values)
  PROVE  RedactValues(a \o b, values) = RedactValues(a, values) \o RedactValues(b, values)
<1>1. PICK order : order = Ordered(values \ {<<>>}) /\ InOrder(order, values)
  BY OrderOfSecrets
<1>2. PICK N \in Nat : N = Len(order) /\ \A n \in 1 .. N : order[n] \in values /\ IsSecret(order[n])
  <2>1. order \in Seq(values) /\ \A n \in 1 .. Len(order) : IsSecret(order[n])
    BY <1>1, Zenon DEF InOrder
  <2>2. Len(order) \in Nat /\ \A n \in 1 .. Len(order) : order[n] \in values
    BY <2>1
  <2> QED
    BY <2>1, <2>2, Zenon
<1>3. PICK text \in Texts : text = a \o b
  BY TextConcat
<1>4. PICK accA : Redactions(accA, a, order) /\ RedactValues(a, values) = accA[N]
  <2>1. PICK acc : /\ Redactions(acc, a, Ordered(values \ {<<>>}))
                   /\ RedactValues(a, values) = acc[Len(Ordered(values \ {<<>>}))]
    BY RedactStepwise, Zenon
  <2> QED
    BY <1>1, <1>2, <2>1
<1>5. PICK accB : Redactions(accB, b, order) /\ RedactValues(b, values) = accB[N]
  <2>1. PICK acc : /\ Redactions(acc, b, Ordered(values \ {<<>>}))
                   /\ RedactValues(b, values) = acc[Len(Ordered(values \ {<<>>}))]
    BY RedactStepwise, Zenon
  <2> QED
    BY <1>1, <1>2, <2>1
<1>6. PICK acc : Redactions(acc, text, order) /\ RedactValues(text, values) = acc[N]
  <2>1. PICK other : /\ Redactions(other, text, Ordered(values \ {<<>>}))
                     /\ RedactValues(text, values) = other[Len(Ordered(values \ {<<>>}))]
    BY RedactStepwise, Zenon
  <2> QED
    BY <1>1, <1>2, <2>1
<1> DEFINE X == {n \in 0 .. N : IsConcat(acc[n], accA[n], accB[n]) /\ AllApart(accA[n], accB[n], values)}
<1>7. 0 \in X
  <2>1. acc[0] = text /\ accA[0] = a /\ accB[0] = b
    BY <1>4, <1>5, <1>6, Zenon DEF Redactions
  <2>2. IsConcat(acc[0], accA[0], accB[0]) /\ AllApart(accA[0], accB[0], values)
    BY <1>3, <2>1, Zenon DEF IsConcat
  <2> QED
    BY <2>2
<1>8. ASSUME NEW n \in 0 .. N - 1, n \in X
      PROVE  n + 1 \in X
  <2>1. n + 1 \in 1 .. N /\ (n + 1) - 1 = n /\ n \in 0 .. N /\ n + 1 \in 0 .. N
    OBVIOUS
  <2>2. PICK v : v = order[n + 1] /\ IsSecret(v)
    BY <1>2, <2>1
  <2>3. PICK x \in Texts, y \in Texts : x = accA[n] /\ y = accB[n]
    BY <1>2, <1>4, <1>5, <2>1 DEF Redactions
  <2>4. accA[n + 1] = Replace(x, v) /\ accB[n + 1] = Replace(y, v) /\ acc[n + 1] = Replace(acc[n], v)
    BY <1>2, <1>4, <1>5, <1>6, <2>1, <2>2, <2>3 DEF Redactions
  <2>5. acc[n] = x \o y /\ AllApart(x, y, values)
    BY <1>8, <2>3 DEF IsConcat
  <2>6. LiesApart(x, y, v)
    BY <1>2, <2>1, <2>2, <2>5, Zenon DEF AllApart
  <2>7. Replace(x \o y, v) = Replace(x, v) \o Replace(y, v)
    BY <2>2, <2>6, ReplaceConcat
  <2>8. IsConcat(acc[n + 1], accA[n + 1], accB[n + 1])
    BY <2>4, <2>5, <2>7 DEF IsConcat
  <2>9. AllApart(accA[n + 1], accB[n + 1], values)
    BY <2>2, <2>4, <2>5, AllStayApart
  <2> QED
    BY <2>1, <2>8, <2>9
<1>9. N \in X
  <2> HIDE DEF X
  <2> QED
    BY <1>7, <1>8, ByInduction, Zenon
<1> QED
  BY <1>3, <1>4, <1>5, <1>6, <1>9 DEF IsConcat

-----------------------------------------------------------------------------
(* The writer: what it holds back begins a value, and nothing longer does.   *)

LEMMA MaxOfNumbers ==
  ASSUME NEW N \in Nat, NEW S \in SUBSET (0 .. N), 0 \in S
  PROVE  Max(S) \in S /\ \A y \in S : y <= Max(S)
<1> DEFINE X == {x \in 0 .. N : N - x \in S}
<1>1. X \in SUBSET Nat /\ X # {}
  <2>1. N \in X
    OBVIOUS
  <2> QED
    BY <2>1
<1>2. PICK x \in X : \A y \in X : x <= y
  <2> HIDE DEF X
  <2> QED
    BY <1>1, LeastNatural
<1>3. ASSUME NEW j \in S
      PROVE  N - x >= j
  <2>1. N - j \in 0 .. N /\ N - (N - j) = j
    OBVIOUS
  <2>2. N - j \in X
    BY <2>1
  <2>3. x <= N - j
    BY <1>2, <2>2
  <2> QED
    BY <2>3
<1>4. \E m \in S : \A y \in S : m >= y
  BY <1>3
<1>5. Max(S) \in S /\ \A y \in S : Max(S) >= y
  BY <1>4, Zenon DEF Max
<1> QED
  BY <1>5

LEMMA EndingParts ==
  ASSUME NEW t \in Texts, NEW n \in Nat, n <= Len(t)
  PROVE  /\ Suffix(t, n) \in Texts /\ Len(Suffix(t, n)) = n
         /\ \A k \in 1 .. n : Suffix(t, n)[k] = t[(Len(t) - n) + k]
<1>1. PICK L \in Nat, l \in Nat : L = Len(t) /\ l = L - n /\ l + n = L
  <2>1. Len(t) \in Nat
    BY TextParts
  <2>2. Len(t) - n \in Nat /\ (Len(t) - n) + n = Len(t)
    BY <2>1
  <2> QED
    BY <2>1, <2>2
<1>2. Suffix(t, n) = SubSeq(t, l + 1, L)
  BY <1>1, Zenon DEF Suffix
<1>3. PICK s : s = SubSeq(t, l + 1, L)
  OBVIOUS
<1>4. s \in Seq(Nat)
  BY <1>1, <1>3 DEF Texts
<1>5. Len(s) = n
  BY <1>1, <1>3 DEF Texts
<1>6. ASSUME NEW k \in 1 .. n
      PROVE  s[k] = t[l + k]
  BY <1>1, <1>3 DEF Texts
<1> QED
  BY <1>1, <1>2, <1>3, <1>4, <1>5, <1>6, Zenon DEF Texts

(* The last n characters of a text begin a value that is longer.            *)
Begins(t, n, v) == n < Len(v) /\ \A k \in 1 .. n : t[(Len(t) - n) + k] = v[k]

LEMMA BeginsMeans ==
  ASSUME NEW t \in Texts, NEW n \in Nat, n <= Len(t), NEW v \in Texts
  PROVE  (n < Len(v) /\ Suffix(t, n) = SubSeq(v, 1, n)) <=> Begins(t, n, v)
<1>1. CASE n < Len(v)
  <2>1. n <= Len(v) /\ Len(v) \in Nat /\ Len(t) \in Nat
    BY <1>1, TextParts
  <2>2. PICK s \in Texts : s = Suffix(t, n) /\ Len(s) = n /\ \A k \in 1 .. n : s[k] = t[(Len(t) - n) + k]
    BY EndingParts
  <2>3. PICK b \in Texts : b = SubSeq(v, 1, n) /\ Len(b) = n /\ \A k \in 1 .. n : b[k] = v[k]
    <3>1. v \in Seq(Nat)
      BY DEF Texts
    <3> QED
      BY <2>1, <3>1, BeginningParts DEF Texts
  <2>4. s = b <=> \A k \in 1 .. n : s[k] = b[k]
    BY <2>2, <2>3, TextEqual
  <2>5. s = b <=> \A k \in 1 .. n : t[(Len(t) - n) + k] = v[k]
    BY <2>2, <2>3, <2>4
  <2> QED
    BY <1>1, <2>2, <2>3, <2>5, Zenon DEF Begins
<1>2. CASE ~(n < Len(v))
  BY <1>2, Zenon DEF Begins
<1> QED
  BY <1>1, <1>2

LEMMA PendingMeans ==
  ASSUME NEW t \in Texts, NEW values \in SUBSET Texts
  PROVE  /\ PendingLength(t, values) \in 0 .. Len(t)
         /\ PendingLength(t, values) > 0 => \E v \in values : Begins(t, PendingLength(t, values), v)
         /\ \A n \in 1 .. Len(t) : \A v \in values : Begins(t, n, v) => n <= PendingLength(t, values)
<1> DEFINE H == {n \in 1 .. Len(t) : \E v \in values : n < Len(v) /\ Suffix(t, n) = SubSeq(v, 1, n)}
           S == {0} \cup H
<1>1. PICK L \in Nat : L = Len(t)
  BY TextParts
<1>2. S \in SUBSET (0 .. L) /\ 0 \in S
  BY <1>1
<1>3. PICK held : held = Max(S) /\ held = PendingLength(t, values)
  BY DEF PendingLength
<1>4. held \in S /\ \A y \in S : y <= held
  <2> HIDE DEF S
  <2> QED
    BY <1>2, <1>3, MaxOfNumbers
<1>5. ASSUME NEW n \in 1 .. L, NEW v \in values
      PROVE  (n < Len(v) /\ Suffix(t, n) = SubSeq(v, 1, n)) <=> Begins(t, n, v)
  <2>1. n \in Nat /\ n <= Len(t) /\ v \in Texts
    BY <1>1
  <2> QED
    BY <2>1, BeginsMeans, Zenon
<1>6. held \in 0 .. L
  BY <1>2, <1>4
<1>7. held > 0 => \E v \in values : Begins(t, held, v)
  <2> SUFFICES ASSUME held > 0 PROVE \E v \in values : Begins(t, held, v)
    OBVIOUS
  <2>1. held \in H /\ held \in 1 .. L
    BY <1>4, <1>6
  <2>2. PICK v \in values : held < Len(v) /\ Suffix(t, held) = SubSeq(v, 1, held)
    BY <2>1, Zenon
  <2>3. Begins(t, held, v)
    BY <1>5, <2>1, <2>2, Zenon
  <2> QED
    BY <2>3
<1>8. ASSUME NEW n \in 1 .. L, NEW v \in values, Begins(t, n, v)
      PROVE  n <= held
  <2>1. n < Len(v) /\ Suffix(t, n) = SubSeq(v, 1, n)
    BY <1>5, <1>8, Zenon
  <2>2. n \in S
    BY <1>1, <2>1
  <2> HIDE DEF S
  <2> QED
    BY <1>4, <2>2
<1> QED
  BY <1>1, <1>3, <1>6, <1>7, <1>8

LEMMA OverlapMeans ==
  ASSUME NEW v \in Texts, NEW w \in Texts, NEW n \in Nat, n > 0, n < Len(v), Begins(v, n, w)
  PROVE  Overlaps(v, w)
<1>1. n \in 1 .. Len(v) /\ n <= Len(v)
  BY TextParts
<1>2. n < Len(w) /\ Suffix(v, n) = SubSeq(w, 1, n)
  BY <1>1, BeginsMeans, Zenon
<1> QED
  BY <1>1, <1>2, Zenon DEF Overlaps

(* No value lies across the end of what is written.                         *)
LEMMA CutIsClean ==
  ASSUME NEW t \in Texts, NEW rest \in Texts, NEW values \in SUBSET Texts,
         \A v, w \in values : ~Overlaps(v, w),
         NEW w \in values, NEW i \in Nat, Occurs(t \o rest, w, i),
         i < Len(t) - PendingLength(t, values), Len(t) - PendingLength(t, values) < i + Len(w)
  PROVE  FALSE
<1>1. PICK L \in Nat, held \in Nat, W \in Nat : L = Len(t) /\ held = PendingLength(t, values) /\ W = Len(w) /\ held <= L
  <2>1. Len(t) \in Nat /\ Len(w) \in Nat
    BY TextParts
  <2>2. PendingLength(t, values) \in 0 .. Len(t)
    BY PendingMeans
  <2> QED
    BY <2>1, <2>2
<1>2. /\ held > 0 => \E v \in values : Begins(t, held, v)
      /\ \A n \in 1 .. L : \A v \in values : Begins(t, n, v) => n <= held
  BY <1>1, PendingMeans
<1>3. \A k \in 1 .. L : (t \o rest)[k] = t[k]
  <2>1. \A k \in 1 .. Len(t) : (t \o rest)[k] = t[k]
    BY TextConcat, Zenon
  <2> QED
    BY <1>1, <2>1
<1>4. \A k \in 1 .. W : (t \o rest)[i + k] = w[k]
  BY <1>1, Zenon DEF Occurs
<1>5. i < L - held /\ L - held < i + W
  BY <1>1
<1>6. CASE i + W <= L
  <2>1. PICK n \in Nat : n = i + W - (L - held) /\ n > 0 /\ n < W /\ n <= held
    <3>1. i + W - (L - held) \in Nat /\ i + W - (L - held) > 0 /\ i + W - (L - held) < W /\ i + W - (L - held) <= held
      BY <1>5, <1>6
    <3> QED
      BY <3>1
  <2>2. PICK v \in values : Begins(t, held, v)
    BY <1>2, <2>1
  <2>3. held < Len(v) /\ \A k \in 1 .. held : t[(L - held) + k] = v[k]
    BY <1>1, <2>2, Zenon DEF Begins
  <2>4. ASSUME NEW k \in 1 .. n
        PROVE  w[(W - n) + k] = v[k]
    <3>1. PICK j \in 1 .. W : j = (W - n) + k
      <4>1. (W - n) + k \in 1 .. W
        BY <2>1
      <4> QED
        BY <4>1
    <3>2. i + j = (L - held) + k /\ i + j \in 1 .. L /\ k \in 1 .. held
      BY <1>6, <2>1, <3>1
    <3>3. (t \o rest)[i + j] = w[j] /\ (t \o rest)[i + j] = t[i + j]
      BY <1>3, <1>4, <3>2
    <3>4. t[(L - held) + k] = v[k]
      BY <2>3, <3>2
    <3> QED
      BY <3>1, <3>2, <3>3, <3>4
  <2>5. n < Len(v)
    <3>1. Len(v) \in Nat
      BY TextParts
    <3> QED
      BY <2>1, <2>3, <3>1
  <2>6. Begins(w, n, v)
    BY <1>1, <2>4, <2>5, Zenon DEF Begins
  <2>7. w \in Texts /\ v \in Texts /\ n < Len(w)
    BY <1>1, <2>1
  <2>8. Overlaps(w, v)
    BY <2>1, <2>6, <2>7, OverlapMeans, Zenon
  <2> QED
    BY <2>8, Zenon
<1>7. CASE i + W > L
  <2>1. PICK n \in 1 .. L : n = L - i /\ n > held /\ n < W
    <3>1. L - i \in 1 .. L /\ L - i > held /\ L - i < W
      BY <1>5, <1>7
    <3> QED
      BY <3>1
  <2>2. ASSUME NEW k \in 1 .. n
        PROVE  t[(L - n) + k] = w[k]
    <3>1. (L - n) + k = i + k /\ k \in 1 .. W /\ i + k \in 1 .. L
      BY <2>1
    <3>2. (t \o rest)[i + k] = w[k] /\ (t \o rest)[i + k] = t[i + k]
      BY <1>3, <1>4, <3>1
    <3> QED
      BY <3>1, <3>2
  <2>3. Begins(t, n, w)
    BY <1>1, <2>1, <2>2, Zenon DEF Begins
  <2>4. n <= held
    BY <1>2, <2>3
  <2> QED
    BY <2>1, <2>4
<1> QED
  BY <1>6, <1>7

LEMMA ConcatTexts ==
  ASSUME NEW a \in Texts, NEW b \in Texts, NEW c \in Texts
  PROVE  (a \o b) \o c = a \o (b \o c) /\ a \o <<>> = a /\ <<>> \o a = a
BY ConcatAssociative, ConcatEmptySeq DEF Texts

LEMMA Regrouped ==
  ASSUME NEW a \in Texts, NEW b \in Texts, NEW c \in Texts, NEW ab, NEW bc, NEW r,
         IsConcat(ab, a, b), IsConcat(bc, b, c), IsConcat(r, ab, c)
  PROVE  IsConcat(r, a, bc)
<1>1. (a \o b) \o c = a \o (b \o c)
  BY ConcatTexts
<1> QED
  BY <1>1 DEF IsConcat

LEMMA SplitText ==
  ASSUME NEW t \in Texts, NEW held \in 0 .. Len(t)
  PROVE  \E keep \in Texts :
           /\ keep = SubSeq(t, 1, Len(t) - held) /\ Len(keep) = Len(t) - held
           /\ Suffix(t, held) \in Texts /\ keep \o Suffix(t, held) = t
<1>1. PICK L \in Nat : L = Len(t)
  BY TextParts
<1>2. PICK n \in Nat : n = L - held /\ n <= L /\ n + held = L
  <2>1. L - held \in Nat /\ L - held <= L /\ (L - held) + held = L
    BY <1>1
  <2> QED
    BY <2>1
<1>3. PICK keep \in Texts : keep = SubSeq(t, 1, n) /\ Len(keep) = n /\ \A k \in 1 .. n : keep[k] = t[k]
  <2>1. n <= Len(t) /\ t \in Seq(Nat)
    BY <1>1, <1>2, Zenon DEF Texts
  <2> QED
    BY <2>1, BeginningParts, Zenon DEF Texts
<1>4. PICK back \in Texts : back = Suffix(t, held) /\ Len(back) = held /\ \A k \in 1 .. held : back[k] = t[n + k]
  <2>1. held \in Nat /\ held <= Len(t)
    BY <1>1
  <2>2. /\ Suffix(t, held) \in Texts /\ Len(Suffix(t, held)) = held
        /\ \A k \in 1 .. held : Suffix(t, held)[k] = t[(Len(t) - held) + k]
    BY <2>1, EndingParts, Zenon
  <2> QED
    BY <1>1, <1>2, <2>2
<1>5. PICK r \in Texts : /\ r = keep \o back /\ Len(r) = n + held
                         /\ \A k \in 1 .. n : r[k] = keep[k]
                         /\ \A k \in 1 .. held : r[n + k] = back[k]
  <2>1. /\ keep \o back \in Texts /\ Len(keep \o back) = Len(keep) + Len(back)
        /\ \A k \in 1 .. Len(keep) : (keep \o back)[k] = keep[k]
        /\ \A k \in 1 .. Len(back) : (keep \o back)[Len(keep) + k] = back[k]
    BY TextConcat, Zenon
  <2>2. Len(keep) = n /\ Len(back) = held
    BY <1>3, <1>4
  <2>3. /\ keep \o back \in Texts /\ Len(keep \o back) = n + held
        /\ \A k \in 1 .. n : (keep \o back)[k] = keep[k]
        /\ \A k \in 1 .. held : (keep \o back)[n + k] = back[k]
    BY <2>1, <2>2
  <2> QED
    BY <2>3, Zenon
<1>6. ASSUME NEW i \in 1 .. L
      PROVE  r[i] = t[i]
  <2>1. CASE i \in 1 .. n
    BY <1>3, <1>5, <2>1
  <2>2. CASE i \notin 1 .. n
    <3>1. PICK k \in 1 .. held : i = n + k
      <4>1. i - n \in 1 .. held /\ i = n + (i - n)
        BY <1>2, <2>2
      <4> QED
        BY <4>1
    <3> QED
      BY <1>4, <1>5, <3>1
  <2> QED
    BY <2>1, <2>2
<1>7. r = t
  BY <1>1, <1>2, <1>5, <1>6, TextEqual
<1> QED
  BY <1>1, <1>2, <1>3, <1>4, <1>5, <1>7

LEMMA OccursBehind ==
  ASSUME NEW a \in Texts, NEW b \in Texts, NEW w \in Texts, NEW i \in Nat, Len(a) <= i, Occurs(a \o b, w, i)
  PROVE  i - Len(a) \in Nat /\ Occurs(b, w, i - Len(a))
<1>1. PICK A \in Nat, B \in Nat, W \in Nat : A = Len(a) /\ B = Len(b) /\ W = Len(w)
  BY TextParts, Zenon
<1>2. Len(a \o b) = A + B /\ \A k \in 1 .. B : (a \o b)[A + k] = b[k]
  <2>1. Len(a \o b) = Len(a) + Len(b) /\ \A k \in 1 .. Len(b) : (a \o b)[Len(a) + k] = b[k]
    BY TextConcat, Zenon
  <2> QED
    BY <1>1, <2>1
<1>3. i + W <= A + B /\ \A k \in 1 .. W : (a \o b)[i + k] = w[k]
  BY <1>1, <1>2, Zenon DEF Occurs
<1>4. PICK j \in Nat : j = i - A /\ A + j = i
  <2>1. i - A \in Nat /\ A + (i - A) = i
    BY <1>1
  <2> QED
    BY <2>1
<1>5. ASSUME NEW k \in 1 .. W
      PROVE  b[j + k] = w[k]
  <2>1. PICK l \in 1 .. B : l = j + k /\ A + l = i + k
    <3>1. j + k \in 1 .. B /\ A + (j + k) = i + k
      BY <1>3, <1>4
    <3> QED
      BY <3>1
  <2> QED
    BY <1>2, <1>3, <2>1
<1>6. j + W <= B
  BY <1>3, <1>4
<1>7. Occurs(b, w, j)
  BY <1>1, <1>5, <1>6, Zenon DEF Occurs
<1> QED
  BY <1>1, <1>4, <1>7

LEMMA ApartFromBeginning ==
  ASSUME NEW a \in Texts, NEW b \in Texts, NEW c \in Texts, NEW w \in Texts, LiesApart(a, b \o c, w)
  PROVE  LiesApart(a, b, w)
<1>1. PICK ab \in Texts, abc \in Texts : ab = a \o b /\ abc = a \o (b \o c) /\ abc = ab \o c
  <2>1. a \o b \in Texts /\ b \o c \in Texts
    BY TextConcat, Zenon
  <2>2. a \o (b \o c) \in Texts
    BY <2>1, TextConcat, Zenon
  <2>3. (a \o b) \o c = a \o (b \o c)
    BY ConcatTexts
  <2> QED
    BY <2>1, <2>2, <2>3
<1>2. PICK N \in Nat, C \in Nat, W \in Nat : N = Len(ab) /\ C = Len(c) /\ W = Len(w)
  BY TextParts, Zenon
<1>3. Len(abc) = N + C /\ \A k \in 1 .. N : abc[k] = ab[k]
  <2>1. Len(ab \o c) = Len(ab) + Len(c) /\ \A k \in 1 .. Len(ab) : (ab \o c)[k] = ab[k]
    BY TextConcat, Zenon
  <2> QED
    BY <1>1, <1>2, <2>1
<1>4. ASSUME NEW i \in Nat, Occurs(ab, w, i)
      PROVE  Occurs(abc, w, i)
  <2>1. i + W <= N /\ \A k \in 1 .. W : ab[i + k] = w[k]
    BY <1>2, <1>4, Zenon DEF Occurs
  <2>2. ASSUME NEW k \in 1 .. W
        PROVE  abc[i + k] = w[k]
    <3>1. i + k \in 1 .. N
      BY <2>1
    <3> QED
      BY <1>3, <2>1, <3>1
  <2>3. i + W <= N + C
    BY <2>1
  <2> QED
    BY <1>2, <1>3, <2>2, <2>3, Zenon DEF Occurs
<1>5. \A i \in Nat : Occurs(ab, w, i) => Len(a) <= i \/ i + Len(w) <= Len(a)
  BY <1>1, <1>4, Zenon DEF LiesApart
<1> QED
  BY <1>1, <1>5, Zenon DEF LiesApart

(* Whatever comes, no value will lie across the end of what is written.     *)
CleanCut(front, back, values) == \A rest \in Texts : AllApart(front, back \o rest, values)
WriterOf(front, back, values) == [pending |-> back, out |-> RedactValues(front, values)]

LEMMA CutStaysClean ==
  ASSUME NEW values, AreSecrets(values), \A v, w \in values : ~Overlaps(v, w),
         NEW front \in Texts, NEW back \in Texts, NEW piece \in Texts, CleanCut(front, back, values),
         NEW t \in Texts, IsConcat(t, back, piece), NEW keep \in Texts, NEW held \in Texts,
         IsConcat(t, keep, held), Len(keep) = Len(t) - PendingLength(t, values)
  PROVE  CleanCut(front \o keep, held, values)
<1>1. values \in SUBSET Texts
  BY Zenon DEF AreSecrets
<1>2. ASSUME NEW rest \in Texts, NEW w \in values, IsSecret(w)
      PROVE  LiesApart(front \o keep, held \o rest, w)
  <2>1. PICK more \in Texts, whole \in Texts, fk \in Texts, hr \in Texts :
          more = piece \o rest /\ whole = t \o rest /\ fk = front \o keep /\ hr = held \o rest
    <3>1. piece \o rest \in Texts /\ t \o rest \in Texts /\ front \o keep \in Texts /\ held \o rest \in Texts
      BY TextConcat, Zenon
    <3> QED
      BY <3>1
  <2>2. IsConcat(whole, back, more) /\ IsConcat(whole, keep, hr)
    <3>1. IsConcat(more, piece, rest) /\ IsConcat(whole, t, rest) /\ IsConcat(hr, held, rest)
      BY <2>1, Zenon DEF IsConcat
    <3>2. IsConcat(whole, back, more)
      BY <3>1, Regrouped, Zenon
    <3>3. IsConcat(whole, keep, hr)
      BY <3>1, Regrouped, ZenonT(40)
    <3> QED
      BY <3>2, <3>3
  <2>3. fk \o hr = front \o whole
    <3>1. IsConcat(fk \o hr, fk, hr) /\ IsConcat(fk, front, keep)
      BY <2>1, Zenon DEF IsConcat
    <3>2. IsConcat(fk \o hr, front, whole)
      BY <2>2, <3>1, Regrouped, Zenon
    <3> QED
      BY <3>2, Zenon DEF IsConcat
  <2>4. LiesApart(front, whole, w)
    <3>1. AllApart(front, back \o more, values)
      BY <2>1, Zenon DEF CleanCut
    <3> QED
      BY <1>2, <2>2, <3>1 DEF AllApart, IsConcat
  <2>5. PICK F \in Nat, K \in Nat, W \in Nat : F = Len(front) /\ K = Len(keep) /\ W = Len(w) /\ Len(fk) = F + K
    <3>1. w \in Texts
      BY <1>1
    <3>2. Len(front \o keep) = Len(front) + Len(keep)
      BY TextConcat, Zenon
    <3>3. Len(front) \in Nat /\ Len(keep) \in Nat /\ Len(w) \in Nat
      BY <3>1, TextParts, Zenon
    <3> QED
      BY <2>1, <3>2, <3>3
  <2>6. ASSUME NEW i \in Nat, Occurs(fk \o hr, w, i), i < F + K, F + K < i + W
        PROVE  FALSE
    <3>1. Occurs(front \o whole, w, i)
      BY <2>3, <2>6
    <3>2. F <= i \/ i + W <= F
      BY <2>4, <2>5, <3>1, Zenon DEF LiesApart
    <3>3. F <= i
      BY <2>6, <3>2
    <3>4. i - F \in Nat /\ Occurs(whole, w, i - F)
      BY <1>1, <2>5, <3>1, <3>3, OccursBehind
    <3>5. PICK j \in Nat : j = i - F /\ j < K /\ K < j + W /\ Occurs(t \o rest, w, j)
      <4>1. i - F < K /\ K < (i - F) + W
        BY <2>6
      <4> QED
        BY <2>1, <3>4, <4>1
    <3>6. j < Len(t) - PendingLength(t, values) /\ Len(t) - PendingLength(t, values) < j + Len(w)
      BY <2>5, <3>5
    <3> QED
      BY <1>1, <3>5, <3>6, CutIsClean, Zenon
  <2>7. ASSUME NEW i \in Nat, Occurs(fk \o hr, w, i)
        PROVE  F + K <= i \/ i + W <= F + K
    BY <2>6, <2>7
  <2>8. LiesApart(fk, hr, w)
    BY <2>5, <2>7, Zenon DEF LiesApart
  <2> QED
    BY <2>1, <2>8
<1> QED
  BY <1>2, Zenon DEF CleanCut, AllApart

LEMMA EmptyText ==
  <<>> \in Texts /\ Len(<<>>) = 0 /\ <<>> \o <<>> = <<>>
<1>1. <<>> \in Texts /\ Len(<<>>) = 0
  BY DEF Texts
<1> QED
  BY <1>1, ConcatTexts, Zenon

LEMMA RedactNothing ==
  ASSUME NEW values, AreSecrets(values)
  PROVE  RedactValues(<<>>, values) = <<>>
<1>1. PICK nothing \in Texts : nothing = <<>> /\ Len(nothing) = 0
  BY EmptyText, Zenon
<1>2. PICK order : order = Ordered(values \ {<<>>}) /\ InOrder(order, values)
  BY OrderOfSecrets
<1>3. PICK N \in Nat : N = Len(order)
  BY <1>2 DEF InOrder
<1>4. PICK acc : Redactions(acc, nothing, order) /\ RedactValues(nothing, values) = acc[N]
  <2>1. PICK other : /\ Redactions(other, nothing, Ordered(values \ {<<>>}))
                     /\ RedactValues(nothing, values) = other[Len(Ordered(values \ {<<>>}))]
    BY RedactStepwise, Zenon
  <2> QED
    BY <1>2, <1>3, <2>1
<1>5. ASSUME NEW v, IsSecret(v)
      PROVE  Replace(nothing, v) = nothing
  <2>1. v \in Texts /\ Len(v) > 0
    BY <1>5, Zenon DEF IsSecret
  <2>2. PICK a : Turns(a, nothing, v) /\ Replace(nothing, v) = a[Len(nothing)]
    BY <2>1, ReplaceStepwise, Zenon
  <2> QED
    BY <1>1, <2>2 DEF Turns
<1> DEFINE X == {n \in 0 .. N : acc[n] = nothing}
<1>6. 0 \in X
  BY <1>3, <1>4 DEF Redactions
<1>7. ASSUME NEW n \in 0 .. N - 1, n \in X
      PROVE  n + 1 \in X
  <2>1. n + 1 \in 1 .. N /\ (n + 1) - 1 = n /\ n + 1 \in 0 .. N
    OBVIOUS
  <2>2. acc[n + 1] = Replace(acc[n], order[n + 1])
    BY <1>3, <1>4, <2>1 DEF Redactions
  <2>3. IsSecret(order[n + 1])
    BY <1>2, <1>3, <2>1, Zenon DEF InOrder
  <2>4. acc[n] = nothing
    BY <1>7
  <2>5. Replace(nothing, order[n + 1]) = nothing
    BY <1>5, <2>3
  <2> QED
    BY <2>1, <2>2, <2>4, <2>5
<1>8. N \in X
  <2> HIDE DEF X
  <2> QED
    BY <1>6, <1>7, ByInduction, Zenon
<1> QED
  BY <1>1, <1>4, <1>8

LEMMA RegroupedBack ==
  ASSUME NEW a \in Texts, NEW b \in Texts, NEW c \in Texts, NEW ab, NEW bc, NEW r,
         IsConcat(ab, a, b), IsConcat(bc, b, c), IsConcat(r, a, bc)
  PROVE  IsConcat(r, ab, c)
<1>1. (a \o b) \o c = a \o (b \o c)
  BY ConcatTexts
<1> QED
  BY <1>1 DEF IsConcat

LEMMA WriteGoesOn ==
  ASSUME NEW values, AreSecrets(values), \A v, w \in values : ~Overlaps(v, w),
         NEW front \in Texts, NEW back \in Texts, NEW piece \in Texts, CleanCut(front, back, values)
  PROVE  \E front2 \in Texts, back2 \in Texts :
           /\ front2 \o back2 = (front \o back) \o piece
           /\ CleanCut(front2, back2, values)
           /\ Write(WriterOf(front, back, values), piece, values) = WriterOf(front2, back2, values)
<1>1. values \in SUBSET Texts
  BY Zenon DEF AreSecrets
<1>2. PICK t \in Texts : t = back \o piece
  BY TextConcat
<1>3. PICK l : l = PendingLength(t, values) /\ l \in 0 .. Len(t)
  BY <1>1, PendingMeans
<1>4. PICK keep \in Texts, held \in Texts :
        /\ keep = SubSeq(t, 1, Len(t) - l) /\ Len(keep) = Len(t) - l
        /\ held = Suffix(t, l) /\ keep \o held = t
  BY <1>3, SplitText
<1>5. PICK front2 \in Texts : front2 = front \o keep
  BY TextConcat
<1>6. IsConcat(t, back, piece) /\ IsConcat(t, keep, held) /\ Len(keep) = Len(t) - PendingLength(t, values)
  BY <1>2, <1>3, <1>4, Zenon DEF IsConcat
<1>7. CleanCut(front2, held, values)
  <2>1. CleanCut(front \o keep, held, values)
    BY <1>6, CutStaysClean, Zenon
  <2> QED
    BY <1>5, <2>1
<1>8. front2 \o held = (front \o back) \o piece
  <2>1. PICK r \in Texts, s \in Texts, fb \in Texts : r = front2 \o held /\ fb = front \o back /\ s = fb \o piece
    BY TextConcat, Zenon
  <2>2. IsConcat(r, front2, held) /\ IsConcat(front2, front, keep) /\ IsConcat(fb, front, back) /\ IsConcat(s, fb, piece)
    BY <1>5, <2>1, Zenon DEF IsConcat
  <2>3. IsConcat(s, front, t)
    <3>1. IsConcat(fb, front, back) /\ IsConcat(t, back, piece) /\ IsConcat(s, fb, piece)
      BY <1>6, <2>2
    <3> QED
      BY <3>1, Regrouped, Zenon
  <2>4. IsConcat(s, front2, held)
    BY <1>6, <2>2, <2>3, RegroupedBack, Zenon
  <2> QED
    BY <2>1, <2>4, Zenon DEF IsConcat
<1>9. AllApart(front, keep, values)
  <2>1. AllApart(front, back \o piece, values)
    BY Zenon DEF CleanCut
  <2>2. AllApart(front, keep \o held, values)
    BY <1>2, <1>4, <2>1
  <2>3. ASSUME NEW w \in values, IsSecret(w)
        PROVE  LiesApart(front, keep, w)
    <3>1. LiesApart(front, keep \o held, w)
      BY <2>2, <2>3, Zenon DEF AllApart
    <3>2. w \in Texts
      BY <1>1
    <3> QED
      BY <3>1, <3>2, ApartFromBeginning, Zenon
  <2> QED
    BY <2>3, Zenon DEF AllApart
<1>10. RedactValues(front2, values) = RedactValues(front, values) \o RedactValues(keep, values)
  <2>1. RedactValues(front \o keep, values) = RedactValues(front, values) \o RedactValues(keep, values)
    BY <1>9, RedactConcat
  <2> QED
    BY <1>5, <2>1
<1>11. Write(WriterOf(front, back, values), piece, values) = WriterOf(front2, held, values)
  <2>0. PICK writer : writer = [pending |-> back, out |-> RedactValues(front, values)]
    OBVIOUS
  <2>1. /\ writer = WriterOf(front, back, values)
        /\ writer.pending = back /\ writer.out = RedactValues(front, values)
    BY <2>0 DEF WriterOf
  <2>2. Write(writer, piece, values) =
          [pending |-> Suffix(t, l), out |-> writer.out \o RedactValues(SubSeq(t, 1, Len(t) - l), values)]
    BY <1>2, <1>3, <2>1 DEF Write
  <2>3. Write(writer, piece, values) = [pending |-> held, out |-> RedactValues(front2, values)]
    BY <1>4, <1>10, <2>1, <2>2
  <2> QED
    BY <2>1, <2>3 DEF WriterOf
<1> QED
  BY <1>7, <1>8, <1>11

Writers == [pending : Texts, out : Texts]

LEMMA WriteTyped ==
  ASSUME NEW values, AreSecrets(values), NEW writer \in Writers, NEW piece \in Texts
  PROVE  Write(writer, piece, values) \in Writers
<1>1. values \in SUBSET Texts
  BY Zenon DEF AreSecrets
<1>2. writer.pending \in Texts /\ writer.out \in Texts
  BY DEF Writers
<1>3. PICK t \in Texts : t = writer.pending \o piece
  BY <1>2, TextConcat
<1>4. PICK l : l = PendingLength(t, values) /\ l \in 0 .. Len(t)
  BY <1>1, PendingMeans
<1>5. PICK keep \in Texts, held \in Texts :
        /\ keep = SubSeq(t, 1, Len(t) - l) /\ Len(keep) = Len(t) - l
        /\ held = Suffix(t, l) /\ keep \o held = t
  BY <1>4, SplitText
<1>6. Write(writer, piece, values) = [pending |-> held, out |-> writer.out \o RedactValues(keep, values)]
  BY <1>3, <1>4, <1>5 DEF Write
<1>7. RedactValues(keep, values) \in Texts
  BY RedactTyped
<1>8. writer.out \o RedactValues(keep, values) \in Texts
  BY <1>2, <1>7, TextConcat
<1> QED
  BY <1>6, <1>8 DEF Writers

LEMMA WrittenStepwise ==
  ASSUME NEW pieces \in Seq(Texts), NEW values, AreSecrets(values)
  PROVE  \E acc : /\ acc[0] = NewWriter
                  /\ \A n \in 1 .. Len(pieces) : acc[n] = Write(acc[n - 1], pieces[n], values)
                  /\ Written(pieces, values) = Flush(acc[Len(pieces)], values)
<1>1. PICK N : N = Len(pieces) /\ N \in Nat /\ DOMAIN pieces = 1 .. N /\ \A n \in 1 .. N : pieces[n] \in Texts
  OBVIOUS
<1> DEFINE step == [n \in 1 .. N |-> [w \in Writers |-> Write(w, pieces[n], values)]]
           base == NewWriter
<1>2. base \in Writers
  BY DEF NewWriter, Writers, Texts
<1>3. step \in [1 .. N -> [Writers -> Writers]]
  <2>1. \A n \in 1 .. N : \A w \in Writers : Write(w, pieces[n], values) \in Writers
    BY <1>1, WriteTyped, Zenon
  <2> QED
    BY <2>1
<1>4. PICK e : IsFold(e, N, base, step) /\ \A S \in SUBSET (1 .. N) : e[S] \in Writers
  <2> HIDE DEF step, base
  <2> QED
    BY <1>1, <1>2, <1>3, FoldExists, Zenon
<1>5. ASSUME NEW S \in SUBSET (1 .. N), S # {}
      PROVE  step[Max(S)][e[S \ {Max(S)}]] = Write(e[S \ {Max(S)}], pieces[Max(S)], values)
  <2>1. PICK m, R : m = Max(S) /\ R = S \ {m}
    OBVIOUS
  <2>2. m \in 1 .. N /\ e[R] \in Writers
    BY <1>1, <1>4, <1>5, <2>1, MaxOfPart
  <2> QED
    BY <2>1, <2>2
<1>6. e = [S \in SUBSET (1 .. N) |-> IF S = {} THEN base ELSE Write(e[S \ {Max(S)}], pieces[Max(S)], values)]
  <2> HIDE DEF step, base
  <2> QED
    BY <1>4, <1>5 DEF IsFold
<1>7. PICK it : /\ it = [S \in SUBSET (1 .. N) |->
                           IF S = {} THEN base ELSE Write(it[S \ {Max(S)}], pieces[Max(S)], values)]
                /\ Written(pieces, values) = Flush(it[1 .. N], values)
  <2> HIDE DEF step
  <2> QED
    BY <1>1, <1>6, Zenon DEF Written, FoldLeft, MapThenFoldSet
<1>8. PICK acc : /\ acc[0] = it[{}] /\ acc[N] = it[1 .. N]
                 /\ \A n \in 1 .. N : acc[n] = it[1 .. n] /\ acc[n - 1] = it[(1 .. n) \ {n}]
  <2>1. N \in Nat
    BY <1>1
  <2> HIDE DEF step, base
  <2>2. PICK other : IsUnfolding(other, it, N)
    BY <2>1, FoldPrefixes, Zenon
  <2> QED
    BY <2>2, Zenon DEF IsUnfolding
<1> HIDE DEF step
<1>9. acc[0] = NewWriter
  BY <1>7, <1>8
<1> HIDE DEF base
<1>10. ASSUME NEW n \in 1 .. N
       PROVE  acc[n] = Write(acc[n - 1], pieces[n], values)
  <2>1. Max(1 .. n) = n /\ 1 .. n # {}
    BY <1>1, MaxOfTop
  <2>2. 1 .. n \in SUBSET (1 .. N)
    BY <1>1
  <2>3. it[1 .. n] = Write(it[(1 .. n) \ {n}], pieces[n], values)
    BY <1>7, <2>1, <2>2
  <2> QED
    BY <1>8, <2>3
<1> QED
  BY <1>1, <1>7, <1>8, <1>9, <1>10

(* The writer holds the end of what has come, and has written the rest.      *)
Holds(writer, text, values) ==
  \E front \in Texts, back \in Texts :
    front \o back = text /\ CleanCut(front, back, values) /\ writer = WriterOf(front, back, values)

LEMMA HoldsAtFirst ==
  ASSUME NEW values, AreSecrets(values)
  PROVE  Holds(NewWriter, <<>>, values)
<1>1. PICK nothing \in Texts : nothing = <<>> /\ Len(nothing) = 0 /\ nothing \o nothing = nothing
  BY EmptyText, Zenon
<1>2. \A i \in Nat : 0 <= i
  OBVIOUS
<1>3. CleanCut(nothing, nothing, values)
  BY <1>1, <1>2, Zenon DEF CleanCut, AllApart, LiesApart
<1>4. NewWriter = WriterOf(nothing, nothing, values)
  BY <1>1, RedactNothing DEF NewWriter, WriterOf
<1> QED
  BY <1>1, <1>3, <1>4, Zenon DEF Holds

LEMMA HoldsAtLast ==
  ASSUME NEW values, AreSecrets(values), NEW writer, NEW text, Holds(writer, text, values)
  PROVE  Flush(writer, values) = RedactValues(text, values)
<1>1. PICK front \in Texts, back \in Texts :
        front \o back = text /\ CleanCut(front, back, values) /\ writer = WriterOf(front, back, values)
  BY Zenon DEF Holds
<1>2. <<>> \in Texts /\ back \o <<>> = back
  BY DEF Texts
<1>3. AllApart(front, back, values)
  <2>1. AllApart(front, back \o <<>>, values)
    BY <1>1, <1>2, Zenon DEF CleanCut
  <2> QED
    BY <1>2, <2>1
<1>4. RedactValues(front \o back, values) = RedactValues(front, values) \o RedactValues(back, values)
  BY <1>3, RedactConcat
<1> QED
  BY <1>1, <1>4 DEF Flush, WriterOf

(* Output that comes in pieces is redacted as if it had come at once,        *)
(* wherever the pieces end, if no value ends as one begins.                 *)
THEOREM OutputIsRedactedAsOne ==
  ASSUME NEW pieces \in Seq(Texts), NEW values, AreSecrets(values), \A v, w \in values : ~Overlaps(v, w)
  PROVE  Written(pieces, values) = RedactValues(FlattenSeq(pieces), values)
<1>1. PICK N : N = Len(pieces) /\ N \in Nat /\ \A n \in 1 .. N : pieces[n] \in Texts
  OBVIOUS
<1>2. PICK acc : /\ acc[0] = NewWriter
                 /\ \A n \in 1 .. Len(pieces) : acc[n] = Write(acc[n - 1], pieces[n], values)
                 /\ Written(pieces, values) = Flush(acc[Len(pieces)], values)
  BY WrittenStepwise, Zenon
<1>3. PICK sofar : /\ sofar[0] = <<>>
                   /\ \A n \in 1 .. Len(pieces) : sofar[n] = sofar[n - 1] \o pieces[n]
                   /\ \A n \in 0 .. Len(pieces) : sofar[n] \in Seq(Nat)
                   /\ FlattenSeq(pieces) = sofar[Len(pieces)]
  BY FlattenStepwise, Zenon DEF Texts
<1> DEFINE X == {n \in 0 .. N : Holds(acc[n], sofar[n], values)}
<1>4. 0 \in X
  <2>1. Holds(acc[0], sofar[0], values)
    BY <1>2, <1>3, HoldsAtFirst
  <2> QED
    BY <1>1, <2>1
<1>5. ASSUME NEW n \in 0 .. N - 1, n \in X
      PROVE  n + 1 \in X
  <2>1. n + 1 \in 1 .. N /\ (n + 1) - 1 = n /\ n + 1 \in 0 .. N
    BY <1>1
  <2>2. PICK piece \in Texts : piece = pieces[n + 1]
    BY <1>1, <2>1
  <2>3. acc[n + 1] = Write(acc[n], piece, values) /\ sofar[n + 1] = sofar[n] \o piece
    BY <1>1, <1>2, <1>3, <2>1, <2>2
  <2>4. PICK front \in Texts, back \in Texts :
          front \o back = sofar[n] /\ CleanCut(front, back, values) /\ acc[n] = WriterOf(front, back, values)
    BY <1>5, Zenon DEF Holds
  <2>5. PICK front2 \in Texts, back2 \in Texts :
          /\ front2 \o back2 = (front \o back) \o piece
          /\ CleanCut(front2, back2, values)
          /\ Write(WriterOf(front, back, values), piece, values) = WriterOf(front2, back2, values)
    BY <2>4, WriteGoesOn, Zenon
  <2>6. front2 \o back2 = sofar[n + 1] /\ acc[n + 1] = WriterOf(front2, back2, values)
    BY <2>3, <2>4, <2>5
  <2>7. Holds(acc[n + 1], sofar[n + 1], values)
    BY <2>5, <2>6, Zenon DEF Holds
  <2> QED
    BY <2>1, <2>7
<1>6. N \in X
  <2> HIDE DEF X
  <2> QED
    BY <1>1, <1>4, <1>5, ByInduction, Zenon
<1>7. Flush(acc[N], values) = RedactValues(sofar[N], values)
  BY <1>6, HoldsAtLast
<1> QED
  BY <1>1, <1>2, <1>3, <1>7

(* What the two theorems about logs say of an input of each kind.            *)
THEOREM LogsAreSafe ==
  ASSUME input.of = "pieces" => input.pieces \in Seq(Texts),
         input.of = "redact" => input.pieces \in Seq(Texts) /\ AreSecrets(input.values)
  PROVE  LogTextIsSafe
<1>1. LimitCutsOnce
  BY LogsOfPiecesAreCutOnce, Zenon DEF Texts
<1>2. RedactionSpansWrites
  BY OutputIsRedactedAsOne, Zenon DEF RedactionSpansWrites
<1> QED
  BY <1>1, <1>2 DEF LogTextIsSafe
=============================================================================
