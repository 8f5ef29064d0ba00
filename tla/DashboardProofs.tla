-------------------------- MODULE DashboardProofs --------------------------
(***************************************************************************)
(* Theorems about Dashboard, for every set of apps, views and filters and   *)
(* every bound: the screen stays consistent, a dialog keeps its app, and     *)
(* every request is for what the operator sees.                             *)
(***************************************************************************)
EXTENDS Dashboard, FiniteSetTheorems, SequenceTheorems, WellFoundedInduction, TLAPS

(* Every set of natural numbers has a smallest one. *)
LEMMA LeastNatural ==
  ASSUME NEW S, S \subseteq Nat, S # {}
  PROVE  \E x \in S : \A y \in S : x <= y
<1>1. IsWellFoundedOn(OpToRel(<, Nat), Nat)
  BY NatLessThanWellFounded
<1>2. PICK x \in S : \A y \in S : ~ (<<y, x>> \in OpToRel(<, Nat))
  BY <1>1, WFMin
<1>3. \A y \in S : ~ (y < x)
  BY <1>2 DEF OpToRel
<1> QED
  BY <1>3

(* Some positions of a list have a last one. *)
LEMMA LastPosition ==
  ASSUME NEW m \in Nat, NEW S \in SUBSET (1 .. m), S # {}
  PROVE  \E x \in S : \A y \in S : y <= x
<1> DEFINE Back == {m - x : x \in S}
<1>1. Back \subseteq Nat
  <2>1. \A x \in S : m - x \in Nat
    OBVIOUS
  <2> QED
    BY <2>1
<1>0. Back # {}
  OBVIOUS
<1>2. PICK b \in Back : \A y \in Back : b <= y
  BY <1>1, <1>0, LeastNatural
<1>3. PICK x \in S : b = m - x
  BY <1>2
<1>4. ASSUME NEW y \in S
      PROVE  y <= x
  <2>1. b <= m - y
    BY <1>2
  <2> QED
    BY <1>3, <2>1
<1> QED
  BY <1>4

(* Positions can be put in order, *)
Increasing(S, at) == at \in [1 .. Cardinality(S) -> S] /\ \A i, j \in DOMAIN at : i < j => at[i] < at[j]

LEMMA OrderExists ==
  ASSUME NEW m \in Nat, NEW S \in SUBSET (1 .. m)
  PROVE  \E at : Increasing(S, at)
<1> DEFINE Stuck == {n \in Nat : \E T \in SUBSET (1 .. m) : Cardinality(T) = n /\ ~ \E at : Increasing(T, at)}
<1>1. \A T \in SUBSET (1 .. m) : IsFiniteSet(T) /\ Cardinality(T) \in Nat
  <2>1. IsFiniteSet(1 .. m)
    BY FS_Interval
  <2> QED
    BY <2>1, FS_Subset, FS_CardinalityType
<1>2. SUFFICES ASSUME Stuck # {} PROVE FALSE
  BY <1>1
<1>3. PICK n \in Stuck : \A k \in Stuck : n <= k
  BY <1>2, LeastNatural
<1>4. PICK T \in SUBSET (1 .. m) : Cardinality(T) = n /\ ~ \E at : Increasing(T, at)
  BY <1>3
<1>0. T \subseteq Nat
  OBVIOUS
<1>5. T # {}
  <2>1. ASSUME T = {}
        PROVE  Increasing(T, [i \in 1 .. 0 |-> i])
    BY <2>1, FS_EmptySet DEF Increasing
  <2> QED
    BY <1>4, <2>1
<1>6. PICK x \in T : \A y \in T : y <= x
  BY <1>5, LastPosition
<1>7. T \ {x} \in SUBSET (1 .. m) /\ Cardinality(T \ {x}) = n - 1 /\ n - 1 \in Nat
  <2>1. IsFiniteSet(T) /\ Cardinality(T) = n /\ n \in Nat
    BY <1>1, <1>4
  <2>2. Cardinality(T \ {x}) = n - 1
    BY ONLY <2>1, x \in T, FS_RemoveElement
  <2>3. n # 0
    BY ONLY <2>1, x \in T, FS_EmptySet
  <2>4. n - 1 \in Nat
    BY ONLY <2>1, <2>3
  <2>5. T \ {x} \in SUBSET (1 .. m)
    OBVIOUS
  <2> QED
    BY ONLY <2>2, <2>4, <2>5
<1>8. PICK at : Increasing(T \ {x}, at)
  BY <1>3, <1>7
<1> DEFINE more == [i \in 1 .. n |-> IF i = n THEN x ELSE at[i]]
<1>9. Increasing(T, more)
  <2>1. at \in [1 .. n - 1 -> T \ {x}]
    BY <1>7, <1>8 DEF Increasing
  <2>2. more \in [1 .. n -> T]
    BY <1>7, <2>1
  <2>3. ASSUME NEW i \in 1 .. n, NEW j \in 1 .. n, i < j
        PROVE  more[i] < more[j]
    <3>1. i \in 1 .. n - 1 /\ more[i] = at[i] /\ at[i] \in T \ {x}
      BY <1>7, <2>1, <2>3
    <3>2. CASE j = n
      <4>1. more[j] = x
        BY <3>2
      <4>2. at[i] # x /\ at[i] <= x
        BY <1>6, <3>1
      <4>3. x \in Nat /\ at[i] \in Nat
        BY <1>0, <3>1
      <4> QED
        BY <3>1, <4>1, <4>2, <4>3
    <3>3. CASE j # n
      <4>1. j \in 1 .. n - 1 /\ more[j] = at[j]
        BY <1>7, <3>3
      <4>2. at[i] < at[j]
        BY <1>8, <2>1, <2>3, <3>1, <4>1 DEF Increasing
      <4> QED
        BY <3>1, <4>1, <4>2
    <3> QED
      BY <3>2, <3>3
  <2> QED
    BY <1>4, <2>2, <2>3 DEF Increasing
<1> QED
  BY <1>4, <1>9

(* and InOrder does: it has each of them once. *)
LEMMA InOrderIs ==
  ASSUME NEW m \in Nat, NEW S \in SUBSET (1 .. m)
  PROVE  /\ Cardinality(S) \in Nat
         /\ InOrder(S) \in [1 .. Cardinality(S) -> S]
         /\ \A j \in S : \E i \in 1 .. Cardinality(S) : InOrder(S)[i] = j
<1>1. IsFiniteSet(S) /\ Cardinality(S) \in Nat
  <2>1. IsFiniteSet(1 .. m)
    BY FS_Interval
  <2> QED
    BY <2>1, FS_Subset, FS_CardinalityType
<1>2. Increasing(S, InOrder(S))
  BY OrderExists DEF Increasing, InOrder
<1>3. InOrder(S) \in Injection(1 .. Cardinality(S), S)
  <2> DEFINE at == InOrder(S)
  <2>1. at \in [1 .. Cardinality(S) -> S] /\ \A i, j \in 1 .. Cardinality(S) : i < j => at[i] < at[j]
    BY <1>2 DEF Increasing
  <2>2. ASSUME NEW i \in 1 .. Cardinality(S), NEW j \in 1 .. Cardinality(S), at[i] = at[j]
        PROVE  i = j
    <3>0. S \subseteq Nat
      OBVIOUS
    <3>1. at[i] \in Nat
      BY <2>1, <3>0
    <3>2. ~(at[i] < at[j]) /\ ~(at[j] < at[i])
      BY <2>2, <3>1
    <3>3. ~(i < j) /\ ~(j < i)
      BY <2>1, <3>2
    <3> QED
      BY <1>1, <3>3
  <2> QED
    BY <2>1, <2>2 DEF Injection, IsInjective
<1>4. Cardinality(1 .. Cardinality(S)) = Cardinality(S)
  BY <1>1, FS_Interval
<1>5. InOrder(S) \in Surjection(1 .. Cardinality(S), S)
  BY <1>1, <1>3, <1>4, FS_Injection
<1> QED
  BY <1>1, <1>2, <1>5 DEF Increasing, Surjection

(* The apps of a list at some of its positions, in its order. *)
At(list, S) == [n \in DOMAIN InOrder(S) |-> list[InOrder(S)[n]]]

LEMMA AtIs ==
  ASSUME NEW m \in Nat, NEW S \in SUBSET (1 .. m), NEW list, DOMAIN list = 1 .. m
  PROVE  /\ Len(At(list, S)) \in Nat /\ DOMAIN At(list, S) = 1 .. Len(At(list, S))
         /\ At(list, S) \in Seq(Range(list))
         /\ \A i \in DOMAIN At(list, S) : InOrder(S)[i] \in S /\ At(list, S)[i] = list[InOrder(S)[i]]
         /\ \A j \in S : \E i \in DOMAIN At(list, S) : InOrder(S)[i] = j
<1> DEFINE n == Cardinality(S)
<1>1. n \in Nat /\ InOrder(S) \in [1 .. n -> S] /\ \A j \in S : \E i \in 1 .. n : InOrder(S)[i] = j
  BY InOrderIs
<1>2. DOMAIN At(list, S) = 1 .. n /\ \A i \in 1 .. n : At(list, S)[i] = list[InOrder(S)[i]]
  BY <1>1 DEF At
<1>3. \A i \in 1 .. n : InOrder(S)[i] \in S /\ InOrder(S)[i] \in DOMAIN list
  <2>1. S \subseteq DOMAIN list
    OBVIOUS
  <2> QED
    BY <1>1, <2>1
<1>4. At(list, S) \in [1 .. n -> Range(list)]
  BY <1>1, <1>2, <1>3 DEF At, Range
<1>5. At(list, S) \in Seq(Range(list))
  BY <1>1, <1>4, SeqDef
<1>6. Len(At(list, S)) \in Nat /\ DOMAIN At(list, S) = 1 .. Len(At(list, S))
  BY <1>5, LenProperties
<1> QED
  BY <1>1, <1>2, <1>3, <1>5, <1>6

-----------------------------------------------------------------------------
(* The screen. *)

(* The rows are apps of the snapshot, each of which has a name of its own, *)
RowsAgree ==
  /\ Len(Rows) \in Nat /\ DOMAIN Rows = 1 .. Len(Rows) /\ (Rows # <<>> => Len(Rows) # 0)
  /\ \A i \in DOMAIN Rows : Rows[i] \in [name : Names, view : Views, logs : 0 .. requestID]
  /\ \A i \in DOMAIN Rows : \E j \in DOMAIN snapshot : Rows[i] = snapshot[j]
  /\ \A i, j \in DOMAIN snapshot : snapshot[i].name = snapshot[j].name => snapshot[i] = snapshot[j]
  /\ Selected \in Names \cup {None}
  /\ Selected # None => selected \in DOMAIN Rows /\ Selected = Rows[selected].name

ListTypeOK ==
  /\ [i \in DOMAIN snapshot |-> [name |-> snapshot[i].name, view |-> snapshot[i].view]] \in Lists
  /\ \A i \in DOMAIN snapshot : snapshot[i] \in [name : Names, view : Views, logs : 0 .. requestID]

(* and logs are followed on their tab only. *)
Consistent == ScreenIsConsistent /\ (followLogs => tab = "Logs")

LEMMA ListsAre ==
  ASSUME NEW list \in Lists
  PROVE  /\ \E m \in Nat : DOMAIN list = 1 .. m
         /\ \A i \in DOMAIN list : list[i] \in [name : Names, view : Views]
         /\ \A i, j \in DOMAIN list : list[i].name = list[j].name => i = j
<1>1. list \in SeqOf([name : Names, view : Views], Cardinality(Names))
  BY DEF Lists
<1>2. PICK m \in 0 .. Cardinality(Names) : list \in [1 .. m -> [name : Names, view : Views]]
  BY <1>1 DEF SeqOf
<1>3. m \in Nat
  BY <1>2
<1> QED
  BY <1>2, <1>3 DEF Lists

LEMMA SnapshotIs ==
  ListTypeOK => /\ \E m \in Nat : DOMAIN snapshot = 1 .. m
                /\ \A i, j \in DOMAIN snapshot : snapshot[i].name = snapshot[j].name => i = j
<1> DEFINE list == [i \in DOMAIN snapshot |-> [name |-> snapshot[i].name, view |-> snapshot[i].view]]
<1> SUFFICES ASSUME ListTypeOK
             PROVE  /\ \E m \in Nat : DOMAIN snapshot = 1 .. m
                    /\ \A i, j \in DOMAIN snapshot : snapshot[i].name = snapshot[j].name => i = j
  OBVIOUS
<1>1. list \in Lists
  BY DEF ListTypeOK
<1>2. DOMAIN list = DOMAIN snapshot /\ \A i \in DOMAIN snapshot : list[i].name = snapshot[i].name
  OBVIOUS
<1> HIDE DEF list
<1> QED
  BY <1>1, <1>2, ListsAre

LEMMA RowsFit == ListTypeOK => RowsAgree
<1> SUFFICES ASSUME ListTypeOK
             PROVE  RowsAgree
  OBVIOUS
<1> DEFINE S == Positions(snapshot)
<1>1. PICK m \in Nat : DOMAIN snapshot = 1 .. m
  BY SnapshotIs
<1>2. S \in SUBSET (1 .. m) /\ Rows = At(snapshot, S)
  BY <1>1 DEF Positions, Rows, RowsOf, At
<1> HIDE DEF S
<1>3. /\ Len(Rows) \in Nat /\ DOMAIN Rows = 1 .. Len(Rows) /\ Rows \in Seq(Range(snapshot))
      /\ \A i \in DOMAIN Rows : InOrder(S)[i] \in S /\ Rows[i] = snapshot[InOrder(S)[i]]
  <2>1. /\ Len(At(snapshot, S)) \in Nat /\ DOMAIN At(snapshot, S) = 1 .. Len(At(snapshot, S))
        /\ At(snapshot, S) \in Seq(Range(snapshot))
        /\ \A i \in DOMAIN At(snapshot, S) : InOrder(S)[i] \in S /\ At(snapshot, S)[i] = snapshot[InOrder(S)[i]]
    BY <1>1, <1>2, AtIs
  <2> QED
    BY <1>2, <2>1
<1>4. Rows # <<>> => Len(Rows) # 0
  BY <1>3, EmptySeq
<1>5. \A i \in DOMAIN Rows : \E j \in DOMAIN snapshot : Rows[i] = snapshot[j]
  BY <1>1, <1>2, <1>3
<1>6. \A i \in DOMAIN Rows : Rows[i] \in [name : Names, view : Views, logs : 0 .. requestID]
  BY <1>5 DEF ListTypeOK
<1>7. Selected \in Names \cup {None} /\ (Selected # None => selected \in DOMAIN Rows /\ Selected = Rows[selected].name)
  BY <1>6 DEF Selected
<1> QED
  BY <1>3, <1>4, <1>5, <1>6, <1>7, SnapshotIs DEF RowsAgree

LEMMA RowsFitAfter == ListTypeOK' => RowsAgree'
  BY RowsFit, PTL

(* Cursors that are clamped to some rows are on one of them. *)
LEMMA ClampIs ==
  ASSUME NEW index \in Int, NEW length \in Nat
  PROVE  /\ Clamp(index, length) \in Nat \ {0}
         /\ length # 0 => Clamp(index, length) \in 1 .. length
  BY DEF Clamp

(* What is under way. *)
LEMMA BagOps ==
  ASSUME NEW bag, IsABag(bag), NEW c
  PROVE  /\ IsABag(bag (+) SetToBag({c})) /\ DOMAIN (bag (+) SetToBag({c})) = DOMAIN bag \cup {c}
         /\ IsABag(bag (-) SetToBag({c})) /\ DOMAIN (bag (-) SetToBag({c})) \subseteq DOMAIN bag
         /\ DOMAIN bag \ {c} \subseteq DOMAIN (bag (-) SetToBag({c}))
<1> DEFINE less == [e \in DOMAIN bag |-> IF e = c THEN bag[e] - 1 ELSE bag[e]]
           kept == {e \in DOMAIN bag : less[e] > 0}
<1>1. \A e \in DOMAIN bag : bag[e] \in Nat /\ bag[e] > 0
  BY DEF IsABag
<1>2. bag (+) SetToBag({c}) = [e \in DOMAIN bag \cup {c} |-> (IF e \in DOMAIN bag THEN bag[e] ELSE 0) + (IF e = c THEN 1 ELSE 0)]
  BY DEF (+), SetToBag
<1>3. bag (-) SetToBag({c}) = [e \in kept |-> less[e]]
  BY DEF (-), SetToBag
<1>4. \A e \in kept : less[e] \in Nat /\ less[e] > 0
  BY <1>1
<1>5. kept \subseteq DOMAIN bag /\ DOMAIN bag \ {c} \subseteq kept
  BY <1>1
<1>6. IsABag(bag (+) SetToBag({c}))
  <2> DEFINE more == [e \in DOMAIN bag \cup {c} |-> (IF e \in DOMAIN bag THEN bag[e] ELSE 0) + (IF e = c THEN 1 ELSE 0)]
  <2>1. \A e \in DOMAIN bag \cup {c} : more[e] \in Nat /\ more[e] > 0
    BY <1>1
  <2>2. DOMAIN more = DOMAIN bag \cup {c} /\ more = [e \in DOMAIN more |-> more[e]]
    OBVIOUS
  <2> HIDE DEF more
  <2>3. more \in [DOMAIN more -> {n \in Nat : n > 0}]
    BY <2>1, <2>2
  <2> QED
    BY <1>2, <2>3 DEF IsABag, more
<1> HIDE DEF kept, less
<1>7. IsABag(bag (-) SetToBag({c}))
  BY <1>3, <1>4 DEF IsABag
<1> QED
  BY <1>2, <1>3, <1>5, <1>6, <1>7

(* A list whose snapshot and filter stay has the same rows. *)
LEMMA SameRows ==
  ASSUME UNCHANGED <<snapshot, filter>>
  PROVE  /\ Rows' = Rows
         /\ selected' = selected => Selected' = Selected /\ ActionChoices' = ActionChoices
<1>1. Positions(snapshot)' = Positions(snapshot)
  BY DEF Positions, Matches
<1>2. Rows' = Rows
  BY <1>1 DEF Rows, RowsOf
<1> QED
  BY <1>2 DEF Selected, ActionChoices

(* A command with the requests for logs up to number n made. *)
Valid(c, n) ==
  \/ c \in [kind : {"tick", "refresh", "refused"}]
  \/ c \in [kind : {"logs"}, app : Names, request : 1 .. n, follow : BOOLEAN]
  \/ c \in [kind : {"act"}, do : {"lifecycle", "choice", "attach", "remove"}, app : Names, item : Items \cup {None}]

(* Requests are numbered, *)
LEMMA LoadGrows ==
  ASSUME TypeOK, NEW asks, NEW follow, NEW others, Load(asks, follow, others)
  PROVE  requestID' \in 0 .. MaxRequests /\ requestID <= requestID'
<1>1. requestID \in Nat /\ requestID <= MaxRequests /\ MaxRequests \in Nat
  <2>1. MaxRequests \in Nat
    BY DashboardAssumption
  <2>2. requestID \in 0 .. MaxRequests
    BY DEF TypeOK
  <2> QED
    BY <2>1, <2>2
<1> QED
  BY <1>1 DEF Load

(* and logs asked for are those of the selected app. *)
LEMMA LoadIs ==
  ASSUME TypeOK, RowsAgree', NEW asks \in BOOLEAN, NEW follow \in BOOLEAN,
         NEW others, IsABag(others), DOMAIN others \subseteq DOMAIN commands, Load(asks, follow, others)
  PROVE  /\ IsABag(commands') /\ (\A c \in DOMAIN commands' : Valid(c, requestID'))
         /\ DOMAIN others \subseteq DOMAIN commands'
         /\ \A c \in DOMAIN commands' \ DOMAIN commands : c.kind = "logs"
         /\ ~asks => commands' = others /\ UNCHANGED requestID
         /\ asks => LogsMatchSelection'
         /\ asks /\ tab' = "Logs" /\ Selected' # None => \E c \in DOMAIN commands' : c.kind = "logs" /\ c.follow = follow
<1> DEFINE new == [kind |-> "logs", app |-> Selected', request |-> requestID', follow |-> follow]
<1>1. requestID' \in Nat /\ requestID \in Nat /\ requestID <= requestID'
  BY LoadGrows DEF TypeOK
<1>2. \A c \in DOMAIN commands : Valid(c, requestID')
  BY <1>1 DEF TypeOK, Command, Valid
<1>3. CASE asks /\ tab' = "Logs" /\ Selected' # None
  <2>1. requestID' = requestID + 1 /\ commands' = others (+) SetToBag({new})
    BY <1>3 DEF Load
  <2>2. Selected' \in Names
    BY <1>3 DEF RowsAgree
  <2>3. Valid(new, requestID')
    BY <1>1, <2>1, <2>2 DEF Valid
  <2> HIDE DEF new
  <2>4. IsABag(commands') /\ DOMAIN commands' = DOMAIN others \cup {new}
    BY <2>1, BagOps
  <2>5. new.kind = "logs" /\ new.app = Selected' /\ new.request = requestID' /\ new.follow = follow
    BY DEF new
  <2>6. LogsMatchSelection'
    BY <1>1, <2>1, <2>4, <2>5 DEF LogsMatchSelection
  <2>7. \A c \in DOMAIN commands' : Valid(c, requestID')
    BY <1>2, <2>3, <2>4
  <2>8. new \in DOMAIN commands' /\ DOMAIN others \subseteq DOMAIN commands'
    BY <2>4
  <2>9. \A c \in DOMAIN commands' \ DOMAIN commands : c.kind = "logs"
    BY <2>4, <2>5
  <2> QED
    BY <1>3, <2>4, <2>5, <2>6, <2>7, <2>8, <2>9
<1>4. CASE ~(asks /\ tab' = "Logs" /\ Selected' # None)
  <2>1. commands' = others /\ UNCHANGED requestID
    BY <1>4 DEF Load
  <2>2. asks => LogsMatchSelection'
    BY <1>4 DEF LogsMatchSelection
  <2> QED
    BY <1>2, <1>4, <2>1, <2>2
<1> QED
  BY <1>3, <1>4

LEMMA IssueIs ==
  ASSUME TypeOK, NEW c, Command(c), Issue(c)
  PROVE  /\ IsABag(commands') /\ (\A d \in DOMAIN commands' : Valid(d, requestID'))
         /\ DOMAIN commands' = DOMAIN commands \cup {c} /\ UNCHANGED requestID
<1>1. commands' = commands (+) SetToBag({c}) /\ UNCHANGED requestID
  BY DEF Issue
<1>2. IsABag(commands') /\ DOMAIN commands' = DOMAIN commands \cup {c}
  BY <1>1, BagOps DEF TypeOK
<1>3. \A d \in DOMAIN commands \cup {c} : Valid(d, requestID')
  BY <1>1 DEF TypeOK, Command, Valid
<1> QED
  BY <1>1, <1>2, <1>3

-----------------------------------------------------------------------------
(* What keeps the screen consistent. *)

LEMMA ConsistentAfter ==
  ASSUME ListTypeOK', RowsAgree', selected' \in Nat \ {0}, filter' \in Filters, filtering' \in BOOLEAN,
         tab' \in {"other", "Logs"}, mode' \in {"normal", "menu", "choice", "input", "confirm"},
         choice' \in Nat, typed' \in Texts, followLogs' \in BOOLEAN, requestID' \in 0 .. MaxRequests,
         IsABag(commands'), \A c \in DOMAIN commands' : Valid(c, requestID'),
         Rows' # <<>> => selected' \in 1 .. Len(Rows'), LogsMatchSelection', FollowGoesOn',
         followLogs' => tab' = "Logs"
  PROVE  Consistent'
<1>1. TypeOK'
  BY DEF TypeOK, ListTypeOK, Command, Valid
<1>2. SelectionIsARow'
  BY DEF SelectionIsARow, RowsAgree
<1> QED
  BY <1>1, <1>2 DEF Consistent, ScreenIsConsistent

(* What is known of a consistent screen. *)
LEMMA ConsistentIs ==
  Consistent => /\ TypeOK /\ ListTypeOK /\ RowsAgree /\ LogsMatchSelection /\ FollowGoesOn
                /\ selected \in Nat \ {0} /\ filter \in Filters /\ filtering \in BOOLEAN
                /\ tab \in {"other", "Logs"} /\ mode \in {"normal", "menu", "choice", "input", "confirm"}
                /\ choice \in Nat /\ typed \in Texts /\ followLogs \in BOOLEAN /\ requestID \in 0 .. MaxRequests
                /\ IsABag(commands) /\ (\A c \in DOMAIN commands : Command(c) /\ Valid(c, requestID))
                /\ (Rows # <<>> => selected \in 1 .. Len(Rows)) /\ (followLogs => tab = "Logs")
<1> SUFFICES ASSUME Consistent
             PROVE  /\ TypeOK /\ ListTypeOK /\ RowsAgree /\ LogsMatchSelection /\ FollowGoesOn
                    /\ selected \in Nat \ {0} /\ filter \in Filters /\ filtering \in BOOLEAN
                    /\ tab \in {"other", "Logs"} /\ mode \in {"normal", "menu", "choice", "input", "confirm"}
                    /\ choice \in Nat /\ typed \in Texts /\ followLogs \in BOOLEAN /\ requestID \in 0 .. MaxRequests
                    /\ IsABag(commands) /\ (\A c \in DOMAIN commands : Command(c) /\ Valid(c, requestID))
                    /\ (Rows # <<>> => selected \in 1 .. Len(Rows)) /\ (followLogs => tab = "Logs")
  OBVIOUS
<1>1. TypeOK /\ SelectionIsARow /\ LogsMatchSelection /\ FollowGoesOn /\ (followLogs => tab = "Logs")
  BY DEF Consistent, ScreenIsConsistent
<1>2. ListTypeOK
  BY <1>1 DEF TypeOK, ListTypeOK
<1>3. RowsAgree
  BY <1>2, RowsFit
<1>4. \A c \in DOMAIN commands : Command(c) /\ Valid(c, requestID)
  BY <1>1 DEF TypeOK, Command, Valid
<1>5. Rows # <<>> => selected \in 1 .. Len(Rows)
  BY <1>1, <1>3 DEF SelectionIsARow, RowsAgree
<1> QED
  BY <1>1, <1>2, <1>3, <1>4, <1>5 DEF TypeOK

(* A step that leaves the rows and what is on show, and every request and   *)
(* tick under way.                                                          *)
LEMMA QuietStep ==
  ASSUME Consistent, UNCHANGED <<snapshot, selected, filter, tab, requestID>>, filtering' \in BOOLEAN,
         mode' \in {"normal", "menu", "choice", "input", "confirm"}, choice' \in Nat, typed' \in Texts,
         followLogs' \in BOOLEAN, followLogs' => tab = "Logs" /\ FollowGoesOn',
         IsABag(commands'), \A c \in DOMAIN commands' : Valid(c, requestID'),
         \A c \in DOMAIN commands : c.kind = "logs" => c \in DOMAIN commands'
  PROVE  Consistent'
<1>1. Rows' = Rows /\ Selected' = Selected
  BY SameRows
<1>2. ListTypeOK'
  BY ConsistentIs DEF ListTypeOK
<1>3. RowsAgree'
  BY <1>2, RowsFitAfter
<1>4. LogsMatchSelection'
  BY <1>1, ConsistentIs DEF LogsMatchSelection
<1>5. FollowGoesOn'
  BY DEF FollowGoesOn
<1> QED
  BY <1>1, <1>2, <1>3, <1>4, <1>5, ConsistentIs, ConsistentAfter

(* A key that moves the selection. *)
LEMMA ListKeyRows ==
  ASSUME Consistent, ListKey
  PROVE  ListTypeOK' /\ RowsAgree'
<1>1. requestID' \in 0 .. MaxRequests /\ requestID <= requestID'
  BY LoadGrows, ConsistentIs DEF ListKey
<1>2. ListTypeOK'
  BY <1>1, ConsistentIs DEF ListTypeOK, ListKey
<1> QED
  BY <1>2, RowsFitAfter

LEMMA ListKeyKeeps ==
  ASSUME Consistent, ListKey, UNCHANGED choice, filter' \in Filters, filtering' \in BOOLEAN,
         selected' \in Nat \ {0}, Rows' # <<>> => selected' \in 1 .. Len(Rows')
  PROVE  Consistent'
<1>1. ListTypeOK' /\ RowsAgree' /\ requestID' \in 0 .. MaxRequests
  BY ListKeyRows, LoadGrows, ConsistentIs DEF ListKey
<1>2. UNCHANGED <<snapshot, mode, typed, tab, followLogs>> /\ Load(Selected' # Selected, FALSE, commands)
  BY DEF ListKey, logVars
<1>3. /\ IsABag(commands') /\ (\A c \in DOMAIN commands' : Valid(c, requestID'))
      /\ DOMAIN commands \subseteq DOMAIN commands'
      /\ Selected' = Selected => commands' = commands /\ UNCHANGED requestID
      /\ Selected' # Selected => LogsMatchSelection'
  BY <1>1, <1>2, LoadIs, ConsistentIs
<1>4. LogsMatchSelection'
  <2>1. CASE Selected' = Selected /\ Selected # None
    <3>1. Rows'[selected'] = Rows[selected]
      <4>1. /\ selected \in DOMAIN Rows /\ Selected = Rows[selected].name
            /\ \A i \in DOMAIN Rows : \E j \in DOMAIN snapshot : Rows[i] = snapshot[j]
            /\ \A i, j \in DOMAIN snapshot : snapshot[i].name = snapshot[j].name => snapshot[i] = snapshot[j]
        BY <2>1, ConsistentIs DEF RowsAgree
      <4>2. /\ selected' \in DOMAIN Rows' /\ Selected' = Rows'[selected'].name
            /\ \A i \in DOMAIN Rows' : \E j \in DOMAIN snapshot : Rows'[i] = snapshot[j]
        BY <1>1, <1>2, <2>1 DEF RowsAgree
      <4> QED
        BY <2>1, <4>1, <4>2
    <3> QED
      BY <1>2, <1>3, <2>1, <3>1, ConsistentIs DEF LogsMatchSelection
  <2>2. CASE Selected' = Selected /\ Selected = None
    BY <2>2 DEF LogsMatchSelection
  <2> QED
    BY <1>3, <2>1, <2>2
<1>5. FollowGoesOn'
  BY <1>2, <1>3, ConsistentIs DEF FollowGoesOn
<1> QED
  BY <1>1, <1>2, <1>3, <1>4, <1>5, ConsistentIs, ConsistentAfter

-----------------------------------------------------------------------------
(* Keys, one by one. *)

LEMMA MoveSelectionKeeps ==
  ASSUME Consistent, MoveSelection
  PROVE  Consistent'
<1>1. ListKey /\ UNCHANGED <<snapshot, filter, filtering, choice>>
  BY DEF MoveSelection, Key, ListKey
<1>2. Rows' = Rows
  BY <1>1, SameRows
<1>3. Len(Rows) \in Nat /\ (Rows # <<>> => Len(Rows) # 0) /\ selected \in Nat
  BY ConsistentIs DEF RowsAgree
<1>4. PICK i \in Int : selected' = Clamp(i, Len(Rows))
  BY <1>3 DEF MoveSelection
<1>5. selected' \in Nat \ {0} /\ (Rows' # <<>> => selected' \in 1 .. Len(Rows'))
  BY <1>2, <1>3, <1>4, ClampIs
<1> QED
  BY <1>1, <1>5, ListKeyKeeps, ConsistentIs

LEMMA FilterKeysKeep ==
  ASSUME Consistent, TypeFilter \/ ClearFilter \/ ApplyFilter
  PROVE  Consistent'
<1>1. ListKey /\ UNCHANGED <<snapshot, choice>>
  BY DEF TypeFilter, ClearFilter, ApplyFilter, Key, ListKey
<1>2. ListTypeOK' /\ RowsAgree'
  BY <1>1, ListKeyRows
<1>3. Rows' # <<>> => Len(Rows') \in Nat /\ Len(Rows') # 0
  BY <1>2 DEF RowsAgree
<1>4. Len(Rows) \in Nat /\ (Rows # <<>> => Len(Rows) # 0) /\ selected \in Nat \ {0}
  BY ConsistentIs DEF RowsAgree
<1>5. filter' \in Filters /\ filtering' \in BOOLEAN
  BY DashboardAssumption, ConsistentIs DEF TypeFilter, ClearFilter, ApplyFilter
<1>6. CASE selected' = 1
  BY <1>1, <1>3, <1>5, <1>6, ListKeyKeeps
<1>7. CASE ClearFilter /\ filter = ""
  <2>1. selected' = selected /\ filter' = filter
    BY <1>7 DEF ClearFilter
  <2>2. Rows' = Rows
    BY <1>1, <2>1, SameRows
  <2> QED
    BY <1>1, <1>4, <1>5, <2>1, <2>2, ListKeyKeeps, ConsistentIs
<1>8. CASE ApplyFilter
  <2>1. selected' = Clamp(selected, Len(Rows)) /\ filter' = filter
    BY <1>8 DEF ApplyFilter
  <2>2. Rows' = Rows
    BY <1>1, <2>1, SameRows
  <2>3. selected' \in Nat \ {0} /\ (Rows' # <<>> => selected' \in 1 .. Len(Rows'))
    BY <1>4, <2>1, <2>2, ClampIs
  <2> QED
    BY <1>1, <1>5, <2>3, ListKeyKeeps
<1>9. (TypeFilter \/ (ClearFilter /\ filter # "")) => selected' = 1
  BY DEF TypeFilter, ClearFilter
<1> QED
  BY <1>6, <1>7, <1>8, <1>9

LEMMA SwitchTabKeeps ==
  ASSUME Consistent, SwitchTab
  PROVE  Consistent'
<1>1. /\ UNCHANGED <<snapshot, selected, filter, filtering, mode, typed, choice>> /\ tab' \in {"other", "Logs"}
      /\ followLogs' = (followLogs /\ tab' = "Logs") /\ Load(TRUE, FALSE, commands)
  BY DEF SwitchTab, Key, listVars
<1>2. requestID' \in 0 .. MaxRequests /\ requestID <= requestID'
  BY <1>1, LoadGrows, ConsistentIs
<1>3. ListTypeOK' /\ Rows' = Rows
  BY <1>1, <1>2, SameRows, ConsistentIs DEF ListTypeOK
<1>4. RowsAgree'
  BY <1>3, RowsFitAfter
<1>5. /\ IsABag(commands') /\ (\A c \in DOMAIN commands' : Valid(c, requestID'))
      /\ DOMAIN commands \subseteq DOMAIN commands' /\ LogsMatchSelection'
  BY <1>1, <1>4, LoadIs, ConsistentIs
<1>6. FollowGoesOn' /\ followLogs' \in BOOLEAN /\ (followLogs' => tab' = "Logs")
  BY <1>1, <1>5, ConsistentIs DEF FollowGoesOn
<1> QED
  BY <1>1, <1>2, <1>3, <1>4, <1>5, <1>6, ConsistentIs, ConsistentAfter

LEMMA TicksAreCommands == Command([kind |-> "tick"]) /\ Command([kind |-> "refresh"]) /\ Command([kind |-> "refused"])
  BY DEF Command

LEMMA ToggleFollowKeeps ==
  ASSUME Consistent, ToggleFollow
  PROVE  Consistent'
<1>1. /\ UNCHANGED <<snapshot, selected, filter, filtering, tab, mode, typed, choice>> /\ tab = "Logs"
      /\ followLogs' = ~followLogs
  BY DEF ToggleFollow, Key, listVars
<1>2. CASE followLogs
  <2>1. UNCHANGED <<requestID, commands>>
    BY <1>2 DEF ToggleFollow, issueVars
  <2> QED
    BY <1>1, <1>2, <2>1, QuietStep, ConsistentIs
<1>3. CASE ~followLogs
  <2> DEFINE tick == [kind |-> "tick"]
  <2>1. Issue(tick) /\ tick.kind = "tick"
    BY <1>3 DEF ToggleFollow
  <2>2. Command(tick)
    BY TicksAreCommands
  <2> HIDE DEF tick
  <2>3. /\ IsABag(commands') /\ (\A d \in DOMAIN commands' : Valid(d, requestID'))
        /\ DOMAIN commands' = DOMAIN commands \cup {tick} /\ UNCHANGED requestID
    BY <2>1, <2>2, IssueIs, ConsistentIs
  <2>4. FollowGoesOn' /\ followLogs' \in BOOLEAN
    BY <1>1, <2>1, <2>3, ConsistentIs DEF FollowGoesOn
  <2> QED
    BY <1>1, <2>3, <2>4, QuietStep, ConsistentIs
<1> QED
  BY <1>2, <1>3

(* A key that leaves the list and the logs, and at most issues a command. *)
LEMMA OtherKeyKeeps ==
  ASSUME Consistent, UNCHANGED <<snapshot, selected, filter, tab, followLogs>>, filtering' \in BOOLEAN,
         mode' \in {"normal", "menu", "choice", "input", "confirm"}, choice' \in Nat, typed' \in Texts,
         UNCHANGED issueVars \/ \E c : Command(c) /\ Issue(c)
  PROVE  Consistent'
<1>1. CASE UNCHANGED issueVars
  BY <1>1, QuietStep, ConsistentIs DEF issueVars, FollowGoesOn
<1>2. ASSUME NEW c, Command(c), Issue(c)
      PROVE  Consistent'
  <2>1. /\ IsABag(commands') /\ (\A d \in DOMAIN commands' : Valid(d, requestID'))
        /\ DOMAIN commands \subseteq DOMAIN commands' /\ UNCHANGED requestID
    BY <1>2, IssueIs, ConsistentIs
  <2>2. FollowGoesOn'
    BY <2>1, ConsistentIs DEF FollowGoesOn
  <2> QED
    BY <2>1, <2>2, QuietStep, ConsistentIs
<1> QED
  BY <1>1, <1>2

(* The choices on offer are those of the selected app. *)
LEMMA ChoicesAre ==
  ASSUME Consistent
  PROVE  /\ Len(ActionChoices) \in Nat /\ DOMAIN ActionChoices = 1 .. Len(ActionChoices)
         /\ ActionChoices # <<>> => Len(ActionChoices) # 0
         /\ \A i \in DOMAIN ActionChoices : ActionChoices[i] \in Items
<1>1. ActionChoices \in Seq(Items)
  <2>1. CASE Selected = None
    BY <2>1, EmptySeq DEF ActionChoices
  <2>2. CASE Selected # None
    <3>1. selected \in DOMAIN Rows /\ Rows[selected].view \in Views
      BY <2>2, ConsistentIs DEF RowsAgree
    <3> QED
      BY <2>2, <3>1, DashboardAssumption DEF ActionChoices
  <2> QED
    BY <2>1, <2>2
<1>2. Len(ActionChoices) \in Nat /\ DOMAIN ActionChoices = 1 .. Len(ActionChoices)
  BY <1>1, LenProperties
<1>3. ActionChoices # <<>> => Len(ActionChoices) # 0
  BY <1>1, EmptySeq
<1>4. \A i \in 1 .. Len(ActionChoices) : ActionChoices[i] \in Items
  BY <1>1, ElementOfSeq
<1> QED
  BY <1>2, <1>3, <1>4

(* A request is for the selected app. *)
LEMMA ExecuteIs ==
  ASSUME Consistent, NEW do \in {"lifecycle", "choice", "attach", "remove"}, NEW item \in Items \cup {None},
         ExecuteAction(do, item)
  PROVE  \E c : /\ Command(c) /\ Issue(c)
                /\ c.kind = "act" => c.app = Selected /\ c.do = do /\ c.item = item
<1>1. CASE Selected = None
  <2> DEFINE refused == [kind |-> "refused"]
  <2>1. Issue(refused) /\ refused.kind # "act"
    BY <1>1 DEF ExecuteAction
  <2>2. Command(refused)
    BY TicksAreCommands
  <2> HIDE DEF refused
  <2> QED
    BY <2>1, <2>2
<1>2. CASE Selected # None
  <2> DEFINE act == [kind |-> "act", do |-> do, app |-> Selected, item |-> item]
  <2>1. Issue(act) /\ act.app = Selected /\ act.do = do /\ act.item = item
    BY <1>2 DEF ExecuteAction
  <2>2. Selected \in Names
    BY <1>2, ConsistentIs DEF RowsAgree
  <2>3. Command(act)
    BY <2>2 DEF Command
  <2> HIDE DEF act
  <2> QED
    BY <2>1, <2>3
<1> QED
  BY <1>1, <1>2

(* What a choice that is executed names. *)
LEMMA ChosenIs ==
  ASSUME Consistent, ExecuteSelectedChoice
  PROVE  choice' \in DOMAIN ActionChoices /\ choice' \in Nat /\ ActionChoices[choice'] \in Items
<1>1. choice' = Clamp(choice, Len(ActionChoices)) /\ ActionChoices # <<>>
  BY DEF ExecuteSelectedChoice
<1>2. choice' \in 1 .. Len(ActionChoices)
  BY <1>1, ChoicesAre, ClampIs, ConsistentIs
<1> QED
  BY <1>2, ChoicesAre

(* The keys that issue requests, and what for. *)
LEMMA RequestKeys ==
  ASSUME Consistent, SelectAction \/ ExecuteSelectedChoice \/ ExecuteAttachInput \/ ExecuteRemoveConfirmation
  PROVE  \/ UNCHANGED issueVars
         \/ \E c : /\ Command(c) /\ Issue(c)
                   /\ c.kind = "act" =>
                        /\ c.app = Selected
                        /\ c.do = "choice" => \E i \in DOMAIN ActionChoices : ActionChoices[i] = c.item
                        /\ c.do = "remove" => typed = c.app
<1>1. CASE SelectAction
  <2>1. UNCHANGED issueVars \/ ExecuteAction("lifecycle", None)
    BY <1>1 DEF SelectAction
  <2> QED
    BY <2>1, ExecuteIs
<1>2. CASE ExecuteSelectedChoice
  <2>1. ExecuteAction("choice", ActionChoices[choice'])
    BY <1>2 DEF ExecuteSelectedChoice
  <2>2. PICK c : /\ Command(c) /\ Issue(c)
                 /\ c.kind = "act" => c.app = Selected /\ c.do = "choice" /\ c.item = ActionChoices[choice']
    BY <1>2, <2>1, ExecuteIs, ChosenIs
  <2> QED
    BY <1>2, <2>2, ChosenIs
<1>3. CASE ExecuteAttachInput
  <2>1. ExecuteAction("attach", None)
    BY <1>3 DEF ExecuteAttachInput
  <2> QED
    BY <2>1, ExecuteIs
<1>4. CASE ExecuteRemoveConfirmation
  <2>1. UNCHANGED issueVars \/ (typed = Selected /\ ExecuteAction("remove", None))
    BY <1>4 DEF ExecuteRemoveConfirmation
  <2> QED
    BY <2>1, ExecuteIs
<1> QED
  BY <1>1, <1>2, <1>3, <1>4

(* The keys of dialogs, and those that open one. *)
DialogKeys ==
  \/ OpenActionMenu \/ CloseAction \/ SelectAction \/ MoveChoice \/ ExecuteSelectedChoice
  \/ TypeText \/ ExecuteAttachInput \/ ExecuteRemoveConfirmation

LEMMA DialogKeysAre ==
  ASSUME Consistent, DialogKeys
  PROVE  /\ UNCHANGED <<snapshot, selected, filter, filtering, tab, followLogs>>
         /\ mode' \in {"normal", "menu", "choice", "input", "confirm"} /\ choice' \in Nat /\ typed' \in Texts
         /\ \/ UNCHANGED issueVars
            \/ SelectAction \/ ExecuteSelectedChoice \/ ExecuteAttachInput \/ ExecuteRemoveConfirmation
<1> USE DEF listVars, logVars, DialogKey
<1>1. mode \in {"normal", "menu", "choice", "input", "confirm"} /\ choice \in Nat /\ typed \in Texts
  BY ConsistentIs
<1>2. CASE OpenActionMenu
  BY <1>1, <1>2 DEF OpenActionMenu, Key, Texts
<1>3. CASE CloseAction
  BY <1>1, <1>3 DEF CloseAction, Texts
<1>4. CASE SelectAction
  BY <1>1, <1>4 DEF SelectAction, Texts
<1>5. CASE MoveChoice
  BY <1>1, <1>5, ChoicesAre DEF MoveChoice
<1>6. CASE ExecuteSelectedChoice
  BY <1>1, <1>6, ChosenIs DEF ExecuteSelectedChoice
<1>7. CASE TypeText
  BY <1>1, <1>7 DEF TypeText, Texts
<1>8. CASE ExecuteAttachInput
  BY <1>1, <1>8 DEF ExecuteAttachInput, dialogVars
<1>9. CASE ExecuteRemoveConfirmation
  BY <1>1, <1>9 DEF ExecuteRemoveConfirmation, Texts
<1> QED
  BY <1>2, <1>3, <1>4, <1>5, <1>6, <1>7, <1>8, <1>9 DEF DialogKeys

LEMMA DialogKeysKeep ==
  ASSUME Consistent, DialogKeys
  PROVE  Consistent'
<1>1. UNCHANGED issueVars \/ \E c : Command(c) /\ Issue(c)
  BY DialogKeysAre, RequestKeys
<1>2. /\ UNCHANGED <<snapshot, selected, filter, filtering, tab, followLogs>>
      /\ mode' \in {"normal", "menu", "choice", "input", "confirm"} /\ choice' \in Nat /\ typed' \in Texts
  BY DialogKeysAre
<1> QED
  BY <1>1, <1>2, OtherKeyKeeps, ConsistentIs

LEMMA PlainKeysKeep ==
  ASSUME Consistent, StartFiltering \/ Refresh
  PROVE  Consistent'
<1>1. /\ UNCHANGED <<snapshot, selected, filter, tab, followLogs, mode, typed, choice>>
      /\ filtering' \in BOOLEAN
  BY ConsistentIs DEF StartFiltering, Refresh, Key, listVars, logVars
<1>2. UNCHANGED issueVars \/ \E c : Command(c) /\ Issue(c)
  BY TicksAreCommands DEF StartFiltering, Refresh
<1> QED
  BY <1>1, <1>2, OtherKeyKeeps, ConsistentIs

-----------------------------------------------------------------------------
(* Messages, one by one. *)

(* A snapshot that arrives shows its apps. *)
LEMMA ShownIs ==
  ASSUME NEW list \in Lists, snapshot' = Shown(list), requestID' \in Nat
  PROVE  ListTypeOK'
<1>1. /\ \A i \in DOMAIN list : list[i] \in [name : Names, view : Views]
      /\ DOMAIN snapshot' = DOMAIN list
      /\ \A i \in DOMAIN list : snapshot'[i] = [name |-> list[i].name, view |-> list[i].view, logs |-> 0]
  BY ListsAre DEF Shown
<1>2. \A i \in DOMAIN snapshot' : snapshot'[i] \in [name : Names, view : Views, logs : 0 .. requestID']
  BY <1>1
<1>3. \A i \in DOMAIN list : [name |-> snapshot'[i].name, view |-> snapshot'[i].view] = list[i]
  BY <1>1
<1>4. list = [i \in DOMAIN list |-> list[i]]
  BY DEF Lists, SeqOf
<1>5. [i \in DOMAIN snapshot' |-> [name |-> snapshot'[i].name, view |-> snapshot'[i].view]] = list
  BY <1>1, <1>3, <1>4
<1> QED
  BY <1>2, <1>5 DEF ListTypeOK

LEMMA ShownRows ==
  ASSUME NEW list \in Lists, snapshot' = Shown(list), UNCHANGED filter
  PROVE  /\ DOMAIN Rows' = DOMAIN RowsOf(list)
         /\ \A i \in DOMAIN Rows' : Rows'[i].name = RowsOf(list)[i].name
<1> DEFINE S == Positions(list)
<1>1. PICK m \in Nat : DOMAIN list = 1 .. m
  BY ListsAre
<1>2. /\ DOMAIN snapshot' = DOMAIN list
      /\ \A i \in DOMAIN list : snapshot'[i].name = list[i].name /\ snapshot'[i].view = list[i].view
  BY DEF Shown
<1>3. S \in SUBSET (1 .. m) /\ RowsOf(list) = At(list, S)
  BY <1>1 DEF Positions, RowsOf, At
<1>4. Rows' = At(snapshot', S)
  <2>1. Positions(snapshot)' = S
    BY <1>2 DEF Positions, Matches
  <2> QED
    BY <2>1 DEF Rows, RowsOf, At
<1> HIDE DEF S
<1>5. \A i \in DOMAIN At(list, S) : InOrder(S)[i] \in DOMAIN list
  BY <1>1, <1>3, AtIs
<1>6. DOMAIN At(list, S) = DOMAIN InOrder(S) /\ DOMAIN At(snapshot', S) = DOMAIN InOrder(S)
  BY DEF At
<1>7. \A i \in DOMAIN InOrder(S) : At(list, S)[i] = list[InOrder(S)[i]] /\ At(snapshot', S)[i] = snapshot'[InOrder(S)[i]]
  BY DEF At
<1> QED
  BY <1>2, <1>3, <1>4, <1>5, <1>6, <1>7

(* The selection goes to the row of the same app, if there is one. *)
LEMMA IndexIs ==
  ASSUME NEW name, NEW list, NEW n \in Nat, DOMAIN RowsOf(list) = 1 .. n
  PROVE  /\ IndexFor(name, list) \in Nat \ {0}
         /\ n # 0 => IndexFor(name, list) \in 1 .. n
         /\ (\E i \in 1 .. n : RowsOf(list)[i].name = name) => RowsOf(list)[IndexFor(name, list)].name = name
<1>1. CASE \E i \in 1 .. n : RowsOf(list)[i].name = name
  <2>1. IndexFor(name, list) \in 1 .. n /\ RowsOf(list)[IndexFor(name, list)].name = name
    BY <1>1 DEF IndexFor
  <2> QED
    BY <2>1
<1>2. CASE ~\E i \in 1 .. n : RowsOf(list)[i].name = name
  <2>1. IndexFor(name, list) = 1
    BY <1>2 DEF IndexFor
  <2> QED
    BY <1>2, <2>1
<1> QED
  BY <1>1, <1>2

LEMMA SelectionFollows ==
  ASSUME Consistent, NEW list \in Lists, NEW c, ApplySnapshot(list, c)
  PROVE  /\ ListTypeOK' /\ RowsAgree' /\ requestID' \in 0 .. MaxRequests
         /\ selected' \in Nat \ {0} /\ (Rows' # <<>> => selected' \in 1 .. Len(Rows'))
         /\ Selected' # Selected => \A i \in DOMAIN Rows' : Rows'[i].name # Selected
<1>1. /\ snapshot' = Shown(list) /\ selected' = IndexFor(Selected, list) /\ UNCHANGED filter
      /\ Load(TRUE, FALSE, commands (-) SetToBag({c}))
  BY DEF ApplySnapshot
<1>2. requestID' \in 0 .. MaxRequests
  BY <1>1, LoadGrows, ConsistentIs
<1>0. requestID' \in Nat
  BY <1>2
<1>3. ListTypeOK' /\ RowsAgree'
  BY <1>0, <1>1, ShownIs, RowsFitAfter
<1>4. DOMAIN Rows' = DOMAIN RowsOf(list) /\ \A i \in DOMAIN Rows' : Rows'[i].name = RowsOf(list)[i].name
  BY <1>1, ShownRows
<1> DEFINE n == Len(Rows')
<1>5. n \in Nat /\ DOMAIN RowsOf(list) = 1 .. n /\ (Rows' # <<>> => n # 0)
  BY <1>3, <1>4 DEF RowsAgree
<1>6. /\ selected' \in Nat \ {0} /\ (n # 0 => selected' \in 1 .. n)
      /\ (\E i \in 1 .. n : RowsOf(list)[i].name = Selected) => RowsOf(list)[selected'].name = Selected
  BY <1>1, <1>5, IndexIs
<1>7. ASSUME NEW i \in DOMAIN Rows', Rows'[i].name = Selected
      PROVE  Selected' = Selected
  <2>1. i \in 1 .. n /\ RowsOf(list)[i].name = Selected
    BY <1>4, <1>5, <1>7
  <2>2. RowsOf(list)[selected'].name = Selected /\ n # 0
    BY <1>5, <1>6, <2>1
  <2>3. selected' \in DOMAIN Rows'
    BY <1>4, <1>5, <1>6, <2>2
  <2>4. Rows'[selected'].name = Selected
    BY <1>4, <2>2, <2>3
  <2> QED
    BY <2>3, <2>4 DEF Selected
<1> QED
  BY <1>2, <1>3, <1>5, <1>6, <1>7

(* An action or a refresh is no link of the chain that follows. *)
LEMMA ApplyKeeps ==
  ASSUME Consistent, NEW c \in DOMAIN commands, c.kind \notin {"logs", "tick"}, UNCHANGED choice,
         mode' \in {"normal", "menu", "choice", "input", "confirm"}, typed' \in Texts, Apply(c)
  PROVE  Consistent'
<1> DEFINE others == commands (-) SetToBag({c})
<1>1. IsABag(others) /\ DOMAIN others \subseteq DOMAIN commands /\ DOMAIN commands \ {c} \subseteq DOMAIN others
  BY BagOps, ConsistentIs
<1>2. CASE Fails(c)
  <2>1. UNCHANGED <<snapshot, selected, filter, filtering, tab, followLogs, requestID>> /\ commands' = others
    BY <1>2 DEF Fails, listVars, logVars
  <2>2. FollowGoesOn'
    BY <1>1, <2>1, ConsistentIs DEF FollowGoesOn
  <2>3. \A d \in DOMAIN commands' : Valid(d, requestID')
    BY <1>1, <2>1, ConsistentIs
  <2> QED
    BY <1>1, <2>1, <2>2, <2>3, QuietStep, ConsistentIs
<1>3. ASSUME NEW list \in Lists, ApplySnapshot(list, c)
      PROVE  Consistent'
  <2>1. Load(TRUE, FALSE, others) /\ UNCHANGED <<filter, filtering, tab, followLogs>>
    BY <1>3 DEF ApplySnapshot, logVars
  <2>2. /\ ListTypeOK' /\ RowsAgree' /\ requestID' \in 0 .. MaxRequests
        /\ selected' \in Nat \ {0} /\ (Rows' # <<>> => selected' \in 1 .. Len(Rows'))
    BY <1>3, SelectionFollows
  <2> HIDE DEF others
  <2>3. /\ IsABag(commands') /\ (\A d \in DOMAIN commands' : Valid(d, requestID'))
        /\ DOMAIN others \subseteq DOMAIN commands' /\ LogsMatchSelection'
    BY <1>1, <2>1, <2>2, LoadIs, ConsistentIs
  <2>4. FollowGoesOn'
    BY <1>1, <2>1, <2>3, ConsistentIs DEF FollowGoesOn
  <2> QED
    BY <2>1, <2>2, <2>3, <2>4, ConsistentIs, ConsistentAfter
<1> QED
  BY <1>2, <1>3 DEF Apply, Outcomes

LEMMA RefreshedKeeps ==
  ASSUME Consistent, NEW c \in DOMAIN commands, Refreshed(c)
  PROVE  Consistent'
  BY ApplyKeeps, ConsistentIs DEF Refreshed, Receive

LEMMA ActedKeeps ==
  ASSUME Consistent, NEW c \in DOMAIN commands, Acted(c)
  PROVE  Consistent'
<1>1. UNCHANGED choice /\ mode' = "normal" /\ typed' \in Texts /\ c.kind \notin {"logs", "tick"} /\ Apply(c)
  BY DEF Acted, Receive, Texts
<1> QED
  BY <1>1, ApplyKeeps

(* Logs that arrive are shown where they belong. *)
LEMMA LogsReadIs ==
  ASSUME Consistent, NEW c \in DOMAIN commands, LogsRead(c)
  PROVE  /\ ListTypeOK' /\ DOMAIN Rows' = DOMAIN Rows
         /\ \A i \in DOMAIN Rows : /\ Rows'[i].name = Rows[i].name /\ Rows'[i].view = Rows[i].view
                                   /\ Rows'[i].logs = IF Rows[i].name = c.app /\ c.request = requestID THEN requestID ELSE Rows[i].logs
         /\ Selected' = Selected
<1> DEFINE S == Positions(snapshot)
<1>1. PICK m \in Nat : DOMAIN snapshot = 1 .. m
  BY SnapshotIs, ConsistentIs
<1>2. \A i \in DOMAIN snapshot : snapshot[i] \in [name : Names, view : Views, logs : 0 .. requestID]
  BY ConsistentIs DEF ListTypeOK
<1>3. c.kind = "logs" /\ c.request \in 1 .. requestID /\ requestID \in Nat
  BY ConsistentIs DEF LogsRead, Command
<1>4. /\ DOMAIN snapshot' = DOMAIN snapshot /\ UNCHANGED <<selected, filter, requestID>>
      /\ \A i \in DOMAIN snapshot : snapshot'[i] =
           IF snapshot[i].name = c.app /\ c.request = requestID THEN [snapshot[i] EXCEPT !.logs = c.request] ELSE snapshot[i]
  BY DEF LogsRead
<1>5. \A i \in DOMAIN snapshot :
        /\ snapshot'[i] \in [name : Names, view : Views, logs : 0 .. requestID]
        /\ snapshot'[i].name = snapshot[i].name /\ snapshot'[i].view = snapshot[i].view
        /\ snapshot'[i].logs = IF snapshot[i].name = c.app /\ c.request = requestID THEN requestID ELSE snapshot[i].logs
  BY <1>2, <1>3, <1>4
<1>6. ListTypeOK'
  <2>1. [i \in DOMAIN snapshot' |-> [name |-> snapshot'[i].name, view |-> snapshot'[i].view]]
          = [i \in DOMAIN snapshot |-> [name |-> snapshot[i].name, view |-> snapshot[i].view]]
    BY <1>4, <1>5
  <2>2. [i \in DOMAIN snapshot |-> [name |-> snapshot[i].name, view |-> snapshot[i].view]] \in Lists
    BY ConsistentIs DEF ListTypeOK
  <2> QED
    BY <1>4, <1>5, <2>1, <2>2 DEF ListTypeOK
<1>7. S \in SUBSET (1 .. m) /\ Rows = At(snapshot, S)
  BY <1>1 DEF Positions, Rows, RowsOf, At
<1>8. Rows' = At(snapshot', S)
  <2>1. Positions(snapshot)' = S
    BY <1>4, <1>5 DEF Positions, Matches
  <2> QED
    BY <2>1 DEF Rows, RowsOf, At
<1> HIDE DEF S
<1>9. \A i \in DOMAIN At(snapshot, S) : InOrder(S)[i] \in DOMAIN snapshot
  BY <1>1, <1>7, AtIs
<1>10. DOMAIN At(snapshot, S) = DOMAIN InOrder(S) /\ DOMAIN At(snapshot', S) = DOMAIN InOrder(S)
  BY DEF At
<1>11. \A i \in DOMAIN InOrder(S) : At(snapshot, S)[i] = snapshot[InOrder(S)[i]] /\ At(snapshot', S)[i] = snapshot'[InOrder(S)[i]]
  BY DEF At
<1>12. /\ DOMAIN Rows' = DOMAIN Rows
       /\ \A i \in DOMAIN Rows : /\ Rows'[i].name = Rows[i].name /\ Rows'[i].view = Rows[i].view
                                 /\ Rows'[i].logs = IF Rows[i].name = c.app /\ c.request = requestID THEN requestID ELSE Rows[i].logs
  BY <1>5, <1>7, <1>8, <1>9, <1>10, <1>11
<1>13. Selected' = Selected
  BY <1>4, <1>12 DEF Selected
<1> QED
  BY <1>6, <1>12, <1>13

LEMMA LogsReadKeeps ==
  ASSUME Consistent, NEW c \in DOMAIN commands, LogsRead(c)
  PROVE  Consistent'
<1> DEFINE others == commands (-) SetToBag({c})
           tick == [kind |-> "tick"]
<1>1. IsABag(others) /\ DOMAIN others \subseteq DOMAIN commands /\ DOMAIN commands \ {c} \subseteq DOMAIN others
  BY BagOps, ConsistentIs
<1>2. /\ c.kind = "logs" /\ UNCHANGED <<selected, filter, filtering, mode, typed, tab, followLogs, requestID, choice>>
      /\ commands' = IF c.follow /\ followLogs /\ tab = "Logs" THEN others (+) SetToBag({tick}) ELSE others
  BY DEF LogsRead, Receive, logVars
<1>3. Valid(tick, requestID) /\ tick.kind = "tick"
  BY DEF Valid
<1> HIDE DEF others, tick
<1>4. IsABag(others (+) SetToBag({tick})) /\ DOMAIN (others (+) SetToBag({tick})) = DOMAIN others \cup {tick}
  BY <1>1, BagOps
<1>5. IsABag(commands') /\ DOMAIN others \subseteq DOMAIN commands' /\ DOMAIN commands' \subseteq DOMAIN commands \cup {tick}
  BY <1>1, <1>2, <1>4
<1>6. \A d \in DOMAIN commands' : Valid(d, requestID')
  BY <1>2, <1>3, <1>5, ConsistentIs
<1>7. ListTypeOK' /\ RowsAgree'
  BY LogsReadIs, RowsFitAfter
<1>8. Rows' # <<>> => selected' \in 1 .. Len(Rows')
  <2>1. Rows # <<>> => selected \in DOMAIN Rows
    BY ConsistentIs DEF RowsAgree
  <2>2. Rows' # <<>> => Rows # <<>>
    <3>1. Len(Rows) \in Nat /\ (Rows # <<>> => Len(Rows) # 0) /\ DOMAIN Rows = 1 .. Len(Rows)
      BY ConsistentIs DEF RowsAgree
    <3>2. Len(Rows') \in Nat /\ (Rows' # <<>> => Len(Rows') # 0) /\ DOMAIN Rows' = 1 .. Len(Rows')
      BY <1>7 DEF RowsAgree
    <3>3. ASSUME Rows = <<>> PROVE DOMAIN Rows = {}
      BY <3>3
    <3>4. ASSUME Rows' # <<>> PROVE 1 \in DOMAIN Rows'
      BY <3>2, <3>4
    <3> QED
      BY <3>3, <3>4, LogsReadIs
  <2> QED
    BY <1>2, <1>7, <2>1, <2>2, LogsReadIs DEF RowsAgree
<1>9. LogsMatchSelection'
  <2> SUFFICES ASSUME tab = "Logs", Selected # None
               PROVE  LogsMatchSelection'
    BY <1>2, LogsReadIs DEF LogsMatchSelection
  <2>1. selected \in DOMAIN Rows /\ Selected = Rows[selected].name
    BY ConsistentIs DEF RowsAgree
  <2>2. /\ requestID > 0
        /\ \/ Rows[selected].logs = requestID
           \/ \E d \in DOMAIN commands : d.kind = "logs" /\ d.app = Selected /\ d.request = requestID
    BY ConsistentIs DEF LogsMatchSelection
  <2>3. Rows'[selected].logs = IF Rows[selected].name = c.app /\ c.request = requestID THEN requestID ELSE Rows[selected].logs
    BY <2>1, LogsReadIs
  <2>4. \/ Rows'[selected].logs = requestID
        \/ \E d \in DOMAIN commands' : d.kind = "logs" /\ d.app = Selected /\ d.request = requestID
    BY <1>1, <1>5, <2>1, <2>2, <2>3
  <2> QED
    BY <1>2, <2>2, <2>4, LogsReadIs DEF LogsMatchSelection
<1>10. FollowGoesOn'
  <2> SUFFICES ASSUME followLogs
               PROVE  \E d \in DOMAIN commands' : d.kind = "tick" \/ (d.kind = "logs" /\ d.follow)
    BY <1>2 DEF FollowGoesOn
  <2>1. tab = "Logs"
    BY ConsistentIs
  <2>2. PICK d \in DOMAIN commands : d.kind = "tick" \/ (d.kind = "logs" /\ d.follow)
    BY ConsistentIs DEF FollowGoesOn
  <2>3. CASE d = c
    BY <1>2, <1>3, <1>4, <2>1, <2>2, <2>3
  <2>4. CASE d # c
    BY <1>1, <1>5, <2>2, <2>4
  <2> QED
    BY <2>3, <2>4
<1> QED
  BY <1>2, <1>5, <1>6, <1>7, <1>8, <1>9, <1>10, ConsistentIs, ConsistentAfter

LEMMA FollowTickKeeps ==
  ASSUME Consistent, NEW c \in DOMAIN commands, FollowTick(c)
  PROVE  Consistent'
<1> DEFINE follows == followLogs /\ tab = "Logs"
           others == IF follows /\ Selected = None THEN commands ELSE commands (-) SetToBag({c})
<1>1. /\ c.kind = "tick" /\ UNCHANGED <<snapshot, selected, filter, filtering, mode, typed, tab, followLogs, choice>>
      /\ Load(follows, TRUE, others)
  BY DEF FollowTick, Receive, listVars, logVars
<1>2. IsABag(others) /\ DOMAIN others \subseteq DOMAIN commands /\ DOMAIN commands \ {c} \subseteq DOMAIN others
  BY BagOps, ConsistentIs
<1>3. follows /\ Selected = None => others = commands
  OBVIOUS
<1>4. follows \in BOOLEAN /\ (followLogs => follows)
  BY ConsistentIs
<1>5. follows => tab = "Logs"
  OBVIOUS
<1> HIDE DEF others, follows
<1>6. requestID' \in 0 .. MaxRequests /\ requestID <= requestID'
  BY <1>1, LoadGrows, ConsistentIs
<1>7. ListTypeOK' /\ Rows' = Rows /\ Selected' = Selected
  BY <1>1, <1>6, SameRows, ConsistentIs DEF ListTypeOK
<1>8. RowsAgree'
  BY <1>7, RowsFitAfter
<1>9. /\ IsABag(commands') /\ (\A d \in DOMAIN commands' : Valid(d, requestID'))
      /\ DOMAIN others \subseteq DOMAIN commands'
      /\ ~follows => commands' = others /\ UNCHANGED requestID
      /\ follows => LogsMatchSelection'
      /\ follows /\ tab' = "Logs" /\ Selected' # None => \E d \in DOMAIN commands' : d.kind = "logs" /\ d.follow = TRUE
  BY <1>1, <1>2, <1>4, <1>8, LoadIs, ConsistentIs
<1>10. LogsMatchSelection'
  <2>1. CASE ~follows
    <3>1. \A d \in DOMAIN commands : d.kind = "logs" => d \in DOMAIN commands'
      BY <1>1, <1>2, <1>9
    <3> QED
      BY <1>1, <1>7, <1>9, <2>1, <3>1, ConsistentIs DEF LogsMatchSelection
  <2> QED
    BY <1>9, <2>1
<1>11. FollowGoesOn'
  <2> SUFFICES ASSUME followLogs
               PROVE  \E d \in DOMAIN commands' : d.kind = "tick" \/ (d.kind = "logs" /\ d.follow)
    BY <1>1 DEF FollowGoesOn
  <2>1. CASE Selected = None
    BY <1>1, <1>3, <1>4, <1>9, <2>1
  <2>2. CASE Selected # None
    BY <1>1, <1>4, <1>5, <1>7, <1>9, <2>2
  <2> QED
    BY <2>1, <2>2
<1> QED
  BY <1>1, <1>6, <1>7, <1>8, <1>9, <1>10, <1>11, ConsistentIs, ConsistentAfter

-----------------------------------------------------------------------------
(* A dashboard that starts, with any apps. *)
LEMMA InitConsistent == Init => Consistent
<1> SUFFICES ASSUME Init
             PROVE  Consistent
  OBVIOUS
<1>1. PICK list \in Lists : snapshot = Shown(list)
  BY DEF Init
<1>2. requestID = 0 /\ requestID \in 0 .. MaxRequests
  <2>1. MaxRequests \in Nat
    BY DashboardAssumption
  <2>2. requestID = 0
    BY DEF Init
  <2> QED
    BY <2>1, <2>2
<1>3. ListTypeOK
  <2>1. /\ \A i \in DOMAIN list : list[i] \in [name : Names, view : Views]
        /\ DOMAIN snapshot = DOMAIN list
        /\ \A i \in DOMAIN list : snapshot[i] = [name |-> list[i].name, view |-> list[i].view, logs |-> 0]
    BY <1>1, ListsAre DEF Shown
  <2>2. list = [i \in DOMAIN list |-> list[i]]
    BY DEF Lists, SeqOf
  <2>3. [i \in DOMAIN snapshot |-> [name |-> snapshot[i].name, view |-> snapshot[i].view]] = list
    BY <2>1, <2>2
  <2>4. \A i \in DOMAIN snapshot : snapshot[i] \in [name : Names, view : Views, logs : 0 .. requestID]
    BY <1>2, <2>1
  <2> QED
    BY <2>3, <2>4 DEF ListTypeOK
<1>4. RowsAgree
  BY <1>3, RowsFit
<1>5. commands = EmptyBag /\ IsABag(commands) /\ DOMAIN commands = {}
  BY DEF Init, EmptyBag, SetToBag, IsABag
<1>6. TypeOK
  <2>1. filter \in Filters /\ typed \in Texts /\ tab \in {"other", "Logs"} /\ mode \in {"normal", "menu", "choice", "input", "confirm"}
    BY DashboardAssumption DEF Init, Texts
  <2>2. filtering \in BOOLEAN /\ followLogs \in BOOLEAN
    BY DEF Init
  <2>3. selected = 1 /\ choice = 1
    BY DEF Init
  <2>4. selected \in Nat \ {0} /\ choice \in Nat
    BY <2>3
  <2>5. \A c \in DOMAIN commands : Command(c)
    BY <1>5
  <2> QED
    BY <1>2, <1>3, <1>5, <2>1, <2>2, <2>4, <2>5 DEF TypeOK, ListTypeOK
<1>7. SelectionIsARow
  <2>1. selected = 1
    BY DEF Init
  <2> QED
    BY <1>4, <2>1 DEF SelectionIsARow, RowsAgree
<1>8. LogsMatchSelection /\ FollowGoesOn /\ (followLogs => tab = "Logs")
  BY DEF Init, LogsMatchSelection, FollowGoesOn
<1> QED
  BY <1>6, <1>7, <1>8 DEF Consistent, ScreenIsConsistent

LEMMA NextConsistent == Consistent /\ [Next]_vars => Consistent'
<1> SUFFICES ASSUME Consistent, [Next]_vars
             PROVE  Consistent'
  OBVIOUS
<1>1. CASE KeyPressed
  BY <1>1, MoveSelectionKeeps, FilterKeysKeep, SwitchTabKeeps, ToggleFollowKeeps, DialogKeysKeep, PlainKeysKeep
     DEF KeyPressed, DialogKeys
<1>2. CASE Received
  BY <1>2, RefreshedKeeps, ActedKeeps, LogsReadKeeps, FollowTickKeeps DEF Received
<1>3. CASE UNCHANGED vars
  <2>1. /\ UNCHANGED <<snapshot, selected, filter, tab, requestID, filtering, mode, choice, typed, followLogs, commands>>
    BY <1>3 DEF vars, listVars, dialogVars, logVars, issueVars
  <2> QED
    BY <2>1, QuietStep, ConsistentIs DEF FollowGoesOn
<1> QED
  BY <1>1, <1>2, <1>3 DEF Next

LEMMA AlwaysConsistent == Spec => []Consistent
  BY InitConsistent, NextConsistent, PTL DEF Spec

-----------------------------------------------------------------------------
(* Whatever order answers and snapshots come in, whatever is typed and       *)
(* chosen meanwhile: a row is selected, the panel shows its logs or waits    *)
(* for them, and following goes on.                                         *)
THEOREM ScreenStaysConsistent == Spec => []ScreenIsConsistent
<1>1. Consistent => ScreenIsConsistent
  BY DEF Consistent
<1> QED
  BY <1>1, AlwaysConsistent, PTL

(* A snapshot that arrives while a dialog is open leaves it with its app, as *)
(* long as that is listed.                                                  *)
THEOREM DialogsKeepTheirApp == Spec => DialogKeepsItsApp
<1>1. ASSUME Consistent, [Next]_vars, mode # "normal", mode' # "normal", Selected' # Selected
      PROVE  \A i \in DOMAIN Rows' : Rows'[i].name # Selected
  <2>1. ~(\/ MoveSelection \/ TypeFilter \/ ClearFilter \/ ApplyFilter \/ StartFiltering
          \/ SwitchTab \/ ToggleFollow \/ Refresh \/ OpenActionMenu)
    BY <1>1 DEF MoveSelection, TypeFilter, ClearFilter, ApplyFilter, StartFiltering, SwitchTab, ToggleFollow, Refresh,
       OpenActionMenu, Key
  <2>2. ~UNCHANGED <<snapshot, selected, filter>>
    BY <1>1, SameRows
  <2>3. ~DialogKeys
    BY <1>1, <2>2, DialogKeysAre
  <2>4. ~UNCHANGED vars
    BY <2>2 DEF vars, listVars
  <2>5. PICK c \in DOMAIN commands : Refreshed(c) \/ Acted(c) \/ LogsRead(c) \/ FollowTick(c)
    BY <1>1, <2>1, <2>3, <2>4 DEF Next, KeyPressed, DialogKeys, Received
  <2>6. ~LogsRead(c) /\ ~FollowTick(c) /\ ~Acted(c)
    BY <1>1, <2>2, LogsReadIs DEF FollowTick, Acted, listVars
  <2>7. PICK list \in Lists : ApplySnapshot(list, c)
    BY <2>2, <2>5, <2>6 DEF Refreshed, Apply, Outcomes, Fails, listVars
  <2> QED
    BY <1>1, <2>7, SelectionFollows
<1>2. Consistent /\ [Next]_vars =>
        [mode # "normal" /\ mode' # "normal" /\ Selected' # Selected => \A i \in DOMAIN Rows' : Rows'[i].name # Selected]_vars
  BY <1>1
<1> QED
  BY <1>2, AlwaysConsistent, PTL DEF Spec, DialogKeepsItsApp

(* The steps that start no request but those for logs, ticks and refreshes. *)
LEMMA PlainKeysAsk ==
  ASSUME Consistent, ToggleFollow \/ Refresh
  PROVE  \A c \in DOMAIN commands' \ DOMAIN commands : c.kind # "act"
<1>1. CASE UNCHANGED issueVars
  BY <1>1 DEF issueVars
<1>2. ASSUME NEW kind \in {"tick", "refresh"}, Issue([kind |-> kind])
      PROVE  \A c \in DOMAIN commands' \ DOMAIN commands : c.kind # "act"
  <2> DEFINE new == [kind |-> kind]
  <2>1. Command(new) /\ new.kind # "act" /\ Issue(new)
    BY <1>2, TicksAreCommands
  <2> HIDE DEF new
  <2>2. DOMAIN commands' = DOMAIN commands \cup {new}
    BY <2>1, IssueIs, ConsistentIs
  <2> QED
    BY <2>1, <2>2
<1> QED
  BY <1>1, <1>2 DEF ToggleFollow, Refresh

LEMMA LogKeysAsk ==
  ASSUME Consistent, MoveSelection \/ TypeFilter \/ ClearFilter \/ ApplyFilter \/ SwitchTab
  PROVE  \A c \in DOMAIN commands' \ DOMAIN commands : c.kind # "act"
<1>1. PICK asks \in BOOLEAN : Load(asks, FALSE, commands)
  BY DEF MoveSelection, TypeFilter, ClearFilter, ApplyFilter, SwitchTab, ListKey
<1>2. requestID' \in 0 .. MaxRequests /\ requestID <= requestID'
  BY <1>1, LoadGrows, ConsistentIs
<1>3. ListTypeOK'
  <2>1. UNCHANGED snapshot
    BY DEF MoveSelection, TypeFilter, ClearFilter, ApplyFilter, SwitchTab, ListKey, listVars
  <2> QED
    BY <1>2, <2>1, ConsistentIs DEF ListTypeOK
<1>4. \A c \in DOMAIN commands' \ DOMAIN commands : c.kind = "logs"
  BY <1>1, <1>3, RowsFitAfter, LoadIs, ConsistentIs
<1> QED
  BY <1>4

LEMMA MessagesAsk ==
  ASSUME Consistent, Received
  PROVE  \A c \in DOMAIN commands' \ DOMAIN commands : c.kind # "act"
<1>1. PICK c \in DOMAIN commands : Refreshed(c) \/ Acted(c) \/ LogsRead(c) \/ FollowTick(c)
  BY DEF Received
<1> DEFINE others == commands (-) SetToBag({c})
           tick == [kind |-> "tick"]
<1>2. IsABag(others) /\ DOMAIN others \subseteq DOMAIN commands
  BY <1>1, BagOps, ConsistentIs
<1>3. CASE LogsRead(c)
  <2>1. commands' = others \/ commands' = others (+) SetToBag({tick})
    BY <1>3 DEF LogsRead
  <2>2. tick.kind # "act"
    OBVIOUS
  <2> HIDE DEF others, tick
  <2>3. DOMAIN (others (+) SetToBag({tick})) = DOMAIN others \cup {tick}
    BY <1>2, BagOps
  <2>4. DOMAIN commands' \subseteq DOMAIN commands \cup {tick}
    BY <1>2, <2>1, <2>3
  <2> QED
    BY <2>2, <2>4
<1>4. CASE FollowTick(c)
  <2> DEFINE follows == followLogs /\ tab = "Logs"
             rest == IF follows /\ Selected = None THEN commands ELSE others
  <2>1. Load(follows, TRUE, rest) /\ UNCHANGED snapshot /\ follows \in BOOLEAN
    BY <1>4, ConsistentIs DEF FollowTick, listVars
  <2>2. IsABag(rest) /\ DOMAIN rest \subseteq DOMAIN commands
    BY <1>2, ConsistentIs
  <2> HIDE DEF others, follows, rest
  <2>3. requestID' \in 0 .. MaxRequests /\ requestID <= requestID'
    BY <2>1, LoadGrows, ConsistentIs
  <2>4. ListTypeOK'
    BY <2>1, <2>3, ConsistentIs DEF ListTypeOK
  <2>5. \A d \in DOMAIN commands' \ DOMAIN commands : d.kind = "logs"
    BY <2>1, <2>2, <2>4, RowsFitAfter, LoadIs, ConsistentIs
  <2> QED
    BY <2>5
<1>5. CASE Refreshed(c) \/ Acted(c)
  <2>1. Fails(c) \/ \E list \in Lists : ApplySnapshot(list, c)
    BY <1>5 DEF Refreshed, Acted, Apply, Outcomes
  <2>2. CASE Fails(c)
    BY <1>2, <2>2 DEF Fails
  <2>3. ASSUME NEW list \in Lists, ApplySnapshot(list, c)
        PROVE  \A d \in DOMAIN commands' \ DOMAIN commands : d.kind = "logs"
    <3>1. Load(TRUE, FALSE, others) /\ RowsAgree'
      BY <2>3, SelectionFollows DEF ApplySnapshot
    <3> HIDE DEF others
    <3> QED
      BY <1>2, <3>1, LoadIs, ConsistentIs
  <2> QED
    BY <2>1, <2>2, <2>3
<1> QED
  BY <1>1, <1>3, <1>4, <1>5

(* A key starts requests for the app on show only, for one of its own        *)
(* choices, and a removal for the name that was typed.                      *)
THEOREM RequestsStayGrounded == Spec => RequestsAreGrounded
<1> DEFINE Grounded(c) ==
             c.kind = "act" =>
               /\ c.app = Selected
               /\ c.do = "choice" => \E i \in DOMAIN ActionChoices : ActionChoices[i] = c.item
               /\ c.do = "remove" => typed = c.app
<1>1. ASSUME Consistent, [Next]_vars
      PROVE  \A c \in DOMAIN commands' \ DOMAIN commands : Grounded(c)
  <2>1. CASE SelectAction \/ ExecuteSelectedChoice \/ ExecuteAttachInput \/ ExecuteRemoveConfirmation
    <3>1. CASE UNCHANGED issueVars
      BY <3>1 DEF issueVars
    <3>2. ASSUME NEW c, Command(c), Issue(c), Grounded(c)
          PROVE  \A d \in DOMAIN commands' \ DOMAIN commands : Grounded(d)
      <4>1. DOMAIN commands' = DOMAIN commands \cup {c}
        BY <1>1, <3>2, IssueIs, ConsistentIs
      <4> QED
        BY <3>2, <4>1
    <3> QED
      BY <1>1, <2>1, <3>1, <3>2, RequestKeys
  <2>2. ASSUME \A c \in DOMAIN commands' \ DOMAIN commands : c.kind # "act"
        PROVE  \A c \in DOMAIN commands' \ DOMAIN commands : Grounded(c)
    BY <2>2
  <2>3. CASE UNCHANGED issueVars \/ UNCHANGED vars
    BY <2>3 DEF issueVars, vars
  <2>4. CASE ToggleFollow \/ Refresh
    BY <1>1, <2>2, <2>4, PlainKeysAsk
  <2>5. CASE MoveSelection \/ TypeFilter \/ ClearFilter \/ ApplyFilter \/ SwitchTab
    BY <1>1, <2>2, <2>5, LogKeysAsk
  <2>6. CASE Received
    BY <1>1, <2>2, <2>6, MessagesAsk
  <2>7. CASE StartFiltering \/ OpenActionMenu \/ CloseAction \/ MoveChoice \/ TypeText
    BY <2>3, <2>7 DEF StartFiltering, OpenActionMenu, CloseAction, MoveChoice, TypeText
  <2> QED
    BY <1>1, <2>1, <2>3, <2>4, <2>5, <2>6, <2>7 DEF Next, KeyPressed
<1>2. Consistent /\ [Next]_vars =>
        [\A c \in DOMAIN commands' \ DOMAIN commands : c.kind = "act" =>
           /\ c.app = Selected
           /\ c.do = "choice" => \E i \in DOMAIN ActionChoices : ActionChoices[i] = c.item
           /\ c.do = "remove" => typed = c.app]_vars
  BY <1>1
<1> QED
  BY <1>2, AlwaysConsistent, PTL DEF Spec, RequestsAreGrounded
=============================================================================
