----------------------------- MODULE Dashboard -----------------------------
(***************************************************************************)
(* internal/tui's InteractiveDashboardModel: one Update loop takes keys and  *)
(* the messages of the commands it started.  Commands run beside it, and     *)
(* their messages arrive in any order, whatever dialog is open by then.      *)
(* Other operators and the daemon change the store at any time, so that the  *)
(* snapshot of a command holds any apps, whatever an earlier one held.       *)
(* Indexes count from 1; quitting is left out.                               *)
(***************************************************************************)
EXTENDS Naturals, SequencesExt, Bags

CONSTANTS
  Names, None,
  Views,        \* what can be read of an app: its status, and the services or
                \* domains to choose from
  Filters,      \* what is typed as a filter: "", names and statuses
  MaxRequests,  \* bound: requests for logs
  MaxCommands   \* bound: commands under way

VARIABLES
  snapshot,   \* the apps as read last, each with the logs it shows
  selected,   \* index into Rows
  filter, filtering,
  tab,
  mode,       \* "normal", or the dialog that is open
  choice,     \* choiceIndex
  typed,      \* text of the dialog
  followLogs,
  requestID,  \* logsRequestID
  commands    \* bag of commands under way, received when they are done

listVars == <<snapshot, selected, filter, filtering>>
dialogVars == <<mode, choice, typed>>
logVars == <<tab, followLogs>>
issueVars == <<requestID, commands>>
vars == <<listVars, dialogVars, logVars, issueVars>>

Texts == {"", "service domain port"} \cup Names
Items == UNION {Range(v.choices) : v \in Views}
ASSUME DashboardAssumption ==
  /\ None \notin Names /\ "" \in Filters /\ MaxRequests \in Nat
  /\ \A v \in Views : v.choices \in Seq(Items)

Lists == {l \in SeqOf([name : Names, view : Views], Cardinality(Names)) : \A i, j \in DOMAIN l : l[i].name = l[j].name => i = j}
Failed == None  \* in place of a list
Shown(list) == [i \in DOMAIN list |-> [name |-> list[i].name, view |-> list[i].view, logs |-> 0]]
Command(c) ==
  \/ c \in [kind : {"tick", "refresh", "refused"}]
  \/ c \in [kind : {"logs"}, app : Names, request : 1 .. requestID, follow : BOOLEAN]
  \/ c \in [kind : {"act"}, do : {"lifecycle", "choice", "attach", "remove"}, app : Names, item : Items \cup {None}]

TypeOK ==
  /\ [i \in DOMAIN snapshot |-> [name |-> snapshot[i].name, view |-> snapshot[i].view]] \in Lists
  /\ \A i \in DOMAIN snapshot : snapshot[i] \in [name : Names, view : Views, logs : 0 .. requestID]
  /\ selected \in Nat \ {0}
  /\ filter \in Filters /\ filtering \in BOOLEAN
  /\ tab \in {"other", "Logs"}
  /\ mode \in {"normal", "menu", "choice", "input", "confirm"}
  /\ choice \in Nat /\ typed \in Texts
  /\ followLogs \in BOOLEAN
  /\ requestID \in 0 .. MaxRequests
  /\ IsABag(commands) /\ \A c \in DOMAIN commands : Command(c)

Init ==
  /\ \E list \in Lists : snapshot = Shown(list)
  /\ selected = 1 /\ filter = "" /\ filtering = FALSE
  /\ tab = "other" /\ mode = "normal" /\ choice = 1 /\ typed = ""
  /\ followLogs = FALSE /\ requestID = 0 /\ commands = EmptyBag

-----------------------------------------------------------------------------
Matches(row) == filter \in {"", row.name, row.view.status}
(* The rows are those apps of the list that match, in its order. *)
Positions(list) == {i \in DOMAIN list : Matches(list[i])}
InOrder(S) == CHOOSE at \in [1 .. Cardinality(S) -> S] : \A m, n \in DOMAIN at : m < n => at[m] < at[n]
RowsOf(list) == LET at == InOrder(Positions(list)) IN [n \in DOMAIN at |-> list[at[n]]]
Rows == RowsOf(snapshot)
Selected == IF selected \in DOMAIN Rows THEN Rows[selected].name ELSE None
Clamp(index, length) == IF length = 0 \/ index < 1 THEN 1 ELSE IF index > length THEN length ELSE index

(* Every branch that ends in loadSelectedLogs: new logs are asked for if the *)
(* Logs tab is open and an app selected then, and answers to older requests  *)
(* will no longer count.                                                    *)
Load(asks, follow, others) ==
  IF asks /\ tab' = "Logs" /\ Selected' # None
  THEN /\ requestID < MaxRequests
       /\ requestID' = requestID + 1
       /\ commands' = others (+) SetToBag(
            {[kind |-> "logs", app |-> Selected', request |-> requestID', follow |-> follow]})
  ELSE commands' = others /\ UNCHANGED requestID
Issue(c) == BagCardinality(commands) < MaxCommands /\ commands' = commands (+) SetToBag({c}) /\ UNCHANGED requestID

-----------------------------------------------------------------------------
(* Keys, without a dialog. *)
Key(isFiltering) == mode = "normal" /\ filtering = isFiltering /\ UNCHANGED choice
ListKeyWithoutLogs == UNCHANGED <<snapshot, mode, typed, logVars>> /\ Load(FALSE, FALSE, commands)
ListKey == UNCHANGED <<snapshot, mode, typed, logVars>> /\ Load(Selected' # Selected, FALSE, commands)

MoveSelection ==
  /\ Key(FALSE)
  /\ selected' \in {Clamp(i, Len(Rows)) : i \in {1, selected - 1, selected + 1, Len(Rows)}}
  /\ UNCHANGED <<filter, filtering>>
  /\ ListKey
TypeFilter ==
  /\ Key(TRUE)
  /\ filter' \in Filters \ {filter}
  /\ selected' = 1
  /\ UNCHANGED filtering
  /\ ListKey
ClearFilter ==
  /\ Key(TRUE)
  /\ filtering' = FALSE /\ filter' = ""
  /\ selected' = IF filter = "" THEN selected ELSE 1
  /\ ListKey
ApplyFilter ==
  /\ Key(TRUE)
  /\ filtering' = FALSE
  /\ selected' = Clamp(selected, Len(Rows))
  /\ UNCHANGED filter
  /\ ListKey
StartFiltering ==
  /\ Key(FALSE)
  /\ filtering' = TRUE
  /\ UNCHANGED <<snapshot, selected, filter, mode, typed, logVars, issueVars>>

SwitchTab ==
  /\ Key(FALSE)
  /\ tab' \in {"other", "Logs"} \ {tab}
  /\ followLogs' = (followLogs /\ tab' = "Logs")
  /\ UNCHANGED <<listVars, mode, typed>>
  /\ Load(TRUE, FALSE, commands)
ToggleFollow ==
  /\ Key(FALSE) /\ tab = "Logs"
  /\ followLogs' = ~followLogs
  /\ IF followLogs THEN UNCHANGED issueVars ELSE Issue([kind |-> "tick"])
  /\ UNCHANGED <<listVars, mode, typed, tab>>
Refresh ==
  /\ Key(FALSE)
  /\ Issue([kind |-> "refresh"])
  /\ UNCHANGED <<listVars, mode, typed, logVars>>
OpenActionMenu ==
  /\ Key(FALSE) /\ Selected # None
  /\ mode' = "menu" /\ typed' = ""
  /\ UNCHANGED <<listVars, logVars, issueVars>>

-----------------------------------------------------------------------------
(* Keys of a dialog.  It stays open while its action runs.                  *)
DialogKey(dialog) == mode = dialog /\ UNCHANGED <<listVars, logVars>>

CloseAction ==
  /\ \E dialog \in {"menu", "choice", "input", "confirm"} : DialogKey(dialog)
  /\ mode' = "normal" /\ typed' = ""
  /\ UNCHANGED <<choice, issueVars>>

(* The request names the app that is selected as the key is pressed. *)
ExecuteAction(do, item) ==
  /\ Issue(IF Selected = None THEN [kind |-> "refused"]
           ELSE [kind |-> "act", do |-> do, app |-> Selected, item |-> item])

ActionChoices ==
  IF Selected = None THEN <<>> ELSE Rows[selected].view.choices
SelectAction ==
  /\ DialogKey("menu")
  /\ choice' = 1
  /\ \/ mode' = mode /\ typed' = typed /\ ExecuteAction("lifecycle", None)
     \/ mode' = "choice" /\ ActionChoices # <<>> /\ UNCHANGED <<typed, issueVars>>
     \/ mode' \in {"input", "confirm"} /\ typed' = "" /\ UNCHANGED issueVars
MoveChoice ==
  /\ DialogKey("choice")
  /\ choice' \in {IF choice + 1 > Len(ActionChoices) THEN Len(ActionChoices) ELSE choice + 1,
                  IF choice > 1 THEN choice - 1 ELSE 1}
  /\ UNCHANGED <<mode, typed, issueVars>>
ExecuteSelectedChoice ==
  /\ DialogKey("choice")
  /\ ActionChoices # <<>>
  /\ choice' = Clamp(choice, Len(ActionChoices))
  /\ ExecuteAction("choice", ActionChoices[choice'])
  /\ UNCHANGED <<mode, typed>>
TypeText ==
  /\ \E dialog \in {"input", "confirm"} : DialogKey(dialog)
  /\ typed' \in (IF mode = "input" THEN {"", "service domain port"} ELSE {""} \cup Names) \ {typed}
  /\ UNCHANGED <<mode, choice, issueVars>>
ExecuteAttachInput ==
  /\ DialogKey("input")
  /\ typed = "service domain port"
  /\ ExecuteAction("attach", None)
  /\ UNCHANGED dialogVars
ExecuteRemoveUnread ==
  /\ DialogKey("confirm")
  /\ Selected # None /\ typed # ""
  /\ ExecuteAction("remove", None)
  /\ UNCHANGED dialogVars
ExecuteRemoveConfirmation ==
  /\ DialogKey("confirm")
  /\ Selected # None
  /\ IF typed = Selected
     THEN ExecuteAction("remove", None) /\ UNCHANGED typed
     ELSE typed' = "" /\ UNCHANGED issueVars
  /\ UNCHANGED <<mode, choice>>

-----------------------------------------------------------------------------
(* Messages. *)
Receive(c) == BagIn(c, commands) /\ UNCHANGED choice

IndexReset(name, list) == 1
IndexFor(name, list) ==
  LET rows == RowsOf(list) IN
  IF \E i \in DOMAIN rows : rows[i].name = name
  THEN CHOOSE i \in DOMAIN rows : rows[i].name = name ELSE 1
(* The selection stays on its app, if that is still a row; the logs shown    *)
(* are gone with the old snapshot, and asked for again.                     *)
ApplySnapshot(list, c) ==
  /\ snapshot' = Shown(list)
  /\ selected' = IndexFor(Selected, list)
  /\ UNCHANGED <<filter, filtering, logVars>>
  /\ Load(TRUE, FALSE, commands (-) SetToBag({c}))
Fails(c) == UNCHANGED <<listVars, logVars, requestID>> /\ commands' = commands (-) SetToBag({c})

(* What a refresh or an action brings back, done or not: the apps it read    *)
(* afterwards, or an error.                                                 *)
Outcomes(c) == IF c.kind = "refused" THEN {Failed} ELSE Lists \cup {Failed}
Apply(c) ==
  \E list \in Outcomes(c) : IF list = Failed THEN Fails(c) ELSE ApplySnapshot(list, c)

Refreshed(c) ==
  /\ c.kind = "refresh" /\ Receive(c)
  /\ UNCHANGED <<mode, typed>>
  /\ Apply(c)
Acted(c) ==
  /\ c.kind \in {"act", "refused"} /\ Receive(c)
  /\ mode' = "normal" /\ typed' = ""
  /\ Apply(c)
LogsRead(c) ==
  /\ c.kind = "logs" /\ Receive(c)
  /\ snapshot' = [i \in DOMAIN snapshot |->
       IF snapshot[i].name = c.app /\ c.request = requestID
       THEN [snapshot[i] EXCEPT !.logs = c.request] ELSE snapshot[i]]
  /\ commands' = LET others == commands (-) SetToBag({c}) IN
       IF c.follow /\ followLogs /\ tab = "Logs" THEN others (+) SetToBag({[kind |-> "tick"]}) ELSE others
  /\ UNCHANGED <<selected, filter, filtering, mode, typed, logVars, requestID>>
FollowTick(c) ==
  /\ c.kind = "tick" /\ Receive(c)
  /\ UNCHANGED <<listVars, mode, typed, logVars>>
  /\ LET follows == followLogs /\ tab = "Logs" IN
     Load(follows, TRUE, IF follows /\ Selected = None THEN commands ELSE commands (-) SetToBag({c}))

-----------------------------------------------------------------------------
KeyPressed ==
  \/ MoveSelection \/ TypeFilter \/ ClearFilter \/ ApplyFilter \/ StartFiltering
  \/ SwitchTab \/ ToggleFollow \/ Refresh \/ OpenActionMenu
  \/ CloseAction \/ SelectAction \/ MoveChoice \/ ExecuteSelectedChoice
  \/ TypeText \/ ExecuteAttachInput \/ ExecuteRemoveConfirmation
Received == \E c \in DOMAIN commands : Refreshed(c) \/ Acted(c) \/ LogsRead(c) \/ FollowTick(c)
Next == KeyPressed \/ Received
Spec == Init /\ [][Next]_vars

-----------------------------------------------------------------------------
(* While the list has rows one of them is selected: neither a filter, nor a  *)
(* snapshot that arrives after it, leaves the cursor past the last row.     *)
SelectionIsARow == Rows # <<>> => selected \in DOMAIN Rows

(* On the Logs tab the panel shows the answer to the request made last, or   *)
(* that request, for the selected app, is still under way: no late answer,   *)
(* changed selection or new snapshot leaves other logs, or none, on show.   *)
LogsMatchSelection ==
  tab = "Logs" /\ Selected # None =>
    /\ requestID > 0
    /\ \/ Rows[selected].logs = requestID
       \/ \E c \in DOMAIN commands : c.kind = "logs" /\ c.app = Selected /\ c.request = requestID

(* Following goes on by itself: there is always a tick to come, or a request *)
(* under way whose answer starts the next.                                  *)
FollowGoesOn ==
  followLogs => \E c \in DOMAIN commands : c.kind = "tick" \/ (c.kind = "logs" /\ c.follow)

(* A dialog stays with the app it was opened on as long as that is listed:   *)
(* no message that arrives meanwhile moves it to another app.               *)
DialogKeepsItsApp ==
  [][mode # "normal" /\ mode' # "normal" /\ Selected' # Selected =>
       \A i \in DOMAIN Rows' : Rows'[i].name # Selected]_vars

(* A request that a key starts is for the app on show and one of its own     *)
(* choices; a removal names the app whose name was typed, although the       *)
(* dialog may have come to another app since.                               *)
RequestsAreGrounded ==
  [][\A c \in DOMAIN commands' \ DOMAIN commands : c.kind = "act" =>
       /\ c.app = Selected
       /\ c.do = "choice" => \E i \in DOMAIN ActionChoices : ActionChoices[i] = c.item
       /\ c.do = "remove" => typed = c.app]_vars

(* What is on the screen belongs together, whatever order the answers and    *)
(* snapshots came in: a selected row, its logs, and what keeps them current. *)
ScreenIsConsistent == TypeOK /\ SelectionIsARow /\ LogsMatchSelection /\ FollowGoesOn
=============================================================================
