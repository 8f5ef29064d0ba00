----------------------------- MODULE SSHAccess -----------------------------
(***************************************************************************)
(* SSH keys: the store's table, and the two authorized_keys files (of git   *)
(* and of the operator) that each command rewrites from it.                 *)
(***************************************************************************)
EXTENDS OperatorCommands

CONSTANT KeyNames

VARIABLES
  table,    \* names of the ssh_keys rows
  file,     \* [Files -> [names : the keys in it, mixed : it is of two writers]]
  listed,   \* [Workers -> the keys it has listed]
  alone,    \* history: commands no other key command overlapped so far
  settled   \* history: the last key command ran alone, to its end

accessVars == <<table, file, listed, alone, settled>>

Files == {"git", "operator"}
AccessSteps == {"list", "open git", "write git", "open operator", "write operator"}
Empty == [names |-> {}, mixed |-> FALSE]

AccessTypeOK ==
  /\ table \subseteq KeyNames
  /\ file \in [Files -> [names : SUBSET KeyNames, mixed : BOOLEAN]]
  /\ listed \in [Workers -> SUBSET KeyNames]
  /\ alone \subseteq Workers
  /\ settled \in BOOLEAN

AccessInit ==
  /\ table = {} /\ file = [f \in Files |-> Empty]
  /\ listed = [w \in Workers |-> {}]
  /\ alone = {} /\ settled = TRUE

Overlaps(w) == \E v \in Workers \ {w} : pc[v] \in AccessSteps

(* The row is inserted, replaced or deleted in one statement. *)
ChangeTable(w, rows) ==
  /\ Start(w, "list")
  /\ table' = rows
  /\ alone' = IF Overlaps(w) THEN {} ELSE {w}
  /\ settled' = FALSE
  /\ UNCHANGED <<file, listed>>

AddSSHKey(w, k) == ChangeTable(w, table \cup {k})
RemoveSSHKey(w, k) == k \in table /\ ChangeTable(w, table \ {k})

ListOthersKeys(w) ==
  /\ Goto(w, "list", "open git")
  /\ listed' = [listed EXCEPT ![w] = file["git"].names]
  /\ UNCHANGED <<table, file, alone, settled>>
ListSSHKeys(w) ==
  /\ Goto(w, "list", "open git")
  /\ listed' = [listed EXCEPT ![w] = table]
  /\ UNCHANGED <<table, file, alone, settled>>

(* os.WriteFile truncates, then writes from the start: a longer file that    *)
(* another wrote in between keeps its end.                                  *)
Truncate(w, f, here, next) ==
  /\ Goto(w, here, next)
  /\ file' = [file EXCEPT ![f] = Empty]
  /\ UNCHANGED <<table, listed, alone, settled>>

Overlay(old, names) ==
  IF old.mixed \/ Cardinality(old.names) > Cardinality(names)
  THEN [names |-> old.names \cup names, mixed |-> TRUE]
  ELSE [names |-> names, mixed |-> FALSE]

Leaves(w) == listed' = [listed EXCEPT ![w] = {}] /\ alone' = alone \ {w}

Write(w, f, here, next) ==
  /\ Goto(w, here, next)
  /\ file' = [file EXCEPT ![f] = Overlay(@, listed[w])]
  /\ IF next = "idle"
     THEN Leaves(w) /\ settled' = (settled \/ w \in alone)
     ELSE UNCHANGED <<listed, alone, settled>>
  /\ UNCHANGED table

OpenGitFile(w) == Truncate(w, "git", "open git", "write git")
WriteGitFile(w) == Write(w, "git", "write git", "open operator")
OpenOperatorFile(w) == Truncate(w, "operator", "open operator", "write operator")
WriteOperatorFile(w) == Write(w, "operator", "write operator", "idle")

StopAccess(w) ==
  /\ pc[w] \in AccessSteps
  /\ Stops(w)
  /\ Leaves(w)
  /\ UNCHANGED <<table, file, settled>>

AccessCommand(w) ==
  \/ \E k \in KeyNames : AddSSHKey(w, k) \/ RemoveSSHKey(w, k)
  \/ ListSSHKeys(w)
  \/ OpenGitFile(w) \/ WriteGitFile(w) \/ OpenOperatorFile(w) \/ WriteOperatorFile(w)
  \/ StopAccess(w)

-----------------------------------------------------------------------------
(* One key command that runs alone to its end leaves both files equal to     *)
(* the table, whatever commands that overlapped or died on the way had left  *)
(* in them before: a key that was removed is out of both.                   *)
LoneCommandHeals == settled => \A f \in Files : file[f] = [names |-> table, mixed |-> FALSE]
=============================================================================
