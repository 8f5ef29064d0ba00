-------------------------- MODULE OperatorCommands --------------------------
(***************************************************************************)
(* Commands of operators, each a process of its own: over SSH, or sshdock   *)
(* on the host.  A command goes on from step to step, returns an error, or   *)
(* is killed; nothing serializes two of them but the transactions of the     *)
(* store.  During a backup or restore the operators are asked to pause.      *)
(***************************************************************************)
EXTENDS Naturals, FiniteSets

CONSTANTS
  Workers, None,
  MaxCommands  \* bound: commands started

ASSUME OperatorCommandsAssumption == MaxCommands \in Nat

VARIABLES
  pc,      \* [Workers -> next step of the command]
  paused,  \* the maintenance window of a backup or restore
  started  \* commands started so far

processVars == <<pc, paused, started>>

AllIdle == \A w \in Workers : pc[w] = "idle"
Start(w, step) ==
  /\ ~paused /\ pc[w] = "idle" /\ started < MaxCommands
  /\ pc' = [pc EXCEPT ![w] = step]
  /\ started' = started + 1
  /\ UNCHANGED paused
Goto(w, here, step) ==
  /\ pc[w] = here
  /\ pc' = [pc EXCEPT ![w] = step]
  /\ UNCHANGED <<paused, started>>

(* A step that fails returns its error; a command can be killed before it.  *)
Stops(w) == pc[w] # "idle" /\ Goto(w, pc[w], "idle")
=============================================================================
