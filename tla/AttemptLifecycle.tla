-------------------------- MODULE AttemptLifecycle --------------------------
(***************************************************************************)
(* What the deployment queue promises about an attempt, whatever pushes,   *)
(* hooks, redeploys, recoveries and daemons do: it is admitted only when    *)
(* its app has no other active attempt, or replaces a reservation that was  *)
(* never queued; only queued attempts are deployed, the oldest first; and   *)
(* an attempt once queued is never dropped and ends at most once.           *)
(***************************************************************************)
EXTENDS Naturals

CONSTANTS Apps, None, MaxAttempts

VARIABLES
  phase,  \* [Attempts -> phase of its life]
  owner   \* [Attempts -> the app it deploys]

vars == <<phase, owner>>

Attempts == 1 .. MaxAttempts
Active == {"reserved", "queued", "deploying"}
Ended == {"succeeded", "failed"}

Init ==
  /\ phase = [i \in Attempts |-> "none"]
  /\ owner = [i \in Attempts |-> None]

ActiveOf(a) == {i \in Attempts : owner[i] = a /\ phase[i] \in Active}

(* An app without an active attempt gets one: a reservation, or a redeploy *)
(* that is queued at once.                                                  *)
Admit(i, a, p) ==
  /\ phase[i] = "none"
  /\ ActiveOf(a) = {}
  /\ phase' = [phase EXCEPT ![i] = p]
  /\ owner' = [owner EXCEPT ![i] = a]

(* A reservation replaces the reservation j, the app's only active attempt. *)
Replace(i, j, a) ==
  /\ phase[i] = "none"
  /\ ActiveOf(a) = {j}
  /\ phase[j] = "reserved"
  /\ phase' = [phase EXCEPT ![i] = "reserved", ![j] = "discarded"]
  /\ owner' = [owner EXCEPT ![i] = a]

Accept(i) ==
  /\ phase[i] = "reserved"
  /\ phase' = [phase EXCEPT ![i] = "queued"]
  /\ UNCHANGED owner

Start(i) ==
  /\ phase[i] = "queued"
  /\ \A j \in Attempts : phase[j] = "queued" => i <= j
  /\ phase' = [phase EXCEPT ![i] = "deploying"]
  /\ UNCHANGED owner

End(i) ==
  /\ phase[i] = "deploying"
  /\ \E p \in Ended : phase' = [phase EXCEPT ![i] = p]
  /\ UNCHANGED owner

Next ==
  \/ \E i \in Attempts, a \in Apps, p \in {"reserved", "queued"} : Admit(i, a, p)
  \/ \E i, j \in Attempts, a \in Apps : Replace(i, j, a)
  \/ \E i \in Attempts : Accept(i) \/ Start(i) \/ End(i)

Spec == Init /\ [][Next]_vars
=============================================================================
