-------------------------- MODULE VolumeOwnership --------------------------
(***************************************************************************)
(* What `sshdock backup volume` promises about the Docker volumes of the   *)
(* host, whatever deployments, other operations, failures and kills do:     *)
(* a volume is claimed only while its name is free; the restore that claimed *)
(* it, and nobody else, may give it up, and only before it has reported      *)
(* success.  A finished restore's volume is then as safe as any other.       *)
(***************************************************************************)
EXTENDS Naturals

CONSTANTS Ops, Names, None

VARIABLES
  owner,  \* [Names -> "absent", "foreign" or the restore that created it]
  busy,   \* [Ops -> the volume the operation works on, None when it does not]
  kept    \* restores that reported success

vars == <<owner, busy, kept>>

Init ==
  /\ owner \in [Names -> {"absent", "foreign"}]
  /\ busy = [o \in Ops |-> None]
  /\ kept = {}

Begin(o, n) ==
  /\ busy[o] = None
  /\ busy' = [busy EXCEPT ![o] = n]
  /\ UNCHANGED <<owner, kept>>

Claim(o, n) ==
  /\ busy[o] = n /\ owner[n] = "absent"
  /\ owner' = [owner EXCEPT ![n] = o]
  /\ UNCHANGED <<busy, kept>>

GiveUp(o, n) ==
  /\ owner[n] = o /\ o \notin kept /\ busy[o] = n
  /\ owner' = [owner EXCEPT ![n] = "absent"]
  /\ busy' \in {busy, [busy EXCEPT ![o] = None]}
  /\ UNCHANGED kept

Keep(o, n) ==
  /\ owner[n] = o /\ busy[o] = n
  /\ kept' = kept \cup {o}
  /\ busy' = [busy EXCEPT ![o] = None]
  /\ UNCHANGED owner

End(o) ==
  /\ busy[o] # None
  /\ busy' = [busy EXCEPT ![o] = None]
  /\ UNCHANGED <<owner, kept>>

(* A deployment creates the volume; an operator removes one nobody works on. *)
Appear(n) ==
  /\ owner[n] = "absent"
  /\ owner' = [owner EXCEPT ![n] = "foreign"]
  /\ UNCHANGED <<busy, kept>>

Discard(n) ==
  /\ \A o \in Ops : busy[o] # n
  /\ owner' = [owner EXCEPT ![n] = "absent"]
  /\ UNCHANGED <<busy, kept>>

Next ==
  \/ \E o \in Ops, n \in Names : Begin(o, n) \/ Claim(o, n) \/ GiveUp(o, n) \/ Keep(o, n)
  \/ \E o \in Ops : End(o)
  \/ \E n \in Names : Appear(n) \/ Discard(n)

Spec == Init /\ [][Next]_vars
=============================================================================
