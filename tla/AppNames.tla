------------------------------- MODULE AppNames -------------------------------
(***************************************************************************)
(* App names are DNS labels, and a name that is none is answered with one.  *)
(* Characters: "a" for letters and digits, "A" for a capital, "-", and "."  *)
(* for all others.                                                          *)
(***************************************************************************)
EXTENDS Naturals, SequencesExt

CONSTANT MaxLabel  \* bytes of the longest label, 63 in the code

ASSUME AppNamesAssumption == MaxLabel \in Nat /\ MaxLabel >= 3

IsDNSLabelSafe(name) ==
  /\ Len(name) \in 1 .. MaxLabel
  /\ \A i \in DOMAIN name : name[i] = "a" \/ (name[i] = "-" /\ i # 1 /\ i # Len(name))

Suggest1(s, char) ==
  IF char \in {"a", "A"}
  THEN LET text == IF s.pending /\ s.text # <<>> /\ Len(s.text) < MaxLabel THEN Append(s.text, "-") ELSE s.text IN
       [text |-> IF Len(text) < MaxLabel THEN Append(text, "a") ELSE text, pending |-> FALSE]
  ELSE [s EXCEPT !.pending = s.text # <<>>]
Trimmed(text) == IF text # <<>> /\ Last(text) = "-" THEN Front(text) ELSE text
SuggestAppName(name) ==
  LET text == Trimmed(FoldLeft(Suggest1, [text |-> <<>>, pending |-> FALSE], name).text) IN
  IF text = <<>> THEN <<"a", "a", "a">> ELSE text

=============================================================================
