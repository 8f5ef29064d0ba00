------------------------------ MODULE LogText ------------------------------
(***************************************************************************)
(* The text of deployment logs: the limit the store puts on a log, and the  *)
(* redaction of config values in output that comes in pieces.  A text is a  *)
(* sequence of characters; the two markers are one character each.          *)
(***************************************************************************)
EXTENDS Naturals, SequencesExt

CONSTANT MaxContent  \* deploymentLogLimitBytes less the marker

ASSUME LogTextAssumption == MaxContent \in Nat \ {0}

Redacted == 0
Marker == 1  \* the characters of the output are other numbers

(* appendDeploymentLogContent, for a log that is not truncated yet.         *)
AppendContent(content, output) ==
  IF Len(content) + Len(output) <= MaxContent
  THEN [content |-> content \o output, truncated |-> FALSE]
  ELSE [content |-> Append(SubSeq(content \o output, 1, MaxContent), Marker), truncated |-> TRUE]
Appended(log, output) ==
  IF output = <<>> \/ log.truncated THEN log ELSE AppendContent(log.content, output)
AppendedAll(pieces) == FoldLeft(Appended, [content |-> <<>>, truncated |-> FALSE], pieces)

(* Reference: the log of an output that is written at once.                 *)
Cut(output) ==
  IF Len(output) <= MaxContent THEN [content |-> output, truncated |-> FALSE]
  ELSE [content |-> Append(SubSeq(output, 1, MaxContent), Marker), truncated |-> TRUE]

-----------------------------------------------------------------------------
(* strings.ReplaceAll: from the left, without overlaps. *)
Replace(text, value) ==
  FoldLeft(LAMBDA done, char :
             LET next == Append(done, char) IN
             IF IsSuffix(value, next)
             THEN Append(SubSeq(next, 1, Len(next) - Len(value)), Redacted) ELSE next,
           <<>>, text)
ReplacedBefore(v, w) ==
  IF Len(v) = Len(w)
  THEN \E i \in DOMAIN v : v[i] < w[i] /\ \A j \in 1 .. i - 1 : v[j] = w[j]
  ELSE Len(v) > Len(w)
Ordered(values) ==
  CHOOSE order \in [1 .. Cardinality(values) -> values] :
    \A i, j \in DOMAIN order : i < j => ReplacedBefore(order[i], order[j])
RedactValues(text, values) == FoldLeft(Replace, text, Ordered(values \ {<<>>}))

(* pendingSecretPrefixLength: how much of the end may begin a value.        *)
Suffix(text, n) == SubSeq(text, Len(text) - n + 1, Len(text))
NothingPending(text, values) == 0
PendingLength(text, values) ==
  Max({0} \cup {n \in 1 .. Len(text) :
                  \E v \in values : n < Len(v) /\ Suffix(text, n) = SubSeq(v, 1, n)})

(* RedactingWriter. *)
NewWriter == [pending |-> <<>>, out |-> <<>>]
Write(writer, piece, values) ==
  LET combined == writer.pending \o piece
      held == PendingLength(combined, values) IN
  [pending |-> Suffix(combined, held),
   out |-> writer.out \o RedactValues(SubSeq(combined, 1, Len(combined) - held), values)]
Flush(writer, values) == writer.out \o RedactValues(writer.pending, values)
Written(pieces, values) ==
  Flush(FoldLeft(LAMBDA writer, piece : Write(writer, piece, values), NewWriter, pieces), values)
=============================================================================
