--------------------------- MODULE VolumeArchive ---------------------------
(***************************************************************************)
(* The format of a volume archive: which tar entries                       *)
(* internal/backup/volume_archive.go packs and accepts, and under which     *)
(* names.  A raw path is the sequence of its parts between slashes, so      *)
(* "./a/" is <<".", "a", "">>; an entry is special when it has a link,      *)
(* a device, extended metadata, special mode bits or an owner out of range. *)
(***************************************************************************)
EXTENDS Naturals, SequencesExt

CONSTANT MaxEntries  \* maxVolumeEntries; the bound on the bytes of all names is of the same form

ASSUME VolumeArchiveAssumption == MaxEntries \in Nat \ {0}

Root == <<".">>
Rejected == <<>>

TrimDotSlash(p) == IF Len(p) > 1 /\ p[1] = "." THEN Tail(p) ELSE p
TrimSlash(p) == IF Len(p) > 1 /\ Last(p) = "" THEN Front(p) ELSE p

(* The name below the data root, given what TrimPrefix and TrimSuffix left. *)
UnderData(p) ==
  IF p = <<"data">> THEN Root
  ELSE IF Len(p) > 1 /\ p[1] = "data" THEN Tail(p) ELSE Rejected

IsName(p) == p # <<>> /\ \A i \in DOMAIN p : p[i] \notin {"", ".", ".."}

(* volumeEntryName(raw, root, directory); root is "data" or ".". *)
EntryName(raw, root, dir) ==
  LET whole == IF raw = <<".", "">> /\ dir THEN Root ELSE TrimDotSlash(raw)
      trimmed == IF dir THEN TrimSlash(whole) ELSE whole
      name == IF root = "data" THEN UnderData(trimmed) ELSE trimmed
  IN  IF raw[1] = "" /\ Len(raw) > 1 THEN Rejected
      ELSE IF name = Root /\ dir THEN Root
      ELSE IF IsName(name) THEN name ELSE Rejected

(* validateVolumeHeader. *)
IsPlain(e) == e.type \in {"file", "dir"} /\ ~e.special

Ancestors(name) == {SubSeq(name, 1, k) : k \in 1 .. Len(name) - 1}

(* One turn of copyVolumeEntries' loop.  A directory may follow what it     *)
(* contains: until then it is among the ancestors only.                     *)
Fresh == [ok |-> TRUE, dirs |-> {}, files |-> {}, ancestors |-> {}, names |-> <<>>]
Seen(s) == s.dirs \cup s.files

ConflictsWithSeen(s, name, dir) ==
  name \in Seen(s) \/ (name = Root /\ ~dir) \/ Ancestors(name) \cap s.files # {}
Conflicts(s, name, dir) ==
  \/ name \in Seen(s)
  \/ name = Root /\ ~dir
  \/ ~dir /\ name \in s.ancestors
  \/ Ancestors(name) \cap s.files # {}

Accept(s, root, e) ==
  LET dir == e.type = "dir"
      name == EntryName(e.raw, root, dir)
      missing == (s.ancestors \cup (Ancestors(name) \ Seen(s))) \ {name}
  IN  IF \/ ~s.ok \/ ~IsPlain(e) \/ name = Rejected \/ Conflicts(s, name, dir)
         \/ Cardinality(Seen(s) \cup {name}) + Cardinality(missing) > MaxEntries
      THEN [s EXCEPT !.ok = FALSE]
      ELSE [ok |-> TRUE,
            dirs |-> IF dir THEN s.dirs \cup {name} ELSE s.dirs,
            files |-> IF dir THEN s.files ELSE s.files \cup {name},
            ancestors |-> missing,
            names |-> Append(s.names, name)]

CopyEntries(entries, root) ==
  LET end == FoldLeft(LAMBDA s, e : Accept(s, root, e), Fresh, entries)
  IN  [end EXCEPT !.ok = @ /\ Root \in end.dirs]

(* What packVolumeArchive writes for the entries of the helper's tar, and   *)
(* what stageVolumeArchive makes of an archive.                             *)
Normalized(root, name, dir) ==
  LET under == IF name = Root THEN <<root>> ELSE <<root>> \o name
  IN  IF dir THEN Append(under, "") ELSE under
Rewritten(entries, from, to) ==
  LET names == CopyEntries(entries, from).names
  IN  [i \in DOMAIN names |->
        [raw |-> Normalized(to, names[i], entries[i].type = "dir"),
         type |-> entries[i].type, special |-> FALSE]]

Packs(entries) == CopyEntries(entries, ".").ok
Packed(entries) == Rewritten(entries, ".", "data")
Accepts(entries) == CopyEntries(entries, "data").ok

-----------------------------------------------------------------------------
(* References. *)

(* path.Clean, of a relative path. *)
Clean(raw) ==
  FoldLeft(LAMBDA acc, part :
             IF part \in {"", "."} THEN acc
             ELSE IF part = ".." /\ acc # <<>> /\ Last(acc) # ".." THEN Front(acc)
             ELSE Append(acc, part),
           <<>>, raw)

NameOf(e) == IF Clean(e.raw) = <<"data">> THEN Root ELSE Tail(Clean(e.raw))

(* A well-formed archive, whatever the order of its entries: a tree below    *)
(* data/ whose inner nodes are no files, with at most MaxEntries nodes.      *)
IsTree(entries) ==
  LET nodes == {NameOf(entries[i]) : i \in DOMAIN entries}
      inner == UNION {Ancestors(n) : n \in nodes}
      files == {NameOf(entries[i]) : i \in {j \in DOMAIN entries : entries[j].type = "file"}}
  IN  /\ \A i \in DOMAIN entries : entries[i].type # "other" /\ ~entries[i].special
      /\ Cardinality(nodes) = Len(entries)
      /\ Root \in nodes \ files
      /\ files \cap inner = {}
      /\ Cardinality(nodes \cup inner) <= MaxEntries
=============================================================================
