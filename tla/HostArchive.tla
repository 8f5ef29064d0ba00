---------------------------- MODULE HostArchive ----------------------------
(***************************************************************************)
(* The format of a host archive: what backup.Create packs of a data         *)
(* directory, what Inspect counts in it, and what Restore extracts.         *)
(* A node is [path, kind, to], with a path below the data directory and,    *)
(* for a link, the parts of its target: <<"", "etc">> is /etc.              *)
(***************************************************************************)
EXTENDS Naturals, FiniteSets, SequencesExt

Node(path, kind, to) == [path |-> path, kind |-> kind, to |-> to]
Header(n) == [n EXCEPT !.path = <<"data">> \o @]
Database == Node(<<"sshdock.db">>, "file", <<>>)
OfKind(nodes, kind) == {n \in nodes : n.kind = kind}

(* createExcludes. *)
Excluded(path, destination) ==
  path = destination \/ path[1] = "backups"

(* addTree walks down from the data directory, past what is excluded.       *)
Walked(tree, destination) ==
  {n \in tree : \A k \in DOMAIN n.path : ~Excluded(SubSeq(n.path, 1, k), destination)}

(* The archive is written beside its destination, in the walked directory    *)
(* when the destination is: `temporary` is that file, or none.              *)
Temporary(destination) ==
  IF destination = <<>> THEN {} ELSE {Node(Append(Front(destination), "tmp"), "file", <<>>)}

Added == {Node(<<"docker", "volumes.json">>, "file", <<>>), Node(<<"manifest.json">>, "file", <<>>)}
AddedFiles == 2

(* backup.Create; tar has no header for a socket, and a file that grows past *)
(* its header while it is copied is an error.                               *)
Create(tree, destination, caddy, grows) ==
  LET packed == Walked(tree \cup Temporary(destination), destination)
  IN  [ok |-> /\ Database \in tree
              /\ OfKind(packed, "socket") = {}
              /\ ~(grows /\ Temporary(destination) \cap packed # {}),
       headers |-> {Header(n) : n \in packed} \cup {Node(<<"data">>, "dir", <<>>)}
                     \cup {Node(<<"caddy", f>>, "file", <<>>) : f \in caddy} \cup Added,
       fileCount |-> Cardinality(OfKind(packed, "file")) + Cardinality(caddy) + AddedFiles]

(* readArchiveMetadata. *)
InspectedFiles(headers) == Cardinality(OfKind(headers, "file"))

-----------------------------------------------------------------------------
(* filepath.Clean of a path that does not start with a slash. *)
CleanPath(parts) ==
  FoldLeft(LAMBDA acc, part :
             IF part \in {"", "."} THEN acc
             ELSE IF part = ".." /\ acc # <<>> /\ Last(acc) # ".." THEN Front(acc)
             ELSE Append(acc, part),
           <<>>, parts)
IsAbs(parts) == Len(parts) > 1 /\ parts[1] = ""
LeavesRoot(parts) == CleanPath(parts) # <<>> /\ CleanPath(parts)[1] = ".."

SafeJoin(name) == ~IsAbs(name) /\ CleanPath(name) # <<>> /\ ~LeavesRoot(name)

(* validateSymlinkTarget; nothing in an archive can name the temporary      *)
(* directory it is extracted to.                                            *)
SafeTarget(h) == h.to # <<>> /\ ~IsAbs(h.to) /\ ~LeavesRoot(Front(h.path) \o h.to)

ExtractsEntry(h) ==
  /\ SafeJoin(h.path)
  /\ h.kind \in {"dir", "file", "link"}
  /\ h.kind = "link" => SafeTarget(h)

(* extractArchive and the checks before anything is replaced.               *)
Restores(headers) ==
  /\ \A h \in headers : ExtractsEntry(h)
  /\ Header(Database) \in headers

(* The data directory that Restore renames into place.                      *)
RestoredTree(headers) ==
  {[h EXCEPT !.path = Tail(@)] : h \in {g \in headers : g.path[1] = "data" /\ Len(g.path) > 1}}

-----------------------------------------------------------------------------
(* Reference: a link that at no step of its target is above the extraction  *)
(* root, which is one level above the data directory.                       *)
Steps(to, k, up) == Cardinality({i \in 1 .. k : to[i] \notin {"", "."} /\ (to[i] = "..") = up})
StaysInside(n) ==
  /\ n.to[1] # ""
  /\ \A k \in DOMAIN n.to : Steps(n.to, k, TRUE) <= Len(n.path) + Steps(n.to, k, FALSE)

IsRestorable(tree) ==
  /\ OfKind(tree, "pipe") = {}
  /\ \A n \in OfKind(tree, "link") : StaysInside(n)
=============================================================================
