----------------------------- MODULE Algorithms -----------------------------
(***************************************************************************)
(* The pure functions of the code, each against a reference definition: what *)
(* is true of them for every input.  MCAlgorithms tries all inputs up to a   *)
(* bound.  DeploymentLogProofs proves it of log text of any length, and      *)
(* AppOperationsProofs of any other input.                                  *)
(***************************************************************************)
EXTENDS VolumeArchive, HostArchive, LogText, ComposeChecks, RouteChecks, OperatorSSH, AppNames

VARIABLE input  \* [of |-> the function, ... its arguments]

-----------------------------------------------------------------------------
(* Volume archives. *)

(* Whatever path an archive names, an accepted entry is the path it denotes  *)
(* once cleaned, below data/, and never one that leaves it:                 *)
(* volumeEntryName's trimming agrees with path.Clean.                       *)
EntryNamesStayBelowData ==
  input.of = "entry name" =>
    LET name == EntryName(input.raw, "data", input.dir) IN
    name # Rejected => Clean(input.raw) = IF name = Root THEN <<"data">> ELSE <<"data">> \o name

(* copyVolumeEntries, one pass over entries in any order, accepts exactly    *)
(* the well-formed trees: no duplicate, no file above another entry, a root, *)
(* and the limit on entries and implied directories together.               *)
AcceptsExactlyTrees ==
  input.of = "archive" => (Accepts(input.entries) <=> IsTree(input.entries))

(* Every archive that an export publishes is one that a restore accepts and  *)
(* stages with the names the helper's tar had.                              *)
PackedIsAccepted ==
  input.of = "tar" /\ Packs(input.entries) =>
    LET packed == Packed(input.entries) IN
    Accepts(packed) /\ CopyEntries(packed, "data").names = CopyEntries(input.entries, ".").names

-----------------------------------------------------------------------------
(* Host archives. *)

Created == Create(input.tree, input.destination, input.caddy, input.grows)

(* A backup that `sshdock backup` reports restores, to the data directory    *)
(* without its backups and the archive that it replaced: all of it, beside   *)
(* an empty temporary file when the archive was written into that directory. *)
(* The exception is a directory with a pipe, or a link that is absolute or   *)
(* leads out of it, as a checked out repository may have: that archive is    *)
(* refused, before it replaces.                                             *)
BackupIsRestorable ==
  input.of = "host" /\ Created.ok =>
    LET kept == {n \in input.tree : n.path[1] # "backups" /\ n.path # input.destination} IN
    /\ Restores(Created.headers) <=> IsRestorable(kept)
    /\ RestoredTree(Created.headers) \ Temporary(input.destination) = kept

(* Inspect counts as many files in an archive as Create reported for it.    *)
InspectAgreesWithCreate ==
  input.of = "host" => InspectedFiles(Created.headers) = Created.fileCount

-----------------------------------------------------------------------------
(* Log text. *)

(* However the output is cut into writes, the log is its beginning up to the *)
(* limit, and has the marker exactly when something was cut off.            *)
LimitCutsOnce ==
  input.of = "pieces" => AppendedAll(input.pieces) = Cut(FlattenSeq(input.pieces))

(* Two pieces of output are redacted like one, wherever they are cut, unless *)
(* a value ends the way one begins: then its beginning may be written before *)
(* its end has come.                                                        *)
Overlaps(v, w) == \E n \in 1 .. Len(v) : n < Len(w) /\ (n < Len(v) \/ v # w) /\ Suffix(v, n) = SubSeq(w, 1, n)

RedactionSpansWrites ==
  input.of = "redact" /\ (\A v, w \in input.values : ~Overlaps(v, w)) =>
    Written(input.pieces, input.values) = RedactValues(FlattenSeq(input.pieces), input.values)

-----------------------------------------------------------------------------
(* Compose models and ports. *)

InputStatus ==
  PortStatus([service |-> "web", port |-> Port(input.host, 1, "tcp")], input.bindings,
             {Port(h, 1, "tcp") : h \in input.listeners}, input.known)

(* A collision is called certain, and blocks, only if the ports conflict on  *)
(* every host, and none is seen only if they conflict on no host.  So an app *)
(* whose own ports are said to collide cannot be brought up anywhere.        *)
OverlapIsSound ==
  \A dual \in BOOLEAN :
    /\ input.of = "overlap" =>
         /\ Certain(input.a, input.b) => Conflict(input.a, input.b, dual)
         /\ Conflict(input.a, input.b, dual) => PortsOverlap(input.a, input.b)
    /\ input.of = "model" /\ Collides(input.model) =>
         \E pq \in Collisions(input.model) : Conflict(pq[1].port, pq[2].port, dual)

(* On a host where Docker can bind all the ports of the model, what Caddy    *)
(* gets to on the loopback address at the port of the inferred route is      *)
(* that service, though a route is inferred from the text of host_ip alone.  *)
RouteReachesItsService ==
  input.of = "model" =>
    \A s \in InferRoute(input.model), dual \in BOOLEAN :
      CanBeBound(input.model, dual) => Reached(input.model, s, dual) = {s}

(* Checking an app that runs does not warn of the app itself: where no two   *)
(* of its ports overlap, its own bindings and listeners leave all of them ok. *)
DockerHosts(host) == IF host = "unset" THEN {"0.0.0.0", "::"} ELSE {host}

RedeployIsClean ==
  input.of = "model" /\ Collisions(input.model) = {} =>
    LET running ==
          UNION {{[project |-> "this", service |-> p.service, port |-> [p.port EXCEPT !.host = h]] :
                    h \in DockerHosts(p.port.host)} : p \in PublishedPorts(input.model)} IN
    \A p \in PublishedPorts(input.model) :
      PortStatus(p, SetToSeq(running), {b.port : b \in running}, TRUE) = "ok"

(* Whatever order the bindings come in, the status is the worst of them; and *)
(* ok means that nothing but the service's own bindings is in the way.       *)
PortStatusIsWorst ==
  input.of = "port" =>
    LET port == Port(input.host, 1, "tcp")
        inTheWay == {b \in Range(input.bindings) : PortsOverlap(port, b.port)}
        others == {b \in inTheWay : b.project = "other"} IN
    /\ InputStatus = "fail" <=> \E b \in others : Certain(port, b.port)
    /\ others # {} => InputStatus \in {"fail", "unknown"}
    /\ InputStatus = "ok" =>
         /\ input.known
         /\ \A b \in Range(input.bindings), dual \in BOOLEAN :
              Conflict(port, b.port, dual) => b.project = "this" /\ b.service = "web"
         /\ \A h \in input.listeners, dual \in BOOLEAN :
              Conflict(port, Port(h, 1, "tcp"), dual) =>
                \E b \in inTheWay : Taken(h, FALSE) \subseteq Taken(b.port.host, FALSE)

(* A report blocks only what would have failed; and when it is ok and all of *)
(* it was checked on the server, nothing is left that can stop the          *)
(* deployment but the images, the builds and the services themselves.       *)
PreflightAgreesWithDeploy ==
  input.of = "preflight" =>
    LET report == Preflight(input.scope, input.found)
        unobserved == input.found.images /\ input.found.builds /\ input.found.starts IN
    /\ ~report.ok => DeployStage(input.found) # "deployed"
    /\ report.ok /\ report.validated /\ input.scope = "server" /\ unobserved => DeployStage(input.found) = "deployed"

-----------------------------------------------------------------------------
(* Routes and health. *)

(* What is rendered for the stored rows and served by Caddy is read back as  *)
(* those rows, whatever the addresses' schemes and ports, but for two        *)
(* spellings.                                                               *)
RoutesReadBack ==
  input.of = "routes" =>
    \A r \in input.rows :
      RowStatus(r, FALSE, ReadBack(input.rows)) = IF IsUnrecognised(r.address) THEN "missing" ELSE "ok"

(* The domain check loses neither a row nor a failure: one is left out only  *)
(* when Caddy was read and serves nothing at an address nobody wants; and    *)
(* it says ok only of what Caddy serves as it is wanted.                    *)
DomainCheckIsTrue ==
  input.of = "domains" =>
    LET checks == CheckDomains(input.rows, input.failures, input.active)
        wanted(address) == \E r \in input.rows : r.address = address
        served(r) == \E q \in input.active.routes : q = r IN
    /\ \A r \in input.rows : \E c \in checks : c.address = r.address /\ (c.status = "ok" <=> served(r))
    /\ \A f \in input.failures :
         \/ wanted(f.address)
         \/ \E c \in checks : c.address = f.address /\ c.status \in {"failed", "unavailable"}
         \/ input.active.readable /\ \A q \in input.active.routes : q.address # f.address

(* An app that is said to be ok runs what main is at, as its last attempt    *)
(* left it, and every one of its routes is served; and a route that is known *)
(* not to be served as wanted makes the app fail.                           *)
HealthyMeansServed ==
  input.of = "health" =>
    LET health == Health(input) IN
    /\ health.overall = "ok" =>
         /\ input.status = "healthy" /\ input.services = {"running"}
         /\ health.latest = health.lastSuccess
         /\ \E a \in input.attempts :
              a.commit = input.main /\ \A b \in input.attempts : b.started <= a.started
         /\ input.rows # {} /\ input.rows \subseteq input.active.routes
    /\ input.active.readable /\ ~(input.rows \subseteq input.active.routes) => health.overall = "fail"

(* Diagnostics require a listener on 443 whenever Caddy needs one for the    *)
(* stored rows, whatever the rows' own https says.                          *)
NeededPortIsRequired ==
  input.of = "routes" =>
    \A stale \in SUBSET input.rows :
      LET rows == {IF r \in stale THEN [r EXCEPT !.https = FALSE] ELSE r : r \in input.rows} IN
      (\E s \in Servers({Rendered(r) : r \in input.rows}) : s.listen = 443) => RequiresHTTPS(rows)

-----------------------------------------------------------------------------
(* Operator commands over SSH. *)

Escaped(word, chars) ==
  FlattenSeq([i \in 1 .. Len(word) |-> IF word[i] \in chars THEN <<"\\", word[i]>> ELSE <<word[i]>>])

Quoted(word, style) ==
  CASE style = "single" ->
         <<"'">>
         \o FlattenSeq([i \in 1 .. Len(word) |-> IF word[i] = "'" THEN <<"'", "\\", "'", "'">> ELSE <<word[i]>>])
         \o <<"'">>
    [] style = "double" -> <<"\"">> \o Escaped(word, {"\"", "\\"}) \o <<"\"">>
    [] style = "escape" -> IF word = <<>> THEN <<"'", "'">> ELSE Escaped(word, Range(word))

(* Arguments quoted in any of a shell's ways arrive as they were, empty ones *)
(* too, however much space is between them.                                 *)
QuotedArgvIsPreserved ==
  input.of = "quote" =>
    LET gap == [i \in 1 .. input.gap |-> " "]
        command == FlattenSeq([i \in 1 .. Len(input.argv) |-> Quoted(input.argv[i], input.styles[i]) \o gap]) IN
    SplitCommand(command) = input.argv

(* What comes after the -- of exec and run is the container's, --json too;   *)
(* elsewhere --json is accepted only once and last; and arguments that were  *)
(* parsed can be parsed again by the next layer.                            *)
ContainerArgvIsOpaque ==
  input.of = "argv" =>
    LET parsed == ParseOutputArgs(input.argv)
        options == {input.argv[3], input.argv[4]} IN
    /\ Len(input.argv) > 5 /\ IsContainerCommand(input.argv) /\ "--json" \notin options =>
         OperatorCommandAllowed(input.argv) /\ parsed = [ok |-> TRUE, args |-> input.argv, json |-> FALSE]
    /\ parsed.ok => ParseOutputArgs(parsed.args) = [ok |-> TRUE, args |-> parsed.args, json |-> FALSE]
    /\ parsed.ok /\ parsed.json => \A i \in DOMAIN parsed.args : parsed.args[i] # "--json"

-----------------------------------------------------------------------------
(* App names. *)

(* The name suggested for an unusable one can be used, at every length and   *)
(* wherever it is cut off, and is what would be suggested for itself.        *)
SuggestionIsUsable ==
  input.of = "name" =>
    LET suggestion == SuggestAppName(input.name) IN
    IsDNSLabelSafe(suggestion) /\ SuggestAppName(suggestion) = suggestion

-----------------------------------------------------------------------------
(* What one part of the code writes another accepts: both archive formats,    *)
(* their packers, readers and inspectors, for every shape of a tree.          *)
ArchivesAreRestorable ==
  EntryNamesStayBelowData /\ AcceptsExactlyTrees /\ PackedIsAccepted /\ BackupIsRestorable /\ InspectAgreesWithCreate

(* A stored log is cut once and at its end, and no secret that the writes of  *)
(* a command cut in pieces gets through.                                      *)
LogTextIsSafe == LimitCutsOnce /\ RedactionSpansWrites

(* A preflight report says neither too much nor too little: of two ports, of  *)
(* all ports of an app, of an app that runs already, and of all checks.       *)
PreflightIsTrue == OverlapIsSound /\ PortStatusIsWorst /\ RedeployIsClean /\ PreflightAgreesWithDeploy

(* Routes that are inferred reach their service, are read back from Caddy as  *)
(* they were stored, and are what the domain check, health and the port       *)
(* diagnostics speak of.                                                      *)
RoutesAreDiagnosed ==
  RouteReachesItsService /\ RoutesReadBack /\ DomainCheckIsTrue /\ HealthyMeansServed /\ NeededPortIsRequired

(* What an operator sends over SSH arrives as it was meant, and a name that   *)
(* is suggested to them can be used.                                          *)
OperatorWordsAreKept == QuotedArgvIsPreserved /\ ContainerArgvIsOpaque /\ SuggestionIsUsable
=============================================================================
