---------------------------- MODULE MCAlgorithms ----------------------------
(***************************************************************************)
(* Every property of Algorithms over all inputs up to a bound: one state    *)
(* per input, and nothing happens.                                          *)
(***************************************************************************)
EXTENDS Algorithms

UpTo(n, S) == UNION {[1 .. k -> S] : k \in 0 .. n}

-----------------------------------------------------------------------------
(* Volume archives. *)

RawPaths == UpTo(4, {"", ".", "..", "data", "a"}) \ {<<>>}
PathInputs == [of : {"entry name"}, raw : RawPaths, dir : BOOLEAN]

(* Entries as GNU tar lists them for a volume, with a link and a set-uid file. *)
TarPaths == {<<".", "a">>, <<".", "b">>, <<".", "a", "a">>, <<".", "a", "b">>, <<".", "a", "b", "a">>}
TarEntries ==
  [raw : {<<".", "">>}, type : {"dir"}, special : {FALSE}]
  \cup [raw : TarPaths, type : {"file"}, special : {FALSE}]
  \cup [raw : {Append(p, "") : p \in TarPaths}, type : {"dir"}, special : {FALSE}]
  \cup {[raw |-> <<".", "b">>, type |-> "other", special |-> FALSE],
        [raw |-> <<".", "b">>, type |-> "file", special |-> TRUE]}
TarInputs == [of : {"tar"}, entries : UpTo(4, TarEntries)]
ArchiveEntries ==
  [raw : {<<"data">>, <<"data", "a">>, <<"data", "b">>, <<"data", "a", "b">>, <<"data", "a", "b", "a">>},
   type : {"file", "dir"}, special : {FALSE}]
ArchiveInputs == [of : {"archive"}, entries : UpTo(4, ArchiveEntries)]

-----------------------------------------------------------------------------
(* Host archives. *)

Targets == {<<"", "etc">>, <<"..", "sshdock.db">>, <<"..", "..", "caddy", "main">>,
            <<"..", "..", "..", "etc">>, <<"x", "..", "..", "..", "..", "data">>}
AppNode ==
  {Node(<<"apps", "a">>, kind, <<>>) : kind \in {"file", "socket", "pipe"}}
  \cup {Node(<<"apps", "a">>, "link", to) : to \in Targets}
Branches ==
  {{}, {Node(<<"apps">>, "dir", <<>>)}} \cup {{Node(<<"apps">>, "dir", <<>>), n} : n \in AppNode}
Backups == {{}, {Node(<<"backups">>, "dir", <<>>), Node(<<"backups", "b">>, "file", <<>>)}}
Others == SUBSET {Database, Node(<<"backups-old">>, "file", <<>>), Node(<<"l">>, "link", <<"..", "..", "etc">>)}
HostInputs ==
  [of : {"host"}, tree : {a \cup b \cup c : a \in Branches, b \in Backups, c \in Others},
   destination : {<<>>, <<"new">>, <<"backups-old">>, <<"backups", "new">>}, caddy : SUBSET {"main", "generated"},
   grows : BOOLEAN]

-----------------------------------------------------------------------------
(* Log text, over the characters 2, 3 and 4. *)

PieceInputs == [of : {"pieces"}, pieces : UpTo(3, UpTo(3, {2, 3}))]
Secrets == {values \in SUBSET UpTo(3, {2, 3}) : Cardinality(values) <= 2 /\ <<>> \notin values}
RedactInputs == [of : {"redact"}, values : Secrets, pieces : [1 .. 2 -> UpTo(3, {2, 3, 4})]]

-----------------------------------------------------------------------------
(* Compose models and ports. *)

Hosts == {"unset", "0.0.0.0", "127.0.0.1", "::", "::1"}
AnyPorts == {Port(h, n, p) : h \in Hosts \cup {"*"}, n \in {1, 2}, p \in {"tcp", "udp"}}
OverlapInputs == [of : {"overlap"}, a : AnyPorts, b : AnyPorts]
ModelPorts ==
  {Port(h, n, "tcp") : h \in Hosts \ {"0.0.0.0"}, n \in {1, 2}} \cup {Port("unset", 1, "udp"), Port("unset", 0, "tcp")}
Models ==
  [{"web", "a"} -> UpTo(2, ModelPorts)] \cup [{"a", "b"} -> UpTo(2, ModelPorts)]
  \cup [{"web", "a", "b"} -> UpTo(1, ModelPorts)]
ModelInputs == [of : {"model"}, model : Models]
Binding(project, service, host) == [project |-> project, service |-> service, port |-> Port(host, 1, "tcp")]
SomeBindings ==
  {Binding("this", s, h) : s \in {"web", "a"}, h \in Hosts \ {"unset"}} \cup {Binding("other", "web", h) : h \in Hosts \ {"unset"}}
PortInputs ==
  [of : {"port"}, host : Hosts, bindings : UpTo(3, SomeBindings),
   listeners : {l \in SUBSET ((Hosts \ {"unset"}) \cup {"*"}) : Cardinality(l) <= 2}, known : BOOLEAN]
Finds == {"file", "yaml", "environment", "policy", "compose", "config", "readable", "docker", "collision", "occupied",
  "images", "builds", "starts"}
PreflightInputs == [of : {"preflight"}, scope : {"local", "server"}, found : [Finds -> BOOLEAN]]

-----------------------------------------------------------------------------
(* Routes and health. *)

Spellings == [scheme : {"none", "http", "https"}, host : {"a", "A", "b", "::1"}, port : {0, 80, 443, 8080}]
RowSets == {rows \in {{Row(x, p), Row(y, q)} : x, y \in StoredAddresses(Spellings), p, q \in {1, 2}} : Renderable(rows)}
RouteInputs == [of : {"routes"}, rows : RowSets]
A1 == [scheme |-> "none", host |-> "a", port |-> 0, form |-> "plain"]
A2 == [A1 EXCEPT !.scheme = "http"]
Reads ==
  {[supported |-> FALSE, readable |-> FALSE, routes |-> {}], [supported |-> TRUE, readable |-> FALSE, routes |-> {}]}
  \cup [supported : {TRUE}, readable : {TRUE}, routes : {{Row(x, p), Row(y, q)} : x, y \in {A1, A2}, p, q \in {1, 2}} \cup {{}}]
FewRows == {{}} \cup {{Row(x, 1)} : x \in {A1, A2}} \cup {{Row(A1, 1), Row(A2, 2)}}
CheckInputs ==
  [of : {"domains"}, rows : FewRows, failures : SUBSET {[address |-> A1], [address |-> A2]}, active : Reads]
Attempt == [id : {1, 2}, started : {1, 2}, commit : {"c", "d"}, status : {"pending", "deploying", "succeeded", "failed"}]
HealthInputs ==
  [of : {"health"}, status : {"created", "healthy", "failed"}, main : {"none", "c"}, release : {"none", "succeeded", "failed"},
   attempts : {{}} \cup {{x, y} : x \in {a \in Attempt : a.id = 1}, y \in {a \in Attempt : a.id = 2}},
   rows : {{}, {Row(A1, 1)}}, failures : {{}, {[address |-> A1]}},
   active : {r \in Reads : r.supported /\ r.routes \subseteq {Row(A1, 1), Row(A1, 2)}},
   services : {{"running"}, {"running", "exited"}}, restarts : {TRUE}]

-----------------------------------------------------------------------------
(* Operator commands over SSH. *)

Characters == {"x", " ", "'", "\"", "\\"}
Styles == {"single", "double", "escape"}
QuoteInputs == [of : {"quote"}, argv : UpTo(2, UpTo(2, Characters)), styles : [1 .. 2 -> Styles], gap : {1, 2}]
ArgvInputs == [of : {"argv"}, argv : UpTo(6, {"apps", "exec", "list", "x", "--", "--json"})]

-----------------------------------------------------------------------------
(* App names. *)

NameInputs == [of : {"name"}, name : UpTo(6, {"a", "A", "-", "."})]

-----------------------------------------------------------------------------
Init ==
  \/ input \in PathInputs \cup TarInputs \cup ArchiveInputs \cup HostInputs \cup PieceInputs \cup RedactInputs
  \/ input \in OverlapInputs \cup ModelInputs \cup PortInputs \cup PreflightInputs
  \/ input \in RouteInputs \cup CheckInputs \cup HealthInputs \cup QuoteInputs \cup ArgvInputs \cup NameInputs
Next == UNCHANGED input
Spec == Init /\ [][Next]_input
=============================================================================
