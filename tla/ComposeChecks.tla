---------------------------- MODULE ComposeChecks ----------------------------
(***************************************************************************)
(* What internal/compose concludes from an effective Compose model before   *)
(* anything runs: the service that is routed automatically, and whether its *)
(* published ports are free.  A model maps services to their ports, each a  *)
(* [host, number, protocol]; number 0 stands for one that is not fixed, and  *)
(* host "unset" for none.                                                   *)
(***************************************************************************)
EXTENDS Naturals, FiniteSetsExt, SequencesExt

-----------------------------------------------------------------------------
(* The automatic route. *)
TCPPorts(ports) == {i \in DOMAIN ports : ports[i].protocol = "tcp" /\ ports[i].number # 0}
RouteHostReachable(host) == host \in {"unset", "0.0.0.0", "127.0.0.1"}
IsCandidate(ports) == \E i \in DOMAIN ports : TCPPorts(ports) = {i} /\ RouteHostReachable(ports[i].host)
InferRoute(model) ==
  LET candidates == {s \in DOMAIN model : IsCandidate(model[s])}
      loopback == {s \in candidates : \E i \in TCPPorts(model[s]) : model[s][i].host \in {"127.0.0.1", "::1"}} IN
  IF "web" \in candidates THEN {"web"}
  ELSE IF Cardinality(loopback) = 1 THEN loopback
  ELSE IF Cardinality(candidates) = 1 THEN candidates ELSE {}

-----------------------------------------------------------------------------
(* Ports that overlap, and whether that is certain. *)
IP == [v4 |-> {"0.0.0.0", "127.0.0.1"}, v6 |-> {"::", "::1"}]
IsIP(host) == host \in IP.v4 \cup IP.v6
IsUnspecified(host) == host \in {"0.0.0.0", "::"}
SameFamily(a, b) == a \in IP.v4 <=> b \in IP.v4

PortsOverlap(a, b) ==
  /\ a.number = b.number /\ a.protocol = b.protocol
  /\ \/ a.host = b.host
     \/ \E host \in {a.host, b.host} : ~IsIP(host) \/ IsUnspecified(host)
Certain(a, b) ==
  PortsOverlap(a, b) /\ (a.host = b.host \/ (IsIP(a.host) /\ IsIP(b.host) /\ SameFamily(a.host, b.host)))

PublishedPorts(model) ==
  UNION {{[service |-> s, at |-> i, port |-> model[s][i]] :
            i \in {k \in DOMAIN model[s] : model[s][k].number # 0}} : s \in DOMAIN model}
Collisions(model) ==
  {pq \in PublishedPorts(model) \X PublishedPorts(model) : pq[1] # pq[2] /\ PortsOverlap(pq[1].port, pq[2].port)}
Collides(model) == \E pq \in Collisions(model) : Certain(pq[1].port, pq[2].port)

-----------------------------------------------------------------------------
(* A port against the bindings Docker reports, [project, service, port], in  *)
(* the order of a Go map, and against the listeners of the host.            *)
Covers(binding, listener) ==
  /\ binding.number = listener.number /\ binding.protocol = listener.protocol
  /\ IsIP(binding.host) /\ IsIP(listener.host)
  /\ \/ binding.host = listener.host
     \/ IsUnspecified(binding.host) /\ SameFamily(binding.host, listener.host)

Untouched == [status |-> "ok", own |-> {}]
AgainstBindingAsItComes(seen, published, binding) ==
  IF seen.status = "fail" \/ ~PortsOverlap(published.port, binding.port) THEN seen
  ELSE IF binding.project = "this"
  THEN IF binding.service = published.service
       THEN [seen EXCEPT !.own = @ \cup {binding.port}] ELSE [seen EXCEPT !.status = "warn"]
  ELSE [seen EXCEPT !.status = IF Certain(published.port, binding.port) THEN "fail" ELSE "unknown"]
AgainstBinding(seen, published, binding) ==
  IF seen.status = "fail" \/ ~PortsOverlap(published.port, binding.port) THEN seen
  ELSE IF binding.project = "this"
  THEN IF binding.service = published.service THEN [seen EXCEPT !.own = @ \cup {binding.port}]
       ELSE IF seen.status = "ok" THEN [seen EXCEPT !.status = "warn"] ELSE seen
  ELSE [seen EXCEPT !.status = IF Certain(published.port, binding.port) THEN "fail" ELSE "unknown"]

PortStatus(published, bindings, listeners, known) ==
  LET seen == FoldLeft(LAMBDA s, b : AgainstBinding(s, published, b), Untouched, bindings)
      taken == {l \in listeners : PortsOverlap(published.port, l) /\ \A b \in seen.own : ~Covers(b, l)} IN
  IF seen.status # "ok" THEN seen.status
  ELSE IF taken # {} THEN "warn" ELSE IF known THEN "ok" ELSE "unknown"

-----------------------------------------------------------------------------
(* The report as a whole, and where a deployment of the same files ends,     *)
(* from what each step finds.                                               *)
Preflight(scope, found) ==
  IF ~(found.file /\ found.yaml /\ found.environment /\ found.policy) THEN [ok |-> FALSE, validated |-> FALSE]
  ELSE IF ~found.compose THEN [ok |-> scope = "local", validated |-> FALSE]
  ELSE IF ~found.config THEN [ok |-> FALSE, validated |-> FALSE]
  ELSE IF ~found.readable THEN [ok |-> TRUE, validated |-> FALSE]
  ELSE [ok |-> ~found.collision /\ (scope = "server" => found.docker /\ ~found.occupied), validated |-> TRUE]

DeployStage(found) ==
  CASE ~found.file -> "detect Compose"
    [] found.file /\ ~(found.yaml /\ found.environment /\ found.policy) -> "validate Compose"
    [] OTHER ->
       IF ~(found.compose /\ found.config /\ found.readable) THEN "Compose config"
       ELSE IF ~(found.docker /\ found.images) THEN "pull images"
       ELSE IF ~found.builds THEN "build services"
       ELSE IF found.collision \/ found.occupied \/ ~found.starts THEN "wait services" ELSE "deployed"

-----------------------------------------------------------------------------
(* References: the addresses a socket takes, on a host whose IPv6 sockets    *)
(* take IPv4 too or do not.  Docker binds both families for a port without a *)
(* host, and "*" is a listener on all of them.                              *)
Port(host, number, protocol) == [host |-> host, number |-> number, protocol |-> protocol]
Taken(host, dual) ==
  CASE host \in {"127.0.0.1", "::1"} -> {host}
    [] host = "0.0.0.0" -> {"127.0.0.1", "v4"}
    [] host = "::" -> {"::1", "v6"} \cup IF dual THEN {"127.0.0.1", "v4"} ELSE {}
    [] OTHER -> {"127.0.0.1", "v4", "::1", "v6"}
Conflict(a, b, dual) ==
  a.number = b.number /\ a.protocol = b.protocol /\ Taken(a.host, dual) \cap Taken(b.host, dual) # {}

(* On a host where Docker can bind all the ports of the model: the services  *)
(* Caddy gets to on the loopback address at a service's TCP port.           *)
CanBeBound(model, dual) ==
  \A p, q \in PublishedPorts(model) : p # q => ~Conflict(p.port, q.port, dual)
Reached(model, s, dual) ==
  {p.service : p \in {p \in PublishedPorts(model) :
     \E i \in TCPPorts(model[s]) : Conflict(p.port, Port("127.0.0.1", model[s][i].number, "tcp"), dual)}}
=============================================================================
