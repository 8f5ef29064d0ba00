----------------------------- MODULE RouteChecks -----------------------------
(***************************************************************************)
(* What operators are told about routes and apps: the address a domain is   *)
(* stored under, the routes read back from the running Caddy, `domains      *)
(* check', `apps health' and the ports that diagnostics require.            *)
(*                                                                         *)
(* An address is [scheme, host, port, form]: scheme "none" and port 0 where  *)
(* the text has none, and whether the host is "plain" or "bracketed".       *)
(***************************************************************************)
EXTENDS Integers, FiniteSets

-----------------------------------------------------------------------------
(* Addresses. *)
IsIPv6(host) == host = "::1"
Form(host) == IF IsIPv6(host) THEN "bracketed" ELSE "plain"
Lower(host) == IF host = "A" THEN "a" ELSE host
OwnPort(scheme) == IF scheme = "http" THEN 80 ELSE 443

CanonicalAddress(written) ==
  LET scheme == IF written.scheme # "none" THEN written.scheme ELSE IF written.port = 80 THEN "http" ELSE "https"
      port == IF written.port # 0 THEN written.port ELSE OwnPort(scheme) IN
  [scheme |-> IF scheme = "https" /\ port = 443 THEN "none" ELSE scheme, host |-> Lower(written.host),
   port |-> IF port = OwnPort(scheme) THEN 0 ELSE port, form |-> Form(written.host)]
IsHTTPS(address) == address.scheme # "http"
PublicPort(address) == IF address.port # 0 THEN address.port ELSE OwnPort(address.scheme)

-----------------------------------------------------------------------------
(* Caddy: the sites of a Caddyfile as servers, one per port.  It refuses a   *)
(* scheme on the other one's port.                                          *)
Accepted(address) == ~(address.scheme = "http" /\ PublicPort(address) = 443)
                     /\ ~(IsHTTPS(address) /\ PublicPort(address) = 80)
Servers(routes) ==
  {[listen |-> port,
    skip |-> {r.address.host : r \in {r \in routes : port # 80 /\ PublicPort(r.address) = port /\ ~IsHTTPS(r.address)}},
    routes |-> {[host |-> r.address.host, upstream |-> r.port] : r \in {r \in routes : PublicPort(r.address) = port}}] :
     port \in {PublicPort(r.address) : r \in routes}}

UsesHTTPS(server, host) == host \notin server.skip /\ server.listen # 80
SiteAddress(host, listen, https) ==
  IF listen = OwnPort(IF https THEN "https" ELSE "http")
  THEN [scheme |-> IF https THEN "none" ELSE "http", host |-> host, port |-> 0, form |-> "plain"]
  ELSE [scheme |-> IF https THEN "https" ELSE "http", host |-> host, port |-> listen, form |-> Form(host)]
ActiveRoutes(servers) ==
  UNION {{[address |-> SiteAddress(r.host, s.listen, UsesHTTPS(s, r.host)), port |-> r.upstream,
           https |-> UsesHTTPS(s, r.host)] : r \in s.routes} : s \in servers}

-----------------------------------------------------------------------------
(* Domain checks: an app's rows and apply failures against what was read,   *)
(* [supported, readable, routes].                                           *)
ComparisonKey(address) ==
  IF address.scheme = "https" /\ address.port \in {0, 443}
  THEN [scheme |-> "none", host |-> Lower(address.host), port |-> 0, form |-> "plain"] ELSE address
ActiveAt(active, address) == {r \in active.routes : ComparisonKey(r.address) = ComparisonKey(address)}
Matches(active, row) == \E r \in ActiveAt(active, row.address) : r.port = row.port /\ r.https = row.https

RowStatus(row, failed, active) ==
  CASE ~active.supported -> IF failed THEN "failed" ELSE "stored"
    [] active.supported /\ ~active.readable -> "unavailable"
    [] active.supported /\ active.readable ->
         IF Matches(active, row) THEN "ok"
         ELSE IF failed THEN "failed" ELSE IF ActiveAt(active, row.address) = {} THEN "missing" ELSE "mismatch"
IsOutdated(failure, active) == active.supported /\ active.readable /\ ActiveAt(active, failure.address) = {}

CheckDomains(rows, failures, active) ==
  {[address |-> r.address, status |-> RowStatus(r, \E f \in failures : f.address = r.address, active)] : r \in rows}
  \cup {[address |-> f.address, status |-> IF active.supported /\ ~active.readable THEN "unavailable" ELSE "failed"] :
          f \in {f \in failures : (\A r \in rows : r.address # f.address) /\ ~IsOutdated(f, active)}}

-----------------------------------------------------------------------------
(* Health of an app, from what was read of it: its status, main, attempts   *)
(* [id, started, commit, status], the status of the latest one's release,   *)
(* rows, failures and active as above, the states of its services and       *)
(* whether all of them restart by themselves.                               *)
RouteHealthOfFailures(checks) == IF \E c \in checks : c.status = "failed" THEN "fail" ELSE "ok"
RouteHealth(checks) ==
  IF checks = {} THEN "warn"
  ELSE IF \E c \in checks : c.status \in {"failed", "missing", "mismatch"} THEN "fail"
  ELSE IF \E c \in checks : c.status # "ok" THEN "warn" ELSE "ok"
OutcomeHealth(status) ==
  CASE status \in {"healthy", "succeeded"} -> "ok" [] status = "failed" -> "fail" [] OTHER -> "warn"
ServiceHealth(services) ==
  IF services = {} THEN "warn" ELSE IF \E s \in services : s # "running" THEN "fail" ELSE "ok"

IsLater(a, b) == a.started > b.started \/ (a.started = b.started /\ a.id > b.id)
Latest(attempts) == {a \in attempts : \A b \in attempts \ {a} : IsLater(a, b)}
CurrentMainHealth(read, latest) ==
  IF read.main = "none" THEN "warn" ELSE IF \E a \in latest : a.commit = read.main THEN "ok" ELSE "warn"
Health(read) ==
  LET latest == Latest(read.attempts)
      checks ==
        {OutcomeHealth(read.status), OutcomeHealth(read.release), CurrentMainHealth(read, latest),
         RouteHealth(CheckDomains(read.rows, read.failures, read.active)), ServiceHealth(read.services)}
        \cup {OutcomeHealth(a.status) : a \in latest}
        \cup (IF latest = {} \/ read.rows = {} \/ ~read.restarts THEN {"warn"} ELSE {}) IN
  [overall |-> IF "fail" \in checks THEN "fail" ELSE IF "warn" \in checks THEN "warn" ELSE "ok",
   latest |-> latest,
   lastSuccess |-> Latest({a \in read.attempts : a.status = "succeeded"}),
   lastFailure |-> Latest({a \in read.attempts : a.status = "failed"})]

-----------------------------------------------------------------------------
(* Diagnostics: port 443 must be listened on unless all routes are http.    *)
RequiresHTTPS(rows) == \E r \in rows : r.address.scheme # "http"

-----------------------------------------------------------------------------
(* References. *)

(* The rows of `domains', [address, port, https].  One that an older version *)
(* stored kept an https address as it was written; rendering makes it        *)
(* canonical.  The store and Caddy's validation keep out the others.        *)
AsWritten(written) ==
  [scheme |-> written.scheme, host |-> written.host, port |-> written.port, form |-> Form(written.host)]
StoredAddresses(spellings) ==
  {CanonicalAddress(w) : w \in spellings} \cup {AsWritten(w) : w \in {w \in spellings : w.scheme = "https"}}
Row(address, port) == [address |-> address, port |-> port, https |-> IsHTTPS(address)]
Rendered(row) == [row EXCEPT !.address = CanonicalAddress(row.address)]
Renderable(rows) ==
  \A r \in rows : /\ Accepted(CanonicalAddress(r.address))
                  /\ \A q \in rows \ {r} : \/ Lower(q.address.host) # Lower(r.address.host)
                                           \/ PublicPort(q.address) # PublicPort(r.address)

(* What Caddy serves of the rows, read back. *)
ReadBack(rows) ==
  [supported |-> TRUE, readable |-> TRUE, routes |-> ActiveRoutes(Servers({Rendered(r) : r \in rows}))]

(* Two spellings are served and said to be missing: an IPv6 literal without  *)
(* a port, and an old row with capitals and a port of its own.              *)
IsUnrecognised(address) ==
  IF address.scheme = "https" /\ address.port \notin {0, 443} THEN Lower(address.host) # address.host
  ELSE IsIPv6(address.host) /\ address.port = 0 /\ address.scheme # "https"

=============================================================================
