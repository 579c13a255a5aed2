---------------------------- MODULE HttpServices ----------------------------
(***************************************************************************)
(* The HTTP side of the tinkerbell process: the table of routes with its   *)
(* two multiplexers (cmd/tinkerbell/http.go, pkg/http/server), the stack of*)
(* middleware around them (pkg/http/middleware, pkg/xff) and behind them   *)
(* Tootles, which answers a machine with the metadata of the Hardware that *)
(* owns the machine's address in the backend's copy: the informer's cache, *)
(* or the file in memory.  Requests reach the server directly or through   *)
(* proxies, each of which appends its peer to X-Forwarded-For.             *)
(***************************************************************************)
EXTENDS Naturals, Sequences, FiniteSets, SequencesExt

CONSTANTS HsConfigs,      \* [smee, tootles, tink, controllers, ui, instance, iso,
                          \*  tls, redirect : BOOLEAN, uiPrefix, pxePrefix : pattern,
                          \*  trusted : set of addresses, backend : "kube", "file" or "none"]
          Endpoints,      \* paths of the metadata that Tootles serves, as sequences
          Machines,       \* addresses of machines
          Relays,         \* addresses of proxies
          HwObjects,      \* the Hardware objects the cluster can hold
          InstanceIDs,    \* instance ids that are asked for
          MaxRequests,    \* a request and those that follow up on its answers
          MaxHops, MaxHwEdits

ASSUME HsAssumption ==
  /\ Machines \cap Relays = {} /\ "" \notin Machines
  /\ \A e \in Endpoints : e \in Seq({e[i] : i \in DOMAIN e})
  /\ \A h \in HwObjects : DOMAIN h.addresses \subseteq Nat
  /\ MaxRequests \in Nat /\ MaxHops \in Nat /\ MaxHwEdits \in Nat
  /\ \A c \in HsConfigs : c.trusted \cap Machines = {}

VARIABLES hsConfig,
          hsCache,    \* the Hardware objects in the backend's copy
          hsLater,    \* the states of the cluster that the copy does not show yet
          hsReq,      \* [client, path, scheme, forwarded, peer, hops, from]
          hsAt,       \* "none", "way" (on its way), "answered"
          hsAnswer,   \* [code, body, by, logged]
          hsCount,    \* http_server_requests_total, by code
          hsSent,     \* requests sent
          hsEdits

hsVars == <<hsConfig, hsCache, hsLater, hsReq, hsAt, hsAnswer, hsCount, hsSent, hsEdits>>

-----------------------------------------------------------------------------
(* The table of routes.                                                    *)

Route(pattern, by, level, https, rewrite) ==
  [pattern |-> pattern, by |-> by, level |-> level, https |-> https, rewrite |-> rewrite]

Plain(pattern, by, level) == Route(pattern, by, level, FALSE, FALSE)

SmeeRoutes(c) ==
  << Plain("/ipxe/binary/", "binary", "always"), Plain("/ipxe/script/", "script", "always") >>
  \o (IF c.iso THEN << Route("/iso/", "iso", "never", c.tls, FALSE) >> ELSE <<>>)
  \o (IF c.pxePrefix # "" THEN << Plain(c.pxePrefix, "pxe", "always") >> ELSE <<>>)

TootlesRoutes(c) ==
  << Route("/2009-04-04/", "ec2", "always", c.tls, c.tls) >>
  \o (IF c.instance THEN << Route("/tootles/", "ec2", "always", c.tls, c.tls) >> ELSE <<>>)
  \o << Route("/metadata", "hack", "always", c.tls, c.tls) >>

MetricsRoutes(c) ==
  (IF c.smee THEN << Plain("/smee/metrics", "metrics", "never") >> ELSE <<>>)
  \o (IF c.tink THEN << Plain("/tink-server/metrics", "metrics", "never") >> ELSE <<>>)
  \o (IF c.controllers THEN << Plain("/controllers/metrics", "metrics", "never") >> ELSE <<>>)
  \o << Plain("/http/metrics", "metrics", "never"), Plain("/metrics", "metrics", "never") >>

routeList(c) ==
  (IF c.smee THEN SmeeRoutes(c) ELSE <<>>)
  \o (IF c.tootles THEN TootlesRoutes(c) ELSE <<>>)
  \o (IF c.ui THEN << Route(c.uiPrefix, "ui", "debug", c.tls, c.tls) >> ELSE <<>>)
  \o MetricsRoutes(c)
  \o << Plain("/healthcheck", "health", "never"), Plain("/healthz", "health", "never"),
        Plain("/readyz", "health", "never") >>

HasHTTPSRoutes(c) == \E r \in ToSet(routeList(c)) : r.https

\* A mutant of Muxes: a route is either redirected or served over TLS.
MuxesEither(c, scheme) ==
  {[pattern |-> r.pattern, level |-> r.level,
    by |-> IF scheme = "http" /\ r.rewrite /\ c.redirect /\ c.tls THEN "redirect" ELSE r.by] :
   r \in {x \in ToSet(routeList(c)) : scheme = "http" \/ (x.https /\ ~x.rewrite)}}

\* Muxes: on plain HTTP a route that is rewritten redirects, if TLS is on
\* and redirects are not disabled; the redirecting handler has no log level.
Muxes(c, scheme) ==
  {[pattern |-> r.pattern,
    level |-> IF scheme = "http" /\ r.rewrite /\ c.redirect /\ c.tls THEN "debug" ELSE r.level,
    by |-> IF scheme = "http" /\ r.rewrite /\ c.redirect /\ c.tls THEN "redirect" ELSE r.by] :
   r \in {x \in ToSet(routeList(c)) : scheme = "http" \/ x.https}}

\* A pattern can be registered once: a second one panics in ServeMux.Handle.
Conflict(c) ==
  LET rs == routeList(c)
  IN \E i, j \in DOMAIN rs : i # j /\ rs[i].pattern = rs[j].pattern

\* ServeMux: the route of the path, or the one of "/" when there is one.
Matched(c, scheme, route) ==
  LET mux == Muxes(c, scheme)
      exact == {r \in mux : r.pattern = route}
      root == {r \in mux : r.pattern = "/"}
      miss == [pattern |-> "", by |-> "notFound", level |-> "debug"]
  IN CHOOSE r \in IF exact # {} THEN exact ELSE IF root # {} THEN root ELSE {miss} : TRUE

-----------------------------------------------------------------------------
(* pkg/xff                                                                 *)

allowed(c, ip) == ip \in c.trusted

\* parse: the last address of the list that is not a trusted proxy's; a
\* list of one is taken as it is.  What is not an address ends the search.
parseForwarded(c, ips) ==
  LET bad == {i \in DOMAIN ips : ips[i] \notin Machines \cup Relays}
      stops == {i \in DOMAIN ips : ips[i] \notin c.trusted \/ i - 1 \in bad}
      stop == IF stops = {} THEN 1 ELSE CHOOSE i \in stops : \A j \in stops : j <= i
  IN IF Last(ips) \in Machines \cup Relays THEN ips[stop] ELSE ""

\* A mutant of getRemoteAddrIfAllowed: the first address is the client's.
FirstForwarded(c, r) ==
  IF r.forwarded # <<>> /\ allowed(c, r.peer) THEN Head(r.forwarded) ELSE r.peer

getRemoteAddrIfAllowed(c, r) ==
  IF r.forwarded # <<>> /\ allowed(c, r.peer) /\ parseForwarded(c, r.forwarded) # ""
  THEN parseForwarded(c, r.forwarded)
  ELSE r.peer

-----------------------------------------------------------------------------
(* Tootles.                                                                *)

\* FilterHardware: exactly one object is an answer.
Filtered(c, hws) ==
  IF c.backend = "none" THEN [err |-> "always", hw |-> {}]
  ELSE CASE hws = {} -> [err |-> "notFound", hw |-> {}]
         [] Cardinality(hws) > 1 -> [err |-> "multiple", hw |-> {}]
         [] OTHER -> [err |-> "nil", hw |-> hws]

\* toEC2Instance: the first address of each kind, the rest as it is.
toEC2Instance(h) ==
  LET first(public) ==
        LET at == {i \in DOMAIN h.addresses : h.addresses[i].public = public}
        IN IF at = {} THEN ""
           ELSE h.addresses[CHOOSE i \in at : \A j \in at : i <= j].address
  IN [instanceID |-> h.id, hostname |-> h.hostname, publicIPv4 |-> first(TRUE),
      localIPv4 |-> first(FALSE), userdata |-> h.userdata, iqn |-> ""]

DataRoutes ==
  [instanceID |-> <<"meta-data", "instance-id">>, hostname |-> <<"meta-data", "hostname">>,
   publicIPv4 |-> <<"meta-data", "public-ipv4">>, localIPv4 |-> <<"meta-data", "local-ipv4">>,
   userdata |-> <<"user-data">>, iqn |-> <<"meta-data", "iqn">>]

\* staticroute: what lies below a path, for every path above a data route.
StaticChildren(path) ==
  {DataRoutes[f][Len(path) + 1] :
     f \in {g \in DOMAIN DataRoutes : IsStrictPrefix(path, DataRoutes[g])}}

\* toInstanceNotFoundErr and getInstanceViaIP or getInstanceViaInstanceID.
ErrorCode(err) == IF err = "notFound" THEN 404 ELSE 500

Failure(code) == [code |-> code, body |-> {}]

\* One request for a data route, or for a listing.
ec2Answer(c, found, path) ==
  LET data == {f \in DOMAIN DataRoutes : DataRoutes[f] = path}
      res == Filtered(c, found)
  IN CASE data # {} /\ res.err # "nil" -> Failure(ErrorCode(res.err))
       [] data # {} /\ res.err = "nil" ->
            [code |-> 200, body |-> {toEC2Instance(h)[f] : f \in data, h \in res.hw}]
       [] data = {} /\ StaticChildren(path) # {} ->
            [code |-> 200, body |-> StaticChildren(path)]
       [] OTHER -> Failure(404)

\* hack.Configure: the part of the spec about storage, for the address.  Only the error
\* of the kube backend is one of the API that IsNotFound knows.
hackAnswer(c, found) ==
  LET res == Filtered(c, found)
  IN IF res.err # "nil" THEN Failure(IF c.backend = "kube" THEN ErrorCode(res.err) ELSE 500)
     ELSE [code |-> 200, body |-> {h.storage : h \in res.hw}]

GetIPs(h) == h.ips

HardwareOfIP(ip) == {h \in hsCache : ip \in GetIPs(h)}
HardwareOfInstance(id) == {h \in hsCache : id # "" /\ h.id = id}

-----------------------------------------------------------------------------
(* The handler of one request.                                             *)

Handled(c, r, by) ==
  LET remote == getRemoteAddrIfAllowed(c, r)
      found == IF r.route = "/tootles/" THEN HardwareOfInstance(r.instance)
                                        ELSE HardwareOfIP(remote)
  IN CASE by = "ec2" -> ec2Answer(c, found, r.path)
       [] by = "hack" -> hackAnswer(c, HardwareOfIP(remote))
       [] by = "redirect" -> Failure(308)
       [] by = "notFound" -> Failure(404)
       [] OTHER -> [code |-> 200, body |-> {by}]

\* A mutant of ServeHTTP: a panic passes the metrics before it is recovered.
ServeUncounted ==
  /\ hsAt = "way"
  /\ \E panics \in BOOLEAN :
       LET m == Matched(hsConfig, hsReq.scheme, hsReq.route)
           a == IF panics THEN Failure(500) ELSE Handled(hsConfig, hsReq, m.by)
       IN /\ hsAnswer' = [code |-> a.code, body |-> a.body, by |-> m.by,
                          logged |-> IF panics THEN "error" ELSE m.level]
          /\ hsCount' = IF panics THEN hsCount ELSE [hsCount EXCEPT ![a.code] = @ + 1]
  /\ hsAt' = "answered"
  /\ UNCHANGED <<hsConfig, hsCache, hsLater, hsReq, hsSent, hsEdits>>

\* The stack around the multiplexer: the metrics see every answer, also the
\* one that Recovery makes of a panic before the header is written (after it
\* the status that was sent stays); Logging lies inside of Recovery and raises
\* the level of a server error.
ServeHTTP ==
  /\ hsAt = "way"
  /\ \E panics \in {"no", "before", "after"} :
       LET m == Matched(hsConfig, hsReq.scheme, hsReq.route)
           a == IF panics = "before" THEN Failure(500) ELSE Handled(hsConfig, hsReq, m.by)
       IN /\ hsAnswer' = [code |-> a.code, body |-> a.body, by |-> m.by,
                          logged |-> IF panics # "no" THEN "error"
                                     ELSE IF a.code >= 500 THEN "always" ELSE m.level]
          /\ hsCount' = [hsCount EXCEPT ![a.code] = @ + 1]
  /\ hsAt' = "answered"
  /\ UNCHANGED <<hsConfig, hsCache, hsLater, hsReq, hsSent, hsEdits>>

-----------------------------------------------------------------------------
(* The machines, the proxies and the operator.                             *)

NoRequest == [client |-> "", route |-> "", path |-> <<>>, instance |-> "",
              scheme |-> "http", forwarded |-> <<>>, peer |-> "", hops |-> 0,
              followed |-> FALSE]

\* Where TLS is off or no route has it there is no HTTPS server.
Listening(scheme) == scheme = "http" \/ (hsConfig.tls /\ HasHTTPSRoutes(hsConfig))

\* Asked for: a route of the table, or below the metadata route a path.
Asked(m, route, path, id, scheme) ==
  [NoRequest EXCEPT !.client = m, !.peer = m, !.route = route, !.path = path,
                    !.instance = id, !.scheme = scheme]

SendRequest ==
  /\ hsAt = "none" /\ hsSent < MaxRequests
  /\ \E m \in Machines, scheme \in {"http", "https"}, 
     own \in {<<>>, <<"unknown">>} \cup {<<x>> : x \in Machines} :
       /\ Listening(scheme)
       /\ \E r \in ToSet(routeList(hsConfig)) :
          \E path \in IF r.by = "ec2" THEN Endpoints ELSE {<<>>} :
          \E id \in IF r.pattern = "/tootles/" THEN InstanceIDs ELSE {""} :
            hsReq' = [Asked(m, r.pattern, path, id, scheme) EXCEPT !.forwarded = own]
  /\ hsAt' = "way" /\ hsSent' = hsSent + 1
  /\ UNCHANGED <<hsConfig, hsCache, hsLater, hsAnswer, hsCount, hsEdits>>

\* A machine follows a redirect or a listing: the same host over HTTPS, or
\* one step down.
Follow ==
  /\ hsAt = "answered" /\ hsSent < MaxRequests
  /\ \/ hsAnswer.code = 308 /\ hsReq' = [hsReq EXCEPT !.scheme = "https", !.followed = TRUE]
     \/ /\ hsAnswer.by = "ec2" /\ hsAnswer.code = 200 /\ StaticChildren(hsReq.path) # {}
        /\ \E child \in hsAnswer.body : hsReq' = [hsReq EXCEPT !.path = Append(@, child), !.followed = TRUE]
  /\ hsAt' = "way" /\ hsSent' = hsSent + 1
  /\ UNCHANGED <<hsConfig, hsCache, hsLater, hsAnswer, hsCount, hsEdits>>

\* A proxy the operator trusts passes the request on.
Forward ==
  /\ hsAt = "way" /\ hsReq.hops < MaxHops
  /\ \E p \in Relays \cap hsConfig.trusted :
       hsReq' = [hsReq EXCEPT !.forwarded = Append(@, hsReq.peer), !.peer = p, !.hops = @ + 1]
  /\ UNCHANGED <<hsConfig, hsCache, hsLater, hsAt, hsAnswer, hsCount, hsSent, hsEdits>>

\* The objects of the cluster.
Cluster == IF hsLater = <<>> THEN hsCache ELSE Last(hsLater)

EditHardware ==
  /\ hsEdits < MaxHwEdits
  /\ \E h \in HwObjects :
       hsLater' = Append(hsLater, IF h \in Cluster THEN Cluster \ {h} ELSE Cluster \cup {h})
  /\ hsEdits' = hsEdits + 1
  /\ UNCHANGED <<hsConfig, hsCache, hsReq, hsAt, hsAnswer, hsCount, hsSent>>

\* The watch brings the next change.
CacheUpdate ==
  /\ hsLater # <<>> /\ hsCache' = Head(hsLater) /\ hsLater' = Tail(hsLater)
  /\ UNCHANGED <<hsConfig, hsReq, hsAt, hsAnswer, hsCount, hsSent, hsEdits>>

HsInit ==
  /\ hsConfig \in {c \in HsConfigs : ~Conflict(c)}
  /\ hsCache \in {objects \in SUBSET HwObjects : IsFiniteSet(objects)}
  /\ hsLater = <<>> /\ hsReq = NoRequest /\ hsAt = "none"
  /\ hsAnswer = [code |-> 0, body |-> {}, by |-> "", logged |-> ""]
  /\ hsCount = [code \in {200, 308, 404, 500} |-> 0]
  /\ hsSent = 0 /\ hsEdits = 0

HsNext == SendRequest \/ Follow \/ Forward \/ ServeHTTP \/ EditHardware \/ CacheUpdate

HsSpec == HsInit /\ [][HsNext]_hsVars

-----------------------------------------------------------------------------

HsTypeOK ==
  /\ hsConfig \in HsConfigs /\ hsCache \subseteq HwObjects
  /\ hsLater \in Seq(SUBSET HwObjects)
  /\ hsReq.client \in Machines \cup {""} /\ hsReq.forwarded \in Seq(Machines \cup Relays \cup {"unknown"})
  /\ hsAt \in {"none", "way", "answered"} /\ hsAnswer.code \in {0, 200, 308, 404, 500}
  /\ hsSent \in 0..MaxRequests /\ hsEdits \in 0..MaxHwEdits

\* The metadata that a request by address gets is that of the Hardware which
\* owns the address of the machine that sent it in the backend's copy, through
\* however many trusted proxies and whatever header the machine itself sent.
\* The copy is one state of the cluster; after an edit it may be an earlier
\* one, and then the data are those of the address's previous owner.
MetadataOwn ==
  (/\ hsAt = "way" /\ hsAt' = "answered"
   /\ hsAnswer'.by \in {"ec2", "hack"} /\ hsAnswer'.code = 200
   /\ hsReq.route # "/tootles/" /\ StaticChildren(hsReq.path) = {})
  => \E h \in hsCache :
       /\ hsReq.client \in h.ips
       /\ hsAnswer'.body \subseteq {h.id, h.hostname, h.userdata, h.storage, ""} \cup
            {h.addresses[i].address : i \in DOMAIN h.addresses}

\* Whatever happens to a request, it is counted, and a failure of the server
\* is logged even on the routes that never log.
RequestsAccounted ==
  hsAt = "answered" =>
    /\ hsCount[200] + hsCount[308] + hsCount[404] + hsCount[500] = hsSent
    /\ hsAnswer.code >= 500 => hsAnswer.logged \in {"always", "error"}

\* What the server itself offers it also serves: a redirect leads to the
\* handler that the route names, and every entry of a listing to a listing
\* or to data, if there are any for the machine.
OffersServed ==
  hsAt = "answered" /\ hsReq.followed /\ hsAnswer.code = 404 =>
    \/ hsAnswer.by = "hack"
    \/ /\ hsAnswer.by = "ec2"
       /\ hsReq.path \in Endpoints \cup {DataRoutes[f] : f \in DOMAIN DataRoutes}

\* Requests reach what they are meant for, with the data of their sender, and
\* all of them are accounted for.
HttpServed == [][MetadataOwn /\ RequestsAccounted' /\ OffersServed']_hsVars
=============================================================================
