---------------------------- MODULE MCOperations ----------------------------
(***************************************************************************)
(* The process and what it serves to operators and machines: its start and *)
(* end, its HTTP routes with the metadata service, the web UI, SSH access  *)
(* to consoles, and Rufio's Machines.  These parts share no variable, so a *)
(* behaviour is one of one part, and the others stay as they start.        *)
(***************************************************************************)
EXTENDS ProcessLife, HttpServices, WebUI, MCSecondStar, RufioMachines

VARIABLE part

-----------------------------------------------------------------------------
(* ProcessLife: hosts with several addresses; the combinations of backend, *)
(* embedded API server and services that the start-up tells apart.         *)

PcHost(named, gateway, addrs) == [named |-> named, gateway |-> gateway, addrs |-> addrs]
PcConfig(backend, embedded, migrate, enabled, host) ==
  [flags |-> "good", certs |-> "none", hostKey |-> "none", otel |-> "none",
   migrate |-> migrate, embedded |-> embedded, conflict |-> FALSE, backend |-> backend,
   enabled |-> enabled, host |-> host, publicIP |-> NoAddr, bindAddr |-> NoAddr,
   tftpIP |-> NoAddr, syslogBind |-> NoAddr, tftpBind |-> NoAddr,
   offers |-> {"syslog", "tftp", "dhcp", "http"}]
PcAlone == PcHost(<<>>, <<"loop4", "global6">>, <<"loop4">>)
PcBare == PcConfig("kube", Embedded, TRUE, {}, PcAlone)
MCPcConfigs ==
  {[PcConfig("kube", Embedded, TRUE, {"smee"}, PcHost(<<"global6", "loop4">>, <<>>, <<>>))
      EXCEPT !.offers = {"tftp"}],
   [PcConfig("kube", {}, TRUE, {"smee", "tink", "workflow"}, PcAlone) EXCEPT !.certs = "good"],
   [PcConfig("file", {}, TRUE, {"smee", "secondstar"},
             PcHost(<<>>, <<"loop4", "global4">>, <<>>))
      EXCEPT !.certs = "good", !.tftpIP = "any", !.tftpBind = "global4", !.offers = {"tftp", "iso"}],
   PcBare,
   [PcConfig("none", {}, FALSE, {"smee", "rufio"},
             PcHost(<<>>, <<>>, <<"global6", "global4">>))
      EXCEPT !.conflict = TRUE, !.offers = {}],
   [PcConfig("kube", Embedded, TRUE, {"smee"}, PcAlone) EXCEPT !.hostKey = "bad"],
   [PcConfig("kube", Embedded, TRUE, {"smee"}, PcAlone) EXCEPT !.flags = "version"],
   PcConfig("file", {"etcd"}, FALSE, {"ui"}, PcAlone)}

-----------------------------------------------------------------------------
(* HttpServices: trusted relays, prefixes that take each other's routes,   *)
(* objects that share an address or an instance id.                        *)

HsConf(tls, redirect, ui, pxe, trusted, backend) ==
  [smee |-> TRUE, tootles |-> TRUE, tink |-> FALSE, controllers |-> ui = "/",
   ui |-> ui # "", instance |-> TRUE, iso |-> TRUE, tls |-> tls, redirect |-> redirect,
   uiPrefix |-> ui, pxePrefix |-> pxe, trusted |-> trusted, backend |-> backend]
HsPlain == HsConf(FALSE, TRUE, "/", "/tftp/", {}, "none")
MCHsConfigs ==
  {HsConf(TRUE, TRUE, "/", "", {"p1", "p2"}, "kube"),
   HsConf(TRUE, TRUE, "", "/tftp/", {"p1"}, "kube"),
   HsConf(TRUE, FALSE, "/ui/", "", {"p1"}, "file"),
   HsConf(FALSE, TRUE, "/", "/", {}, "kube"), HsPlain}
HsAddr(public, address) == [public |-> public, address |-> address]
HsHw(ips, id, hostname, userdata, storage, addresses) ==
  [ips |-> ips, id |-> id, hostname |-> hostname, userdata |-> userdata,
   storage |-> storage, addresses |-> addresses]
HsAtStart ==
  {HsHw({"m1"}, "i1", "h1", "u1", "s1",
        <<HsAddr(FALSE, "m1"), HsAddr(TRUE, "x1"), HsAddr(FALSE, "y1")>>),
   HsHw({"m2", "m3"}, "", "h2", "u2", "s2", <<>>)}
MCHwObjects == HsAtStart \cup {HsHw({"m2"}, "i1", "h3", "u3", "s3", <<HsAddr(TRUE, "x3")>>)}
MCEndpoints == {<<>>, <<"user-data">>, <<"meta-data", "local-ipv4">>, <<"nothing">>}

-----------------------------------------------------------------------------
(* RufioMachines: inventories in another order, with equal keys and sizes  *)
(* above the width of the field.                                           *)

RmComponent(key, content, size, present) ==
  [key |-> key, content |-> content, size |-> size, present |-> present]
RmPoll(answer, cpus, status, code) ==
  [answer |-> answer, lists |-> [cpu |-> cpus], post |-> [status |-> status, code |-> code],
   provider |-> "redfish"]
MCPolls ==
  {RmPoll("none", <<>>, "", 0),
   RmPoll("device", <<RmComponent(1, 1, 9, TRUE), RmComponent(0, 2, 1, TRUE),
                      RmComponent(0, 1, 1, TRUE)>>, "", 3),
   RmPoll("device", <<RmComponent(0, 1, 1, TRUE), RmComponent(0, 2, 1, TRUE),
                      RmComponent(0, 0, 0, FALSE), RmComponent(1, 1, 9, TRUE)>>, "", 0),
   RmPoll("device", <<RmComponent(0, 1, 1, TRUE)>>, "ok", 0)}
RmSpecA == [rpc |-> FALSE, hmac |-> FALSE, amt |-> 99, order |-> <<>>, header |-> "",
            rpcSet |-> {}]
RmSpecB == [rpc |-> TRUE, hmac |-> TRUE, amt |-> 1, order |-> <<"gofish">>,
            header |-> "X-Mine", rpcSet |-> {"method"}]
RmLinked(links, disabled, spec) ==
  [links |-> links, disabled |-> disabled, enabled |-> TRUE, spec |-> spec]
MCCases == {RmLinked(1, FALSE, RmSpecA), RmLinked(2, FALSE, RmSpecB), RmLinked(1, TRUE, RmSpecB)}

-----------------------------------------------------------------------------
(* WebUI: a user of the whole cluster and one of a single namespace.       *)

UiUser(sa, exp, cluster, scoped, namespaces) ==
  [sa |-> sa, exp |-> exp, cluster |-> cluster, home |-> "n1", scoped |-> scoped,
   namespaces |-> namespaces]
MCTokenOf(t) ==
  IF t = "admin" THEN UiUser("", FALSE, {"get", "list", "create"}, {}, TRUE)
                 ELSE UiUser("n1", TRUE, {"create"}, {"get", "list"}, FALSE)
UiObject(ns, name) == [ns |-> ns, name |-> name]
MCObjects == <<UiObject("n1", "a"), UiObject("n1", "b"), UiObject("n2", "a"),
               UiObject("n2", "c"), UiObject("n1", "c")>>
MCNamespaces == <<"n1", "n2">>
UiQuery(page, per, ns, htmx, word) ==
  [page |-> page, per |-> per, ns |-> ns, htmx |-> htmx, key |-> "b", word |-> word]
MCQueries == {UiQuery(1, 0, "", FALSE, "ab"), UiQuery(1, 0, "n1", FALSE, "ab"),
              UiQuery(9, 9, "n1", TRUE, "n1")}
MCRoutes == {HandleHardwareList, HandleHardwareData, HandleWorkflowRuleSetDetail,
             HandleGlobalSearch, HandlePermissionCheck}
MCServers == {[https |-> TRUE, host |-> "k"], [https |-> FALSE, host |-> "k"]}

-----------------------------------------------------------------------------
(* The parts side by side                                                  *)

operationsVars == <<part, pcVars, hsVars, uiVars, ssVars, rmVars>>

\* Two sessions that type while calls fail, or three that only watch.  The sessions of one
\* machine differ in nothing, so they are numbered as they get past their look at the State.
AsTheyCome ==
  LET waits == {s \in Sessions : ssAt'[s] \in {"none", "handler"}}
  IN ("s1" \in waits => "s2" \in waits) /\ ("s2" \in waits => "s3" \in waits)
ConsoleNext == SsNext /\ AsTheyCome /\ ssAt'["s3"] = "none"
CrowdNext == SsNext /\ AsTheyCome /\ ssAt'["x"] = "none" /\ ssTyped' = 0 /\ ssFaults' = 0

\* Of the two users, one skips the verification of the API server's certificate.
UsersNext ==
  /\ UiNext
  /\ \A b \in Browsers : uiCookie'[b]["insecure_skip_verify"] = "true"
                           <=> uiCookie'[b]["auth_token"] = "admin"

\* A part that does not run starts in one of its initial states.
OperationsInit ==
  /\ part \in {"process", "http", "ui", "console", "crowd", "machines"}
  /\ PcInit /\ (part # "process" => pcConfig = PcBare)
  /\ HsInit /\ hsCache = HsAtStart /\ (part # "http" => hsConfig = HsPlain)
  /\ UiInit /\ (part # "ui" => uiAuto = FALSE)
  /\ SsInit
  /\ RmInit /\ (part # "machines" => rmCase = RmLinked(1, FALSE, RmSpecA))

OperationsNext ==
  \/ part = "process" /\ PcNext /\ UNCHANGED <<part, hsVars, uiVars, ssVars, rmVars>>
  \/ part = "http" /\ HsNext /\ UNCHANGED <<part, pcVars, uiVars, ssVars, rmVars>>
  \/ part = "ui" /\ UsersNext /\ UNCHANGED <<part, pcVars, hsVars, ssVars, rmVars>>
  \/ part = "console" /\ ConsoleNext /\ UNCHANGED <<part, pcVars, hsVars, uiVars, rmVars>>
  \/ part = "crowd" /\ CrowdNext /\ UNCHANGED <<part, pcVars, hsVars, uiVars, rmVars>>
  \/ part = "machines" /\ RmNext /\ UNCHANGED <<part, pcVars, hsVars, uiVars, ssVars>>

OperationsSpec == OperationsInit /\ [][OperationsNext]_operationsVars

\* The types of the part that runs; the others stay as they start.
OperationsTypeOK ==
  /\ part = "process" => PcTypeOK
  /\ part = "http" => HsTypeOK
  /\ part = "ui" => UiTypeOK
  /\ part \in {"console", "crowd"} => SsTypeOK
  /\ part = "machines" => RmTypeOK
=============================================================================
