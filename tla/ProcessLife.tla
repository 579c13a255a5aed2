---------------------------- MODULE ProcessLife ----------------------------
(***************************************************************************)
(* The life of the tinkerbell process (cmd/tinkerbell): configuration, the *)
(* embedded etcd and API server with their retries, the wait for the API   *)
(* server, the migration of the CRDs, the backend, then one goroutine per  *)
(* service in an errgroup whose first error cancels the others, and the    *)
(* end, by a signal or by a failure.  Smee and the HTTP server run groups  *)
(* of their own below the process's group.                                 *)
(***************************************************************************)
EXTENDS Naturals, FiniteSets, Sequences

CONSTANTS PcConfigs,     \* [flags : "good", "bad" or "version", certs, hostKey, otel : "none",
                         \*  "good" or "bad", migrate, conflict : BOOLEAN,
                         \*  embedded : subset of Embedded,
                         \*  backend : "kube", "file" or "none",
                         \*  enabled : set of services ("tootles" and "ui" too),
                         \*  host : the addresses the host has, publicIP, bindAddr, tftpIP,
                         \*  syslogBind, tftpBind : addresses given, NoAddr where not,
                         \*  offers : what Smee serves, "syslog", "tftp", "dhcp", "http" or "iso"]
          CRDs,          \* custom resource definitions
          MaxStarts,     \* 10 in the code: attempts of etcd and the API server
          MaxPolls,      \* polls of the API server within 20 s
          MaxPcFaults

ASSUME PcAssumption ==
  /\ IsFiniteSet(CRDs) /\ MaxStarts \in Nat \ {0} /\ MaxPolls \in Nat /\ MaxPcFaults \in Nat

VARIABLES pcConfig,
          pcMain,      \* where the main goroutine is
          pcRun,       \* each goroutine: "none", "starting", "up", "nil", "failed", "canceled"
          pcStarts,    \* attempts so far of etcd and the API server
          pcErr,       \* first error of each errgroup: "", "failed", "canceled"
          pcSignal,    \* the process was told to end
          pcCrds,      \* "old", "new", "established"
          pcPolls,
          pcExit,      \* "", "ok", "error", "panic"
          pcWork,      \* servers that have returned while some of their work goes on
          pcKilled,    \* servers that ran, or whose work went on, when the process ended
          pcFaults

pcVars == <<pcConfig, pcMain, pcRun, pcStarts, pcErr, pcSignal, pcCrds, pcPolls, pcExit,
            pcWork, pcKilled, pcFaults>>

Embedded == {"etcd", "apiserver"}
Services == {"kcm", "smee", "web", "tink", "workflow", "rufio", "secondstar"}
SmeeServers == {"syslog", "tftp", "dhcp"}
WebServers == {"plain", "https"}
Units == Embedded \cup Services \cup SmeeServers \cup WebServers
Leaves == Units \ {"smee", "web"}

\* Servers whose Start returns when they no longer listen: a goroutine nobody
\* waits for shuts SSH and TFTP down and each DHCP packet has a goroutine of
\* its own; Tink Server's calls are waited for 5 s and then left behind.
Unjoined == {"secondstar", "tftp", "dhcp", "tink"}

\* Servers that wait for their requests or reconciles for a limited time, and
\* return an error when it is over.
Patient == WebServers \cup {"workflow", "rufio"}

GroupOf(u) == IF u \in SmeeServers THEN "smee" ELSE IF u \in WebServers THEN "web" ELSE "main"

Ended(u) == pcRun[u] \in {"nil", "failed", "canceled"}
Running(u) == pcRun[u] \in {"starting", "up"}

\* The context of a group: cancelled by the signal, by the cancel function,
\* and by the first error of the group or of one above it.
Cancelled(group) ==
  \/ pcSignal \/ pcMain = "cleanup"
  \/ pcErr["main"] # "" \/ pcErr[group] # ""

PcInit ==
  /\ pcConfig \in PcConfigs
  /\ pcMain = "config"
  /\ pcRun = [u \in Units |-> "none"]
  /\ pcStarts = [u \in Embedded |-> 0]
  /\ pcErr = [g \in {"main", "smee", "web"} |-> ""]
  /\ pcSignal = FALSE /\ pcCrds = [c \in CRDs |-> "old"] /\ pcPolls = 0
  /\ pcExit = "" /\ pcWork = {} /\ pcKilled = {} /\ pcFaults = 0

Life == pcExit = ""

\* The main goroutine returns, which ends the process.
Leave(how) ==
  /\ pcMain' = "exit" /\ pcExit' = how
  /\ pcKilled' = {u \in Units : Running(u)} \cup pcWork

-----------------------------------------------------------------------------
(* Addresses.  An address is "global4", "loop4", "global6" or "any" (0.0.0.0). *)

NoAddr == "noaddr"
First(addrs, kinds) == LET found == SelectSeq(addrs, LAMBDA a : a \in kinds)
                       IN IF found = <<>> THEN NoAddr ELSE found[1]
Else(addr, other) == IF addr = NoAddr THEN other ELSE addr

\* The first IPv4 address of the named interface, loopback or not.
ipByInterface(host) == First(host.named, {"global4", "loop4"})

\* The first IPv4 address that is not a loopback, of the interfaces with a
\* default route, or of the host where it is a unicast one.
autoDetectPublicIpv4WithDefaultGateway(host) == First(host.gateway, {"global4"})
autoDetectPublicIPv4(host) == First(host.addrs, {"global4"})

detectPublicIPv4(host) ==
  Else(ipByInterface(host),
       Else(autoDetectPublicIpv4WithDefaultGateway(host), autoDetectPublicIPv4(host)))

\* An empty flag leaves the default in place.
AddrSet(flag, default) == Else(flag, default)

PublicIP(c) == AddrSet(c.publicIP, detectPublicIPv4(c.host))
BindAddr(c) == AddrSet(c.bindAddr, Else(detectPublicIPv4(c.host), "any"))

\* What Smee binds and announces: its own flags, then the global ones.
ConvertSmee(c) ==
  [syslog |-> Else(c.syslogBind, BindAddr(c)),
   tftp   |-> Else(c.tftpBind, BindAddr(c)),
   tftpIP |-> IF c.tftpIP \in {NoAddr, "any"} /\ PublicIP(c) \notin {NoAddr, "any"}
              THEN PublicIP(c) ELSE c.tftpIP]

\* numEnabled: without any service the backend is passed over.
BackendOf(c) == IF c.enabled = {} THEN "pass" ELSE c.backend

PcFault == pcFaults < MaxPcFaults /\ pcFaults' = pcFaults + 1
NoPcFault == UNCHANGED pcFaults

-----------------------------------------------------------------------------
(* executeWithOutput, up to the services.                                  *)

Wanted(u) == u \in pcConfig.enabled \cup pcConfig.embedded
             \/ (u = "kcm" /\ "apiserver" \in pcConfig.embedded) \/ u = "web"

\* The key of the SSH server is read from its file where one is given.
ConvertSecondStar(c) == c.hostKey

\* A goroutine of a service that is disabled returns nil at once.
Begun(us) == [u \in Units |-> IF u \notin us THEN pcRun[u]
                              ELSE IF Wanted(u) THEN "starting" ELSE "nil"]

Usable(c) == c.flags = "good" /\ "bad" \notin {c.certs, ConvertSecondStar(c), c.otel}

\* Flags, certificates and keys are read before anything runs.
Configure ==
  /\ Life /\ pcMain = "config"
  /\ \/ pcConfig.flags = "version" /\ Leave("ok") /\ UNCHANGED pcRun
     \/ pcConfig.flags # "version" /\ ~Usable(pcConfig) /\ Leave("error") /\ UNCHANGED pcRun
     \/ /\ Usable(pcConfig)
        /\ pcRun' = Begun(Embedded)
        /\ pcMain' = IF BackendOf(pcConfig) = "kube" /\ pcConfig.migrate THEN "await" ELSE "backend"
        /\ UNCHANGED <<pcExit, pcKilled>>
  /\ UNCHANGED <<pcConfig, pcWork, pcStarts, pcErr, pcSignal, pcCrds, pcPolls, pcFaults>>

\* The API server answers: the embedded one when it, and the etcd embedded
\* with it, are up, one outside whenever it is not failing.
Answers == "apiserver" \in pcConfig.embedded => \A u \in pcConfig.embedded : pcRun[u] = "up"

\* NewBackend, or what is made before it, fails: the process returns with
\* whatever runs by then.
NoBackend == PcFault /\ Leave("error")

\* WaitForAPIServer: polled until it is ready, time is up or the context ends.
WaitForAPIServer ==
  /\ Life /\ pcMain = "await"
  /\ \/ /\ Answers /\ pcMain' = "migrate" /\ NoPcFault
        /\ UNCHANGED <<pcPolls, pcExit, pcKilled>>
     \/ /\ pcPolls < MaxPolls /\ pcPolls' = pcPolls + 1
        /\ IF Answers THEN PcFault ELSE NoPcFault
        /\ UNCHANGED <<pcMain, pcExit, pcKilled>>
     \/ /\ pcPolls = MaxPolls \/ Cancelled("main")
        /\ Leave("error") /\ NoPcFault /\ UNCHANGED pcPolls
     \/ NoBackend /\ UNCHANGED pcPolls
  /\ UNCHANGED <<pcConfig, pcWork, pcRun, pcStarts, pcErr, pcSignal, pcCrds>>

\* apply, update or create brings a CRD to the version of this program.
WriteCRD(c) ==
  /\ pcCrds[c] = "old" /\ Answers /\ ~Cancelled("main")
  /\ pcCrds' = [pcCrds EXCEPT ![c] = "new"]

\* Migrate: each CRD is applied, or else updated, or else created; where
\* all three fail the context is cancelled and the group waited for.
Migrate ==
  /\ Life /\ pcMain = "migrate"
  /\ \/ \E c \in CRDs : WriteCRD(c) /\ NoPcFault /\ UNCHANGED pcMain
     \/ /\ (\A c \in CRDs : pcCrds[c] # "old") /\ pcMain' = "ready"
        /\ NoPcFault /\ UNCHANGED pcCrds
     \/ /\ \E c \in CRDs : pcCrds[c] = "old"
        /\ IF Answers /\ ~Cancelled("main") THEN PcFault ELSE NoPcFault
        /\ pcMain' = "cleanup" /\ UNCHANGED pcCrds
  /\ UNCHANGED <<pcConfig, pcWork, pcRun, pcStarts, pcErr, pcSignal, pcPolls, pcExit, pcKilled>>

\* The cluster accepts the names of a CRD and establishes it.
Establish ==
  /\ Life
  /\ \E c \in CRDs : pcCrds[c] = "new" /\ pcCrds' = [pcCrds EXCEPT ![c] = "established"]
  /\ UNCHANGED <<pcConfig, pcWork, pcMain, pcRun, pcStarts, pcErr, pcSignal, pcPolls, pcExit,
                 pcKilled, pcFaults>>

\* A mutant of Ready: it is enough that the CRDs exist.
ReadyWhenFound ==
  /\ Life /\ pcMain = "ready" /\ pcMain' = "backend" /\ NoPcFault
  /\ UNCHANGED <<pcConfig, pcWork, pcRun, pcStarts, pcErr, pcSignal, pcCrds, pcPolls, pcExit, pcKilled>>

\* Ready: every CRD is established, or its five attempts are used up.
Ready ==
  /\ Life /\ pcMain = "ready"
  /\ \/ (\A c \in CRDs : pcCrds[c] = "established") /\ pcMain' = "backend" /\ NoPcFault
     \/ /\ IF Answers /\ ~Cancelled("main") THEN PcFault ELSE NoPcFault
        /\ pcMain' = "cleanup"
  /\ UNCHANGED <<pcConfig, pcWork, pcRun, pcStarts, pcErr, pcSignal, pcCrds, pcPolls, pcExit, pcKilled>>

Cleanup ==
  /\ Life /\ pcMain = "cleanup"
  /\ \A u \in Embedded : ~Running(u)
  /\ Leave("error")
  /\ UNCHANGED <<pcConfig, pcWork, pcRun, pcStarts, pcErr, pcSignal, pcCrds, pcPolls, pcFaults>>

\* The backend is made, unless no service needs one.
Backend ==
  /\ Life /\ pcMain = "backend"
  /\ \/ pcMain' = "launch" /\ NoPcFault /\ UNCHANGED <<pcExit, pcKilled>>
     \/ BackendOf(pcConfig) \in {"kube", "file"} /\ NoBackend
  /\ UNCHANGED <<pcConfig, pcWork, pcRun, pcStarts, pcErr, pcSignal, pcCrds, pcPolls>>

Launch ==
  /\ Life /\ pcMain = "launch"
  /\ pcRun' = Begun(Services)
  /\ pcMain' = "wait"
  /\ UNCHANGED <<pcConfig, pcWork, pcStarts, pcErr, pcSignal, pcCrds, pcPolls, pcExit, pcKilled,
                 pcFaults>>

\* A mutant of Wait: the first error is enough to return.
WaitFirst ==
  /\ Life /\ pcMain = "wait"
  /\ (\A u \in Embedded \cup Services : Ended(u)) \/ pcErr["main"] # ""
  /\ Leave(IF pcErr["main"] = "failed" THEN "error" ELSE "ok")
  /\ UNCHANGED <<pcConfig, pcWork, pcRun, pcStarts, pcErr, pcSignal, pcCrds, pcPolls, pcFaults>>

\* g.Wait: all goroutines of the group have returned.
Wait ==
  /\ Life /\ pcMain = "wait"
  /\ \A u \in Embedded \cup Services : Ended(u)
  /\ Leave(IF pcErr["main"] = "failed" THEN "error" ELSE "ok")
  /\ UNCHANGED <<pcConfig, pcWork, pcRun, pcStarts, pcErr, pcSignal, pcCrds, pcPolls, pcFaults>>

-----------------------------------------------------------------------------
(* The goroutines.                                                         *)

\* A goroutine returns to its group, which keeps the first error.
Return(u, how) ==
  /\ pcRun' = [pcRun EXCEPT ![u] = how]
  /\ pcErr' = IF how = "nil" \/ pcErr[GroupOf(u)] # "" THEN pcErr
              ELSE [pcErr EXCEPT ![GroupOf(u)] = how]

\* dhcpHandler: an address of the TFTP server is announced.
DhcpHandler(c) == ConvertSmee(c).tftpIP # NoAddr

\* Smee.Start: its servers start in order; one that is configured wrongly
\* makes Start return at once, with the earlier servers running.
SmeeOrder(c) ==
  LET on(u) == u \in c.offers
  IN <<[unit |-> "syslog", on |-> on("syslog"), good |-> ConvertSmee(c).syslog # NoAddr],
       [unit |-> "tftp",   on |-> on("tftp"),   good |-> ConvertSmee(c).tftp # NoAddr],
       [unit |-> "dhcp",   on |-> on("dhcp"),   good |-> DhcpHandler(c)]>>

SmeeGood(c) == c.offers # {} /\ \A i \in 1 .. 3 : SmeeOrder(c)[i].on => SmeeOrder(c)[i].good

SmeeChildren(c) ==
  {SmeeOrder(c)[i].unit : i \in {j \in 1 .. 3 :
     SmeeOrder(c)[j].on /\ \A k \in 1 .. j : SmeeOrder(c)[k].on => SmeeOrder(c)[k].good}}

SmeeStart ==
  /\ Life /\ pcRun["smee"] = "starting"
  /\ LET children == SmeeChildren(pcConfig)
         begun == [u \in Units |-> IF u \in children THEN "starting" ELSE pcRun[u]]
     IN IF ~SmeeGood(pcConfig)
        THEN /\ pcRun' = [begun EXCEPT !["smee"] = "failed"]
             /\ pcErr' = IF pcErr["main"] = "" THEN [pcErr EXCEPT !["main"] = "failed"] ELSE pcErr
        ELSE pcRun' = [begun EXCEPT !["smee"] = "up"] /\ UNCHANGED pcErr
  /\ UNCHANGED <<pcConfig, pcWork, pcMain, pcStarts, pcSignal, pcCrds, pcPolls, pcExit, pcKilled, pcFaults>>

SmeeReturns ==
  /\ Life /\ pcRun["smee"] = "up"
  /\ \A u \in SmeeServers : ~Running(u)
  /\ Return("smee", IF pcErr["smee"] = "failed" THEN "failed" ELSE "nil")
  /\ UNCHANGED <<pcConfig, pcWork, pcMain, pcStarts, pcSignal, pcCrds, pcPolls, pcExit, pcKilled, pcFaults>>

\* startHTTPServer: a route registered twice panics; a handler that cannot
\* be made is an error; else one server, or two with TLS and a route for it.
TLSRoutes(c) == {"tootles", "ui"} \cap c.enabled # {} \/ ("smee" \in c.enabled /\ "iso" \in c.offers)
WebChildren(c) == {"plain"} \cup (IF c.certs = "good" /\ TLSRoutes(c) THEN {"https"} ELSE {})

WebStart ==
  /\ Life /\ pcRun["web"] = "starting"
  /\ \/ /\ pcConfig.conflict
        /\ pcMain' = "exit" /\ pcExit' = "panic" /\ pcKilled' = {u \in Units : Running(u)} \cup pcWork
        /\ NoPcFault /\ UNCHANGED <<pcRun, pcErr>>
     \/ /\ ~pcConfig.conflict /\ PcFault /\ Return("web", "failed")
        /\ UNCHANGED <<pcMain, pcExit, pcKilled>>
     \/ /\ ~pcConfig.conflict /\ NoPcFault
        /\ pcRun' = [u \in Units |-> IF u = "web" THEN "up"
                                     ELSE IF u \in WebChildren(pcConfig) THEN "starting" ELSE pcRun[u]]
        /\ UNCHANGED <<pcErr, pcMain, pcExit, pcKilled>>
  /\ UNCHANGED <<pcConfig, pcWork, pcStarts, pcSignal, pcCrds, pcPolls>>

WebReturns ==
  /\ Life /\ pcRun["web"] = "up"
  /\ \A u \in WebServers : ~Running(u)
  /\ Return("web", IF pcErr["web"] # "" THEN "failed" ELSE "nil")
  /\ UNCHANGED <<pcConfig, pcWork, pcMain, pcStarts, pcSignal, pcCrds, pcPolls, pcExit, pcKilled, pcFaults>>

UnitUp(u) ==
  /\ Life /\ u \in Leaves /\ pcRun[u] = "starting"
  /\ u = "apiserver" /\ "etcd" \in pcConfig.embedded => pcRun["etcd"] = "up"
  /\ pcRun' = [pcRun EXCEPT ![u] = "up"]
  /\ UNCHANGED <<pcConfig, pcWork, pcMain, pcStarts, pcErr, pcSignal, pcCrds, pcPolls, pcExit,
                 pcKilled, pcFaults>>

\* A server that was up returns with some of its work going on, or none.
LeavesWork(u, how) ==
  \/ UNCHANGED pcWork
  \/ /\ pcRun[u] = "up" /\ (u \in Unjoined \/ (u \in Patient /\ how = "failed"))
     /\ pcWork' = pcWork \cup {u}

\* Work that nobody waits for comes to its end.
WorkEnds ==
  /\ Life /\ \E u \in pcWork : pcWork' = pcWork \ {u}
  /\ UNCHANGED <<pcConfig, pcMain, pcRun, pcStarts, pcErr, pcSignal, pcCrds, pcPolls, pcExit,
                 pcKilled, pcFaults>>

\* A server fails, while it starts or later.  etcd and the API server are
\* tried again while the context lives.
UnitFails(u) ==
  /\ Life /\ u \in Leaves /\ Running(u) /\ PcFault
  /\ IF u \in Embedded /\ pcStarts[u] + 1 < MaxStarts /\ ~Cancelled("main")
     THEN /\ pcRun' = [pcRun EXCEPT ![u] = "starting"]
          /\ pcStarts' = [pcStarts EXCEPT ![u] = @ + 1]
          /\ UNCHANGED <<pcErr, pcWork>>
     ELSE Return(u, "failed") /\ LeavesWork(u, "failed") /\ UNCHANGED pcStarts
  /\ UNCHANGED <<pcConfig, pcMain, pcSignal, pcCrds, pcPolls, pcExit, pcKilled>>

\* What each server returns when its context has ended.  Between two
\* attempts the retry of etcd and the API server returns the error of the
\* context.  The HTTP server's graceful shutdown may take too long; TFTP
\* returns the error of its closed socket; a controller's may take too long.
EtcdStops == {"nil", "canceled"}
APIServerStops == {"nil", "canceled"}
ControllerManagerStops == {"nil"}
SyslogStops == {"nil"}
TFTPStops == {"nil", "failed"}
DHCPStops == {"nil"}
HTTPStops == {"nil", "failed"}
TinkServerStops == {"nil"}
TinkControllerStops == {"nil", "failed"}
RufioStops == {"nil", "failed"}
SecondStarStops == {"nil"}

StopResults(u) ==
  CASE u = "etcd" -> EtcdStops
    [] u = "apiserver" -> APIServerStops
    [] u = "kcm" -> ControllerManagerStops
    [] u = "syslog" -> SyslogStops
    [] u = "tftp" -> TFTPStops
    [] u = "dhcp" -> DHCPStops
    [] u \in WebServers -> HTTPStops
    [] u = "tink" -> TinkServerStops
    [] u = "workflow" -> TinkControllerStops
    [] u = "rufio" -> RufioStops
    [] u = "secondstar" -> SecondStarStops

UnitStops(u) ==
  /\ Life /\ u \in Leaves /\ Running(u) /\ Cancelled(GroupOf(u))
  /\ \E how \in StopResults(u) : Return(u, how) /\ LeavesWork(u, how)
  /\ UNCHANGED <<pcConfig, pcMain, pcStarts, pcSignal, pcCrds, pcPolls, pcExit, pcKilled, pcFaults>>

\* The cache of a kube backend runs in a goroutine that panics on an error.
CachePanics ==
  /\ Life /\ BackendOf(pcConfig) = "kube" /\ pcMain \notin {"config"} /\ PcFault
  /\ Leave("panic")
  /\ UNCHANGED <<pcConfig, pcWork, pcRun, pcStarts, pcErr, pcSignal, pcCrds, pcPolls>>

Signal ==
  /\ Life /\ ~pcSignal /\ pcSignal' = TRUE
  /\ UNCHANGED <<pcConfig, pcWork, pcMain, pcRun, pcStarts, pcErr, pcCrds, pcPolls, pcExit, pcKilled,
                 pcFaults>>

PcNext ==
  \/ Configure \/ WaitForAPIServer \/ Migrate \/ Establish \/ Ready \/ Cleanup \/ Backend
  \/ Launch \/ Wait \/ SmeeStart \/ SmeeReturns \/ WebStart \/ WebReturns
  \/ CachePanics \/ Signal \/ WorkEnds
  \/ \E u \in Leaves : UnitUp(u) \/ UnitFails(u) \/ UnitStops(u)

PcSpec == PcInit /\ [][PcNext]_pcVars

-----------------------------------------------------------------------------

PcTypeOK ==
  /\ pcConfig \in PcConfigs
  /\ pcMain \in {"config", "await", "migrate", "ready", "cleanup", "backend", "launch",
                 "wait", "exit"}
  /\ pcRun \in [Units -> {"none", "starting", "up", "nil", "failed", "canceled"}]
  /\ pcErr \in [{"main", "smee", "web"} -> {"", "failed", "canceled"}]
  /\ pcCrds \in [CRDs -> {"old", "new", "established"}]
  /\ pcExit \in {"", "ok", "error", "panic"}
  /\ pcWork \subseteq Unjoined \cup Patient /\ pcKilled \subseteq Units

\* No service is started against a cluster whose CRDs are not migrated and
\* established, however the embedded API server and the signal interleave.
StartsOnReadyCluster ==
  /\ pcMain = "wait" \/ (pcMain = "exit" /\ \E u \in Services : pcRun[u] # "none")
  /\ BackendOf(pcConfig) = "kube" /\ pcConfig.migrate
  => \A c \in CRDs : pcCrds[c] = "established"

\* When the process returns from the group, or from a failed migration, it
\* cuts off nothing but: consoles, TFTP transfers, replies to DHCP packets and
\* calls of agents, whose servers' Start does not wait for them; HTTP requests
\* and reconciles whose server gave up waiting and returned an error; and the
\* servers of a Smee whose Start gave up.  Else no server, embedded or a
\* service, still runs.  It reports success only if it was told to end.
EndsInOrder ==
  (pcMain \in {"wait", "cleanup"} /\ pcMain' = "exit" /\ pcExit' \in {"ok", "error"})
  => /\ pcKilled' \subseteq Unjoined \cup {u \in Patient : pcRun[u] = "failed"}
                         \cup (IF pcRun["smee"] = "failed" THEN SmeeServers ELSE {})
     /\ \A u \in pcKilled' : u \in SmeeServers \/ ~Running(u)
     /\ pcExit' = "ok" => pcSignal

\* Services start when the cluster is ready, and the end waits for all of them.
LifeInOrder == [][StartsOnReadyCluster' /\ EndsInOrder]_pcVars
=============================================================================
