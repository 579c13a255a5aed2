--------------------------- MODULE MCProvisioning ---------------------------
(***************************************************************************)
(* The services between a machine's power-on and the end of its Actions:   *)
(* Smee's DHCP, files, ISO images and syslog, the Hardware backend, auto   *)
(* enrollment, and the agent's transports, runtimes and logs.  These parts *)
(* share no variable, so a behaviour is one of one part, and the others    *)
(* stay as they start.                                                     *)
(***************************************************************************)
EXTENDS MCNetworkBoot, IsoStream, MCSyslog, HardwareBackend, AutoEnrollment,
        AgentRuntime, AgentTransport, ActionLog

VARIABLE part

-----------------------------------------------------------------------------
(* IsoStream: two magic strings, which reads of three bytes may cut.       *)

MCImage == <<"a", "m", "g", "b", "m", "g">>
MCMagic == <<"m", "g">>

-----------------------------------------------------------------------------
(* HardwareBackend: objects that share names, ids and addresses.           *)

Hb(ns, name, agent, instance, nics) ==
  [ns |-> ns, name |-> name, agent |-> agent, instance |-> instance, nics |-> nics]
Nic(mac, ip) == [mac |-> mac, ip |-> ip]

MCContents ==
  {[yaml |-> FALSE, list |-> <<>>], [yaml |-> TRUE, list |-> <<>>],
   [yaml |-> TRUE,
    list |-> <<Hb("n1", "x", "a", "i", {Nic("m1", "1"), Nic("m2", "2")}),
               Hb("n2", "x", "a", "", {Nic("m1", "")})>>],
   [yaml |-> TRUE,
    list |-> <<Hb("n1", "x", "", "i", {}),
               Hb("n2", "y", "b", "j", {Nic("M1", "1")}),
               Hb("n2", "z", "b", "j", {Nic("m3", "3")})>>]}
MCFilters ==
  {[ns |-> ns, by |-> f[1], value |-> f[2]] :
     ns \in {"", "n1", "n2"},
     f \in {<<"mac", "m1">>, <<"mac", "M1">>, <<"ip", "1">>, <<"name", "x">>,
            <<"agent", "a">>, <<"agent", "b">>, <<"instance", "j">>}}
MCFolded(m) == IF m = "M1" THEN "m1" ELSE m

-----------------------------------------------------------------------------
(* AutoEnrollment: ids with the same name, two of them of agents that call *)
(* at the same time, and ids that are cut at a hyphen, one for the name of *)
(* its Hardware and one for that of its Workflow.                          *)

MCIds == {<<"a", ":", "a">>, <<"a", "A">>, <<"A", "-", "a", " ">>, <<":", "A", "a">>,
          <<"a", "a", "a", ":", "a">>, <<"a", "a", ":", "a">>}
Attributes(facts, disks, macs, large) ==
  [facts |-> facts, disks |-> disks, macs |-> macs, large |-> large]
MCAttrs(a) ==
  CASE a \in {<<":", "A", "a">>, <<"a", "A">>, <<"a", "a", "a", ":", "a">>,
             <<"a", "a", ":", "a">>} ->
         Attributes({"f2"}, {[name |-> "sda", size |-> "1"], [name |-> "sr0", size |-> ENil]},
                    {"m", "bad"}, TRUE)
    [] a = <<"a", ":", "a">> -> Attributes({"f1", "f2"}, {}, {"m"}, FALSE)
    [] OTHER -> ENil
MCRules == {[ns |-> "n1", rules |-> <<"f1", "f9">>], [ns |-> "n2", rules |-> <<"f2">>],
            [ns |-> "n3", rules |-> <<"f1", "f2", "bad">>]}
Auto(discovery, enrollment, persist, agents) ==
  [discovery |-> discovery, enrollment |-> enrollment, persist |-> persist, agents |-> agents]
MCAuto == {Auto(TRUE, TRUE, FALSE, {<<"a", ":", "a">>}),
           Auto(TRUE, TRUE, FALSE, {<<"A", "-", "a", " ">>}),
           Auto(TRUE, TRUE, FALSE, {<<":", "A", "a">>, <<"a", "A">>}),
           Auto(FALSE, TRUE, FALSE, {<<"a", ":", "a">>}),
           Auto(TRUE, TRUE, TRUE, {<<":", "A", "a">>}),
           Auto(TRUE, FALSE, TRUE, {<<":", "A", "a">>}),
           Auto(TRUE, TRUE, FALSE, {<<"a", "a", "a", ":", "a">>}),
           Auto(TRUE, TRUE, FALSE, {<<"a", "a", ":", "a">>})}

-----------------------------------------------------------------------------
(* AgentRuntime: the three runtimes, on hosts with and without a resolver  *)
(* on a loopback address.                                                  *)

RtHostA == [readable |-> TRUE, etc |-> {"127.0.0.53"}, upstream |-> {},
            loopback |-> {"127.0.0.53"}]
RtHostB == [RtHostA EXCEPT !.etc = {"127.0.0.53", "10.0.0.1"},
                           !.upstream = {"10.0.0.2", "127.0.0.53"}]
RtHostC == [RtHostA EXCEPT !.readable = FALSE]
Vol(name, parts, src, creatable, opts) ==
  [name |-> name, parts |-> parts, src |-> src, dst |-> "absolute",
   creatable |-> creatable, opts |-> opts]
RtAct(runtime, network, volumes, host, cni, tries) ==
  [runtime |-> runtime, network |-> network, pid |-> "", volumes |-> volumes,
   host |-> host, cni |-> cni, tries |-> tries, timeout |-> TRUE, foreign |-> FALSE,
   cmd |-> "", args |-> <<"a">>]
MCRtActions ==
  {RtAct("docker", "", <<>>, RtHostA, FALSE, 2),
   RtAct("containerd", "",
         <<Vol("v1", 3, "path", TRUE, <<"rw", "x", "ro">>), Vol("v2", 2, "path", TRUE, <<>>),
           Vol("v3", 2, "named", TRUE, <<>>), Vol("v4", 2, "path", FALSE, <<>>)>>,
         RtHostA, TRUE, 2),
   [RtAct("containerd", "host", <<>>, RtHostB, TRUE, 1) EXCEPT !.cmd = "c"],
   [RtAct("containerd", "", <<>>, RtHostB, FALSE, 1) EXCEPT !.args = <<>>],
   [RtAct("containerd", "", <<>>, RtHostC, FALSE, 1)
      EXCEPT !.args = <<>>, !.cmd = "c", !.timeout = FALSE],
   RtAct("kubernetes", "", <<>>, RtHostA, FALSE, 2),
   RtAct("kubernetes", "host", <<>>, RtHostA, FALSE, 1),
   [RtAct("kubernetes", "", <<>>, RtHostA, FALSE, 1) EXCEPT !.foreign = TRUE]}

-----------------------------------------------------------------------------
(* AgentTransport and ActionLog                                            *)

MCLaunch(transport, address) ==
  [transport |-> transport, address |-> address, runtimeWorks |-> TRUE, id |-> "m",
   envId |-> "", workerId |-> ""]
MCLaunches ==
  {MCLaunch("nats", ""), [MCLaunch("file", "") EXCEPT !.envId = "e"], MCLaunch("NATS", "s"),
   [MCLaunch("grpc", "") EXCEPT !.workerId = "w"], MCLaunch("udp", ""),
   [MCLaunch("nats", "") EXCEPT !.runtimeWorks = FALSE]}
MCBatches == <<2, 3, 1>>

MCPieces == {<<"x">>, <<"x", "nl">>, <<"nl", "x", "nl", "x">>}

-----------------------------------------------------------------------------
(* The parts side by side                                                  *)

provisioningVars == <<part, bootVars, isoVars, syVars, hbVars, enrollVars, rtVars, trVars, logVars>>

\* A part that does not run starts in one of its initial states.
ProvisioningInit ==
  /\ part \in {"boot", "iso", "syslog", "backend", "enroll", "runtime", "transport", "log"}
  /\ BootInit
  /\ part # "boot" => conf = Config("reservation", TRUE) /\ objects["pc"] = {}
  /\ IsoInit /\ SyInit
  /\ HbInit /\ (part # "backend" => hbFile = [yaml |-> FALSE, list |-> <<>>])
  /\ EnrollInit
  /\ part # "enroll" => aconf = Auto(FALSE, TRUE, FALSE, {<<"a", ":", "a">>}) /\ ahw = {} /\ awf = {}
  /\ RtInit /\ (part # "runtime" => rtAct = RtAct("docker", "", <<>>, RtHostA, FALSE, 2))
  /\ TrInit /\ (part # "transport" => trLaunch = MCLaunch("nats", ""))
  /\ LogInit

ProvisioningNext ==
  \/ /\ part = "boot" /\ BootNext
     /\ UNCHANGED <<part, isoVars, syVars, hbVars, enrollVars, rtVars, trVars, logVars>>
  \/ /\ part = "iso" /\ IsoNext
     /\ UNCHANGED <<part, bootVars, syVars, hbVars, enrollVars, rtVars, trVars, logVars>>
  \/ /\ part = "syslog" /\ SyNext
     /\ UNCHANGED <<part, bootVars, isoVars, hbVars, enrollVars, rtVars, trVars, logVars>>
  \/ /\ part = "backend" /\ HbNext
     /\ UNCHANGED <<part, bootVars, isoVars, syVars, enrollVars, rtVars, trVars, logVars>>
  \/ /\ part = "enroll" /\ EnrollNext
     /\ UNCHANGED <<part, bootVars, isoVars, syVars, hbVars, rtVars, trVars, logVars>>
  \/ /\ part = "runtime" /\ RtNext
     /\ UNCHANGED <<part, bootVars, isoVars, syVars, hbVars, enrollVars, trVars, logVars>>
  \/ /\ part = "transport" /\ TrNext
     /\ UNCHANGED <<part, bootVars, isoVars, syVars, hbVars, enrollVars, rtVars, logVars>>
  \/ /\ part = "log" /\ LogNext
     /\ UNCHANGED <<part, bootVars, isoVars, syVars, hbVars, enrollVars, rtVars, trVars>>

ProvisioningSpec == ProvisioningInit /\ [][ProvisioningNext]_provisioningVars

\* The types of the part that runs; the others stay as they start.
ProvisioningTypeOK ==
  /\ part = "boot" => BootTypeOK
  /\ part = "iso" => IsoTypeOK
  /\ part = "syslog" => SyTypeOK
  /\ part = "backend" => HbTypeOK
  /\ part = "enroll" => EnrollTypeOK
  /\ part = "runtime" => RtTypeOK
  /\ part = "transport" => TrTypeOK
  /\ part = "log" => LogTypeOK
=============================================================================
