---------------------------- MODULE NetworkBoot ----------------------------
(***************************************************************************)
(* Machines that boot over the network with Smee: firmware asks DHCP for a *)
(* boot file, loads an iPXE binary over TFTP or HTTP, this iPXE asks DHCP  *)
(* again, gets the URL of the script, and the script loads the OS          *)
(* installation environment (OSIE), in which the Tink Agent runs under the *)
(* worker id of the kernel command line.  Meanwhile the Tink Controller or *)
(* a person changes the Hardware objects, and packets are lost, delayed    *)
(* and sent again.  Smee keeps no state between two packets: every handler *)
(* runs in a goroutine of its own and reads the objects once (SmeeDhcp,    *)
(* SmeeFiles).  The firmware and iPXE are external: they are modelled by   *)
(* the DHCP options that Smee reads and by what they do with its answers.  *)
(***************************************************************************)
EXTENDS SmeeFiles, FiniteSets

CONSTANTS Machine,        \* the machines, each identified by its MAC
          Configs,        \* configurations of Smee
          Firmware,       \* kinds of firmware: [opt60, opt77, opt93, opt94, opt97]
          HardwareOf(_),  \* sets of objects a machine can have
          Retries,        \* IPXEScriptRetries, the script's retry counter
          MaxChanges,     \* bound: changes of Hardware objects
          MaxXid,         \* bound: transactions after which a machine gives up
          MaxFaults,      \* bound: packets and boot files lost
          MaxPowerOns     \* bound: power cycles

ASSUME BootAssumption ==
  /\ Machine \subseteq MAC
  /\ {Retries, MaxChanges, MaxXid, MaxPowerOns} \subseteq Nat
  /\ MaxFaults \in Nat \ {0}

\* The shape of what is configured: Smee does not start without a script URL
\* (smee.go, dhcpHandler), and "server" is no address.
ASSUME ShapeAssumption ==
  /\ \A c \in Configs : /\ c.mode \in {"reservation", "proxy", "auto-proxy"}
                        /\ c.tracing \in BOOLEAN
                        /\ DOMAIN c.scriptURL = DOMAIN File(Nil)
  /\ Nil \notin Firmware /\ \A f \in Firmware : f.giaddr # "server"
  /\ \A m \in Machine : \A o \in HardwareOf(m) : \A h \in o :
       DOMAIN h.interfaces \subseteq Nat \ {0}

\* Nil is neither a message type, a directory, a file nor the answer of a route.
ASSUME FileAssumption ==
  /\ Nil \notin {"offer", "ack"} /\ \A m \in Machine : Nil # MacDir(m)
  /\ Nil \notin [ok : {TRUE}, body : Files \X {"plain", "patched"}]
  /\ \A c \in Configs :
       /\ c.scriptURL # Nil
       /\ \A m \in Machine : [c.scriptURL EXCEPT !.dir = MacDir(m)] # Nil
       /\ Nil \notin [scheme : {Nil, "http", "tftp"}, host : {Nil, c.httpServer, c.tftpServer},
                     dir : {Nil} \cup [kind : {"mac"}, of : Machine, format : {c.macFormat}],
                     name : Files, trace : BOOLEAN]

VARIABLES
  conf,      \* Smee's configuration, set when the process starts
  objects,   \* machine -> its Hardware objects in the cluster
  rom,       \* machine -> its firmware
  stage,     \* machine -> what it is doing
  program,   \* machine -> "firmware" or "Tinkerbell", the program that boots
  chain,     \* machine -> how many binaries it loaded since it was powered on
  xid,       \* machine -> DHCP transaction
  file,      \* machine -> the boot file it was told to load
  script,    \* machine -> the script it runs
  worker,    \* machine -> worker id of the OSIE it runs
  loads,     \* machine -> part of the OSIE that the script loads, and retries
  packets,   \* packets on the network
  seen,      \* history: what the objects said of a machine since power-on
  changes, faults, powerOns

bootVars == <<conf, objects, rom, stage, program, chain, xid, file, script,
              worker, loads, packets, seen, changes, faults, powerOns>>
machineVars == <<stage, program, chain, xid, file, script, worker, loads>>

AllObjects == UNION {objects[m] : m \in Machine}
View(m) == GetByMac(AllObjects, m)

Parts == <<"kernel", "initrd", "boot">>

-----------------------------------------------------------------------------

BootInit ==
  /\ conf \in Configs
  /\ objects \in [Machine -> UNION {HardwareOf(m) : m \in Machine}]
  /\ \A m \in Machine : objects[m] \in HardwareOf(m)
  /\ rom = [m \in Machine |-> Nil]
  /\ stage = [m \in Machine |-> "off"]
  /\ program = [m \in Machine |-> "firmware"]
  /\ chain = [m \in Machine |-> 0]
  /\ xid = [m \in Machine |-> 0]
  /\ file = [m \in Machine |-> Nil]
  /\ script = [m \in Machine |-> Nil]
  /\ worker = [m \in Machine |-> Nil]
  /\ loads = [m \in Machine |-> [part |-> 1, idx |-> 0]]
  /\ packets = {}
  /\ seen = [m \in Machine |-> {}]
  /\ changes = 0 /\ faults = 0 /\ powerOns = 0

\* A machine is powered on, or off and on, by Rufio or by hand; the boot
\* device it is set to decides which firmware asks for a boot file.
PowerOn(m) ==
  /\ powerOns < MaxPowerOns
  /\ \E f \in Firmware : rom' = [rom EXCEPT ![m] = f]
  /\ stage' = [stage EXCEPT ![m] = "init"]
  /\ program' = [program EXCEPT ![m] = "firmware"]
  /\ chain' = [chain EXCEPT ![m] = 0]
  /\ file' = [file EXCEPT ![m] = Nil]
  /\ script' = [script EXCEPT ![m] = Nil]
  /\ worker' = [worker EXCEPT ![m] = Nil]
  /\ seen' = [seen EXCEPT ![m] = {View(m)}]
  /\ powerOns' = powerOns + 1
  /\ UNCHANGED <<conf, objects, xid, loads, packets, changes, faults>>

\* The request of the program that runs.  Tinkerbell's iPXE announces itself
\* in option 77 and keeps the class of the firmware that loaded it.
Request(m, type, id) ==
  [to |-> "server", type |-> type, op |-> "BootRequest", mac |-> m, xid |-> id,
   opt60 |-> rom[m].opt60,
   opt77 |-> IF program[m] = "Tinkerbell" THEN "Tinkerbell" ELSE rom[m].opt77,
   opt93 |-> rom[m].opt93, opt94 |-> rom[m].opt94, opt97 |-> rom[m].opt97,
   giaddr |-> rom[m].giaddr, source |-> Unspecified]

SendDiscover(m) ==
  /\ stage[m] = "init"
  /\ xid' = [xid EXCEPT ![m] = @ + 1]
  /\ stage' = [stage EXCEPT ![m] = "discover"]
  /\ packets' = packets \cup {Request(m, "discover", xid[m] + 1)}
  /\ UNCHANGED <<conf, objects, rom, program, chain, file, script, worker,
                 loads, seen, changes, faults, powerOns>>

\* One goroutine per packet: it reads the objects and answers, or does not.
HandlePacket(p) ==
  /\ p \in packets /\ p.to = "server"
  /\ packets' = (packets \ {p})
       \cup {[to |-> replyDestination(p), mac |-> p.mac, xid |-> p.xid,
              type |-> r.type, file |-> r.file] : r \in Handle(conf, AllObjects, p)}
  /\ UNCHANGED <<conf, objects, rom, machineVars, seen, changes, faults, powerOns>>

\* The client asks for what it was offered, and boots what it is granted.
Offered(m) ==
  /\ stage[m] = "discover"
  /\ \E p \in packets :
       /\ p.to # "server" /\ p.mac = m /\ p.xid = xid[m] /\ p.type = "offer"
       /\ packets' = (packets \ {p}) \cup {Request(m, "request", xid[m])}
  /\ stage' = [stage EXCEPT ![m] = "request"]
  /\ UNCHANGED <<conf, objects, rom, program, chain, xid, file, script, worker,
                 loads, seen, changes, faults, powerOns>>

Acknowledged(m) ==
  /\ stage[m] = "request"
  /\ \E p \in packets :
       /\ p.to # "server" /\ p.mac = m /\ p.xid = xid[m] /\ p.type = "ack"
       /\ packets' = packets \ {p}
       /\ file' = [file EXCEPT ![m] = p.file]
       /\ stage' = [stage EXCEPT ![m] = IF p.file = Nil THEN "disk" ELSE "fetch"]
  /\ UNCHANGED <<conf, objects, rom, program, chain, xid, script, worker, loads,
                 seen, changes, faults, powerOns>>

\* No answer came in time, or none will: the next transaction, or the disk.
NoAnswer(m) ==
  /\ stage[m] \in {"discover", "request"}
  /\ LET late == \E p \in packets : p.mac = m /\ p.xid = xid[m]
     IN /\ late => faults < MaxFaults
        /\ faults' = IF late THEN faults + 1 ELSE faults
  /\ stage' = [stage EXCEPT ![m] = IF xid[m] < MaxXid THEN "init" ELSE "disk"]
  /\ UNCHANGED <<conf, objects, rom, program, chain, xid, file, script, worker,
                 loads, packets, seen, changes, powerOns>>

LosePacket(p) ==
  /\ p \in packets
  /\ faults < MaxFaults
  /\ packets' = packets \ {p}
  /\ faults' = faults + 1
  /\ UNCHANGED <<conf, objects, rom, machineVars, seen, changes, powerOns>>

-----------------------------------------------------------------------------
(* The boot file is fetched.                                               *)

AddressOf(m) == LET v == View(m) IN IF v = Nil THEN Nil ELSE v.dhcp.ip
Req(m) ==
  LET f == file[m]
  IN [scheme |-> f.scheme, host |-> f.host, dir |-> f.dir, name |-> f.name,
      source |-> AddressOf(m)]
IsScript(f) == f.name = "auto.ipxe" /\ f.host = conf.scriptURL.host
Foreign(f) == f.host # Nil /\ f.host \notin {conf.tftpServer, conf.httpServer,
                                             conf.scriptURL.host}

\* What the server for the file answers: over TFTP, or over HTTP from the
\* binary server and the PXE-over-HTTP server.
FetchedFile(m) ==
  LET r == Req(m)
  IN IF r.scheme \in {Nil, "tftp"} THEN HandleRead(conf, AllObjects, r)
     ELSE Router(<<BinaryHandler(conf, r), PXEHTTPHandler(conf, AllObjects, r)>>)

\* A binary starts and asks DHCP again; a file that is not served sends the
\* machine to its next boot device.
FetchFile(m) ==
  /\ stage[m] = "fetch" /\ ~IsScript(file[m]) /\ ~Foreign(file[m])
  /\ LET a == FetchedFile(m)
         ipxe == Status(a) = 200 /\ Served(a)[1] \in Files
     IN /\ stage' = [stage EXCEPT ![m] =
                       IF ipxe THEN "init" ELSE IF Status(a) = 200 THEN "other" ELSE "disk"]
        /\ program' = [program EXCEPT ![m] = IF ipxe THEN "Tinkerbell" ELSE @]
        /\ chain' = [chain EXCEPT ![m] = IF ipxe THEN @ + 1 ELSE @]
  /\ UNCHANGED <<conf, objects, rom, xid, file, script, worker, loads, packets,
                 seen, changes, faults, powerOns>>

\* A URL of the operator's own that another server answers.
FetchForeign(m) ==
  /\ stage[m] = "fetch" /\ Foreign(file[m])
  /\ stage' = [stage EXCEPT ![m] = "custom"]
  /\ UNCHANGED <<conf, objects, rom, program, chain, xid, file, script, worker,
                 loads, packets, seen, changes, faults, powerOns>>

FetchScript(m) ==
  /\ stage[m] = "fetch" /\ IsScript(file[m])
  /\ LET a == ScriptHandler(conf, AllObjects, Req(m))
     IN IF a.status = 200
        THEN /\ stage' = [stage EXCEPT ![m] =
                            IF a.script.kind \in {"hook", "static"} THEN "load" ELSE "custom"]
             /\ script' = [script EXCEPT ![m] = a.script]
             /\ loads' = [loads EXCEPT ![m] = [part |-> 1, idx |-> 0]]
        ELSE /\ stage' = [stage EXCEPT ![m] = "disk"]
             /\ UNCHANGED <<script, loads>>
  /\ UNCHANGED <<conf, objects, rom, program, chain, xid, file, worker, packets,
                 seen, changes, faults, powerOns>>

\* The download is cut: the program gives up this boot device.
FetchFails(m) ==
  /\ stage[m] = "fetch" /\ faults < MaxFaults
  /\ stage' = [stage EXCEPT ![m] = "disk"]
  /\ faults' = faults + 1
  /\ UNCHANGED <<conf, objects, rom, program, chain, xid, file, script, worker,
                 loads, packets, seen, changes, powerOns>>

-----------------------------------------------------------------------------
(* hook.go: kernel, initrd, boot, each tried Retries times again.          *)

LoadPart(m) ==
  /\ stage[m] = "load"
  /\ LET l == loads[m]
     IN IF l.part < Len(Parts)
        THEN /\ loads' = [loads EXCEPT ![m] = [part |-> l.part + 1, idx |-> 0]]
             /\ UNCHANGED <<stage, worker>>
        ELSE /\ stage' = [stage EXCEPT ![m] = "osie"]
             /\ worker' = [worker EXCEPT ![m] =
                  IF script[m].kind = "static" THEN m ELSE script[m].worker]
             /\ UNCHANGED loads
  /\ UNCHANGED <<conf, objects, rom, program, chain, xid, file, script, packets,
                 seen, changes, faults, powerOns>>

\* Only the script's own counter bounds these failures; faults notes that
\* something was lost.
Lost == faults' = IF faults < MaxFaults THEN faults + 1 ELSE faults

\* Mutant of LoadFails: the counter is not compared with the limit.
LoadsForEver(m) ==
  /\ stage[m] = "load"
  /\ loads' = [loads EXCEPT ![m].idx = @ + 1]
  /\ Lost
  /\ UNCHANGED <<conf, objects, rom, stage, program, chain, xid, file, script,
                 worker, packets, seen, changes, powerOns>>

LoadFails(m) ==
  /\ stage[m] = "load"
  /\ IF loads[m].idx = Retries
     THEN stage' = [stage EXCEPT ![m] = "disk"] /\ UNCHANGED loads
     ELSE loads' = [loads EXCEPT ![m].idx = @ + 1] /\ UNCHANGED stage
  /\ Lost
  /\ UNCHANGED <<conf, objects, rom, program, chain, xid, file, script, worker,
                 packets, seen, changes, powerOns>>

\* The BMC mounts Smee's ISO and boots from it: the kernel parameters are
\* the ones patched into the image.
BootISO(m) ==
  /\ stage[m] = "init" /\ program[m] = "firmware"
  /\ LET a == ISOHandler(conf, AllObjects,
                [File("hook.iso") EXCEPT !.dir = MacDir(m)])
     IN IF a.status = 200
        THEN /\ stage' = [stage EXCEPT ![m] = "isoOsie"]
             /\ worker' = [worker EXCEPT ![m] = a.patch.worker]
        ELSE /\ stage' = [stage EXCEPT ![m] = "isoRefused"]
             /\ UNCHANGED worker
  /\ UNCHANGED <<conf, objects, rom, program, chain, xid, file, script, loads,
                 packets, seen, changes, faults, powerOns>>

\* An object is created, changed or deleted: allowPXE by the Tink Controller
\* before and after a Workflow, everything by the operator.
ChangeHardware(m) ==
  /\ changes < MaxChanges
  /\ \E o \in HardwareOf(m) \ {objects[m]} :
       objects' = [objects EXCEPT ![m] = o]
  /\ changes' = changes + 1
  /\ seen' = [n \in Machine |->
       IF stage[n] = "off" THEN {}
       ELSE seen[n] \cup {GetByMac(UNION {objects'[k] : k \in Machine}, n)}]
  /\ UNCHANGED <<conf, rom, machineVars, packets, faults, powerOns>>

BootNext ==
  \/ \E m \in Machine :
       \/ PowerOn(m) \/ SendDiscover(m) \/ Offered(m) \/ Acknowledged(m) \/ NoAnswer(m)
       \/ FetchFile(m) \/ FetchForeign(m) \/ FetchScript(m) \/ FetchFails(m)
       \/ LoadPart(m) \/ LoadFails(m) \/ BootISO(m) \/ ChangeHardware(m)
  \/ \E p \in packets : HandlePacket(p) \/ LosePacket(p)

BootSpec == BootInit /\ [][BootNext]_bootVars

-----------------------------------------------------------------------------

Stages == {"off", "init", "discover", "request", "fetch", "load", "osie",
           "isoOsie", "isoRefused", "custom", "other", "disk"}

BootTypeOK ==
  /\ conf \in Configs
  /\ objects \in [Machine -> UNION {HardwareOf(m) : m \in Machine}]
  /\ \A m \in Machine : objects[m] \in HardwareOf(m)
  /\ stage \in [Machine -> Stages]
  /\ rom \in [Machine -> Firmware \cup {Nil}]
  /\ \A m \in Machine : rom[m] = Nil <=> stage[m] = "off"
  /\ program \in [Machine -> {"firmware", "Tinkerbell"}]
  /\ chain \in [Machine -> Nat] /\ xid \in [Machine -> Nat]
  /\ loads \in [Machine -> [part : 1..Len(Parts), idx : 0..Retries]]
  /\ DOMAIN file = Machine /\ DOMAIN script = Machine
  /\ DOMAIN worker = Machine
  /\ \A m \in Machine : worker[m] # Nil => stage[m] \in {"osie", "isoOsie"}
  /\ DOMAIN seen = Machine /\ \A m \in Machine : IsFiniteSet(seen[m])
  /\ \A p \in packets : p.mac \in Machine /\ p.xid \in 1..xid[p.mac]
  /\ changes \in 0..MaxChanges /\ faults \in 0..MaxFaults
  /\ powerOns \in 0..MaxPowerOns

\* The object names a boot file itself: Smee passes it on unchanged.
OwnBootFile(m) == \E v \in seen[m] : v # Nil /\ v.dhcp.bootfile # Nil

\* The object names a URL of its own in place of Smee's script.
OwnScripts(m) == {v.netboot.scriptURL : v \in {v \in seen[m] : v # Nil}} \ {Nil}

\* An operator calls an iPXE binary a script, in the object or in Smee's flags.
BinaryAsScript(m) == \E f \in OwnScripts(m) \cup {conf.scriptURL} : f.name \in Files

\* dhcp.go, Bootfile: "this case gets us out of an ipxe boot loop".  Since it
\* was powered on, a machine loads at most one iPXE binary of Smee: the
\* answer to Tinkerbell's iPXE is never again an iPXE binary, whatever the
\* firmware, the mode, the architecture and the changes of the object, unless
\* the operator named the binary to be loaded.
LoopFree == \A m \in Machine : chain[m] > 1 => OwnBootFile(m) \/ BinaryAsScript(m)

\* A machine whose object denied netboot during all of its boot is not booted
\* over DHCP into the OSIE nor into the object's own script: the DHCP handlers
\* and the script handler check allowPXE independently, each against the
\* object it reads, and none of the answers in flight lets the machine
\* through.  The ISO handler does not look at allowPXE (IsoByMac).
DeniedStaysOut ==
  \A m \in Machine :
    (stage[m] \in {"load", "osie", "custom"} /\ ~OwnBootFile(m))
      => \E v \in seen[m] : v = Nil \/ v.netboot.allow

\* The address of a machine leads to the interface its MAC leads to, whatever
\* the objects: no two interfaces share an address.
AddressesTell ==
  \A os \in [Machine -> UNION {HardwareOf(m) : m \in Machine}] :
    (\A m \in Machine : os[m] \in HardwareOf(m)) =>
      \A m \in Machine :
        LET all == UNION {os[n] : n \in Machine}
            v == GetByMac(all, m)
        IN GetByIP(all, IF v = Nil THEN Nil ELSE v.dhcp.ip) = v

\* A request for the script by this URL is answered for machine m.
Identifies(m, f) == IF ParsesAsMAC(f.dir) THEN f.dir.of = m ELSE AddressesTell

\* The Agent of a machine booted over DHCP comes up under the identity the
\* object gives it: its AgentID while the whole boot saw only that, and the
\* MAC otherwise.  Tink Server finds the Workflows of the machine by this id.
AgentIdentity ==
  \A m \in Machine : \A id \in {v.agentID : v \in seen[m] \ {Nil}} :
    (/\ stage[m] = "osie" /\ Identifies(m, file[m])
     /\ \A v \in seen[m] : v # Nil /\ v.agentID = id)
      => worker[m] = IF id # Nil THEN id ELSE m

\* Where Smee puts the MAC into the URL of the script, which is the default,
\* our iPXE asks for the script of its own machine.
ScriptIsOwn ==
  \A m \in Machine :
    (/\ stage[m] \in {"load", "osie"} /\ program[m] = "Tinkerbell" /\ conf.injectMac
     /\ ~OwnBootFile(m) /\ OwnScripts(m) = {})
      => Identifies(m, file[m])

\* The machine can reach the OSIE over the network, as things stand.
Bootable(m) ==
  LET v == View(m)
      binary == IPXEBinaryFrom(conf.archMapping, Arch(Request(m, "discover", 1)))
      own == IF v = Nil \/ v.netboot.binary = Nil THEN binary ELSE v.netboot.binary
  IN /\ IsNetbootClient(Request(m, "discover", 1))
     /\ Identifies(m, ipxeScript(conf, Request(m, "discover", 1)))
     /\ conf.scriptURL.name = "auto.ipxe" /\ conf.httpServer # Nil
     /\ conf.netbootOptions /\ conf.scriptHTTP /\ conf.binaryHTTP
     /\ conf.patch # "long"
     /\ binary # Nil /\ own \in Files
     /\ v = Nil => conf.mode = "auto-proxy"
     /\ v # Nil =>
          /\ v.netboot.allow /\ v.netboot.script = Nil /\ v.netboot.scriptURL = Nil
          /\ conf.mode = "reservation" =>
               /\ ~v.disabled
               /\ v.dhcp.bootfile = Nil /\ v.dhcp.tftp = Nil

\* A machine that may netboot gets through: while nothing is lost and its
\* object stays as it was at power-on, no answer of the five services sends
\* it to its disk or to anything but the OSIE, in every combination of mode,
\* firmware and Hardware that allows it.
BootableBoots ==
  \A m \in Machine :
    (stage[m] # "off" /\ faults = 0 /\ seen[m] = {View(m)} /\ Bootable(m))
      => stage[m] \notin {"disk", "other", "custom"}

\* A machine booted from Smee's ISO had an object since it was powered on, and
\* that is all it takes: allowPXE is not asked, and the Agent comes up under
\* the MAC though the object may give it another id (RoundTrip,
\* constructPatch), so that Tink Server looks for other Workflows than after
\* a boot over DHCP.
IsoByMac ==
  \A m \in Machine : stage[m] = "isoOsie" => worker[m] = m /\ \E v \in seen[m] : v # Nil

\* What a machine boots into over DHCP, and as whom, is what its object says;
\* from the ISO it boots if it has an object, under its MAC.
BootsAsTold == DeniedStaysOut /\ AgentIdentity /\ ScriptIsOwn /\ IsoByMac
=============================================================================
