------------------------------ MODULE SmeeDhcp ------------------------------
(***************************************************************************)
(* What Smee's DHCP handlers compute from a request and from the Hardware  *)
(* objects: the conversion of a Hardware interface to DHCP and netboot     *)
(* data (smee/internal/dhcp/conv.go), the classification of the client     *)
(* (dhcp.go), and the reply of the reservation and of the proxy handler.   *)
(* These are functions of their arguments; NetworkBoot is the state        *)
(* machine that uses them.                                                 *)
(*                                                                         *)
(* A Go zero value or nil pointer is Nil, and so is a result that comes    *)
(* with an error.  Texts are atoms: an address, MAC or prefix parses when  *)
(* it is a member of the constant set of its kind.  A file named in a      *)
(* reply is a record [scheme, host, dir, name, trace]: dir is the last     *)
(* directory of its path, as [kind, of, format], and trace says that a     *)
(* traceparent is appended to the name.                                    *)
(***************************************************************************)
EXTENDS Integers, Sequences, FiniteSets, SequencesExt

CONSTANTS Nil,                  \* nil, "" and the value of a failed call
          MAC, IPv4, IPv6, CIDR,\* texts that parse as such
          RaspberryPi,          \* MACs with a Raspberry Pi prefix
          MaxUint32             \* stands for 2^32 - 1

Unspecified == "0.0.0.0"
DefaultLease == 604800
Archs == {"x86pc", "efi_x86_64", "efi_x86_64_http", "efi_arm64", "rpiboot",
          "uboot_arm64"}
UnknownArch == "unknown"
IsIP(s) == s \in IPv4 \cup IPv6

File(name) ==
  [scheme |-> Nil, host |-> Nil, dir |-> Nil, name |-> name, trace |-> FALSE]

MacDir(mac) == [kind |-> "mac", of |-> mac, format |-> "colon"]

-----------------------------------------------------------------------------
(* conv.go: from the Hardware object to the data of one interface.         *)

\* One interface's DHCP section; an address text that must parse and does
\* not makes the whole conversion fail, an optional server is left out.
toDHCPData(h) ==
  LET ok == /\ h # Nil
            /\ h.mac # Nil => h.mac \in MAC
            /\ h.ip # Nil =>
                 /\ IsIP(h.ip.address)
                 /\ IF h.ip.address \in IPv4 THEN h.ip.netmask \in IPv4
                                             ELSE h.ip.netmask = Nil
                 /\ h.ip.gateway # Nil => IsIP(h.ip.gateway)
            /\ \A r \in Range(h.routes) : r.dest \in CIDR /\ IsIP(r.router)
      v4 == h.ip # Nil /\ h.ip.address \in IPv4
  IN IF ~ok THEN Nil ELSE
     [mac       |-> h.mac,
      ip        |-> IF h.ip = Nil THEN Nil ELSE h.ip.address,
      netmask   |-> IF v4 THEN h.ip.netmask ELSE Nil,
      broadcast |-> IF v4 THEN <<h.ip.address, h.ip.netmask>> ELSE Nil,
      gateway   |-> IF h.ip = Nil THEN Nil ELSE h.ip.gateway,
      dns       |-> SelectSeq(h.dns, IsIP),
      ntp       |-> SelectSeq(h.ntp, IsIP),
      hostname  |-> h.hostname,
      domain    |-> h.domain,
      search    |-> IF h.domain = Nil THEN <<>> ELSE <<h.domain>>,
      lease     |-> IF h.lease \in 0..MaxUint32 THEN h.lease ELSE DefaultLease,
      tftp      |-> h.tftp,
      bootfile  |-> h.bootfile,
      arch      |-> h.arch,
      vlan      |-> h.vlan,
      routes    |-> h.routes]

NoOSIE == [base |-> Nil, kernel |-> Nil, initrd |-> Nil, params |-> Nil]

\* One interface's netboot section.  allowPXE is Nil when the object does
\* not say; a script URL that does not parse (scheme "bad") is an error.
toNetbootData(n, facility) ==
  IF n = Nil \/ (n.ipxe # Nil /\ n.ipxe.url # Nil /\ n.ipxe.url.scheme = "bad")
  THEN Nil
  ELSE [allow     |-> n.allowPXE # Nil /\ n.allowPXE,
        scriptURL |-> IF n.ipxe = Nil THEN Nil ELSE n.ipxe.url,
        script    |-> IF n.ipxe = Nil THEN Nil ELSE n.ipxe.contents,
        binary    |-> IF n.ipxe = Nil THEN Nil ELSE n.ipxe.binary,
        facility  |-> facility,
        osie      |-> CASE n.osie = Nil -> NoOSIE
                        [] OTHER -> IF n.osie.base = "bad"
                                    THEN [n.osie EXCEPT !.base = Nil] ELSE n.osie,
        pxelinux  |-> n.pxelinux,
        rpi       |-> n.rpi]

FirstOf(indices) == IF indices = {} THEN 0 ELSE Min(indices)

\* The data of interface k; without such an interface the empty one is
\* converted, which fails for want of a DHCP section.
Convert(hw, k) ==
  LET i == hw.interfaces[k]
      d == IF k = 0 THEN Nil ELSE toDHCPData(i.dhcp)
      n == IF k = 0 THEN Nil ELSE toNetbootData(i.netboot, hw.facility)
  IN IF d = Nil \/ n = Nil \/ (i.iso # Nil /\ i.iso.scheme = "bad")
     THEN Nil
     ELSE [agentID |-> hw.agentID, dhcp |-> d, disabled |-> i.disableDHCP,
           netboot |-> n, iso |-> i.iso]

WithMac(hw, mac) ==
  {k \in DOMAIN hw.interfaces : hw.interfaces[k].dhcp # Nil /\ hw.interfaces[k].dhcp.mac = mac}
WithIP(hw, ip) ==
  {k \in DOMAIN hw.interfaces :
     LET d == hw.interfaces[k].dhcp IN d # Nil /\ d.ip # Nil /\ d.ip.address = ip}

ConvertByMac(mac, hw) == Convert(hw, FirstOf(WithMac(hw, mac)))
ConvertByIP(ip, hw) == Convert(hw, FirstOf(WithIP(hw, ip)))

\* The backend's index lookup: exactly one object must match.
FilterHardware(found) ==
  IF Cardinality(found) = 1 THEN CHOOSE h \in found : TRUE ELSE Nil

\* readBackend and hardware.GetByMac: lookup, then conversion.
GetByMac(objects, mac) ==
  LET hw == FilterHardware({h \in objects : WithMac(h, mac) # {}})
  IN IF hw = Nil THEN Nil ELSE ConvertByMac(mac, hw)

GetByIP(objects, ip) ==
  LET hw == FilterHardware({h \in objects : WithIP(h, ip) # {}})
  IN IF hw = Nil THEN Nil ELSE ConvertByIP(ip, hw)

-----------------------------------------------------------------------------
(* dhcp.go: what kind of client sent the packet.                           *)

ArchToBootFile ==
  [a \in Archs \ {"uboot_arm64"} |->
     CASE a = "x86pc" -> "undionly.kpxe"
       [] a \in {"efi_x86_64", "efi_x86_64_http"} -> "ipxe.efi"
       [] a \in {"efi_arm64", "rpiboot"} -> "snp-arm64.efi"]

isRaspberryPI(mac) == mac \in RaspberryPi

\* Option 93, overruled by the MAC prefix; the first architecture known.
Arch(pkt) ==
  LET k == FirstOf({i \in DOMAIN pkt.opt93 : pkt.opt93[i] \in Archs})
  IN IF isRaspberryPI(pkt.mac) THEN "rpiboot"
     ELSE IF k = 0 THEN UnknownArch ELSE pkt.opt93[k]

\* The default table with the operator's overrides laid over it.
IPXEBinaryFrom(override, arch) ==
  IF arch \in DOMAIN override THEN override[arch]
  ELSE IF arch \in DOMAIN ArchToBootFile THEN ArchToBootFile[arch] ELSE Nil

ClientTypeFrom(pkt) ==
  IF pkt.opt60 = Nil THEN Nil
  ELSE IF pkt.opt60 = "HTTPClient" THEN "HTTPClient" ELSE "PXEClient"

IsNetbootClient(pkt) ==
  /\ pkt.type \in {"discover", "request"}
  /\ pkt.opt60 \in {"PXEClient", "HTTPClient"}
  /\ pkt.opt93 # <<>>
  /\ pkt.opt94
  /\ pkt.opt97 \in {Nil, "guid"}

\* NewInfo: a binary given by the Hardware object replaces the table's.
NewInfo(c, pkt, binary) ==
  [mac        |-> pkt.mac,
   userClass  |-> pkt.opt77,
   clientType |-> ClientTypeFrom(pkt),
   format     |-> c.macFormat,
   binary     |-> IF binary # Nil THEN binary
                  ELSE IPXEBinaryFrom(c.archMapping, Arch(pkt)),
   trace      |-> FALSE]

\* The path element that carries the MAC; the empty format leaves none.
macAddrFormat(mac, format) ==
  IF format = "empty" \/ mac = Nil THEN Nil ELSE [kind |-> "mac", of |-> mac, format |-> format]

\* Mutant of Bootfile: an HTTP client gets its binary before its user class
\* is looked at.
BootfileHTTPFirst(c, i, customUC, script) ==
  IF i.clientType = "HTTPClient" /\ c.httpServer # Nil
  THEN [scheme |-> "http", host |-> c.httpServer, dir |-> macAddrFormat(i.mac, i.format),
        name |-> i.binary, trace |-> i.trace]
  ELSE IF i.userClass = "Tinkerbell" THEN script
  ELSE [File(i.binary) EXCEPT !.trace = i.trace]

\* The boot file, in the order of the switch: our own iPXE gets the script.
Bootfile(c, i, customUC, script) ==
  LET from(scheme, host) ==
        [scheme |-> scheme, host |-> host, dir |-> macAddrFormat(i.mac, i.format),
         name |-> i.binary, trace |-> i.trace]
      none == File("no-ipxe-script-defined")
  IN CASE \/ i.userClass = "Tinkerbell"
          \/ customUC # Nil /\ i.userClass = customUC ->
            IF script = Nil THEN none ELSE script
       [] OTHER ->
            CASE i.clientType = "HTTPClient" ->
                   IF c.httpServer = Nil THEN none
                   ELSE from("http", c.httpServer)
              [] i.clientType # "HTTPClient" /\ i.userClass = "iPXE" ->
                   from("tftp", c.tftpServer)
              [] OTHER ->
                   IF i.binary = Nil THEN none
                   ELSE [File(i.binary) EXCEPT !.trace = i.trace]

NextServer(c, i) ==
  LET first == IF i.clientType = "HTTPClient"
               THEN IF IsIP(c.httpServer) THEN c.httpServer ELSE Nil
               ELSE c.tftpServer
  IN IF first \in {Nil, Unspecified} /\ c.ipForPacket \notin {Nil, Unspecified}
     THEN c.ipForPacket ELSE first

\* Option 43: boot server discovery is bypassed; a Raspberry Pi gets the two
\* sub-options its boot loader looks for.
Opt43(mac, more) ==
  {<<6, 8>>} \cup more
  \cup (IF isRaspberryPI(mac) THEN {<<9, "Raspberry Pi Boot">>, <<10, "PXE">>} ELSE {})

\* A reply goes to the relay agent when the request came through one, and to
\* the peer, which is the broadcast address for a client without an address.
replyDestination(pkt) ==
  CASE pkt.giaddr \notin {Nil, Unspecified} -> pkt.giaddr
    [] OTHER -> IF pkt.source \in {Nil, Unspecified} THEN "broadcast" ELSE pkt.source

\* Mutant of ipxeScript: the path of the script is lost with the MAC.
ScriptWithoutName(c, pkt) ==
  IF c.injectMac THEN [c.scriptURL EXCEPT !.dir = MacDir(pkt.mac), !.name = Nil]
  ELSE c.scriptURL

\* dhcpHandler's script URL, with the client's MAC in its path if configured.
ipxeScript(c, pkt) ==
  IF c.injectMac
  THEN [c.scriptURL EXCEPT !.dir = MacDir(pkt.mac)]
  ELSE c.scriptURL

ReplyType(pkt) ==
  CASE pkt.type = "discover" -> "offer"
    [] pkt.type = "request" -> "ack"
    [] OTHER -> Nil

-----------------------------------------------------------------------------
(* handler/reservation: the reply with an address.                         *)

\* The options of the reservation, those with a value only.
setDHCPOpts(c, d) ==
  LET all == [lease |-> d.lease, dns |-> d.dns, search |-> d.search,
              ntp |-> d.ntp, broadcast |-> d.broadcast, domain |-> d.domain,
              hostname |-> d.hostname, netmask |-> d.netmask,
              gateway |-> d.gateway, syslog |-> c.syslogIP,
              routes |-> d.routes, tftp |-> d.tftp, bootfile |-> d.bootfile]
      list == {"dns", "search", "ntp", "routes"}
      absent(o) == IF o \in list THEN all[o] = <<>> ELSE all[o] = Nil
  IN [o \in {o \in DOMAIN all : ~absent(o)} |-> all[o]]

\* Smee's tracing gives the binary's name a traceparent in this handler.
bootfileAndNextServer(c, i, script) ==
  LET traced == [i EXCEPT !.trace = c.tracing]
  IN [file |-> Bootfile(c, traced, c.userClass, script),
      siaddr |-> NextServer(c, traced)]

\* Mutant of setNetworkBootOpts: allowPXE is left to the script handler.
BootOptsForAnyone(c, pkt, n) ==
  LET i == NewInfo(c, pkt, n.binary)
      script == IF n.scriptURL # Nil THEN n.scriptURL ELSE ipxeScript(c, pkt)
      b == bootfileAndNextServer(c, i, script)
  IN [file |-> b.file, siaddr |-> b.siaddr, opt60 |-> Nil, opt43 |-> {}]

\* The boot file and next server of a netboot client: "netboot-not-allowed"
\* unless the object allows it and a binary is known for the client.
setNetworkBootOpts(c, pkt, n) ==
  LET i == NewInfo(c, pkt, n.binary)
      script == IF n.scriptURL # Nil THEN n.scriptURL ELSE ipxeScript(c, pkt)
      opt60 == IF pkt.opt60 = "HTTPClient" THEN "HTTPClient" ELSE Nil
      b == bootfileAndNextServer(c, i, script)
  IN IF n.allow /\ i.binary # Nil
     THEN [file |-> b.file, siaddr |-> b.siaddr, opt60 |-> opt60,
           opt43 |-> Opt43(pkt.mac, {<<69, "traceparent">>})]
     ELSE [file |-> File("netboot-not-allowed"), siaddr |-> Unspecified,
           opt60 |-> opt60, opt43 |-> {}]

\* A boot file or TFTP server configured in the object is left as it is.
updateMsg(c, pkt, hw, type) ==
  LET d == hw.dhcp
      own == [file   |-> IF d.bootfile = Nil THEN Nil ELSE d.bootfile,
              siaddr |-> c.ipForPacket, opt60 |-> Nil, opt43 |-> {}]
      boot == IF /\ c.netbootOptions /\ IsNetbootClient(pkt)
                 /\ d.tftp = Nil /\ d.bootfile = Nil
              THEN setNetworkBootOpts(c, pkt, hw.netboot) ELSE own
  IN [file |-> boot.file, siaddr |-> boot.siaddr, opt60 |-> boot.opt60,
      opt43 |-> boot.opt43, type |-> type, yiaddr |-> d.ip,
      opt54 |-> c.ipForPacket, options |-> setDHCPOpts(c, d)]

reservationReply(c, objects, pkt) ==
  LET hw == GetByMac(objects, pkt.mac)
  IN IF ReplyType(pkt) = Nil \/ hw = Nil \/ hw.disabled THEN {}
     ELSE {updateMsg(c, pkt, hw, ReplyType(pkt))}

-----------------------------------------------------------------------------
(* handler/proxy: the reply without an address.  auto is AutoProxyEnabled: *)
(* a client whose object is missing or broken is served with the defaults. *)

proxyReply(c, objects, pkt, auto) ==
  LET hw == GetByMac(objects, pkt.mac)
      i == NewInfo(c, pkt, Nil)
      own == IF hw # Nil /\ hw.netboot.binary # Nil THEN hw.netboot.binary ELSE i.binary
      next == NextServer(c, i)
  IN IF \/ pkt.op # "BootRequest" \/ ReplyType(pkt) = Nil
        \/ ~c.netbootOptions \/ ~IsNetbootClient(pkt) \/ i.binary = Nil
        \/ hw = Nil /\ ~auto
     THEN {}
     ELSE {[type |-> ReplyType(pkt), yiaddr |-> Nil, opt54 |-> next,
            siaddr |-> next, opt60 |-> i.clientType, opt43 |-> Opt43(pkt.mac, {}),
            options |-> <<>>,
            file |-> IF hw # Nil /\ ~hw.netboot.allow
                     THEN [File("netboot-not-allowed")
                             EXCEPT !.dir = MacDir(pkt.mac)]
                     ELSE Bootfile(c, [i EXCEPT !.binary = own], Nil,
                                   ipxeScript(c, pkt))]}

\* The handler that dhcpHandler makes for the configured mode: its reply, or none.
Handle(c, objects, pkt) ==
  CASE c.mode = "reservation" -> reservationReply(c, objects, pkt)
    [] c.mode = "proxy" -> proxyReply(c, objects, pkt, FALSE)
    [] c.mode = "auto-proxy" -> proxyReply(c, objects, pkt, TRUE)
=============================================================================
