--------------------------- MODULE MCNetworkBoot ---------------------------
(***************************************************************************)
(* A PC and a Raspberry Pi, the kinds of firmware Smee tells apart, its    *)
(* three DHCP modes, and Hardware objects that differ in what the handlers *)
(* look at.                                                                *)
(***************************************************************************)
EXTENDS NetworkBoot

URL(host, name) == [File(name) EXCEPT !.scheme = "http", !.host = host]

Dhcp(m, ip) ==
  [mac |-> m, ip |-> [address |-> ip, netmask |-> "255.255.255.0", gateway |-> Nil],
   dns |-> <<ip, "bad">>, ntp |-> <<>>, hostname |-> Nil, domain |-> "example",
   lease |-> -1, tftp |-> Nil, bootfile |-> Nil, arch |-> Nil, vlan |-> Nil,
   routes |-> <<>>]
Netboot(allow, ipxe) ==
  [allowPXE |-> allow, ipxe |-> ipxe, osie |-> Nil, pxelinux |-> Nil, rpi |-> Nil]
IPXE(url, text, binary) == [url |-> url, contents |-> text, binary |-> binary]
Interface(d, n) == [disableDHCP |-> FALSE, dhcp |-> d, netboot |-> n, iso |-> Nil]
Object(id, i) == [agentID |-> id, facility |-> Nil, interfaces |-> <<i>>]

PC(d, n) == {Object(Nil, Interface(d, n))}
D == Dhcp("pc", "10.0.0.1")

MCHardwareOf(m) ==
  IF m = "pc"
  THEN {{},
        PC(D, Nil),
        {Object(Nil, [Interface(D, Netboot(TRUE, Nil)) EXCEPT !.disableDHCP = TRUE])},
        {Object("agent1", Interface(D, Netboot(TRUE, Nil)))},
        {Object("agent1", Interface(D, Netboot(FALSE, IPXE(URL("other", "x.ipxe"), Nil, Nil))))},
        PC(D, Netboot(TRUE, IPXE([URL("other", "x.ipxe") EXCEPT !.scheme = "ftp"], "text", Nil))),
        PC([D EXCEPT !.bootfile = File("pxelinux.0")], Netboot(TRUE, IPXE(Nil, Nil, "none.efi"))),
        PC([D EXCEPT !.bootfile = URL("smee", "auto.ipxe")], Netboot(FALSE, Nil)),
        PC(D, Netboot(TRUE, Nil)) \cup {Object("twin", Interface(D, Netboot(TRUE, Nil)))}}
  ELSE {{Object(Nil, Interface(Dhcp("pi", "10.0.0.2"), Netboot(TRUE, Nil)))}}

ROM(opt60, opt77, opt93) ==
  [opt60 |-> opt60, opt77 |-> opt77, opt93 |-> opt93, opt94 |-> TRUE,
   opt97 |-> "guid", giaddr |-> Nil]

MCFirmware ==
  {ROM("PXEClient", Nil, <<"x86pc">>),
   [ROM("HTTPClient", Nil, <<"other", "efi_x86_64_http">>) EXCEPT !.giaddr = "10.0.0.250"],
   [ROM("PXEClient", "iPXE", <<"efi_x86_64">>) EXCEPT !.opt97 = Nil],
   ROM("PXEClient", Nil, <<"uboot_arm64">>),
   ROM(Nil, Nil, <<>>)}

Config(mode, inject) ==
  [mode |-> mode, macFormat |-> IF inject THEN "colon" ELSE "empty",
   archMapping |-> [a \in {} |-> Nil],
   httpServer |-> "smee", tftpServer |-> "10.0.0.254", ipForPacket |-> "10.0.0.254",
   syslogIP |-> "10.0.0.254", userClass |-> Nil, tracing |-> inject,
   scriptURL |-> URL("smee", "auto.ipxe"), injectMac |-> inject,
   netbootOptions |-> TRUE, patch |-> "fits",
   assets |-> {<<Nil, "pxelinux.0">>}, pxeHTTP |-> TRUE, binaryHTTP |-> TRUE,
   scriptHTTP |-> TRUE, osieURL |-> "osie", kernelName |-> Nil, initrdName |-> Nil,
   extraParams |-> Nil, iso |-> TRUE, sourceISO |-> URL("iso", "hook.iso"),
   staticIPAM |-> TRUE]

MCConfigs ==
  {Config("reservation", TRUE), Config("proxy", TRUE), Config("auto-proxy", FALSE)}

\* The addresses of these objects identify the machines.
ASSUME AddressesAssumption == AddressesTell
=============================================================================
