----------------------------- MODULE SmeeFiles -----------------------------
(***************************************************************************)
(* What Smee serves to a booting machine, as functions of the request, the *)
(* configuration and the Hardware objects: the TFTP and HTTP routes        *)
(* (smee/internal/ipxe/binary), the iPXE script (smee/internal/ipxe/       *)
(* script) and the decision about an ISO (smee/internal/iso).  A request   *)
(* is a file as in SmeeDhcp, with the address it comes from.  A route      *)
(* answers Nil when it leaves the request to the next one.                 *)
(***************************************************************************)
EXTENDS SmeeDhcp

CONSTANT WithMagic      \* embedded binaries that contain the magic string

Files == {"undionly.kpxe", "ipxe.efi", "snp-arm64.efi", "snp-x86_64.efi",
          "ipxe.iso", "ipxe-efi.img"}

\* A MAC path element parses unless it is written without delimiters.
ParsesAsMAC(dir) == dir # Nil /\ dir.kind = "mac" /\ dir.format # "none"

-----------------------------------------------------------------------------
(* internal/ipxe/binary                                                    *)

\* The embedded script is replaced in a copy; a patch longer than the magic
\* string ("long") is an error, and so is the whole request.
Patch(c, name) ==
  CASE c.patch = Nil \/ name \notin WithMagic -> [ok |-> TRUE, body |-> <<name, "plain">>]
    [] OTHER -> IF c.patch = "long" THEN [ok |-> FALSE, body |-> Nil]
                ELSE [ok |-> TRUE, body |-> <<name, "patched">>]

EmbeddedIPXERoute(c, req) == IF req.name \in Files THEN Patch(c, req.name) ELSE Nil

PXELinuxMACRoute(c, objects, req) ==
  LET hw == GetByMac(objects, req.dir.of)
  IN IF \/ req.dir = Nil \/ req.dir.kind # "pxelinux"
        \/ hw = Nil \/ hw.netboot.pxelinux = Nil
     THEN Nil ELSE [ok |-> TRUE, body |-> <<"pxelinux", hw.netboot.pxelinux>>]

openAsset(c, dir, name) ==
  IF c.assets # Nil /\ <<dir, name>> \in c.assets
  THEN [ok |-> TRUE, body |-> <<"asset", name>>] ELSE Nil

\* config.txt and cmdline.txt come from the object, every other file from
\* the firmware directory that replaces the serial number.
RPiNetbootRoute(c, objects, req) ==
  LET hw == GetByIP(objects, req.source)
      rpi == hw.netboot.rpi
      text(t) == IF t = Nil THEN Nil ELSE [ok |-> TRUE, body |-> <<"text", t>>]
  IN IF \/ c.assets = Nil \/ hw = Nil \/ rpi = Nil
        \/ rpi.serial = Nil \/ rpi.firmware = Nil
        \/ req.dir = Nil \/ req.dir.kind # "path" \/ req.dir.of # rpi.serial
     THEN Nil
     ELSE CASE req.name = "config.txt" -> text(rpi.config)
            [] req.name = "cmdline.txt" -> text(hw.netboot.osie.params)
            [] OTHER -> openAsset(c, [req.dir EXCEPT !.of = rpi.firmware], req.name)

DiskAssetRoute(c, req) == openAsset(c, req.dir, req.name)

\* Router.Handle: the first route that takes the request answers it.
Router(answers) ==
  LET k == FirstOf({i \in DOMAIN answers : answers[i] # Nil})
  IN IF k = 0 THEN Nil ELSE answers[k]

\* The result of a routed request: 404, 500 or the file.
Status(a) == IF a = Nil THEN 404 ELSE IF a.ok THEN 200 ELSE 500
Served(a) == IF a = Nil THEN Nil ELSE a.body

\* TFTP HandleRead: the traceparent is stripped, then the four routes.
HandleRead(c, objects, req) ==
  Router(<<EmbeddedIPXERoute(c, req), PXELinuxMACRoute(c, objects, req),
           RPiNetbootRoute(c, objects, req), DiskAssetRoute(c, req)>>)

\* PXE over HTTP: the same routes without the embedded and the RPi one.
PXEHTTPHandler(c, objects, req) ==
  IF ~c.pxeHTTP THEN Nil
  ELSE Router(<<PXELinuxMACRoute(c, objects, req), DiskAssetRoute(c, req)>>)

\* The iPXE binary server over HTTP: embedded files only.
BinaryHandler(c, req) == IF ~c.binaryHTTP THEN Nil ELSE EmbeddedIPXERoute(c, req)

-----------------------------------------------------------------------------
(* internal/ipxe/script                                                    *)

\* Mutant of defaultScript: the worker is always the MAC.
ScriptOfMAC(c, hw) ==
  [kind |-> "hook", worker |-> hw.dhcp.mac, base |-> c.osieURL, kernel |-> Nil,
   initrd |-> Nil, params |-> <<c.extraParams, Nil>>, facility |-> Nil, vlan |-> Nil]

\* The Hook script: the identity of the agent and what the script loads.
defaultScript(c, hw) ==
  LET d == hw.dhcp
      o == hw.netboot.osie
      arch == IF d.arch = Nil THEN "x86_64" ELSE d.arch
      orElse(a, b) == IF a # Nil THEN a ELSE b
      named(name) == IF name = Nil THEN Nil ELSE <<name, arch>>
  IN [kind   |-> "hook",
      worker |-> orElse(hw.agentID, d.mac),
      base   |-> orElse(o.base, c.osieURL),
      kernel |-> orElse(o.kernel, named(c.kernelName)),
      initrd |-> orElse(o.initrd, named(c.initrdName)),
      params |-> <<c.extraParams, o.params>>,
      facility |-> hw.netboot.facility,
      vlan   |-> d.vlan]

\* Served in auto-proxy mode to a machine without usable Hardware; the
\* worker is iPXE's variable mac, which the running iPXE fills in.
staticScript(c) ==
  [kind |-> "static", worker |-> "mac", base |-> c.osieURL,
   kernel |-> c.kernelName, initrd |-> c.initrdName,
   params |-> <<c.extraParams, Nil>>, facility |-> Nil, vlan |-> Nil]

\* A chain to the object's URL comes before the object's own script text.
customScript(hw) ==
  LET n == hw.netboot
  IN IF n.scriptURL # Nil
     THEN IF n.scriptURL.scheme \in {"http", "https"}
          THEN [kind |-> "chain", url |-> n.scriptURL] ELSE Nil
     ELSE [kind |-> "custom", text |-> n.script]

serveBootScript(c, hw) ==
  IF hw.netboot.scriptURL # Nil \/ hw.netboot.script # Nil
  THEN IF customScript(hw) = Nil THEN [status |-> 500, script |-> Nil]
       ELSE [status |-> 200, script |-> customScript(hw)]
  ELSE [status |-> 200, script |-> defaultScript(c, hw)]

\* The MAC in the path decides, and only without one the source address.
ScriptHandler(c, objects, req) ==
  LET hw == IF ParsesAsMAC(req.dir) THEN GetByMac(objects, req.dir.of)
            ELSE GetByIP(objects, req.source)
  IN IF ~c.scriptHTTP \/ req.name # "auto.ipxe"
     THEN [status |-> 404, script |-> Nil]
     ELSE IF hw = Nil /\ c.mode = "auto-proxy"
          THEN [status |-> 200, script |-> staticScript(c)]
          ELSE IF hw = Nil \/ ~hw.netboot.allow
               THEN [status |-> 404, script |-> Nil]
               ELSE serveBootScript(c, hw)

-----------------------------------------------------------------------------
(* internal/iso                                                            *)

\* The object's image before the configured one; http and https only.
targetURL(c, hw) ==
  LET u == IF hw.iso # Nil THEN hw.iso ELSE c.sourceISO
  IN IF u = Nil \/ u.scheme \notin {"http", "https"} THEN Nil ELSE u

parseIPAM(d) ==
  <<d.mac, d.vlan, d.ip, d.netmask, d.gateway, d.hostname, d.dns, d.search, d.ntp>>

\* The kernel parameters laid over the magic string.
constructPatch(c, mac, hw) ==
  [worker   |-> mac,
   facility |-> hw.netboot.facility,
   vlan     |-> hw.dhcp.vlan,
   extra    |-> c.extraParams,
   ipam     |-> IF c.staticIPAM THEN parseIPAM(hw.dhcp) ELSE Nil]

\* What RoundTrip decides about the first request, before the image is asked
\* for; objects that match twice or do not convert are an internal error.
ISOHandler(c, objects, req) ==
  LET hw == GetByMac(objects, req.dir.of)
      present == \E h \in objects : WithMac(h, req.dir.of) # {}
      refuse(s) == [status |-> s, patch |-> Nil, url |-> Nil]
  IN CASE ~c.iso \/ req.name # "hook.iso" -> refuse(404)
       [] OTHER ->
          IF ~ParsesAsMAC(req.dir) THEN refuse(400)
          ELSE IF hw = Nil THEN refuse(IF present THEN 500 ELSE 404)
          ELSE IF targetURL(c, hw) = Nil THEN refuse(400)
          ELSE [status |-> 200, patch |-> constructPatch(c, req.dir.of, hw),
                url |-> targetURL(c, hw)]
=============================================================================
