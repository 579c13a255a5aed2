-------------------------- MODULE NetworkBootProofs --------------------------
(***************************************************************************)
(* Proofs about NetworkBoot: what a machine is told, and so what it boots, *)
(* is bound to the transaction and the program that asked, however packets *)
(* are lost, delayed and answered from an object that changed meanwhile.   *)
(***************************************************************************)
EXTENDS NetworkBoot, TLAPS, FiniteSetTheorems, WellFoundedInduction

\* The machine waits for an answer to the transaction xid[m].
Asking(m) == stage[m] \in {"discover", "request"}

\* A machine that is on knows what the objects say of it.
SeenOK(m) == stage[m] # "off" => View(m) \in seen[m]

\* A request of the running transaction is what the running program sends.
RequestOK(p) ==
  p.to = "server" /\ p.xid = xid[p.mac] /\ Asking(p.mac) =>
    p.type \in {"discover", "request"} /\ p = Request(p.mac, p.type, p.xid)

\* Smee's script, as it is named to machine m.
ScriptFor(m) ==
  IF conf.injectMac THEN [conf.scriptURL EXCEPT !.dir = MacDir(m)] ELSE conf.scriptURL

\* What our iPXE may be told: a script, or that there is none.
ToldIPXE(m, f) ==
  \/ f = ScriptFor(m) \/ f \in OwnScripts(m)
  \/ f = File("no-ipxe-script-defined")

\* What a machine may be told to load.
Told(m, f) ==
  \/ f = Nil \/ OwnBootFile(m)
  \/ f.name = "netboot-not-allowed" /\ f.host = Nil
  \/ /\ \E v \in seen[m] : v = Nil \/ v.netboot.allow
     /\ program[m] = "Tinkerbell" => ToldIPXE(m, f)

\* A reply of the running transaction tells what a machine may be told.
ReplyOK(p) ==
  p.to # "server" /\ p.xid = xid[p.mac] /\ Asking(p.mac) => Told(p.mac, p.file)

\* What a machine loads is what it was told, and what it was told let it in.
FileOK(m) ==
  /\ stage[m] = "fetch" => file[m] # Nil /\ Told(m, file[m])
  /\ stage[m] \in {"load", "osie", "custom"} =>
       /\ OwnBootFile(m) \/ \E v \in seen[m] : v = Nil \/ v.netboot.allow
       /\ OwnBootFile(m) \/ (program[m] = "Tinkerbell" => ToldIPXE(m, file[m]))
  /\ stage[m] \in {"load", "osie"} => file[m].name = "auto.ipxe"

\* The iPXE that asks is the one the machine loaded.
ChainOK(m) ==
  /\ stage[m] = "off" => chain[m] = 0
  /\ chain[m] > 0 => program[m] = "Tinkerbell"
  /\ chain[m] > 1 => OwnBootFile(m) \/ BinaryAsScript(m)

\* The script and the worker id were made of an object seen since power-on.
WorkerOf(m, v) == IF v = Nil THEN m ELSE IF v.agentID # Nil THEN v.agentID ELSE m
\* The worker id a script passes to the kernel of machine m.
WorkerIn(m, s) == IF s.kind = "static" THEN m ELSE s.worker

ScriptOK(m) ==
  /\ stage[m] = "load" /\ Identifies(m, file[m]) =>
       \E v \in seen[m] : WorkerIn(m, script[m]) = WorkerOf(m, v)
  /\ stage[m] = "osie" /\ Identifies(m, file[m]) =>
       \E v \in seen[m] : worker[m] = WorkerOf(m, v)
  /\ stage[m] = "isoOsie" => worker[m] = m /\ \E v \in seen[m] : v # Nil

\* Nothing was lost and nothing changed for a machine that can boot.
Clear(m) == stage[m] # "off" /\ faults = 0 /\ seen[m] = {View(m)} /\ Bootable(m)

\* A file that leads such a machine on.
LeadsOn(m, f) == f # Nil /\ (f = ScriptFor(m) \/ (f.name \in Files /\ ~Foreign(f)))

\* Such a machine is on its way.
WayOK(m) ==
  Clear(m) =>
    /\ stage[m] \notin {"disk", "other", "custom"}
    /\ Asking(m) => \E p \in packets : p.mac = m /\ p.xid = xid[m]
    /\ stage[m] = "fetch" => LeadsOn(m, file[m])
    /\ \A p \in packets : p.to # "server" /\ p.mac = m /\ p.xid = xid[m] /\ Asking(m) =>
         LeadsOn(m, p.file)

\* What holds of every machine and of the packets from and to it.
MachineOK(m) ==
  /\ SeenOK(m) /\ FileOK(m) /\ ChainOK(m) /\ ScriptOK(m) /\ WayOK(m)
  /\ \A p \in packets : p.mac = m => RequestOK(p) /\ ReplyOK(p)

\* The inductive invariant.
BootInv == BootTypeOK /\ \A m \in Machine : MachineOK(m)

-----------------------------------------------------------------------------
(* What the DHCP handlers answer                                           *)

\* The boot file of our own iPXE is the script.
LEMMA BootfileOfIPXE ==
  ASSUME NEW c, NEW i, NEW customUC, NEW s, i.userClass = "Tinkerbell"
  PROVE  Bootfile(c, i, customUC, s) \in {s, File("no-ipxe-script-defined")}
  BY DEF Bootfile

\* The boot file of the reservation handler's reply.
LEMMA BootOptsFile ==
  ASSUME NEW c, NEW pkt, NEW n
  PROVE  LET i == [NewInfo(c, pkt, n.binary) EXCEPT !.trace = c.tracing]
             s == IF n.scriptURL # Nil THEN n.scriptURL ELSE ipxeScript(c, pkt)
         IN setNetworkBootOpts(c, pkt, n).file =
              IF n.allow /\ NewInfo(c, pkt, n.binary).binary # Nil
              THEN Bootfile(c, i, c.userClass, s) ELSE File("netboot-not-allowed")
  BY DEF setNetworkBootOpts, bootfileAndNextServer

\* The file in a reply of the reservation handler: the object's own, or ours.
LEMMA ReservationFile ==
  ASSUME NEW c, NEW objs, NEW pkt, NEW r \in reservationReply(c, objs, pkt)
  PROVE  LET hw == GetByMac(objs, pkt.mac)
         IN /\ hw # Nil
            /\ \/ r.file = hw.dhcp.bootfile
               \/ r.file = setNetworkBootOpts(c, pkt, hw.netboot).file
  <1> DEFINE hw == GetByMac(objs, pkt.mac)
  <1>1. hw # Nil /\ r = updateMsg(c, pkt, hw, ReplyType(pkt))
    BY DEF reservationReply
  <1> HIDE DEF hw
  <1>2. \/ r.file = hw.dhcp.bootfile
        \/ r.file = setNetworkBootOpts(c, pkt, hw.netboot).file
    BY <1>1 DEF updateMsg
  <1> QED BY <1>1, <1>2 DEF hw

\* What the fields of a request are.
LEMMA RequestFields ==
  ASSUME NEW m, NEW type, NEW id
  PROVE  LET p == Request(m, type, id)
         IN /\ p.mac = m /\ p.xid = id /\ p.type = type /\ p.to = "server"
            /\ p.op = "BootRequest" /\ p.opt60 = rom[m].opt60 /\ p.giaddr = rom[m].giaddr
            /\ p.opt93 = rom[m].opt93 /\ p.opt94 = rom[m].opt94 /\ p.opt97 = rom[m].opt97
            /\ p.source = Unspecified
            /\ program[m] = "Tinkerbell" => p.opt77 = "Tinkerbell"
            /\ ipxeScript(conf, p) = ScriptFor(m)
  BY DEF Request, ipxeScript, ScriptFor

\* A file of a reply that no object of its own names.
LEMMA NotAllowed ==
  ASSUME NEW m, NEW d
  PROVE  /\ Told(m, File("netboot-not-allowed"))
         /\ Told(m, [File("netboot-not-allowed") EXCEPT !.dir = d])
  BY DEF Told, File

\* Whatever handler answers, a machine is told what it may be told.
LEMMA HandleTold ==
  ASSUME BootTypeOK, NEW m \in Machine, View(m) \in seen[m], NEW type, NEW id,
         NEW r \in Handle(conf, AllObjects, Request(m, type, id))
  PROVE  Told(m, r.file)
  <1> DEFINE p == Request(m, type, id)
             v == View(m)
  <1>1. p.mac = m /\ v = GetByMac(AllObjects, p.mac)
    BY RequestFields DEF View
  <1>2. ipxeScript(conf, p) = ScriptFor(m) /\ (program[m] = "Tinkerbell" => p.opt77 = "Tinkerbell")
    BY RequestFields
  <1>3. CASE r \in reservationReply(conf, AllObjects, p)
    <2>1. /\ v # Nil
          /\ r.file = v.dhcp.bootfile \/ r.file = setNetworkBootOpts(conf, p, v.netboot).file
      BY <1>1, <1>3, ReservationFile
    <2>2. CASE r.file = v.dhcp.bootfile
      BY <2>1, <2>2 DEF Told, OwnBootFile
    <2>3. CASE r.file = setNetworkBootOpts(conf, p, v.netboot).file
      <3> DEFINE n == v.netboot
                 i == [NewInfo(conf, p, n.binary) EXCEPT !.trace = conf.tracing]
                 s == IF n.scriptURL # Nil THEN n.scriptURL ELSE ipxeScript(conf, p)
      <3>1. \/ n.allow /\ r.file = Bootfile(conf, i, conf.userClass, s)
            \/ r.file = File("netboot-not-allowed")
        BY <2>3, BootOptsFile
      <3>2. s = ScriptFor(m) \/ s \in OwnScripts(m)
        BY <1>2, <2>1 DEF OwnScripts
      <3>3. i.userClass = p.opt77
        BY DEF NewInfo
      <3> HIDE DEF i, s
      <3>4. program[m] = "Tinkerbell" =>
              Bootfile(conf, i, conf.userClass, s) \in {s, File("no-ipxe-script-defined")}
        BY <1>2, <3>3, BootfileOfIPXE
      <3> QED BY <2>1, <3>1, <3>2, <3>4, NotAllowed DEF Told, ToldIPXE
    <2> QED BY <2>1, <2>2, <2>3
  <1>4. ASSUME NEW auto, r \in proxyReply(conf, AllObjects, p, auto)
        PROVE  Told(m, r.file)
    <2> DEFINE i == NewInfo(conf, p, Nil)
               own == IF v # Nil /\ v.netboot.binary # Nil THEN v.netboot.binary ELSE i.binary
               j == [i EXCEPT !.binary = own]
    <2>0. r.file = IF v # Nil /\ ~v.netboot.allow
                   THEN [File("netboot-not-allowed") EXCEPT !.dir = MacDir(p.mac)]
                   ELSE Bootfile(conf, j, Nil, ScriptFor(m))
      <3> HIDE DEF p, v
      <3> QED BY <1>1, <1>2, <1>4 DEF proxyReply
    <2>1. \/ r.file = [File("netboot-not-allowed") EXCEPT !.dir = MacDir(p.mac)]
          \/ (v = Nil \/ v.netboot.allow) /\ r.file = Bootfile(conf, j, Nil, ScriptFor(m))
      <3> HIDE DEF p, v, j
      <3> QED BY <2>0
    <2>2. j.userClass = p.opt77
      BY DEF NewInfo
    <2> HIDE DEF j
    <2>3. program[m] = "Tinkerbell" =>
            Bootfile(conf, j, Nil, ScriptFor(m)) \in {ScriptFor(m), File("no-ipxe-script-defined")}
      BY <1>2, <2>2, BootfileOfIPXE
    <2>4. CASE r.file = [File("netboot-not-allowed") EXCEPT !.dir = MacDir(p.mac)]
      BY <2>4, NotAllowed
    <2>5. CASE (v = Nil \/ v.netboot.allow) /\ r.file = Bootfile(conf, j, Nil, ScriptFor(m))
      <3>1. \E w \in seen[m] : w = Nil \/ w.netboot.allow
        BY <2>5
      <3> HIDE DEF v, p
      <3>2. program[m] = "Tinkerbell" => ToldIPXE(m, r.file)
        BY <2>3, <2>5 DEF ToldIPXE
      <3> QED BY <3>1, <3>2 DEF Told
    <2> QED BY <2>1, <2>4, <2>5
  <1>5. conf.mode \in {"reservation", "proxy", "auto-proxy"}
    BY ShapeAssumption DEF BootTypeOK
  <1>6. \/ r \in reservationReply(conf, AllObjects, p)
        \/ \E auto \in BOOLEAN : r \in proxyReply(conf, AllObjects, p, auto)
    BY <1>5 DEF Handle
  <1> QED BY <1>3, <1>4, <1>6

\* Our iPXE binary or our script, named to a machine, leads it on.
LEMMA BootfileLeads ==
  ASSUME BootTypeOK, NEW m \in Machine, conf.httpServer # Nil,
         NEW i, i.mac = m, i.format = conf.macFormat, i.trace \in BOOLEAN,
         i.binary \in Files, i.binary # Nil, NEW customUC
  PROVE  LeadsOn(m, Bootfile(conf, i, customUC, ScriptFor(m)))
  <1> DEFINE s == ScriptFor(m)
             d == macAddrFormat(i.mac, i.format)
             b == Bootfile(conf, i, customUC, s)
             http == [scheme |-> "http", host |-> conf.httpServer, dir |-> d,
                      name |-> i.binary, trace |-> i.trace]
             tftp == [scheme |-> "tftp", host |-> conf.tftpServer, dir |-> d,
                      name |-> i.binary, trace |-> i.trace]
             plain == [File(i.binary) EXCEPT !.trace = i.trace]
  <1>1. conf \in Configs
    BY DEF BootTypeOK
  <1>2. s # Nil
    BY <1>1, FileAssumption DEF ScriptFor
  <1>3. d \in {Nil} \cup [kind : {"mac"}, of : Machine, format : {conf.macFormat}]
    BY DEF macAddrFormat
  <1>4. b = s \/ b = http \/ b = tftp \/ b = plain
    <2> HIDE DEF s, d
    <2>1. CASE i.userClass = "Tinkerbell" \/ (customUC # Nil /\ i.userClass = customUC)
      BY <1>2, <2>1 DEF Bootfile
    <2>2. CASE ~(i.userClass = "Tinkerbell" \/ (customUC # Nil /\ i.userClass = customUC))
      <3>1. CASE i.clientType = "HTTPClient"
        BY <2>2, <3>1 DEF Bootfile, d
      <3>2. CASE i.clientType # "HTTPClient" /\ i.userClass = "iPXE"
        BY <2>2, <3>2 DEF Bootfile, d
      <3>3. CASE i.clientType # "HTTPClient" /\ i.userClass # "iPXE"
        BY <2>2, <3>3 DEF Bootfile, d
      <3> QED BY <3>1, <3>2, <3>3
    <2> QED BY <2>1, <2>2
  <1> HIDE DEF b, s, d, http, tftp, plain
  <1>5. ASSUME b = s
        PROVE  LeadsOn(m, b)
    BY <1>2, <1>5 DEF LeadsOn, s
  <1>6. ASSUME NEW scheme \in {Nil, "http", "tftp"}, NEW host \in {Nil, conf.httpServer, conf.tftpServer},
               NEW dir \in {Nil} \cup [kind : {"mac"}, of : Machine, format : {conf.macFormat}],
               b = [scheme |-> scheme, host |-> host, dir |-> dir, name |-> i.binary, trace |-> i.trace]
        PROVE  LeadsOn(m, b)
    <2>1. b \in [scheme : {Nil, "http", "tftp"}, host : {Nil, conf.httpServer, conf.tftpServer},
                 dir : {Nil} \cup [kind : {"mac"}, of : Machine, format : {conf.macFormat}],
                 name : Files, trace : BOOLEAN]
      BY <1>6
    <2>2. b # Nil
      BY <1>1, <2>1, FileAssumption
    <2>3. b.name \in Files /\ b.host \in {Nil, conf.httpServer, conf.tftpServer}
      BY <1>6
    <2> QED BY <2>2, <2>3 DEF LeadsOn, Foreign
  <1>7. plain = [scheme |-> Nil, host |-> Nil, dir |-> Nil, name |-> i.binary, trace |-> i.trace]
    BY DEF File, plain
  <1>8. LeadsOn(m, b)
    <2>1. CASE b = http
      BY <1>3, <1>6, <2>1 DEF http
    <2>2. CASE b = tftp
      BY <1>3, <1>6, <2>2 DEF tftp
    <2>3. CASE b = plain
      BY <1>6, <1>7, <2>3
    <2> QED BY <1>4, <1>5, <2>1, <2>2, <2>3
  <1> QED BY <1>8 DEF b, s

\* A machine that can boot is answered, and led on.
LEMMA HandleLeads ==
  ASSUME BootTypeOK, NEW m \in Machine, Bootable(m), NEW type \in {"discover", "request"}, NEW id
  PROVE  LET answers == Handle(conf, AllObjects, Request(m, type, id))
         IN answers # {} /\ \A r \in answers : LeadsOn(m, r.file)
  <1> DEFINE p == Request(m, type, id)
             q == Request(m, "discover", 1)
             v == View(m)
             binary == IPXEBinaryFrom(conf.archMapping, Arch(q))
             own == IF v = Nil \/ v.netboot.binary = Nil THEN binary ELSE v.netboot.binary
  <1>1. /\ p.mac = m /\ p.type = type /\ p.op = "BootRequest" /\ ipxeScript(conf, p) = ScriptFor(m)
        /\ v = GetByMac(AllObjects, p.mac)
    BY RequestFields DEF View
  <1>2. /\ p.mac = q.mac /\ p.opt60 = q.opt60 /\ p.opt93 = q.opt93
        /\ p.opt94 = q.opt94 /\ p.opt97 = q.opt97
    BY RequestFields
  <1>3. /\ IsNetbootClient(q) /\ conf.httpServer # Nil /\ conf.netbootOptions
        /\ binary # Nil /\ own \in Files
        /\ v = Nil => conf.mode = "auto-proxy"
        /\ v # Nil => /\ v.netboot.allow /\ v.netboot.scriptURL = Nil
                      /\ conf.mode = "reservation" =>
                           ~v.disabled /\ v.dhcp.bootfile = Nil /\ v.dhcp.tftp = Nil
    BY DEF Bootable
  <1> HIDE DEF p, q, v
  <1>4. IsNetbootClient(p) /\ Arch(p) = Arch(q) /\ ReplyType(p) \in {"offer", "ack"}
    BY <1>1, <1>2, <1>3 DEF IsNetbootClient, Arch, ReplyType
  <1>5. /\ NewInfo(conf, p, Nil).binary = binary
        /\ v # Nil => NewInfo(conf, p, v.netboot.binary).binary = own
        /\ \A b : /\ NewInfo(conf, p, b).mac = m /\ NewInfo(conf, p, b).format = conf.macFormat
                  /\ NewInfo(conf, p, b).trace = FALSE
    BY <1>1, <1>4 DEF NewInfo
  <1>6. ReplyType(p) # Nil /\ own # Nil /\ conf.tracing \in BOOLEAN
    BY <1>3, <1>4, FileAssumption, ShapeAssumption DEF BootTypeOK
  <1>7. CASE conf.mode = "reservation"
    <2> DEFINE n == v.netboot
               i0 == NewInfo(conf, p, n.binary)
               i == [i0 EXCEPT !.trace = conf.tracing]
               r == updateMsg(conf, p, v, ReplyType(p))
    <2>1. v # Nil /\ n.allow /\ n.scriptURL = Nil
      BY <1>3, <1>7
    <2>2. Handle(conf, AllObjects, p) = {r}
      BY <1>1, <1>3, <1>6, <1>7, <2>1 DEF Handle, reservationReply
    <2>3. r.file = setNetworkBootOpts(conf, p, n).file
      BY <1>3, <1>4, <1>7, <2>1 DEF updateMsg
    <2>4. i0.binary = own /\ i0.mac = m /\ i0.format = conf.macFormat
      BY <1>5, <2>1
    <2>5. i.binary = own /\ i.mac = m /\ i.format = conf.macFormat /\ i.trace = conf.tracing
      BY <2>4 DEF NewInfo
    <2>6. r.file = Bootfile(conf, i, conf.userClass, ScriptFor(m))
      BY <1>1, <1>6, <2>1, <2>3, <2>4, BootOptsFile
    <2> HIDE DEF i, own, r
    <2>7. LeadsOn(m, r.file)
      BY <1>3, <1>6, <2>5, <2>6, BootfileLeads
    <2> QED BY <2>2, <2>7 DEF p
  <1>8. ASSUME NEW auto \in BOOLEAN, v = Nil => auto,
               Handle(conf, AllObjects, p) = proxyReply(conf, AllObjects, p, auto)
        PROVE  /\ Handle(conf, AllObjects, p) # {}
               /\ \A r \in Handle(conf, AllObjects, p) : LeadsOn(m, r.file)
    <2> DEFINE i0 == NewInfo(conf, p, Nil)
               o == IF v # Nil /\ v.netboot.binary # Nil THEN v.netboot.binary ELSE i0.binary
               i == [i0 EXCEPT !.binary = o]
    <2>1. o = own
      BY <1>5
    <2>2. i.binary = own /\ i.mac = m /\ i.format = conf.macFormat /\ i.trace = FALSE
      BY <1>5, <2>1 DEF NewInfo
    <2>3. i0.binary # Nil
      BY <1>3, <1>5
    <2>4. /\ Handle(conf, AllObjects, p) # {}
          /\ \A r \in Handle(conf, AllObjects, p) : r.file = Bootfile(conf, i, Nil, ScriptFor(m))
      <3>1. /\ p.op = "BootRequest" /\ ReplyType(p) # Nil /\ conf.netbootOptions
            /\ IsNetbootClient(p) /\ i0.binary # Nil /\ ~(v = Nil /\ ~auto)
            /\ ~(v # Nil /\ ~v.netboot.allow)
        BY <1>1, <1>3, <1>4, <1>6, <1>8, <2>3
      <3>2. v = GetByMac(AllObjects, p.mac) /\ ipxeScript(conf, p) = ScriptFor(m)
        BY <1>1
      <3> HIDE DEF binary, own
      <3>3. \A r \in proxyReply(conf, AllObjects, p, auto) :
              r.file = Bootfile(conf, i, Nil, ScriptFor(m))
        BY <3>1, <3>2 DEF proxyReply
      <3>4. proxyReply(conf, AllObjects, p, auto) # {}
        BY <3>1, <3>2 DEF proxyReply
      <3> QED BY <1>8, <3>3, <3>4
    <2> HIDE DEF i, own
    <2>5. LeadsOn(m, Bootfile(conf, i, Nil, ScriptFor(m)))
      BY <1>3, <1>6, <2>2, BootfileLeads
    <2> QED BY <2>4, <2>5
  <1>9. conf.mode \in {"reservation", "proxy", "auto-proxy"}
    BY ShapeAssumption DEF BootTypeOK
  <1>10. CASE conf.mode # "reservation"
    <2>1. Handle(conf, AllObjects, p) = proxyReply(conf, AllObjects, p, conf.mode = "auto-proxy")
      BY <1>9, <1>10 DEF Handle
    <2> QED BY <1>3, <1>8, <2>1 DEF p
  <1> QED BY <1>7, <1>10

-----------------------------------------------------------------------------
(* What the file servers answer                                            *)

\* The first of a set of indices is one of them.
LEMMA FirstIsIn ==
  ASSUME NEW T, T \subseteq Nat \ {0}, T # {}
  PROVE  /\ FirstOf(T) \in T /\ FirstOf(T) # 0 /\ \A x \in T : FirstOf(T) <= x
         /\ 1 \in T => FirstOf(T) = 1
  <1>1. PICK x \in T : \A y \in T : ~ (<<y, x>> \in OpToRel(<, Nat))
    BY NatLessThanWellFounded, WFMin
  <1>2. \A y \in T : ~ (y < x)
    BY <1>1 DEF OpToRel
  <1>3. \E z \in T : \A y \in T : z <= y
    BY <1>2
  <1>4. FirstOf(T) \in T /\ \A y \in T : FirstOf(T) <= y
    BY <1>3 DEF FirstOf, Min
  <1>5. FirstOf(T) \in Nat \ {0}
    BY <1>4
  <1>6. 1 \in T => FirstOf(T) <= 1
    BY <1>4
  <1>7. 1 \in T => FirstOf(T) = 1
    BY <1>5, <1>6
  <1> QED BY <1>4, <1>5, <1>7

\* A router gives one of the answers, the first when there is one.
LEMMA RouterAnswers ==
  ASSUME NEW n \in Nat, NEW a, DOMAIN a = 1..n
  PROVE  /\ Router(a) # Nil => \E k \in 1..n : Router(a) = a[k]
         /\ n >= 1 /\ a[1] # Nil => Router(a) = a[1]
  <1> DEFINE T == {i \in DOMAIN a : a[i] # Nil}
             k == FirstOf(T)
  <1>1. T \subseteq Nat \ {0} /\ T \subseteq 1..n
    OBVIOUS
  <1>2. Router(a) = IF k = 0 THEN Nil ELSE a[k]
    BY DEF Router
  <1>3. T = {} => k = 0
    BY DEF FirstOf
  <1>4. T # {} => k \in T /\ k # 0 /\ (1 \in T => k = 1)
    BY <1>1, FirstIsIn
  <1>5. n >= 1 /\ a[1] # Nil => 1 \in T
    OBVIOUS
  <1> HIDE DEF T, k
  <1> QED BY <1>1, <1>2, <1>3, <1>4, <1>5

\* The answer a is Nil or an embedded binary called name, or another file.
Answer(a, name) ==
  \/ a = Nil \/ ~a.ok \/ a.body[1] \notin Files
  \/ name \in Files

\* Only a request by its name gets an embedded binary.
LEMMA RoutesAnswer ==
  ASSUME NEW c, NEW objs, NEW req
  PROVE  /\ Answer(EmbeddedIPXERoute(c, req), req.name)
         /\ Answer(PXELinuxMACRoute(c, objs, req), req.name)
         /\ Answer(RPiNetbootRoute(c, objs, req), req.name)
         /\ Answer(DiskAssetRoute(c, req), req.name)
         /\ Answer(PXEHTTPHandler(c, objs, req), req.name)
         /\ Answer(BinaryHandler(c, req), req.name)
  <1>1. Answer(EmbeddedIPXERoute(c, req), req.name) /\ Answer(BinaryHandler(c, req), req.name)
    BY DEF Answer, EmbeddedIPXERoute, BinaryHandler
  <1>2. \A x : /\ <<"pxelinux", x>>[1] \notin Files /\ <<"asset", x>>[1] \notin Files
               /\ <<"text", x>>[1] \notin Files
    BY DEF Files
  <1>3. Answer(PXELinuxMACRoute(c, objs, req), req.name)
    BY <1>2 DEF Answer, PXELinuxMACRoute
  <1>4. \A dir, name : Answer(openAsset(c, dir, name), req.name)
    BY <1>2 DEF Answer, openAsset
  <1>5. Answer(DiskAssetRoute(c, req), req.name)
    BY <1>4 DEF DiskAssetRoute
  <1>6. Answer(RPiNetbootRoute(c, objs, req), req.name)
    <2> DEFINE a == RPiNetbootRoute(c, objs, req)
    <2>1. \/ a = Nil \/ \E t : a = [ok |-> TRUE, body |-> <<"text", t>>]
          \/ \E dir, name : a = openAsset(c, dir, name)
      BY DEF RPiNetbootRoute
    <2> HIDE DEF a
    <2>2. Answer(a, req.name)
      BY <1>2, <1>4, <2>1 DEF Answer
    <2> QED BY <2>2 DEF a
  <1>7. Answer(PXEHTTPHandler(c, objs, req), req.name)
    <2> DEFINE s == <<PXELinuxMACRoute(c, objs, req), DiskAssetRoute(c, req)>>
    <2>1. Router(s) # Nil => \E k \in 1..2 : Router(s) = s[k]
      <3>1. DOMAIN s = 1..2 /\ 2 \in Nat
        OBVIOUS
      <3> HIDE DEF s
      <3> QED BY <3>1, RouterAnswers
    <2>2. Answer(s[1], req.name) /\ Answer(s[2], req.name)
      BY <1>3, <1>5
    <2> HIDE DEF s
    <2>3. Answer(Router(s), req.name)
      BY <2>1, <2>2 DEF Answer
    <2> QED BY <2>3 DEF PXEHTTPHandler, Answer, s
  <1> QED BY <1>1, <1>3, <1>5, <1>6, <1>7

\* Routers of routes that serve a binary only by its name do so too.
LEMMA RouterOfTwo ==
  ASSUME NEW a1, NEW a2, NEW name, Answer(a1, name), Answer(a2, name)
  PROVE  Answer(Router(<<a1, a2>>), name)
  <1> DEFINE s == <<a1, a2>>
  <1>1. DOMAIN s = 1..2 /\ 2 \in Nat /\ \A k \in 1..2 : s[k] \in {a1, a2}
    OBVIOUS
  <1> HIDE DEF s
  <1>2. Router(s) # Nil => \E k \in 1..2 : Router(s) = s[k]
    BY <1>1, RouterAnswers
  <1>3. Router(s) \in {Nil, a1, a2}
    BY <1>1, <1>2
  <1>4. Answer(Router(s), name)
    BY <1>3 DEF Answer
  <1> QED BY <1>4 DEF s

\* The same for the four routes of TFTP.
LEMMA RouterOfFour ==
  ASSUME NEW a1, NEW a2, NEW a3, NEW a4, NEW name,
         Answer(a1, name), Answer(a2, name), Answer(a3, name), Answer(a4, name)
  PROVE  Answer(Router(<<a1, a2, a3, a4>>), name)
  <1> DEFINE s == <<a1, a2, a3, a4>>
  <1>1. DOMAIN s = 1..4 /\ 4 \in Nat /\ \A k \in 1..4 : s[k] \in {a1, a2, a3, a4}
    OBVIOUS
  <1> HIDE DEF s
  <1>2. Router(s) # Nil => \E k \in 1..4 : Router(s) = s[k]
    BY <1>1, RouterAnswers
  <1>3. Router(s) \in {Nil, a1, a2, a3, a4}
    BY <1>1, <1>2
  <1>4. Answer(Router(s), name)
    BY <1>3 DEF Answer
  <1> QED BY <1>4 DEF s

\* The iPXE binary a machine gets has the name the machine asked for.
LEMMA FetchedIsNamed ==
  ASSUME NEW m, Status(FetchedFile(m)) = 200, Served(FetchedFile(m))[1] \in Files
  PROVE  file[m].name \in Files
  <1> DEFINE r == Req(m)
             got == FetchedFile(m)
  <1>1. r.name = file[m].name
    BY DEF Req
  <1>2. got # Nil /\ got.ok /\ got.body[1] \in Files
    BY DEF Status, Served
  <1>3. Answer(HandleRead(conf, AllObjects, r), r.name)
    BY RoutesAnswer, RouterOfFour DEF HandleRead
  <1>4. Answer(Router(<<BinaryHandler(conf, r), PXEHTTPHandler(conf, AllObjects, r)>>), r.name)
    BY RoutesAnswer, RouterOfTwo
  <1>5. Answer(got, r.name)
    BY <1>3, <1>4 DEF FetchedFile
  <1> HIDE DEF got, r
  <1> QED BY <1>1, <1>2, <1>5 DEF Answer

\* A machine that can boot gets the binary it asks for.
LEMMA BinaryIsServed ==
  ASSUME NEW m, Bootable(m), file[m].name \in Files
  PROVE  Status(FetchedFile(m)) = 200 /\ Served(FetchedFile(m))[1] \in Files
  <1> DEFINE r == Req(m)
             e == EmbeddedIPXERoute(conf, r)
             a == FetchedFile(m)
  <1>1. r.name = file[m].name
    BY DEF Req
  <1>2. conf.patch # "long" /\ conf.binaryHTTP
    BY DEF Bootable
  <1>3. \E k \in {"plain", "patched"} : e = [ok |-> TRUE, body |-> <<file[m].name, k>>]
    <2>1. e = Patch(conf, file[m].name)
      BY <1>1 DEF EmbeddedIPXERoute
    <2>2. CASE conf.patch = Nil \/ file[m].name \notin WithMagic
      BY <2>1, <2>2 DEF Patch
    <2>3. CASE ~(conf.patch = Nil \/ file[m].name \notin WithMagic)
      BY <1>2, <2>1, <2>3 DEF Patch
    <2> QED BY <2>2, <2>3
  <1>4. e # Nil /\ e.ok /\ e.body[1] \in Files
    <2>1. PICK k \in {"plain", "patched"} : e = [ok |-> TRUE, body |-> <<file[m].name, k>>]
      BY <1>3
    <2> HIDE DEF e
    <2>2. e \in [ok : {TRUE}, body : Files \X {"plain", "patched"}]
      BY <2>1
    <2> QED BY <2>1, <2>2, FileAssumption
  <1>5. a = e
    <2>1. CASE r.scheme \in {Nil, "tftp"}
      <3> DEFINE s == <<EmbeddedIPXERoute(conf, r), PXELinuxMACRoute(conf, AllObjects, r),
                        RPiNetbootRoute(conf, AllObjects, r), DiskAssetRoute(conf, r)>>
      <3>1. a = Router(s)
        BY <2>1 DEF FetchedFile, HandleRead
      <3>2. DOMAIN s = 1..4 /\ 4 \in Nat /\ 4 >= 1 /\ s[1] = e
        OBVIOUS
      <3> HIDE DEF a, s, e
      <3> QED BY <1>4, <3>1, <3>2, RouterAnswers
    <2>2. CASE r.scheme \notin {Nil, "tftp"}
      <3> DEFINE s == <<BinaryHandler(conf, r), PXEHTTPHandler(conf, AllObjects, r)>>
      <3>1. a = Router(s)
        BY <2>2 DEF FetchedFile
      <3>2. DOMAIN s = 1..2 /\ 2 \in Nat /\ 2 >= 1 /\ s[1] = e
        BY <1>2 DEF BinaryHandler
      <3> HIDE DEF a, s, e
      <3> QED BY <1>4, <3>1, <3>2, RouterAnswers
    <2> QED BY <2>1, <2>2
  <1> HIDE DEF a, e
  <1>6. Status(a) = 200 /\ Served(a)[1] \in Files
    BY <1>4, <1>5 DEF Status, Served
  <1> QED BY <1>6 DEF a

-----------------------------------------------------------------------------
(* What the script handler answers                                         *)

\* The data found for a MAC are those of an interface with this MAC.
LEMMA ViewMac ==
  ASSUME BootTypeOK, NEW m \in Machine, View(m) # Nil
  PROVE  View(m).dhcp.mac = m
  <1> DEFINE found == {h \in AllObjects : WithMac(h, m) # {}}
             hw == FilterHardware(found)
             T == WithMac(hw, m)
             k == FirstOf(T)
             i == hw.interfaces[k]
             d == toDHCPData(i.dhcp)
  <1>1. View(m) = IF hw = Nil THEN Nil ELSE Convert(hw, k)
    BY DEF View, GetByMac, ConvertByMac
  <1>2. hw # Nil /\ View(m) = Convert(hw, k)
    BY <1>1
  <1>3. hw \in found
    <2>1. found # {} => (CHOOSE h \in found : TRUE) \in found
      OBVIOUS
    <2>2. Cardinality(found) = 1 => found # {}
      <3> HIDE DEF found
      <3> QED BY FS_EmptySet
    <2> HIDE DEF found
    <2> QED BY <1>2, <2>1, <2>2 DEF FilterHardware
  <1>4. hw \in AllObjects /\ T # {}
    BY <1>3
  <1>5. DOMAIN hw.interfaces \subseteq Nat \ {0}
    <2>1. PICK n \in Machine : hw \in objects[n]
      BY <1>4 DEF AllObjects
    <2>2. objects[n] \in HardwareOf(n)
      BY DEF BootTypeOK
    <2> HIDE DEF hw
    <2> QED BY <2>1, <2>2, ShapeAssumption
  <1>6. T \subseteq Nat \ {0}
    BY <1>5 DEF WithMac
  <1>7. k \in T /\ k # 0
    <2> HIDE DEF T
    <2> QED BY <1>4, <1>6, FirstIsIn
  <1>8. i.dhcp # Nil /\ i.dhcp.mac = m
    BY <1>7 DEF WithMac
  <1> HIDE DEF hw, k, found, T
  <1>9. View(m).dhcp = d /\ d # Nil
    BY <1>2, <1>7 DEF Convert
  <1>10. d.mac = i.dhcp.mac
    <2> HIDE DEF i
    <2> QED BY <1>9 DEF toDHCPData
  <1> QED BY <1>8, <1>9, <1>10

\* The data a script is made of, for the request of machine m.
Hardware(m) ==
  IF ParsesAsMAC(Req(m).dir) THEN GetByMac(AllObjects, Req(m).dir.of)
  ELSE GetByIP(AllObjects, Req(m).source)

\* A request that identifies the machine finds the machine's own data.
LEMMA HardwareIsOwn ==
  ASSUME BootTypeOK, NEW m \in Machine, Identifies(m, file[m])
  PROVE  Hardware(m) = View(m)
  <1>1. Req(m).dir = file[m].dir /\ Req(m).source = AddressOf(m)
    BY DEF Req
  <1>2. CASE ParsesAsMAC(file[m].dir)
    BY <1>1, <1>2 DEF Hardware, Identifies, View
  <1>3. CASE ~ParsesAsMAC(file[m].dir)
    <2>1. AddressesTell
      BY <1>3 DEF Identifies
    <2>2. objects \in [Machine -> UNION {HardwareOf(n) : n \in Machine}]
      BY DEF BootTypeOK
    <2>3. \A n \in Machine : objects[n] \in HardwareOf(n)
      BY DEF BootTypeOK
    <2>4. LET all == UNION {objects[n] : n \in Machine}
              v == GetByMac(all, m)
          IN GetByIP(all, IF v = Nil THEN Nil ELSE v.dhcp.ip) = v
      BY <2>1, <2>2, <2>3 DEF AddressesTell
    <2>5. GetByIP(AllObjects, AddressOf(m)) = View(m)
      BY <2>4 DEF AddressOf, View, AllObjects
    <2> QED BY <1>1, <1>3, <2>5 DEF Hardware
  <1> QED BY <1>2, <1>3

\* The script's worker id is the one its object tells.
LEMMA ScriptWorker ==
  ASSUME BootTypeOK, NEW m \in Machine, Identifies(m, file[m]),
         NEW a, a = ScriptHandler(conf, AllObjects, Req(m)),
         a.status = 200, a.script.kind \in {"hook", "static"}
  PROVE  WorkerIn(m, a.script) = WorkerOf(m, View(m))
  <1> DEFINE v == View(m)
  <1>1. Hardware(m) = v
    BY HardwareIsOwn
  <1>2. \/ v = Nil /\ a.script = staticScript(conf)
        \/ v # Nil /\ a = serveBootScript(conf, v)
    <2> HIDE DEF v
    <2> QED BY <1>1 DEF ScriptHandler, Hardware
  <1>3. CASE v = Nil /\ a.script = staticScript(conf)
    BY <1>3 DEF staticScript, WorkerIn, WorkerOf
  <1>4. CASE v # Nil /\ a = serveBootScript(conf, v)
    <2>1. v.dhcp.mac = m
      BY <1>4, ViewMac
    <2> HIDE DEF v
    <2>2. a.script = customScript(v) \/ a.script = defaultScript(conf, v)
      BY <1>4 DEF serveBootScript
    <2>3. a.script = customScript(v) /\ customScript(v) # Nil => a.script.kind \in {"chain", "custom"}
      BY DEF customScript
    <2>4. a.script = defaultScript(conf, v)
      BY <1>4, <2>2, <2>3 DEF serveBootScript
    <2>5. a.script.kind = "hook" /\ a.script.worker = IF v.agentID # Nil THEN v.agentID ELSE v.dhcp.mac
      BY <2>4 DEF defaultScript
    <2>6. WorkerIn(m, a.script) = WorkerOf(m, v)
      BY <1>4, <2>1, <2>5 DEF WorkerIn, WorkerOf
    <2> QED BY <2>6 DEF v
  <1> QED BY <1>2, <1>3, <1>4

\* The script's URL, as it is named to machine m.
LEMMA ScriptForIs ==
  ASSUME BootTypeOK, NEW m \in Machine
  PROVE  ScriptFor(m).name = conf.scriptURL.name /\ ScriptFor(m).host = conf.scriptURL.host
  <1>1. conf \in Configs
    BY DEF BootTypeOK
  <1>2. DOMAIN conf.scriptURL = {"scheme", "host", "dir", "name", "trace"}
    BY <1>1, ShapeAssumption DEF File
  <1> QED BY <1>2 DEF ScriptFor

\* A machine that can boot and asks for the script gets one that boots the OSIE.
LEMMA ScriptIsServed ==
  ASSUME BootTypeOK, NEW m \in Machine, Bootable(m), file[m] = ScriptFor(m),
         NEW a, a = ScriptHandler(conf, AllObjects, Req(m))
  PROVE  /\ IsScript(file[m])
         /\ a.status = 200 /\ a.script.kind \in {"hook", "static"}
  <1> DEFINE v == View(m)
  <1>1. /\ conf.scriptURL.name = "auto.ipxe" /\ conf.scriptHTTP
        /\ Identifies(m, ipxeScript(conf, Request(m, "discover", 1)))
        /\ v = Nil => conf.mode = "auto-proxy"
        /\ v # Nil => v.netboot.allow /\ v.netboot.script = Nil /\ v.netboot.scriptURL = Nil
    BY DEF Bootable
  <1>2. Identifies(m, file[m])
    BY <1>1, RequestFields
  <1>3. Hardware(m) = v
    BY <1>2, HardwareIsOwn
  <1>4. IsScript(file[m])
    BY <1>1, ScriptForIs DEF IsScript
  <1>5. Req(m).name = "auto.ipxe"
    BY <1>4 DEF Req, IsScript
  <1> HIDE DEF v
  <1>6. CASE v = Nil
    <2>1. a = [status |-> 200, script |-> staticScript(conf)]
      BY <1>1, <1>3, <1>5, <1>6 DEF ScriptHandler, Hardware
    <2> QED BY <1>4, <2>1 DEF staticScript
  <1>7. CASE v # Nil
    <2>1. a = serveBootScript(conf, v)
      BY <1>1, <1>3, <1>5, <1>7 DEF ScriptHandler, Hardware
    <2>2. a = [status |-> 200, script |-> defaultScript(conf, v)]
      BY <1>1, <1>7, <2>1 DEF serveBootScript
    <2> QED BY <1>4, <2>2 DEF defaultScript
  <1> QED BY <1>6, <1>7

-----------------------------------------------------------------------------
(* What a step leaves as it is                                             *)

\* Whether a machine can boot is a matter of Smee's configuration, of the
\* objects and of the firmware, not of the program that runs.
LEMMA BootableFrame ==
  ASSUME NEW m, conf' = conf, View(m)' = View(m), rom'[m] = rom[m]
  PROVE  Bootable(m)' <=> Bootable(m)
  <1> DEFINE q == Request(m, "discover", 1)
  <1>1. View(m)' = View(m)
    OBVIOUS
  <1>2. IsNetbootClient(q)' <=> IsNetbootClient(q)
    BY DEF Request, IsNetbootClient
  <1>3. Arch(q)' = Arch(q)
    BY DEF Request, Arch
  <1>4. ipxeScript(conf, q)' = ipxeScript(conf, q)
    BY DEF Request, ipxeScript
  <1>5. Identifies(m, ipxeScript(conf, q))' <=> Identifies(m, ipxeScript(conf, q))
    BY <1>4 DEF Identifies, AddressesTell
  <1> HIDE DEF q
  <1> QED BY <1>1, <1>2, <1>3, <1>5 DEF Bootable, q

\* What the objects say of a machine is a matter of the objects.
LEMMA ViewFrame ==
  ASSUME objects' = objects, NEW m
  PROVE  View(m)' = View(m)
  BY DEF View, AllObjects

\* What the objects said of a machine, and what it may be told of them.
LEMMA SeenFrame ==
  ASSUME NEW m, conf' = conf, seen'[m] = seen[m]
  PROVE  /\ OwnBootFile(m)' <=> OwnBootFile(m)
         /\ OwnScripts(m)' = OwnScripts(m)
         /\ BinaryAsScript(m)' <=> BinaryAsScript(m)
         /\ ScriptFor(m)' = ScriptFor(m)
         /\ \A f : /\ ToldIPXE(m, f)' <=> ToldIPXE(m, f)
                   /\ LeadsOn(m, f)' <=> LeadsOn(m, f)
                   /\ program'[m] = program[m] => (Told(m, f)' <=> Told(m, f))
  <1>1. OwnBootFile(m)' <=> OwnBootFile(m)
    BY DEF OwnBootFile
  <1>2. OwnScripts(m)' = OwnScripts(m)
    BY DEF OwnScripts
  <1>3. BinaryAsScript(m)' <=> BinaryAsScript(m)
    BY <1>2 DEF BinaryAsScript
  <1>4. ScriptFor(m)' = ScriptFor(m)
    BY DEF ScriptFor
  <1>5. ASSUME NEW f
        PROVE  /\ ToldIPXE(m, f)' <=> ToldIPXE(m, f)
               /\ LeadsOn(m, f)' <=> LeadsOn(m, f)
    BY <1>2, <1>4 DEF ToldIPXE, LeadsOn, Foreign
  <1>6. ASSUME NEW f, program'[m] = program[m]
        PROVE  Told(m, f)' <=> Told(m, f)
    BY <1>1, <1>5, <1>6 DEF Told
  <1> QED BY <1>1, <1>2, <1>3, <1>4, <1>5, <1>6

\* What the step of another machine leaves to machine m.
Untouched(m) ==
  /\ conf' = conf /\ objects' = objects /\ rom'[m] = rom[m] /\ seen'[m] = seen[m]
  /\ stage'[m] = stage[m] /\ program'[m] = program[m] /\ chain'[m] = chain[m]
  /\ xid'[m] = xid[m] /\ file'[m] = file[m] /\ script'[m] = script[m]
  /\ worker'[m] = worker[m]
  /\ \A p \in packets' \ packets : p.mac # m
  /\ faults' = 0 => faults = 0 /\ \A p \in packets \ packets' : p.mac # m

\* The steps of another machine, and a loss, do not concern machine m.
LEMMA UntouchedOK ==
  ASSUME NEW m \in Machine, MachineOK(m), Untouched(m)
  PROVE  MachineOK(m)'
  <1>1. /\ conf' = conf /\ objects' = objects /\ rom'[m] = rom[m] /\ seen'[m] = seen[m]
        /\ stage'[m] = stage[m] /\ program'[m] = program[m] /\ chain'[m] = chain[m]
        /\ xid'[m] = xid[m] /\ file'[m] = file[m] /\ script'[m] = script[m]
        /\ worker'[m] = worker[m]
    BY DEF Untouched
  <1>2. View(m)' = View(m) /\ (Bootable(m)' <=> Bootable(m))
    <2>1. View(m)' = View(m)
      BY <1>1, ViewFrame
    <2> QED BY <1>1, <2>1, BootableFrame
  <1>3. /\ OwnBootFile(m)' <=> OwnBootFile(m)
        /\ BinaryAsScript(m)' <=> BinaryAsScript(m)
        /\ \A f : /\ ToldIPXE(m, f)' <=> ToldIPXE(m, f)
                  /\ LeadsOn(m, f)' <=> LeadsOn(m, f)
                  /\ Told(m, f)' <=> Told(m, f)
    BY <1>1, SeenFrame
  <1>4. SeenOK(m)' /\ ChainOK(m)'
    BY <1>1, <1>2, <1>3 DEF MachineOK, SeenOK, ChainOK
  <1>5. FileOK(m)'
    BY <1>1, <1>3 DEF MachineOK, FileOK
  <1>6. ScriptOK(m)'
    BY <1>1 DEF MachineOK, ScriptOK, Identifies
  <1>7. WayOK(m)'
    <2>1. Clear(m)' => Clear(m) /\ faults' = 0
      BY <1>1, <1>2 DEF Clear, Untouched
    <2>2. Asking(m)' <=> Asking(m)
      BY <1>1 DEF Asking
    <2> QED BY <1>1, <1>3, <2>1, <2>2 DEF MachineOK, WayOK, Untouched
  <1>8. ASSUME NEW p \in packets', p.mac = m
        PROVE  RequestOK(p)' /\ ReplyOK(p)'
    <2>1. p \in packets
      BY <1>8 DEF Untouched
    <2>2. RequestOK(p) /\ ReplyOK(p)
      BY <1>8, <2>1 DEF MachineOK
    <2>3. Asking(m)' <=> Asking(m)
      BY <1>1 DEF Asking
    <2>4. \A type, id : Request(m, type, id)' = Request(m, type, id)
      BY <1>1 DEF Request
    <2> QED BY <1>1, <1>3, <1>8, <2>2, <2>3, <2>4 DEF RequestOK, ReplyOK
  <1> QED BY <1>4, <1>5, <1>6, <1>7, <1>8 DEF MachineOK

-----------------------------------------------------------------------------
(* Types                                                                   *)

\* The bounds are numbers, and a machine that is on has a firmware.
LEMMA Bounds ==
  /\ Retries \in Nat /\ MaxChanges \in Nat /\ MaxXid \in Nat /\ MaxPowerOns \in Nat
  /\ MaxFaults \in Nat /\ MaxFaults >= 1
  /\ Nil \notin Firmware
  BY BootAssumption, ShapeAssumption

\* The initial states have their types.
LEMMA BootTypeInit == BootInit => BootTypeOK
  <1> SUFFICES ASSUME BootInit PROVE BootTypeOK
    OBVIOUS
  <1>1. \A m \in Machine : IsFiniteSet(seen[m])
    BY FS_EmptySet DEF BootInit
  <1>2. \A m \in Machine : rom[m] = Nil /\ stage[m] = "off" /\ worker[m] = Nil
    BY DEF BootInit
  <1>3. loads \in [Machine -> [part : 1..Len(Parts), idx : 0..Retries]]
    BY Bounds DEF BootInit, Parts
  <1> QED BY <1>1, <1>2, <1>3, Bounds DEF BootInit, BootTypeOK, Stages

\* The types of the two kinds of objects, which only two actions change.
LEMMA ObjectTypes ==
  ASSUME BootTypeOK, UNCHANGED <<conf, objects, changes>>
  PROVE  /\ conf' \in Configs
         /\ objects' \in [Machine -> UNION {HardwareOf(m) : m \in Machine}]
         /\ \A m \in Machine : objects'[m] \in HardwareOf(m)
         /\ changes' \in 0..MaxChanges
  BY DEF BootTypeOK

\* Powering on a machine keeps the types.
LEMMA PowerOnType ==
  ASSUME BootTypeOK, NEW m \in Machine, PowerOn(m)
  PROVE  BootTypeOK'
  <1>1. UNCHANGED <<conf, objects, changes>>
    BY DEF PowerOn
  <1>2. \A n \in Machine : IsFiniteSet(seen'[n])
    <2>1. \A n \in Machine : seen'[n] = seen[n] \/ seen'[n] = {View(m)}
      BY DEF PowerOn, BootTypeOK
    <2>2. \A n \in Machine : IsFiniteSet(seen[n])
      BY DEF BootTypeOK
    <2>3. IsFiniteSet({View(m)})
      BY FS_Singleton
    <2> QED BY <2>1, <2>2, <2>3
  <1>3. rom' \in [Machine -> Firmware \cup {Nil}] /\ rom'[m] # Nil
    <2>1. PICK f \in Firmware : rom' = [rom EXCEPT ![m] = f]
      BY DEF PowerOn
    <2>2. rom \in [Machine -> Firmware \cup {Nil}]
      BY DEF BootTypeOK
    <2> QED BY <2>1, <2>2, Bounds
  <1>4. \A n \in Machine : rom'[n] = Nil <=> stage'[n] = "off"
    BY <1>3 DEF PowerOn, BootTypeOK
  <1>5. powerOns' \in 0..MaxPowerOns
    <2>1. powerOns \in 0..MaxPowerOns /\ powerOns < MaxPowerOns /\ powerOns' = powerOns + 1
      BY DEF PowerOn, BootTypeOK
    <2> QED BY <2>1, Bounds
  <1>6. /\ stage' \in [Machine -> Stages] /\ program' \in [Machine -> {"firmware", "Tinkerbell"}]
        /\ chain' \in [Machine -> Nat] /\ DOMAIN file' = Machine /\ DOMAIN script' = Machine
        /\ DOMAIN worker' = Machine /\ DOMAIN seen' = Machine
        /\ UNCHANGED <<xid, loads, packets, faults>>
    BY DEF PowerOn, BootTypeOK, Stages
  <1>7. \A n \in Machine : worker'[n] # Nil => stage'[n] \in {"osie", "isoOsie"}
    BY DEF PowerOn, BootTypeOK
  <1> QED BY <1>1, <1>2, <1>3, <1>4, <1>5, <1>6, <1>7, ObjectTypes DEF BootTypeOK

\* The steps of a machine's DHCP transaction keep the types.
LEMMA TransactionType ==
  ASSUME BootTypeOK, NEW m \in Machine,
         SendDiscover(m) \/ Offered(m) \/ Acknowledged(m) \/ NoAnswer(m)
  PROVE  BootTypeOK'
  <1>1. UNCHANGED <<conf, objects, rom, program, chain, loads, script, worker, seen, changes, powerOns>>
    BY DEF SendDiscover, Offered, Acknowledged, NoAnswer
  <1>2. /\ stage[m] \in {"init", "discover", "request"}
        /\ \E s \in {"init", "discover", "request", "fetch", "disk"} :
             stage' = [stage EXCEPT ![m] = s]
    BY DEF SendDiscover, Offered, Acknowledged, NoAnswer
  <1>3. stage' \in [Machine -> Stages]
    <2>1. stage \in [Machine -> Stages]
      BY DEF BootTypeOK
    <2> QED BY <1>2, <2>1 DEF Stages
  <1>4. \A n \in Machine : /\ stage'[n] = "off" <=> stage[n] = "off"
                           /\ stage[n] \in {"osie", "isoOsie"} => stage'[n] = stage[n]
    BY <1>2 DEF BootTypeOK
  <1>5. DOMAIN file' = Machine /\ faults' \in 0..MaxFaults
    <2>1. DOMAIN file = Machine /\ faults \in 0..MaxFaults
      BY DEF BootTypeOK
    <2>2. file' = file \/ \E f : file' = [file EXCEPT ![m] = f]
      BY DEF SendDiscover, Offered, Acknowledged, NoAnswer
    <2>3. faults' = faults \/ (faults < MaxFaults /\ faults' = faults + 1)
      BY DEF SendDiscover, Offered, Acknowledged, NoAnswer
    <2> QED BY <2>1, <2>2, <2>3, Bounds
  <1>6. xid' \in [Machine -> Nat] /\ \A n \in Machine : xid[n] <= xid'[n]
    <2>1. xid \in [Machine -> Nat]
      BY DEF BootTypeOK
    <2>2. xid' = xid \/ xid' = [xid EXCEPT ![m] = xid[m] + 1]
      BY DEF SendDiscover, Offered, Acknowledged, NoAnswer
    <2> QED BY <2>1, <2>2
  <1>7. \A p \in packets' : p \in packets \/ (p.mac = m /\ p.xid \in 1..xid'[m])
    <2>1. CASE SendDiscover(m)
      <3>1. xid'[m] = xid[m] + 1 /\ xid[m] \in Nat
        BY <2>1 DEF SendDiscover, BootTypeOK
      <3>2. packets' = packets \cup {Request(m, "discover", xid[m] + 1)}
        BY <2>1 DEF SendDiscover
      <3>3. Request(m, "discover", xid[m] + 1).mac = m /\ Request(m, "discover", xid[m] + 1).xid = xid[m] + 1
        BY RequestFields
      <3>4. xid[m] + 1 \in 1..xid'[m]
        BY <3>1
      <3> QED BY <3>2, <3>3, <3>4
    <2>2. CASE Offered(m)
      <3>1. PICK q \in packets : /\ q.mac = m /\ q.xid = xid[m]
                                 /\ packets' = (packets \ {q}) \cup {Request(m, "request", xid[m])}
        BY <2>2 DEF Offered
      <3>2. xid[m] \in 1..xid[m] /\ xid'[m] = xid[m]
        BY <2>2, <3>1 DEF Offered, BootTypeOK
      <3>3. Request(m, "request", xid[m]).mac = m /\ Request(m, "request", xid[m]).xid = xid[m]
        BY RequestFields
      <3> QED BY <3>1, <3>2, <3>3
    <2>3. CASE Acknowledged(m) \/ NoAnswer(m)
      <3>1. packets' \subseteq packets
        BY <2>3 DEF Acknowledged, NoAnswer
      <3> QED BY <3>1
    <2> QED BY <2>1, <2>2, <2>3
  <1>8. \A p \in packets' : p.mac \in Machine /\ p.xid \in 1..xid'[p.mac]
    <2> SUFFICES ASSUME NEW p \in packets' PROVE p.mac \in Machine /\ p.xid \in 1..xid'[p.mac]
      OBVIOUS
    <2>1. CASE p \in packets
      <3>1. p.mac \in Machine /\ p.xid \in 1..xid[p.mac]
        BY <2>1 DEF BootTypeOK
      <3>2. xid[p.mac] \in Nat /\ xid'[p.mac] \in Nat /\ xid[p.mac] <= xid'[p.mac]
        BY <1>6, <3>1 DEF BootTypeOK
      <3> QED BY <3>1, <3>2
    <2>2. CASE p.mac = m /\ p.xid \in 1..xid'[m]
      BY <2>2
    <2> QED BY <1>7, <2>1, <2>2
  <1> QED BY <1>1, <1>3, <1>4, <1>5, <1>6, <1>8, ObjectTypes DEF BootTypeOK

\* What happens to a packet on its way keeps the types.
LEMMA PacketType ==
  ASSUME BootTypeOK, NEW p \in packets, HandlePacket(p) \/ LosePacket(p)
  PROVE  BootTypeOK'
  <1>1. UNCHANGED <<conf, objects, rom, machineVars, seen, changes, powerOns>>
    BY DEF HandlePacket, LosePacket
  <1>2. faults' \in 0..MaxFaults
    BY BootAssumption DEF HandlePacket, LosePacket, BootTypeOK
  <1>3. \A q \in packets' : q \in packets \/ (q.mac = p.mac /\ q.xid = p.xid)
    <2>1. CASE HandlePacket(p)
      <3> DEFINE new == {[to |-> replyDestination(p), mac |-> p.mac, xid |-> p.xid,
                          type |-> r.type, file |-> r.file] : r \in Handle(conf, AllObjects, p)}
      <3>1. packets' = (packets \ {p}) \cup new
        BY <2>1 DEF HandlePacket
      <3>2. \A q \in new : q.mac = p.mac /\ q.xid = p.xid
        OBVIOUS
      <3> HIDE DEF new
      <3> QED BY <3>1, <3>2
    <2>2. CASE LosePacket(p)
      BY <2>2 DEF LosePacket
    <2> QED BY <2>1, <2>2
  <1> QED BY <1>1, <1>2, <1>3, ObjectTypes DEF BootTypeOK, machineVars

\* Fetching the boot file and loading what the script names keep the types.
LEMMA LoadType ==
  ASSUME BootTypeOK, NEW m \in Machine,
         \/ FetchFile(m) \/ FetchForeign(m) \/ FetchScript(m) \/ FetchFails(m)
         \/ LoadPart(m) \/ LoadFails(m) \/ BootISO(m)
  PROVE  BootTypeOK'
  <1>1. UNCHANGED <<conf, objects, rom, xid, file, packets, seen, changes, powerOns>>
    BY DEF FetchFile, FetchForeign, FetchScript, FetchFails, LoadPart, LoadFails, BootISO
  <1>2. /\ stage[m] \in {"fetch", "load", "init"}
        /\ \/ stage' = stage
           \/ \E s \in Stages \ {"off"} : stage' = [stage EXCEPT ![m] = s]
    BY DEF FetchFile, FetchForeign, FetchScript, FetchFails, LoadPart, LoadFails, BootISO, Stages
  <1>3. stage' \in [Machine -> Stages] /\ \A n \in Machine : n # m => stage'[n] = stage[n]
    <2>1. stage \in [Machine -> Stages]
      BY DEF BootTypeOK
    <2> QED BY <1>2, <2>1
  <1>4. \A n \in Machine : stage'[n] = "off" <=> stage[n] = "off"
    <2>1. stage \in [Machine -> Stages]
      BY DEF BootTypeOK
    <2> QED BY <1>2, <2>1
  <1>5. DOMAIN worker' = Machine /\ \A n \in Machine : worker'[n] # Nil => stage'[n] \in {"osie", "isoOsie"}
    <2>1. worker[m] = Nil
      BY <1>2 DEF BootTypeOK
    <2>2. \/ worker' = worker
          \/ /\ \E w : worker' = [worker EXCEPT ![m] = w]
             /\ stage'[m] \in {"osie", "isoOsie"}
      <3>1. stage \in [Machine -> Stages]
        BY DEF BootTypeOK
      <3>2. CASE LoadPart(m)
        BY <3>1, <3>2 DEF LoadPart
      <3>3. CASE BootISO(m)
        BY <3>1, <3>3 DEF BootISO
      <3>4. CASE ~LoadPart(m) /\ ~BootISO(m)
        BY <3>4 DEF FetchFile, FetchForeign, FetchScript, FetchFails, LoadFails
      <3> QED BY <3>2, <3>3, <3>4
    <2> QED BY <1>3, <2>1, <2>2 DEF BootTypeOK
  <1>6. faults' \in 0..MaxFaults
    <2>1. faults \in 0..MaxFaults
      BY DEF BootTypeOK
    <2>2. faults' = faults \/ (faults < MaxFaults /\ faults' = faults + 1)
      BY DEF FetchFile, FetchForeign, FetchScript, FetchFails, LoadPart, LoadFails, BootISO, Lost
    <2> QED BY <2>1, <2>2, Bounds
  <1>7. /\ program' \in [Machine -> {"firmware", "Tinkerbell"}] /\ chain' \in [Machine -> Nat]
        /\ DOMAIN script' = Machine
    <2>1. /\ program \in [Machine -> {"firmware", "Tinkerbell"}] /\ chain \in [Machine -> Nat]
          /\ DOMAIN script = Machine
      BY DEF BootTypeOK
    <2>2. script' = script \/ \E s : script' = [script EXCEPT ![m] = s]
      BY DEF FetchFile, FetchForeign, FetchScript, FetchFails, LoadPart, LoadFails, BootISO
    <2>3. chain' = chain \/ chain' = [chain EXCEPT ![m] = chain[m] + 1] \/ chain' = [chain EXCEPT ![m] = chain[m]]
      BY DEF FetchFile, FetchForeign, FetchScript, FetchFails, LoadPart, LoadFails, BootISO
    <2>4. program' = program \/ \E q \in {"Tinkerbell", program[m]} : program' = [program EXCEPT ![m] = q]
      BY DEF FetchFile, FetchForeign, FetchScript, FetchFails, LoadPart, LoadFails, BootISO
    <2> QED BY <2>1, <2>2, <2>3, <2>4
  <1>8. loads' \in [Machine -> [part : 1..Len(Parts), idx : 0..Retries]]
    <2>1. Len(Parts) = 3 /\ Retries \in Nat
      BY BootAssumption DEF Parts
    <2>2. loads \in [Machine -> [part : 1..3, idx : 0..Retries]]
      BY <2>1 DEF BootTypeOK
    <2>3. \/ loads' = loads
          \/ \E l \in [part : 1..3, idx : 0..Retries] : loads' = [loads EXCEPT ![m] = l]
      <3>1. loads[m].part \in 1..3 /\ loads[m].idx \in 0..Retries
        BY <2>2
      <3>2. CASE FetchScript(m)
        <4>1. [part |-> 1, idx |-> 0] \in [part : 1..3, idx : 0..Retries]
          BY <2>1
        <4> QED BY <3>2, <4>1 DEF FetchScript
      <3>3. CASE LoadPart(m)
        <4>1. loads[m].part < 3 => [part |-> loads[m].part + 1, idx |-> 0] \in [part : 1..3, idx : 0..Retries]
          BY <2>1, <3>1
        <4> QED BY <2>1, <3>3, <4>1 DEF LoadPart
      <3>4. CASE LoadFails(m)
        <4>1. [loads[m] EXCEPT !.idx = loads[m].idx + 1] = [part |-> loads[m].part, idx |-> loads[m].idx + 1]
          BY <2>2
        <4>2. loads[m].idx # Retries =>
                [part |-> loads[m].part, idx |-> loads[m].idx + 1] \in [part : 1..3, idx : 0..Retries]
          BY <2>1, <3>1
        <4>3. \/ loads' = loads
              \/ loads[m].idx # Retries /\ loads' = [loads EXCEPT ![m] = [loads[m] EXCEPT !.idx = loads[m].idx + 1]]
          BY <3>4 DEF LoadFails
        <4> QED BY <4>1, <4>2, <4>3
      <3> QED BY <3>2, <3>3, <3>4 DEF FetchFile, FetchForeign, FetchFails, BootISO
    <2> QED BY <2>1, <2>2, <2>3
  <1> QED BY <1>1, <1>3, <1>4, <1>5, <1>6, <1>7, <1>8, ObjectTypes DEF BootTypeOK

\* A change of the objects keeps the types.
LEMMA ChangeType ==
  ASSUME BootTypeOK, NEW m \in Machine, ChangeHardware(m)
  PROVE  BootTypeOK'
  <1>1. UNCHANGED <<conf, rom, machineVars, packets, faults, powerOns>>
    BY DEF ChangeHardware
  <1>2. PICK o \in HardwareOf(m) : objects' = [objects EXCEPT ![m] = o]
    BY DEF ChangeHardware
  <1>3. /\ objects' \in [Machine -> UNION {HardwareOf(n) : n \in Machine}]
        /\ \A n \in Machine : objects'[n] \in HardwareOf(n)
    BY <1>2 DEF BootTypeOK
  <1>4. changes' \in 0..MaxChanges
    <2>1. changes \in 0..MaxChanges /\ changes < MaxChanges /\ changes' = changes + 1
      BY DEF ChangeHardware, BootTypeOK
    <2> QED BY <2>1, Bounds
  <1>5. DOMAIN seen' = Machine
    BY DEF ChangeHardware
  <1>6. \A n \in Machine : IsFiniteSet(seen'[n])
    <2>1. \A n \in Machine : seen'[n] = {} \/ \E v : seen'[n] = seen[n] \cup {v}
      BY DEF ChangeHardware
    <2>2. \A n \in Machine : IsFiniteSet(seen[n])
      BY DEF BootTypeOK
    <2>3. IsFiniteSet({}) /\ \A n \in Machine : \A v : IsFiniteSet(seen[n] \cup {v})
      BY <2>2, FS_EmptySet, FS_AddElement
    <2> TAKE n \in Machine
    <2>4. CASE seen'[n] = {}
      BY <2>3, <2>4
    <2>5. ASSUME NEW v, seen'[n] = seen[n] \cup {v}
          PROVE  IsFiniteSet(seen'[n])
      <3>1. IsFiniteSet(seen[n] \cup {v})
        BY <2>3
      <3> QED BY <2>5, <3>1
    <2> QED BY <2>1, <2>4, <2>5
  <1> QED BY <1>1, <1>3, <1>4, <1>5, <1>6 DEF BootTypeOK, machineVars

\* Every step keeps the types.
LEMMA BootTypeStep ==
  ASSUME BootTypeOK, [BootNext]_bootVars
  PROVE  BootTypeOK'
  <1>1. CASE BootNext
    BY <1>1, PowerOnType, TransactionType, PacketType, LoadType, ChangeType DEF BootNext
  <1>2. CASE UNCHANGED bootVars
    BY <1>2 DEF bootVars, BootTypeOK
  <1> QED BY <1>1, <1>2

-----------------------------------------------------------------------------
(* The steps, one by one                                                   *)

\* The variables that hold something for every machine.
LEMMA Domains ==
  ASSUME BootTypeOK
  PROVE  /\ DOMAIN rom = Machine /\ DOMAIN stage = Machine /\ DOMAIN program = Machine
         /\ DOMAIN chain = Machine /\ DOMAIN xid = Machine /\ DOMAIN file = Machine
         /\ DOMAIN script = Machine /\ DOMAIN worker = Machine /\ DOMAIN loads = Machine
         /\ DOMAIN seen = Machine
  BY DEF BootTypeOK

\* A step of machine m that leaves the other machines alone.
Elsewhere(m) ==
  /\ conf' = conf /\ objects' = objects
  /\ \A n \in Machine \ {m} :
       /\ rom'[n] = rom[n] /\ seen'[n] = seen[n]
       /\ stage'[n] = stage[n] /\ program'[n] = program[n] /\ chain'[n] = chain[n]
       /\ xid'[n] = xid[n] /\ file'[n] = file[n] /\ script'[n] = script[n]
       /\ worker'[n] = worker[n]
  /\ \A p \in packets' \ packets : p.mac = m
  /\ faults' = 0 => faults = 0 /\ \A p \in packets \ packets' : p.mac = m

\* Such a step is good when it is good for machine m.
LEMMA ElsewhereOK ==
  ASSUME BootInv, NEW m \in Machine, Elsewhere(m), MachineOK(m)'
  PROVE  \A n \in Machine : MachineOK(n)'
  <1> TAKE n \in Machine
  <1>1. CASE n = m
    BY <1>1
  <1>2. CASE n # m
    <2>1. Untouched(n)
      BY <1>2 DEF Elsewhere, Untouched
    <2>2. MachineOK(n)
      BY DEF BootInv
    <2> QED BY <2>1, <2>2, UntouchedOK
  <1> QED BY <1>1, <1>2

\* What is the same for a machine whose objects and firmware stay.
LEMMA OwnFrame ==
  ASSUME NEW m, conf' = conf, objects' = objects, rom'[m] = rom[m], seen'[m] = seen[m]
  PROVE  /\ View(m)' = View(m) /\ (Bootable(m)' <=> Bootable(m))
         /\ OwnBootFile(m)' <=> OwnBootFile(m)
         /\ OwnScripts(m)' = OwnScripts(m)
         /\ BinaryAsScript(m)' <=> BinaryAsScript(m)
         /\ ScriptFor(m)' = ScriptFor(m)
         /\ \A f : /\ ToldIPXE(m, f)' <=> ToldIPXE(m, f)
                   /\ LeadsOn(m, f)' <=> LeadsOn(m, f)
                   /\ program'[m] = program[m] => (Told(m, f)' <=> Told(m, f))
  <1>1. View(m)' = View(m)
    BY ViewFrame
  <1>2. Bootable(m)' <=> Bootable(m)
    BY <1>1, BootableFrame
  <1> QED BY <1>1, <1>2, SeenFrame

\* Powering on forgets the last boot.
LEMMA PowerOnOK ==
  ASSUME BootInv, NEW m \in Machine, PowerOn(m)
  PROVE  \A n \in Machine : MachineOK(n)'
  <1>0. BootTypeOK
    BY DEF BootInv
  <1>1. Elsewhere(m)
    BY <1>0, Domains DEF PowerOn, Elsewhere
  <1>2. /\ stage'[m] = "init" /\ chain'[m] = 0 /\ seen'[m] = {View(m)} /\ objects' = objects
    BY <1>0, Domains DEF PowerOn
  <1>3. View(m)' = View(m)
    BY <1>2, ViewFrame
  <1>4. SeenOK(m)' /\ FileOK(m)' /\ ChainOK(m)' /\ ScriptOK(m)' /\ WayOK(m)'
    BY <1>2, <1>3 DEF SeenOK, FileOK, ChainOK, ScriptOK, WayOK, Asking
  <1>5. \A p \in packets' : p.mac = m => RequestOK(p)' /\ ReplyOK(p)'
    BY <1>2 DEF RequestOK, ReplyOK, Asking
  <1>6. MachineOK(m)'
    BY <1>4, <1>5 DEF MachineOK
  <1> QED BY <1>1, <1>6, ElsewhereOK

\* A new transaction has no packets yet but the request.
LEMMA SendDiscoverOK ==
  ASSUME BootInv, NEW m \in Machine, SendDiscover(m)
  PROVE  \A n \in Machine : MachineOK(n)'
  <1> DEFINE q == Request(m, "discover", xid[m] + 1)
  <1>0. BootTypeOK /\ MachineOK(m)
    BY DEF BootInv
  <1>1. q.mac = m /\ q.xid = xid[m] + 1 /\ q.to = "server" /\ q.type = "discover"
    BY RequestFields
  <1>2. packets' = packets \cup {q}
    BY DEF SendDiscover
  <1>3. Elsewhere(m)
    <2> HIDE DEF q
    <2> QED BY <1>0, <1>1, <1>2, Domains DEF SendDiscover, Elsewhere
  <1>4. /\ stage[m] = "init" /\ stage'[m] = "discover" /\ xid'[m] = xid[m] + 1
        /\ UNCHANGED <<conf, objects, rom, program, chain, seen, faults>>
    BY <1>0, Domains DEF SendDiscover
  <1>5. View(m)' = View(m) /\ (OwnBootFile(m)' <=> OwnBootFile(m)) /\ (BinaryAsScript(m)' <=> BinaryAsScript(m))
    BY <1>4, OwnFrame
  <1>6. \A p \in packets : p.mac = m => p.xid # xid'[m]
    <2>1. xid[m] \in Nat /\ \A p \in packets : p.xid \in 1..xid[p.mac]
      BY <1>0 DEF BootTypeOK
    <2> QED BY <1>4, <2>1
  <1>7. SeenOK(m)' /\ FileOK(m)' /\ ChainOK(m)' /\ ScriptOK(m)'
    BY <1>0, <1>4, <1>5 DEF MachineOK, SeenOK, FileOK, ChainOK, ScriptOK
  <1>8. /\ \A type, id : Request(m, type, id)' = Request(m, type, id)
        /\ q = Request(m, q.type, q.xid)
    BY <1>1, <1>4 DEF Request
  <1> HIDE DEF q
  <1>9. WayOK(m)'
    BY <1>1, <1>2, <1>4, <1>6 DEF WayOK, Asking
  <1>10. ASSUME NEW p \in packets', p.mac = m
         PROVE  RequestOK(p)' /\ ReplyOK(p)'
    <2>1. CASE p = q
      BY <1>1, <1>8, <2>1 DEF RequestOK, ReplyOK
    <2>2. CASE p \in packets
      BY <1>6, <1>10, <2>2 DEF RequestOK, ReplyOK
    <2> QED BY <1>2, <2>1, <2>2
  <1>11. MachineOK(m)'
    BY <1>7, <1>9, <1>10 DEF MachineOK
  <1> QED BY <1>3, <1>11, ElsewhereOK

\* The second half of the transaction is asked by the same program.
LEMMA OfferedOK ==
  ASSUME BootInv, NEW m \in Machine, Offered(m)
  PROVE  \A n \in Machine : MachineOK(n)'
  <1> DEFINE q == Request(m, "request", xid[m])
  <1>0. BootTypeOK /\ MachineOK(m)
    BY DEF BootInv
  <1>1. q.mac = m /\ q.xid = xid[m] /\ q.to = "server" /\ q.type = "request"
    BY RequestFields
  <1>2. PICK p \in packets : p.mac = m /\ packets' = (packets \ {p}) \cup {q}
    BY DEF Offered
  <1>3. Elsewhere(m)
    <2> HIDE DEF q
    <2> QED BY <1>0, <1>1, <1>2, Domains DEF Offered, Elsewhere
  <1>4. /\ stage[m] = "discover" /\ stage'[m] = "request" /\ xid'[m] = xid[m]
        /\ UNCHANGED <<conf, objects, rom, program, chain, seen, faults>>
    BY <1>0, Domains DEF Offered
  <1>5. /\ View(m)' = View(m) /\ (Bootable(m)' <=> Bootable(m))
        /\ (OwnBootFile(m)' <=> OwnBootFile(m)) /\ (BinaryAsScript(m)' <=> BinaryAsScript(m))
        /\ \A f : (LeadsOn(m, f)' <=> LeadsOn(m, f)) /\ (Told(m, f)' <=> Told(m, f))
    BY <1>4, OwnFrame
  <1>7. SeenOK(m)' /\ FileOK(m)' /\ ChainOK(m)' /\ ScriptOK(m)'
    BY <1>0, <1>4, <1>5 DEF MachineOK, SeenOK, FileOK, ChainOK, ScriptOK
  <1>8. \A type, id : Request(m, type, id)' = Request(m, type, id)
    BY <1>4 DEF Request
  <1>9. q = Request(m, q.type, q.xid)
    BY <1>1
  <1> HIDE DEF q
  <1>10. WayOK(m)'
    <2>1. Clear(m)' => Clear(m)
      BY <1>4, <1>5 DEF Clear
    <2>2. Asking(m) /\ Asking(m)'
      BY <1>4 DEF Asking
    <2>3. Clear(m)' => \A r \in packets' : r.to # "server" /\ r.mac = m /\ r.xid = xid'[m] => LeadsOn(m, r.file)'
      BY <1>0, <1>1, <1>2, <1>4, <1>5, <2>1, <2>2 DEF MachineOK, WayOK
    <2> QED BY <1>1, <1>2, <1>4, <2>2, <2>3 DEF WayOK
  <1>11. ASSUME NEW r \in packets', r.mac = m
         PROVE  RequestOK(r)' /\ ReplyOK(r)'
    <2>1. CASE r = q
      BY <1>1, <1>8, <1>9, <2>1 DEF RequestOK, ReplyOK
    <2>2. CASE r \in packets
      <3>1. RequestOK(r) /\ ReplyOK(r)
        BY <1>0, <1>11, <2>2 DEF MachineOK
      <3>2. Asking(m)
        BY <1>4 DEF Asking
      <3> QED BY <1>4, <1>5, <1>8, <1>11, <3>1, <3>2 DEF RequestOK, ReplyOK
    <2> QED BY <1>2, <2>1, <2>2
  <1>12. MachineOK(m)'
    BY <1>7, <1>10, <1>11 DEF MachineOK
  <1> QED BY <1>3, <1>12, ElsewhereOK

\* What is acknowledged is what the asking program may be told.
LEMMA AcknowledgedOK ==
  ASSUME BootInv, NEW m \in Machine, Acknowledged(m)
  PROVE  \A n \in Machine : MachineOK(n)'
  <1>0. BootTypeOK /\ MachineOK(m)
    BY DEF BootInv
  <1>1. PICK p \in packets :
          /\ p.to # "server" /\ p.mac = m /\ p.xid = xid[m] /\ packets' = packets \ {p}
          /\ file' = [file EXCEPT ![m] = p.file]
          /\ stage' = [stage EXCEPT ![m] = IF p.file = Nil THEN "disk" ELSE "fetch"]
    BY DEF Acknowledged
  <1>2. Elsewhere(m)
    BY <1>0, <1>1, Domains DEF Acknowledged, Elsewhere
  <1>3. /\ stage[m] = "request" /\ file'[m] = p.file
        /\ stage'[m] = IF p.file = Nil THEN "disk" ELSE "fetch"
        /\ UNCHANGED <<conf, objects, rom, program, chain, seen, faults>>
    BY <1>0, <1>1, Domains DEF Acknowledged
  <1>4. /\ View(m)' = View(m) /\ (Bootable(m)' <=> Bootable(m))
        /\ (OwnBootFile(m)' <=> OwnBootFile(m)) /\ (BinaryAsScript(m)' <=> BinaryAsScript(m))
        /\ \A f : (LeadsOn(m, f)' <=> LeadsOn(m, f)) /\ (Told(m, f)' <=> Told(m, f))
    BY <1>3, OwnFrame
  <1>5. Asking(m) /\ ~Asking(m)'
    BY <1>3 DEF Asking
  <1>6. Told(m, p.file)
    BY <1>0, <1>1, <1>5 DEF MachineOK, ReplyOK
  <1>7. SeenOK(m)' /\ ChainOK(m)' /\ ScriptOK(m)'
    BY <1>0, <1>3, <1>4 DEF MachineOK, SeenOK, ChainOK, ScriptOK
  <1>8. FileOK(m)'
    BY <1>3, <1>4, <1>6 DEF FileOK
  <1>9. WayOK(m)'
    <2>1. Clear(m)' => Clear(m)
      BY <1>3, <1>4 DEF Clear
    <2>2. Clear(m) => LeadsOn(m, p.file)
      BY <1>0, <1>1, <1>5 DEF MachineOK, WayOK
    <2>3. LeadsOn(m, p.file) => p.file # Nil
      BY DEF LeadsOn
    <2> QED BY <1>3, <1>4, <1>5, <2>1, <2>2, <2>3 DEF WayOK
  <1>10. \A q \in packets' : q.mac = m => RequestOK(q)' /\ ReplyOK(q)'
    BY <1>5 DEF RequestOK, ReplyOK
  <1>11. MachineOK(m)'
    BY <1>7, <1>8, <1>9, <1>10 DEF MachineOK
  <1> QED BY <1>2, <1>11, ElsewhereOK

\* A machine gives up only when something was lost or nobody answers it.
LEMMA NoAnswerOK ==
  ASSUME BootInv, NEW m \in Machine, NoAnswer(m)
  PROVE  \A n \in Machine : MachineOK(n)'
  <1>0. BootTypeOK /\ MachineOK(m)
    BY DEF BootInv
  <1>1. /\ faults' = 0 => faults = 0 /\ ~ \E p \in packets : p.mac = m /\ p.xid = xid[m]
        /\ faults \in Nat
    <2>1. faults \in Nat
      BY <1>0, Bounds DEF BootTypeOK
    <2> QED BY <2>1 DEF NoAnswer
  <1>2. Elsewhere(m)
    BY <1>0, <1>1, Domains DEF NoAnswer, Elsewhere
  <1>3. /\ stage[m] \in {"discover", "request"} /\ stage'[m] \in {"init", "disk"}
        /\ UNCHANGED <<conf, objects, rom, program, chain, seen, packets>>
    BY <1>0, Domains DEF NoAnswer
  <1>4. /\ View(m)' = View(m) /\ (Bootable(m)' <=> Bootable(m))
        /\ (OwnBootFile(m)' <=> OwnBootFile(m)) /\ (BinaryAsScript(m)' <=> BinaryAsScript(m))
    BY <1>3, OwnFrame
  <1>5. Asking(m) /\ ~Asking(m)'
    BY <1>3 DEF Asking
  <1>6. SeenOK(m)' /\ FileOK(m)' /\ ChainOK(m)' /\ ScriptOK(m)'
    BY <1>0, <1>3, <1>4 DEF MachineOK, SeenOK, FileOK, ChainOK, ScriptOK
  <1>7. ~Clear(m)'
    <2>1. Clear(m)' => Clear(m) /\ faults' = 0
      BY <1>1, <1>3, <1>4 DEF Clear
    <2> QED BY <1>0, <1>1, <1>5, <2>1 DEF MachineOK, WayOK
  <1>8. WayOK(m)'
    BY <1>7 DEF WayOK
  <1>9. \A q \in packets' : q.mac = m => RequestOK(q)' /\ ReplyOK(q)'
    BY <1>5 DEF RequestOK, ReplyOK
  <1>10. MachineOK(m)'
    BY <1>6, <1>8, <1>9 DEF MachineOK
  <1> QED BY <1>2, <1>10, ElsewhereOK

\* A lost packet is a fault, and tells nobody anything.
LEMMA LosePacketOK ==
  ASSUME BootInv, NEW p \in packets, LosePacket(p)
  PROVE  \A n \in Machine : MachineOK(n)'
  <1> TAKE n \in Machine
  <1>1. faults \in Nat
    BY Bounds DEF BootInv, BootTypeOK
  <1>2. faults' = faults + 1 /\ packets' \subseteq packets
        /\ UNCHANGED <<conf, objects, rom, seen, machineVars>>
    BY DEF LosePacket
  <1>3. Untouched(n)
    BY <1>1, <1>2 DEF Untouched, machineVars
  <1>4. MachineOK(n)
    BY DEF BootInv
  <1> QED BY <1>3, <1>4, UntouchedOK

\* An answer goes to the machine, never back to Smee.
LEMMA ReplyLeaves ==
  ASSUME BootTypeOK, NEW m \in Machine, stage[m] # "off", NEW type, NEW id
  PROVE  replyDestination(Request(m, type, id)) # "server"
  <1> DEFINE q == Request(m, type, id)
  <1>1. q.giaddr = rom[m].giaddr /\ q.source = Unspecified
    BY RequestFields
  <1>2. rom[m] \in Firmware
    BY DEF BootTypeOK
  <1>3. rom[m].giaddr # "server"
    BY <1>2, ShapeAssumption
  <1> HIDE DEF q
  <1>4. replyDestination(q) \in {q.giaddr, "broadcast"}
    BY <1>1 DEF replyDestination
  <1> QED BY <1>1, <1>3, <1>4 DEF q

\* An answer is made for the request it answers, whenever Smee comes to it.
LEMMA HandlePacketOK ==
  ASSUME BootInv, NEW p \in packets, HandlePacket(p)
  PROVE  \A n \in Machine : MachineOK(n)'
  <1> DEFINE m == p.mac
             reply(r) == [to |-> replyDestination(p), mac |-> p.mac, xid |-> p.xid,
                          type |-> r.type, file |-> r.file]
             new == {reply(r) : r \in Handle(conf, AllObjects, p)}
             current == p.xid = xid[m] /\ Asking(m)
  <1>0. BootTypeOK /\ m \in Machine /\ MachineOK(m)
    BY DEF BootInv, BootTypeOK
  <1>1. packets' = (packets \ {p}) \cup new /\ p.to = "server"
    BY DEF HandlePacket
  <1>2. \A q \in new : /\ q.mac = m /\ q.xid = p.xid /\ q.to = replyDestination(p)
                       /\ \E r \in Handle(conf, AllObjects, p) : q.file = r.file
    OBVIOUS
  <1>3. UNCHANGED <<conf, objects, rom, seen, machineVars, faults>>
    BY DEF HandlePacket
  <1>4. Handle(conf, AllObjects, p) # {} => new # {}
    OBVIOUS
  <1> HIDE DEF new
  <1>5. Elsewhere(m)
    BY <1>1, <1>2, <1>3 DEF Elsewhere, machineVars
  <1>6. /\ View(m)' = View(m) /\ (Bootable(m)' <=> Bootable(m))
        /\ (OwnBootFile(m)' <=> OwnBootFile(m)) /\ (BinaryAsScript(m)' <=> BinaryAsScript(m))
        /\ \A f : /\ LeadsOn(m, f)' <=> LeadsOn(m, f)
                  /\ Told(m, f)' <=> Told(m, f)
                  /\ ToldIPXE(m, f)' <=> ToldIPXE(m, f)
    BY <1>3, OwnFrame DEF machineVars
  <1>7. current => /\ p.type \in {"discover", "request"} /\ p = Request(m, p.type, p.xid)
                   /\ stage[m] # "off" /\ View(m) \in seen[m]
    BY <1>0, <1>1 DEF MachineOK, RequestOK, SeenOK, Asking
  <1>8. current => \A q \in new : q.to # "server" /\ Told(m, q.file)
    <2> SUFFICES ASSUME current, NEW q \in new
                 PROVE  q.to # "server" /\ Told(m, q.file)
      OBVIOUS
    <2>1. q.to # "server"
      BY <1>0, <1>2, <1>7, ReplyLeaves
    <2>2. PICK r \in Handle(conf, AllObjects, p) : q.file = r.file
      BY <1>2
    <2>3. Told(m, r.file)
      BY <1>0, <1>7, <2>2, HandleTold
    <2> QED BY <2>1, <2>2, <2>3
  <1>9. current /\ Clear(m) => new # {} /\ \A q \in new : LeadsOn(m, q.file)
    <2> SUFFICES ASSUME current, Clear(m)
                 PROVE  new # {} /\ \A q \in new : LeadsOn(m, q.file)
      OBVIOUS
    <2>1. Bootable(m)
      BY DEF Clear
    <2>2. /\ Handle(conf, AllObjects, p) # {}
          /\ \A r \in Handle(conf, AllObjects, p) : LeadsOn(m, r.file)
      BY <1>0, <1>7, <2>1, HandleLeads
    <2> QED BY <1>2, <1>4, <2>2
  <1> HIDE DEF m
  <1>10. /\ stage'[m] = stage[m] /\ xid'[m] = xid[m] /\ program' = program /\ chain' = chain
         /\ file' = file /\ script' = script /\ worker' = worker /\ seen' = seen /\ faults' = faults
    BY <1>3 DEF machineVars
  <1>11. SeenOK(m)' /\ FileOK(m)' /\ ChainOK(m)' /\ ScriptOK(m)'
    BY <1>0, <1>6, <1>10 DEF MachineOK, SeenOK, FileOK, ChainOK, ScriptOK, Identifies
  <1>12. WayOK(m)'
    <2>1. Clear(m)' => Clear(m)
      BY <1>6, <1>10 DEF Clear
    <2>2. Asking(m)' <=> Asking(m)
      BY <1>10 DEF Asking
    <2>3. Clear(m) /\ Asking(m) => \E q \in packets' : q.mac = m /\ q.xid = xid[m]
      <3> SUFFICES ASSUME Clear(m), Asking(m)
                   PROVE  \E q \in packets' : q.mac = m /\ q.xid = xid[m]
        OBVIOUS
      <3>1. PICK q \in packets : q.mac = m /\ q.xid = xid[m]
        BY <1>0 DEF MachineOK, WayOK
      <3>2. CASE q # p
        BY <1>1, <3>1, <3>2
      <3>3. CASE q = p
        <4>1. current
          BY <3>1, <3>3
        <4> QED BY <1>1, <1>2, <1>9, <4>1
      <3> QED BY <3>2, <3>3
    <2>4. ASSUME Clear(m), Asking(m), NEW q \in packets', q.to # "server", q.mac = m, q.xid = xid[m]
          PROVE  LeadsOn(m, q.file)
      <3>1. CASE q \in packets
        BY <1>0, <2>4, <3>1 DEF MachineOK, WayOK
      <3>2. CASE q \in new
        <4>1. current
          BY <1>2, <2>4, <3>2
        <4> QED BY <1>9, <2>4, <3>2, <4>1
      <3> QED BY <1>1, <3>1, <3>2
    <2>5. Clear(m) => /\ stage[m] \notin {"disk", "other", "custom"}
                      /\ stage[m] = "fetch" => LeadsOn(m, file[m])
      BY <1>0 DEF MachineOK, WayOK
    <2> QED BY <1>6, <1>10, <2>1, <2>2, <2>3, <2>4, <2>5 DEF WayOK
  <1>13. ASSUME NEW q \in packets', q.mac = m
         PROVE  RequestOK(q)' /\ ReplyOK(q)'
    <2>1. Asking(m)' <=> Asking(m)
      BY <1>10 DEF Asking
    <2>2. CASE q \in packets
      <3>1. RequestOK(q) /\ ReplyOK(q)
        BY <1>0, <1>13, <2>2 DEF MachineOK
      <3>2. \A type, id : Request(m, type, id)' = Request(m, type, id)
        BY <1>3, <1>10 DEF Request
      <3> QED BY <1>6, <1>10, <1>13, <2>1, <3>1, <3>2 DEF RequestOK, ReplyOK
    <2>3. CASE q \in new
      <3>1. q.xid = xid[m] /\ Asking(m) => current
        BY <1>2, <2>3
      <3> QED BY <1>6, <1>8, <1>10, <1>13, <2>1, <2>3, <3>1 DEF RequestOK, ReplyOK
    <2> QED BY <1>1, <2>2, <2>3
  <1>14. MachineOK(m)'
    BY <1>11, <1>12, <1>13 DEF MachineOK
  <1> QED BY <1>0, <1>5, <1>14, ElsewhereOK

\* A fetched binary is the one the machine was told to load; our iPXE is told
\* to load one only by an operator.
LEMMA FetchFileOK ==
  ASSUME BootInv, NEW m \in Machine, FetchFile(m)
  PROVE  \A n \in Machine : MachineOK(n)'
  <1> DEFINE ipxe == Status(FetchedFile(m)) = 200 /\ Served(FetchedFile(m))[1] \in Files
             f == file[m]
  <1>0. BootTypeOK /\ MachineOK(m)
    BY DEF BootInv
  <1>1. Elsewhere(m)
    BY <1>0, Domains DEF FetchFile, Elsewhere
  <1>2. /\ stage[m] = "fetch" /\ ~IsScript(f) /\ ~Foreign(f)
        /\ stage'[m] \in {"init", "other", "disk"} /\ (ipxe => stage'[m] = "init")
        /\ program'[m] = IF ipxe THEN "Tinkerbell" ELSE program[m]
        /\ chain'[m] = IF ipxe THEN chain[m] + 1 ELSE chain[m]
        /\ UNCHANGED <<conf, objects, rom, seen, faults>>
    BY <1>0, Domains DEF FetchFile
  <1>3. /\ View(m)' = View(m) /\ (Bootable(m)' <=> Bootable(m))
        /\ (OwnBootFile(m)' <=> OwnBootFile(m)) /\ (BinaryAsScript(m)' <=> BinaryAsScript(m))
    BY <1>2, OwnFrame
  <1>4. f # Nil /\ Told(m, f) /\ chain[m] \in Nat
    BY <1>0, <1>2 DEF MachineOK, FileOK, BootTypeOK
  <1>5. ipxe => f.name \in Files
    BY FetchedIsNamed
  <1>6. /\ chain[m] > 0 => program[m] = "Tinkerbell"
        /\ chain[m] > 1 => OwnBootFile(m) \/ BinaryAsScript(m)
    BY <1>0 DEF MachineOK, ChainOK
  <1>7. f.name \in Files /\ program[m] = "Tinkerbell" => OwnBootFile(m) \/ BinaryAsScript(m)
    <2> SUFFICES ASSUME f.name \in Files, program[m] = "Tinkerbell", ~OwnBootFile(m)
                 PROVE  BinaryAsScript(m)
      OBVIOUS
    <2> HIDE DEF f
    <2>1. f.name \notin {"netboot-not-allowed", "no-ipxe-script-defined", "auto.ipxe"}
      BY DEF Files
    <2>2. ToldIPXE(m, f)
      BY <1>4, <2>1 DEF Told
    <2>3. f # File("no-ipxe-script-defined")
      BY <2>1 DEF File
    <2>4. f = ScriptFor(m) => conf.scriptURL.name \in Files
      BY <1>0, ScriptForIs
    <2> QED BY <2>2, <2>3, <2>4 DEF ToldIPXE, BinaryAsScript
  <1>8. Clear(m) => ipxe
    <2> SUFFICES ASSUME Clear(m) PROVE ipxe
      OBVIOUS
    <2>1. LeadsOn(m, f) /\ Bootable(m)
      BY <1>0, <1>2 DEF MachineOK, WayOK, Clear
    <2>2. f # ScriptFor(m)
      BY <1>0, <1>2, <2>1, ScriptIsServed
    <2>3. f.name \in Files
      BY <2>1, <2>2 DEF LeadsOn
    <2> QED BY <2>1, <2>3, BinaryIsServed
  <1> HIDE DEF ipxe, f
  <1>9. ChainOK(m)'
    BY <1>2, <1>3, <1>4, <1>5, <1>6, <1>7 DEF ChainOK
  <1>10. SeenOK(m)' /\ FileOK(m)' /\ ScriptOK(m)'
    BY <1>0, <1>2, <1>3 DEF MachineOK, SeenOK, FileOK, ScriptOK
  <1>11. ~Asking(m)'
    BY <1>2 DEF Asking
  <1>12. WayOK(m)'
    <2>1. Clear(m)' => Clear(m)
      BY <1>2, <1>3 DEF Clear
    <2> QED BY <1>2, <1>8, <1>11, <2>1 DEF WayOK
  <1>13. \A q \in packets' : q.mac = m => RequestOK(q)' /\ ReplyOK(q)'
    BY <1>11 DEF RequestOK, ReplyOK
  <1>14. MachineOK(m)'
    BY <1>9, <1>10, <1>12, <1>13 DEF MachineOK
  <1> QED BY <1>1, <1>14, ElsewhereOK

\* A file on another server was named by the machine's own object.
LEMMA FetchForeignOK ==
  ASSUME BootInv, NEW m \in Machine, FetchForeign(m)
  PROVE  \A n \in Machine : MachineOK(n)'
  <1> DEFINE f == file[m]
  <1>0. BootTypeOK /\ MachineOK(m)
    BY DEF BootInv
  <1>1. Elsewhere(m)
    BY <1>0, Domains DEF FetchForeign, Elsewhere
  <1>2. /\ stage[m] = "fetch" /\ Foreign(f) /\ stage'[m] = "custom"
        /\ UNCHANGED <<conf, objects, rom, program, chain, file, seen, faults>>
    BY <1>0, Domains DEF FetchForeign
  <1>3. /\ View(m)' = View(m) /\ (Bootable(m)' <=> Bootable(m))
        /\ (OwnBootFile(m)' <=> OwnBootFile(m)) /\ (BinaryAsScript(m)' <=> BinaryAsScript(m))
        /\ \A g : ToldIPXE(m, g)' <=> ToldIPXE(m, g)
    BY <1>2, OwnFrame
  <1>4. f # Nil /\ Told(m, f) /\ f.host # Nil
    BY <1>0, <1>2 DEF MachineOK, FileOK, Foreign
  <1>5. /\ OwnBootFile(m) \/ \E v \in seen[m] : v = Nil \/ v.netboot.allow
        /\ OwnBootFile(m) \/ (program[m] = "Tinkerbell" => ToldIPXE(m, f))
    BY <1>4 DEF Told
  <1>6. FileOK(m)'
    BY <1>2, <1>3, <1>5 DEF FileOK
  <1>7. SeenOK(m)' /\ ChainOK(m)' /\ ScriptOK(m)'
    BY <1>0, <1>2, <1>3 DEF MachineOK, SeenOK, ChainOK, ScriptOK
  <1>8. ~Clear(m)
    <2> SUFFICES ASSUME Clear(m) PROVE FALSE
      OBVIOUS
    <2>1. LeadsOn(m, f)
      BY <1>0, <1>2 DEF MachineOK, WayOK
    <2>2. f # ScriptFor(m)
      BY <1>0, <1>2, ScriptForIs DEF Foreign
    <2> QED BY <1>2, <2>1, <2>2 DEF LeadsOn
  <1>9. WayOK(m)'
    BY <1>2, <1>3, <1>8 DEF Clear, WayOK
  <1>10. \A q \in packets' : q.mac = m => RequestOK(q)' /\ ReplyOK(q)'
    BY <1>2 DEF RequestOK, ReplyOK, Asking
  <1>11. MachineOK(m)'
    BY <1>6, <1>7, <1>9, <1>10 DEF MachineOK
  <1> QED BY <1>1, <1>11, ElsewhereOK

\* The script is made of the object that the machine's request finds.
LEMMA FetchScriptOK ==
  ASSUME BootInv, NEW m \in Machine, FetchScript(m)
  PROVE  \A n \in Machine : MachineOK(n)'
  <1> DEFINE f == file[m]
             a == ScriptHandler(conf, AllObjects, Req(m))
             boots == a.script.kind \in {"hook", "static"}
  <1>0. BootTypeOK /\ MachineOK(m)
    BY DEF BootInv
  <1>1. Elsewhere(m)
    BY <1>0, Domains DEF FetchScript, Elsewhere
  <1>2. /\ stage[m] = "fetch" /\ IsScript(f)
        /\ stage'[m] = IF a.status = 200 THEN IF boots THEN "load" ELSE "custom" ELSE "disk"
        /\ a.status = 200 => script'[m] = a.script
        /\ UNCHANGED <<conf, objects, rom, program, chain, file, seen, faults>>
    BY <1>0, Domains DEF FetchScript
  <1>3. /\ View(m)' = View(m) /\ (Bootable(m)' <=> Bootable(m))
        /\ (OwnBootFile(m)' <=> OwnBootFile(m)) /\ (BinaryAsScript(m)' <=> BinaryAsScript(m))
        /\ \A g : ToldIPXE(m, g)' <=> ToldIPXE(m, g)
    BY <1>2, OwnFrame
  <1>4. f # Nil /\ Told(m, f) /\ f.name = "auto.ipxe" /\ View(m) \in seen[m]
    BY <1>0, <1>2 DEF MachineOK, SeenOK, FileOK, IsScript
  <1>5. /\ OwnBootFile(m) \/ \E v \in seen[m] : v = Nil \/ v.netboot.allow
        /\ OwnBootFile(m) \/ (program[m] = "Tinkerbell" => ToldIPXE(m, f))
    BY <1>4 DEF Told
  <1>6. FileOK(m)'
    BY <1>2, <1>3, <1>4, <1>5 DEF FileOK
  <1>7. SeenOK(m)' /\ ChainOK(m)'
    BY <1>0, <1>2, <1>3 DEF MachineOK, SeenOK, ChainOK
  <1>8. Identifies(m, f) /\ a.status = 200 /\ boots => WorkerIn(m, a.script) = WorkerOf(m, View(m))
    BY <1>0, ScriptWorker
  <1>9. Clear(m) => a.status = 200 /\ boots
    <2> SUFFICES ASSUME Clear(m) PROVE a.status = 200 /\ boots
      OBVIOUS
    <2>1. LeadsOn(m, f) /\ Bootable(m)
      BY <1>0, <1>2 DEF MachineOK, WayOK, Clear
    <2>2. f = ScriptFor(m)
      BY <1>4, <2>1 DEF LeadsOn, Files
    <2> QED BY <1>0, <2>1, <2>2, ScriptIsServed
  <1> HIDE DEF a, boots
  <1>10. ScriptOK(m)'
    <2>1. stage'[m] # "osie" /\ (stage'[m] = "load" => a.status = 200 /\ boots)
      BY <1>2
    <2>2. stage'[m] = "load" /\ Identifies(m, file'[m]) => WorkerIn(m, script'[m]) = WorkerOf(m, View(m))
      BY <1>2, <1>8, <2>1
    <2> QED BY <1>2, <1>4, <2>1, <2>2 DEF ScriptOK, WorkerIn, WorkerOf, Identifies
  <1>11. WayOK(m)'
    <2>1. Clear(m)' => Clear(m)
      BY <1>2, <1>3 DEF Clear
    <2> QED BY <1>2, <1>9, <2>1 DEF WayOK, Asking
  <1>12. \A q \in packets' : q.mac = m => RequestOK(q)' /\ ReplyOK(q)'
    BY <1>2 DEF RequestOK, ReplyOK, Asking
  <1>13. MachineOK(m)'
    BY <1>6, <1>7, <1>10, <1>11, <1>12 DEF MachineOK
  <1> QED BY <1>1, <1>13, ElsewhereOK

\* A download that is cut is a fault.
LEMMA FetchFailsOK ==
  ASSUME BootInv, NEW m \in Machine, FetchFails(m)
  PROVE  \A n \in Machine : MachineOK(n)'
  <1>0. BootTypeOK /\ MachineOK(m)
    BY DEF BootInv
  <1>1. faults \in Nat /\ faults' = faults + 1
    BY <1>0, Bounds DEF BootTypeOK, FetchFails
  <1>2. Elsewhere(m)
    BY <1>0, <1>1, Domains DEF FetchFails, Elsewhere
  <1>3. /\ stage[m] = "fetch" /\ stage'[m] = "disk"
        /\ UNCHANGED <<conf, objects, rom, program, chain, seen>>
    BY <1>0, Domains DEF FetchFails
  <1>4. View(m)' = View(m) /\ (OwnBootFile(m)' <=> OwnBootFile(m)) /\ (BinaryAsScript(m)' <=> BinaryAsScript(m))
    BY <1>3, OwnFrame
  <1>5. SeenOK(m)' /\ FileOK(m)' /\ ChainOK(m)' /\ ScriptOK(m)'
    BY <1>0, <1>3, <1>4 DEF MachineOK, SeenOK, FileOK, ChainOK, ScriptOK
  <1>6. WayOK(m)'
    BY <1>1 DEF WayOK, Clear
  <1>7. \A q \in packets' : q.mac = m => RequestOK(q)' /\ ReplyOK(q)'
    BY <1>3 DEF RequestOK, ReplyOK, Asking
  <1>8. MachineOK(m)'
    BY <1>5, <1>6, <1>7 DEF MachineOK
  <1> QED BY <1>2, <1>8, ElsewhereOK

\* The OSIE runs under the worker id of the script.
LEMMA LoadPartOK ==
  ASSUME BootInv, NEW m \in Machine, LoadPart(m)
  PROVE  \A n \in Machine : MachineOK(n)'
  <1>0. BootTypeOK /\ MachineOK(m)
    BY DEF BootInv
  <1>1. Elsewhere(m)
    BY <1>0, Domains DEF LoadPart, Elsewhere
  <1>2. /\ stage[m] = "load" /\ stage'[m] \in {"load", "osie"}
        /\ stage'[m] = "osie" => worker'[m] = WorkerIn(m, script[m])
        /\ UNCHANGED <<conf, objects, rom, program, chain, file, script, seen, faults>>
    BY <1>0, Domains DEF LoadPart, WorkerIn
  <1>3. /\ View(m)' = View(m) /\ (Bootable(m)' <=> Bootable(m))
        /\ (OwnBootFile(m)' <=> OwnBootFile(m)) /\ (BinaryAsScript(m)' <=> BinaryAsScript(m))
        /\ \A g : ToldIPXE(m, g)' <=> ToldIPXE(m, g)
    BY <1>2, OwnFrame
  <1>4. SeenOK(m)' /\ ChainOK(m)' /\ FileOK(m)'
    BY <1>0, <1>2, <1>3 DEF MachineOK, SeenOK, ChainOK, FileOK
  <1>5. ScriptOK(m)'
    <2>1. Identifies(m, file[m]) => \E v \in seen[m] : WorkerIn(m, script[m]) = WorkerOf(m, v)
      BY <1>0, <1>2 DEF MachineOK, ScriptOK
    <2> QED BY <1>2, <2>1 DEF ScriptOK, Identifies, WorkerOf, WorkerIn
  <1>6. WayOK(m)' /\ \A q \in packets' : q.mac = m => RequestOK(q)' /\ ReplyOK(q)'
    BY <1>2 DEF WayOK, RequestOK, ReplyOK, Asking
  <1>7. MachineOK(m)'
    BY <1>4, <1>5, <1>6 DEF MachineOK
  <1> QED BY <1>1, <1>7, ElsewhereOK

\* A load that fails is a fault, tried again or not.
LEMMA LoadFailsOK ==
  ASSUME BootInv, NEW m \in Machine, LoadFails(m)
  PROVE  \A n \in Machine : MachineOK(n)'
  <1>0. BootTypeOK /\ MachineOK(m)
    BY DEF BootInv
  <1>1. faults' # 0
    <2>1. faults \in Nat
      BY <1>0, Bounds DEF BootTypeOK
    <2> QED BY <2>1, Bounds DEF LoadFails, Lost
  <1>2. Elsewhere(m)
    BY <1>0, <1>1, Domains DEF LoadFails, Elsewhere
  <1>3. /\ stage'[m] \in {"load", "disk"} /\ stage[m] = "load"
        /\ UNCHANGED <<conf, objects, rom, program, chain, xid, file, script, worker, seen, packets>>
    BY <1>0, Domains DEF LoadFails
  <1>4. CASE stage'[m] = "load"
    <2>1. Untouched(m)
      BY <1>1, <1>3, <1>4 DEF Untouched
    <2>2. MachineOK(m)'
      BY <1>0, <2>1, UntouchedOK
    <2> QED BY <1>2, <2>2, ElsewhereOK
  <1>5. CASE stage'[m] = "disk"
    <2>1. View(m)' = View(m) /\ (OwnBootFile(m)' <=> OwnBootFile(m)) /\ (BinaryAsScript(m)' <=> BinaryAsScript(m))
      BY <1>3, OwnFrame
    <2>2. SeenOK(m)' /\ FileOK(m)' /\ ChainOK(m)' /\ ScriptOK(m)'
      BY <1>0, <1>3, <1>5, <2>1 DEF MachineOK, SeenOK, FileOK, ChainOK, ScriptOK
    <2>3. WayOK(m)'
      BY <1>1 DEF WayOK, Clear
    <2>4. \A q \in packets' : q.mac = m => RequestOK(q)' /\ ReplyOK(q)'
      BY <1>5 DEF RequestOK, ReplyOK, Asking
    <2>5. MachineOK(m)'
      BY <2>2, <2>3, <2>4 DEF MachineOK
    <2> QED BY <1>2, <2>5, ElsewhereOK
  <1> QED BY <1>3, <1>4, <1>5

\* An ISO takes the machine out of the boot over DHCP.
LEMMA BootISOOK ==
  ASSUME BootInv, NEW m \in Machine, BootISO(m)
  PROVE  \A n \in Machine : MachineOK(n)'
  <1>0. BootTypeOK /\ MachineOK(m)
    BY DEF BootInv
  <1>1. Elsewhere(m)
    BY <1>0, Domains DEF BootISO, Elsewhere
  <1>2. /\ stage[m] = "init" /\ stage'[m] \in {"isoOsie", "isoRefused"}
        /\ UNCHANGED <<conf, objects, rom, program, chain, seen>>
    BY <1>0, Domains DEF BootISO
  <1>3. View(m)' = View(m) /\ (OwnBootFile(m)' <=> OwnBootFile(m)) /\ (BinaryAsScript(m)' <=> BinaryAsScript(m))
    BY <1>2, OwnFrame
  <1>4. SeenOK(m)' /\ FileOK(m)' /\ ChainOK(m)'
    BY <1>0, <1>2, <1>3 DEF MachineOK, SeenOK, FileOK, ChainOK
  <1>5. WayOK(m)' /\ \A q \in packets' : q.mac = m => RequestOK(q)' /\ ReplyOK(q)'
    BY <1>2 DEF WayOK, RequestOK, ReplyOK, Asking
  <1>6. ScriptOK(m)'
    <2> SUFFICES ASSUME stage'[m] = "isoOsie" PROVE worker'[m] = m /\ \E v \in seen[m] : v # Nil
      BY <1>2 DEF ScriptOK
    <2> DEFINE req == [File("hook.iso") EXCEPT !.dir = MacDir(m)]
               a == ISOHandler(conf, AllObjects, req)
    <2>1. req.dir = MacDir(m) /\ MacDir(m).of = m
      BY DEF File, MacDir
    <2>2. a.status = 200 /\ worker'[m] = a.patch.worker
      BY <1>0, Domains DEF BootISO
    <2> HIDE DEF req
    <2>3. a.patch.worker = m /\ View(m) # Nil
      BY <2>1, <2>2 DEF ISOHandler, constructPatch, View
    <2> QED BY <1>0, <1>2, <2>2, <2>3 DEF MachineOK, SeenOK
  <1>7. MachineOK(m)'
    BY <1>4, <1>5, <1>6 DEF MachineOK
  <1> QED BY <1>1, <1>7, ElsewhereOK

\* What the objects say from now on is added to what they said.
LEMMA ChangeHardwareOK ==
  ASSUME BootInv, NEW m \in Machine, ChangeHardware(m)
  PROVE  \A n \in Machine : MachineOK(n)'
  <1> TAKE n \in Machine
  <1>0. BootTypeOK /\ MachineOK(n)
    BY DEF BootInv
  <1>1. UNCHANGED <<conf, rom, stage, program, chain, xid, file, script, worker, packets, faults>>
    BY DEF ChangeHardware, machineVars
  <1>2. seen'[n] = IF stage[n] = "off" THEN {} ELSE seen[n] \cup {View(n)'}
    BY DEF ChangeHardware, View, AllObjects
  <1>3. CASE stage[n] = "off"
    <2>1. ~Asking(n)' /\ chain[n] = 0 /\ ~Clear(n)'
      BY <1>0, <1>1, <1>3 DEF Asking, MachineOK, ChainOK, Clear
    <2>2. SeenOK(n)' /\ FileOK(n)' /\ ChainOK(n)' /\ ScriptOK(n)'
      BY <1>1, <1>3, <2>1 DEF SeenOK, FileOK, ChainOK, ScriptOK
    <2>3. WayOK(n)' /\ \A q \in packets' : q.mac = n => RequestOK(q)' /\ ReplyOK(q)'
      BY <2>1 DEF WayOK, RequestOK, ReplyOK
    <2> QED BY <2>2, <2>3 DEF MachineOK
  <1>4. CASE stage[n] # "off"
    <2>1. seen'[n] = seen[n] \cup {View(n)'} /\ View(n) \in seen[n]
      BY <1>0, <1>2, <1>4 DEF MachineOK, SeenOK
    <2>2. /\ OwnBootFile(n) => OwnBootFile(n)'
          /\ OwnScripts(n) \subseteq OwnScripts(n)'
          /\ ScriptFor(n)' = ScriptFor(n)
      BY <1>1, <2>1 DEF OwnBootFile, OwnScripts, ScriptFor
    <2>3. BinaryAsScript(n) => BinaryAsScript(n)'
      BY <1>1, <2>2 DEF BinaryAsScript
    <2>4. ASSUME NEW f
          PROVE  (ToldIPXE(n, f) => ToldIPXE(n, f)') /\ (Told(n, f) => Told(n, f)')
      <3>1. ToldIPXE(n, f) => ToldIPXE(n, f)'
        BY <2>2 DEF ToldIPXE
      <3> QED BY <1>1, <2>1, <2>2, <3>1 DEF Told
    <2>5. SeenOK(n)' /\ ChainOK(n)'
      BY <1>0, <1>1, <2>1, <2>2, <2>3 DEF MachineOK, SeenOK, ChainOK
    <2>6. FileOK(n)'
      BY <1>0, <1>1, <2>1, <2>2, <2>4 DEF MachineOK, FileOK
    <2>7. ScriptOK(n)'
      BY <1>0, <1>1, <2>1 DEF MachineOK, ScriptOK, Identifies, WorkerIn, WorkerOf
    <2>8. WayOK(n)'
      <3> SUFFICES ASSUME Clear(n)' PROVE WayOK(n)'
        BY DEF WayOK
      <3>1. seen'[n] = {View(n)'} /\ faults = 0 /\ Bootable(n)'
        BY <1>1 DEF Clear
      <3>2. View(n)' = View(n) /\ seen[n] = {View(n)}
        BY <2>1, <3>1
      <3>3. Bootable(n)
        BY <1>1, <3>1, <3>2, BootableFrame
      <3>4. Clear(n)
        BY <1>4, <3>1, <3>2, <3>3 DEF Clear
      <3>5. seen'[n] = seen[n]
        BY <3>1, <3>2
      <3>6. \A f : LeadsOn(n, f)' <=> LeadsOn(n, f)
        BY <1>1, <3>5, SeenFrame
      <3>7. Asking(n)' <=> Asking(n)
        BY <1>1 DEF Asking
      <3> QED BY <1>0, <1>1, <3>4, <3>6, <3>7 DEF MachineOK, WayOK
    <2>9. ASSUME NEW q \in packets', q.mac = n
          PROVE  RequestOK(q)' /\ ReplyOK(q)'
      <3>1. RequestOK(q) /\ ReplyOK(q)
        BY <1>0, <1>1, <2>9 DEF MachineOK
      <3>2. \A type, id : Request(n, type, id)' = Request(n, type, id)
        BY <1>1 DEF Request
      <3>3. Asking(n)' <=> Asking(n)
        BY <1>1 DEF Asking
      <3> QED BY <1>1, <2>4, <2>9, <3>1, <3>2, <3>3 DEF RequestOK, ReplyOK
    <2> QED BY <2>5, <2>6, <2>7, <2>8, <2>9 DEF MachineOK
  <1> QED BY <1>3, <1>4

-----------------------------------------------------------------------------
(* The theorems                                                            *)

\* The initial states satisfy the invariant.
LEMMA BootInvInit == BootInit => BootInv
  <1> SUFFICES ASSUME BootInit PROVE BootInv
    OBVIOUS
  <1>1. BootTypeOK
    BY BootTypeInit
  <1>2. packets = {} /\ \A m \in Machine : stage[m] = "off" /\ chain[m] = 0
    BY DEF BootInit
  <1>3. \A m \in Machine : SeenOK(m) /\ FileOK(m) /\ ChainOK(m) /\ ScriptOK(m) /\ WayOK(m)
    BY <1>2 DEF SeenOK, FileOK, ChainOK, ScriptOK, WayOK, Clear
  <1> QED BY <1>1, <1>2, <1>3 DEF BootInv, MachineOK

\* Every step keeps the invariant.
LEMMA BootInvStep ==
  ASSUME BootInv, [BootNext]_bootVars
  PROVE  BootInv'
  <1>1. BootTypeOK'
    BY BootTypeStep DEF BootInv
  <1>2. CASE UNCHANGED bootVars
    <2>1. \A m \in Machine : Untouched(m)
      BY <1>2 DEF Untouched, bootVars
    <2>2. \A m \in Machine : MachineOK(m)'
      BY <2>1, UntouchedOK DEF BootInv
    <2> QED BY <1>1, <2>2 DEF BootInv
  <1>3. CASE BootNext
    <2>1. \A m \in Machine : MachineOK(m)'
      <3>1. CASE \E p \in packets : HandlePacket(p) \/ LosePacket(p)
        BY <3>1, HandlePacketOK, LosePacketOK
      <3>2. ASSUME NEW n \in Machine,
                   \/ PowerOn(n) \/ SendDiscover(n) \/ Offered(n) \/ Acknowledged(n) \/ NoAnswer(n)
                   \/ FetchFile(n) \/ FetchForeign(n) \/ FetchScript(n) \/ FetchFails(n)
                   \/ LoadPart(n) \/ LoadFails(n) \/ BootISO(n) \/ ChangeHardware(n)
            PROVE  \A m \in Machine : MachineOK(m)'
        BY <3>2, PowerOnOK, SendDiscoverOK, OfferedOK, AcknowledgedOK, NoAnswerOK, FetchFileOK,
           FetchForeignOK, FetchScriptOK, FetchFailsOK, LoadPartOK, LoadFailsOK, BootISOOK,
           ChangeHardwareOK
      <3> QED BY <1>3, <3>1, <3>2 DEF BootNext
    <2> QED BY <1>1, <2>1 DEF BootInv
  <1> QED BY <1>2, <1>3

\* The invariant: what a machine is told is bound to the transaction and the
\* program that asked and to what its objects said since it was powered on.
THEOREM BootInvariance == BootSpec => []BootInv
  <1>1. BootInit => BootInv
    BY BootInvInit
  <1>2. BootInv /\ [BootNext]_bootVars => BootInv'
    BY BootInvStep
  <1> QED BY <1>1, <1>2, PTL DEF BootSpec

\* The types: no packet of a transaction that was not begun, no worker id
\* without an OSIE, no retry beyond the script's counter.
THEOREM NetworkBootTypeCorrect == BootSpec => []BootTypeOK
  <1>1. BootInv => BootTypeOK
    BY DEF BootInv
  <1> QED BY <1>1, BootInvariance, PTL

\* Bootfile's switch gets a machine out of the iPXE loop: with any firmware,
\* mode and objects, through lost and late packets, Smee has a machine load
\* one iPXE binary at most, unless an operator named a second one.
THEOREM NoBootLoop == BootSpec => []LoopFree
  <1>1. BootInv => LoopFree
    BY DEF BootInv, MachineOK, ChainOK, LoopFree
  <1> QED BY <1>1, BootInvariance, PTL

\* A machine that may netboot is answered by every service on its way: none
\* of them sends it elsewhere while nothing is lost and nothing changes.
THEOREM BootableMachinesBoot == BootSpec => []BootableBoots
  <1>1. BootInv => BootableBoots
    BY DEF BootInv, MachineOK, WayOK, Clear, BootableBoots
  <1> QED BY <1>1, BootInvariance, PTL

\* allowPXE = false keeps a machine out that boots over DHCP, although two
\* services decide it at two moments; its Agent comes up under the id its
\* object gives it; our iPXE asks for the script of its own machine; and what
\* boots from the ISO has an object and runs under its MAC.
THEOREM BootIsAsTold == BootSpec => []BootsAsTold
  <1>1. ASSUME BootInv
        PROVE  DeniedStaysOut
    BY <1>1 DEF BootInv, MachineOK, FileOK, DeniedStaysOut
  <1>2. ASSUME BootInv
        PROVE  AgentIdentity
    <2> SUFFICES ASSUME NEW m \in Machine, NEW id \in {v.agentID : v \in seen[m] \ {Nil}},
                        stage[m] = "osie", Identifies(m, file[m]),
                        \A v \in seen[m] : v # Nil /\ v.agentID = id
                 PROVE  worker[m] = IF id # Nil THEN id ELSE m
      BY DEF AgentIdentity
    <2>1. PICK v \in seen[m] : worker[m] = WorkerOf(m, v)
      BY <1>2 DEF BootInv, MachineOK, ScriptOK
    <2> QED BY <2>1 DEF WorkerOf
  <1>3. ASSUME BootInv
        PROVE  ScriptIsOwn
    <2> SUFFICES ASSUME NEW m \in Machine, stage[m] \in {"load", "osie"}, program[m] = "Tinkerbell",
                        conf.injectMac, ~OwnBootFile(m), OwnScripts(m) = {}
                 PROVE  Identifies(m, file[m])
      BY DEF ScriptIsOwn
    <2>1. file[m] = ScriptFor(m) \/ file[m] = File("no-ipxe-script-defined")
      BY <1>3 DEF BootInv, MachineOK, FileOK, ToldIPXE
    <2>2. file[m].name = "auto.ipxe"
      BY <1>3 DEF BootInv, MachineOK, FileOK
    <2>3. file[m] = ScriptFor(m)
      BY <2>1, <2>2 DEF File
    <2>4. conf \in Configs
      BY <1>3 DEF BootInv, BootTypeOK
    <2>5. DOMAIN conf.scriptURL = {"scheme", "host", "dir", "name", "trace"}
      BY <2>4, ShapeAssumption DEF File
    <2>6. file[m].dir = MacDir(m)
      BY <2>3, <2>5 DEF ScriptFor
    <2>7. ParsesAsMAC(MacDir(m)) /\ MacDir(m).of = m
      <3>1. MacDir(m) # Nil
        BY FileAssumption
      <3> QED BY <3>1 DEF ParsesAsMAC, MacDir
    <2> QED BY <2>6, <2>7 DEF Identifies
  <1>4. ASSUME BootInv
        PROVE  IsoByMac
    BY <1>4 DEF BootInv, MachineOK, ScriptOK, IsoByMac
  <1>5. BootInv => BootsAsTold
    BY <1>1, <1>2, <1>3, <1>4 DEF BootsAsTold
  <1> QED BY <1>5, BootInvariance, PTL

=============================================================================
