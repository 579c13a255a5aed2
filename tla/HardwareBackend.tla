--------------------------- MODULE HardwareBackend ---------------------------
(***************************************************************************)
(* Where the services read Hardware from and write it to (pkg/backend):    *)
(* the file backend with its watcher, the lookups of the file and of the   *)
(* Kubernetes backend, and the two writers of one Hardware object, the     *)
(* tink server's patch with the attributes of an agent and the             *)
(* controller's update of allowPXE.                                        *)
(***************************************************************************)
EXTENDS Naturals, Sequences, FiniteSets

CONSTANTS Contents,      \* what the file may hold: [yaml : whether it parses, list]; list a
                         \* sequence of [ns, name, agent, instance, nics : set of [mac, ip]]
          Filters,       \* lookups: [ns, by, value], by one of the selectors
          Folded(_),     \* strings.ToLower of a MAC address
          MaxWrites,     \* writes of the file
          MaxHbFaults,   \* reads that fail
          MaxToggles     \* changes of allowPXE

ASSUME HbAssumption ==
  /\ MaxWrites \in Nat /\ MaxHbFaults \in Nat /\ MaxToggles \in Nat
  /\ \A c \in Contents : DOMAIN c.list = 1..Len(c.list) /\ Len(c.list) \in Nat
  /\ \A f \in Filters :
       f.value # "" /\ f.by \in {"name", "agent", "mac", "ip", "instance"}

VARIABLES hbFile,      \* the content under the path
          hbWatched,   \* the watch is on the file under the path
          hbEvents,    \* fsnotify events not handled yet
          hbRead,      \* the content read for an event, <<>> when none is in hand
          hbData,      \* Watcher.data
          hbMissed,    \* a read failed and nothing was read since
          hbWrites, hbFaults,
          hbObj,       \* the Hardware object in the cluster
          hbSeen,      \* the copy each writer works on
          hbToggles,
          hbWritten    \* what each writer last wrote with success

hbVars == <<hbFile, hbWatched, hbEvents, hbRead, hbData, hbMissed, hbWrites, hbFaults,
            hbObj, hbSeen, hbToggles, hbWritten>>

hbFileVars == <<hbFile, hbWatched, hbEvents, hbRead, hbData, hbMissed, hbWrites, hbFaults>>
hbObjVars == <<hbObj, hbSeen, hbToggles, hbWritten>>

NoCopy == [rv |-> 0, allowPXE |-> 0, attributes |-> ""]

\* NewWatcher watches the file, then reads it.
HbInit ==
  /\ hbFile \in Contents /\ hbWatched = TRUE /\ hbEvents = <<>> /\ hbRead = <<>>
  /\ hbData = hbFile /\ hbMissed = FALSE /\ hbWrites = 0 /\ hbFaults = 0
  /\ hbObj = [rv |-> 1, allowPXE |-> 0, attributes |-> ""]
  /\ hbSeen = [w \in {"server", "controller"} |-> NoCopy]
  /\ hbToggles = 0 /\ hbWritten = [allowPXE |-> 0, attributes |-> ""]

-----------------------------------------------------------------------------
(* The file and its watcher.                                               *)

\* Someone writes the file in place: it is truncated and then written, each
\* of which is an event while the watch is on it.
WriteInPlace(c) ==
  /\ hbWrites < MaxWrites /\ hbWrites' = hbWrites + 1
  /\ hbFile' = c
  /\ hbEvents' = IF hbWatched THEN Append(hbEvents, "write") ELSE hbEvents
  /\ UNCHANGED <<hbWatched, hbRead, hbData, hbMissed, hbFaults, hbObjVars>>

\* Someone puts a new file in its place: the watch stays with the old one.
ReplaceFile(c) ==
  /\ hbWrites < MaxWrites /\ hbWrites' = hbWrites + 1
  /\ hbFile' = c /\ hbWatched' = FALSE
  /\ hbEvents' = IF hbWatched THEN Append(hbEvents, "remove") ELSE hbEvents
  /\ UNCHANGED <<hbRead, hbData, hbMissed, hbFaults, hbObjVars>>

\* Start: an event is received; only a write makes it read the file.
WatchEvent ==
  /\ hbRead = <<>> /\ hbEvents # <<>> /\ hbEvents' = Tail(hbEvents)
  /\ IF Head(hbEvents) # "write"
     THEN UNCHANGED <<hbRead, hbMissed, hbFaults>>
     ELSE \/ hbRead' = <<hbFile>> /\ hbMissed' = FALSE /\ UNCHANGED hbFaults
          \/ /\ hbFaults < MaxHbFaults /\ hbFaults' = hbFaults + 1
             /\ hbMissed' = TRUE /\ UNCHANGED hbRead
  /\ UNCHANGED <<hbFile, hbWatched, hbData, hbWrites, hbObjVars>>

\* A mutant of StoreData: the events that came meanwhile are taken as handled.
StoreDataDraining ==
  /\ hbRead # <<>>
  /\ hbData' = hbRead[1] /\ hbRead' = <<>> /\ hbEvents' = <<>>
  /\ UNCHANGED <<hbFile, hbWatched, hbMissed, hbWrites, hbFaults, hbObjVars>>

StoreData ==
  /\ hbRead # <<>>
  /\ hbData' = hbRead[1] /\ hbRead' = <<>>
  /\ UNCHANGED <<hbFile, hbWatched, hbEvents, hbMissed, hbWrites, hbFaults, hbObjVars>>

-----------------------------------------------------------------------------
(* Lookups.  A selector that is not set is "".                             *)

hardwareHasMAC(hw, mac) == \E n \in hw.nics : Folded(n.mac) = Folded(mac)
hardwareHasIP(hw, ip) == \E n \in hw.nics : n.ip = ip

\* A mutant of matchHardware: one selector is enough.
MatchesAny(hw, f) ==
  \/ f.ns # "" /\ hw.ns = f.ns
  \/ f.by = "name" /\ hw.name = f.value
  \/ f.by = "agent" /\ hw.agent = f.value
  \/ f.by = "mac" /\ hardwareHasMAC(hw, f.value)
  \/ f.by = "ip" /\ hardwareHasIP(hw, f.value)
  \/ f.by = "instance" /\ hw.instance = f.value

\* All selectors that are set match, and at least one besides the namespace is.
matchHardware(hw, f) ==
  /\ f.ns = "" \/ hw.ns = f.ns
  /\ f.value # ""
  /\ f.by = "name" => hw.name = f.value
  /\ f.by = "agent" => hw.agent = f.value
  /\ f.by = "mac" => hardwareHasMAC(hw, f.value)
  /\ f.by = "ip" => hardwareHasIP(hw, f.value)
  /\ f.by = "instance" => hw.instance = f.value

\* The values the indexes of the Kubernetes backend hold for an object.
GetMACs(hw) == {n.mac : n \in {m \in hw.nics : m.mac # ""}}
Indexed(hw, by) ==
  CASE by = "mac" -> GetMACs(hw)
    [] by = "ip" -> {n.ip : n \in {m \in hw.nics : m.ip # ""}}
    [] by = "name" -> {hw.name}
    [] by = "agent" -> {hw.agent} \ {""}
    [] by = "instance" -> {hw.instance} \ {""}

hardwareListOptions(hw, f) == (f.ns = "" \/ hw.ns = f.ns) /\ f.value \in Indexed(hw, f.by)

\* FilterHardware: exactly one match is an answer, the position of the object.
Answer(matches) ==
  [found |-> matches, err |-> CASE matches = {} -> "notFound"
                                [] Cardinality(matches) = 1 -> ""
                                [] OTHER -> "multiple"]

FileFilterHardware(content, f) ==
  IF ~content.yaml THEN [found |-> {}, err |-> "format"]
  ELSE Answer({i \in DOMAIN content.list : matchHardware(content.list[i], f)})

KubeFilterHardware(list, f) == Answer({i \in DOMAIN list : hardwareListOptions(list[i], f)})

\* ReadHardware: the file's first object of the name, any namespace when the
\* caller gives none; the cluster reads the key (namespace, name).
FileReadHardware(content, ns, name) ==
  LET found == {i \in DOMAIN content.list :
                  (ns = "" \/ content.list[i].ns = ns) /\ content.list[i].name = name}
  IN IF ~content.yaml THEN [found |-> {}, err |-> "format"]
     ELSE [found |-> {i \in found : \A j \in found : i <= j},
           err |-> IF found = {} THEN "notFound" ELSE ""]

KubeReadHardware(list, ns, name) ==
  LET found == {i \in DOMAIN list : list[i].ns = ns /\ list[i].name = name}
  IN [found |-> found, err |-> IF found = {} THEN "notFound" ELSE ""]

-----------------------------------------------------------------------------
(* Two writers of one object.                                              *)

\* A writer reads the object, from a cache: some version of it.
ReadObject(w) ==
  /\ hbSeen[w].rv < hbObj.rv
  /\ hbSeen' = [hbSeen EXCEPT ![w] = hbObj]
  /\ UNCHANGED <<hbFileVars, hbObj, hbToggles, hbWritten>>

\* A mutant of patchFromOpts: the patch carries the whole object.
PatchOfAll(original, changed) == [changed EXCEPT !.rv = hbObj.rv + 1]

\* client.MergeFrom: the patch carries the fields in which they differ.
patchFromOpts(original, changed) ==
  [rv |-> hbObj.rv + 1,
   allowPXE |-> IF changed.allowPXE # original.allowPXE THEN changed.allowPXE ELSE hbObj.allowPXE,
   attributes |-> IF changed.attributes # original.attributes THEN changed.attributes
                  ELSE hbObj.attributes]

\* updateHardwareWithAttributes: an object that has attributes keeps them.
UpdateHardwareWithAttributes ==
  /\ LET hw == hbSeen["server"]
     IN /\ hw # NoCopy /\ hw.attributes = ""
        /\ hbObj' = patchFromOpts(hw, [hw EXCEPT !.attributes = "a"])
  /\ hbWritten' = [hbWritten EXCEPT !.attributes = "a"]
  /\ hbSeen' = [hbSeen EXCEPT !["server"] = NoCopy]
  /\ UNCHANGED <<hbFileVars, hbToggles>>

\* setAllowPXE: a full update, refused when the copy is not the newest; the
\* object is then read again.
SetAllowPXE ==
  /\ hbToggles < MaxToggles /\ hbSeen["controller"] # NoCopy
  /\ IF hbSeen["controller"].rv = hbObj.rv
     THEN /\ hbObj' = [hbSeen["controller"] EXCEPT !.rv = @ + 1, !.allowPXE = hbToggles + 1]
          /\ hbWritten' = [hbWritten EXCEPT !.allowPXE = hbToggles + 1]
          /\ hbToggles' = hbToggles + 1
     ELSE UNCHANGED <<hbObj, hbWritten, hbToggles>>
  /\ hbSeen' = [hbSeen EXCEPT !["controller"] = NoCopy]
  /\ UNCHANGED hbFileVars

HbNext ==
  \/ \E c \in Contents : WriteInPlace(c) \/ ReplaceFile(c)
  \/ WatchEvent \/ StoreData
  \/ \E w \in {"server", "controller"} : ReadObject(w)
  \/ UpdateHardwareWithAttributes \/ SetAllowPXE

HbSpec == HbInit /\ [][HbNext]_hbVars

-----------------------------------------------------------------------------

HbTypeOK ==
  /\ hbFile \in Contents /\ hbData \in Contents
  /\ hbEvents \in Seq({"write", "remove"}) /\ Len(hbRead) <= 1
  /\ hbObj.rv \in Nat

\* Once the watcher has caught up it serves what the file holds, whatever
\* was written while it read, as long as the file was not replaced and its
\* last read succeeded.
FileFollowed ==
  hbWatched /\ hbEvents = <<>> /\ hbRead = <<>> /\ ~hbMissed => hbData = hbFile

OnePerKey(list) ==
  \A i, j \in DOMAIN list :
    list[i].ns = list[j].ns /\ list[i].name = list[j].name => i = j

\* Smee, Tootles and the others find the same Hardware whichever backend
\* serves the same objects: MAC addresses being lower case in the cluster,
\* which holds one object under a namespace and a name.
BackendsAgree ==
  hbData.yaml =>
    \A f \in Filters :
      (f.by = "mac" => \A i \in DOMAIN hbData.list : \A n \in hbData.list[i].nics :
                         n.mac = Folded(n.mac) /\ f.value = Folded(f.value))
        => /\ FileFilterHardware(hbData, f) = KubeFilterHardware(hbData.list, f)
           /\ f.by = "name" /\ f.ns # "" /\ OnePerKey(hbData.list)
                => FileReadHardware(hbData, f.ns, f.value) = KubeReadHardware(hbData.list, f.ns, f.value)

\* Neither the server's attributes nor the controller's allowPXE is undone by
\* the other's write, however stale the copies they start from.
WritesKept ==
  hbObj.allowPXE = hbWritten.allowPXE /\ hbObj.attributes = hbWritten.attributes

\* A lookup answers from the objects as they are, whichever backend holds
\* them, and no writer loses what another one wrote.
BackendServes == FileFollowed /\ BackendsAgree /\ WritesKept
=============================================================================
