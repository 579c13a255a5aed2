-------------------------- MODULE OperationsProofs --------------------------
(***************************************************************************)
(* Proofs about what operators look at: the Machine and the Hardware that  *)
(* Rufio keeps up to date (RufioMachines), the consoles that sessions      *)
(* share (SecondStar) and the pages of the Web UI (WebUI).                 *)
(***************************************************************************)
EXTENDS RufioMachines, SecondStar, WebUI, FiniteSetTheorems, TLAPS

-----------------------------------------------------------------------------
(* Machines.                                                               *)

Powers == {"", "on", "off", "unknown"}
MachineRecords ==
    [power : Powers, contactable : {"", "True", "False"}, refresh : BOOLEAN, gone : BOOLEAN]

\* The devices and the methods a collection can have stored.
Devices == {<<attributesFromDevice(poll)>> : poll \in Polls} \cup {<< >>}
Methods == {poll.provider : poll \in Polls} \cup {""}
AttributeRecords == [stored : BOOLEAN, updated : Nat, method : Methods, device : Devices]

RmTyped ==
    /\ RmTypeOK
    /\ rmMachine \in MachineRecords /\ rmCache \in MachineRecords /\ rmWatch \in Seq(MachineRecords)
    /\ rmBm \in MachineRecords /\ rmOrig \in MachineRecords /\ rmQueued \in BOOLEAN
    /\ rmAttrs \in AttributeRecords /\ rmAttrsSeen \in AttributeRecords /\ rmHw \in AttributeRecords
    /\ rmStale \in BOOLEAN /\ rmNow \in Nat /\ rmCollected \in Nat
    /\ rmAttrsSeen.updated <= rmNow /\ rmHw.updated <= rmNow

\* The cache is on its way to the object: the last version it will be told of
\* is the one the API server has.
Arriving ==
    IF rmWatch = << >> THEN rmCache = rmMachine ELSE rmWatch[Len(rmWatch)] = rmMachine

\* Another reconcile is to come.
Again == rmQueued \/ rmWatch # << >>

\* The reconcile in progress works on the Machine as it is, or another one
\* follows it.
Current ==
    rmStep # "idle" =>
      /\ rmOrig = rmMachine \/ Again
      /\ rmStep # "status" => rmBm.refresh = rmOrig.refresh
      /\ rmStep = "clear" => rmBm.refresh
      /\ rmStep \notin {"connect", "power"} => rmBm.power = rmRead \/ Again

RmInv == RmTyped /\ Arriving /\ Current /\ PowerShown /\ InventoryKept

-----------------------------------------------------------------------------
(* The values a step writes.                                               *)

\* One field of a Machine is set.
LEMMA MachineSet ==
  ASSUME NEW m \in MachineRecords
  PROVE /\ \A b \in BOOLEAN : /\ [m EXCEPT !.refresh = b] \in MachineRecords
                              /\ [m EXCEPT !.refresh = b].refresh = b
                              /\ [m EXCEPT !.refresh = b].power = m.power
                              /\ [m EXCEPT !.refresh = b].gone = m.gone
                              /\ [m EXCEPT !.gone = b] \in MachineRecords
                              /\ [m EXCEPT !.gone = b].gone = b
        /\ \A p \in Powers, c \in {"", "True", "False"} :
             /\ [m EXCEPT !.power = p, !.contactable = c] \in MachineRecords
             /\ [m EXCEPT !.power = p, !.contactable = c].power = p
             /\ [m EXCEPT !.power = p, !.contactable = c].refresh = m.refresh
             /\ [m EXCEPT !.power = p, !.contactable = c].gone = m.gone
             /\ [[m EXCEPT !.contactable = c] EXCEPT !.power = p]
                  = [m EXCEPT !.power = p, !.contactable = c]
BY DEF MachineRecords

\* The last version on its way to the cache, after a write and after a delivery.
LEMMA WatchFacts ==
  ASSUME NEW watch \in Seq(MachineRecords), NEW m \in MachineRecords
  PROVE /\ Append(watch, m) \in Seq(MachineRecords) /\ Append(watch, m) # << >>
        /\ Append(watch, m)[Len(Append(watch, m))] = m
        /\ watch # << >> =>
             /\ Head(watch) \in MachineRecords /\ Tail(watch) \in Seq(MachineRecords)
             /\ Tail(watch) = << >> => Head(watch) = watch[Len(watch)]
             /\ Tail(watch) # << >> => Tail(watch)[Len(Tail(watch))] = watch[Len(watch)]
BY SMT

\* A write to the Machine keeps the cache on its way to it, and is an event
\* where it changes something.
LEMMA StoredArrives ==
  ASSUME RmTyped, Arriving, NEW m \in MachineRecords, Stored(m), rmCache' = rmCache
  PROVE /\ rmMachine' = m /\ rmMachine' \in MachineRecords
        /\ rmWatch' \in Seq(MachineRecords) /\ Arriving'
        /\ m # rmMachine => rmWatch' # << >>
        /\ rmWatch # << >> => rmWatch' # << >>
<1>1. CASE m = rmMachine
  BY <1>1 DEF Stored, RmTyped, Arriving
<1>2. CASE m # rmMachine
  <2>1. rmMachine' = m /\ rmWatch' = Append(rmWatch, m)
    BY <1>2 DEF Stored
  <2>2. rmWatch \in Seq(MachineRecords)
    BY DEF RmTyped
  <2> QED BY <1>2, <2>1, <2>2, WatchFacts DEF Arriving
<1> QED BY <1>1, <1>2

\* What ClearRefreshInventoryAnnotation and PatchStatus write.
LEMMA ClearWrites ==
  ASSUME RmTyped, rmStep = "clear",
         Stored([rmMachine EXCEPT !.refresh = FALSE]),
         rmBm' = [rmBm EXCEPT !.refresh = FALSE,
                              !.power = IF rmMachine.power = "" THEN @ ELSE rmMachine.power,
                              !.contactable = IF rmMachine.contactable = "" THEN @
                                              ELSE rmMachine.contactable]
  PROVE rmBm' \in MachineRecords
BY DEF RmTyped, MachineRecords

\* The status patch: the machine with the fields that differ from the base.
PatchedMachine ==
    [rmMachine EXCEPT !.power = IF rmBm.power = rmOrig.power THEN @ ELSE rmBm.power,
                      !.contactable = IF rmBm.contactable = rmOrig.contactable THEN @
                                      ELSE rmBm.contactable]

\* What a patch leaves in the Machine.
LEMMA PatchWrites ==
  ASSUME RmTyped
  PROVE /\ PatchedMachine \in MachineRecords
        /\ PatchedMachine.power = IF rmBm.power = rmOrig.power THEN rmMachine.power ELSE rmBm.power
BY DEF RmTyped, MachineRecords, PatchedMachine

\* What a collection stores.
LEMMA ApplyWrites ==
  ASSUME RmTyped, NEW poll \in Polls
  PROVE /\ applyOutOfBandAttributes(poll) \in AttributeRecords
        /\ applyOutOfBandAttributes(poll).updated <= rmNow
        /\ poll.answer = "none" => applyOutOfBandAttributes(poll).device = rmHw.device
        /\ poll.answer # "none" /\ rmHw = rmAttrs
             => applyOutOfBandAttributes(poll).device = <<attributesFromDevice(poll)>>
<1> DEFINE device == <<attributesFromDevice(poll)>>
<1> DEFINE collected == [rmHw EXCEPT !.method = poll.provider, !.device = device]
<1>1. device \in Devices /\ poll.provider \in Methods
  BY DEF Devices, Methods
<1>2. /\ rmHw \in AttributeRecords /\ rmAttrs \in AttributeRecords /\ rmNow \in Nat
      /\ rmAttrs.updated <= rmNow
  BY DEF RmTyped, RmTypeOK
<1>3. applyOutOfBandAttributes(poll) =
        IF poll.answer = "none"
        THEN [rmHw EXCEPT !.stored = TRUE, !.updated = rmNow, !.method = poll.provider]
        ELSE IF rmHw.stored /\ collected = rmHw THEN rmAttrs
        ELSE [collected EXCEPT !.stored = TRUE, !.updated = rmNow]
  BY DEF applyOutOfBandAttributes
<1>4. PICK m \in Methods : m = poll.provider
  BY <1>1
<1>5. PICK dev \in Devices : dev = device
  BY <1>1
<1>6. /\ [rmHw EXCEPT !.stored = TRUE, !.updated = rmNow, !.method = m] \in AttributeRecords
      /\ [rmHw EXCEPT !.stored = TRUE, !.updated = rmNow, !.method = m].updated = rmNow
      /\ [rmHw EXCEPT !.stored = TRUE, !.updated = rmNow, !.method = m].device = rmHw.device
  BY <1>2 DEF AttributeRecords
<1>7. PICK c : c = [rmHw EXCEPT !.method = m, !.device = dev]
  OBVIOUS
<1>8. c \in AttributeRecords /\ c.device = dev
  BY <1>2, <1>7 DEF AttributeRecords
<1>9. /\ [c EXCEPT !.stored = TRUE, !.updated = rmNow] \in AttributeRecords
      /\ [c EXCEPT !.stored = TRUE, !.updated = rmNow].updated = rmNow
      /\ [c EXCEPT !.stored = TRUE, !.updated = rmNow].device = dev
  BY <1>2, <1>8 DEF AttributeRecords
<1>10. applyOutOfBandAttributes(poll) =
        IF poll.answer = "none" THEN [rmHw EXCEPT !.stored = TRUE, !.updated = rmNow, !.method = m]
        ELSE IF rmHw.stored /\ c = rmHw THEN rmAttrs
        ELSE [c EXCEPT !.stored = TRUE, !.updated = rmNow]
  BY <1>3, <1>4, <1>5, <1>7
<1>11. rmNow <= rmNow
  BY <1>2
<1> HIDE DEF device, collected
<1>12. CASE poll.answer = "none"
  BY <1>6, <1>10, <1>11, <1>12
<1>13. CASE poll.answer # "none" /\ rmHw.stored /\ c = rmHw
  BY <1>2, <1>5, <1>8, <1>10, <1>13 DEF device
<1>14. CASE poll.answer # "none" /\ ~(rmHw.stored /\ c = rmHw)
  BY <1>5, <1>9, <1>10, <1>11, <1>14 DEF device
<1> QED BY <1>12, <1>13, <1>14

-----------------------------------------------------------------------------
(* The types of a step.                                                    *)

\* The Machine and its copies, part of RmTyped.
MachineTyped ==
    /\ rmMachine \in MachineRecords /\ rmCache \in MachineRecords /\ rmWatch \in Seq(MachineRecords)
    /\ rmBm \in MachineRecords /\ rmOrig \in MachineRecords /\ rmQueued \in BOOLEAN

\* The Hardware and the clock, part of RmTyped.
HardwareTyped ==
    /\ rmAttrs \in AttributeRecords /\ rmAttrsSeen \in AttributeRecords /\ rmHw \in AttributeRecords
    /\ rmStale \in BOOLEAN /\ rmNow \in Nat /\ rmCollected \in Nat
    /\ rmAttrs.updated <= rmNow /\ rmCollected <= rmNow
    /\ rmAttrsSeen.updated <= rmNow /\ rmHw.updated <= rmNow

\* The place of the reconcile, part of RmTyped.
StepTyped ==
    /\ rmCase \in Cases
    /\ rmStep \in {"idle", "connect", "power", "inventory", "collect", "clear", "status"}
    /\ rmStep \in {"idle", "connect"} => rmConn = NoConn

\* The power in a Machine is one of the power states.
LEMMA TypedParts == RmTyped <=> MachineTyped /\ HardwareTyped /\ StepTyped
<1>1. rmMachine \in MachineRecords => rmMachine.power \in {"", "on", "off", "unknown"}
  BY DEF MachineRecords, Powers
<1> QED BY <1>1 DEF RmTyped, RmTypeOK, MachineTyped, HardwareTyped, StepTyped

\* The Machine a user makes.
LEMMA NewMachineIsRecord == NewMachine \in MachineRecords
BY DEF NewMachine, MachineRecords, Powers

\* A Hardware without attributes.
LEMMA NoAttributesIsRecord == NoAttributes \in AttributeRecords /\ NoAttributes.updated = 0
BY DEF NoAttributes, AttributeRecords, Devices, Methods

\* The power and the condition that a reconcile sets.
LEMMA ReadingIsRecord ==
  ASSUME NEW m \in MachineRecords, NEW p \in {"on", "off", "unknown"}, NEW c \in {"True", "False"}
  PROVE /\ [SetCondition(m, c) EXCEPT !.power = p] \in MachineRecords
        /\ [SetCondition(m, c) EXCEPT !.power = p].power = p
        /\ [SetCondition(m, c) EXCEPT !.power = p].refresh = m.refresh
BY DEF SetCondition, MachineRecords, Powers

\* The Machine in the cache, in hand and in the server.
LEMMA MachineTypedStep ==
  ASSUME RmTyped, Arriving, RmNext
  PROVE MachineTyped' /\ Arriving'
<1> USE DEF rmMachineVars, rmRecVars
<1>0. MachineTyped
  BY TypedParts
<1>1. CASE ReconcileMachine
  BY <1>0, <1>1 DEF ReconcileMachine, MachineTyped, Arriving
<1>2. CASE SecretsMissing
  BY <1>0, <1>2 DEF SecretsMissing, MachineTyped, Arriving
<1>3. CASE Connected
  BY <1>0, <1>3 DEF Connected, MachineTyped, Arriving
<1>4. CASE ConnectionFails
  <2>1. rmBm' \in MachineRecords
    BY <1>0, <1>4, ReadingIsRecord DEF ConnectionFails, MachineTyped
  <2> QED BY <1>0, <1>4, <2>1 DEF ConnectionFails, MachineTyped, Arriving
<1>5. CASE UpdatePowerState
  <2>1. PICK p \in {"on", "off", "unknown"}, c \in {"True", "False"} :
          rmBm' = [SetCondition(rmBm, c) EXCEPT !.power = p]
    BY <1>5 DEF UpdatePowerState, toPowerState
  <2>2. rmBm' \in MachineRecords
    BY <1>0, <2>1, ReadingIsRecord DEF MachineTyped
  <2> QED BY <1>0, <1>5, <2>2 DEF UpdatePowerState, MachineTyped, Arriving
<1>6. CASE InventoryDue
  BY <1>0, <1>6 DEF InventoryDue, MachineTyped, Arriving
<1>7. CASE \E poll \in Polls : CollectInventory(poll)
  BY <1>0, <1>7 DEF CollectInventory, MachineTyped, Arriving
<1>8. CASE CollectFails
  BY <1>0, <1>8 DEF CollectFails, MachineTyped, Arriving
<1>9. CASE ClearRefreshInventoryAnnotation
  <2>1. /\ rmStep = "clear" /\ rmCache' = rmCache /\ rmOrig' = rmOrig /\ rmQueued' = rmQueued
    BY <1>9 DEF ClearRefreshInventoryAnnotation
  <2>2. CASE Stored([rmMachine EXCEPT !.refresh = FALSE]) /\ ~UNCHANGED <<rmMachine, rmWatch>>
    <3>1. [rmMachine EXCEPT !.refresh = FALSE] \in MachineRecords
      BY <1>0, MachineSet DEF MachineTyped
    <3>2. rmBm' \in MachineRecords
      BY <1>9, <2>2, ClearWrites DEF ClearRefreshInventoryAnnotation
    <3> QED BY <1>0, <2>1, <2>2, <3>1, <3>2, StoredArrives DEF MachineTyped
  <2>3. CASE UNCHANGED <<rmMachine, rmWatch>>
    <3>1. CASE rmBm' = [rmBm EXCEPT !.refresh = FALSE]
      BY <1>0, <2>1, <2>3, <3>1, MachineSet DEF MachineTyped, Arriving
    <3>2. CASE rmBm' # [rmBm EXCEPT !.refresh = FALSE]
      <4>1. rmBm' \in MachineRecords
        BY <1>9, <3>2, ClearWrites DEF ClearRefreshInventoryAnnotation
      <4> QED BY <1>0, <2>1, <2>3, <4>1 DEF MachineTyped, Arriving
    <3> QED BY <3>1, <3>2
  <2> QED BY <1>9, <2>2, <2>3 DEF ClearRefreshInventoryAnnotation
<1>10. CASE PatchStatus
  <2>1. rmCache' = rmCache /\ rmBm' = NewMachine /\ rmOrig' = NewMachine /\ rmQueued' \in BOOLEAN
    BY <1>0, <1>10 DEF PatchStatus, MachineTyped
  <2>2. Stored(PatchedMachine) \/ UNCHANGED <<rmMachine, rmWatch>>
    BY <1>10 DEF PatchStatus, PatchedMachine
  <2>3. CASE Stored(PatchedMachine)
    BY <1>0, <2>1, <2>3, PatchWrites, StoredArrives, NewMachineIsRecord DEF MachineTyped
  <2>4. CASE UNCHANGED <<rmMachine, rmWatch>>
    BY <1>0, <2>1, <2>4, NewMachineIsRecord DEF MachineTyped, Arriving
  <2> QED BY <2>2, <2>3, <2>4
<1>11. CASE DeliverMachine
  BY <1>0, <1>11, WatchFacts DEF DeliverMachine, MachineTyped, Arriving
<1>12. CASE DeliverHardware
  BY <1>0, <1>12 DEF DeliverHardware, MachineTyped, Arriving
<1>13. CASE RequeueTimer
  BY <1>0, <1>13 DEF RequeueTimer, MachineTyped, Arriving
<1>14. CASE Tick
  BY <1>0, <1>14 DEF Tick, MachineTyped, Arriving
<1>15. CASE MachineUser
  <2>1. rmCache' = rmCache /\ rmBm' = rmBm /\ rmOrig' = rmOrig /\ rmQueued' = rmQueued
    BY <1>15 DEF MachineUser
  <2>2. CASE UNCHANGED <<rmMachine, rmWatch>>
    BY <1>0, <2>1, <2>2 DEF MachineTyped, Arriving
  <2>3. CASE ~UNCHANGED <<rmMachine, rmWatch>>
    <3>1. PICK m \in MachineRecords : Stored(m)
      BY <1>0, <1>15, <2>3, MachineSet DEF MachineUser, MachineTyped
    <3> QED BY <1>0, <2>1, <3>1, StoredArrives DEF MachineTyped
  <2> QED BY <2>2, <2>3
<1> QED
  BY <1>1, <1>2, <1>3, <1>4, <1>5, <1>6, <1>7, <1>8, <1>9, <1>10, <1>11, <1>12, <1>13, <1>14, <1>15
  DEF RmNext

\* The Hardware, the clock and the place of the reconcile.
LEMMA HardwareTypedStep ==
  ASSUME RmTyped, RmNext
  PROVE HardwareTyped' /\ StepTyped'
<1> USE DEF rmMachineVars, rmRecVars, rmHwVars, rmSeenVars, rmEnvVars, Goto
<1>0. HardwareTyped /\ StepTyped
  BY TypedParts
<1>1. CASE ReconcileMachine
  BY <1>0, <1>1 DEF ReconcileMachine, HardwareTyped, StepTyped
<1>2. CASE SecretsMissing
  BY <1>0, <1>2 DEF SecretsMissing, HardwareTyped, StepTyped
<1>3. CASE Connected
  BY <1>0, <1>3 DEF Connected, HardwareTyped, StepTyped
<1>4. CASE ConnectionFails
  BY <1>0, <1>4 DEF ConnectionFails, HardwareTyped, StepTyped
<1>5. CASE UpdatePowerState
  BY <1>0, <1>5 DEF UpdatePowerState, HardwareTyped, StepTyped
<1>6. CASE InventoryDue
  <2>1. /\ rmStep' \in {"collect", "status"} /\ rmHw' \in {rmAttrsSeen, rmHw}
        /\ UNCHANGED <<rmCase, rmAttrs, rmAttrsSeen, rmCollected, rmStale, rmNow>>
    BY <1>6 DEF InventoryDue
  <2> QED BY <1>0, <2>1 DEF HardwareTyped, StepTyped
<1>7. CASE \E poll \in Polls : CollectInventory(poll)
  <2>1. PICK poll \in Polls : CollectInventory(poll)
    BY <1>7
  <2>2. /\ rmAttrs' = applyOutOfBandAttributes(poll) /\ rmStale' \in BOOLEAN /\ rmCollected' = rmNow
        /\ UNCHANGED <<rmCase, rmAttrsSeen, rmHw, rmNow>> /\ rmStep' \in {"clear", "status"}
    BY <2>1 DEF CollectInventory
  <2>3. rmNow <= rmNow
    BY <1>0 DEF HardwareTyped
  <2> QED BY <1>0, <2>2, <2>3, ApplyWrites DEF HardwareTyped, StepTyped
<1>8. CASE CollectFails
  BY <1>0, <1>8 DEF CollectFails, HardwareTyped, StepTyped
<1>9. CASE ClearRefreshInventoryAnnotation
  <2>1. rmStep' = "status" /\ UNCHANGED <<rmCase, rmHwVars, rmCollected, rmStale, rmNow>>
    BY <1>9 DEF ClearRefreshInventoryAnnotation
  <2> QED BY <1>0, <2>1 DEF HardwareTyped, StepTyped
<1>10. CASE PatchStatus
  <2>1. /\ rmStep' = "idle" /\ rmConn' = NoConn /\ rmHw' = NoAttributes
        /\ UNCHANGED <<rmCase, rmAttrs, rmAttrsSeen, rmCollected, rmStale, rmNow>>
    BY <1>10 DEF PatchStatus
  <2>2. 0 <= rmNow
    BY <1>0 DEF HardwareTyped
  <2> QED BY <1>0, <2>1, <2>2, NoAttributesIsRecord DEF HardwareTyped, StepTyped
<1>11. CASE DeliverMachine
  BY <1>0, <1>11 DEF DeliverMachine, HardwareTyped, StepTyped
<1>12. CASE DeliverHardware
  BY <1>0, <1>12 DEF DeliverHardware, HardwareTyped, StepTyped
<1>13. CASE RequeueTimer
  BY <1>0, <1>13 DEF RequeueTimer, HardwareTyped, StepTyped
<1>14. CASE Tick
  <2>1. /\ rmNow' = rmNow + 1
        /\ UNCHANGED <<rmCase, rmStep, rmConn, rmAttrs, rmAttrsSeen, rmHw, rmCollected, rmStale>>
    BY <1>14 DEF Tick
  <2>2. rmAttrs.updated \in Nat /\ rmAttrsSeen.updated \in Nat /\ rmHw.updated \in Nat
    BY <1>0 DEF HardwareTyped, AttributeRecords
  <2>3. \A n \in Nat : n <= rmNow => n <= rmNow + 1
    BY <1>0 DEF HardwareTyped
  <2> QED BY <1>0, <2>1, <2>2, <2>3 DEF HardwareTyped, StepTyped
<1>15. CASE MachineUser
  BY <1>0, <1>15 DEF MachineUser, HardwareTyped, StepTyped
<1> QED
  BY <1>1, <1>2, <1>3, <1>4, <1>5, <1>6, <1>7, <1>8, <1>9, <1>10, <1>11, <1>12, <1>13, <1>14, <1>15
  DEF RmNext

-----------------------------------------------------------------------------
(* The power that is shown.                                                *)

\* The reconcile works on the Machine as it is or is followed by another, so
\* that what it read is what the Machine shows when nothing is left to do.
LEMMA PowerShownStep ==
  ASSUME RmTyped, Arriving, Current, PowerShown, RmNext
  PROVE Current' /\ PowerShown'
<1> USE DEF rmMachineVars, rmRecVars, rmSeenVars, Goto, Again
<1>0. MachineTyped
  BY TypedParts
<1>1. CASE ReconcileMachine
  BY <1>0, <1>1 DEF ReconcileMachine, MachineTyped, Arriving, Current, PowerShown
<1>2. CASE SecretsMissing
  BY <1>0, <1>2 DEF SecretsMissing, MachineTyped, Current, PowerShown
<1>3. CASE Connected
  BY <1>0, <1>3 DEF Connected, MachineTyped, Current, PowerShown
<1>4. CASE ConnectionFails
  BY <1>0, <1>4, ReadingIsRecord DEF ConnectionFails, MachineTyped, Current, PowerShown
<1>5. CASE UpdatePowerState
  <2>1. PICK p \in {"on", "off", "unknown"}, c \in {"True", "False"} :
          rmBm' = [SetCondition(rmBm, c) EXCEPT !.power = p] /\ rmRead' = p
    BY <1>5 DEF UpdatePowerState, toPowerState
  <2>2. rmBm \in MachineRecords
    BY <1>0 DEF MachineTyped
  <2>3. /\ [SetCondition(rmBm, c) EXCEPT !.power = p].power = p
        /\ [SetCondition(rmBm, c) EXCEPT !.power = p].refresh = rmBm.refresh
    BY <2>2 DEF SetCondition, MachineRecords
  <2>4. rmBm'.power = rmRead' /\ rmBm'.refresh = rmBm.refresh
    BY <2>1, <2>3, Zenon
  <2> QED BY <1>0, <1>5, <2>4 DEF UpdatePowerState, MachineTyped, Current, PowerShown
<1>6. CASE InventoryDue
  <2>1. /\ rmStep = "inventory" /\ rmStep' \in {"collect", "status"}
        /\ UNCHANGED <<rmMachineVars, rmBm, rmOrig, rmRead>>
    BY <1>6 DEF InventoryDue
  <2> QED BY <1>0, <2>1 DEF MachineTyped, Current, PowerShown
<1>7. CASE \E poll \in Polls : CollectInventory(poll)
  <2>1. /\ rmStep = "collect" /\ rmStep' = IF rmBm.refresh THEN "clear" ELSE "status"
        /\ UNCHANGED <<rmMachineVars, rmBm, rmOrig, rmRead>>
    BY <1>7 DEF CollectInventory
  <2> QED BY <1>0, <2>1 DEF MachineTyped, Current, PowerShown
<1>8. CASE CollectFails
  BY <1>0, <1>8 DEF CollectFails, MachineTyped, Current, PowerShown
<1>9. CASE ClearRefreshInventoryAnnotation
  <2>1. /\ rmStep = "clear" /\ rmStep' = "status" /\ rmCache' = rmCache /\ rmOrig' = rmOrig
        /\ rmQueued' = rmQueued /\ rmRead' = rmRead
    BY <1>9 DEF ClearRefreshInventoryAnnotation
  <2>2. CASE Stored([rmMachine EXCEPT !.refresh = FALSE])
    <3> DEFINE cleared == [rmMachine EXCEPT !.refresh = FALSE]
    <3>1. cleared \in MachineRecords /\ cleared.refresh = FALSE
      BY <1>0, MachineSet DEF MachineTyped
    <3>2. rmOrig = rmMachine \/ rmQueued \/ rmWatch # << >>
      BY <2>1 DEF Current
    <3>3. rmOrig.refresh
      BY <2>1 DEF Current
    <3> HIDE DEF cleared
    <3>4. cleared # rmMachine => rmWatch' # << >>
      BY <2>1, <2>2, <3>1, StoredArrives DEF cleared
    <3>5. rmWatch # << >> => rmWatch' # << >>
      BY <2>1, <2>2, <3>1, StoredArrives DEF cleared
    <3>6. Again'
      BY <2>1, <3>1, <3>2, <3>3, <3>4, <3>5
    <3> QED BY <2>1, <3>6 DEF Current, PowerShown
  <2>3. CASE rmBm' = [rmBm EXCEPT !.refresh = FALSE] /\ UNCHANGED <<rmMachine, rmWatch>>
    <3>1. rmBm'.power = rmBm.power
      BY <1>0, <2>3, MachineSet DEF MachineTyped
    <3> QED BY <2>1, <2>3, <3>1 DEF Current, PowerShown
  <2> QED BY <1>9, <2>2, <2>3 DEF ClearRefreshInventoryAnnotation
<1>10. CASE PatchStatus
  <2>1. rmStep = "status" /\ rmStep' = "idle" /\ rmCache' = rmCache /\ rmRead' = rmRead
    BY <1>10 DEF PatchStatus
  <2>2. \/ Stored(PatchedMachine) /\ rmQueued' = rmQueued
        \/ rmQueued'
    BY <1>10 DEF PatchStatus, PatchedMachine
  <2>3. CASE Stored(PatchedMachine) /\ rmQueued' = rmQueued
    <3>1. /\ rmMachine' = PatchedMachine
          /\ rmWatch # << >> => rmWatch' # << >>
      BY <2>1, <2>3, PatchWrites, StoredArrives
    <3>2. (rmOrig = rmMachine /\ rmBm.power = rmRead) \/ Again
      BY <2>1 DEF Current
    <3>3. rmOrig = rmMachine /\ rmBm.power = rmRead => PatchedMachine.power = rmRead
      BY PatchWrites
    <3> QED BY <2>1, <2>3, <3>1, <3>2, <3>3 DEF Current, PowerShown
  <2>4. CASE rmQueued'
    BY <2>1, <2>4 DEF Current, PowerShown
  <2> QED BY <2>2, <2>3, <2>4
<1>11. CASE DeliverMachine
  BY <1>0, <1>11 DEF DeliverMachine, MachineTyped, Current, PowerShown
<1>12. CASE DeliverHardware
  BY <1>0, <1>12 DEF DeliverHardware, MachineTyped, Current, PowerShown
<1>13. CASE RequeueTimer
  BY <1>0, <1>13 DEF RequeueTimer, MachineTyped, Current, PowerShown
<1>14. CASE Tick
  BY <1>0, <1>14 DEF Tick, MachineTyped, Current, PowerShown
<1>15. CASE MachineUser
  <2>1. UNCHANGED <<rmCache, rmQueued, rmStep, rmBm, rmOrig, rmRead>>
    BY <1>15 DEF MachineUser
  <2>2. CASE UNCHANGED <<rmMachine, rmWatch>>
    BY <1>0, <2>1, <2>2 DEF MachineTyped, Current, PowerShown
  <2>3. CASE ~UNCHANGED <<rmMachine, rmWatch>>
    <3>1. rmMachine \in MachineRecords
      BY <1>0 DEF MachineTyped
    <3>2. \/ ~rmMachine.refresh /\ Stored([rmMachine EXCEPT !.refresh = TRUE])
          \/ ~rmMachine.gone /\ Stored([rmMachine EXCEPT !.gone = TRUE])
      BY <1>15, <2>3 DEF MachineUser
    <3>3. /\ [rmMachine EXCEPT !.refresh = TRUE] \in MachineRecords
          /\ [rmMachine EXCEPT !.refresh = TRUE].refresh
          /\ [rmMachine EXCEPT !.gone = TRUE] \in MachineRecords
          /\ [rmMachine EXCEPT !.gone = TRUE].gone
      BY <3>1, MachineSet
    <3>4. PICK m \in MachineRecords : Stored(m) /\ m # rmMachine
      BY <3>2, <3>3, Zenon
    <3>5. rmWatch' # << >>
      BY <2>1, <3>4, StoredArrives
    <3> QED BY <2>1, <3>5 DEF Current, PowerShown
  <2> QED BY <2>2, <2>3
<1> QED
  BY <1>1, <1>2, <1>3, <1>4, <1>5, <1>6, <1>7, <1>8, <1>9, <1>10, <1>11, <1>12, <1>13, <1>14, <1>15
  DEF RmNext

\* Only a collection writes the Hardware: what it writes has the device it
\* reports, or the one that was there.
LEMMA InventoryStep ==
  ASSUME RmTyped, InventoryKept, RmNext
  PROVE InventoryKept'
<1> USE DEF rmHwVars, rmSeenVars
<1>1. CASE \E poll \in Polls : CollectInventory(poll)
  <2>1. PICK poll \in Polls : CollectInventory(poll)
    BY <1>1
  <2>2. /\ rmAttrs' = applyOutOfBandAttributes(poll)
        /\ rmStale' = (rmHw # rmAttrs \/ (rmStale /\ poll.answer = "none"))
        /\ rmReported' = IF poll.answer = "none" THEN rmReported ELSE <<attributesFromDevice(poll)>>
    BY <2>1 DEF CollectInventory
  <2>3. /\ poll.answer = "none" => rmAttrs'.device = rmHw.device
        /\ poll.answer # "none" /\ rmHw = rmAttrs => rmAttrs'.device = <<attributesFromDevice(poll)>>
    BY <2>2, ApplyWrites
  <2> QED BY <2>2, <2>3 DEF InventoryKept
<1>2. CASE ~\E poll \in Polls : CollectInventory(poll)
  <2>1. UNCHANGED <<rmAttrs, rmReported, rmStale>>
    BY <1>2 DEF RmNext, ReconcileMachine, SecretsMissing, Connected, ConnectionFails,
                UpdatePowerState, InventoryDue, CollectFails, ClearRefreshInventoryAnnotation,
                PatchStatus, DeliverMachine, DeliverHardware, RequeueTimer, Tick, MachineUser
  <2> QED BY <2>1 DEF InventoryKept
<1> QED BY <1>1, <1>2

-----------------------------------------------------------------------------

\* RmInv holds of every reachable state of the Machine reconciler, whatever
\* the inventories, the intervals and the faults: the cache is on its way to
\* the object, and a reconcile that works on an older one has another to come.
THEOREM MachineInvariance == RmSpec => []RmInv
<1>1. RmInit => RmInv
  <2> SUFFICES ASSUME RmInit PROVE RmInv
    OBVIOUS
  <2>1. MachineTyped /\ Arriving
    <3>1. << >> \in Seq(MachineRecords)
      OBVIOUS
    <3> QED BY <3>1, NewMachineIsRecord DEF RmInit, MachineTyped, Arriving
  <2>2. HardwareTyped /\ StepTyped
    <3>1. 0 \in Nat /\ 1 \in Nat /\ 0 <= 1
      OBVIOUS
    <3> QED BY <3>1, NoAttributesIsRecord DEF RmInit, HardwareTyped, StepTyped
  <2>3. Current /\ PowerShown
    BY DEF RmInit, Current, PowerShown
  <2>4. InventoryKept
    BY DEF RmInit, InventoryKept, NoAttributes
  <2> QED BY <2>1, <2>2, <2>3, <2>4, TypedParts DEF RmInv
<1>2. RmInv /\ [RmNext]_rmVars => RmInv'
  <2>1. CASE RmInv /\ RmNext
    <3>1. RmTyped /\ Arriving /\ Current /\ PowerShown /\ InventoryKept
      BY <2>1 DEF RmInv
    <3>2. MachineTyped' /\ Arriving'
      BY <2>1, <3>1, MachineTypedStep
    <3>3. HardwareTyped' /\ StepTyped'
      BY <2>1, <3>1, HardwareTypedStep
    <3>4. Current' /\ PowerShown'
      BY <2>1, <3>1, PowerShownStep
    <3>5. InventoryKept'
      BY <2>1, <3>1, InventoryStep
    <3>6. RmTyped'
      BY <3>2, <3>3, TypedParts, PTL
    <3> QED BY <3>2, <3>4, <3>5, <3>6 DEF RmInv
  <2>2. CASE RmInv /\ UNCHANGED rmVars
    BY <2>2 DEF RmInv, rmVars, rmMachineVars, rmRecVars, rmHwVars, rmSeenVars, rmEnvVars, RmTyped,
                RmTypeOK, Arriving, Current, Again, PowerShown, InventoryKept
  <2> QED BY <2>1, <2>2
<1> QED BY <1>1, <1>2, PTL DEF RmSpec

\* The types of the Machine, the Hardware and the reconcile in every reachable
\* state, whatever the BMC answers.
THEOREM MachineTypeCorrect == RmSpec => []RmTypeOK
<1>1. RmInv => RmTypeOK
  BY DEF RmInv, RmTyped
<1> QED BY <1>1, MachineInvariance, PTL

\* Once nothing is queued or on its way, the Machine shows the power last
\* read, also after a refresh whose patch answered with an older status, and
\* the Hardware has the last device that was reported.
THEOREM MachineIsShown == RmSpec => []MachineShown
<1>1. RmInv => MachineShown
  BY DEF RmInv, MachineShown
<1> QED BY <1>1, MachineInvariance, PTL

-----------------------------------------------------------------------------
(* Consoles.                                                               *)

\* A session of the machine is at one of the places.
SomeoneAt(u, places) == \E s \in Sessions : UserOf(s) = u /\ ssAt[s] \in places

\* A State that is stored, and a console that is active, have a session that
\* has yet to remove it, unless the last deactivation failed.
ConsolesHeld ==
  \A u \in SsMachines :
    /\ ssStore[u] # SsNone => SomeoneAt(u, {"serving", "signal", "wait"})
    /\ ssSol[u] # SsNone /\ ~ssStuck[u] => SomeoneAt(u, {"started", "serving", "signal", "wait", "deactivate"})

SsTyped ==
  /\ DOMAIN ssAt = Sessions /\ ssStore \in [SsMachines -> Sessions \cup {SsNone}]
  /\ ssSol \in [SsMachines -> Sessions \cup {SsNone}] /\ ssStuck \in [SsMachines -> BOOLEAN]

SsInv == SsTyped /\ ConsolesHeld

-----------------------------------------------------------------------------

\* The places at which a stored State, and an active console, are held.
StoreHeld == {"serving", "signal", "wait"}
SolHeld == {"started", "serving", "signal", "wait", "deactivate"}

\* A step of one session that neither leaves the places that hold something
\* nor stores or activates anything.
LEMMA QuietSession ==
  ASSUME SsInv, ssStore' = ssStore, ssStuck' = ssStuck, DOMAIN ssAt' = Sessions,
         \A u \in SsMachines : ssSol'[u] = ssSol[u] \/ ssSol'[u] = SsNone,
         ssSol' \in [SsMachines -> Sessions \cup {SsNone}],
         \A s \in Sessions : ssAt[s] \in StoreHeld => ssAt'[s] \in StoreHeld,
         \A s \in Sessions : ssAt[s] \in SolHeld => ssAt'[s] \in SolHeld
  PROVE SsInv'
<1>1. SsTyped'
  BY DEF SsInv, SsTyped
<1>2. ASSUME NEW u \in SsMachines
      PROVE /\ ssStore'[u] # SsNone => SomeoneAt(u, StoreHeld)'
            /\ ssSol'[u] # SsNone /\ ~ssStuck'[u] => SomeoneAt(u, SolHeld)'
  <2>1. /\ ssStore[u] # SsNone => SomeoneAt(u, StoreHeld)
        /\ ssSol[u] # SsNone /\ ~ssStuck[u] => SomeoneAt(u, SolHeld)
    BY DEF SsInv, ConsolesHeld, StoreHeld, SolHeld
  <2>2. SomeoneAt(u, StoreHeld) => SomeoneAt(u, StoreHeld)'
    BY DEF SomeoneAt
  <2>3. SomeoneAt(u, SolHeld) => SomeoneAt(u, SolHeld)'
    BY DEF SomeoneAt
  <2> QED BY <2>1, <2>2, <2>3
<1> QED BY <1>1, <1>2 DEF SsInv, ConsolesHeld, StoreHeld, SolHeld

\* Where one session goes from one place to another.
Moves(s, from, to) == ssAt[s] = from /\ ssAt' = [ssAt EXCEPT ![s] = to]

\* A session that moves without touching the console.
LEMMA QuietMove ==
  ASSUME SsInv, NEW s \in Sessions, NEW from, NEW to, Moves(s, from, to),
         ssStore' = ssStore, ssSol' = ssSol, ssStuck' = ssStuck,
         from \in StoreHeld => to \in StoreHeld, from \in SolHeld => to \in SolHeld
  PROVE SsInv'
<1>1. DOMAIN ssAt' = Sessions /\ \A t \in Sessions : ssAt'[t] = IF t = s THEN to ELSE ssAt[t]
  BY DEF SsInv, SsTyped, Moves
<1> QED BY <1>1, QuietSession DEF Moves, SsInv, SsTyped

\* A step that moves no session and leaves the States and consoles alone.
LEMMA QuietStutter ==
  ASSUME SsInv, ssAt' = ssAt, ssStore' = ssStore, ssSol' = ssSol,
         ssStuck' = ssStuck
  PROVE SsInv'
BY DEF SsInv, SsTyped, ConsolesHeld, SomeoneAt

\* The steps of an initial session: each that stores a State or activates a
\* console takes its session to a place that holds it, and the one that
\* leaves that place has removed it.
LEMMA ConsoleStep ==
  ASSUME SsInv, NEW s \in Sessions,
         \/ StartCommand(s) \/ StoreState(s) \/ CommandEnds(s) \/ Closing(s)
         \/ WaitSessions(s) \/ Deactivate(s)
  PROVE SsInv'
<1> USE DEF ssShared
<1>0. UserOf(s) \in SsMachines /\ DOMAIN ssAt = Sessions
  BY DEF SsMachines, SsInv, SsTyped
<1>1. CASE StartCommand(s)
  <2>1. CASE Moves(s, "initial", "done") /\ ssSol' = ssSol /\ ssStuck' = ssStuck
    BY <1>1, <2>1, QuietMove DEF StartCommand, StoreHeld, SolHeld
  <2>2. CASE Moves(s, "initial", "started") /\ ssSol' = ssSol /\ ssStuck' = ssStuck
    BY <1>1, <2>2, QuietMove DEF StartCommand, StoreHeld, SolHeld
  <2>3. CASE /\ Moves(s, "initial", "started")
             /\ ssSol' = [ssSol EXCEPT ![UserOf(s)] = s] /\ ssStuck' = ssStuck
    <3>1. ssStore' = ssStore
      BY <1>1 DEF StartCommand
    <3>2. SsTyped'
      BY <1>0, <2>3, <3>1 DEF SsInv, SsTyped, Moves
    <3>3. \A t \in Sessions : ssAt'[t] = IF t = s THEN "started" ELSE ssAt[t]
      BY <1>0, <2>3 DEF Moves
    <3>4. ASSUME NEW u \in SsMachines
          PROVE /\ ssStore'[u] # SsNone => SomeoneAt(u, StoreHeld)'
                /\ ssSol'[u] # SsNone /\ ~ssStuck'[u] => SomeoneAt(u, SolHeld)'
      <4>1. /\ ssStore[u] # SsNone => SomeoneAt(u, StoreHeld)
            /\ ssSol[u] # SsNone /\ ~ssStuck[u] => SomeoneAt(u, SolHeld)
        BY DEF SsInv, ConsolesHeld, StoreHeld, SolHeld
      <4>2. ssAt[s] = "initial"
        BY <2>3 DEF Moves
      <4>3. SomeoneAt(u, StoreHeld) => SomeoneAt(u, StoreHeld)'
        BY <3>3, <4>2 DEF SomeoneAt, StoreHeld
      <4>4. SomeoneAt(u, SolHeld) => SomeoneAt(u, SolHeld)'
        BY <3>3, <4>2 DEF SomeoneAt, SolHeld
      <4>5. u = UserOf(s) => SomeoneAt(u, SolHeld)'
        BY <3>3 DEF SomeoneAt, SolHeld
      <4>6. u # UserOf(s) => ssSol'[u] = ssSol[u]
        BY <1>0, <2>3 DEF SsInv, SsTyped
      <4> QED BY <2>3, <3>1, <4>1, <4>3, <4>4, <4>5, <4>6
    <3> QED BY <3>2, <3>4 DEF SsInv, ConsolesHeld, StoreHeld, SolHeld
  <2> QED BY <1>1, <2>1, <2>2, <2>3 DEF StartCommand, Moves
<1>2. CASE StoreState(s)
  <2>1. /\ Moves(s, "started", "serving") /\ ssSol' = ssSol /\ ssStuck' = ssStuck
        /\ ssStore' = [ssStore EXCEPT ![UserOf(s)] = s]
    BY <1>2 DEF StoreState, Moves
  <2>2. SsTyped'
    BY <1>0, <2>1 DEF SsInv, SsTyped, Moves
  <2>3. \A t \in Sessions : ssAt'[t] = IF t = s THEN "serving" ELSE ssAt[t]
    BY <1>0, <2>1 DEF Moves
  <2>4. ASSUME NEW u \in SsMachines
        PROVE /\ ssStore'[u] # SsNone => SomeoneAt(u, StoreHeld)'
              /\ ssSol'[u] # SsNone /\ ~ssStuck'[u] => SomeoneAt(u, SolHeld)'
    <3>1. /\ ssStore[u] # SsNone => SomeoneAt(u, StoreHeld)
          /\ ssSol[u] # SsNone /\ ~ssStuck[u] => SomeoneAt(u, SolHeld)
      BY DEF SsInv, ConsolesHeld, StoreHeld, SolHeld
    <3>2. SomeoneAt(u, StoreHeld) => SomeoneAt(u, StoreHeld)'
      BY <2>3 DEF SomeoneAt, StoreHeld
    <3>3. SomeoneAt(u, SolHeld) => SomeoneAt(u, SolHeld)'
      BY <2>3 DEF SomeoneAt, SolHeld
    <3>4. u = UserOf(s) => SomeoneAt(u, StoreHeld)'
      BY <2>3 DEF SomeoneAt, StoreHeld
    <3>5. u # UserOf(s) => ssStore'[u] = ssStore[u]
      BY <1>0, <2>1 DEF SsInv, SsTyped
    <3> QED BY <2>1, <3>1, <3>2, <3>3, <3>4, <3>5
  <2> QED BY <2>2, <2>4 DEF SsInv, ConsolesHeld, StoreHeld, SolHeld
<1>3. CASE CommandEnds(s)
  <2>1. /\ ssAt' = ssAt /\ ssStore' = ssStore /\ ssStuck' = ssStuck
        /\ ssSol' = ssSol \/ ssSol' = [ssSol EXCEPT ![UserOf(s)] = SsNone]
    BY <1>3 DEF CommandEnds
  <2>2. /\ ssSol' \in [SsMachines -> Sessions \cup {SsNone}]
        /\ \A u \in SsMachines : ssSol'[u] = ssSol[u] \/ ssSol'[u] = SsNone
    BY <2>1 DEF SsInv, SsTyped
  <2> QED BY <1>0, <2>1, <2>2, QuietSession
<1>4. CASE Closing(s)
  <2>1. /\ ssStore' = ssStore /\ ssSol' = ssSol /\ ssStuck' = ssStuck
        /\ \/ ssAt' = ssAt
           \/ Moves(s, "serving", "signal") \/ Moves(s, "serving", "wait")
    BY <1>4 DEF Closing, Moves
  <2> QED BY <2>1, QuietStutter, QuietMove DEF StoreHeld, SolHeld
<1>5. CASE WaitSessions(s)
  <2>1. /\ Moves(s, "wait", "deactivate") /\ ssSol' = ssSol /\ ssStuck' = ssStuck
        /\ ssStore' = [ssStore EXCEPT ![UserOf(s)] = SsNone]
    BY <1>5 DEF WaitSessions, Moves
  <2>2. SsTyped'
    BY <1>0, <2>1 DEF SsInv, SsTyped, Moves
  <2>3. \A t \in Sessions : ssAt'[t] = IF t = s THEN "deactivate" ELSE ssAt[t]
    BY <1>0, <2>1 DEF Moves
  <2>4. ASSUME NEW u \in SsMachines
        PROVE /\ ssStore'[u] # SsNone => SomeoneAt(u, StoreHeld)'
              /\ ssSol'[u] # SsNone /\ ~ssStuck'[u] => SomeoneAt(u, SolHeld)'
    <3>1. /\ ssStore[u] # SsNone => SomeoneAt(u, StoreHeld)
          /\ ssSol[u] # SsNone /\ ~ssStuck[u] => SomeoneAt(u, SolHeld)
      BY DEF SsInv, ConsolesHeld, StoreHeld, SolHeld
    <3>2. u # UserOf(s) /\ SomeoneAt(u, StoreHeld) => SomeoneAt(u, StoreHeld)'
      BY <2>3 DEF SomeoneAt
    <3>3. SomeoneAt(u, SolHeld) => SomeoneAt(u, SolHeld)'
      BY <2>3 DEF SomeoneAt, SolHeld
    <3>4. /\ u = UserOf(s) => ssStore'[u] = SsNone
          /\ u # UserOf(s) => ssStore'[u] = ssStore[u]
      BY <1>0, <2>1 DEF SsInv, SsTyped
    <3> QED BY <2>1, <3>1, <3>2, <3>3, <3>4
  <2> QED BY <2>2, <2>4 DEF SsInv, ConsolesHeld, StoreHeld, SolHeld
<1>6. CASE Deactivate(s)
  <2>1. /\ Moves(s, "deactivate", "done") /\ ssStore' = ssStore
        /\ \/ /\ ssSol' = [ssSol EXCEPT ![UserOf(s)] = SsNone]
              /\ ssStuck' = [ssStuck EXCEPT ![UserOf(s)] = FALSE]
           \/ ssSol' = ssSol /\ ssStuck' = [ssStuck EXCEPT ![UserOf(s)] = TRUE]
    BY <1>6 DEF Deactivate, Moves
  <2>2. SsTyped'
    BY <1>0, <2>1 DEF SsInv, SsTyped, Moves
  <2>3. ssAt[s] = "deactivate" /\ \A t \in Sessions : ssAt'[t] = IF t = s THEN "done" ELSE ssAt[t]
    BY <1>0, <2>1 DEF Moves
  <2>4. ASSUME NEW u \in SsMachines
        PROVE /\ ssStore'[u] # SsNone => SomeoneAt(u, StoreHeld)'
              /\ ssSol'[u] # SsNone /\ ~ssStuck'[u] => SomeoneAt(u, SolHeld)'
    <3>1. /\ ssStore[u] # SsNone => SomeoneAt(u, StoreHeld)
          /\ ssSol[u] # SsNone /\ ~ssStuck[u] => SomeoneAt(u, SolHeld)
      BY DEF SsInv, ConsolesHeld, StoreHeld, SolHeld
    <3>2. SomeoneAt(u, StoreHeld) => SomeoneAt(u, StoreHeld)'
      BY <2>3 DEF SomeoneAt, StoreHeld
    <3>3. u # UserOf(s) /\ SomeoneAt(u, SolHeld) => SomeoneAt(u, SolHeld)'
      BY <2>3 DEF SomeoneAt
    <3>4. /\ u = UserOf(s) => ssSol'[u] = SsNone \/ ssStuck'[u]
          /\ u # UserOf(s) => ssSol'[u] = ssSol[u] /\ ssStuck'[u] = ssStuck[u]
      BY <1>0, <2>1 DEF SsInv, SsTyped
    <3> QED BY <2>1, <3>1, <3>2, <3>3, <3>4
  <2> QED BY <2>2, <2>4 DEF SsInv, ConsolesHeld, StoreHeld, SolHeld
<1> QED BY <1>1, <1>2, <1>3, <1>4, <1>5, <1>6

\* The steps that neither store a State nor activate a console.
LEMMA OtherConsoleStep ==
  ASSUME SsInv, NEW s \in Sessions,
         \/ Handler(s) \/ Join(s) \/ SelectLeave(s) \/ LeaveConsole(s)
         \/ (\E a \in Sessions : SignalClosed(s, a))
         \/ Connect(s) \/ Disconnect(s) \/ Output(s) \/ (\E c \in {"~", "."} : Type(s, c))
  PROVE SsInv'
<1> USE DEF ssShared
<1>0. DOMAIN ssAt = Sessions
  BY DEF SsInv, SsTyped
<1>1. CASE Handler(s)
  <2>1. /\ ssStore' = ssStore /\ ssSol' = ssSol /\ ssStuck' = ssStuck
        /\ Moves(s, "handler", "initial") \/ Moves(s, "handler", "additional")
    BY <1>1 DEF Handler, Moves
  <2> QED BY <2>1, QuietMove DEF StoreHeld, SolHeld
<1>2. CASE Join(s)
  <2>1. /\ ssStore' = ssStore /\ ssSol' = ssSol /\ ssStuck' = ssStuck
        /\ Moves(s, "additional", "counted") \/ Moves(s, "counted", "joined")
    BY <1>2 DEF Join, Moves
  <2> QED BY <2>1, QuietMove DEF StoreHeld, SolHeld
<1>3. CASE SelectLeave(s)
  <2>1. ssStore' = ssStore /\ ssSol' = ssSol /\ ssStuck' = ssStuck /\ Moves(s, "joined", "leaving")
    BY <1>3 DEF SelectLeave, Moves
  <2> QED BY <2>1, QuietMove DEF StoreHeld, SolHeld
<1>4. CASE LeaveConsole(s)
  <2>1. ssStore' = ssStore /\ ssSol' = ssSol /\ ssStuck' = ssStuck /\ Moves(s, "leaving", "done")
    BY <1>4 DEF LeaveConsole, Moves
  <2> QED BY <2>1, QuietMove DEF StoreHeld, SolHeld
<1>5. CASE \E a \in Sessions : SignalClosed(s, a)
  <2>1. PICK a \in Sessions : SignalClosed(s, a)
    BY <1>5
  <2>2. /\ ssStore' = ssStore /\ ssSol' = ssSol /\ ssStuck' = ssStuck /\ ssAt[s] = "signal" /\ ssAt[a] = "joined"
        /\ ssAt' = [ssAt EXCEPT ![s] = "wait", ![a] = "leaving"]
    BY <2>1 DEF SignalClosed
  <2>3. /\ DOMAIN ssAt' = Sessions
        /\ \A t \in Sessions :
             ssAt'[t] = IF t = a THEN "leaving" ELSE IF t = s THEN "wait" ELSE ssAt[t]
    BY <1>0, <2>2
  <2>4. /\ \A t \in Sessions : ssAt[t] \in StoreHeld => ssAt'[t] \in StoreHeld
        /\ \A t \in Sessions : ssAt[t] \in SolHeld => ssAt'[t] \in SolHeld
    BY <2>2, <2>3 DEF StoreHeld, SolHeld
  <2> QED BY <2>2, <2>3, <2>4, QuietSession DEF SsInv, SsTyped
<1>6. CASE Connect(s)
  <2>1. /\ ssStore' = ssStore /\ ssSol' = ssSol /\ ssStuck' = ssStuck
        /\ Moves(s, "none", "handler") \/ Moves(s, "none", "done")
    BY <1>6 DEF Connect, Moves
  <2> QED BY <2>1, QuietMove DEF StoreHeld, SolHeld
<1>7. CASE Disconnect(s) \/ Output(s) \/ \E c \in {"~", "."} : Type(s, c)
  BY <1>7, QuietStutter DEF Disconnect, Output, Type
<1> QED BY <1>1, <1>2, <1>3, <1>4, <1>5, <1>6, <1>7

\* SsInv holds of every reachable state, for any sessions and machines: a
\* State that is stored, and a console that is active, have a session that
\* has yet to remove it, unless the machine's last deactivation failed.
THEOREM ConsoleInvariance == SsSpec => []SsInv
<1>1. SsInit => SsInv
  BY DEF SsInit, SsInv, SsTyped, ConsolesHeld
<1>2. SsInv /\ [SsNext]_ssVars => SsInv'
  <2>1. CASE SsInv /\ SsNext
    <3>1. PICK s \in Sessions :
            \/ SsStep(s) \/ Connect(s) \/ Disconnect(s) \/ Output(s)
            \/ \E c \in {"~", "."} : Type(s, c)
      BY <2>1 DEF SsNext
    <3>2. CASE SsStep(s)
      BY <2>1, <3>2, ConsoleStep, OtherConsoleStep DEF SsStep
    <3>3. CASE ~SsStep(s)
      BY <2>1, <3>1, <3>3, OtherConsoleStep
    <3> QED BY <3>2, <3>3
  <2>2. CASE SsInv /\ UNCHANGED ssVars
    BY <2>2, QuietStutter DEF ssVars
  <2> QED BY <2>1, <2>2
<1> QED BY <1>1, <1>2, PTL DEF SsSpec

\* However sessions race to open and close a console, once the last one of a
\* machine is done its State is not left behind, and its activated console
\* only where the last `sol deactivate` for it failed: for any number of
\* sessions, and whatever else fails.
THEOREM ConsoleIsReleased == SsSpec => []ConsoleReleased
<1>1. SsInv => ConsoleReleased
  <2>1. ASSUME SsInv, NEW u \in SsMachines,
               \A s \in Sessions : UserOf(s) = u => ssAt[s] \in {"none", "handler", "done"}
        PROVE ssStore[u] = SsNone /\ (ssSol[u] = SsNone \/ ssStuck[u])
    BY <2>1 DEF SsInv, ConsolesHeld, SomeoneAt
  <2> QED BY <2>1 DEF ConsoleReleased
<1> QED BY <1>1, ConsoleInvariance, PTL

-----------------------------------------------------------------------------
(* What the sessions of a console see.                                     *)

Sharing == {"joined", "leaving"}
HasState == {"additional", "counted", "joined", "leaving"}
Unseen == {"none", "handler", "additional", "counted"}
StateKept == {"serving", "signal", "wait", "deactivate", "done"}

ShareTyped ==
  /\ DOMAIN ssAt = Sessions /\ ssState \in [Sessions -> Sessions \cup {SsNone}]
  /\ ssStore \in [SsMachines -> Sessions \cup {SsNone}]
  /\ ssWriters \in [Sessions -> Seq(Sessions)] /\ ssCopy \in [Sessions -> BOOLEAN]
  /\ ssSeen \in [Sessions -> Seq(Nat)] /\ ssJoinedAt \in [Sessions -> Nat] /\ ssChunks \in Nat

\* The writers of a State are the sessions that have joined it and are not gone.
Roster ==
  \A s, a \in Sessions :
    (\E i \in 1..Len(ssWriters[s]) : ssWriters[s][i] = a) <=> ssAt[a] \in Sharing /\ ssState[a] = s

\* Only a session that has stored its State is in the store or in another's hands, only
\* one that serves copies its output, and one that has not joined has seen nothing.
Standing ==
  /\ \A u \in SsMachines : ssStore[u] # SsNone => ssAt[ssStore[u]] \in StateKept
  /\ \A a \in Sessions :
       /\ ssState[a] # SsNone => ssAt[ssState[a]] \in StateKept
       /\ ssAt[a] \in HasState => ssState[a] # SsNone
       /\ ssCopy[a] => ssAt[a] = "serving"
       /\ ssAt[a] \in Unseen => ssSeen[a] = << >>

Follows(seen, at, all) == at <= Len(all) /\ seen = SubSeq(all, at + 1, Len(all))

Following ==
  \A a, s \in Sessions :
    ssAt[a] = "joined" /\ ssState[a] = s /\ ssCopy[s] => Follows(ssSeen[a], ssJoinedAt[a], ssSeen[s])

ShareInv == ShareTyped /\ Roster /\ Standing /\ Following

\* The ranks of a finite set of numbers are the numbers below its size.
LEMMA Ranks ==
  ASSUME NEW m \in Nat, NEW S \in SUBSET (1..m)
  PROVE  /\ Cardinality(S) \in Nat
         /\ \A i \in S : Cardinality({j \in S : j < i}) \in 0..(Cardinality(S) - 1)
         /\ \A i, k \in S : Cardinality({j \in S : j < i}) = Cardinality({j \in S : j < k}) => i = k
         /\ \A n \in 0..(Cardinality(S) - 1) : \E i \in S : Cardinality({j \in S : j < i}) = n
<1> DEFINE Below(i) == {j \in S : j < i}
<1>1. IsFiniteSet(S) /\ Cardinality(S) \in Nat
  <2>1. IsFiniteSet(1..m)
    BY FS_Interval
  <2>2. IsFiniteSet(S)
    BY <2>1, FS_Subset
  <2>3. QED
    BY <2>2, FS_CardinalityType
<1>2. \A i \in S : IsFiniteSet(Below(i)) /\ Cardinality(Below(i)) \in Nat
  <2>1. \A i \in S : Below(i) \in SUBSET S
    OBVIOUS
  <2>2. QED
    BY <1>1, <2>1, FS_Subset, FS_CardinalityType
<1>3. \A i \in S : Cardinality(Below(i)) \in 0..(Cardinality(S) - 1)
  <2>1. SUFFICES ASSUME NEW i \in S
                 PROVE  Cardinality(Below(i)) \in 0..(Cardinality(S) - 1)
    OBVIOUS
  <2>2. Below(i) \in SUBSET S /\ Below(i) # S
    OBVIOUS
  <2>3. Cardinality(Below(i)) <= Cardinality(S) /\ Cardinality(S) # Cardinality(Below(i))
    BY <1>1, <2>2, FS_Subset
  <2>4. QED
    BY <1>1, <1>2, <2>3
<1>4. \A i, k \in S : i < k => Cardinality(Below(i)) < Cardinality(Below(k))
  <2>1. SUFFICES ASSUME NEW i \in S, NEW k \in S, i < k
                 PROVE  Cardinality(Below(i)) < Cardinality(Below(k))
    OBVIOUS
  <2>2. Below(i) \in SUBSET Below(k) /\ Below(i) # Below(k)
    <3>1. i \in Below(k) /\ i \notin Below(i)
      BY <2>1
    <3>2. \A j \in S : j < i => j < k
      <4>1. \A j \in S : j \in Int
        OBVIOUS
      <4>2. QED
        BY <2>1, <4>1
    <3>3. Below(i) \in SUBSET Below(k)
      BY <3>2
    <3>4. QED
      BY <3>1, <3>3
  <2>3. IsFiniteSet(Below(k))
    BY <1>2
  <2>4. Cardinality(Below(i)) <= Cardinality(Below(k)) /\ Cardinality(Below(k)) # Cardinality(Below(i))
    BY <2>2, <2>3, FS_Subset
  <2>5. QED
    BY <1>2, <2>4
<1>5. \A i, k \in S : Cardinality(Below(i)) = Cardinality(Below(k)) => i = k
  BY <1>2, <1>4
<1>6. \A n \in 0..(Cardinality(S) - 1) : \E i \in S : Cardinality(Below(i)) = n
  <2> DEFINE f == [i \in S |-> Cardinality(Below(i))]
             T == {f[i] : i \in S}
  <2>1. \A i, k \in S : f[i] = f[k] => i = k
    BY <1>5
  <2>2. f \in [S -> T]
    OBVIOUS
  <2>3. T \in SUBSET (0..(Cardinality(S) - 1))
    BY <1>3
  <2> HIDE DEF f
  <2>4. f \in Bijection(S, T)
    BY <2>1, <2>2 DEF Bijection, Injection, Surjection, IsInjective
  <2>5. Cardinality(T) = Cardinality(S)
    BY <1>1, <2>4, FS_Bijection DEF ExistsBijection
  <2>6. IsFiniteSet(0..(Cardinality(S) - 1)) /\ Cardinality(0..(Cardinality(S) - 1)) = Cardinality(S)
    <3> DEFINE top == Cardinality(S) - 1
    <3>1. top \in Int /\ (0 > top => Cardinality(S) = 0) /\ top - 0 + 1 = Cardinality(S)
      BY <1>1
    <3> HIDE DEF top
    <3>2. IsFiniteSet(0..top) /\ Cardinality(0..top) = IF 0 > top THEN 0 ELSE top - 0 + 1
      BY <3>1, FS_Interval
    <3>3. Cardinality(0..top) = Cardinality(S)
      BY <3>1, <3>2
    <3>4. QED
      BY <3>2, <3>3 DEF top
  <2>7. T = 0..(Cardinality(S) - 1)
    BY <2>3, <2>5, <2>6, FS_Subset
  <2>8. QED
    BY <2>7 DEF f
<1>7. QED
  BY <1>1, <1>3, <1>5, <1>6

\* MultiWriter.Remove keeps exactly the other writers.
LEMMA WithoutFacts ==
  ASSUME NEW w \in Seq(Sessions), NEW a
  PROVE  /\ Without(w, a) \in Seq(Sessions)
         /\ \A x : (\E n \in 1..Len(Without(w, a)) : Without(w, a)[n] = x)
                     <=> (\E i \in 1..Len(w) : w[i] = x) /\ x # a
<1> DEFINE kept == {i \in DOMAIN w : w[i] # a}
           rank(i) == Cardinality({j \in kept : j < i})
           nth(n) == CHOOSE i \in kept : rank(i) = n - 1
           c == Cardinality(kept)
<1>1. DOMAIN w = 1..Len(w) /\ Len(w) \in Nat
  OBVIOUS
<1>2. kept \in SUBSET (1..Len(w))
  BY <1>1
<1>3. Without(w, a) = [n \in 1..c |-> w[nth(n)]]
  BY DEF Without
<1>4. \A i \in kept : i \in 1..Len(w) /\ w[i] # a /\ w[i] \in Sessions
  BY <1>1
<1>5. \A i \in 1..Len(w) : w[i] # a => i \in kept
  BY <1>1
<1>6. /\ c \in Nat
      /\ \A i \in kept : rank(i) \in 0..(c - 1)
      /\ \A i, k \in kept : rank(i) = rank(k) => i = k
      /\ \A n \in 0..(c - 1) : \E i \in kept : rank(i) = n
  <2> HIDE DEF kept
  <2>1. QED
    BY <1>1, <1>2, Ranks
<1> HIDE DEF kept, rank, c
<1>7. \A n \in 1..c : nth(n) \in kept
  BY <1>6
<1>8. \A i \in kept : rank(i) + 1 \in 1..c /\ nth(rank(i) + 1) = i
  <2>1. SUFFICES ASSUME NEW i \in kept
                 PROVE  rank(i) + 1 \in 1..c /\ nth(rank(i) + 1) = i
    OBVIOUS
  <2>2. rank(i) \in Int /\ rank(i) + 1 \in 1..c /\ (rank(i) + 1) - 1 = rank(i)
    BY <1>6
  <2>3. \A k \in kept : rank(k) = (rank(i) + 1) - 1 <=> k = i
    BY <1>6, <2>2
  <2>4. nth(rank(i) + 1) = i
    BY <2>3
  <2>5. QED
    BY <2>2, <2>4
<1> HIDE DEF nth
<1>9. Without(w, a) \in Seq(Sessions) /\ Len(Without(w, a)) = c
  BY <1>3, <1>4, <1>6, <1>7
<1>10. \A n \in 1..c : Without(w, a)[n] = w[nth(n)]
  BY <1>3
<1>11. ASSUME NEW x, NEW i \in 1..Len(w), w[i] = x, x # a
       PROVE  \E n \in 1..c : Without(w, a)[n] = x
  BY <1>5, <1>8, <1>10, <1>11
<1>12. ASSUME NEW x, NEW n \in 1..c, Without(w, a)[n] = x
       PROVE  (\E i \in 1..Len(w) : w[i] = x) /\ x # a
  BY <1>4, <1>7, <1>10, <1>12
<1>13. QED
  BY <1>9, <1>11, <1>12

\* A step that moves no session and touches nothing that is shared.
LEMMA ShareStutter ==
  ASSUME ShareInv,
         UNCHANGED <<ssAt, ssState, ssStore, ssWriters, ssCopy, ssSeen, ssJoinedAt, ssChunks>>
  PROVE  ShareInv'
BY DEF ShareInv, ShareTyped, Roster, Standing, Following

\* Where a session may go while nothing that is shared changes.
Passes(from, to) ==
  /\ from \in Sharing <=> to \in Sharing
  /\ to = "joined" => from = "joined"
  /\ to \in HasState => from \in HasState
  /\ to \in Unseen => from \in Unseen
  /\ from \in StateKept => to \in StateKept

\* Sessions that move, and perhaps remove a State from the store.
LEMMA ShareMoves ==
  ASSUME ShareInv, DOMAIN ssAt' = Sessions,
         UNCHANGED <<ssState, ssWriters, ssCopy, ssSeen, ssJoinedAt, ssChunks>>,
         ssStore' \in [SsMachines -> Sessions \cup {SsNone}],
         \A u \in SsMachines : ssStore'[u] \in {ssStore[u], SsNone},
         \A a \in Sessions : Passes(ssAt[a], ssAt'[a]) /\ (ssCopy[a] => ssAt'[a] = "serving")
  PROVE  ShareInv'
<1>1. ShareTyped'
  BY DEF ShareInv, ShareTyped
<1>2. Roster'
  BY DEF ShareInv, Roster, Passes
<1>3. Standing'
  <2>1. ASSUME NEW t \in Sessions, ssAt[t] \in StateKept PROVE ssAt'[t] \in StateKept
    BY <2>1 DEF Passes
  <2>2. ASSUME NEW u \in SsMachines, ssStore'[u] # SsNone PROVE ssAt'[ssStore'[u]] \in StateKept
    <3>1. ssStore'[u] = ssStore[u] /\ ssStore[u] \in Sessions
      BY <2>2
    <3>2. QED
      BY <2>1, <2>2, <3>1 DEF ShareInv, Standing
  <2>3. ASSUME NEW a \in Sessions, ssState[a] # SsNone PROVE ssAt'[ssState[a]] \in StateKept
    <3>1. ssState[a] \in Sessions /\ ssAt[ssState[a]] \in StateKept
      BY <2>3 DEF ShareInv, ShareTyped, Standing
    <3>2. QED
      BY <2>1, <3>1
  <2>4. ASSUME NEW a \in Sessions
        PROVE  /\ ssAt'[a] \in HasState => ssState[a] # SsNone
               /\ ssCopy[a] => ssAt'[a] = "serving"
               /\ ssAt'[a] \in Unseen => ssSeen[a] = << >>
    BY DEF ShareInv, Standing, Passes
  <2>5. QED
    BY <2>2, <2>3, <2>4 DEF Standing
<1>4. Following'
  BY DEF ShareInv, Following, Passes
<1>5. QED
  BY <1>1, <1>2, <1>3, <1>4 DEF ShareInv

\* One session that moves.
LEMMA ShareMove ==
  ASSUME ShareInv, NEW s \in Sessions, NEW to, ssAt' = [ssAt EXCEPT ![s] = to],
         UNCHANGED <<ssState, ssWriters, ssCopy, ssSeen, ssJoinedAt, ssChunks>>,
         ssStore' = ssStore \/ ssStore' = [ssStore EXCEPT ![UserOf(s)] = SsNone],
         Passes(ssAt[s], to), ssCopy[s] => to = "serving"
  PROVE  ShareInv'
<1>1. DOMAIN ssAt' = Sessions /\ \A a \in Sessions : ssAt'[a] = IF a = s THEN to ELSE ssAt[a]
  BY DEF ShareInv, ShareTyped
<1>2. \A a \in Sessions : Passes(ssAt[a], ssAt'[a])
  BY <1>1 DEF Passes
<1>3. \A a \in Sessions : ssCopy[a] => ssAt'[a] = "serving"
  BY <1>1 DEF ShareInv, Standing
<1>4. /\ ssStore' \in [SsMachines -> Sessions \cup {SsNone}]
      /\ \A u \in SsMachines : ssStore'[u] \in {ssStore[u], SsNone}
  BY DEF ShareInv, ShareTyped
<1>5. QED
  BY <1>1, <1>2, <1>3, <1>4, ShareMoves

\* The steps that only move a session.
LEMMA SessionMoves ==
  ASSUME ShareInv, NEW s \in Sessions,
         \/ Connect(s) \/ StartCommand(s) \/ WaitSessions(s) \/ Deactivate(s) \/ SelectLeave(s)
  PROVE  ShareInv'
<1> USE DEF Passes, Sharing, HasState, Unseen, StateKept
<1>0. ssCopy[s] => ssAt[s] = "serving"
  BY DEF ShareInv, Standing
<1>1. CASE Connect(s)
  <2>1. PICK to \in {"handler", "done"} : ssAt' = [ssAt EXCEPT ![s] = to]
    BY <1>1 DEF Connect
  <2>2. /\ UNCHANGED <<ssState, ssWriters, ssCopy, ssSeen, ssJoinedAt, ssChunks, ssStore>>
        /\ ssAt[s] = "none"
    BY <1>1 DEF Connect, ssShared, ssIO
  <2>3. QED
    BY <1>0, <2>1, <2>2, ShareMove
<1>2. CASE StartCommand(s)
  <2>1. PICK to \in {"started", "done"} : ssAt' = [ssAt EXCEPT ![s] = to]
    BY <1>2 DEF StartCommand
  <2>2. /\ UNCHANGED <<ssState, ssWriters, ssCopy, ssSeen, ssJoinedAt, ssChunks, ssStore>>
        /\ ssAt[s] = "initial"
    BY <1>2 DEF StartCommand, ssShared, ssIO
  <2>3. QED
    BY <1>0, <2>1, <2>2, ShareMove
<1>3. CASE WaitSessions(s)
  <2>1. /\ UNCHANGED <<ssState, ssWriters, ssCopy, ssSeen, ssJoinedAt, ssChunks>>
        /\ ssAt[s] = "wait" /\ ssAt' = [ssAt EXCEPT ![s] = "deactivate"]
        /\ ssStore' = [ssStore EXCEPT ![UserOf(s)] = SsNone]
    BY <1>3 DEF WaitSessions, ssIO
  <2>2. QED
    BY <1>0, <2>1, ShareMove
<1>4. CASE Deactivate(s)
  <2>1. /\ UNCHANGED <<ssState, ssWriters, ssCopy, ssSeen, ssJoinedAt, ssChunks, ssStore>>
        /\ ssAt[s] = "deactivate" /\ ssAt' = [ssAt EXCEPT ![s] = "done"]
    BY <1>4 DEF Deactivate, ssShared, ssIO
  <2>2. QED
    BY <1>0, <2>1, ShareMove
<1>5. CASE SelectLeave(s)
  <2>1. /\ UNCHANGED <<ssState, ssWriters, ssCopy, ssSeen, ssJoinedAt, ssChunks, ssStore>>
        /\ ssAt[s] = "joined" /\ ssAt' = [ssAt EXCEPT ![s] = "leaving"]
    BY <1>5 DEF SelectLeave, ssShared, ssIO
  <2>2. QED
    BY <1>0, <2>1, ShareMove
<1>6. QED
  BY <1>1, <1>2, <1>3, <1>4, <1>5

\* The steps that move no session.
LEMMA SessionStays ==
  ASSUME ShareInv, NEW s \in Sessions,
         Disconnect(s) \/ CommandEnds(s) \/ \E c \in {"~", "."} : Type(s, c)
  PROVE  ShareInv'
BY ShareStutter DEF Disconnect, CommandEnds, Type, ssShared, ssIO

\* The signal takes the session that receives it out of the console.
LEMMA SignalShared ==
  ASSUME ShareInv, NEW s \in Sessions, NEW a \in Sessions, SignalClosed(s, a)
  PROVE  ShareInv'
<1>1. /\ UNCHANGED <<ssState, ssWriters, ssCopy, ssSeen, ssJoinedAt, ssChunks, ssStore>>
      /\ ssAt[s] = "signal" /\ ssAt[a] = "joined" /\ s # a
      /\ ssAt' = [ssAt EXCEPT ![s] = "wait", ![a] = "leaving"]
  BY DEF SignalClosed, ssShared, ssIO
<1>2. /\ DOMAIN ssAt' = Sessions
      /\ \A t \in Sessions : ssAt'[t] = IF t = s THEN "wait" ELSE IF t = a THEN "leaving" ELSE ssAt[t]
  BY <1>1 DEF ShareInv, ShareTyped
<1>3. \A t \in Sessions : Passes(ssAt[t], ssAt'[t])
  BY <1>1, <1>2 DEF Passes, Sharing, HasState, Unseen, StateKept
<1>4. \A t \in Sessions : ssCopy[t] => ssAt'[t] = "serving"
  BY <1>1, <1>2 DEF ShareInv, Standing
<1>5. ssStore' \in [SsMachines -> Sessions \cup {SsNone}]
  BY <1>1 DEF ShareInv, ShareTyped
<1>6. QED
  BY <1>1, <1>2, <1>3, <1>4, <1>5, ShareMoves

\* A session that finds a State, or none, and one that takes the stored State in its
\* hands when its command has ended: neither is a writer before or after.
LEMMA ShareTakes ==
  ASSUME ShareInv, NEW s \in Sessions, NEW to, ssAt' = [ssAt EXCEPT ![s] = to],
         ssState' = [ssState EXCEPT ![s] = ssStore[UserOf(s)]],
         UNCHANGED <<ssStore, ssWriters, ssSeen, ssJoinedAt, ssChunks>>,
         ssCopy' \in [Sessions -> BOOLEAN], \A t \in Sessions \ {s} : ssCopy'[t] = ssCopy[t],
         ssAt[s] \notin Sharing, to \notin Sharing,
         to \in HasState => ssStore[UserOf(s)] # SsNone,
         ssAt[s] \in StateKept => to \in StateKept, to \in Unseen => ssAt[s] \in Unseen, ~ssCopy'[s]
  PROVE  ShareInv'
<1> DEFINE st == ssStore[UserOf(s)]
<1>1. \A a \in Sessions : /\ ssAt'[a] = IF a = s THEN to ELSE ssAt[a]
                          /\ ssState'[a] = IF a = s THEN st ELSE ssState[a]
  BY DEF ShareInv, ShareTyped
<1>2. UserOf(s) \in SsMachines /\ st \in Sessions \cup {SsNone}
  BY DEF SsMachines, ShareInv, ShareTyped
<1>3. ShareTyped'
  BY <1>2 DEF ShareInv, ShareTyped
<1>4. Roster'
  BY <1>1 DEF ShareInv, Roster
<1>5. \A t \in Sessions : ssAt[t] \in StateKept => ssAt'[t] \in StateKept
  BY <1>1
<1>6. Standing'
  <2>1. ASSUME NEW u \in SsMachines, ssStore[u] # SsNone PROVE ssAt'[ssStore[u]] \in StateKept
    <3>1. ssStore[u] \in Sessions /\ ssAt[ssStore[u]] \in StateKept
      BY <2>1 DEF ShareInv, ShareTyped, Standing
    <3>2. QED
      BY <1>5, <3>1
  <2>2. ASSUME NEW a \in Sessions, ssState'[a] # SsNone PROVE ssAt'[ssState'[a]] \in StateKept
    <3>1. CASE a = s
      BY <1>1, <1>2, <2>1, <2>2, <3>1
    <3>2. CASE a # s
      <4>1. ssState'[a] = ssState[a] /\ ssState[a] \in Sessions
        BY <1>1, <2>2, <3>2 DEF ShareInv, ShareTyped
      <4>2. ssAt[ssState[a]] \in StateKept
        BY <2>2, <4>1 DEF ShareInv, Standing
      <4>3. QED
        BY <1>5, <4>1, <4>2
    <3>3. QED
      BY <3>1, <3>2
  <2>3. ASSUME NEW a \in Sessions
        PROVE  /\ ssAt'[a] \in HasState => ssState'[a] # SsNone
               /\ ssCopy'[a] => ssAt'[a] = "serving"
               /\ ssAt'[a] \in Unseen => ssSeen[a] = << >>
    BY <1>1 DEF ShareInv, Standing
  <2>4. QED
    BY <2>1, <2>2, <2>3 DEF Standing
<1>7. Following'
  <2>1. SUFFICES ASSUME NEW a \in Sessions, NEW t \in Sessions, ssAt'[a] = "joined",
                        ssState'[a] = t, ssCopy'[t]
                 PROVE  Follows(ssSeen[a], ssJoinedAt[a], ssSeen[t])
    BY DEF Following
  <2>2. a # s /\ t # s
    BY <1>1, <2>1 DEF Sharing
  <2>3. QED
    BY <1>1, <2>1, <2>2 DEF ShareInv, Following
<1>8. QED
  BY <1>3, <1>4, <1>6, <1>7 DEF ShareInv

\* Handler, and what follows the end of the command.
LEMMA HandlerShared ==
  ASSUME ShareInv, NEW s \in Sessions, Handler(s) \/ Closing(s)
  PROVE  ShareInv'
<1> USE DEF Sharing, HasState, Unseen, StateKept
<1>1. CASE Handler(s)
  <2>1. PICK to \in {"initial", "additional"} :
          ssAt' = [ssAt EXCEPT ![s] = to] /\ (to = "additional" => ssStore[UserOf(s)] # SsNone)
    BY <1>1 DEF Handler
  <2>2. /\ ssAt[s] = "handler" /\ ssState' = [ssState EXCEPT ![s] = ssStore[UserOf(s)]]
        /\ UNCHANGED <<ssStore, ssWriters, ssSeen, ssJoinedAt, ssChunks, ssCopy>>
    BY <1>1 DEF Handler, ssIO
  <2>3. ssCopy' \in [Sessions -> BOOLEAN] /\ ~ssCopy'[s]
    BY <2>2 DEF ShareInv, ShareTyped, Standing
  <2>4. QED
    BY <2>1, <2>2, <2>3, ShareTakes
<1>2. CASE Closing(s)
  <2>1. /\ ssAt[s] = "serving" /\ ssCopy' = [ssCopy EXCEPT ![s] = FALSE]
        /\ UNCHANGED <<ssStore, ssWriters, ssSeen, ssJoinedAt, ssChunks>>
    BY <1>2 DEF Closing
  <2>2. /\ ssCopy' \in [Sessions -> BOOLEAN] /\ ~ssCopy'[s]
        /\ \A t \in Sessions \ {s} : ssCopy'[t] = ssCopy[t]
    BY <2>1 DEF ShareInv, ShareTyped
  <2>3. CASE ssStore[UserOf(s)] # SsNone
    <3>1. PICK to \in {"signal", "wait"} :
            ssAt' = [ssAt EXCEPT ![s] = to] /\ ssState' = [ssState EXCEPT ![s] = ssStore[UserOf(s)]]
      BY <1>2, <2>3 DEF Closing
    <3>2. QED
      BY <2>1, <2>2, <3>1, ShareTakes
  <2>4. CASE ssStore[UserOf(s)] = SsNone
    <3>1. ssAt' = ssAt /\ ssState' = ssState
      BY <1>2, <2>4 DEF Closing
    <3>2. ShareTyped' /\ Roster'
      <4>1. ShareTyped'
        BY <2>1, <2>2, <3>1 DEF ShareInv, ShareTyped
      <4>2. Roster'
        BY <2>1, <3>1 DEF ShareInv, Roster
      <4>3. QED
        BY <4>1, <4>2
    <3>3. Standing'
      BY <2>1, <2>2, <3>1 DEF ShareInv, Standing
    <3>4. Following'
      BY <2>1, <2>2, <3>1 DEF ShareInv, Following
    <3>5. QED
      BY <3>2, <3>3, <3>4 DEF ShareInv
  <2>5. QED
    BY <2>3, <2>4
<1>3. QED
  BY <1>1, <1>2

\* The State is stored: nobody has joined it yet.
LEMMA StoreShared ==
  ASSUME ShareInv, NEW s \in Sessions, StoreState(s)
  PROVE  ShareInv'
<1> USE DEF Sharing, HasState, Unseen, StateKept
<1>1. /\ ssAt[s] = "started" /\ ssAt' = [ssAt EXCEPT ![s] = "serving"]
      /\ ssStore' = [ssStore EXCEPT ![UserOf(s)] = s] /\ ssState' = [ssState EXCEPT ![s] = s]
      /\ ssCopy' = [ssCopy EXCEPT ![s] = TRUE]
      /\ UNCHANGED <<ssWriters, ssSeen, ssJoinedAt, ssChunks>>
  BY DEF StoreState
<1>2. \A a \in Sessions : /\ ssAt'[a] = IF a = s THEN "serving" ELSE ssAt[a]
                          /\ ssState'[a] = IF a = s THEN s ELSE ssState[a]
                          /\ ssCopy'[a] = IF a = s THEN TRUE ELSE ssCopy[a]
  BY <1>1 DEF ShareInv, ShareTyped
<1>3. \A u \in SsMachines : ssStore'[u] = IF u = UserOf(s) THEN s ELSE ssStore[u]
  BY <1>1 DEF ShareInv, ShareTyped
<1>4. \A a \in Sessions : ssState[a] # s
  <2>1. s # SsNone
    BY SsAssumption
  <2>2. QED
    BY <1>1, <2>1 DEF ShareInv, Standing
<1>5. ShareTyped'
  BY <1>1 DEF ShareInv, ShareTyped
<1>6. Roster'
  <2>1. ASSUME NEW t \in Sessions, NEW a \in Sessions
        PROVE  (ssAt[a] \in Sharing /\ ssState[a] = t) <=> (ssAt'[a] \in Sharing /\ ssState'[a] = t)
    BY <1>1, <1>2
  <2>2. QED
    BY <1>1, <2>1 DEF ShareInv, Roster
<1>7. \A t \in Sessions : ssAt[t] \in StateKept => ssAt'[t] \in StateKept
  BY <1>2
<1>8. Standing'
  <2>1. ASSUME NEW u \in SsMachines, ssStore'[u] # SsNone PROVE ssAt'[ssStore'[u]] \in StateKept
    <3>1. CASE u = UserOf(s)
      BY <1>2, <1>3, <3>1
    <3>2. CASE u # UserOf(s)
      <4>1. ssStore'[u] = ssStore[u] /\ ssStore[u] \in Sessions /\ ssAt[ssStore[u]] \in StateKept
        BY <1>3, <2>1, <3>2 DEF ShareInv, ShareTyped, Standing
      <4>2. QED
        BY <1>7, <4>1
    <3>3. QED
      BY <3>1, <3>2
  <2>2. ASSUME NEW a \in Sessions, ssState'[a] # SsNone PROVE ssAt'[ssState'[a]] \in StateKept
    <3>1. CASE a = s
      BY <1>2, <3>1
    <3>2. CASE a # s
      <4>1. ssState'[a] = ssState[a] /\ ssState[a] \in Sessions
        BY <1>2, <2>2, <3>2 DEF ShareInv, ShareTyped
      <4>2. ssAt[ssState[a]] \in StateKept
        BY <2>2, <4>1 DEF ShareInv, Standing
      <4>3. QED
        BY <1>7, <4>1, <4>2
    <3>3. QED
      BY <3>1, <3>2
  <2>3. ASSUME NEW a \in Sessions
        PROVE  /\ ssAt'[a] \in HasState => ssState'[a] # SsNone
               /\ ssCopy'[a] => ssAt'[a] = "serving"
               /\ ssAt'[a] \in Unseen => ssSeen'[a] = << >>
    <3>1. CASE a = s
      BY <1>2, <3>1
    <3>2. CASE a # s
      BY <1>1, <1>2, <3>2 DEF ShareInv, Standing
    <3>3. QED
      BY <3>1, <3>2
  <2>4. QED
    BY <2>1, <2>2, <2>3 DEF Standing
<1>9. Following'
  <2>1. SUFFICES ASSUME NEW a \in Sessions, NEW t \in Sessions, ssAt'[a] = "joined",
                        ssState'[a] = t, ssCopy'[t]
                 PROVE  Follows(ssSeen[a], ssJoinedAt[a], ssSeen[t])
    BY <1>1 DEF Following
  <2>2. a # s
    BY <1>2, <2>1
  <2>3. t # s
    BY <1>2, <1>4, <2>1, <2>2
  <2>4. QED
    BY <1>2, <2>1, <2>2, <2>3 DEF ShareInv, Following
<1>10. QED
  BY <1>5, <1>6, <1>8, <1>9 DEF ShareInv

\* Joining: first counted, then a writer of the State from the next piece of output on.
LEMMA JoinShared ==
  ASSUME ShareInv, NEW s \in Sessions, Join(s)
  PROVE  ShareInv'
<1> USE DEF Sharing, HasState, Unseen, StateKept
<1> DEFINE st == ssState[s]
<1>1. UNCHANGED <<ssStore, ssState, ssCopy, ssSeen, ssChunks>>
  BY DEF Join
<1>2. CASE ssAt[s] = "additional"
  <2>1. ssAt' = [ssAt EXCEPT ![s] = "counted"] /\ UNCHANGED <<ssWriters, ssJoinedAt>>
    BY <1>2 DEF Join
  <2>2. ~ssCopy[s] /\ Passes(ssAt[s], "counted")
    BY <1>2 DEF ShareInv, Standing, Passes
  <2>3. QED
    BY <1>1, <2>1, <2>2, ShareMove
<1>3. CASE ssAt[s] = "counted"
  <2>1. /\ ssAt' = [ssAt EXCEPT ![s] = "joined"]
        /\ ssWriters' = [ssWriters EXCEPT ![st] = Append(ssWriters[st], s)]
        /\ ssJoinedAt' = [ssJoinedAt EXCEPT ![s] = Len(ssSeen[st])]
    <3>1. /\ ssAt' = [ssAt EXCEPT ![s] = "joined"]
          /\ ssWriters' = [ssWriters EXCEPT ![st] = With(@, s)]
          /\ ssJoinedAt' = [ssJoinedAt EXCEPT ![s] = Len(ssSeen[st])]
      BY <1>3 DEF Join
    <3>2. QED
      BY <3>1 DEF With
  <2>2. st \in Sessions /\ ssSeen[s] = << >> /\ ssAt[st] \in StateKept /\ ~ssCopy[s]
    BY <1>3 DEF ShareInv, ShareTyped, Standing
  <2>3. /\ ssWriters[st] \in Seq(Sessions) /\ ssSeen[st] \in Seq(Nat) /\ Len(ssSeen[st]) \in Nat
        /\ Append(ssWriters[st], s) \in Seq(Sessions)
    BY <2>2 DEF ShareInv, ShareTyped
  <2>4. \A a \in Sessions : /\ ssAt'[a] = IF a = s THEN "joined" ELSE ssAt[a]
                            /\ ssWriters'[a] = IF a = st THEN Append(ssWriters[st], s) ELSE ssWriters[a]
                            /\ ssJoinedAt'[a] = IF a = s THEN Len(ssSeen[st]) ELSE ssJoinedAt[a]
    BY <2>1 DEF ShareInv, ShareTyped
  <2>5. ShareTyped'
    BY <1>1, <2>1, <2>2, <2>3 DEF ShareInv, ShareTyped
  <2>6. Roster'
    <3>1. ASSUME NEW t \in Sessions, NEW a \in Sessions
          PROVE  (\E i \in 1..Len(ssWriters'[t]) : ssWriters'[t][i] = a)
                   <=> ssAt'[a] \in Sharing /\ ssState[a] = t
      <4>1. (\E i \in 1..Len(ssWriters[t]) : ssWriters[t][i] = a)
              <=> ssAt[a] \in Sharing /\ ssState[a] = t
        BY DEF ShareInv, Roster
      <4>2. CASE t # st
        BY <1>3, <2>4, <4>1, <4>2
      <4>3. CASE t = st
        <5>1. ASSUME NEW w \in Seq(Sessions)
              PROVE  (\E i \in 1..Len(Append(w, s)) : Append(w, s)[i] = a)
                       <=> (\E i \in 1..Len(w) : w[i] = a) \/ a = s
          <6>1. Len(w) \in Nat /\ Len(Append(w, s)) = Len(w) + 1
            OBVIOUS
          <6>2. /\ \A i \in 1..Len(w) : Append(w, s)[i] = w[i]
                /\ Append(w, s)[Len(w) + 1] = s
            OBVIOUS
          <6>3. QED
            BY <6>1, <6>2
        <5>2. (\E i \in 1..Len(ssWriters'[t]) : ssWriters'[t][i] = a)
                <=> (\E i \in 1..Len(ssWriters[t]) : ssWriters[t][i] = a) \/ a = s
          <6>1. ssWriters'[t] = Append(ssWriters[t], s) /\ ssWriters[t] \in Seq(Sessions)
            BY <2>3, <2>4, <4>3
          <6>2. (\E i \in 1..Len(Append(ssWriters[t], s)) : Append(ssWriters[t], s)[i] = a)
                  <=> (\E i \in 1..Len(ssWriters[t]) : ssWriters[t][i] = a) \/ a = s
            BY <5>1, <6>1, Zenon
          <6>3. QED
            BY <6>1, <6>2, Zenon
        <5>3. QED
          BY <1>3, <2>4, <4>1, <4>3, <5>2
      <4>4. QED
        BY <4>2, <4>3
    <3>2. QED
      BY <1>1, <3>1 DEF Roster
  <2>7. Standing'
    <3>1. \A t \in Sessions : ssAt[t] \in StateKept => ssAt'[t] \in StateKept
      BY <1>3, <2>4
    <3>2. ASSUME NEW u \in SsMachines, ssStore[u] # SsNone PROVE ssAt'[ssStore[u]] \in StateKept
      <4>1. ssStore[u] \in Sessions /\ ssAt[ssStore[u]] \in StateKept
        BY <3>2 DEF ShareInv, ShareTyped, Standing
      <4>2. QED
        BY <3>1, <4>1
    <3>3. ASSUME NEW a \in Sessions, ssState[a] # SsNone PROVE ssAt'[ssState[a]] \in StateKept
      <4>1. ssState[a] \in Sessions
        BY <3>3 DEF ShareInv, ShareTyped
      <4>2. ssAt[ssState[a]] \in StateKept
        BY <3>3 DEF ShareInv, Standing
      <4>3. QED
        BY <3>1, <4>1, <4>2
    <3>4. ASSUME NEW a \in Sessions
          PROVE  /\ ssAt'[a] \in HasState => ssState[a] # SsNone
                 /\ ssCopy[a] => ssAt'[a] = "serving"
                 /\ ssAt'[a] \in Unseen => ssSeen[a] = << >>
      BY <1>3, <2>4 DEF ShareInv, Standing
    <3>5. QED
      BY <1>1, <3>2, <3>3, <3>4 DEF Standing
  <2>8. Following'
    <3>1. SUFFICES ASSUME NEW a \in Sessions, NEW t \in Sessions, ssAt'[a] = "joined",
                          ssState[a] = t, ssCopy[t]
                   PROVE  Follows(ssSeen[a], ssJoinedAt'[a], ssSeen[t])
      BY <1>1 DEF Following
    <3>2. CASE a = s
      <4>1. t = st /\ ssSeen[a] = << >> /\ ssJoinedAt'[a] = Len(ssSeen[t])
        BY <2>2, <2>4, <3>1, <3>2
      <4>2. ASSUME NEW all \in Seq(Nat) PROVE Follows(<< >>, Len(all), all)
        BY DEF Follows
      <4>3. QED
        BY <2>3, <4>1, <4>2
    <3>3. CASE a # s
      BY <2>4, <3>1, <3>3 DEF ShareInv, Following
    <3>4. QED
      BY <3>2, <3>3
  <2>9. QED
    BY <2>5, <2>6, <2>7, <2>8 DEF ShareInv
<1>4. QED
  BY <1>2, <1>3 DEF Join

\* Leaving: the writer is removed.
LEMMA LeaveShared ==
  ASSUME ShareInv, NEW s \in Sessions, LeaveConsole(s)
  PROVE  ShareInv'
<1> USE DEF Sharing, HasState, Unseen, StateKept
<1> DEFINE st == ssState[s]
           w == Without(ssWriters[st], s)
<1>1. /\ UNCHANGED <<ssStore, ssState, ssCopy, ssSeen, ssJoinedAt, ssChunks>>
      /\ ssAt[s] = "leaving" /\ ssAt' = [ssAt EXCEPT ![s] = "done"]
      /\ ssWriters' = [ssWriters EXCEPT ![st] = w]
  BY DEF LeaveConsole, ssIO
<1>2. st \in Sessions
  BY <1>1 DEF ShareInv, ShareTyped, Standing
<1>3. /\ w \in Seq(Sessions)
      /\ \A x : (\E n \in 1..Len(w) : w[n] = x)
                  <=> (\E i \in 1..Len(ssWriters[st]) : ssWriters[st][i] = x) /\ x # s
  <2>1. ssWriters[st] \in Seq(Sessions)
    BY <1>2 DEF ShareInv, ShareTyped
  <2>2. QED
    BY <2>1, WithoutFacts
<1> HIDE DEF w
<1>4. \A a \in Sessions : /\ ssAt'[a] = IF a = s THEN "done" ELSE ssAt[a]
                          /\ ssWriters'[a] = IF a = st THEN w ELSE ssWriters[a]
  BY <1>1 DEF ShareInv, ShareTyped
<1>5. ShareTyped'
  BY <1>1, <1>2, <1>3 DEF ShareInv, ShareTyped
<1>6. Roster'
  <2>1. ASSUME NEW t \in Sessions, NEW a \in Sessions
        PROVE  (\E i \in 1..Len(ssWriters'[t]) : ssWriters'[t][i] = a)
                 <=> ssAt'[a] \in Sharing /\ ssState[a] = t
    <3>1. (\E i \in 1..Len(ssWriters[t]) : ssWriters[t][i] = a)
            <=> ssAt[a] \in Sharing /\ ssState[a] = t
      BY DEF ShareInv, Roster
    <3>2. CASE t # st
      BY <1>1, <1>4, <3>1, <3>2
    <3>3. CASE t = st
      <4>1. ssWriters'[t] = w /\ ssAt'[a] = IF a = s THEN "done" ELSE ssAt[a]
        BY <1>4, <3>3
      <4>2. (\E i \in 1..Len(w) : w[i] = a)
              <=> (\E i \in 1..Len(ssWriters[t]) : ssWriters[t][i] = a) /\ a # s
        BY <1>3, <3>3, Zenon
      <4>3. (\E i \in 1..Len(w) : w[i] = a) <=> ssAt'[a] \in Sharing /\ ssState[a] = t
        <5>1. CASE a = s
          BY <4>1, <4>2, <5>1
        <5>2. CASE a # s
          BY <3>1, <4>1, <4>2, <5>2, Zenon
        <5>3. QED
          BY <5>1, <5>2
      <4>4. QED
        BY <4>1, <4>3, Zenon
    <3>4. QED
      BY <3>2, <3>3
  <2>2. QED
    BY <1>1, <2>1 DEF Roster
<1>7. Standing'
  <2>1. \A t \in Sessions : ssAt[t] \in StateKept => ssAt'[t] \in StateKept
    BY <1>4
  <2>2. ASSUME NEW u \in SsMachines, ssStore[u] # SsNone PROVE ssAt'[ssStore[u]] \in StateKept
    <3>1. ssStore[u] \in Sessions /\ ssAt[ssStore[u]] \in StateKept
      BY <2>2 DEF ShareInv, ShareTyped, Standing
    <3>2. QED
      BY <2>1, <3>1
  <2>3. ASSUME NEW a \in Sessions, ssState[a] # SsNone PROVE ssAt'[ssState[a]] \in StateKept
    <3>1. ssState[a] \in Sessions
      BY <2>3 DEF ShareInv, ShareTyped
    <3>2. ssAt[ssState[a]] \in StateKept
      BY <2>3 DEF ShareInv, Standing
    <3>3. QED
      BY <2>1, <3>1, <3>2
  <2>4. ASSUME NEW a \in Sessions
        PROVE  /\ ssAt'[a] \in HasState => ssState[a] # SsNone
               /\ ssCopy[a] => ssAt'[a] = "serving"
               /\ ssAt'[a] \in Unseen => ssSeen[a] = << >>
    BY <1>1, <1>4 DEF ShareInv, Standing
  <2>5. QED
    BY <1>1, <2>2, <2>3, <2>4 DEF Standing
<1>8. Following'
  BY <1>1, <1>4 DEF ShareInv, Following
<1>9. QED
  BY <1>5, <1>6, <1>7, <1>8 DEF ShareInv

\* What follows the first `at' pieces.
RestOf(all, at) == SubSeq(all, at + 1, Len(all))
Shifted(all, at, d) == [i \in 1..d |-> all[at + i]]

\* The rest of a sequence.
LEMMA RestFacts ==
  ASSUME NEW all \in Seq(Nat), NEW at \in Nat, NEW d \in Nat, at + d = Len(all)
  PROVE  /\ RestOf(all, at) \in [1..d -> Nat]
         /\ RestOf(all, at) \in Seq(Nat) /\ Len(RestOf(all, at)) = d
         /\ RestOf(all, at) = Shifted(all, at, d)
<1>1. SubSeq(all, at + 1, Len(all)) = [i \in 1..d |-> all[at + i]]
  <2>1. Len(all) - (at + 1) + 1 = d /\ \A i \in 1..d : i + (at + 1) - 1 = at + i
    OBVIOUS
  <2>2. QED
    BY <2>1
<1>2. \A i \in 1..d : all[at + i] \in Nat
  OBVIOUS
<1>3. ASSUME NEW f \in [1..d -> Nat] PROVE f \in Seq(Nat) /\ Len(f) = d
  OBVIOUS
<1>4. [i \in 1..d |-> all[at + i]] \in [1..d -> Nat]
  BY <1>2
<1>5. QED
  BY <1>1, <1>3, <1>4 DEF RestOf, Shifted

\* A piece of output, seen by both, is one more of what followed.
LEMMA FollowsOn ==
  ASSUME NEW seen \in Seq(Nat), NEW at \in Nat, NEW all \in Seq(Nat), NEW c \in Nat,
         Follows(seen, at, all)
  PROVE  Follows(Append(seen, c), at, Append(all, c))
<1> DEFINE more == Append(all, c)
           n == Len(all)
<1>1. at <= n /\ n \in Nat /\ seen = SubSeq(all, at + 1, n)
  BY DEF Follows
<1>2. /\ more \in Seq(Nat) /\ Len(more) = n + 1 /\ more[n + 1] = c
      /\ \A i \in 1..n : more[i] = all[i]
  OBVIOUS
<1> HIDE DEF more, n
<1>3. PICK d \in Nat : at + d = n /\ at + (d + 1) = n + 1 /\ d + 1 \in Nat
  <2> DEFINE k == n - at
  <2>1. k \in Nat /\ at + k = n /\ at + (k + 1) = n + 1 /\ k + 1 \in Nat
    BY <1>1
  <2> HIDE DEF k
  <2>2. QED
    BY <2>1
<1>4. Len(seen) = d /\ \A i \in 1..d : seen[i] = all[at + i]
  BY <1>1, <1>3, RestFacts DEF n, RestOf, Shifted
<1> DEFINE l == SubSeq(more, at + 1, Len(more))
           r == Append(seen, c)
<1>5. l \in [1..(d + 1) -> Nat] /\ \A i \in 1..(d + 1) : l[i] = more[at + i]
  <2>1. d + 1 \in Nat /\ at + (d + 1) = Len(more)
    BY <1>2, <1>3
  <2> DEFINE e == d + 1
  <2>2. e \in Nat /\ at + e = Len(more)
    BY <2>1
  <2> HIDE DEF e
  <2>3. l \in [1..e -> Nat] /\ \A i \in 1..e : l[i] = more[at + i]
    <3>1. more \in Seq(Nat) /\ at \in Nat /\ e \in Nat /\ at + e = Len(more)
      BY <1>2, <2>2
    <3>2. RestOf(more, at) \in [1..e -> Nat]
      BY <3>1, RestFacts, Zenon
    <3>3. RestOf(more, at) = Shifted(more, at, e)
      BY <3>1, RestFacts, Zenon
    <3>4. l = RestOf(more, at)
      BY DEF RestOf
    <3> HIDE DEF l
    <3>5. QED
      BY <3>2, <3>3, <3>4 DEF Shifted
  <2>4. QED
    BY <2>3 DEF e
<1>6. r \in [1..(d + 1) -> Nat] /\ r[d + 1] = c /\ \A i \in 1..d : r[i] = seen[i]
  <2>1. r \in Seq(Nat) /\ Len(r) = d + 1 /\ r[d + 1] = c /\ \A i \in 1..d : r[i] = seen[i]
    BY <1>4
  <2>2. ASSUME NEW q \in Seq(Nat) PROVE q \in [1..Len(q) -> Nat]
    OBVIOUS
  <2>3. r \in [1..(d + 1) -> Nat]
    BY <2>1, <2>2
  <2>4. QED
    BY <2>1, <2>3
<1> HIDE DEF l, r
<1>7. ASSUME NEW i \in 1..(d + 1) PROVE l[i] = r[i]
  <2>1. CASE i = d + 1
    BY <1>2, <1>3, <1>5, <1>6, <2>1
  <2>2. CASE i # d + 1
    <3>1. i \in 1..d /\ at + i \in 1..n
      BY <1>1, <1>3, <2>2
    <3>2. QED
      BY <1>2, <1>4, <1>5, <1>6, <3>1
  <2>3. QED
    BY <2>1, <2>2
<1>8. l = r
  BY <1>5, <1>6, <1>7
<1>9. at <= Len(more)
  BY <1>1, <1>2
<1>10. QED
  BY <1>8, <1>9 DEF Follows, l, r, more

\* A piece of output reaches only the session itself and its writers, and every one of
\* them when the copying goes on.
LEMMA WhoGets ==
  ASSUME NEW s \in Sessions, NEW w \in Seq(Sessions)
  PROVE  LET all == <<s>> \o w
             got == {all[i] : i \in Reached(all)}
         IN /\ \A x \in got : x = s \/ \E i \in 1..Len(w) : w[i] = x
            /\ Cardinality(Reached(all)) = Len(all) =>
                 s \in got /\ \A i \in 1..Len(w) : w[i] \in got
<1> DEFINE all == <<s>> \o w
           got == {all[i] : i \in Reached(all)}
<1>1. /\ all \in Seq(Sessions) /\ Len(w) \in Nat /\ Len(all) = Len(w) + 1
      /\ all[1] = s /\ \A i \in 1..Len(w) : i + 1 \in 1..Len(all) /\ all[i + 1] = w[i]
  OBVIOUS
<1>2. \A i \in 1..Len(all) : i = 1 \/ (i - 1 \in 1..Len(w) /\ all[i] = w[i - 1])
  BY <1>1
<1> HIDE DEF all
<1>3. Reached(all) \in SUBSET (1..Len(all))
  BY DEF Reached
<1>4. \A x \in got : x = s \/ \E i \in 1..Len(w) : w[i] = x
  BY <1>1, <1>2, <1>3
<1>5. ASSUME Cardinality(Reached(all)) = Len(all)
      PROVE  s \in got /\ \A i \in 1..Len(w) : w[i] \in got
  <2>1. IsFiniteSet(1..Len(all)) /\ Cardinality(1..Len(all)) = Len(all)
    BY <1>1, FS_Interval
  <2>2. Reached(all) = 1..Len(all)
    BY <1>3, <1>5, <2>1, FS_Subset
  <2>3. QED
    BY <1>1, <2>2
<1>6. QED
  BY <1>4, <1>5 DEF all

\* Output: who has joined goes on to see what its console writes.
LEMMA OutputShared ==
  ASSUME ShareInv, NEW s \in Sessions, Output(s)
  PROVE  ShareInv'
<1> USE DEF Sharing, Unseen
<1> DEFINE all == <<s>> \o ssWriters[s]
           got == {all[i] : i \in Reached(all)}
           whole == Cardinality(Reached(all)) = Len(all)
<1>1. /\ UNCHANGED <<ssAt, ssState, ssStore, ssWriters, ssJoinedAt>>
      /\ ssCopy[s] /\ ssChunks' = ssChunks + 1
      /\ ssCopy' = [ssCopy EXCEPT ![s] = whole]
      /\ ssSeen' = [x \in Sessions |-> IF x \in got THEN Append(ssSeen[x], ssChunks) ELSE ssSeen[x]]
  BY DEF Output, ssShared
<1>2. /\ \A x \in got : x = s \/ \E i \in 1..Len(ssWriters[s]) : ssWriters[s][i] = x
      /\ whole => s \in got /\ \A i \in 1..Len(ssWriters[s]) : ssWriters[s][i] \in got
  <2>1. ssWriters[s] \in Seq(Sessions)
    BY DEF ShareInv, ShareTyped
  <2>2. QED
    BY <2>1, WhoGets
<1>3. whole \in BOOLEAN
  OBVIOUS
<1> HIDE DEF got, whole
<1>4. ssAt[s] = "serving"
  BY <1>1 DEF ShareInv, Standing
<1>5. \A a \in Sessions : a # s => (a \in got => ssAt[a] \in Sharing /\ ssState[a] = s)
  BY <1>2 DEF ShareInv, Roster
<1>6. \A a \in Sessions : whole /\ ssAt[a] \in Sharing /\ ssState[a] = s => a \in got
  BY <1>2 DEF ShareInv, Roster
<1>7. \A a \in Sessions : ssCopy'[a] = IF a = s THEN whole ELSE ssCopy[a]
  BY <1>1 DEF ShareInv, ShareTyped
<1>8. /\ ssChunks \in Nat
      /\ \A a \in Sessions : ssSeen[a] \in Seq(Nat) /\ Append(ssSeen[a], ssChunks) \in Seq(Nat)
  BY DEF ShareInv, ShareTyped
<1>9. \A a \in Sessions : ssSeen'[a] = IF a \in got THEN Append(ssSeen[a], ssChunks) ELSE ssSeen[a]
  BY <1>1
<1>10. ShareTyped'
  <2>1. ssSeen' \in [Sessions -> Seq(Nat)]
    BY <1>1, <1>8
  <2>2. ssCopy' \in [Sessions -> BOOLEAN] /\ ssChunks' \in Nat
    BY <1>1, <1>3 DEF ShareInv, ShareTyped
  <2>3. QED
    BY <1>1, <2>1, <2>2 DEF ShareInv, ShareTyped
<1>11. Roster'
  BY <1>1 DEF ShareInv, Roster
<1>12. Standing'
  <2>1. ASSUME NEW a \in Sessions
        PROVE  /\ ssCopy'[a] => ssAt[a] = "serving"
               /\ ssAt[a] \in Unseen => ssSeen'[a] = << >>
    BY <1>4, <1>5, <1>7, <1>9 DEF ShareInv, Standing
  <2>2. QED
    BY <1>1, <2>1 DEF ShareInv, Standing
<1>13. Following'
  <2>1. SUFFICES ASSUME NEW a \in Sessions, NEW t \in Sessions, ssAt[a] = "joined",
                        ssState[a] = t, ssCopy'[t]
                 PROVE  Follows(ssSeen'[a], ssJoinedAt[a], ssSeen'[t])
    BY <1>1 DEF Following
  <2>2. a # s /\ ssCopy[t] /\ Follows(ssSeen[a], ssJoinedAt[a], ssSeen[t])
    BY <1>1, <1>4, <1>7, <2>1 DEF ShareInv, Following
  <2>3. CASE t = s
    <3>1. whole
      BY <1>7, <2>1, <2>3
    <3>2. a \in got /\ s \in got
      BY <1>2, <1>6, <2>1, <2>3, <3>1
    <3>3. /\ ssSeen'[a] = Append(ssSeen[a], ssChunks)
          /\ ssSeen'[t] = Append(ssSeen[t], ssChunks)
      BY <1>9, <2>3, <3>2
    <3>4. ssJoinedAt[a] \in Nat
      BY DEF ShareInv, ShareTyped
    <3>5. QED
      BY <1>8, <2>2, <3>3, <3>4, FollowsOn
  <2>4. CASE t # s
    <3>1. ssAt[t] = "serving"
      BY <2>2 DEF ShareInv, Standing
    <3>2. a \notin got /\ t \notin got
      BY <1>5, <2>1, <2>2, <2>4, <3>1
    <3>3. QED
      BY <1>9, <2>2, <3>2
  <2>5. QED
    BY <2>3, <2>4
<1>14. QED
  BY <1>10, <1>11, <1>12, <1>13 DEF ShareInv

\* The inductive invariant of what sessions see: the writers of a State are the sessions
\* that joined it, and each has seen what its console wrote since.
THEOREM SharingInvariance == SsSpec => []ShareInv
<1>1. SsInit => ShareInv
  <2>1. ASSUME SsInit PROVE ShareTyped
    BY <2>1 DEF SsInit, ShareTyped
  <2>2. ASSUME SsInit PROVE Roster /\ Standing /\ Following
    BY <2>2 DEF SsInit, Roster, Standing, Following, Sharing, HasState, Unseen, StateKept
  <2>3. QED
    BY <2>1, <2>2 DEF ShareInv
<1>2. ShareInv /\ [SsNext]_ssVars => ShareInv'
  <2>1. SUFFICES ASSUME ShareInv, [SsNext]_ssVars PROVE ShareInv'
    OBVIOUS
  <2>2. ASSUME NEW s \in Sessions, SsStep(s) PROVE ShareInv'
    BY <2>1, <2>2, HandlerShared, SessionMoves, StoreShared, SessionStays, JoinShared,
       LeaveShared, SignalShared DEF SsStep
  <2>3. ASSUME NEW s \in Sessions,
               Connect(s) \/ Disconnect(s) \/ Output(s) \/ \E c \in {"~", "."} : Type(s, c)
        PROVE  ShareInv'
    BY <2>1, <2>3, SessionMoves, SessionStays, OutputShared
  <2>4. CASE UNCHANGED ssVars
    BY <2>1, <2>4, ShareStutter DEF ssVars
  <2>5. QED
    BY <2>1, <2>2, <2>3, <2>4 DEF SsNext
<1>3. QED
  BY <1>1, <1>2, PTL DEF SsSpec

-----------------------------------------------------------------------------

Places == {"none", "handler", "initial", "started", "serving", "signal", "wait",
           "deactivate", "additional", "counted", "joined", "leaving", "done"}
CountedAt == {"counted", "joined", "leaving"}

\* The sessions a State counts, and those its wait group waits for.
CountedIn(s) == {a \in Sessions : ssAt[a] \in CountedAt /\ ssState[a] = s}
SharersOf(s) == {a \in Sessions : ssAt[a] \in Sharing /\ ssState[a] = s}

TallyTyped ==
  /\ ssAt \in [Sessions -> Places] /\ ssCmd \in [Sessions -> {"none", "runs", "ended"}]
  /\ ssCount \in [Sessions -> Int] /\ ssWg \in [Sessions -> Int]

Tally ==
  \A s \in Sessions :
    ssCount[s] = Cardinality(CountedIn(s)) /\ ssWg[s] = Cardinality(SharersOf(s))

TallyInv == TallyTyped /\ Tally

\* Sets of sessions are finite.
LEMMA SessionSets ==
  ASSUME NEW S \in SUBSET Sessions
  PROVE  IsFiniteSet(S) /\ Cardinality(S) \in Nat
<1>1. IsFiniteSet(S)
  BY SsAssumption, FS_Subset
<1>2. QED
  BY <1>1, FS_CardinalityType

\* A step that neither joins nor leaves.
LEMMA TallyKept ==
  ASSUME TallyInv, TallyTyped', ssCount' = ssCount, ssWg' = ssWg,
         \A a \in Sessions :
           /\ ssAt[a] \in CountedAt <=> ssAt'[a] \in CountedAt
           /\ ssAt[a] \in Sharing <=> ssAt'[a] \in Sharing
           /\ ssAt[a] \in CountedAt => ssState'[a] = ssState[a]
  PROVE  TallyInv'
<1>1. ASSUME NEW s \in Sessions PROVE CountedIn(s)' = CountedIn(s) /\ SharersOf(s)' = SharersOf(s)
  <2>1. \A a \in Sessions : ssAt[a] \in Sharing => ssAt[a] \in CountedAt
    BY DEF Sharing, CountedAt
  <2>2. \A a \in Sessions : a \in CountedIn(s)' <=> a \in CountedIn(s)
    BY DEF CountedIn
  <2>3. \A a \in Sessions : a \in SharersOf(s)' <=> a \in SharersOf(s)
    BY <2>1 DEF SharersOf
  <2>4. QED
    BY <2>2, <2>3 DEF CountedIn, SharersOf
<1>2. QED
  BY <1>1 DEF TallyInv, Tally

\* One session that moves, and perhaps takes a State.
LEMMA TallyMove ==
  ASSUME TallyInv, NEW s \in Sessions, NEW to \in Places, ssAt' = [ssAt EXCEPT ![s] = to],
         ssCmd' \in [Sessions -> {"none", "runs", "ended"}], ssCount' = ssCount, ssWg' = ssWg,
         ssAt[s] \in CountedAt <=> to \in CountedAt, ssAt[s] \in Sharing <=> to \in Sharing,
         \/ ssState' = ssState
         \/ ssAt[s] \notin CountedAt /\ \A a \in Sessions \ {s} : ssState'[a] = ssState[a]
  PROVE  TallyInv'
<1>1. /\ TallyTyped'
      /\ \A a \in Sessions : ssAt'[a] = IF a = s THEN to ELSE ssAt[a]
  BY DEF TallyInv, TallyTyped
<1>2. QED
  BY <1>1, TallyKept

\* The steps that leave the counts alone.
LEMMA TallySteps ==
  ASSUME ShareInv, TallyInv, NEW s \in Sessions,
         \/ Connect(s) \/ Handler(s) \/ StartCommand(s) \/ StoreState(s) \/ Closing(s)
         \/ WaitSessions(s) \/ Deactivate(s) \/ SelectLeave(s)
  PROVE  TallyInv'
<1> USE DEF Places, CountedAt, Sharing
<1>1. ssCount' = ssCount /\ ssWg' = ssWg
  BY DEF Connect, Handler, StartCommand, StoreState, Closing, WaitSessions, Deactivate,
         SelectLeave, ssShared
<1>2. ssCmd \in [Sessions -> {"none", "runs", "ended"}] /\ ssAt \in [Sessions -> Places]
  BY DEF TallyInv, TallyTyped
<1>3. CASE Connect(s)
  <2>1. PICK to \in {"handler", "done"} : ssAt' = [ssAt EXCEPT ![s] = to]
    BY <1>3 DEF Connect
  <2>2. ssAt[s] = "none" /\ ssCmd' = ssCmd /\ ssState' = ssState
    BY <1>3 DEF Connect, ssShared
  <2>3. QED
    BY <1>1, <1>2, <2>1, <2>2, TallyMove
<1>4. CASE Handler(s)
  <2>1. PICK to \in {"initial", "additional"} : ssAt' = [ssAt EXCEPT ![s] = to]
    BY <1>4 DEF Handler
  <2>2. /\ ssAt[s] = "handler" /\ ssCmd' = ssCmd
        /\ ssState' = [ssState EXCEPT ![s] = ssStore[UserOf(s)]]
    BY <1>4 DEF Handler
  <2>3. \A a \in Sessions \ {s} : ssState'[a] = ssState[a]
    BY <2>2 DEF ShareInv, ShareTyped
  <2>4. QED
    BY <1>1, <1>2, <2>1, <2>2, <2>3, TallyMove
<1>5. CASE StartCommand(s)
  <2>1. PICK to \in {"started", "done"} : ssAt' = [ssAt EXCEPT ![s] = to]
    BY <1>5 DEF StartCommand
  <2>2. ssAt[s] = "initial" /\ ssState' = ssState
    BY <1>5 DEF StartCommand, ssShared
  <2>3. ssCmd' \in [Sessions -> {"none", "runs", "ended"}]
    BY <1>2, <1>5 DEF StartCommand
  <2>4. QED
    BY <1>1, <2>1, <2>2, <2>3, TallyMove
<1>6. CASE StoreState(s)
  <2>1. /\ ssAt[s] = "started" /\ ssAt' = [ssAt EXCEPT ![s] = "serving"] /\ ssCmd' = ssCmd
        /\ ssState' = [ssState EXCEPT ![s] = s]
    BY <1>6 DEF StoreState
  <2>2. \A a \in Sessions \ {s} : ssState'[a] = ssState[a]
    BY <2>1 DEF ShareInv, ShareTyped
  <2>3. QED
    BY <1>1, <1>2, <2>1, <2>2, TallyMove
<1>7. CASE Closing(s)
  <2>1. ssAt[s] = "serving" /\ ssCmd' = ssCmd
    BY <1>7 DEF Closing
  <2>2. CASE ssStore[UserOf(s)] # SsNone
    <3>1. PICK to \in {"signal", "wait"} : ssAt' = [ssAt EXCEPT ![s] = to]
      BY <1>7, <2>2 DEF Closing
    <3>2. ssState' = [ssState EXCEPT ![s] = ssStore[UserOf(s)]]
      BY <1>7, <2>2 DEF Closing
    <3>3. \A a \in Sessions \ {s} : ssState'[a] = ssState[a]
      BY <3>2 DEF ShareInv, ShareTyped
    <3>4. QED
      BY <1>1, <1>2, <2>1, <3>1, <3>3, TallyMove
  <2>3. CASE ssStore[UserOf(s)] = SsNone
    <3>1. ssAt' = ssAt /\ ssState' = ssState
      BY <1>7, <2>3 DEF Closing
    <3>2. TallyTyped'
      BY <1>1, <2>1, <3>1 DEF TallyInv, TallyTyped
    <3>3. QED
      BY <1>1, <3>1, <3>2, TallyKept
  <2>4. QED
    BY <2>2, <2>3
<1>8. CASE WaitSessions(s)
  <2>1. /\ ssAt[s] = "wait" /\ ssAt' = [ssAt EXCEPT ![s] = "deactivate"] /\ ssCmd' = ssCmd
        /\ ssState' = ssState
    BY <1>8 DEF WaitSessions
  <2>2. QED
    BY <1>1, <1>2, <2>1, TallyMove
<1>9. CASE Deactivate(s)
  <2>1. /\ ssAt[s] = "deactivate" /\ ssAt' = [ssAt EXCEPT ![s] = "done"] /\ ssState' = ssState
    BY <1>9 DEF Deactivate, ssShared
  <2>2. ssCmd' \in [Sessions -> {"none", "runs", "ended"}]
    BY <1>2, <1>9 DEF Deactivate
  <2>3. QED
    BY <1>1, <2>1, <2>2, TallyMove
<1>10. CASE SelectLeave(s)
  <2>1. /\ ssAt[s] = "joined" /\ ssAt' = [ssAt EXCEPT ![s] = "leaving"] /\ ssState' = ssState
        /\ ssCmd' = ssCmd
    BY <1>10 DEF SelectLeave, ssShared
  <2>2. QED
    BY <1>1, <1>2, <2>1, TallyMove
<1>11. QED
  BY <1>3, <1>4, <1>5, <1>6, <1>7, <1>8, <1>9, <1>10

\* The signal, and the steps that move no session.
LEMMA TallyOthers ==
  ASSUME ShareInv, TallyInv, NEW s \in Sessions,
         \/ Disconnect(s) \/ CommandEnds(s) \/ Output(s) \/ \E c \in {"~", "."} : Type(s, c)
         \/ \E a \in Sessions : SignalClosed(s, a)
  PROVE  TallyInv'
<1>1. CASE Disconnect(s) \/ CommandEnds(s) \/ Output(s) \/ \E c \in {"~", "."} : Type(s, c)
  <2>1. ssAt' = ssAt /\ ssState' = ssState /\ ssCount' = ssCount /\ ssWg' = ssWg
    BY <1>1 DEF Disconnect, CommandEnds, Output, Type, ssShared
  <2>2. ssCmd' \in [Sessions -> {"none", "runs", "ended"}]
    BY <1>1 DEF Disconnect, CommandEnds, Output, Type, TallyInv, TallyTyped
  <2>3. TallyTyped'
    BY <2>1, <2>2 DEF TallyInv, TallyTyped
  <2>4. QED
    BY <2>1, <2>3, TallyKept
<1>2. CASE \E a \in Sessions : SignalClosed(s, a)
  <2>1. PICK a \in Sessions : SignalClosed(s, a)
    BY <1>2
  <2>2. /\ ssCount' = ssCount /\ ssWg' = ssWg /\ ssState' = ssState /\ ssCmd' = ssCmd
        /\ ssAt[s] = "signal" /\ ssAt[a] = "joined" /\ s # a
        /\ ssAt' = [ssAt EXCEPT ![s] = "wait", ![a] = "leaving"]
    BY <2>1 DEF SignalClosed, ssShared
  <2>3. /\ ssAt' \in [Sessions -> Places]
        /\ \A t \in Sessions : ssAt'[t] = IF t = s THEN "wait" ELSE IF t = a THEN "leaving" ELSE ssAt[t]
    BY <2>2 DEF TallyInv, TallyTyped, Places
  <2>4. TallyTyped'
    BY <2>2, <2>3 DEF TallyInv, TallyTyped
  <2>5. QED
    BY <2>2, <2>3, <2>4, TallyKept DEF CountedAt, Sharing
<1>3. QED
  BY <1>1, <1>2

\* A session that joins is counted, then waited for.
LEMMA TallyJoin ==
  ASSUME ShareInv, TallyInv, NEW s \in Sessions, Join(s)
  PROVE  TallyInv'
<1>0. PICK st \in Sessions : st = ssState[s]
  BY DEF ShareInv, ShareTyped, Standing, HasState, Join, LeaveConsole
<1>1. ssState' = ssState /\ ssCmd' = ssCmd
  BY DEF Join
<1>2. CASE ssAt[s] = "additional"
  <2>1. /\ ssAt' = [ssAt EXCEPT ![s] = "counted"] /\ ssWg' = ssWg
        /\ ssCount' = [ssCount EXCEPT ![st] = @ + 1]
    BY <1>0, <1>2 DEF Join
  <2>2. TallyTyped' /\ \A a \in Sessions : ssAt'[a] = IF a = s THEN "counted" ELSE ssAt[a]
    BY <1>1, <2>1 DEF TallyInv, TallyTyped, Places
  <2>3. ASSUME NEW t \in Sessions, t # st
        PROVE  CountedIn(t)' = CountedIn(t) /\ ssCount'[t] = ssCount[t]
    BY <1>0, <1>1, <2>1, <2>2, <2>3 DEF CountedIn, TallyInv, TallyTyped
  <2>4. \A t \in Sessions : SharersOf(t)' = SharersOf(t)
    <3>1. \A a \in Sessions : ssAt'[a] \in Sharing <=> ssAt[a] \in Sharing
      BY <1>2, <2>2 DEF Sharing
    <3>2. QED
      BY <1>1, <3>1 DEF SharersOf
  <2>5. CountedIn(st)' = CountedIn(st) \cup {s} /\ s \notin CountedIn(st)
    BY <1>0, <1>1, <1>2, <2>2 DEF CountedIn, CountedAt
  <2>6. Cardinality(CountedIn(st)') = Cardinality(CountedIn(st)) + 1
    <3>1. IsFiniteSet(CountedIn(st))
      BY SessionSets DEF CountedIn
    <3>2. QED
      BY <2>5, <3>1, FS_AddElement
  <2>7. ssCount'[st] = ssCount[st] + 1
    BY <1>0, <2>1 DEF TallyInv, TallyTyped
  <2>8. Tally'
    <3>1. ASSUME NEW t \in Sessions
          PROVE  ssCount'[t] = Cardinality(CountedIn(t)') /\ ssWg'[t] = Cardinality(SharersOf(t)')
      <4>1. ssCount[t] = Cardinality(CountedIn(t)) /\ ssWg[t] = Cardinality(SharersOf(t))
        BY DEF TallyInv, Tally
      <4>2. CASE t = st
        BY <2>1, <2>4, <2>6, <2>7, <4>1, <4>2
      <4>3. CASE t # st
        BY <2>1, <2>3, <2>4, <4>1, <4>3
      <4>4. QED
        BY <4>2, <4>3
    <3>2. QED
      BY <3>1 DEF Tally
  <2>9. QED
    BY <2>2, <2>8 DEF TallyInv
<1>3. CASE ssAt[s] = "counted"
  <2>1. /\ ssAt' = [ssAt EXCEPT ![s] = "joined"] /\ ssCount' = ssCount
        /\ ssWg' = [ssWg EXCEPT ![st] = @ + 1]
    BY <1>0, <1>3 DEF Join
  <2>2. TallyTyped' /\ \A a \in Sessions : ssAt'[a] = IF a = s THEN "joined" ELSE ssAt[a]
    BY <1>1, <2>1 DEF TallyInv, TallyTyped, Places
  <2>3. ASSUME NEW t \in Sessions, t # st
        PROVE  SharersOf(t)' = SharersOf(t) /\ ssWg'[t] = ssWg[t]
    BY <1>0, <1>1, <2>1, <2>2, <2>3 DEF SharersOf, TallyInv, TallyTyped
  <2>4. \A t \in Sessions : CountedIn(t)' = CountedIn(t)
    <3>1. \A a \in Sessions : ssAt'[a] \in CountedAt <=> ssAt[a] \in CountedAt
      BY <1>3, <2>2 DEF CountedAt
    <3>2. QED
      BY <1>1, <3>1 DEF CountedIn
  <2>5. SharersOf(st)' = SharersOf(st) \cup {s} /\ s \notin SharersOf(st)
    BY <1>0, <1>1, <1>3, <2>2 DEF SharersOf, Sharing
  <2>6. Cardinality(SharersOf(st)') = Cardinality(SharersOf(st)) + 1
    <3>1. IsFiniteSet(SharersOf(st))
      BY SessionSets DEF SharersOf
    <3>2. QED
      BY <2>5, <3>1, FS_AddElement
  <2>7. ssWg'[st] = ssWg[st] + 1
    BY <1>0, <2>1 DEF TallyInv, TallyTyped
  <2>8. Tally'
    <3>1. ASSUME NEW t \in Sessions
          PROVE  ssCount'[t] = Cardinality(CountedIn(t)') /\ ssWg'[t] = Cardinality(SharersOf(t)')
      <4>1. ssCount[t] = Cardinality(CountedIn(t)) /\ ssWg[t] = Cardinality(SharersOf(t))
        BY DEF TallyInv, Tally
      <4>2. CASE t = st
        BY <2>1, <2>4, <2>6, <2>7, <4>1, <4>2
      <4>3. CASE t # st
        BY <2>1, <2>3, <2>4, <4>1, <4>3
      <4>4. QED
        BY <4>2, <4>3
    <3>2. QED
      BY <3>1 DEF Tally
  <2>9. QED
    BY <2>2, <2>8 DEF TallyInv
<1>4. QED
  BY <1>2, <1>3 DEF Join

\* A session that leaves was counted and waited for, once.
LEMMA TallyLeave ==
  ASSUME ShareInv, TallyInv, NEW s \in Sessions, LeaveConsole(s)
  PROVE  TallyInv'
<1>0. PICK st \in Sessions : st = ssState[s]
  BY DEF ShareInv, ShareTyped, Standing, HasState, Join, LeaveConsole
<1>1. /\ ssState' = ssState /\ ssCmd' = ssCmd /\ ssAt[s] = "leaving"
      /\ ssAt' = [ssAt EXCEPT ![s] = "done"]
      /\ ssCount' = [ssCount EXCEPT ![st] = @ - 1] /\ ssWg' = [ssWg EXCEPT ![st] = @ - 1]
  BY <1>0 DEF LeaveConsole
<1>2. TallyTyped' /\ \A a \in Sessions : ssAt'[a] = IF a = s THEN "done" ELSE ssAt[a]
  BY <1>1 DEF TallyInv, TallyTyped, Places
<1>3. ASSUME NEW t \in Sessions, t # st
      PROVE  /\ CountedIn(t)' = CountedIn(t) /\ SharersOf(t)' = SharersOf(t)
             /\ ssCount'[t] = ssCount[t] /\ ssWg'[t] = ssWg[t]
  <2>1. CountedIn(t)' = CountedIn(t)
    BY <1>0, <1>1, <1>2, <1>3 DEF CountedIn
  <2>2. SharersOf(t)' = SharersOf(t)
    BY <1>0, <1>1, <1>2, <1>3 DEF SharersOf
  <2>3. QED
    BY <1>0, <1>1, <1>3, <2>1, <2>2 DEF TallyInv, TallyTyped
<1>4. /\ CountedIn(st)' = CountedIn(st) \ {s} /\ s \in CountedIn(st)
      /\ SharersOf(st)' = SharersOf(st) \ {s} /\ s \in SharersOf(st)
      /\ ssCount'[st] = ssCount[st] - 1 /\ ssWg'[st] = ssWg[st] - 1
  <2>1. CountedIn(st)' = CountedIn(st) \ {s} /\ s \in CountedIn(st)
    BY <1>0, <1>1, <1>2 DEF CountedIn, CountedAt
  <2>2. SharersOf(st)' = SharersOf(st) \ {s} /\ s \in SharersOf(st)
    BY <1>0, <1>1, <1>2 DEF SharersOf, Sharing
  <2>3. ssCount'[st] = ssCount[st] - 1 /\ ssWg'[st] = ssWg[st] - 1
    BY <1>0, <1>1 DEF TallyInv, TallyTyped
  <2>4. QED
    BY <2>1, <2>2, <2>3
<1>5. /\ Cardinality(CountedIn(st)') = Cardinality(CountedIn(st)) - 1
      /\ Cardinality(SharersOf(st)') = Cardinality(SharersOf(st)) - 1
  <2>1. IsFiniteSet(CountedIn(st)) /\ IsFiniteSet(SharersOf(st))
    BY SessionSets DEF CountedIn, SharersOf
  <2>2. QED
    BY <1>4, <2>1, FS_RemoveElement
<1>6. Tally'
  <2>1. ASSUME NEW t \in Sessions
        PROVE  ssCount'[t] = Cardinality(CountedIn(t)') /\ ssWg'[t] = Cardinality(SharersOf(t)')
    <3>1. ssCount[t] = Cardinality(CountedIn(t)) /\ ssWg[t] = Cardinality(SharersOf(t))
      BY DEF TallyInv, Tally
    <3>2. CASE t = st
      BY <1>4, <1>5, <3>1, <3>2
    <3>3. CASE t # st
      BY <1>3, <3>1, <3>3
    <3>4. QED
      BY <3>2, <3>3
  <2>2. QED
    BY <2>1 DEF Tally
<1>7. QED
  BY <1>2, <1>6 DEF TallyInv

\* The counters of a State are the numbers of the sessions they stand for: none is ever
\* below zero, at which wg.Done would panic, and the initial session waits for all.
THEOREM TallyInvariance == SsSpec => []TallyInv
<1>1. SsInit => TallyInv
  <2>1. ASSUME SsInit PROVE TallyTyped
    BY <2>1 DEF SsInit, TallyTyped, Places
  <2>2. ASSUME SsInit, NEW s \in Sessions
        PROVE  ssCount[s] = Cardinality(CountedIn(s)) /\ ssWg[s] = Cardinality(SharersOf(s))
    <3>1. CountedIn(s) = {} /\ SharersOf(s) = {}
      BY <2>2 DEF SsInit, CountedIn, SharersOf, CountedAt, Sharing
    <3>2. Cardinality({}) = 0
      BY FS_EmptySet
    <3>3. ssCount[s] = 0 /\ ssWg[s] = 0
      BY <2>2 DEF SsInit
    <3>4. QED
      BY <3>1, <3>2, <3>3
  <2>3. QED
    BY <2>1, <2>2 DEF TallyInv, Tally
<1>2. ShareInv /\ TallyInv /\ [SsNext]_ssVars => TallyInv'
  <2>1. SUFFICES ASSUME ShareInv, TallyInv, [SsNext]_ssVars PROVE TallyInv'
    OBVIOUS
  <2>2. ASSUME NEW s \in Sessions, SsStep(s) PROVE TallyInv'
    BY <2>1, <2>2, TallySteps, TallyOthers, TallyJoin, TallyLeave DEF SsStep
  <2>3. ASSUME NEW s \in Sessions,
               Connect(s) \/ Disconnect(s) \/ Output(s) \/ \E c \in {"~", "."} : Type(s, c)
        PROVE  TallyInv'
    BY <2>1, <2>3, TallySteps, TallyOthers
  <2>4. CASE UNCHANGED ssVars
    <3>1. ssAt' = ssAt /\ ssState' = ssState /\ ssCount' = ssCount /\ ssWg' = ssWg /\ ssCmd' = ssCmd
      BY <2>4 DEF ssVars
    <3>2. TallyTyped'
      BY <2>1, <3>1 DEF TallyInv, TallyTyped
    <3>3. QED
      BY <2>1, <3>1, <3>2, TallyKept
  <2>5. QED
    BY <2>1, <2>2, <2>3, <2>4 DEF SsNext
<1>3. QED
  BY <1>1, <1>2, SharingInvariance, PTL DEF SsSpec

\* The variables of SecondStar keep their types; no counter of a State is negative.
THEOREM SecondStarTypeCorrect == SsSpec => []SsTypeOK
<1>1. SsInv /\ ShareInv /\ TallyInv => SsTypeOK
  <2>1. SUFFICES ASSUME SsInv, ShareInv, TallyInv PROVE SsTypeOK
    OBVIOUS
  <2>2. \A s \in Sessions : ssCount[s] \in Nat /\ ssWg[s] \in Nat
    <3>1. \A s \in Sessions : CountedIn(s) \in SUBSET Sessions /\ SharersOf(s) \in SUBSET Sessions
      BY DEF CountedIn, SharersOf
    <3>2. QED
      BY <2>1, <3>1, SessionSets DEF TallyInv, Tally
  <2>3. /\ ssAt \in [Sessions -> Places] /\ ssCmd \in [Sessions -> {"none", "runs", "ended"}]
        /\ ssCount \in [Sessions -> Int] /\ ssWg \in [Sessions -> Int]
    BY <2>1 DEF TallyInv, TallyTyped
  <2>4. /\ ssStore \in [SsMachines -> Sessions \cup {SsNone}]
        /\ ssState \in [Sessions -> Sessions \cup {SsNone}]
        /\ \A s \in Sessions : ssWriters[s] \in Seq(Sessions)
    BY <2>1 DEF ShareInv, ShareTyped
  <2>5. ssCount \in [Sessions -> Nat] /\ ssWg \in [Sessions -> Nat]
    BY <2>2, <2>3
  <2>6. ssStuck \in [SsMachines -> BOOLEAN]
    BY <2>1 DEF SsInv, SsTyped
  <2>7. QED
    BY <2>3, <2>4, <2>5, <2>6 DEF SsTypeOK, Places
<1>2. QED
  BY <1>1, ConsoleInvariance, SharingInvariance, TallyInvariance, PTL

\* A console is shared by the sessions that are there and by no others: it is released
\* after the last one (initialSession) unless its deactivation failed, and who has joined sees all it writes from then
\* on, in order, while output is copied (MultiWriter, additionalSession).
THEOREM ConsoleIsShared == SsSpec => []ConsoleShared
<1>1. ShareInv => JoinedSeesAll
  BY DEF ShareInv, Following, Follows, JoinedSeesAll
<1>2. QED
  BY <1>1, ConsoleIsReleased, SharingInvariance, PTL DEF ConsoleShared

-----------------------------------------------------------------------------
(* The Web UI.                                                             *)

ReqFields == {"at", "route", "query", "token", "sa", "ns", "next", "found", "to", "verbs", "permNs"}
PageFields == {"route", "token", "status", "to", "items", "page", "pages", "ns", "query",
               "outcome", "verbs"}
NoRoute == UiRoute("none", "")

\* Where a request can be, by the kind of its route.
Placed(q) ==
  /\ q.at \in {"namespaces", "list", "get", "search", "verbs", "write"}
  /\ q.at = "namespaces" => q.ns = q.query.ns
  /\ q.at = "list" => q.route.kind \in {"list", "data"}
  /\ q.at = "get" => q.route.kind = "detail"
  /\ q.at = "verbs" => q.route.kind = "check"
  /\ q.at = "search" => q.route.kind = "search"
  /\ q.at = "write" => q.route.kind \notin {"list", "data", "detail"}

\* The verbs reviewed so far are true where the row will say it.
Reviewed(q) ==
  /\ q.permNs \in {"", q.sa}
  /\ \A v \in q.verbs : IF q.permNs = "" THEN v \in TokenOf(q.token).cluster
                                         ELSE May(q.token, v, q.permNs)

\* A request in a handler: it has a token, and who may list at home only is at home.
ReqOK(q) ==
  /\ q.route \in Protected /\ q.query.page \in Int /\ q.query.per \in Int
  /\ q.token \in Tokens /\ q.sa = TokenOf(q.token).sa
  /\ Placed(q) /\ Reviewed(q)
  /\ q.at = "list" /\ q.route.kind = "list" /\ q.route.selects /\ q.query.ns = ""
       /\ HomeOnly(q.token) => q.ns = q.sa

\* What a page says.
PermsOK(a) ==
  a.route.kind = "check" /\ a.status = 200 =>
    \A v \in a.verbs : IF a.ns = "" THEN v \in TokenOf(a.token).cluster ELSE May(a.token, v, a.ns)
HomeOK(a) ==
  a.route.kind = "list" /\ a.route.selects /\ a.query.ns = "" /\ a.token # "" =>
    ~(a.outcome = "forbidden" /\ HomeOnly(a.token))
NumbersOK(a) == a.route.kind = "list" /\ a.outcome = "ok" => a.page \in 1..a.pages /\ a.pages \in Nat
PageOK(a) ==
  /\ a.route \in Protected \cup {NoRoute}
  /\ a.status \in {0, 200, 302, 400, 401, 403, 404}
  /\ PermsOK(a) /\ HomeOK(a) /\ NumbersOK(a)

\* The number of pages, and the items up to the end of one.
PagesOf(total, per) == IF total = 0 THEN 1 ELSE (total + per - 1) \div per
UpTo(items, page) == SubSeq(items, 1, Least(page * DefaultItemsPerPage, Len(items)))

\* A walk has seen everything up to the page that is shown.
WalkOK(w, a, items) ==
  w.page # 0 =>
    /\ a.page = w.page /\ a.pages = PagesOf(Len(items), DefaultItemsPerPage)
    /\ w.page \in 1..a.pages /\ w.seen = UpTo(items, w.page)

BrowserOK(b) ==
  /\ DOMAIN uiReq[b] = ReqFields /\ DOMAIN uiPage[b] = PageFields
  /\ DOMAIN uiCookie[b] = Cookies /\ uiCookie[b]["auth_token"] \in Tokens \cup {""}
  /\ uiReq[b].at # "idle" => ReqOK(uiReq[b])
  /\ PageOK(uiPage[b])
  /\ DOMAIN uiWalk[b] = {"ns", "type", "page", "seen"}
  /\ WalkOK(uiWalk[b], uiPage[b], InNamespace(uiWalk[b].ns))
  /\ uiOut[b] \in BOOLEAN
  /\ uiOut[b] => ~uiAuto /\ uiReq[b].at = "idle" /\ uiCookie[b] = NoCookies

UiInv ==
  /\ uiValid \subseteq Tokens /\ uiChanges \in 0..MaxUiChanges
  /\ uiObjects \in Seq([ns : STRING, name : STRING])
  /\ DOMAIN uiReq = Browsers /\ DOMAIN uiPage = Browsers /\ DOMAIN uiCookie = Browsers
  /\ DOMAIN uiWalk = Browsers /\ DOMAIN uiOut = Browsers
  /\ \A b \in Browsers : BrowserOK(b)

\* A list of objects is a sequence.
LEMMA ListIsSeq ==
  ASSUME NEW objects \in Seq([ns : STRING, name : STRING]), NEW ns
  PROVE  \E S : ObjectsIn(objects, ns) \in Seq(S)
<1> DEFINE at == {i \in DOMAIN objects : EveryNamespace(ns) \/ objects[i].ns = ns}
           nth(n) == objects[CHOOSE i \in at : Cardinality({j \in at : j < i}) = n - 1]
<1>1. Cardinality(at) \in Nat
  <2>1. DOMAIN objects = 1..Len(objects) /\ Len(objects) \in Nat
    OBVIOUS
  <2>2. IsFiniteSet(1..Len(objects))
    BY <2>1, FS_Interval
  <2>3. IsFiniteSet(at)
    BY <2>1, <2>2, FS_Subset
  <2>4. QED
    BY <2>3, FS_CardinalityType
<1>2. ObjectsIn(objects, ns) = [n \in 1..Cardinality(at) |-> nth(n)]
  BY DEF ObjectsIn
<1> HIDE DEF at, nth
<1>3. [n \in 1..Cardinality(at) |-> nth(n)] \in Seq({nth(n) : n \in 1..Cardinality(at)})
  BY <1>1
<1>4. QED
  BY <1>2, <1>3

\* Division by the items of a page.
LEMMA Quotient ==
  ASSUME NEW total \in Nat, NEW per \in Nat \ {0}
  PROVE  /\ PagesOf(total, per) \in Nat /\ PagesOf(total, per) >= 1
         /\ PagesOf(total, per) * per >= total
         /\ total > 0 => (PagesOf(total, per) - 1) * per < total
<1> DEFINE x == total + per - 1
           d == x \div per
<1>1. x \in Nat
  OBVIOUS
<1>2. d \in Nat /\ d * per <= x /\ x < (d + 1) * per
  BY <1>1
<1> HIDE DEF d
<1>3. CASE total = 0
  BY <1>3 DEF PagesOf
<1>4. CASE total > 0
  <2>1. PagesOf(total, per) = d
    BY <1>4 DEF PagesOf, d
  <2>2. x >= per
    BY <1>4
  <2>3. d # 0
    BY <1>2, <2>2
  <2>4. (d + 1) * per = d * per + per /\ (d - 1) * per = d * per - per
    BY <1>2
  <2>5. d * per \in Nat
    BY <1>2
  <2>6. QED
    BY <1>2, <2>1, <2>3, <2>4, <2>5
<1>5. QED
  BY <1>3, <1>4

\* The pages of a list: the one shown exists, it follows what lies on the
\* pages before it, and the last ends the list.
LEMMA PagesFollow ==
  ASSUME NEW S, NEW items \in Seq(S), NEW p \in Int, NEW per \in Nat \ {0}
  PROVE  LET r == Paginated(items, p, per)
             upTo(n) == SubSeq(items, 1, Least(n * per, Len(items)))
         IN /\ r.pages = PagesOf(Len(items), per) /\ r.page \in 1..r.pages
            /\ upTo(r.page - 1) \o r.items = upTo(r.page)
            /\ r.page = 1 => r.items = upTo(1)
<1> DEFINE total == Len(items)
           pages == PagesOf(total, per)
           page  == Least(Most(p, 1), pages)
           start == Least((page - 1) * per, total)
           end   == Least((page - 1) * per + per, total)
           r == Paginated(items, p, per)
<1>1. total \in Nat
  OBVIOUS
<1>2. pages \in Nat /\ pages >= 1
  BY <1>1, Quotient
<1>3. r.items = SubSeq(items, start + 1, end) /\ r.page = page /\ r.pages = pages
  BY DEF Paginated, PagesOf
<1> HIDE DEF r, pages, total
<1>4. page \in 1..pages
  BY <1>2 DEF Least, Most
<1> HIDE DEF page
<1>5. page \in Nat /\ page - 1 \in Nat /\ (page - 1) * per \in Nat /\ page * per = (page - 1) * per + per
  <2>1. page - 1 \in Nat /\ page \in Nat
    BY <1>2, <1>4
  <2>2. (page - 1) * per \in Nat
    BY <2>1
  <2>3. page * per = (page - 1) * per + per
    BY <2>1
  <2>4. QED
    BY <2>1, <2>2, <2>3
<1>6. /\ start \in 0..total /\ end \in start..total
  BY <1>1, <1>5 DEF Least
<1>7. end = Least(page * per, total)
  BY <1>5
<1> HIDE DEF start, end
<1>8. SubSeq(items, 1, start) \o SubSeq(items, start + 1, end) = SubSeq(items, 1, end)
  BY <1>1, <1>6 DEF total
<1>9. page = 1 => start = 0 /\ start + 1 = 1
  <2>1. (1 - 1) * per = 0
    OBVIOUS
  <2>2. QED
    BY <1>1, <2>1 DEF start, Least
<1>10. page = 1 => SubSeq(items, start + 1, end) = SubSeq(items, 1, end)
  BY <1>9
<1>11. SubSeq(items, 1, Least((page - 1) * per, Len(items))) = SubSeq(items, 1, start)
  BY DEF start, total
<1>12. SubSeq(items, 1, Least(page * per, Len(items))) = SubSeq(items, 1, end)
  BY <1>7 DEF total
<1>13. QED
  BY <1>3, <1>4, <1>8, <1>10, <1>11, <1>12 DEF r, pages, total

\* Up to the last page is everything.
LEMMA LastPageEnds ==
  ASSUME NEW S, NEW items \in Seq(S)
  PROVE  UpTo(items, PagesOf(Len(items), DefaultItemsPerPage)) = items
<1>0. DefaultItemsPerPage \in Nat \ {0}
  BY UiAssumption
<1>1. DefaultItemsPerPage \in Nat \ {0} /\ Len(items) \in Nat
  BY <1>0
<1>2. PagesOf(Len(items), DefaultItemsPerPage) * DefaultItemsPerPage >= Len(items)
  BY <1>1, Quotient
<1>3. PagesOf(Len(items), DefaultItemsPerPage) * DefaultItemsPerPage \in Nat
  <2>1. \A m, n \in Nat : m * n \in Nat
    OBVIOUS
  <2>2. PagesOf(Len(items), DefaultItemsPerPage) \in Nat
    BY <1>1, Quotient
  <2>3. QED
    BY <1>1, <2>1, <2>2
<1>4. Least(PagesOf(Len(items), DefaultItemsPerPage) * DefaultItemsPerPage, Len(items)) = Len(items)
  BY <1>1, <1>2, <1>3 DEF Least
<1>5. SubSeq(items, 1, Len(items)) = items
  OBVIOUS
<1>6. QED
  BY <1>4, <1>5 DEF UpTo

RouteKinds == {"list", "data", "detail", "search", "permissions", "check", "dashboard",
               "dashboard-data"}
ListTypes == {"hardware", "workflows", "templates", "workflows/rulesets", "bmc/machines",
              "bmc/jobs", "bmc/tasks"}

\* What the proofs use of a route.
RouteOK(r) ==
  /\ r.kind \in RouteKinds /\ r.missing \in {200, 404}
  /\ r.sidebar = (r.kind \notin {"data", "check", "search", "dashboard-data"})
  /\ r.kind \in {"list", "data"} => r.type \in ListTypes

\* The routes of a type with a list.
LEMMA ListRoutes ==
  \A type \in ListTypes : \E r \in Protected : r.kind = "list" /\ r.type = type
<1>1. /\ HandleHardwareList.kind = "list" /\ HandleHardwareList.type = "hardware"
      /\ HandleWorkflowList.kind = "list" /\ HandleWorkflowList.type = "workflows"
      /\ HandleTemplateList.kind = "list" /\ HandleTemplateList.type = "templates"
      /\ HandleWorkflowRuleSetList.kind = "list"
      /\ HandleWorkflowRuleSetList.type = "workflows/rulesets"
  BY DEF HandleHardwareList, HandleWorkflowList, HandleTemplateList, HandleWorkflowRuleSetList,
         UiRoute
<1>2. /\ HandleBMCMachineList.kind = "list" /\ HandleBMCMachineList.type = "bmc/machines"
      /\ HandleBMCJobList.kind = "list" /\ HandleBMCJobList.type = "bmc/jobs"
      /\ HandleBMCTaskList.kind = "list" /\ HandleBMCTaskList.type = "bmc/tasks"
  BY DEF HandleBMCMachineList, HandleBMCJobList, HandleBMCTaskList, UiRoute
<1>3. {HandleHardwareList, HandleWorkflowList, HandleTemplateList, HandleWorkflowRuleSetList,
       HandleBMCMachineList, HandleBMCJobList, HandleBMCTaskList} \subseteq Protected
  BY DEF Protected
<1>4. QED
  BY <1>1, <1>2, <1>3 DEF ListTypes

\* Every protected route is well formed, and the buttons of its pages lead to a list.
LEMMA RouteFacts ==
  ASSUME NEW r \in Protected
  PROVE  /\ RouteOK(r)
         /\ r.kind \in {"list", "data"} =>
              ResourcePath(r.type) \in Protected /\ ResourcePath(r.type).kind = "list"
<1>1. RouteOK(HandleHardwareList) /\ RouteOK(HandleHardwareData) /\ RouteOK(HandleHardwareDetail)
  BY DEF RouteOK, RouteKinds, ListTypes, UiRoute, HandleHardwareList, HandleHardwareData,
         HandleHardwareDetail
<1>2. RouteOK(HandleWorkflowList) /\ RouteOK(HandleWorkflowData) /\ RouteOK(HandleWorkflowDetail)
  BY DEF RouteOK, RouteKinds, ListTypes, UiRoute, HandleWorkflowList, HandleWorkflowData,
         HandleWorkflowDetail
<1>3. RouteOK(HandleTemplateList) /\ RouteOK(HandleTemplateData) /\ RouteOK(HandleTemplateDetail)
  BY DEF RouteOK, RouteKinds, ListTypes, UiRoute, HandleTemplateList, HandleTemplateData,
         HandleTemplateDetail
<1>4. /\ RouteOK(HandleWorkflowRuleSetList) /\ RouteOK(HandleWorkflowRuleSetData)
      /\ RouteOK(HandleWorkflowRuleSetDetail)
  BY DEF RouteOK, RouteKinds, ListTypes, UiRoute, HandleWorkflowRuleSetList,
         HandleWorkflowRuleSetData, HandleWorkflowRuleSetDetail
<1>5. /\ RouteOK(HandleBMCMachineList) /\ RouteOK(HandleBMCMachineData)
      /\ RouteOK(HandleBMCMachineDetail)
  BY DEF RouteOK, RouteKinds, ListTypes, UiRoute, HandleBMCMachineList, HandleBMCMachineData,
         HandleBMCMachineDetail
<1>6. RouteOK(HandleBMCJobList) /\ RouteOK(HandleBMCJobData) /\ RouteOK(HandleBMCJobDetail)
  BY DEF RouteOK, RouteKinds, ListTypes, UiRoute, HandleBMCJobList, HandleBMCJobData,
         HandleBMCJobDetail
<1>7. RouteOK(HandleBMCTaskList) /\ RouteOK(HandleBMCTaskData) /\ RouteOK(HandleBMCTaskDetail)
  BY DEF RouteOK, RouteKinds, ListTypes, UiRoute, HandleBMCTaskList, HandleBMCTaskData,
         HandleBMCTaskDetail
<1>8. RouteOK(HandleGlobalSearch) /\ RouteOK(HandlePermissions) /\ RouteOK(HandlePermissionCheck)
  BY DEF RouteOK, RouteKinds, ListTypes, UiRoute, HandleGlobalSearch, HandlePermissions,
         HandlePermissionCheck
<1>9. RouteOK(HandleDashboard) /\ RouteOK(HandleDashboardData)
  BY DEF RouteOK, RouteKinds, ListTypes, UiRoute, HandleDashboard, HandleDashboardData
<1>10. RouteOK(r)
  BY <1>1, <1>2, <1>3, <1>4, <1>5, <1>6, <1>7, <1>8, <1>9 DEF Protected
<1>11. ASSUME r.kind \in {"list", "data"}
       PROVE  ResourcePath(r.type) \in Protected /\ ResourcePath(r.type).kind = "list"
  <2>1. r.type \in ListTypes
    BY <1>10, <1>11 DEF RouteOK
  <2>2. \E s \in Protected : s.kind = "list" /\ s.type = r.type
    BY <2>1, ListRoutes
  <2>3. QED
    BY <2>2 DEF ResourcePath
<1>12. QED
  BY <1>10, <1>11

\* A browser of which nothing changed, in a cluster whose objects did not.
LEMMA BrowserKept ==
  ASSUME NEW b, BrowserOK(b), uiReq'[b] = uiReq[b], uiPage'[b] = uiPage[b],
         uiCookie'[b] = uiCookie[b], uiWalk'[b] = uiWalk[b], uiOut'[b] = uiOut[b],
         uiAuto' = uiAuto, uiObjects' = uiObjects
  PROVE  BrowserOK(b)'
<1>1. InNamespace(uiWalk[b].ns)' = InNamespace(uiWalk[b].ns)
  BY DEF InNamespace
<1>2. QED
  BY <1>1 DEF BrowserOK

\* The steps of one browser leave the others and the cluster alone.
LEMMA OthersKept ==
  ASSUME UiInv, NEW b \in Browsers, UNCHANGED uiWorld,
         \A c \in Browsers \ {b} :
           /\ uiReq'[c] = uiReq[c] /\ uiPage'[c] = uiPage[c] /\ uiCookie'[c] = uiCookie[c]
           /\ uiWalk'[c] = uiWalk[c] /\ uiOut'[c] = uiOut[c],
         DOMAIN uiReq' = Browsers, DOMAIN uiPage' = Browsers, DOMAIN uiCookie' = Browsers,
         DOMAIN uiWalk' = Browsers, DOMAIN uiOut' = Browsers,
         BrowserOK(b)'
  PROVE  UiInv'
<1>1. uiAuto' = uiAuto /\ uiObjects' = uiObjects /\ uiValid' = uiValid /\ uiChanges' = uiChanges
  BY DEF uiWorld
<1>2. ASSUME NEW c \in Browsers \ {b} PROVE BrowserOK(c)'
  <2>1. BrowserOK(c)
    BY DEF UiInv
  <2>2. QED
    BY <1>1, <2>1, BrowserKept
<1>3. QED
  BY <1>1, <1>2 DEF UiInv

\* What an answer must be for a walk to go on with it.
Fits(a) ==
  a.route.kind = "list" /\ a.outcome = "ok" /\ a.query.per = 0 =>
    LET items == InNamespace(a.ns)
    IN /\ a.pages = PagesOf(Len(items), DefaultItemsPerPage) /\ a.page \in 1..a.pages
       /\ UpTo(items, a.page - 1) \o a.items = UpTo(items, a.page)
       /\ a.page = 1 => a.items = UpTo(items, 1)

\* One list, however its namespace is written.
LEMMA SameObjects ==
  ASSUME NEW ns, NEW other, SameList(ns, other)
  PROVE  InNamespace(ns) = InNamespace(other)
<1>1. CASE ns = other
  BY <1>1
<1>2. CASE EveryNamespace(ns) /\ EveryNamespace(other)
  <2> DEFINE At(n) == {i \in DOMAIN uiObjects : EveryNamespace(n) \/ uiObjects[i].ns = n}
             Of(at) == [n \in 1..Cardinality(at) |->
                          uiObjects[CHOOSE i \in at : Cardinality({j \in at : j < i}) = n - 1]]
  <2>1. At(ns) = At(other)
    BY <1>2
  <2>2. InNamespace(ns) = Of(At(ns)) /\ InNamespace(other) = Of(At(other))
    BY DEF InNamespace, ObjectsIn
  <2> HIDE DEF At, Of
  <2>3. QED
    BY <2>1, <2>2
<1>3. QED
  BY <1>1, <1>2 DEF SameList

\* A walk that an answer starts, goes on with or ends.
LEMMA WalkedOK ==
  ASSUME NEW b \in Browsers, BrowserOK(b), NEW a, Fits(a)
  PROVE  /\ DOMAIN Walked(b, a) = {"ns", "type", "page", "seen"}
         /\ WalkOK(Walked(b, a), a, InNamespace(Walked(b, a).ns))
<1> DEFINE w == uiWalk[b]
           v == Walked(b, a)
           items == InNamespace(a.ns)
<1>1. DOMAIN w = {"ns", "type", "page", "seen"} /\ WalkOK(w, uiPage[b], InNamespace(w.ns))
  BY DEF BrowserOK
<1>2. CASE v = NoWalk
  <2>1. DOMAIN NoWalk = {"ns", "type", "page", "seen"} /\ NoWalk.page = 0
    BY DEF NoWalk
  <2>2. QED
    BY <1>2, <2>1 DEF WalkOK
<1>3. CASE v # NoWalk
  <2>1. a.route.kind = "list" /\ a.outcome = "ok" /\ a.query.per = 0
    BY <1>3 DEF Walked
  <2>2. /\ a.pages = PagesOf(Len(items), DefaultItemsPerPage) /\ a.page \in 1..a.pages
        /\ UpTo(items, a.page - 1) \o a.items = UpTo(items, a.page)
        /\ a.page = 1 => a.items = UpTo(items, 1)
    BY <2>1 DEF Fits
  <2>3. CASE a.page = 1
    <3>1. v = [ns |-> a.ns, type |-> a.route.type, page |-> 1, seen |-> a.items]
      BY <2>1, <2>3 DEF Walked
    <3>2. DOMAIN v = {"ns", "type", "page", "seen"} /\ v.ns = a.ns /\ v.page = 1 /\ v.seen = a.items
      BY <3>1
    <3>3. QED
      BY <2>2, <2>3, <3>2 DEF WalkOK
  <2>4. CASE a.page # 1
    <3>1. /\ w.page + 1 = a.page /\ SameList(w.ns, a.ns)
          /\ v = [w EXCEPT !.page = a.page, !.seen = @ \o a.items]
      BY <1>3, <2>1, <2>4 DEF Walked
    <3>2. /\ DOMAIN v = {"ns", "type", "page", "seen"} /\ v.ns = w.ns /\ v.page = a.page
          /\ v.seen = w.seen \o a.items
      BY <1>1, <3>1
    <3>8. InNamespace(w.ns) = items
      BY <3>1, SameObjects
    <3>3. w.page # 0
      BY <2>4, <3>1
    <3>4. w.page \in 1..uiPage[b].pages /\ w.seen = UpTo(items, w.page)
      BY <1>1, <3>1, <3>3, <3>8 DEF WalkOK
    <3>5. w.page = a.page - 1
      BY <3>1, <3>4
    <3>6. v.seen = UpTo(items, a.page)
      BY <2>2, <3>2, <3>4, <3>5
    <3>7. QED
      BY <2>2, <3>2, <3>6, <3>8 DEF WalkOK
  <2>5. QED
    BY <2>3, <2>4
<1>4. QED
  BY <1>2, <1>3

\* A request that is idle.
LEMMA IdleFields ==
  DOMAIN IdleReq = ReqFields /\ IdleReq.at = "idle" /\ IdleReq.verbs = {} /\ IdleReq.permNs = ""
BY DEF IdleReq, ReqFields

\* A step that answers a request.
LEMMA AnswerKept ==
  ASSUME UiInv, NEW b \in Browsers, NEW a, UiAnswer(b, a), UNCHANGED <<uiWorld, uiCookie, uiOut>>,
         DOMAIN a = PageFields, PageOK(a), Fits(a)
  PROVE  UiInv'
<1>1. BrowserOK(b) /\ DOMAIN uiReq = Browsers /\ DOMAIN uiPage = Browsers
      /\ DOMAIN uiCookie = Browsers /\ DOMAIN uiWalk = Browsers /\ DOMAIN uiOut = Browsers
  BY DEF UiInv
<1>2. /\ uiPage' = [uiPage EXCEPT ![b] = a] /\ uiReq' = [uiReq EXCEPT ![b] = IdleReq]
      /\ uiWalk' = [uiWalk EXCEPT ![b] = Walked(b, a)]
      /\ uiCookie' = uiCookie /\ uiOut' = uiOut /\ uiAuto' = uiAuto /\ uiObjects' = uiObjects
  BY DEF UiAnswer, UiGo, uiWorld
<1>3. uiPage'[b] = a /\ uiReq'[b] = IdleReq /\ uiWalk'[b] = Walked(b, a)
  BY <1>1, <1>2
<1>4. WalkOK(uiWalk'[b], uiPage'[b], ObjectsIn(uiObjects', uiWalk'[b].ns))
  BY <1>1, <1>2, <1>3, WalkedOK DEF InNamespace
<1>5. BrowserOK(b)'
  BY <1>1, <1>2, <1>3, <1>4, WalkedOK, IdleFields DEF BrowserOK, InNamespace
<1>6. QED
  BY <1>1, <1>2, <1>5, OthersKept

\* A step that moves a request along.
LEMMA MoveKept ==
  ASSUME UiInv, NEW b \in Browsers, NEW r, uiReq' = [uiReq EXCEPT ![b] = r],
         UNCHANGED <<uiWorld, uiCookie, uiOut, uiPage, uiWalk>>, ~uiOut[b],
         DOMAIN r = ReqFields, ReqOK(r)
  PROVE  UiInv'
<1>1. BrowserOK(b) /\ DOMAIN uiReq = Browsers /\ DOMAIN uiPage = Browsers
      /\ DOMAIN uiCookie = Browsers /\ DOMAIN uiWalk = Browsers /\ DOMAIN uiOut = Browsers
  BY DEF UiInv
<1>2. /\ uiPage' = uiPage /\ uiWalk' = uiWalk /\ uiCookie' = uiCookie /\ uiOut' = uiOut
      /\ uiAuto' = uiAuto /\ uiObjects' = uiObjects
  BY DEF uiWorld
<1>3. uiReq'[b] = r
  BY <1>1
<1>4. InNamespace(uiWalk[b].ns)' = InNamespace(uiWalk[b].ns)
  BY <1>2 DEF InNamespace
<1>5. BrowserOK(b)'
  BY <1>1, <1>2, <1>3, <1>4 DEF BrowserOK
<1>6. QED
  BY <1>1, <1>2, <1>5, OthersKept

\* A request that is in a handler is not of a browser that is logged out.
LEMMA InHandler ==
  ASSUME UiInv, NEW b \in Browsers, uiReq[b].at # "idle"
  PROVE  ReqOK(uiReq[b]) /\ ~uiOut[b] /\ DOMAIN uiReq[b] = ReqFields
BY DEF UiInv, BrowserOK

\* The page of a request, before its contents.
LEMMA PageFacts ==
  ASSUME NEW b, NEW status, NEW o
  PROVE  LET a == PageOf(b, status, o)
         IN /\ DOMAIN a = PageFields /\ a.route = uiReq[b].route /\ a.token = uiReq[b].token
            /\ a.status = status /\ a.ns = uiReq[b].ns /\ a.query = uiReq[b].query
            /\ a.outcome = o
BY DEF PageOf, Blankpage, PageFields

\* Where a handler begins.
LEMMA AfterFacts ==
  ASSUME NEW r \in Protected, NEW q
  PROVE  LET at == AfterNamespaces(r, q)
         IN /\ at \in {"list", "get", "search", "verbs", "write"}
            /\ at = "list" => r.kind \in {"list", "data"}
            /\ at = "get" => r.kind = "detail"
            /\ at = "verbs" => r.kind = "check"
            /\ at = "search" => r.kind = "search"
            /\ at = "write" => r.kind \notin {"list", "data", "detail"}
<1>1. r.kind \in RouteKinds
  BY RouteFacts DEF RouteOK
<1>2. QED
  BY <1>1 DEF AfterNamespaces, RouteKinds

\* A request that enters a handler.
LEMMA EnteredOK ==
  ASSUME NEW r \in Protected, NEW q, q.page \in Int, q.per \in Int, NEW t \in Tokens
  PROVE  LET e == Entered(r, q, t, TokenOf(t).sa)
         IN DOMAIN e = ReqFields /\ ReqOK(e)
<1> DEFINE e == Entered(r, q, t, TokenOf(t).sa)
<1>1. /\ DOMAIN e = ReqFields
      /\ e.at = IF r.sidebar THEN "namespaces" ELSE AfterNamespaces(r, q)
      /\ e.route = r /\ e.query = q /\ e.token = t /\ e.sa = TokenOf(t).sa /\ e.ns = q.ns
      /\ e.verbs = {} /\ e.permNs = ""
  BY DEF Entered, IdleReq, ReqFields
<1> HIDE DEF e
<1>2. r.kind = "list" => r.sidebar
  BY RouteFacts DEF RouteOK
<1>3. Placed(e)
  BY <1>1, AfterFacts DEF Placed
<1>4. Reviewed(e)
  BY <1>1 DEF Reviewed
<1>5. e.route.kind = "list" => e.at # "list"
  BY <1>1, <1>2
<1>6. ReqOK(e)
  BY <1>1, <1>3, <1>4, <1>5 DEF ReqOK
<1>7. QED
  BY <1>1, <1>6 DEF e

\* The middlewares in front of the handlers.
LEMMA GetStep ==
  ASSUME UiInv, NEW b \in Browsers, NEW r \in Protected, NEW q, q.page \in Int, q.per \in Int,
         UiGet(b, r, q)
  PROVE  UiInv'
<1>1. BrowserOK(b)
  BY DEF UiInv
<1>2. UiAt(b, "idle") /\ UNCHANGED <<uiWorld, uiCookie, uiOut>>
  BY DEF UiGet
<1>3. CASE AutoLoginMiddleware(b, r, q)
  <2>1. /\ uiAuto /\ uiReq' = [uiReq EXCEPT ![b] = Entered(r, q, AutoToken, TokenOf(AutoToken).sa)]
        /\ UNCHANGED <<uiPage, uiWalk>>
    BY <1>3 DEF AutoLoginMiddleware, UiGo
  <2>2. ~uiOut[b]
    BY <1>1, <2>1 DEF BrowserOK
  <2>3. AutoToken \in Tokens
    BY UiAssumption
  <2>4. QED
    BY <1>2, <2>1, <2>2, <2>3, EnteredOK, MoveKept
<1>4. CASE AuthMiddleware(b, r, q)
  <2> DEFINE c == GetTokenAndAPIServerFromRequest(b)
             a == [Blankpage EXCEPT !.status = 302, !.to = "prefix/login", !.route = r, !.query = q]
  <2>1. c.token = uiCookie[b]["auth_token"]
    BY DEF GetTokenAndAPIServerFromRequest
  <2>2. CASE UiAnswer(b, a)
    <3>1. UiAnswer(b, a)
      BY <2>2
    <3>2. /\ DOMAIN a = PageFields /\ a.status = 302 /\ a.route = r /\ a.outcome = "none"
      BY DEF Blankpage, PageFields
    <3> HIDE DEF a
    <3>3. PageOK(a) /\ Fits(a)
      BY <3>2 DEF PageOK, PermsOK, HomeOK, NumbersOK, Fits
    <3>4. QED
      BY <1>2, <3>1, <3>2, <3>3, AnswerKept
  <2>3. CASE /\ ~(c.token = "" \/ c.server = "")
             /\ UiGo(b, Entered(r, q, c.token, TokenOf(c.token).sa)) /\ UNCHANGED <<uiPage, uiWalk>>
    <3>1. /\ uiReq' = [uiReq EXCEPT ![b] = Entered(r, q, c.token, TokenOf(c.token).sa)]
          /\ UNCHANGED <<uiPage, uiWalk>>
      BY <2>3 DEF UiGo
    <3>2. c.token \in Tokens
      BY <1>1, <2>1, <2>3 DEF BrowserOK
    <3>3. NoCookies["auth_token"] = ""
      BY DEF NoCookies, Cookies
    <3>4. ~uiOut[b]
      BY <1>1, <2>1, <2>3, <3>3 DEF BrowserOK
    <3> HIDE DEF c
    <3>5. QED
      BY <1>2, <3>1, <3>2, <3>4, EnteredOK, MoveKept
  <2>4. QED
    BY <1>4, <2>2, <2>3 DEF AuthMiddleware
<1>5. QED
  BY <1>3, <1>4 DEF UiGet

\* A button of a page.
LEMMA TurnStep ==
  ASSUME UiInv, NEW b \in Browsers, NEW p \in Int, TurnPage(b, p)
  PROVE  UiInv'
<1> DEFINE a == uiPage[b]
           q == [NoQuery EXCEPT !.page = p, !.htmx = TRUE,
                                !.ns = ButtonNamespace(b)]
<1>1. a.route.kind \in {"list", "data"} /\ UiGet(b, ResourcePath(a.route.type), q)
  BY DEF TurnPage
<1>2. a.route \in Protected \cup {NoRoute} /\ NoRoute.kind = "none"
  <2>1. NoRoute.kind = "none"
    BY DEF NoRoute, UiRoute
  <2>2. PageOK(a)
    BY DEF UiInv, BrowserOK
  <2> HIDE DEF a
  <2>3. QED
    BY <2>1, <2>2 DEF PageOK
<1>3. a.route \in Protected
  BY <1>1, <1>2
<1>4. ResourcePath(a.route.type) \in Protected
  BY <1>1, <1>3, RouteFacts
<1>5. q.page = p /\ q.per = 0
  BY DEF NoQuery
<1> HIDE DEF q
<1>6. q.page \in Int /\ q.per \in Int
  BY <1>5
<1>7. QED
  BY <1>1, <1>4, <1>6, GetStep

\* The namespaces of the sidebar, and the default of the pages that select.
LEMMA NamespacesStep ==
  ASSUME UiInv, NEW b \in Browsers, ListNamespaces(b)
  PROVE  UiInv'
<1> DEFINE q == uiReq[b]
<1>1. q.at = "namespaces" /\ UNCHANGED <<uiWorld, uiCookie, uiOut, uiPage, uiWalk>>
  BY DEF ListNamespaces, UiAt
<1>2. ReqOK(q) /\ ~uiOut[b] /\ DOMAIN q = ReqFields
  BY <1>1, InHandler
<1>3. PICK o \in Calls(q.token, TokenOf(q.token).namespaces) :
        uiReq' = [uiReq EXCEPT ![b] =
          [q EXCEPT !.at = AfterNamespaces(q.route, q.query),
                    !.ns = IF q.route.selects
                           THEN GetSelectedNamespace(@, GetKubeNamespaces(o, q.sa)) ELSE @]]
  BY DEF ListNamespaces, UiGo
<1> DEFINE r == [q EXCEPT !.at = AfterNamespaces(q.route, q.query),
                          !.ns = IF q.route.selects
                                 THEN GetSelectedNamespace(@, GetKubeNamespaces(o, q.sa)) ELSE @]
<1>4. /\ DOMAIN r = ReqFields /\ r.at = AfterNamespaces(q.route, q.query) /\ r.route = q.route
      /\ r.query = q.query /\ r.token = q.token /\ r.sa = q.sa /\ r.verbs = q.verbs
      /\ r.permNs = q.permNs
      /\ r.ns = IF q.route.selects
                THEN GetSelectedNamespace(q.ns, GetKubeNamespaces(o, q.sa)) ELSE q.ns
  BY <1>2 DEF ReqFields
<1>5. uiReq' = [uiReq EXCEPT ![b] = r]
  BY <1>3
<1> HIDE DEF r
<1>6. /\ q.route \in Protected /\ q.query.page \in Int /\ q.query.per \in Int
      /\ q.token \in Tokens /\ q.sa = TokenOf(q.token).sa /\ Placed(q) /\ Reviewed(q)
  BY <1>2 DEF ReqOK
<1>7. Placed(r)
  BY <1>4, <1>6, AfterFacts DEF Placed
<1>8. Reviewed(r)
  BY <1>4, <1>6 DEF Reviewed
<1>9. ASSUME r.route.selects, r.query.ns = "", HomeOnly(r.token) PROVE r.ns = r.sa
  <2>1. q.ns = ""
    BY <1>1, <1>4, <1>6, <1>9 DEF Placed
  <2>2. q.sa # "" /\ ~TokenOf(q.token).namespaces
    BY <1>4, <1>6, <1>9 DEF HomeOnly
  <2>3. o # "ok"
    BY <1>3, <2>2 DEF Calls
  <2>4. GetKubeNamespaces(o, q.sa) = <<q.sa>>
    BY <2>2, <2>3 DEF GetKubeNamespaces
  <2>5. GetSelectedNamespace(q.ns, <<q.sa>>) = q.sa
    BY <2>1 DEF GetSelectedNamespace
  <2>6. QED
    BY <1>4, <1>9, <2>4, <2>5
<1>10. ReqOK(r)
  BY <1>4, <1>6, <1>7, <1>8, <1>9 DEF ReqOK
<1>11. QED
  BY <1>1, <1>2, <1>4, <1>5, <1>10, MoveKept

\* An answer without a list.
LEMMA PlainPage ==
  ASSUME NEW a, a.route \in Protected, a.status \in {200, 302, 401, 404},
         a.route.kind \notin {"list", "check"}
  PROVE  PageOK(a) /\ Fits(a)
<1>1. PermsOK(a) /\ HomeOK(a)
  BY DEF PermsOK, HomeOK
<1>2. NumbersOK(a) /\ Fits(a)
  BY DEF NumbersOK, Fits
<1>3. QED
  BY <1>1, <1>2 DEF PageOK

\* The items of a page by default.
LEMMA PerPage ==
  ASSUME NEW r, NEW n \in Int
  PROVE  ItemsPerPage(r, n) \in Nat \ {0} /\ ItemsPerPage(r, 0) = DefaultItemsPerPage
<1>1. DefaultItemsPerPage \in Nat \ {0} /\ MaxItemsPerPage \in Nat \ {0}
  BY UiAssumption
<1>2. QED
  BY <1>1 DEF ItemsPerPage, ValidateItemsPerPage, Least

\* Who may list at home only is not refused there.
LEMMA HomeListed ==
  ASSUME NEW t \in Tokens, HomeOnly(t) PROVE "forbidden" \notin Calls(t, MayList(t, TokenOf(t).sa))
<1>1. TokenOf(t).sa \notin {"", "All"} /\ TokenOf(t).sa = TokenOf(t).home
      /\ "list" \in TokenOf(t).scoped
  BY NamespaceAssumption DEF HomeOnly
<1>2. MayList(t, TokenOf(t).sa)
  BY <1>1 DEF MayList, EveryNamespace, May
<1>3. QED
  BY <1>2 DEF Calls

\* The list of a page.
LEMMA ListStep ==
  ASSUME UiInv, NEW b \in Browsers, ListObjects(b)
  PROVE  UiInv'
<1> DEFINE q == uiReq[b]
<1>1. q.at = "list" /\ UNCHANGED <<uiWorld, uiCookie, uiOut>>
  BY DEF ListObjects, UiAt
<1>2. ReqOK(q)
  BY <1>1, InHandler
<1>3. /\ q.route \in Protected /\ q.query.page \in Int /\ q.query.per \in Int
      /\ q.token \in Tokens /\ q.sa = TokenOf(q.token).sa /\ q.route.kind \in {"list", "data"}
  BY <1>1, <1>2 DEF ReqOK, Placed
<1>4. PICK o \in Calls(q.token, MayList(q.token, q.ns)) :
        UiAnswer(b, IF o = "ok" THEN Listed(b, InNamespace(q.ns), 200, o)
                    ELSE IF IsAuthError(o) /\ q.route.onAuth # "ignored" THEN HandleAuthError(b, o)
                    ELSE Listed(b, <<>>, 200, o))
  BY DEF ListObjects
<1>5. ASSUME q.route.kind = "list", q.route.selects, q.query.ns = "", HomeOnly(q.token)
      PROVE  o # "forbidden"
  <2>1. q.ns = TokenOf(q.token).sa
    BY <1>1, <1>2, <1>3, <1>5 DEF ReqOK
  <2>2. QED
    BY <1>3, <1>4, <1>5, <2>1, HomeListed
<1>6. ASSUME NEW items
      PROVE  LET a == Listed(b, items, 200, o)
                 p == Paginated(items, q.query.page, ItemsPerPage(q.route, q.query.per))
             IN /\ DOMAIN a = PageFields /\ a.route = q.route /\ a.token = q.token /\ a.status = 200
                /\ a.ns = q.ns /\ a.query = q.query /\ a.outcome = o
                /\ a.items = p.items /\ a.page = p.page /\ a.pages = p.pages
  <2> DEFINE s == PageOf(b, 200, o)
             p == Paginated(items, q.query.page, ItemsPerPage(q.route, q.query.per))
  <2>1. /\ DOMAIN s = PageFields /\ s.route = q.route /\ s.token = q.token
        /\ s.status = 200 /\ s.ns = q.ns /\ s.query = q.query /\ s.outcome = o
    BY PageFacts
  <2>2. Listed(b, items, 200, o) =
          [s EXCEPT !.items = p.items, !.page = p.page, !.pages = p.pages]
    BY DEF Listed
  <2> HIDE DEF s, p
  <2>3. LET a == Listed(b, items, 200, o)
        IN /\ DOMAIN a = PageFields /\ a.route = q.route /\ a.token = q.token /\ a.status = 200
           /\ a.ns = q.ns /\ a.query = q.query /\ a.outcome = o
           /\ a.items = p.items /\ a.page = p.page /\ a.pages = p.pages
    <3> DEFINE c == [s EXCEPT !.items = p.items, !.page = p.page, !.pages = p.pages]
    <3>1. /\ DOMAIN c = PageFields /\ c.route = s.route /\ c.token = s.token
          /\ c.status = s.status /\ c.ns = s.ns /\ c.query = s.query /\ c.outcome = s.outcome
          /\ c.items = p.items /\ c.page = p.page /\ c.pages = p.pages
      BY <2>1 DEF PageFields
    <3>2. Listed(b, items, 200, o) = c
      BY <2>2
    <3> HIDE DEF c
    <3>3. QED
      BY <2>1, <3>1, <3>2
  <2>4. QED
    BY <2>3 DEF p
<1>7. CASE o = "ok"
  <2> DEFINE items == InNamespace(q.ns)
             a == Listed(b, items, 200, o)
             per == ItemsPerPage(q.route, q.query.per)
             p == Paginated(items, q.query.page, per)
  <2>1. PICK S : items \in Seq(S)
    BY ListIsSeq DEF InNamespace, UiInv
  <2>2. per \in Nat \ {0} /\ (q.query.per = 0 => per = DefaultItemsPerPage)
    BY <1>3, PerPage
  <2>3. /\ DOMAIN a = PageFields /\ a.route = q.route /\ a.token = q.token /\ a.status = 200
        /\ a.ns = q.ns /\ a.query = q.query /\ a.outcome = "ok"
        /\ a.items = p.items /\ a.page = p.page /\ a.pages = p.pages
    BY <1>6, <1>7
  <2> HIDE DEF a, per, items
  <2>4. /\ p.pages = PagesOf(Len(items), per) /\ p.page \in 1..p.pages
        /\ SubSeq(items, 1, Least((p.page - 1) * per, Len(items))) \o p.items
             = SubSeq(items, 1, Least(p.page * per, Len(items)))
        /\ p.page = 1 => p.items = SubSeq(items, 1, Least(1 * per, Len(items)))
    BY <1>3, <2>1, <2>2, PagesFollow
  <2>5. p.pages \in Nat
    <3>1. Len(items) \in Nat
      BY <2>1
    <3>2. QED
      BY <2>2, <2>4, <3>1, Quotient
  <2> HIDE DEF p
  <2>6. Fits(a)
    <3> SUFFICES ASSUME q.query.per = 0
                 PROVE  /\ a.pages = PagesOf(Len(items), DefaultItemsPerPage) /\ a.page \in 1..a.pages
                        /\ UpTo(items, a.page - 1) \o a.items = UpTo(items, a.page)
                        /\ a.page = 1 => a.items = UpTo(items, 1)
      BY <2>3 DEF Fits, items
    <3>1. per = DefaultItemsPerPage
      BY <2>2
    <3>2. QED
      BY <2>3, <2>4, <3>1 DEF UpTo
  <2>7. PageOK(a)
    <3>1. a.route \in Protected /\ a.status = 200 /\ a.outcome = "ok" /\ a.route.kind # "check"
      BY <1>3, <2>3
    <3>2. a.page \in 1..a.pages /\ a.pages \in Nat
      BY <2>3, <2>4, <2>5
    <3>3. PermsOK(a) /\ HomeOK(a)
      BY <3>1 DEF PermsOK, HomeOK
    <3>4. NumbersOK(a)
      BY <3>2 DEF NumbersOK
    <3>5. QED
      BY <3>1, <3>3, <3>4 DEF PageOK
  <2>8. UiAnswer(b, a)
    BY <1>4, <1>7 DEF a, items
  <2>9. QED
    BY <1>1, <2>3, <2>6, <2>7, <2>8, AnswerKept
<1>8. ASSUME NEW a, DOMAIN a = PageFields, a.route = q.route, a.token = q.token,
             a.status \in {200, 302, 401}, a.query = q.query, a.outcome = o, o # "ok",
             UiAnswer(b, a)
      PROVE  UiInv'
  <2>1. PageOK(a)
    <3>1. PermsOK(a) /\ NumbersOK(a)
      BY <1>3, <1>8 DEF PermsOK, NumbersOK
    <3>2. HomeOK(a)
      <4> SUFFICES ASSUME a.route.kind = "list", a.route.selects, a.query.ns = "",
                          a.outcome = "forbidden", HomeOnly(a.token)
                   PROVE  FALSE
        BY DEF HomeOK
      <4>0. a.route = q.route /\ a.query = q.query /\ a.outcome = o /\ a.token = q.token
        BY <1>8
      <4>1. q.route.kind = "list" /\ q.route.selects /\ q.query.ns = "" /\ o = "forbidden"
        BY <4>0
      <4>2. HomeOnly(q.token)
        BY <4>0
      <4>3. QED
        BY <1>5, <4>1, <4>2
    <3>3. QED
      BY <1>3, <1>8, <3>1, <3>2 DEF PageOK
  <2>2. Fits(a)
    BY <1>8 DEF Fits
  <2>3. QED
    BY <1>1, <1>8, <2>1, <2>2, AnswerKept
<1>9. CASE o # "ok" /\ ~(IsAuthError(o) /\ q.route.onAuth # "ignored")
  <2> DEFINE a == Listed(b, <<>>, 200, o)
  <2>1. /\ DOMAIN a = PageFields /\ a.route = q.route /\ a.token = q.token /\ a.status = 200
        /\ a.query = q.query /\ a.outcome = o
    BY <1>6
  <2>2. UiAnswer(b, a)
    BY <1>4, <1>9
  <2> HIDE DEF a
  <2>3. QED
    BY <1>8, <1>9, <2>1, <2>2
<1>10. CASE o # "ok" /\ IsAuthError(o) /\ q.route.onAuth # "ignored"
  <2> DEFINE status == IF q.query.htmx THEN 401 ELSE 302
             s == PageOf(b, status, o)
             a == [s EXCEPT !.to = "/login"]
  <2>1. /\ DOMAIN s = PageFields /\ s.route = q.route /\ s.token = q.token
        /\ s.status = status /\ s.query = q.query /\ s.outcome = o
    BY PageFacts
  <2>2. UiAnswer(b, a)
    BY <1>4, <1>10 DEF HandleAuthError
  <2> HIDE DEF s
  <2>3. /\ DOMAIN a = PageFields /\ a.route = q.route /\ a.token = q.token
        /\ a.status \in {401, 302} /\ a.query = q.query /\ a.outcome = o
    BY <2>1 DEF PageFields
  <2> HIDE DEF a
  <2>4. QED
    BY <1>8, <1>10, <2>2, <2>3
<1>11. QED
  BY <1>7, <1>9, <1>10

\* The page of one object.
LEMMA GetObjectStep ==
  ASSUME UiInv, NEW b \in Browsers, GetObject(b)
  PROVE  UiInv'
<1> DEFINE q == uiReq[b]
<1>1. q.at = "get" /\ UNCHANGED <<uiWorld, uiCookie, uiOut>>
  BY DEF GetObject, UiAt
<1>2. ReqOK(q)
  BY <1>1, InHandler
<1>3. q.route \in Protected /\ q.route.kind = "detail" /\ q.route.missing \in {200, 404}
  <2>1. q.route \in Protected /\ q.route.kind = "detail"
    BY <1>1, <1>2 DEF ReqOK, Placed
  <2>2. QED
    BY <2>1, RouteFacts DEF RouteOK
<1>4. PICK a : /\ UiAnswer(b, a)
               /\ \/ \E o, found : a = [PageOf(b, 200, o) EXCEPT !.items = found]
                  \/ \E o : a = HandleAuthError(b, o)
                  \/ \E o : a = PageOf(b, q.route.missing, o)
  <2> DEFINE found == ObjectNamed(q.query.ns, q.query.key)
  <2>1. PICK o \in Calls(q.token, May(q.token, "get", q.query.ns)) :
          UiAnswer(b, IF o = "ok" /\ found # <<>> THEN [PageOf(b, 200, o) EXCEPT !.items = found]
                      ELSE IF IsAuthError(o) THEN HandleAuthError(b, o)
                      ELSE PageOf(b, q.route.missing, o))
    BY DEF GetObject
  <2> HIDE DEF found
  <2>2. QED
    BY <2>1
<1>5. DOMAIN a = PageFields /\ a.route = q.route /\ a.status \in {200, 302, 401, 404}
  <2>1. \A o, status : /\ DOMAIN PageOf(b, status, o) = PageFields
                       /\ PageOf(b, status, o).route = q.route
                       /\ PageOf(b, status, o).status = status
    BY PageFacts
  <2>2. ASSUME NEW o, NEW found, a = [PageOf(b, 200, o) EXCEPT !.items = found]
        PROVE  DOMAIN a = PageFields /\ a.route = q.route /\ a.status = 200
    BY <2>1, <2>2 DEF PageFields
  <2>3. ASSUME NEW o, a = HandleAuthError(b, o)
        PROVE  DOMAIN a = PageFields /\ a.route = q.route /\ a.status \in {302, 401}
    BY <2>1, <2>3 DEF PageFields, HandleAuthError
  <2>4. ASSUME NEW o, a = PageOf(b, q.route.missing, o)
        PROVE  DOMAIN a = PageFields /\ a.route = q.route /\ a.status \in {200, 404}
    BY <1>3, <2>1, <2>4
  <2>5. QED
    BY <1>4, <2>2, <2>3, <2>4
<1>6. PageOK(a) /\ Fits(a)
  BY <1>3, <1>5, PlainPage
<1>7. QED
  BY <1>1, <1>4, <1>5, <1>6, AnswerKept

\* One kind of a search.
LEMMA SearchStep ==
  ASSUME UiInv, NEW b \in Browsers, SearchKind(b)
  PROVE  UiInv'
<1> DEFINE q == uiReq[b]
<1>1. q.at = "search" /\ UNCHANGED <<uiWorld, uiCookie, uiOut, uiPage, uiWalk>>
  BY DEF SearchKind, UiAt
<1>2. ReqOK(q) /\ ~uiOut[b] /\ DOMAIN q = ReqFields
  BY <1>1, InHandler
<1>3. PICK n, at, f, t :
        /\ uiReq' = [uiReq EXCEPT ![b] = [q EXCEPT !.next = n, !.at = at, !.found = f, !.to = t]]
        /\ at \in {"write", q.at}
  BY DEF SearchKind, UiGo
<1> DEFINE r == [q EXCEPT !.next = n, !.at = at, !.found = f, !.to = t]
<1>4. /\ DOMAIN r = ReqFields /\ r.at \in {"write", "search"} /\ r.route = q.route
      /\ r.query = q.query /\ r.token = q.token /\ r.sa = q.sa /\ r.verbs = q.verbs
      /\ r.permNs = q.permNs
  BY <1>1, <1>2, <1>3 DEF ReqFields
<1>5. uiReq' = [uiReq EXCEPT ![b] = r]
  BY <1>3
<1> HIDE DEF r
<1>6. /\ q.route \in Protected /\ q.query.page \in Int /\ q.query.per \in Int
      /\ q.token \in Tokens /\ q.sa = TokenOf(q.token).sa /\ Placed(q) /\ Reviewed(q)
  BY <1>2 DEF ReqOK
<1>7. Placed(r)
  BY <1>1, <1>4, <1>6 DEF Placed
<1>8. Reviewed(r)
  BY <1>4, <1>6 DEF Reviewed
<1>9. ReqOK(r)
  BY <1>4, <1>6, <1>7, <1>8 DEF ReqOK
<1>10. QED
  BY <1>1, <1>2, <1>4, <1>5, <1>9, MoveKept

\* One verb of the permissions.
LEMMA ReviewStep ==
  ASSUME UiInv, NEW b \in Browsers, ReviewVerb(b)
  PROVE  UiInv'
<1> DEFINE q == uiReq[b]
<1>1. q.at = "verbs" /\ UNCHANGED <<uiWorld, uiCookie, uiOut, uiPage, uiWalk>>
  BY DEF ReviewVerb, UiAt
<1>2. ReqOK(q) /\ ~uiOut[b] /\ DOMAIN q = ReqFields
  BY <1>1, InHandler
<1>3. PICK n, at, v, wide, narrow :
        /\ uiReq' = [uiReq EXCEPT ![b] =
             [q EXCEPT !.next = n, !.at = at,
                       !.verbs = IF wide \/ narrow THEN @ \cup {v} ELSE @,
                       !.permNs = IF narrow THEN q.sa ELSE @]]
        /\ at \in {"write", q.at}
        /\ wide \in BOOLEAN /\ narrow \in BOOLEAN
        /\ wide => v \in TokenOf(q.token).cluster
        /\ narrow => q.sa # "" /\ May(q.token, v, q.sa)
  <2> DEFINE v == TinkerbellVerbs[q.next]
  <2>1. PICK o1, o2 :
          LET wide   == o1 = "ok" /\ v \in TokenOf(q.token).cluster
              asked  == o1 = "ok" /\ ~wide /\ q.sa # ""
              narrow == asked /\ o2 = "ok" /\ May(q.token, v, q.sa)
          IN UiGo(b, [q EXCEPT !.next = @ + 1,
                         !.at = IF q.next = Len(TinkerbellVerbs) THEN "write" ELSE @,
                         !.verbs = IF wide \/ narrow THEN @ \cup {v} ELSE @,
                         !.permNs = IF narrow THEN q.sa ELSE @])
    BY DEF ReviewVerb
  <2> DEFINE wide   == o1 = "ok" /\ v \in TokenOf(q.token).cluster
             asked  == o1 = "ok" /\ ~wide /\ q.sa # ""
             narrow == asked /\ o2 = "ok" /\ May(q.token, v, q.sa)
             at     == IF q.next = Len(TinkerbellVerbs) THEN "write" ELSE q.at
             n      == q.next + 1
  <2>2. /\ wide \in BOOLEAN /\ narrow \in BOOLEAN /\ at \in {"write", q.at}
        /\ wide => v \in TokenOf(q.token).cluster
        /\ narrow => q.sa # "" /\ May(q.token, v, q.sa)
    OBVIOUS
  <2>3. uiReq' = [uiReq EXCEPT ![b] =
             [q EXCEPT !.next = n, !.at = at,
                       !.verbs = IF wide \/ narrow THEN @ \cup {v} ELSE @,
                       !.permNs = IF narrow THEN q.sa ELSE @]]
    BY <2>1 DEF UiGo
  <2> HIDE DEF v, wide, narrow, at, n
  <2>4. QED
    BY <2>2, <2>3
<1> DEFINE r == [q EXCEPT !.next = n, !.at = at,
                          !.verbs = IF wide \/ narrow THEN @ \cup {v} ELSE @,
                          !.permNs = IF narrow THEN q.sa ELSE @]
<1>4. /\ DOMAIN r = ReqFields /\ r.at \in {"write", "verbs"} /\ r.route = q.route
      /\ r.query = q.query /\ r.token = q.token /\ r.sa = q.sa
      /\ r.verbs = IF wide \/ narrow THEN q.verbs \cup {v} ELSE q.verbs
      /\ r.permNs = IF narrow THEN q.sa ELSE q.permNs
  BY <1>1, <1>2, <1>3 DEF ReqFields
<1>5. uiReq' = [uiReq EXCEPT ![b] = r]
  BY <1>3
<1> HIDE DEF r
<1>6. /\ q.route \in Protected /\ q.query.page \in Int /\ q.query.per \in Int
      /\ q.token \in Tokens /\ q.sa = TokenOf(q.token).sa /\ Placed(q) /\ Reviewed(q)
  BY <1>2 DEF ReqOK
<1>7. Placed(r)
  BY <1>1, <1>4, <1>6 DEF Placed
<1>8. Reviewed(r)
  <2>1. \A u \in q.verbs : q.permNs = "" => u \in TokenOf(q.token).cluster
    BY <1>6 DEF Reviewed
  <2>2. \A u \in q.verbs : q.permNs # "" => q.permNs = q.sa /\ May(q.token, u, q.sa)
    BY <1>6 DEF Reviewed
  <2>3. \A u : u \in TokenOf(q.token).cluster => May(q.token, u, q.sa)
    BY DEF May
  <2>4. r.permNs \in {"", r.sa}
    BY <1>4, <1>6 DEF Reviewed
  <2>5. ASSUME NEW u \in r.verbs, r.permNs = "" PROVE u \in TokenOf(r.token).cluster
    <3>1. ~narrow /\ q.permNs = ""
      BY <1>3, <1>4, <2>5
    <3>2. u \in q.verbs \/ (wide /\ u = v)
      BY <1>4, <2>5, <3>1
    <3>3. QED
      BY <1>3, <1>4, <2>1, <3>1, <3>2
  <2>6. ASSUME NEW u \in r.verbs, r.permNs # "" PROVE May(r.token, u, r.permNs)
    <3>1. r.permNs = q.sa
      BY <1>4, <2>4, <2>6
    <3>2. u \in q.verbs \/ ((wide \/ narrow) /\ u = v)
      BY <1>4, <2>6
    <3>3. May(q.token, u, q.sa)
      BY <1>3, <2>1, <2>2, <2>3, <3>2
    <3>4. QED
      BY <1>4, <3>1, <3>3
  <2>7. QED
    BY <2>4, <2>5, <2>6 DEF Reviewed
<1>9. r.at # "list"
  BY <1>4
<1>10. ReqOK(r)
  BY <1>4, <1>6, <1>7, <1>8, <1>9 DEF ReqOK
<1>11. QED
  BY <1>1, <1>2, <1>4, <1>5, <1>10, MoveKept

\* The page that is written last.
LEMMA WriteStep ==
  ASSUME UiInv, NEW b \in Browsers, WritePage(b)
  PROVE  UiInv'
<1> DEFINE q == uiReq[b]
           status == IF q.to # "" /\ ~q.query.htmx THEN 302 ELSE 200
           s == PageOf(b, status, "ok")
           items == SubSeq(q.found, 1, Least(Len(q.found), MaxSearchResults))
           a == [s EXCEPT !.to = q.to, !.verbs = q.verbs,
                          !.ns = IF q.route.kind = "check" THEN q.permNs ELSE @, !.items = items]
<1>1. q.at = "write" /\ UNCHANGED <<uiWorld, uiCookie, uiOut>> /\ UiAnswer(b, a)
  BY DEF WritePage, UiAt
<1>2. ReqOK(q)
  BY <1>1, InHandler
<1>3. /\ q.route \in Protected /\ q.route.kind \notin {"list", "data", "detail"} /\ Reviewed(q)
  BY <1>1, <1>2 DEF ReqOK, Placed
<1>5. status \in {200, 302}
  OBVIOUS
<1> HIDE DEF status
<1>4. /\ DOMAIN s = PageFields /\ s.route = q.route /\ s.token = q.token /\ s.status = status
      /\ s.outcome = "ok"
  BY PageFacts
<1> HIDE DEF s, items
<1>6. /\ DOMAIN a = PageFields /\ a.route = q.route /\ a.token = q.token /\ a.status = status
      /\ a.verbs = q.verbs /\ (q.route.kind = "check" => a.ns = q.permNs)
  BY <1>4 DEF PageFields
<1> HIDE DEF a
<1>7. PermsOK(a)
  <2> SUFFICES ASSUME NEW v \in a.verbs, a.route.kind = "check"
               PROVE  IF a.ns = "" THEN v \in TokenOf(a.token).cluster ELSE May(a.token, v, a.ns)
    BY DEF PermsOK
  <2>1. a.ns = q.permNs /\ v \in q.verbs
    BY <1>6
  <2>2. IF q.permNs = "" THEN v \in TokenOf(q.token).cluster ELSE May(q.token, v, q.permNs)
    BY <1>3, <2>1 DEF Reviewed
  <2>3. QED
    BY <1>6, <2>1, <2>2
<1>8. HomeOK(a)
  BY <1>3, <1>6 DEF HomeOK
<1>9. NumbersOK(a) /\ Fits(a)
  BY <1>3, <1>6 DEF NumbersOK, Fits
<1>10. PageOK(a)
  BY <1>3, <1>5, <1>6, <1>7, <1>8, <1>9 DEF PageOK
<1>11. QED
  BY <1>1, <1>6, <1>9, <1>10, AnswerKept

\* A page of a session that opens or ends.
LEMMA SessionPage ==
  ASSUME NEW status \in {200, 302, 400, 403}
  PROVE  LET a == [Blankpage EXCEPT !.status = status]
         IN DOMAIN a = PageFields /\ PageOK(a)
<1> DEFINE a == [Blankpage EXCEPT !.status = status]
<1>1. DOMAIN a = PageFields /\ a.status = status /\ a.route = NoRoute /\ NoRoute.kind = "none"
  BY DEF Blankpage, PageFields, NoRoute, UiRoute
<1> HIDE DEF a
<1>2. PermsOK(a) /\ HomeOK(a)
  BY <1>1 DEF PermsOK, HomeOK
<1>3. NumbersOK(a)
  BY <1>1 DEF NumbersOK
<1>4. PageOK(a)
  BY <1>1, <1>2, <1>3 DEF PageOK
<1>5. QED
  BY <1>1, <1>4 DEF a

\* A step of an idle browser that changes its cookies.
LEMMA SessionKept ==
  ASSUME UiInv, NEW b \in Browsers, NEW a, NEW k, NEW out \in BOOLEAN,
         uiReq[b].at = "idle", UNCHANGED <<uiWorld, uiReq>>,
         uiPage' = [uiPage EXCEPT ![b] = a], uiWalk' = [uiWalk EXCEPT ![b] = NoWalk],
         DOMAIN uiCookie' = Browsers, DOMAIN uiOut' = Browsers, uiCookie'[b] = k, uiOut'[b] = out,
         \A c \in Browsers \ {b} : uiCookie'[c] = uiCookie[c] /\ uiOut'[c] = uiOut[c],
         DOMAIN a = PageFields, PageOK(a),
         DOMAIN k = Cookies, k["auth_token"] \in Tokens \cup {""},
         out => ~uiAuto /\ k = NoCookies
  PROVE  UiInv'
<1>1. BrowserOK(b) /\ DOMAIN uiReq = Browsers /\ DOMAIN uiPage = Browsers
      /\ DOMAIN uiCookie = Browsers /\ DOMAIN uiWalk = Browsers /\ DOMAIN uiOut = Browsers
  BY DEF UiInv
<1>2. uiReq' = uiReq /\ uiAuto' = uiAuto
  BY DEF uiWorld
<1>3. /\ uiPage'[b] = a /\ uiCookie'[b] = k /\ uiOut'[b] = out /\ uiWalk'[b] = NoWalk
  BY <1>1
<1>4. DOMAIN NoWalk = {"ns", "type", "page", "seen"} /\ NoWalk.page = 0
  BY DEF NoWalk
<1>5. WalkOK(uiWalk[b], uiPage[b], InNamespace(uiWalk[b].ns))'
  BY <1>3, <1>4 DEF WalkOK
<1>6. BrowserOK(b)'
  BY <1>1, <1>2, <1>3, <1>4, <1>5 DEF BrowserOK
<1>7. QED
  BY <1>1, <1>2, <1>6, OthersKept

\* A login sets the cookies of its token, or leaves all as it is.
LEMMA LoginStep ==
  ASSUME UiInv, NEW b \in Browsers, NEW t \in Tokens, NEW server, NEW skip,
         HandleLoginValidate(b, t, server, skip)
  PROVE  UiInv'
<1>1. BrowserOK(b) /\ DOMAIN uiCookie = Browsers /\ DOMAIN uiOut = Browsers
  BY DEF UiInv
<1>2. uiReq[b].at = "idle" /\ UNCHANGED <<uiWorld, uiReq>>
      /\ uiWalk' = [uiWalk EXCEPT ![b] = NoWalk]
  BY DEF HandleLoginValidate, UiAt
<1>3. PICK o1, o2 :
        LET asked == ~uiAuto /\ t # "" /\ server.host # "" /\ validateAPIServerURL(server)
            good  == asked /\ validateTokenPermissions(t, o1, o2)
        IN /\ uiPage' = [uiPage EXCEPT ![b] =
                [Blankpage EXCEPT !.status = IF good THEN 200
                                             ELSE IF ~uiAuto /\ server.host # "" /\ ~server.https
                                                  THEN 400 ELSE 403]]
           /\ uiCookie' = IF good THEN [uiCookie EXCEPT ![b] = LoginCookies(@, t, server, skip)]
                          ELSE uiCookie
           /\ uiOut' = IF good THEN [uiOut EXCEPT ![b] = FALSE] ELSE uiOut
  BY DEF HandleLoginValidate
<1> DEFINE good   == ~uiAuto /\ t # "" /\ server.host # "" /\ validateAPIServerURL(server)
                     /\ validateTokenPermissions(t, o1, o2)
           status == IF good THEN 200
                     ELSE IF ~uiAuto /\ server.host # "" /\ ~server.https THEN 400 ELSE 403
           a      == [Blankpage EXCEPT !.status = status]
<1>4. DOMAIN a = PageFields /\ PageOK(a) /\ uiPage' = [uiPage EXCEPT ![b] = a]
  <2>1. status \in {200, 400, 403}
    OBVIOUS
  <2>2. uiPage' = [uiPage EXCEPT ![b] = [Blankpage EXCEPT !.status = status]]
    BY <1>3
  <2> HIDE DEF status
  <2>3. QED
    BY <2>1, <2>2, SessionPage
<1>0. \/ /\ uiCookie' = [uiCookie EXCEPT ![b] = LoginCookies(uiCookie[b], t, server, skip)]
         /\ uiOut' = [uiOut EXCEPT ![b] = FALSE]
      \/ uiCookie' = uiCookie /\ uiOut' = uiOut
  BY <1>3
<1> HIDE DEF a
<1>5. CASE /\ uiCookie' = [uiCookie EXCEPT ![b] = LoginCookies(uiCookie[b], t, server, skip)]
           /\ uiOut' = [uiOut EXCEPT ![b] = FALSE]
  <2> DEFINE k == LoginCookies(uiCookie[b], t, server, skip)
  <2>1. DOMAIN k = Cookies /\ k["auth_token"] = t
    BY DEF LoginCookies, Cookies
  <2> HIDE DEF k
  <2>2. /\ DOMAIN uiCookie' = Browsers /\ DOMAIN uiOut' = Browsers
        /\ uiCookie'[b] = k /\ uiOut'[b] = FALSE
        /\ \A c \in Browsers \ {b} : uiCookie'[c] = uiCookie[c] /\ uiOut'[c] = uiOut[c]
    BY <1>1, <1>5 DEF k
  <2>3. QED
    BY <1>2, <1>4, <2>1, <2>2, SessionKept
<1>6. CASE uiCookie' = uiCookie /\ uiOut' = uiOut
  <2>1. /\ DOMAIN uiCookie[b] = Cookies /\ uiCookie[b]["auth_token"] \in Tokens \cup {""}
        /\ uiOut[b] \in BOOLEAN /\ (uiOut[b] => ~uiAuto /\ uiCookie[b] = NoCookies)
    BY <1>1 DEF BrowserOK
  <2>2. /\ DOMAIN uiCookie' = Browsers /\ DOMAIN uiOut' = Browsers
        /\ uiCookie'[b] = uiCookie[b] /\ uiOut'[b] = uiOut[b]
        /\ \A c \in Browsers \ {b} : uiCookie'[c] = uiCookie[c] /\ uiOut'[c] = uiOut[c]
    BY <1>1, <1>6
  <2>3. QED
    BY <1>2, <1>4, <2>1, <2>2, SessionKept
<1>7. QED
  BY <1>0, <1>5, <1>6

\* A logout clears every cookie.
LEMMA LogoutStep ==
  ASSUME UiInv, NEW b \in Browsers, HandleLogout(b)
  PROVE  UiInv'
<1>1. BrowserOK(b) /\ DOMAIN uiCookie = Browsers /\ DOMAIN uiOut = Browsers
  BY DEF UiInv
<1>2. /\ uiReq[b].at = "idle" /\ UNCHANGED <<uiWorld, uiReq>>
      /\ uiWalk' = [uiWalk EXCEPT ![b] = NoWalk]
      /\ uiPage' = [uiPage EXCEPT ![b] = [Blankpage EXCEPT !.status = IF uiAuto THEN 302 ELSE 200]]
      /\ uiCookie' = IF uiAuto THEN uiCookie ELSE [uiCookie EXCEPT ![b] = NoCookies]
      /\ uiOut' = IF uiAuto THEN uiOut ELSE [uiOut EXCEPT ![b] = TRUE]
  BY DEF HandleLogout, UiAt
<1>3. DOMAIN [Blankpage EXCEPT !.status = IF uiAuto THEN 302 ELSE 200] = PageFields
      /\ PageOK([Blankpage EXCEPT !.status = IF uiAuto THEN 302 ELSE 200])
  BY SessionPage
<1>4. CASE ~uiAuto
  <2>1. DOMAIN NoCookies = Cookies /\ NoCookies["auth_token"] = ""
    BY DEF NoCookies, Cookies
  <2>2. QED
    BY <1>1, <1>2, <1>3, <1>4, <2>1, SessionKept
<1>5. CASE uiAuto
  <2>1. uiCookie' = uiCookie /\ uiOut' = uiOut
    BY <1>2, <1>5
  <2>2. /\ DOMAIN uiCookie[b] = Cookies /\ uiCookie[b]["auth_token"] \in Tokens \cup {""}
        /\ uiOut[b] \in BOOLEAN /\ (uiOut[b] => ~uiAuto /\ uiCookie[b] = NoCookies)
    BY <1>1 DEF BrowserOK
  <2>3. QED
    BY <1>1, <1>2, <1>3, <2>1, <2>2, SessionKept
<1>6. QED
  BY <1>4, <1>5

\* A token that expires or an object that is deleted ends every walk.
LEMMA ClusterStep ==
  ASSUME UiInv, ClusterChanges
  PROVE  UiInv'
<1>1. /\ uiReq' = uiReq /\ uiPage' = uiPage /\ uiCookie' = uiCookie /\ uiOut' = uiOut
      /\ uiAuto' = uiAuto /\ uiWalk' = [b \in Browsers |-> NoWalk]
      /\ uiChanges < MaxUiChanges /\ uiChanges' = uiChanges + 1
  BY DEF ClusterChanges
<1>2. uiChanges' \in 0..MaxUiChanges
  <2>1. MaxUiChanges \in Nat /\ uiChanges \in 0..MaxUiChanges
    BY UiAssumption DEF UiInv
  <2>2. QED
    BY <1>1, <2>1
<1>3. uiValid' \subseteq Tokens /\ uiObjects' \in Seq([ns : STRING, name : STRING])
  <2>1. CASE \E t \in Tokens : Expire(t)
    BY <2>1 DEF Expire, UiInv
  <2>2. CASE \E i \in 1..Len(InitialObjects) : Delete(i)
    <3>1. PICK i \in Int : i \in DOMAIN uiObjects /\ uiObjects' = RemoveAt(uiObjects, i)
                           /\ uiValid' = uiValid
      BY <2>2 DEF Delete
    <3>2. uiObjects \in Seq([ns : STRING, name : STRING]) /\ i \in 1..Len(uiObjects)
      BY <3>1 DEF UiInv
    <3>3. /\ SubSeq(uiObjects, 1, i - 1) \in Seq([ns : STRING, name : STRING])
          /\ SubSeq(uiObjects, i + 1, Len(uiObjects)) \in Seq([ns : STRING, name : STRING])
      <4>1. ASSUME NEW S, NEW s \in Seq(S), NEW k \in 1..Len(s)
            PROVE  SubSeq(s, 1, k - 1) \in Seq(S) /\ SubSeq(s, k + 1, Len(s)) \in Seq(S)
        OBVIOUS
      <4>2. QED
        BY <3>2, <4>1
    <3>4. QED
      BY <3>1, <3>3 DEF RemoveAt, UiInv
  <2>3. QED
    BY <2>1, <2>2 DEF ClusterChanges
<1>4. ASSUME NEW b \in Browsers PROVE BrowserOK(b)'
  <2>1. BrowserOK(b)
    BY DEF UiInv
  <2>2. uiWalk'[b] = NoWalk
    BY <1>1
  <2>3. DOMAIN NoWalk = {"ns", "type", "page", "seen"} /\ NoWalk.page = 0
    BY DEF NoWalk
  <2>4. WalkOK(uiWalk[b], uiPage[b], InNamespace(uiWalk[b].ns))'
    BY <2>2, <2>3 DEF WalkOK
  <2>5. QED
    BY <1>1, <2>1, <2>2, <2>3, <2>4 DEF BrowserOK
<1>5. QED
  BY <1>1, <1>2, <1>3, <1>4 DEF UiInv

\* A browser that has asked nothing yet.
LEMMA UiStarts ==
  ASSUME UiInit
  PROVE  UiInv
<1>1. ASSUME NEW b \in Browsers PROVE BrowserOK(b)
  <2>1. /\ uiReq[b] = IdleReq /\ uiPage[b] = Blankpage /\ uiCookie[b] = NoCookies
        /\ uiWalk[b] = NoWalk /\ uiOut[b] = FALSE
    BY DEF UiInit
  <2>2. DOMAIN NoCookies = Cookies /\ NoCookies["auth_token"] = ""
    BY DEF NoCookies, Cookies
  <2>3. DOMAIN NoWalk = {"ns", "type", "page", "seen"} /\ NoWalk.page = 0
    BY DEF NoWalk
  <2>4. DOMAIN Blankpage = PageFields /\ PageOK(Blankpage)
    BY DEF Blankpage, PageFields, PageOK, PermsOK, HomeOK, NumbersOK, NoRoute, UiRoute
  <2>5. QED
    BY <2>1, <2>2, <2>3, <2>4, IdleFields DEF BrowserOK, WalkOK
<1>2. uiObjects \in Seq([ns : STRING, name : STRING])
  BY DataAssumption DEF UiInit
<1>3. uiChanges \in 0..MaxUiChanges /\ uiValid \subseteq Tokens
  <2>1. uiChanges = 0 /\ MaxUiChanges \in Nat /\ uiValid = Tokens
    BY UiAssumption DEF UiInit
  <2>2. QED
    BY <2>1
<1>4. /\ DOMAIN uiReq = Browsers /\ DOMAIN uiPage = Browsers /\ DOMAIN uiCookie = Browsers
      /\ DOMAIN uiWalk = Browsers /\ DOMAIN uiOut = Browsers
  BY DEF UiInit
<1>5. QED
  BY <1>1, <1>2, <1>3, <1>4 DEF UiInv

\* Every step keeps the invariant.
LEMMA UiSteps ==
  ASSUME UiInv, [UiNext]_uiVars
  PROVE  UiInv'
<1>1. CASE ClusterChanges
  BY <1>1, ClusterStep
<1>2. ASSUME NEW b \in Browsers,
             \E t \in Tokens, s \in UiServers, skip \in {"", "true"} : HandleLoginValidate(b, t, s, skip)
      PROVE  UiInv'
  BY <1>2, LoginStep
<1>3. ASSUME NEW b \in Browsers, HandleLogout(b)
      PROVE  UiInv'
  BY <1>3, LogoutStep
<1>4. ASSUME NEW b \in Browsers, \E r \in UiRoutes, q \in UiQueries : UiGet(b, r, q)
      PROVE  UiInv'
  <2>1. PICK r \in UiRoutes, q \in UiQueries : UiGet(b, r, q)
    BY <1>4
  <2>2. r \in Protected /\ q.page \in Int /\ q.per \in Int
    BY RouteAssumption, DataAssumption
  <2>3. QED
    BY <2>1, <2>2, GetStep
<1>5. ASSUME NEW b \in Browsers, \E p \in 1..(Len(InitialObjects) + 1) : TurnPage(b, p)
      PROVE  UiInv'
  <2>1. PICK p \in 1..(Len(InitialObjects) + 1) : TurnPage(b, p)
    BY <1>5
  <2>2. p \in Int
    OBVIOUS
  <2>3. QED
    BY <2>1, <2>2, TurnStep
<1>6. ASSUME NEW b \in Browsers,
             ListNamespaces(b) \/ ListObjects(b) \/ GetObject(b) \/ SearchKind(b)
               \/ ReviewVerb(b) \/ WritePage(b)
      PROVE  UiInv'
  BY <1>6, NamespacesStep, ListStep, GetObjectStep, SearchStep, ReviewStep, WriteStep
<1>7. CASE UNCHANGED uiVars
  <2>1. /\ uiReq' = uiReq /\ uiPage' = uiPage /\ uiCookie' = uiCookie /\ uiOut' = uiOut
        /\ uiAuto' = uiAuto /\ uiWalk' = uiWalk /\ uiValid' = uiValid /\ uiObjects' = uiObjects
        /\ uiChanges' = uiChanges
    BY <1>7 DEF uiVars
  <2>2. ASSUME NEW b \in Browsers PROVE BrowserOK(b)'
    <3>1. BrowserOK(b)
      BY DEF UiInv
    <3>2. QED
      BY <2>1, <3>1, BrowserKept
  <2>3. QED
    BY <2>1, <2>2 DEF UiInv
<1>8. QED
  BY <1>1, <1>2, <1>3, <1>4, <1>5, <1>6, <1>7 DEF UiNext

\* The inductive invariant of the Web UI.  A request in a handler carries the token of a
\* session and the namespace the handler took; a page carries what it was made from; a walk
\* has seen the first items of its list up to the page shown.
THEOREM UiInvariance == UiSpec => []UiInv
<1>1. UiInit => UiInv
  BY UiStarts
<1>2. UiInv /\ [UiNext]_uiVars => UiInv'
  BY UiSteps
<1>3. QED
  BY <1>1, <1>2, PTL DEF UiSpec

\* The variables of the Web UI keep their types.
THEOREM WebUITypeCorrect == UiSpec => []UiTypeOK
<1>1. UiInv => UiTypeOK
  <2>1. SUFFICES ASSUME UiInv, NEW b \in Browsers
                 PROVE  /\ DOMAIN uiCookie[b] = Cookies /\ uiOut[b] \in BOOLEAN
                        /\ uiReq[b].at \in {"idle", "namespaces", "list", "get", "search",
                                            "verbs", "write"}
                        /\ uiPage[b].status \in {0, 200, 302, 400, 401, 403, 404}
    BY DEF UiInv, UiTypeOK
  <2>2. BrowserOK(b)
    BY <2>1 DEF UiInv
  <2>3. uiReq[b].at \in {"idle", "namespaces", "list", "get", "search", "verbs", "write"}
    <3>1. CASE uiReq[b].at # "idle"
      BY <2>2, <3>1 DEF BrowserOK, ReqOK, Placed
    <3>2. QED
      BY <3>1
  <2>4. QED
    BY <2>2, <2>3 DEF BrowserOK, PageOK
<1>2. QED
  BY <1>1, UiInvariance, PTL

\* Turned pages show everything, and the buttons lead on.
LEMMA WalksShowAll ==
  ASSUME UiInv
  PROVE  PagesShowAll
<1>1. ASSUME NEW b \in Browsers, uiWalk[b].page # 0, uiWalk[b].page = uiPage[b].pages
      PROVE  uiWalk[b].seen = InNamespace(uiWalk[b].ns)
  <2> DEFINE items == InNamespace(uiWalk[b].ns)
  <2>1. WalkOK(uiWalk[b], uiPage[b], items)
    BY DEF UiInv, BrowserOK
  <2>2. uiWalk[b].seen = UpTo(items, PagesOf(Len(items), DefaultItemsPerPage))
    BY <1>1, <2>1 DEF WalkOK
  <2>3. \E S : items \in Seq(S)
    BY ListIsSeq DEF UiInv, InNamespace
  <2> HIDE DEF items
  <2>4. UpTo(items, PagesOf(Len(items), DefaultItemsPerPage)) = items
    BY <2>3, LastPageEnds
  <2>5. QED
    BY <2>2, <2>4 DEF items
<1>2. ASSUME NEW b \in Browsers, uiPage[b].route.kind = "list", uiPage[b].outcome = "ok"
      PROVE  LET a == uiPage[b]
             IN /\ a.page \in 1..a.pages
                /\ \A p \in 1..a.pages : p < a.page => \E n \in Buttons(a.page, a.pages) : n = a.page - 1
                /\ a.page < a.pages => a.page + 1 \in Buttons(a.page, a.pages)
  <2>1. uiPage[b].page \in 1..uiPage[b].pages /\ uiPage[b].pages \in Nat
    BY <1>2 DEF UiInv, BrowserOK, PageOK, NumbersOK
  <2>2. ASSUME NEW pages \in Nat, NEW page \in 1..pages
        PROVE  /\ \A p \in 1..pages : p < page => page - 1 \in Buttons(page, pages)
               /\ page < pages => page + 1 \in Buttons(page, pages)
    BY DEF Buttons
  <2>3. QED
    BY <2>1, <2>2
<1>3. QED
  BY <1>1, <1>2 DEF PagesShowAll

\* Users of the Web UI are shown what is theirs: turned pages show every object of the
\* namespace once and the buttons lead on (GetPaginated..., PaginationNav), who may list at
\* home only is not refused there (GetSelectedNamespace), a logout leaves no cookie
\* (HandleLogout) and the permissions page tells the truth (getResourcePermissions).
THEOREM UsersAreServed == UiSpec => []UiServed
<1>1. UiInv => ScopedUserServed /\ LoggedOutStaysOut /\ PermissionsTold
  <2>1. UiInv => ScopedUserServed
    BY DEF UiInv, BrowserOK, PageOK, HomeOK, ScopedUserServed
  <2>2. UiInv => LoggedOutStaysOut
    BY DEF UiInv, BrowserOK, LoggedOutStaysOut
  <2>3. UiInv => PermissionsTold
    BY DEF UiInv, BrowserOK, PageOK, PermsOK, PermissionsTold
  <2>4. QED
    BY <2>1, <2>2, <2>3
<1>2. UiInv => UiServed
  BY <1>1, WalksShowAll DEF UiServed
<1>3. QED
  BY <1>2, UiInvariance, PTL
=============================================================================
