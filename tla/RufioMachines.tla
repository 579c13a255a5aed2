---------------------------- MODULE RufioMachines ----------------------------
(***************************************************************************)
(* Rufio's reconciler for one BMC Machine: it connects to the BMC, records *)
(* the power state in the Machine's status, and now and then collects an   *)
(* inventory into the status of the Hardware that refers to the Machine.   *)
(* Both objects are read from caches that lag behind the API server.       *)
(***************************************************************************)
EXTENDS Naturals, Sequences, FiniteSets, SequencesExt

CONSTANTS
    Cases,        \* [links : Hardware that refer to the Machine, disabled, enabled, spec]
    Polls,        \* what the BMC answers: [answer : "device" or "none", post, lists, provider]
    Interval,     \* the refresh interval with this Machine's jitter, in ticks
    PowerCheck,   \* the power check interval, in ticks
    MaxUint32,    \* the largest value of a uint32
    MaxTime, MaxUser, MaxRmFaults

ASSUME RmAssumption ==
    Interval \in Nat /\ PowerCheck \in Nat /\ MaxTime \in Nat /\ MaxUser \in Nat /\ MaxRmFaults \in Nat

VARIABLES
    rmCase,
    rmMachine,   \* the Machine in the API server
    rmWatch,     \* versions of it the cache has yet to be told of
    rmCache,     \* the cached Machine
    rmQueued, rmTimer,  \* in the work queue; when the delayed requeue is due, 0 for none
    rmStep, rmBm, rmOrig,   \* the reconcile: its step, its object, the base of its patch
    rmConn,      \* the options of the open BMC connection
    rmAttrs, rmAttrsSeen,   \* status.attributes.outOfBand and the cached copy of it
    rmHw,        \* the copy of them the reconcile has in hand
    rmPower,     \* the machine's power
    rmRead,      \* the power state last read, "" before
    rmCollected, \* time of the last successful collection, 0 before
    rmReported,  \* the last device collected
    rmEarly,     \* this collection began, on a current copy, within the interval of the last
    rmStale,     \* what is stored was derived from a stale copy
    rmNow, rmUser, rmFaults

rmMachineVars == <<rmMachine, rmWatch, rmCache, rmQueued, rmTimer>>
rmRecVars == <<rmStep, rmBm, rmOrig, rmConn>>
rmHwVars == <<rmAttrs, rmAttrsSeen, rmHw>>
rmSeenVars == <<rmRead, rmCollected, rmReported, rmEarly, rmStale>>
rmEnvVars == <<rmPower, rmNow, rmUser, rmFaults>>
rmVars == <<rmCase, rmMachineVars, rmRecVars, rmHwVars, rmSeenVars, rmEnvVars>>

NoAttributes == [stored |-> FALSE, updated |-> 0, method |-> "", device |-> << >>]
NewMachine == [power |-> "", contactable |-> "", refresh |-> FALSE, gone |-> FALSE]
NoConn == << >>

RmInit ==
    /\ rmCase \in Cases
    /\ rmMachine = NewMachine /\ rmWatch = << >> /\ rmCache = NewMachine
    /\ rmQueued = TRUE /\ rmTimer = 0
    /\ rmStep = "idle" /\ rmBm = NewMachine /\ rmOrig = NewMachine /\ rmConn = NoConn
    /\ rmAttrs = NoAttributes /\ rmAttrsSeen = NoAttributes /\ rmHw = NoAttributes
    /\ rmPower = "off" /\ rmRead = "" /\ rmCollected = 0 /\ rmReported = << >>
    /\ rmEarly = FALSE /\ rmStale = FALSE
    /\ rmNow = 1 /\ rmUser = 0 /\ rmFaults = 0

\* A write to the Machine; one that changes nothing is no event.
Stored(machine) ==
    /\ rmMachine' = machine
    /\ rmWatch' = IF machine = rmMachine THEN rmWatch ELSE Append(rmWatch, machine)

RmFault == rmFaults < MaxRmFaults /\ rmFaults' = rmFaults + 1

-----------------------------------------------------------------------------
(* The options of a connection.                                            *)

\* toRPCOpts: the options the Machine sets, each as it is.
toRPCOpts(spec) == [header |-> spec.header, set |-> spec.rpcSet]

\* translateRPC: the secrets, and the defaults, which with mergo.WithOverride
\* replace the header names the Machine asks for.
translateRPC(spec) ==
    [opts |-> [toRPCOpts(spec) EXCEPT !.header = "X-Rufio-Timestamp"], hmac |-> spec.hmac]

\* BMCOptions.Translate, and the preferred order of NewClientFunc: an Intel
\* AMT port that is no uint32 gives way to the default.
Translate(spec) ==
    <<[rpc |-> IF spec.rpc THEN <<translateRPC(spec)>> ELSE << >>,
       amt |-> IF spec.amt \in 0 .. MaxUint32 THEN spec.amt ELSE 16992,
       order |-> spec.order]>>

\* toPowerState of the BMC's raw answer.
toPowerState(raw) ==
    IF raw.saysOn THEN "on" ELSE IF raw.saysOff THEN "off" ELSE "unknown"

-----------------------------------------------------------------------------
(* Inventory.                                                              *)

\* sortByKeyThenContent, on components that have no pointers in them.
Sorted(list) ==
    LET Before(a, b) == a.key < b.key \/ (a.key = b.key /\ a.content < b.content)
    IN SortSeq(list, Before)

ToUint32(n) == IF n \in 0 .. MaxUint32 THEN n ELSE 0

\* productFromCommon: the POST code counts only with a POST status.
productFromCommon(poll) == IF poll.post.status = "" THEN << >> ELSE <<poll.post.code>>

\* One component; a size that does not fit is 0.
FromCommon(c) == [content |-> c.content, size |-> ToUint32(c.size)]

\* attributesFromDevice after sortDevice: nil components are left out.
attributesFromDevice(poll) ==
    [lists |-> [k \in DOMAIN poll.lists |->
                  LET list == SelectSeq(Sorted(poll.lists[k]), LAMBDA c : c.present)
                  IN [i \in DOMAIN list |-> FromCommon(list[i])]],
     post |-> productFromCommon(poll)]

\* findLinkedHardware: one Hardware, or none when it is not clear which.
findLinkedHardware == rmCase.links = 1

dueForInventoryRefresh ==
    \/ rmBm.refresh
    \/ ~rmAttrsSeen.stored
    \/ rmNow - rmAttrsSeen.updated > Interval

\* A mutant of applyOutOfBandAttributes: no device leaves empty attributes.
ApplyForgetful(poll) ==
    [stored |-> TRUE, updated |-> rmNow, method |-> poll.provider,
     device |-> IF poll.answer = "none" THEN << >> ELSE <<attributesFromDevice(poll)>>]

\* applyOutOfBandAttributes: what is stored after the collection.  No device
\* keeps what there is and moves its time; the same device is not written at
\* all, so that its time stays.
applyOutOfBandAttributes(poll) ==
    LET collected == [rmHw EXCEPT !.method = poll.provider,
                                         !.device = <<attributesFromDevice(poll)>>]
    IN IF poll.answer = "none"
       THEN [rmHw EXCEPT !.stored = TRUE, !.updated = rmNow, !.method = poll.provider]
       ELSE IF rmHw.stored /\ collected = rmHw THEN rmAttrs
       ELSE [collected EXCEPT !.stored = TRUE, !.updated = rmNow]

-----------------------------------------------------------------------------
(* The reconcile.                                                          *)

Goto(step) == rmStep' = step

SetCondition(bm, contactable) == [bm EXCEPT !.contactable = contactable]

\* MachineReconciler.Reconcile: an object that is gone, or going, is left alone.
ReconcileMachine ==
    /\ rmStep = "idle" /\ rmQueued /\ rmQueued' = FALSE
    /\ rmBm' = rmCache /\ rmOrig' = rmCache
    /\ Goto(IF rmCache.gone THEN "idle" ELSE "connect")
    /\ UNCHANGED <<rmCase, rmMachine, rmWatch, rmCache, rmTimer, rmConn, rmHwVars, rmSeenVars, rmEnvVars>>

\* The secrets cannot be had: the error puts the Machine back in the queue.
SecretsMissing ==
    /\ rmStep = "connect" /\ RmFault
    /\ Goto("idle") /\ rmQueued' = TRUE
    /\ UNCHANGED <<rmCase, rmMachine, rmWatch, rmCache, rmTimer, rmBm, rmOrig, rmConn, rmHwVars,
                   rmSeenVars, rmPower, rmNow, rmUser>>

Connected ==
    /\ rmStep = "connect" /\ rmConn' = Translate(rmCase.spec) /\ Goto("power")
    /\ UNCHANGED <<rmCase, rmMachineVars, rmBm, rmOrig, rmHwVars, rmSeenVars, rmEnvVars>>

ConnectionFails ==
    /\ rmStep = "connect" /\ RmFault
    /\ rmBm' = [SetCondition(rmBm, "False") EXCEPT !.power = "unknown"] /\ rmRead' = "unknown"
    /\ Goto("status")
    /\ UNCHANGED <<rmCase, rmMachineVars, rmOrig, rmConn, rmHwVars, rmCollected, rmReported,
                   rmEarly, rmStale, rmPower, rmNow, rmUser>>

\* updatePowerState and the Contactable condition.
UpdatePowerState ==
    /\ rmStep = "power" /\ Goto("inventory")
    /\ \/ \E clear \in BOOLEAN :
            LET raw == [saysOn |-> clear /\ rmPower = "on", saysOff |-> clear /\ rmPower = "off"]
            IN /\ rmRead' = toPowerState(raw)
               /\ rmBm' = [SetCondition(rmBm, "True") EXCEPT !.power = toPowerState(raw)]
               /\ IF clear THEN UNCHANGED rmFaults ELSE RmFault
       \/ /\ RmFault /\ rmRead' = "unknown"
          /\ rmBm' = [SetCondition(rmBm, "False") EXCEPT !.power = "unknown"]
    /\ UNCHANGED <<rmCase, rmMachineVars, rmOrig, rmConn, rmHwVars, rmCollected, rmReported,
                   rmEarly, rmStale, rmPower, rmNow, rmUser>>

\* reconcileInventoryIfDue, up to the collection.
InventoryDue ==
    LET due == /\ rmCase.enabled /\ findLinkedHardware /\ ~rmCase.disabled
               /\ dueForInventoryRefresh
    IN /\ rmStep = "inventory" /\ Goto(IF due THEN "collect" ELSE "status")
       /\ rmEarly' = /\ due /\ ~rmBm.refresh /\ rmAttrsSeen = rmAttrs
                     /\ rmCollected > 0 /\ rmNow - rmCollected <= Interval
       /\ rmHw' = IF due THEN rmAttrsSeen ELSE rmHw
       /\ UNCHANGED <<rmCase, rmMachineVars, rmBm, rmOrig, rmConn, rmAttrs, rmAttrsSeen, rmRead,
                      rmCollected, rmReported, rmStale, rmEnvVars>>

\* reconcileInventory: the collection and the Server-Side Apply of its result.
CollectInventory(poll) ==
    /\ rmStep = "collect"
    /\ rmAttrs' = applyOutOfBandAttributes(poll)
    /\ rmStale' = (rmHw # rmAttrs \/ (rmStale /\ poll.answer = "none"))
    /\ rmCollected' = rmNow
    /\ rmReported' = IF poll.answer = "none" THEN rmReported ELSE <<attributesFromDevice(poll)>>
    /\ Goto(IF rmBm.refresh THEN "clear" ELSE "status")
    /\ UNCHANGED <<rmCase, rmMachineVars, rmBm, rmOrig, rmConn, rmAttrsSeen, rmHw, rmRead, rmEarly, rmEnvVars>>

\* The BMC cannot give an inventory, or the result cannot be applied: an event
\* and nothing else.
CollectFails ==
    /\ rmStep = "collect" /\ RmFault /\ Goto("status")
    /\ UNCHANGED <<rmCase, rmMachineVars, rmBm, rmOrig, rmConn, rmHwVars, rmSeenVars,
                   rmPower, rmNow, rmUser>>

\* clearRefreshInventoryAnnotation: the answer to the patch is the object as
\* the server has it, so a status the server has takes the place of the one
\* in hand.  After three failures the annotation stays.
ClearRefreshInventoryAnnotation ==
    /\ rmStep = "clear" /\ Goto("status")
    /\ \/ /\ ~rmMachine.gone
          /\ Stored([rmMachine EXCEPT !.refresh = FALSE])
          /\ rmBm' = [rmBm EXCEPT !.refresh = FALSE,
                                  !.power = IF rmMachine.power = "" THEN @ ELSE rmMachine.power,
                                  !.contactable = IF rmMachine.contactable = "" THEN @
                                                  ELSE rmMachine.contactable]
          /\ UNCHANGED rmFaults
       \/ /\ RmFault /\ rmBm' = [rmBm EXCEPT !.refresh = FALSE] /\ UNCHANGED <<rmMachine, rmWatch>>
    /\ UNCHANGED <<rmCase, rmCache, rmQueued, rmTimer, rmOrig, rmConn, rmHwVars, rmSeenVars,
                   rmPower, rmNow, rmUser>>

\* A mutant of PatchStatus: a patch that fails is left to the next power check.
PatchStatusOnce ==
    /\ rmStep = "status" /\ Goto("idle") /\ rmConn' = NoConn
    /\ rmBm' = NewMachine /\ rmOrig' = NewMachine /\ rmHw' = NoAttributes /\ rmEarly' = FALSE
    /\ \/ /\ ~rmMachine.gone
          /\ Stored([rmMachine EXCEPT
                       !.power = IF rmBm.power = rmOrig.power THEN @ ELSE rmBm.power,
                       !.contactable = IF rmBm.contactable = rmOrig.contactable THEN @
                                       ELSE rmBm.contactable])
          /\ rmTimer' = rmNow + PowerCheck /\ UNCHANGED <<rmQueued, rmFaults>>
       \/ /\ RmFault \/ (rmMachine.gone /\ UNCHANGED rmFaults)
          /\ rmTimer' = rmNow + PowerCheck /\ UNCHANGED <<rmMachine, rmWatch, rmQueued>>
    /\ UNCHANGED <<rmCase, rmCache, rmAttrs, rmAttrsSeen, rmRead, rmCollected, rmReported, rmStale,
                   rmPower, rmNow, rmUser>>

\* patchStatus and what follows: the patch has the fields that differ from the
\* object read; the deferred close; a delayed requeue, or an immediate one
\* when the patch fails.
PatchStatus ==
    /\ rmStep = "status" /\ Goto("idle") /\ rmConn' = NoConn
    /\ rmBm' = NewMachine /\ rmOrig' = NewMachine /\ rmHw' = NoAttributes /\ rmEarly' = FALSE
    /\ \/ /\ ~rmMachine.gone
          /\ Stored([rmMachine EXCEPT
                       !.power = IF rmBm.power = rmOrig.power THEN @ ELSE rmBm.power,
                       !.contactable = IF rmBm.contactable = rmOrig.contactable THEN @
                                       ELSE rmBm.contactable])
          /\ rmTimer' = rmNow + PowerCheck /\ UNCHANGED <<rmQueued, rmFaults>>
       \/ /\ RmFault \/ (rmMachine.gone /\ UNCHANGED rmFaults)
          /\ rmQueued' = TRUE /\ UNCHANGED <<rmMachine, rmWatch, rmTimer>>
    /\ UNCHANGED <<rmCase, rmCache, rmAttrs, rmAttrsSeen, rmRead, rmCollected, rmReported, rmStale,
                   rmPower, rmNow, rmUser>>

-----------------------------------------------------------------------------
(* Around the reconciler.                                                  *)

DeliverMachine ==
    /\ rmWatch # << >>
    /\ rmCache' = Head(rmWatch) /\ rmWatch' = Tail(rmWatch) /\ rmQueued' = TRUE
    /\ UNCHANGED <<rmCase, rmMachine, rmTimer, rmRecVars, rmHwVars, rmSeenVars, rmEnvVars>>

DeliverHardware ==
    /\ rmAttrsSeen # rmAttrs /\ rmAttrsSeen' = rmAttrs
    /\ UNCHANGED <<rmCase, rmMachineVars, rmRecVars, rmAttrs, rmHw, rmSeenVars, rmEnvVars>>

RequeueTimer ==
    /\ rmTimer # 0 /\ rmTimer <= rmNow
    /\ rmTimer' = 0 /\ rmQueued' = TRUE
    /\ UNCHANGED <<rmCase, rmMachine, rmWatch, rmCache, rmRecVars, rmHwVars, rmSeenVars, rmEnvVars>>

Tick ==
    /\ rmNow < MaxTime /\ rmNow' = rmNow + 1
    /\ UNCHANGED <<rmCase, rmMachineVars, rmRecVars, rmHwVars, rmSeenVars, rmPower, rmUser, rmFaults>>

\* Someone asks for a refresh, deletes the Machine, or turns the power.
MachineUser ==
    /\ rmUser < MaxUser /\ rmUser' = rmUser + 1
    /\ \/ ~rmMachine.refresh /\ Stored([rmMachine EXCEPT !.refresh = TRUE]) /\ UNCHANGED rmPower
       \/ ~rmMachine.gone /\ Stored([rmMachine EXCEPT !.gone = TRUE]) /\ UNCHANGED rmPower
       \/ rmPower' = (IF rmPower = "on" THEN "off" ELSE "on") /\ UNCHANGED <<rmMachine, rmWatch>>
    /\ UNCHANGED <<rmCase, rmCache, rmQueued, rmTimer, rmRecVars, rmHwVars, rmSeenVars, rmNow, rmFaults>>

RmNext ==
    \/ ReconcileMachine \/ SecretsMissing \/ Connected \/ ConnectionFails
    \/ UpdatePowerState \/ InventoryDue
    \/ \E poll \in Polls : CollectInventory(poll)
    \/ CollectFails \/ ClearRefreshInventoryAnnotation \/ PatchStatus
    \/ DeliverMachine \/ DeliverHardware \/ RequeueTimer \/ Tick \/ MachineUser

RmSpec == RmInit /\ [][RmNext]_rmVars

-----------------------------------------------------------------------------

RmTypeOK ==
    /\ rmCase \in Cases
    /\ rmMachine.power \in {"", "on", "off", "unknown"}
    /\ rmStep \in {"idle", "connect", "power", "inventory", "collect", "clear", "status"}
    /\ rmStep \in {"idle", "connect"} => rmConn = NoConn
    /\ rmAttrs.updated <= rmNow /\ rmCollected <= rmNow

\* Once nothing is in hand, queued or on its way to the cache, the Machine's
\* status has the power state that was last read, "unknown" after a connection
\* that failed: also when the patch that clears the refresh annotation put
\* the server's older status in place of the one just computed.
PowerShown ==
    /\ rmStep = "idle" /\ ~rmQueued /\ rmWatch = << >> /\ ~rmMachine.gone
      => rmMachine.power = rmRead

\* The Hardware's status has the device of the last collection that reported
\* one: a collection without a device, one in another order or one that
\* failed loses nothing.
InventoryKept == ~rmStale => rmAttrs.device = rmReported

\* "it deliberately does not run on every power-poll reconcile - only once
\* this interval has elapsed since the last successful collection"
\* (inventory.go): unless someone asks for a refresh.
RefreshKeepsInterval == ~rmEarly

\* The two objects show what the BMC last said.
MachineShown == PowerShown /\ InventoryKept
=============================================================================
