--------------------------- MODULE AgentTransport ---------------------------
(***************************************************************************)
(* The Tink Agent with the transports that push Actions: its start         *)
(* (cmd/agent, ConfigureAndRun), the sender goroutine of the NATS and the  *)
(* file transport, which offers the Actions of a batch one by one on an    *)
(* unbuffered channel, and agent.Config.Run, which takes them, executes    *)
(* them and writes events.  A failed Action replaces the channel and, with *)
(* NATS, makes the sender give up its batch.  (The gRPC transport, which   *)
(* pulls, is in TinkAgent.)                                                *)
(***************************************************************************)
EXTENDS Naturals, Sequences, SequencesExt

CONSTANTS Launches,      \* flags and environment the agent is started with
          TrBatches,     \* sizes of the batches that arrive, in order
          MaxTrFaults    \* events that cannot be published

ASSUME TrAssumption == TrBatches \in Seq(Nat) /\ TrBatches # <<>> /\ MaxTrFaults \in Nat

VARIABLES trLaunch, trMode,   \* how it was started; "flags", "grpc", "nats", "file", "exit"
          trId,               \* the agent's id
          trNext,             \* batches received
          trQueue,            \* Actions <<batch, index>> the sender still has
          trSend,             \* sender: "idle", "loop", "select", "ended"
          trOffer,            \* channel that the sender's select offers on
          trChan,             \* channel in c.Actions
          trAgent,            \* Run: "read", "announce", "execute", "report", "cancel", "publish", "down"
          trCur, trResult,    \* the Action being executed, how it went
          trDone,             \* Actions executed, in order, with their results
          trFaults

trVars == <<trLaunch, trMode, trId, trNext, trQueue, trSend, trOffer, trChan,
            trAgent, trCur, trResult, trDone, trFaults>>
trStart == <<trLaunch, trMode, trId>>
trSender == <<trNext, trQueue, trSend, trOffer>>
trRun == <<trChan, trAgent, trCur, trResult, trDone>>

TrInit ==
  /\ trLaunch \in Launches /\ trMode = "flags" /\ trId = ""
  /\ trNext = 0 /\ trQueue = <<>> /\ trSend = "idle" /\ trOffer = 0
  /\ trChan = 1 /\ trAgent = "down" /\ trCur = <<0, 0>> /\ trResult = "none"
  /\ trDone = <<>> /\ trFaults = 0

-----------------------------------------------------------------------------
(* Start                                                                   *)

Lower(s) == IF s = "NATS" THEN "nats" ELSE s

\* TransportType.Set accepts any case and keeps the word as it was written.
SetTransport(s) == IF Lower(s) \in {"grpc", "nats", "file"} THEN s ELSE "invalid"

\* The legacy variables override the flags, WORKER_ID the older ID.
SetFromEnvLegacy(l) ==
  IF l.workerId # "" THEN l.workerId ELSE IF l.envId # "" THEN l.envId ELSE l.id

\* A word that is neither of the push transports selects gRPC, which needs
\* an address.  The chosen runtime must be there.
ConfigureAndRun(l) ==
  IF SetTransport(l.transport) = "invalid" \/ ~l.runtimeWorks THEN "exit"
  ELSE CASE l.transport \in {"nats", "file"} -> l.transport
         [] OTHER -> IF l.address = "" THEN "exit" ELSE "grpc"

Launch ==
  /\ trMode = "flags"
  /\ trMode' = ConfigureAndRun(trLaunch)
  /\ trId' = SetFromEnvLegacy(trLaunch)
  /\ trAgent' = IF trMode' \in {"nats", "file"} THEN "read" ELSE "down"
  /\ UNCHANGED <<trLaunch, trSender, trChan, trCur, trResult, trDone, trFaults>>

-----------------------------------------------------------------------------
(* The sender goroutine                                                    *)

Pushing == trMode \in {"nats", "file"} /\ trAgent # "down"

\* A message with a batch of Actions, or the one file that is read.
NextMsg ==
  /\ Pushing /\ trSend = "idle"
  /\ trNext < IF trMode = "nats" THEN Len(TrBatches) ELSE 1
  /\ trNext' = trNext + 1
  /\ trQueue' = [i \in 1..TrBatches[trNext + 1] |-> <<trNext + 1, i>>]
  /\ trSend' = "loop"
  /\ UNCHANGED <<trStart, trOffer, trRun, trFaults>>

\* The next turn of the loop over the batch reads c.Actions, unsynchronised
\* with Write, and waits in a select.
Offer ==
  /\ Pushing /\ trSend = "loop"
  /\ IF trQueue = <<>>
     THEN trSend' = (IF trMode = "nats" THEN "idle" ELSE "ended") /\ UNCHANGED trOffer
     ELSE trSend' = "select" /\ trOffer' = trChan
  /\ UNCHANGED <<trStart, trNext, trQueue, trRun, trFaults>>

\* The Action goes over, if both hold the same channel.
Read ==
  /\ trAgent = "read" /\ trSend = "select" /\ trOffer = trChan
  /\ trCur' = Head(trQueue) /\ trQueue' = Tail(trQueue)
  /\ trSend' = "loop" /\ trAgent' = "announce"
  /\ UNCHANGED <<trStart, trNext, trOffer, trChan, trResult, trDone, trFaults>>

-----------------------------------------------------------------------------
(* Run                                                                     *)

TrFault == trFaults < MaxTrFaults /\ trFaults' = trFaults + 1

\* The running event is written, or cannot be: then Run backs off and reads
\* on, and this transport does not offer the Action again.
Announce ==
  /\ trAgent = "announce"
  /\ \/ trAgent' = "execute" /\ UNCHANGED trFaults
     \/ trMode = "nats" /\ TrFault /\ trAgent' = "read"
  /\ UNCHANGED <<trStart, trSender, trChan, trCur, trResult, trDone>>

Perform ==
  /\ trAgent = "execute"
  /\ \E res \in {"success", "failure"} :
       /\ trResult' = res
       /\ trDone' = Append(trDone, [action |-> trCur, result |-> res])
  /\ trAgent' = "report"
  /\ UNCHANGED <<trStart, trSender, trChan, trCur, trFaults>>

WriteKeepsBatch ==
  /\ trAgent = "report"
  /\ UNCHANGED trChan
  /\ trAgent' = "publish"
  /\ UNCHANGED <<trStart, trSender, trCur, trResult, trDone, trFaults>>

\* Write of the result: after a failure nobody is to read from the channel
\* that the sender has, and with NATS the sender is told.
Write ==
  /\ trAgent = "report"
  /\ trChan' = IF trResult = "failure" THEN trChan + 1 ELSE trChan
  /\ trAgent' = IF trResult = "failure" /\ trMode = "nats" THEN "cancel" ELSE "publish"
  /\ UNCHANGED <<trStart, trSender, trCur, trResult, trDone, trFaults>>

\* c.cancel <- true: it is taken only by a sender that is in its select,
\* with whatever batch that is; the rest of the batch is given up.
Cancelled ==
  /\ trAgent = "cancel" /\ trSend = "select"
  /\ trQueue' = <<>> /\ trSend' = "idle"
  /\ trAgent' = "publish"
  /\ UNCHANGED <<trStart, trNext, trOffer, trChan, trCur, trResult, trDone, trFaults>>

\* The event is published, or the whole Write is repeated.
Publish ==
  /\ trAgent = "publish"
  /\ \/ trAgent' = "read" /\ UNCHANGED trFaults
     \/ trMode = "nats" /\ TrFault /\ trAgent' = "report"
  /\ UNCHANGED <<trStart, trSender, trChan, trCur, trResult, trDone>>

\* A signal ends the context: the sender returns, and so does Run unless it
\* is executing or in a Write, which does not look at the context.
Signalled ==
  /\ Pushing
  /\ trSend' = "ended" /\ trQueue' = <<>>
  /\ trAgent' = IF trAgent \in {"read", "announce", "publish"} THEN "down" ELSE trAgent
  /\ UNCHANGED <<trStart, trNext, trOffer, trChan, trCur, trResult, trDone, trFaults>>

TrNext ==
  \/ Launch \/ NextMsg \/ Offer \/ Read \/ Announce \/ Perform \/ Write
  \/ Cancelled \/ Publish \/ Signalled

TrSpec == TrInit /\ [][TrNext]_trVars

-----------------------------------------------------------------------------

TrTypeOK ==
  /\ trLaunch \in Launches /\ trMode \in {"flags", "grpc", "nats", "file", "exit"}
  /\ trNext \in 0..Len(TrBatches) /\ trQueue \in Seq(Nat \X Nat)
  /\ trSend \in {"idle", "loop", "select", "ended"}
  /\ trOffer \in 0..trChan /\ trChan \in Nat \ {0}
  /\ trAgent \in {"read", "announce", "execute", "report", "cancel", "publish", "down"}
  /\ trResult \in {"none", "success", "failure"}
  /\ trFaults \in 0..MaxTrFaults

\* With NATS, once an Action failed none that came after it in the same
\* message is executed, wherever the sender goroutine was at that moment;
\* and no Action is executed twice, however often its events fail.
BatchAbandoned ==
  /\ trMode = "nats" =>
       \A i, j \in DOMAIN trDone :
         (i < j /\ trDone[i].result = "failure") =>
           trDone[i].action[1] # trDone[j].action[1]
  /\ \A i, j \in DOMAIN trDone :
       trDone[i].action = trDone[j].action => i = j
=============================================================================
