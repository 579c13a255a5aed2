---------------------------- MODULE AgentProofs -----------------------------
(***************************************************************************)
(* Proofs about the Tink Agent: with the transports that push Actions      *)
(* (AgentTransport), for every sequence of batches and every number of     *)
(* events that cannot be published, and its runtimes (AgentRuntime), for   *)
(* every Action, number of Execute calls and number of faults.             *)
(***************************************************************************)
EXTENDS AgentTransport, AgentRuntime, FiniteSetTheorems, TLAPS

-----------------------------------------------------------------------------
(* The order of Actions: by batch, and by place in it.                     *)

Actions == Nat \X Nat
Results == [action : Actions, result : {"success", "failure"}]

Before(a, b) == a[1] < b[1] \/ (a[1] = b[1] /\ a[2] < b[2])

\* The sender has Actions of the last batch received, in their order.
QueueOrdered ==
  /\ \A i \in DOMAIN trQueue : trQueue[i][1] = trNext
  /\ \A i, j \in DOMAIN trQueue : i < j => trQueue[i][2] < trQueue[j][2]
  /\ trSend = "select" => trQueue # <<>>

\* An Action in hand has not been executed.
InHand == trAgent \in {"announce", "execute"}

\* What was executed comes before what is in hand, and that before what the
\* sender still has.
DoneOrdered ==
  /\ \A i, j \in DOMAIN trDone : i < j => Before(trDone[i].action, trDone[j].action)
  /\ \A i \in DOMAIN trDone : trDone[i].action[1] <= trNext
  /\ \A i \in DOMAIN trDone, j \in DOMAIN trQueue : Before(trDone[i].action, trQueue[j])
  /\ InHand =>
       /\ trCur[1] <= trNext
       /\ \A i \in DOMAIN trDone : Before(trDone[i].action, trCur)
       /\ \A j \in DOMAIN trQueue : Before(trCur, trQueue[j])

\* The failure that Run is about to tell the sender of.
Telling(i) == i = Len(trDone) /\ trAgent \in {"report", "cancel"}

\* With NATS, a batch in which an Action failed is not in hand any more, and
\* not with the sender either once the sender was told.
FailuresTold ==
  trMode = "nats" =>
    \A i \in DOMAIN trDone : trDone[i].result = "failure" =>
      /\ \A j \in DOMAIN trDone : i < j => trDone[i].action[1] < trDone[j].action[1]
      /\ InHand => trDone[i].action[1] < trCur[1]
      /\ Telling(i) \/ trQueue = <<>> \/ trDone[i].action[1] < trNext

\* While Run writes an event its result is the last one.
ResultOK ==
  trAgent \in {"report", "cancel", "publish"} =>
    trDone # <<>> /\ trDone[Len(trDone)].result = trResult

\* What the transport and Run keep in types.
TrTyped ==
  /\ TrTypeOK
  /\ trCur \in Actions /\ trQueue \in Seq(Actions)
  /\ trDone \in Seq(Results)
  /\ trMode = "flags" => trDone = <<>> /\ trAgent = "down"

TrInv == TrTyped /\ QueueOrdered /\ DoneOrdered /\ FailuresTold /\ ResultOK

\* The invariant holds at first.
LEMMA TrInitInv == TrInit => TrInv
<1> SUFFICES ASSUME TrInit PROVE TrInv
  OBVIOUS
<1>0. /\ trLaunch \in Launches /\ trMode = "flags"
      /\ trNext = 0 /\ trQueue = <<>> /\ trSend = "idle" /\ trOffer = 0
      /\ trChan = 1 /\ trAgent = "down" /\ trCur = <<0, 0>> /\ trResult = "none"
      /\ trDone = <<>> /\ trFaults = 0
  BY Zenon DEF TrInit
<1> USE <1>0
<1>1. TrTyped
  <2>1. <<0, 0>> \in Nat \X Nat /\ 0 \in 0..Len(TrBatches) /\ 0 \in 0..MaxTrFaults
    BY TrAssumption
  <2>2. QED
    BY <2>1 DEF TrTyped, TrTypeOK, Actions
<1>2. QueueOrdered /\ DoneOrdered /\ FailuresTold /\ ResultOK
  BY DEF QueueOrdered, DoneOrdered, FailuresTold, ResultOK, InHand
<1>3. QED
  BY <1>1, <1>2 DEF TrInv

\* A sequence without its first element.
LEMMA Rest ==
  ASSUME NEW S, NEW q \in Seq(S), q # <<>>
  PROVE  /\ 1 \in DOMAIN q /\ Head(q) = q[1] /\ Head(q) \in S /\ Tail(q) \in Seq(S)
         /\ \A i \in DOMAIN Tail(q) :
              i \in Nat /\ i + 1 \in DOMAIN q /\ 1 < i + 1 /\ Tail(q)[i] = q[i + 1]
  OBVIOUS

\* A sequence with one more element.
LEMMA Longer ==
  ASSUME NEW S, NEW q \in Seq(S), NEW e \in S
  PROVE  /\ Append(q, e) \in Seq(S) /\ Append(q, e) # <<>>
         /\ Len(Append(q, e)) = Len(q) + 1
         /\ DOMAIN Append(q, e) = DOMAIN q \cup {Len(q) + 1}
         /\ Append(q, e)[Len(q) + 1] = e
         /\ \A i \in DOMAIN q : i < Len(q) + 1 /\ i # Len(q) + 1 /\ Append(q, e)[i] = q[i]
         /\ \A i \in DOMAIN q : ~(Len(q) + 1 < i)
         /\ ~(Len(q) + 1 < Len(q) + 1)
  OBVIOUS

\* The start: nothing was executed yet.
LEMMA LaunchStep == ASSUME TrInv, Launch PROVE TrInv'
<1>0. /\ trMode = "flags" /\ trMode' = ConfigureAndRun(trLaunch)
      /\ trAgent' \in {"read", "down"}
      /\ UNCHANGED <<trLaunch, trNext, trQueue, trSend, trOffer, trChan, trCur, trResult,
                     trDone, trFaults>>
  BY DEF Launch, trSender
<1>1. trMode' \in {"grpc", "nats", "file", "exit"}
  BY <1>0 DEF ConfigureAndRun
<1>2. trDone = <<>> /\ DOMAIN trDone = {}
  BY <1>0 DEF TrInv, TrTyped
<1>3. TrTyped'
  BY <1>0, <1>1 DEF TrInv, TrTyped, TrTypeOK
<1>4. QueueOrdered'
  BY <1>0 DEF TrInv, QueueOrdered
<1>5. DoneOrdered' /\ FailuresTold' /\ ResultOK'
  BY <1>0, <1>2 DEF DoneOrdered, FailuresTold, ResultOK, InHand
<1>6. QED
  BY <1>3, <1>4, <1>5 DEF TrInv

\* The numbers of an Action, and what an entry of the record holds.
LEMMA ActionFields ==
  /\ \A a \in Actions : a[1] \in Nat /\ a[2] \in Nat
  /\ \A r \in Results : r.action \in Actions /\ r.action[1] \in Nat /\ r.action[2] \in Nat
BY DEF Actions, Results

\* The numbers in the state.
LEMMA TrNumbers ==
  ASSUME TrTyped
  PROVE  /\ trNext \in Nat /\ trCur[1] \in Nat /\ trCur[2] \in Nat
         /\ \A i \in DOMAIN trQueue : trQueue[i][1] \in Nat /\ trQueue[i][2] \in Nat
         /\ \A i \in DOMAIN trDone : trDone[i].action[1] \in Nat /\ trDone[i].action[2] \in Nat
<1>1. trCur \in Actions /\ trQueue \in Seq(Actions) /\ trDone \in Seq(Results)
  BY DEF TrTyped
<1>2. trNext \in Nat
  <2>1. trNext \in 0..Len(TrBatches)
    BY DEF TrTyped, TrTypeOK
  <2>2. QED
    BY <2>1, TrAssumption
<1>3. (\A i \in DOMAIN trQueue : trQueue[i] \in Actions) /\ \A i \in DOMAIN trDone : trDone[i] \in Results
  BY <1>1
<1>4. QED
  BY <1>1, <1>2, <1>3, ActionFields

\* A batch arrives: it comes after everything that was executed or is in hand.
LEMMA NextMsgStep == ASSUME TrInv, NextMsg PROVE TrInv'
<1> DEFINE k == trNext + 1
<1>0. /\ trMode \in {"nats", "file"} /\ trNext' = k /\ trSend' = "loop"
      /\ trQueue' = [i \in 1..TrBatches[k] |-> <<k, i>>]
      /\ UNCHANGED <<trLaunch, trMode, trOffer, trChan, trAgent, trCur, trResult, trDone, trFaults>>
  BY DEF NextMsg, Pushing, trStart, trRun
<1>1. k \in 1..Len(TrBatches) /\ trNext \in Nat
  <2>1. trNext < IF trMode = "nats" THEN Len(TrBatches) ELSE 1
    BY DEF NextMsg
  <2>2. trNext \in Nat /\ Len(TrBatches) \in Nat /\ Len(TrBatches) > 0
    BY TrNumbers, TrAssumption DEF TrInv
  <2>3. QED
    BY <2>1, <2>2
<1>2. TrBatches[k] \in Nat
  BY <1>1, TrAssumption
<1>3. /\ trQueue' \in Seq(Actions) /\ DOMAIN trQueue' = 1..TrBatches[k]
      /\ \A i \in DOMAIN trQueue' : trQueue'[i][1] = k /\ trQueue'[i][2] = i /\ i \in Nat
  <2>1. k \in Nat /\ \A i \in 1..TrBatches[k] : i \in Nat
    BY <1>1, <1>2
  <2>2. \A i \in 1..TrBatches[k] : <<k, i>> \in Actions
    BY <2>1 DEF Actions
  <2> HIDE DEF k
  <2>3. QED
    BY <2>1, <2>2, <1>0, <1>2
<1>4. TrTyped'
  BY <1>0, <1>1, <1>3 DEF TrInv, TrTyped, TrTypeOK, Actions
<1>5. QueueOrdered'
  BY <1>0, <1>3 DEF QueueOrdered
<1>6. DoneOrdered'
  <2>0. DoneOrdered /\ TrTyped
    BY DEF TrInv
  <2>1. \A i \in DOMAIN trDone : trDone[i].action[1] <= k /\ trDone[i].action[1] < k
    BY <2>0, <1>1, TrNumbers DEF DoneOrdered
  <2>2. InHand => trCur[1] <= k /\ trCur[1] < k
    BY <2>0, <1>1, TrNumbers DEF DoneOrdered
  <2> HIDE DEF k
  <2>3. QED
    BY <2>0, <2>1, <2>2, <1>0, <1>3 DEF DoneOrdered, InHand, Before
<1>7. FailuresTold'
  <2>0. FailuresTold /\ DoneOrdered /\ TrTyped
    BY DEF TrInv
  <2>1. \A i \in DOMAIN trDone : trDone[i].action[1] < k
    BY <2>0, <1>1, TrNumbers DEF DoneOrdered
  <2> HIDE DEF k
  <2>2. QED
    BY <2>0, <2>1, <1>0 DEF FailuresTold, InHand
<1>8. ResultOK'
  BY <1>0 DEF TrInv, ResultOK
<1>9. QED
  BY <1>4, <1>5, <1>6, <1>7, <1>8 DEF TrInv

\* The sender offers the next Action, or has come to the end of the batch.
LEMMA OfferStep == ASSUME TrInv, Offer PROVE TrInv'
<1>0. /\ trSend' \in {"idle", "ended", "select"} /\ (trSend' = "select" => trQueue # <<>>)
      /\ trOffer' \in {trOffer, trChan}
      /\ UNCHANGED <<trLaunch, trMode, trNext, trQueue, trChan, trAgent, trCur, trResult,
                     trDone, trFaults>>
  BY DEF Offer, trStart, trRun
<1>1. TrTyped'
  <2>1. trOffer' \in 0..trChan'
    BY <1>0 DEF TrInv, TrTyped, TrTypeOK
  <2>2. QED
    BY <1>0, <2>1 DEF TrInv, TrTyped, TrTypeOK
<1>2. QueueOrdered'
  BY <1>0 DEF TrInv, QueueOrdered
<1>3. DoneOrdered'
  BY <1>0 DEF TrInv, DoneOrdered, InHand
<1>4. FailuresTold'
  BY <1>0 DEF TrInv, FailuresTold, InHand, Telling
<1>5. ResultOK'
  BY <1>0 DEF TrInv, ResultOK
<1>6. QED
  BY <1>1, <1>2, <1>3, <1>4, <1>5 DEF TrInv

\* Run takes the first Action of the sender.
LEMMA ReadActionStep == ASSUME TrInv, Read PROVE TrInv'
<1>0. /\ trAgent = "read" /\ trSend = "select" /\ trCur' = Head(trQueue)
      /\ trQueue' = Tail(trQueue) /\ trSend' = "loop" /\ trAgent' = "announce"
      /\ UNCHANGED <<trLaunch, trMode, trNext, trOffer, trChan, trResult, trDone, trFaults>>
  BY DEF Read, trStart
<1>1. trQueue # <<>> /\ trQueue \in Seq(Actions)
  BY <1>0 DEF TrInv, QueueOrdered, TrTyped
<1>2. /\ 1 \in DOMAIN trQueue /\ trCur' = trQueue[1] /\ trCur' \in Actions
      /\ trQueue' \in Seq(Actions)
      /\ \A i \in DOMAIN trQueue' :
           i \in Nat /\ i + 1 \in DOMAIN trQueue /\ 1 < i + 1 /\ trQueue'[i] = trQueue[i + 1]
  BY <1>0, <1>1, Rest
<1>3. TrTyped'
  BY <1>0, <1>2 DEF TrInv, TrTyped, TrTypeOK, Actions
<1>4. trCur'[1] = trNext /\ trNext \in Nat
  BY <1>2, TrNumbers DEF TrInv, QueueOrdered
<1>5. QueueOrdered'
  BY <1>0, <1>2 DEF TrInv, QueueOrdered
<1>6. DoneOrdered'
  <2>0. DoneOrdered /\ QueueOrdered
    BY DEF TrInv
  <2>1. \A i \in DOMAIN trDone, j \in DOMAIN trQueue' : Before(trDone[i].action, trQueue'[j])
    BY <2>0, <1>2 DEF DoneOrdered
  <2>2. \A i \in DOMAIN trDone : Before(trDone[i].action, trCur')
    BY <2>0, <1>2 DEF DoneOrdered
  <2>3. \A j \in DOMAIN trQueue' : Before(trCur', trQueue'[j])
    BY <2>0, <1>2 DEF QueueOrdered, Before
  <2>4. QED
    BY <2>0, <2>1, <2>2, <2>3, <1>0, <1>4 DEF DoneOrdered
<1>7. FailuresTold'
  <2> SUFFICES ASSUME trMode = "nats", NEW i \in DOMAIN trDone, trDone[i].result = "failure"
               PROVE  /\ \A j \in DOMAIN trDone : i < j => trDone[i].action[1] < trDone[j].action[1]
                      /\ trDone[i].action[1] < trCur'[1]
                      /\ trDone[i].action[1] < trNext
    BY <1>0 DEF FailuresTold, InHand
  <2>1. QED
    BY <1>0, <1>1, <1>4 DEF TrInv, FailuresTold, Telling
<1>8. ResultOK'
  BY <1>0 DEF ResultOK
<1>9. QED
  BY <1>3, <1>5, <1>6, <1>7, <1>8 DEF TrInv

\* The Action in hand is executed and becomes the last one of the record.
LEMMA PerformStep == ASSUME TrInv, Perform PROVE TrInv'
<1>0. /\ trAgent = "execute" /\ trAgent' = "report"
      /\ UNCHANGED <<trLaunch, trMode, trNext, trQueue, trSend, trOffer, trChan, trCur, trFaults>>
  BY DEF Perform, trStart, trSender
<1>1. PICK res \in {"success", "failure"} :
        trResult' = res /\ trDone' = Append(trDone, [action |-> trCur, result |-> res])
  BY DEF Perform
<1> DEFINE e == [action |-> trCur, result |-> res]
           n == Len(trDone) + 1
<1>2. e \in Results /\ e.action = trCur /\ e.result = res /\ trDone \in Seq(Results)
  BY DEF TrInv, TrTyped, Results
<1> HIDE DEF e
<1>3. /\ trDone' \in Seq(Results) /\ trDone' # <<>> /\ Len(trDone') = n
      /\ DOMAIN trDone' = DOMAIN trDone \cup {n} /\ trDone'[n] = e
      /\ \A i \in DOMAIN trDone : i < n /\ i # n /\ trDone'[i] = trDone[i]
      /\ \A i \in DOMAIN trDone : ~(n < i)
      /\ ~(n < n)
  <2>1. trDone' = Append(trDone, e)
    BY <1>1 DEF e
  <2>2. QED
    BY <2>1, <1>2, Longer
<1> HIDE DEF n
<1>4. trMode # "flags"
  BY <1>0 DEF TrInv, TrTyped
<1>5. TrTyped'
  BY <1>0, <1>1, <1>3, <1>4 DEF TrInv, TrTyped, TrTypeOK
<1>6. QueueOrdered'
  BY <1>0 DEF TrInv, QueueOrdered
<1>7. DoneOrdered'
  <2>0. DoneOrdered /\ InHand
    BY <1>0 DEF TrInv, InHand
  <2>1. \A i, j \in DOMAIN trDone' : i < j => Before(trDone'[i].action, trDone'[j].action)
    BY <2>0, <1>2, <1>3 DEF DoneOrdered
  <2>2. \A i \in DOMAIN trDone' : trDone'[i].action[1] <= trNext
    BY <2>0, <1>2, <1>3 DEF DoneOrdered
  <2>3. \A i \in DOMAIN trDone', j \in DOMAIN trQueue : Before(trDone'[i].action, trQueue[j])
    BY <2>0, <1>2, <1>3 DEF DoneOrdered
  <2>4. QED
    BY <2>1, <2>2, <2>3, <1>0 DEF DoneOrdered, InHand
<1>8. FailuresTold'
  <2>0. FailuresTold /\ InHand /\ trAgent = "execute"
    BY <1>0 DEF TrInv, InHand
  <2> SUFFICES ASSUME trMode = "nats", NEW i \in DOMAIN trDone', trDone'[i].result = "failure"
               PROVE  /\ \A j \in DOMAIN trDone' : i < j => trDone'[i].action[1] < trDone'[j].action[1]
                      /\ i = n \/ trQueue = <<>> \/ trDone'[i].action[1] < trNext
    BY <1>0, <1>3 DEF FailuresTold, InHand, Telling
  <2>1. CASE i = n
    BY <2>1, <1>3
  <2>2. CASE i # n
    BY <2>0, <2>2, <1>2, <1>3 DEF FailuresTold, Telling
  <2>3. QED
    BY <2>1, <2>2
<1>9. ResultOK'
  BY <1>1, <1>2, <1>3 DEF ResultOK
<1>10. QED
  BY <1>5, <1>6, <1>7, <1>8, <1>9 DEF TrInv

\* The steps of Run that only change where it is and the channel.
LEMMA RunSteps == ASSUME TrInv, Announce \/ Write \/ Publish PROVE TrInv'
<1>0. /\ UNCHANGED <<trLaunch, trMode, trNext, trQueue, trSend, trOffer, trCur, trResult, trDone>>
      /\ trChan' \in {trChan, trChan + 1}
      /\ trFaults' = trFaults \/ (trFaults < MaxTrFaults /\ trFaults' = trFaults + 1)
      /\ \/ trAgent = "announce" /\ trAgent' \in {"execute", "read"}
         \/ trAgent = "publish" /\ trAgent' \in {"read", "report"}
         \/ trAgent = "report" /\ trAgent' = "publish" /\ (trResult # "failure" \/ trMode # "nats")
         \/ trAgent = "report" /\ trAgent' = "cancel"
  BY DEF Announce, Write, Publish, TrFault, trStart, trSender
<1>1. TrTyped'
  <2>1. trOffer' \in 0..trChan' /\ trChan' \in Nat \ {0}
    BY <1>0 DEF TrInv, TrTyped, TrTypeOK
  <2>2. trFaults' \in 0..MaxTrFaults
    BY <1>0, TrAssumption DEF TrInv, TrTyped, TrTypeOK
  <2>3. QED
    BY <1>0, <2>1, <2>2 DEF TrInv, TrTyped, TrTypeOK
<1>2. QueueOrdered'
  BY <1>0 DEF TrInv, QueueOrdered
<1>3. DoneOrdered'
  BY <1>0 DEF TrInv, DoneOrdered, InHand
<1>4. ResultOK'
  BY <1>0 DEF TrInv, ResultOK
<1>5. FailuresTold'
  BY <1>0 DEF TrInv, FailuresTold, InHand, Telling, ResultOK
<1>6. QED
  BY <1>1, <1>2, <1>3, <1>4, <1>5 DEF TrInv

\* The sender gives up what it has, told by Run or by the context.
LEMMA GivenUpSteps == ASSUME TrInv, Cancelled \/ Signalled PROVE TrInv'
<1>0. /\ UNCHANGED <<trLaunch, trMode, trNext, trOffer, trChan, trCur, trResult, trDone, trFaults>>
      /\ trQueue' = <<>> /\ trSend' \in {"idle", "ended"}
      /\ \/ trAgent = "cancel" /\ trAgent' = "publish"
         \/ trAgent' = "down"
         \/ trAgent' = trAgent
  BY DEF Cancelled, Signalled, trStart
<1>1. TrTyped'
  BY <1>0 DEF TrInv, TrTyped, TrTypeOK, Actions
<1>2. QueueOrdered'
  BY <1>0 DEF QueueOrdered
<1>3. DoneOrdered'
  BY <1>0 DEF TrInv, DoneOrdered, InHand
<1>4. ResultOK'
  BY <1>0 DEF TrInv, ResultOK
<1>5. FailuresTold'
  BY <1>0 DEF TrInv, FailuresTold, InHand
<1>6. QED
  BY <1>1, <1>2, <1>3, <1>4, <1>5 DEF TrInv

\* The inductive invariant of the push transports holds in every state.
THEOREM TransportInvariance == TrSpec => []TrInv
<1>1. TrInv /\ UNCHANGED trVars => TrInv'
  BY DEF TrInv, TrTyped, TrTypeOK, QueueOrdered, DoneOrdered, FailuresTold, ResultOK, InHand,
         Telling, trVars
<1>2. TrInv /\ [TrNext]_trVars => TrInv'
  BY <1>1, LaunchStep, NextMsgStep, OfferStep, ReadActionStep, PerformStep, RunSteps,
     GivenUpSteps DEF TrNext
<1>3. QED
  BY <1>2, TrInitInv, PTL DEF TrSpec

\* The state of the sender and of Run keeps its types.
THEOREM TransportTypeCorrect == TrSpec => []TrTypeOK
<1>1. TrInv => TrTypeOK
  BY DEF TrInv, TrTyped
<1>2. QED
  BY <1>1, TransportInvariance, PTL

\* With NATS, no Action that came after a failed one in the same message is
\* executed, wherever the sender was when it failed; and no Action is ever
\* executed twice.
THEOREM BatchIsAbandoned == TrSpec => []BatchAbandoned
<1>1. TrInv => BatchAbandoned
  <2> SUFFICES ASSUME TrInv PROVE BatchAbandoned
    OBVIOUS
  <2>1. \A i \in DOMAIN trDone : i \in Nat /\ trDone[i].action[1] \in Nat /\ trDone[i].action[2] \in Nat
    <3>1. trDone \in Seq(Results)
      BY DEF TrInv, TrTyped
    <3>2. QED
      BY <3>1, TrNumbers DEF TrInv
  <2>2. \A i, j \in DOMAIN trDone : trDone[i].action = trDone[j].action => i = j
    BY <2>1 DEF TrInv, DoneOrdered, Before
  <2>3. ASSUME trMode = "nats", NEW i \in DOMAIN trDone, NEW j \in DOMAIN trDone,
               i < j, trDone[i].result = "failure"
        PROVE  trDone[i].action[1] # trDone[j].action[1]
    BY <2>1, <2>3 DEF TrInv, FailuresTold
  <2>4. QED
    BY <2>2, <2>3 DEF BatchAbandoned
<1>2. QED
  BY <1>1, TransportInvariance, PTL

-----------------------------------------------------------------------------
(* The runtimes.  Whatever a call of Execute acquired has a deferred call  *)
(* that releases it, or is recorded as left.                               *)

\* The agent is not in a call of Execute.
Outside == {"announced", "reporting", "down"}

Has(q, kind) == \E i \in DOMAIN q : q[i] = kind
InDefer(kind) == Has(rtDefer, kind)

\* The types, and what goes with the places of the agent.
RtTyped ==
  /\ RtTypeOK
  /\ rtTry <= rtRun
  /\ rtPc \in Outside \cup {"returned"} => rtDefer = <<>>
  /\ rtPc \notin Outside => rtRun # 0
  /\ \A what \in rtHost : what[2] <= rtRun /\ what[1] # "job"
  /\ \A r \in 1..MaxRuns : rtRun < r => rtProc[r] = "none"

\* The deferred call that ends the process.
Holder == CASE Docker -> "container" [] Containerd -> "task" [] OTHER -> "job"

\* The Job of the Action, and the states the processes of a runtime can have:
\* a Pod that is not over belongs to the Job that holds the name.
JobsOK ==
  /\ rtJob.st \in {"absent", "foreign"} => rtJob.run = 0
  /\ rtJob.st \in {"active", "deleting"} => rtJob.run \in 1..rtRun
  /\ InDefer("job") => rtJob.st # "foreign"
  /\ \A r \in 1..MaxRuns :
       /\ rtProc[r] = "pending" => Holder = "job"
       /\ rtProc[r] = "dying" => Holder = "task"
       /\ rtProc[r] \in {"pending", "running"} /\ Holder = "job" => rtJob.run = r

\* The container with its logs is kept after a failure under containerd.
KeptAfterError(kind) ==
  Containerd /\ rtPc \in {"unwind", "returned"} /\ rtErr # "ok" /\ kind \in {"container", "logs"}

\* What the call acquired is left, or will be released.
Covered ==
  rtPc \notin Outside =>
    \A what \in rtHost : what[2] = rtRun =>
      \/ what \in rtLeft
      \/ InDefer(what[1])
      \/ what[1] = "logfile" /\ (InDefer("task") \/ rtPc = "task")
      \/ what[1] = "logs" /\ rtPc = "logfile"
      \/ KeptAfterError(what[1])

\* The process of the call ends, or its clean-up failed.
ProcCovered ==
  rtPc \notin Outside =>
    /\ rtProc[rtRun] \in {"pending", "running", "dying"} => InDefer(Holder) \/ Mine(Holder) \in rtLeft
    /\ Docker /\ rtPc = "start" => InDefer("container")
    /\ Containerd /\ rtPc \in {"net", "wait", "start"} => InDefer("task")

RtInv == RtTyped /\ JobsOK /\ Covered /\ ProcCovered

\* What two sequences hold, one behind the other.
LEMMA HasJoined ==
  ASSUME NEW d \in Seq(Kinds), NEW q \in Seq(Kinds)
  PROVE  d \o q \in Seq(Kinds) /\ \A k : Has(d \o q, k) <=> Has(d, k) \/ Has(q, k)
<1>1. /\ d \o q \in Seq(Kinds) /\ Len(d \o q) = Len(d) + Len(q)
      /\ \A i \in 1..Len(d) : i \in DOMAIN (d \o q) /\ (d \o q)[i] = d[i]
      /\ \A i \in 1..Len(q) : Len(d) + i \in DOMAIN (d \o q) /\ (d \o q)[Len(d) + i] = q[i]
  OBVIOUS
<1>2. \A i \in DOMAIN (d \o q) :
        (i \in 1..Len(d) /\ (d \o q)[i] = d[i])
        \/ (i - Len(d) \in 1..Len(q) /\ (d \o q)[i] = q[i - Len(d)])
  OBVIOUS
<1>3. DOMAIN d = 1..Len(d) /\ DOMAIN q = 1..Len(q)
  OBVIOUS
<1>4. ASSUME NEW k PROVE Has(d \o q, k) <=> Has(d, k) \/ Has(q, k)
  <2>1. Has(d \o q, k) => Has(d, k) \/ Has(q, k)
    BY <1>2, <1>3 DEF Has
  <2>2. Has(d, k) => Has(d \o q, k)
    BY <1>1, <1>3 DEF Has
  <2>3. Has(q, k) => Has(d \o q, k)
    BY <1>1, <1>3 DEF Has
  <2>4. QED
    BY <2>1, <2>2, <2>3
<1>5. QED
  BY <1>1, <1>4

\* What a sequence holds besides its first element.
LEMMA HasRest ==
  ASSUME NEW q \in Seq(Kinds), q # <<>>
  PROVE  /\ Tail(q) \in Seq(Kinds) /\ Has(q, Head(q)) /\ Head(q) \in Kinds
         /\ \A k : (Has(Tail(q), k) => Has(q, k))
                   /\ (Has(q, k) /\ k # Head(q) => Has(Tail(q), k))
<1>1. /\ Tail(q) \in Seq(Kinds) /\ 1 \in DOMAIN q /\ Head(q) = q[1] /\ Head(q) \in Kinds
      /\ \A i \in DOMAIN Tail(q) : i + 1 \in DOMAIN q /\ Tail(q)[i] = q[i + 1]
      /\ \A i \in DOMAIN q : i # 1 => i - 1 \in DOMAIN Tail(q) /\ Tail(q)[i - 1] = q[i]
  OBVIOUS
<1> DEFINE rest == Tail(q)
<1> HIDE DEF rest
<1>2. /\ \A i \in DOMAIN rest : i + 1 \in DOMAIN q /\ rest[i] = q[i + 1]
      /\ \A i \in DOMAIN q : i # 1 => i - 1 \in DOMAIN rest /\ rest[i - 1] = q[i]
  BY <1>1 DEF rest
<1>3. ASSUME NEW k PROVE Has(rest, k) => Has(q, k)
  BY <1>2, Zenon DEF Has
<1>4. ASSUME NEW k, k # Head(q), Has(q, k) PROVE Has(rest, k)
  <2>1. PICK i \in DOMAIN q : q[i] = k
    BY <1>4 DEF Has
  <2>2. i # 1
    BY <1>1, <1>4, <2>1
  <2>3. QED
    BY <1>2, <2>1, <2>2 DEF Has
<1>5. Has(q, Head(q))
  BY <1>1 DEF Has
<1>6. QED
  BY <1>1, <1>3, <1>4, <1>5 DEF rest

\* A sequence of none or one holds that one.
LEMMA HasOne ==
  /\ <<>> \in Seq(Kinds) /\ \A k : ~Has(<<>>, k)
  /\ \A e \in Kinds : <<e>> \in Seq(Kinds) /\ \A k : Has(<<e>>, k) <=> k = e
<1>1. <<>> \in Seq(Kinds) /\ \A k : ~Has(<<>>, k)
  BY DEF Has
<1>2. ASSUME NEW e \in Kinds
      PROVE  <<e>> \in Seq(Kinds) /\ \A k : Has(<<e>>, k) <=> k = e
  BY DEF Has
<1>3. QED
  BY <1>1, <1>2

\* The invariant holds at first.
LEMMA RtInitInv == RtInit => RtInv
<1> SUFFICES ASSUME RtInit PROVE RtInv
  OBVIOUS
<1>0. /\ rtAct \in RtActions
      /\ rtPc = "announced" /\ rtTry = 0 /\ rtRun = 0 /\ rtCtx = "live"
      /\ rtDefer = <<>> /\ rtErr = "none" /\ rtState = "none" /\ rtFaults = 0
      /\ rtHost = {} /\ rtProc = [r \in 1..MaxRuns |-> "none"]
      /\ rtJob \in {[run |-> 0, st |-> "foreign"], [run |-> 0, st |-> "absent"]}
      /\ rtLeft = {}
  BY DEF RtInit
<1>1. RtTyped
  <2>1. 0 \in 0..MaxRuns /\ 0 \in 0..MaxRtFaults /\ 0 <= 0
    BY RtAssumption
  <2>2. rtJob \in [run : 0..MaxRuns, st : {"absent", "active", "deleting", "foreign"}]
    BY <1>0, <2>1
  <2>3. rtProc \in [1..MaxRuns -> {"none", "pending", "running", "dying", "zero",
                                   "nonzero", "podFailed"}]
    BY <1>0
  <2>4. RtTypeOK
    BY <1>0, <2>1, <2>2, <2>3, HasOne DEF RtTypeOK
  <2>5. QED
    BY <1>0, <2>1, <2>4 DEF RtTyped, Outside
<1>2. JobsOK
  BY <1>0, HasOne DEF JobsOK, InDefer
<1>3. Covered /\ ProcCovered
  BY <1>0 DEF Covered, ProcCovered, Outside
<1>4. QED
  BY <1>1, <1>2, <1>3 DEF RtInv

\* A step inside Execute that acquires the kinds and defers d, and may start
\* the process.
LEMMA AcquireStep ==
  ASSUME RtInv, NEW to, NEW kinds \in SUBSET Kinds, NEW d \in Seq(Kinds),
         rtPc \notin Outside \cup {"returned", "unwind"},
         to \notin Outside \cup {"returned", "unwind"},
         rtPc' = to, rtDefer' = d \o rtDefer,
         rtHost' = rtHost \cup {Mine(k) : k \in kinds},
         UNCHANGED <<runVars, rtErr, rtJob, rtLeft>>, rtFaults' \in 0..MaxRtFaults,
         "job" \notin kinds, Has(d, "job") => rtJob.st # "foreign",
         \A k \in kinds : \/ Has(d, k)
                          \/ k = "logfile" /\ to = "task"
                          \/ k = "logs" /\ to = "logfile",
         rtPc = "logfile" => Has(d, "logs"),
         rtPc = "task" => Has(d, "task"),
         Docker /\ to = "start" => Has(d, "container"),
         Containerd /\ to \in {"net", "wait", "start"} =>
           Has(d, "task") \/ rtPc \in {"net", "wait", "start"},
         \/ rtProc' = rtProc
         \/ rtProc' = [rtProc EXCEPT ![rtRun] = "running"] /\ InDefer(Holder) /\ Holder # "job"
  PROVE  RtInv'
<1>0. /\ rtAct' = rtAct /\ rtTry' = rtTry /\ rtRun' = rtRun /\ rtCtx' = rtCtx
      /\ rtState' = rtState /\ rtErr' = rtErr /\ rtJob' = rtJob /\ rtLeft' = rtLeft
  BY DEF runVars
<1>1. RtTypeOK /\ RtTyped /\ JobsOK /\ Covered /\ ProcCovered
  BY DEF RtInv, RtTyped
<1>2. Holder' = Holder /\ (Docker' <=> Docker) /\ (Containerd' <=> Containerd)
  BY <1>0 DEF Holder, Docker, Containerd
<1>3. rtDefer \in Seq(Kinds) /\ rtRun \in 1..MaxRuns /\ rtRun \in Nat
  BY <1>1, RtAssumption DEF RtTypeOK, RtTyped
<1>4. rtDefer' \in Seq(Kinds) /\ \A k : InDefer(k)' <=> Has(d, k) \/ InDefer(k)
  BY <1>3, HasJoined DEF InDefer
<1>5. \A what \in rtHost' : what \in rtHost \/ \E k \in kinds : what = <<k, rtRun>>
  BY DEF Mine
<1>6. rtHost' \subseteq Kinds \X (1..MaxRuns)
  BY <1>1, <1>3, <1>5 DEF RtTypeOK
<1>7. /\ rtProc' \in [1..MaxRuns -> {"none", "pending", "running", "dying", "zero",
                                     "nonzero", "podFailed"}]
      /\ \A r \in 1..MaxRuns : \/ rtProc'[r] = rtProc[r]
                               \/ /\ r = rtRun /\ rtProc'[r] = "running"
                                  /\ InDefer(Holder) /\ Holder # "job"
  BY <1>1, <1>3 DEF RtTypeOK
<1>8. RtTypeOK'
  BY <1>0, <1>1, <1>4, <1>6, <1>7 DEF RtTypeOK
<1>9. RtTyped'
  <2>1. \A what \in rtHost' : what[2] <= rtRun' /\ what[1] # "job"
    BY <1>0, <1>1, <1>3, <1>5 DEF RtTyped
  <2>2. \A r \in 1..MaxRuns : rtRun' < r => rtProc'[r] = "none"
    BY <1>0, <1>1, <1>3, <1>7 DEF RtTyped
  <2>3. QED
    BY <1>0, <1>1, <1>8, <2>1, <2>2 DEF RtTyped, Outside
<1>10. JobsOK'
  <2>1. \A r \in 1..MaxRuns : /\ rtProc'[r] = "pending" => Holder' = "job"
                              /\ rtProc'[r] = "dying" => Holder' = "task"
    BY <1>1, <1>2, <1>7 DEF JobsOK
  <2>2. \A r \in 1..MaxRuns :
          rtProc'[r] \in {"pending", "running"} /\ Holder' = "job" => rtJob'.run = r
    BY <1>0, <1>1, <1>2, <1>7 DEF JobsOK
  <2>3. InDefer("job")' => rtJob'.st # "foreign"
    BY <1>0, <1>1, <1>4 DEF JobsOK
  <2>4. QED
    BY <1>0, <1>1, <2>1, <2>2, <2>3 DEF JobsOK
<1>11. Covered'
  <2> SUFFICES ASSUME NEW what \in rtHost', what[2] = rtRun
              PROVE  \/ what \in rtLeft
                     \/ InDefer(what[1])'
                     \/ what[1] = "logfile" /\ (InDefer("task")' \/ to = "task")
                     \/ what[1] = "logs" /\ to = "logfile"
    BY <1>0 DEF Covered
  <2>1. CASE what \in rtHost
    <3>1. ~KeptAfterError(what[1])
      BY DEF KeptAfterError
    <3>2. \/ what \in rtLeft
          \/ InDefer(what[1])
          \/ what[1] = "logfile" /\ (InDefer("task") \/ rtPc = "task")
          \/ what[1] = "logs" /\ rtPc = "logfile"
      BY <1>1, <2>1, <3>1 DEF Covered
    <3>3. QED
      BY <1>4, <3>2
  <2>2. CASE \E k \in kinds : what = <<k, rtRun>>
    BY <1>4, <2>2
  <2>3. QED
    BY <1>5, <2>1, <2>2
<1>12. ProcCovered'
  <2>1. rtPc \notin Outside
    OBVIOUS
  <2>2. (rtProc[rtRun] \in {"pending", "running", "dying"})' =>
           InDefer(Holder)' \/ Mine(Holder)' \in rtLeft'
    BY <1>0, <1>1, <1>2, <1>3, <1>4, <1>7, <2>1 DEF ProcCovered, Mine
  <2>3. Docker' /\ rtPc' = "start" => InDefer("container")'
    BY <1>2, <1>4
  <2>4. Containerd' /\ rtPc' \in {"net", "wait", "start"} => InDefer("task")'
    BY <1>1, <1>2, <1>4, <2>1 DEF ProcCovered
  <2>5. QED
    BY <2>2, <2>3, <2>4 DEF ProcCovered
<1>13. QED
  BY <1>9, <1>10, <1>11, <1>12 DEF RtInv

\* A step inside Execute after which its deferred calls run.
LEMMA ReturnStep ==
  ASSUME RtInv,
         rtPc \notin Outside \cup {"returned", "unwind"},
         rtPc' = "unwind", rtErr' \in {"none", "ok", "fail", "timeout"},
         UNCHANGED <<runVars, rtDefer, rtJob, rtLeft>>, rtFaults' \in 0..MaxRtFaults,
         rtHost' = rtHost \/ rtHost' = rtHost \ {Mine("logfile")},
         rtPc = "task" => rtHost' = rtHost \ {Mine("logfile")},
         rtPc = "logfile" => Containerd /\ rtErr' # "ok",
         \/ rtProc' = rtProc
         \/ rtProc' = [rtProc EXCEPT ![rtRun] = "nonzero"]
         \/ rtProc' = [rtProc EXCEPT ![rtRun] = "dying"] /\ Containerd /\ rtProc[rtRun] = "running"
  PROVE  RtInv'
<1>0. /\ rtAct' = rtAct /\ rtTry' = rtTry /\ rtRun' = rtRun /\ rtCtx' = rtCtx
      /\ rtState' = rtState /\ rtDefer' = rtDefer /\ rtJob' = rtJob /\ rtLeft' = rtLeft
      /\ rtHost' \subseteq rtHost
  BY DEF runVars
<1>1. RtTypeOK /\ RtTyped /\ JobsOK /\ Covered /\ ProcCovered
  BY DEF RtInv, RtTyped
<1>2. Holder' = Holder /\ (Docker' <=> Docker) /\ (Containerd' <=> Containerd)
      /\ \A k : InDefer(k)' <=> InDefer(k)
  BY <1>0 DEF Holder, Docker, Containerd, InDefer
<1>3. rtRun \in 1..MaxRuns /\ rtRun \in Nat
  BY <1>1, RtAssumption DEF RtTypeOK, RtTyped
<1>4. Containerd => Holder = "task"
  BY DEF Holder, Docker, Containerd
<1>7. /\ rtProc' \in [1..MaxRuns -> {"none", "pending", "running", "dying", "zero",
                                     "nonzero", "podFailed"}]
      /\ \A r \in 1..MaxRuns :
           \/ rtProc'[r] = rtProc[r]
           \/ r = rtRun /\ rtProc'[r] = "nonzero"
           \/ r = rtRun /\ rtProc'[r] = "dying" /\ Holder = "task" /\ rtProc[r] = "running"
  BY <1>1, <1>3, <1>4 DEF RtTypeOK
<1>8. RtTypeOK'
  BY <1>0, <1>1, <1>7 DEF RtTypeOK
<1>9. RtTyped'
  <2>1. \A what \in rtHost' : what[2] <= rtRun' /\ what[1] # "job"
    BY <1>0, <1>1 DEF RtTyped
  <2>2. \A r \in 1..MaxRuns : rtRun' < r => rtProc'[r] = "none"
    BY <1>0, <1>1, <1>3, <1>7 DEF RtTyped
  <2>3. QED
    BY <1>0, <1>1, <1>8, <2>1, <2>2 DEF RtTyped, Outside
<1>10. JobsOK'
  <2>1. \A r \in 1..MaxRuns : /\ rtProc'[r] = "pending" => Holder' = "job"
                              /\ rtProc'[r] = "dying" => Holder' = "task"
    BY <1>1, <1>2, <1>7 DEF JobsOK
  <2>2. \A r \in 1..MaxRuns :
          rtProc'[r] \in {"pending", "running"} /\ Holder' = "job" => rtJob'.run = r
    BY <1>0, <1>1, <1>2, <1>7 DEF JobsOK
  <2>3. QED
    BY <1>0, <1>1, <1>2, <2>1, <2>2 DEF JobsOK
<1>11. Covered'
  <2> SUFFICES ASSUME NEW what \in rtHost', what[2] = rtRun
              PROVE  \/ what \in rtLeft
                     \/ InDefer(what[1])'
                     \/ what[1] = "logfile" /\ InDefer("task")'
                     \/ KeptAfterError(what[1])'
    BY <1>0 DEF Covered
  <2>1. ~KeptAfterError(what[1])
    BY DEF KeptAfterError
  <2>2. \/ what \in rtLeft
        \/ InDefer(what[1])
        \/ what[1] = "logfile" /\ (InDefer("task") \/ rtPc = "task")
        \/ what[1] = "logs" /\ rtPc = "logfile"
    BY <1>0, <1>1, <2>1 DEF Covered
  <2>3. ~(what[1] = "logfile" /\ rtPc = "task")
    <3>1. what \in Kinds \X (1..MaxRuns)
      BY <1>0, <1>1 DEF RtTypeOK
    <3>2. what = <<what[1], what[2]>>
      BY <3>1
    <3>3. QED
      BY <3>2 DEF Mine
  <2>4. what[1] = "logs" /\ rtPc = "logfile" => KeptAfterError(what[1])'
    BY <1>2 DEF KeptAfterError
  <2>5. QED
    BY <1>2, <2>2, <2>3, <2>4
<1>12. ProcCovered'
  <2>1. (rtProc[rtRun] \in {"pending", "running", "dying"})' =>
           InDefer(Holder)' \/ Mine(Holder)' \in rtLeft'
    BY <1>0, <1>1, <1>2, <1>3, <1>7 DEF ProcCovered, Mine
  <2>2. QED
    BY <2>1 DEF ProcCovered
<1>13. QED
  BY <1>9, <1>10, <1>11, <1>12 DEF RtInv

\* A step of the processes or of the cluster: what had not ended may end, a
\* Pod that was to start may run, and a Job that is deleted frees its name.
LEMMA EnvironmentStep ==
  ASSUME RtInv,
         UNCHANGED <<rtAct, rtPc, rtTry, rtRun, rtDefer, rtErr, rtState, rtHost, rtLeft, rtFaults>>,
         rtCtx' \in {"live", "expired"},
         rtProc' \in [1..MaxRuns -> {"none", "pending", "running", "dying", "zero",
                                     "nonzero", "podFailed"}],
         \A r \in 1..MaxRuns :
           \/ rtProc'[r] = rtProc[r]
           \/ rtProc[r] # "none" /\ rtProc'[r] \in {"zero", "nonzero", "podFailed"}
           \/ rtProc[r] = "pending" /\ rtProc'[r] = "running",
         \/ rtJob' = rtJob
         \/ /\ rtJob' = NoJobYet /\ rtJob.st = "deleting" /\ rtProc' = rtProc
            /\ rtProc[rtJob.run] \notin {"pending", "running"}
  PROVE  RtInv'
<1>1. RtTypeOK /\ RtTyped /\ JobsOK /\ Covered /\ ProcCovered
  BY DEF RtInv, RtTyped
<1>2. Holder' = Holder /\ (Docker' <=> Docker) /\ (Containerd' <=> Containerd)
      /\ \A k : InDefer(k)' <=> InDefer(k)
  BY DEF Holder, Docker, Containerd, InDefer
<1>3. rtJob' \in [run : 0..MaxRuns, st : {"absent", "active", "deleting", "foreign"}]
  BY <1>1, RtAssumption DEF RtTypeOK, NoJobYet
<1>4. RtTyped'
  <2>1. RtTypeOK'
    BY <1>1, <1>3 DEF RtTypeOK
  <2>2. QED
    BY <1>1, <2>1 DEF RtTyped
<1>5. JobsOK'
  <2>1. (rtJob.st \in {"absent", "foreign"} => rtJob.run = 0)'
        /\ (rtJob.st \in {"active", "deleting"} => rtJob.run \in 1..rtRun)'
        /\ (InDefer("job") => rtJob.st # "foreign")'
    BY <1>1, <1>2 DEF JobsOK, NoJobYet
  <2>2. \A r \in 1..MaxRuns : /\ rtProc'[r] = "pending" => Holder' = "job"
                              /\ rtProc'[r] = "dying" => Holder' = "task"
    BY <1>1, <1>2 DEF JobsOK
  <2>3. \A r \in 1..MaxRuns :
          rtProc'[r] \in {"pending", "running"} /\ Holder' = "job" => rtJob'.run = r
    <3>1. CASE rtJob' = rtJob
      BY <1>1, <1>2, <3>1 DEF JobsOK
    <3>2. CASE rtJob' # rtJob
      BY <1>1, <1>2, <3>2 DEF JobsOK
    <3>3. QED
      BY <3>1, <3>2
  <2>4. QED
    BY <2>1, <2>2, <2>3 DEF JobsOK
<1>6. Covered'
  BY <1>1, <1>2 DEF Covered, KeptAfterError
<1>7. ProcCovered'
  <2>1. rtPc \notin Outside => rtRun \in 1..MaxRuns
    BY <1>1, RtAssumption DEF RtTypeOK, RtTyped
  <2>2. rtPc' \notin Outside /\ (rtProc[rtRun] \in {"pending", "running", "dying"})' =>
           InDefer(Holder)' \/ Mine(Holder)' \in rtLeft'
    BY <1>1, <1>2, <2>1 DEF ProcCovered, Mine
  <2>3. QED
    BY <1>1, <1>2, <2>2 DEF ProcCovered
<1>8. QED
  BY <1>4, <1>5, <1>6, <1>7 DEF RtInv

\* The next deferred call: what it was for is released, recorded as left or
\* kept after a failure, and the process it ends is over or its call failed.
LEMMA PopStep ==
  ASSUME RtInv, NEW kind, rtPc = "unwind", rtDefer # <<>>, Head(rtDefer) = kind,
         rtDefer' = Tail(rtDefer), UNCHANGED <<runVars, rtPc, rtErr, rtJob>>,
         rtFaults' \in 0..MaxRtFaults,
         rtLeft \subseteq rtLeft', rtLeft' \subseteq Kinds \X (1..MaxRuns),
         rtHost' \subseteq rtHost,
         Mine(kind) \in rtHost' => Mine(kind) \in rtLeft' \/ KeptAfterError(kind),
         kind = "task" => Mine("logfile") \notin rtHost',
         rtProc' = rtProc \/ rtProc' = [rtProc EXCEPT ![rtRun] = "nonzero"],
         kind = Holder /\ rtProc'[rtRun] \in {"pending", "running", "dying"} =>
           Mine(kind) \in rtLeft'
  PROVE  RtInv'
<1>0. /\ rtAct' = rtAct /\ rtTry' = rtTry /\ rtRun' = rtRun /\ rtCtx' = rtCtx
      /\ rtState' = rtState /\ rtJob' = rtJob /\ rtPc' = rtPc /\ rtErr' = rtErr
  BY DEF runVars
<1>1. RtTypeOK /\ RtTyped /\ JobsOK /\ Covered /\ ProcCovered
  BY DEF RtInv, RtTyped
<1>2. Holder' = Holder /\ (Docker' <=> Docker) /\ (Containerd' <=> Containerd)
      /\ \A k : KeptAfterError(k)' <=> KeptAfterError(k)
  BY <1>0 DEF Holder, Docker, Containerd, KeptAfterError
<1>3. rtRun \in 1..MaxRuns /\ rtRun \in Nat /\ rtDefer \in Seq(Kinds)
  BY <1>1, RtAssumption DEF RtTypeOK, RtTyped, Outside
<1>4. rtDefer' \in Seq(Kinds)
      /\ \A k : (InDefer(k)' => InDefer(k)) /\ (InDefer(k) /\ k # kind => InDefer(k)')
  <2>1. /\ Tail(rtDefer) \in Seq(Kinds)
        /\ \A k : (Has(Tail(rtDefer), k) => Has(rtDefer, k))
                  /\ (Has(rtDefer, k) /\ k # kind => Has(Tail(rtDefer), k))
    BY <1>3, HasRest
  <2>2. QED
    BY <2>1 DEF InDefer
<1>5. /\ rtProc' \in [1..MaxRuns -> {"none", "pending", "running", "dying", "zero",
                                     "nonzero", "podFailed"}]
      /\ \A r \in 1..MaxRuns : rtProc'[r] = rtProc[r] \/ (r = rtRun /\ rtProc'[r] = "nonzero")
  <2>1. rtProc \in [1..MaxRuns -> {"none", "pending", "running", "dying", "zero",
                                   "nonzero", "podFailed"}]
    BY <1>1 DEF RtTypeOK
  <2>2. CASE rtProc' = rtProc
    BY <2>1, <2>2
  <2>3. CASE rtProc' = [rtProc EXCEPT ![rtRun] = "nonzero"]
    BY <1>3, <2>1, <2>3
  <2>4. QED
    BY <2>2, <2>3
<1>6. RtTyped'
  <2>1. RtTypeOK'
    BY <1>0, <1>1, <1>4, <1>5 DEF RtTypeOK
  <2>2. \A r \in 1..MaxRuns : rtRun' < r => rtProc'[r] = "none"
    BY <1>0, <1>1, <1>3, <1>5 DEF RtTyped
  <2>3. \A what \in rtHost' : what[2] <= rtRun' /\ what[1] # "job"
    BY <1>0, <1>1 DEF RtTyped
  <2>4. QED
    BY <1>0, <1>1, <2>1, <2>2, <2>3 DEF RtTyped, Outside
<1>7. JobsOK'
  <2>1. \A r \in 1..MaxRuns : /\ rtProc'[r] = "pending" => Holder' = "job"
                              /\ rtProc'[r] = "dying" => Holder' = "task"
    BY <1>1, <1>2, <1>5 DEF JobsOK
  <2>2. \A r \in 1..MaxRuns :
          rtProc'[r] \in {"pending", "running"} /\ Holder' = "job" => rtJob'.run = r
    BY <1>0, <1>1, <1>2, <1>5 DEF JobsOK
  <2>3. QED
    BY <1>0, <1>1, <1>4, <2>1, <2>2 DEF JobsOK
<1>8. Covered'
  <2> SUFFICES ASSUME NEW what \in rtHost', what[2] = rtRun
              PROVE  \/ what \in rtLeft'
                     \/ InDefer(what[1])'
                     \/ what[1] = "logfile" /\ InDefer("task")'
                     \/ KeptAfterError(what[1])'
    BY <1>0 DEF Covered
  <2>1. what = Mine(what[1])
    <3>1. what \in Kinds \X (1..MaxRuns)
      BY <1>1 DEF RtTypeOK
    <3>2. QED
      BY <3>1 DEF Mine
  <2>2. \/ what \in rtLeft
        \/ InDefer(what[1])
        \/ what[1] = "logfile" /\ InDefer("task")
        \/ KeptAfterError(what[1])
    BY <1>1 DEF Covered, Outside
  <2>3. CASE what[1] = kind
    BY <1>2, <2>1, <2>3
  <2>4. CASE what[1] # kind /\ what[1] = "logfile" /\ InDefer("task")
    BY <1>4, <2>1, <2>4
  <2>5. QED
    BY <1>2, <1>4, <2>2, <2>3, <2>4
<1>9. ProcCovered'
  <2>1. (rtProc[rtRun] \in {"pending", "running", "dying"})' =>
           InDefer(Holder)' \/ Mine(Holder)' \in rtLeft'
    <3>1. ASSUME rtProc'[rtRun] \in {"pending", "running", "dying"}
          PROVE  InDefer(Holder)' \/ <<Holder, rtRun>> \in rtLeft'
      <4>1. rtProc[rtRun] \in {"pending", "running", "dying"}
        BY <1>3, <1>5, <3>1
      <4>2. InDefer(Holder) \/ <<Holder, rtRun>> \in rtLeft
        BY <1>1, <4>1 DEF ProcCovered, Outside, Mine
      <4>3. QED
        BY <1>2, <1>4, <3>1, <4>2 DEF Mine
    <3>2. QED
      BY <1>0, <1>2, <3>1 DEF Mine
  <2>2. QED
    BY <1>0, <2>1 DEF ProcCovered
<1>10. QED
  BY <1>6, <1>7, <1>8, <1>9 DEF RtInv

\* Failing calls stay within their bound.
LEMMA FaultsBounded ==
  ASSUME RtInv, Fails \/ Works
  PROVE  rtFaults' \in 0..MaxRtFaults
<1>1. rtFaults \in 0..MaxRtFaults
  BY DEF RtInv, RtTyped, RtTypeOK
<1>2. QED
  BY <1>1, RtAssumption DEF Fails, Works

\* A runtime has one holder of the process.
LEMMA HolderOf ==
  /\ Docker => Holder = "container" /\ ~Containerd /\ ~Kubernetes
  /\ Containerd => Holder = "task" /\ ~Docker /\ ~Kubernetes
  /\ Kubernetes => Holder = "job" /\ ~Docker /\ ~Containerd
BY DEF Docker, Containerd, Kubernetes, Holder

\* What a step between two places of Execute acquires is released by what it
\* defers, or is one of the two kinds the next step takes care of.
Deferring(from, to, kinds, d) ==
  /\ kinds \in SUBSET Kinds /\ "job" \notin kinds /\ d \in Seq(Kinds)
  /\ from \notin Outside \cup {"returned", "unwind"}
  /\ to \notin Outside \cup {"returned", "unwind"}
  /\ ~Has(d, "job")
  /\ \A k \in kinds : \/ Has(d, k)
                      \/ k = "logfile" /\ to = "task"
                      \/ k = "logs" /\ to = "logfile"
  /\ from = "logfile" => Has(d, "logs")
  /\ from = "task" => Has(d, "task")
  /\ Docker /\ to = "start" => Has(d, "container")
  /\ Containerd /\ to \in {"net", "wait", "start"} =>
       Has(d, "task") \/ from \in {"net", "wait", "start"}

\* A call that acquires something keeps the invariant.
LEMMA AcquireKeeps ==
  ASSUME RtInv, NEW from, NEW to, NEW kinds, NEW d,
         Acquire(from, to, kinds, d) \/ FileStep(from, to, kinds, d),
         Deferring(from, to, kinds, d),
         \/ rtProc' = rtProc
         \/ rtProc' = [rtProc EXCEPT ![rtRun] = "running"] /\ InDefer(Holder) /\ Holder # "job"
  PROVE  RtInv'
<1>1. /\ rtPc = from /\ rtPc' = to /\ rtDefer' = d \o rtDefer /\ Works
      /\ rtHost' = rtHost \cup {Mine(k) : k \in kinds}
      /\ UNCHANGED <<runVars, rtErr, rtJob, rtLeft>>
  BY DEF Acquire, FileStep
<1>2. rtFaults' \in 0..MaxRtFaults
  BY <1>1, FaultsBounded
<1>3. /\ kinds \in SUBSET Kinds /\ "job" \notin kinds /\ d \in Seq(Kinds)
      /\ rtPc \notin Outside \cup {"returned", "unwind"}
      /\ to \notin Outside \cup {"returned", "unwind"}
      /\ ~Has(d, "job")
      /\ \A k \in kinds : \/ Has(d, k)
                          \/ k = "logfile" /\ to = "task"
                          \/ k = "logs" /\ to = "logfile"
      /\ rtPc = "logfile" => Has(d, "logs")
      /\ rtPc = "task" => Has(d, "task")
      /\ Docker /\ to = "start" => Has(d, "container")
      /\ Containerd /\ to \in {"net", "wait", "start"} =>
           Has(d, "task") \/ rtPc \in {"net", "wait", "start"}
  BY <1>1 DEF Deferring
<1>4. QED
  BY <1>1, <1>2, <1>3, AcquireStep

\* A failing call, on local files or not, ends the call of Execute.
LEMMA ErrorKeeps ==
  ASSUME RtInv, NEW at, CallError(at) \/ FileError(at),
         at \notin Outside \cup {"returned", "unwind", "task"},
         at = "logfile" => Containerd
  PROVE  RtInv'
<1>1. /\ rtPc = at /\ rtPc' = "unwind" /\ rtErr' \in {"fail", "timeout"} /\ (Fails \/ Works)
      /\ UNCHANGED <<runVars, rtDefer, rtJob, rtLeft, rtHost, rtProc>>
  BY DEF CallError, FileError, ReturnWith, CtxError, hostVars
<1>2. rtFaults' \in 0..MaxRtFaults
  BY <1>1, FaultsBounded
<1>3. QED
  BY <1>1, <1>2, ReturnStep

\* The calls of the docker runtime.
LEMMA DockerSteps ==
  ASSUME RtInv,
         \/ dockerPull \/ dockerCreate \/ dockerConflict \/ dockerStart
         \/ dockerAttach \/ dockerCallError \/ dockerSelect
  PROVE  RtInv'
<1>0. ProcCovered
  BY DEF RtInv
<1>1. CASE dockerPull
  <2>1. Docker /\ Acquire("image", "create", {}, <<>>) /\ rtProc' = rtProc
    BY <1>1 DEF dockerPull, Keep
  <2>2. Deferring("image", "create", {}, <<>>)
    BY <2>1, HasOne, HolderOf DEF Deferring, Outside
  <2>3. QED
    BY <2>1, <2>2, AcquireKeeps
<1>2. CASE dockerCreate
  <2>1. Docker /\ Acquire("create", "start", {"container"}, <<"container">>) /\ rtProc' = rtProc
    BY <1>2 DEF dockerCreate, Keep
  <2>2. Deferring("create", "start", {"container"}, <<"container">>)
    BY <2>1, HasOne, HolderOf DEF Deferring, Outside, Kinds
  <2>3. QED
    BY <2>1, <2>2, AcquireKeeps
<1>3. CASE dockerConflict
  <2>1. /\ Docker /\ rtPc = "create" /\ rtPc' = "unwind" /\ rtErr' = "fail"
        /\ UNCHANGED <<runVars, rtDefer, rtJob, rtLeft, rtHost, rtProc>> /\ Works
    BY <1>3 DEF dockerConflict, ReturnWith, hostVars, Works
  <2>2. QED
    BY <2>1, FaultsBounded, ReturnStep DEF Outside
<1>4. CASE dockerStart
  <2>1. /\ Docker /\ Acquire("start", "attach", {}, <<>>)
        /\ rtProc' = [rtProc EXCEPT ![rtRun] = "running"]
    BY <1>4 DEF dockerStart
  <2>2. Deferring("start", "attach", {}, <<>>)
    BY <2>1, HasOne, HolderOf DEF Deferring, Outside
  <2>3. InDefer(Holder) /\ Holder # "job"
    BY <1>0, <2>1, HolderOf DEF Acquire, ProcCovered, Outside
  <2>4. QED
    BY <2>1, <2>2, <2>3, AcquireKeeps
<1>5. CASE dockerAttach
  <2>1. Docker /\ Acquire("attach", "select", {"stream"}, <<"stream">>) /\ rtProc' = rtProc
    BY <1>5 DEF dockerAttach, Keep
  <2>2. Deferring("attach", "select", {"stream"}, <<"stream">>)
    BY <2>1, HasOne, HolderOf DEF Deferring, Outside, Kinds
  <2>3. QED
    BY <2>1, <2>2, AcquireKeeps
<1>6. CASE dockerCallError
  <2>1. PICK at \in {"image", "create", "start", "attach"} : CallError(at)
    BY <1>6 DEF dockerCallError
  <2>2. QED
    BY <2>1, ErrorKeeps DEF Outside
<1>7. CASE dockerSelect
  <2>1. /\ rtPc = "select" /\ rtPc' = "unwind" /\ rtErr' \in {"ok", "fail", "timeout"}
        /\ UNCHANGED <<runVars, rtDefer, rtJob, rtLeft, rtHost>> /\ (Fails \/ Works)
        /\ rtProc' = rtProc \/ rtProc' = [rtProc EXCEPT ![rtRun] = "nonzero"]
    BY <1>7 DEF dockerSelect, ReturnWith
  <2>2. QED
    BY <2>1, FaultsBounded, ReturnStep DEF Outside
<1>8. QED
  BY <1>1, <1>2, <1>3, <1>4, <1>5, <1>6, <1>7

\* The calls of the containerd runtime.
LEMMA ContainerdSteps ==
  ASSUME RtInv,
         \/ containerdPull \/ prepareDNSFiles \/ dataStoreDir \/ createContainer
         \/ writeLogConfig \/ newJSONLogPair \/ NewTask \/ NewTaskError
         \/ SetupNetwork \/ taskWait \/ taskStart \/ containerdCallError
         \/ containerdSelect
  PROVE  RtInv'
<1>0. ProcCovered
  BY DEF RtInv
<1>1. CASE containerdPull
  <2>1. Containerd /\ Acquire("image", "dns", {}, <<>>) /\ rtProc' = rtProc
    BY <1>1 DEF containerdPull, Keep
  <2>2. Deferring("image", "dns", {}, <<>>)
    BY <2>1, HasOne, HolderOf DEF Deferring, Outside
  <2>3. QED
    BY <2>1, <2>2, AcquireKeeps
<1>2. CASE prepareDNSFiles
  <2>1. Containerd /\ FileStep("dns", "store", {"dns"}, <<"dns">>) /\ rtProc' = rtProc
    BY <1>2 DEF prepareDNSFiles, FileStep
  <2>2. Deferring("dns", "store", {"dns"}, <<"dns">>)
    BY <2>1, HasOne, HolderOf DEF Deferring, Outside, Kinds
  <2>3. QED
    BY <2>1, <2>2, AcquireKeeps
<1>3. CASE dataStoreDir
  <2>1. Containerd /\ FileStep("store", "create", {}, <<>>) /\ rtProc' = rtProc
    BY <1>3 DEF dataStoreDir, FileStep
  <2>2. Deferring("store", "create", {}, <<>>)
    BY <2>1, HasOne, HolderOf DEF Deferring, Outside
  <2>3. QED
    BY <2>1, <2>2, AcquireKeeps
<1>4. CASE createContainer
  <2>1. Containerd /\ Acquire("create", "logs", {"container"}, <<"container">>) /\ rtProc' = rtProc
    BY <1>4 DEF createContainer
  <2>2. Deferring("create", "logs", {"container"}, <<"container">>)
    BY <2>1, HasOne, HolderOf DEF Deferring, Outside, Kinds
  <2>3. QED
    BY <2>1, <2>2, AcquireKeeps
<1>5. CASE writeLogConfig
  <2>1. Containerd /\ FileStep("logs", "logfile", {"logs"}, <<>>) /\ rtProc' = rtProc
    BY <1>5 DEF writeLogConfig, FileStep
  <2>2. Deferring("logs", "logfile", {"logs"}, <<>>)
    BY <2>1, HasOne, HolderOf DEF Deferring, Outside, Kinds
  <2>3. QED
    BY <2>1, <2>2, AcquireKeeps
<1>6. CASE newJSONLogPair
  <2>1. Containerd /\ FileStep("logfile", "task", {"logfile"}, <<"logs">>) /\ rtProc' = rtProc
    BY <1>6 DEF newJSONLogPair, FileStep
  <2>2. Deferring("logfile", "task", {"logfile"}, <<"logs">>)
    BY <2>1, HasOne, HolderOf DEF Deferring, Outside, Kinds
  <2>3. QED
    BY <2>1, <2>2, AcquireKeeps
<1>7. CASE NewTask
  <2>1. Containerd /\ Acquire("task", "net", {"task"}, <<"task">>) /\ rtProc' = rtProc
    BY <1>7 DEF NewTask, Keep
  <2>2. Deferring("task", "net", {"task"}, <<"task">>)
    BY <2>1, HasOne, HolderOf DEF Deferring, Outside, Kinds
  <2>3. QED
    BY <2>1, <2>2, AcquireKeeps
<1>8. CASE NewTaskError
  <2>1. /\ rtPc = "task" /\ rtPc' = "unwind" /\ rtErr' \in {"fail", "timeout"}
        /\ UNCHANGED <<runVars, rtDefer, rtJob, rtLeft, rtProc>> /\ (Fails \/ Works)
        /\ rtHost' = rtHost \ {Mine("logfile")}
    BY <1>8 DEF NewTaskError, ReturnWith, CtxError
  <2>2. QED
    BY <2>1, FaultsBounded, ReturnStep DEF Outside
<1>9. CASE SetupNetwork
  <2>1. /\ Containerd
        /\ FileStep("net", "wait", {"net"}, <<"net">>) \/ FileStep("net", "wait", {}, <<>>)
        /\ rtProc' = rtProc
    BY <1>9 DEF SetupNetwork, FileStep
  <2>2. Deferring("net", "wait", {"net"}, <<"net">>) /\ Deferring("net", "wait", {}, <<>>)
    BY <2>1, HasOne, HolderOf DEF Deferring, Outside, Kinds
  <2>3. QED
    BY <2>1, <2>2, AcquireKeeps
<1>10. CASE taskWait
  <2>1. Containerd /\ Acquire("wait", "start", {}, <<>>) /\ rtProc' = rtProc
    BY <1>10 DEF taskWait, Keep
  <2>2. Deferring("wait", "start", {}, <<>>)
    BY <2>1, HasOne, HolderOf DEF Deferring, Outside
  <2>3. QED
    BY <2>1, <2>2, AcquireKeeps
<1>11. CASE taskStart
  <2>1. /\ Containerd /\ Acquire("start", "select", {}, <<>>)
        /\ rtProc' = [rtProc EXCEPT ![rtRun] = "running"]
    BY <1>11 DEF taskStart
  <2>2. Deferring("start", "select", {}, <<>>)
    BY <2>1, HasOne, HolderOf DEF Deferring, Outside
  <2>3. InDefer(Holder) /\ Holder # "job"
    BY <1>0, <2>1, HolderOf DEF Acquire, ProcCovered, Outside
  <2>4. QED
    BY <2>1, <2>2, <2>3, AcquireKeeps
<1>12. CASE containerdCallError
  <2>1. Containerd
    BY <1>12 DEF containerdCallError
  <2>2. PICK at \in {"image", "create", "wait", "start", "dns", "store", "logs", "logfile"} :
          CallError(at) \/ FileError(at)
    BY <1>12 DEF containerdCallError
  <2>3. QED
    BY <2>1, <2>2, ErrorKeeps DEF Outside
<1>13. CASE containerdSelect
  <2>1. /\ Containerd /\ rtPc = "select" /\ rtPc' = "unwind"
        /\ rtErr' \in {"ok", "fail", "timeout"}
        /\ UNCHANGED <<runVars, rtDefer, rtJob, rtLeft, rtHost>> /\ (Fails \/ Works)
        /\ \/ rtProc' = rtProc
           \/ rtProc' = [rtProc EXCEPT ![rtRun] = "dying"] /\ rtProc[rtRun] = "running"
    BY <1>13 DEF containerdSelect, ReturnWith
  <2>2. QED
    BY <2>1, FaultsBounded, ReturnStep DEF Outside
<1>14. QED
  BY <1>1, <1>2, <1>3, <1>4, <1>5, <1>6, <1>7, <1>8, <1>9, <1>10, <1>11, <1>12, <1>13

\* A Job is created: no Job held the name, so that no earlier Pod runs.
LEMMA CreateJobStep ==
  ASSUME RtInv, createJob
  PROVE  RtInv'
<1>0. /\ Kubernetes /\ rtPc = "create" /\ rtPc' = "list" /\ rtJob.st = "absent"
      /\ rtJob' = [run |-> rtRun, st |-> "active"]
      /\ rtProc' = [rtProc EXCEPT ![rtRun] = "pending"]
      /\ rtDefer' = <<"job">> \o rtDefer
      /\ rtAct' = rtAct /\ rtTry' = rtTry /\ rtRun' = rtRun /\ rtCtx' = rtCtx
      /\ rtState' = rtState /\ rtErr' = rtErr /\ rtHost' = rtHost /\ rtLeft' = rtLeft
      /\ rtFaults' = rtFaults
  BY DEF createJob, runVars
<1>1. RtTypeOK /\ RtTyped /\ JobsOK /\ Covered /\ ProcCovered
  BY DEF RtInv, RtTyped
<1>2. Holder' = "job" /\ Holder = "job" /\ ~Docker' /\ ~Containerd'
  BY <1>0, HolderOf DEF Holder, Docker, Containerd, Kubernetes
<1>3. rtDefer \in Seq(Kinds) /\ rtRun \in 1..MaxRuns /\ rtRun \in Nat
  BY <1>0, <1>1, RtAssumption DEF RtTypeOK, RtTyped, Outside
<1>4. rtDefer' \in Seq(Kinds) /\ \A k : InDefer(k)' <=> k = "job" \/ InDefer(k)
  <2>1. "job" \in Kinds
    BY DEF Kinds
  <2>2. QED
    BY <1>0, <1>3, <2>1, HasOne, HasJoined DEF InDefer
<1>5. /\ rtProc' \in [1..MaxRuns -> {"none", "pending", "running", "dying", "zero",
                                     "nonzero", "podFailed"}]
      /\ \A r \in 1..MaxRuns : r # rtRun => rtProc'[r] = rtProc[r]
      /\ rtProc'[rtRun] = "pending"
  BY <1>0, <1>1, <1>3 DEF RtTypeOK
<1>6. RtTyped'
  <2>1. rtJob' \in [run : 0..MaxRuns, st : {"absent", "active", "deleting", "foreign"}]
    BY <1>0, <1>3
  <2>2. RtTypeOK'
    BY <1>0, <1>1, <1>4, <1>5, <2>1 DEF RtTypeOK
  <2>3. \A r \in 1..MaxRuns : rtRun' < r => rtProc'[r] = "none"
    BY <1>0, <1>1, <1>3, <1>5 DEF RtTyped
  <2>4. QED
    BY <1>0, <1>1, <2>2, <2>3 DEF RtTyped, Outside
<1>7. JobsOK'
  <2>1. \A r \in 1..MaxRuns : r # rtRun => rtProc'[r] \notin {"pending", "running", "dying"}
    BY <1>0, <1>1, <1>2, <1>3, <1>5 DEF JobsOK
  <2>2. rtRun \in 1..rtRun
    BY <1>3
  <2>3. \A r \in 1..MaxRuns : /\ rtProc'[r] = "pending" => Holder' = "job"
                              /\ rtProc'[r] = "dying" => Holder' = "task"
    BY <1>2, <1>5, <2>1
  <2>4. \A r \in 1..MaxRuns :
          rtProc'[r] \in {"pending", "running"} /\ Holder' = "job" => rtJob'.run = r
    BY <1>0, <1>5, <2>1
  <2>5. QED
    BY <1>0, <2>2, <2>3, <2>4 DEF JobsOK
<1>8. Covered'
  <2> SUFFICES ASSUME NEW what \in rtHost, what[2] = rtRun
              PROVE  \/ what \in rtLeft
                     \/ InDefer(what[1])'
                     \/ what[1] = "logfile" /\ InDefer("task")'
    BY <1>0 DEF Covered
  <2>1. \/ what \in rtLeft
        \/ InDefer(what[1])
        \/ what[1] = "logfile" /\ InDefer("task")
    BY <1>0, <1>1 DEF Covered, Outside, KeptAfterError
  <2>2. QED
    BY <1>4, <2>1
<1>9. ProcCovered'
  BY <1>0, <1>2, <1>4 DEF ProcCovered
<1>10. QED
  BY <1>6, <1>7, <1>8, <1>9 DEF RtInv

\* A step of the Kubernetes runtime that acquires nothing on the host, and
\* may defer the deletion of the Job.
LEMMA ProgressStep ==
  ASSUME RtInv, NEW to, NEW d, Kubernetes,
         rtPc \in {"jobFor", "create", "list", "watch"},
         to \in {"create", "list", "watch"}, rtPc' = to,
         d \in {<<>>, <<"job">>}, d = <<"job">> => rtJob.st # "foreign",
         rtDefer' = d \o rtDefer,
         UNCHANGED <<runVars, rtErr, hostVars>>, Fails \/ Works
  PROVE  RtInv'
<1> DEFINE kinds == {}
<1>1. rtHost' = rtHost \cup {Mine(k) : k \in kinds} /\ kinds \in SUBSET Kinds
      /\ "job" \notin kinds /\ \A k \in kinds : Has(d, k)
  BY DEF hostVars
<1>2. d \in Seq(Kinds) /\ (Has(d, "job") => rtJob.st # "foreign")
  BY HasOne DEF Kinds
<1>3. /\ rtPc \notin Outside \cup {"returned", "unwind", "logfile", "task"}
      /\ to \notin Outside \cup {"returned", "unwind"}
      /\ ~Docker /\ ~Containerd
  BY HolderOf DEF Outside
<1>4. UNCHANGED <<runVars, rtErr, rtJob, rtLeft>> /\ rtProc' = rtProc
  BY DEF hostVars
<1>5. rtFaults' \in 0..MaxRtFaults
  BY FaultsBounded
<1> HIDE DEF kinds
<1>6. QED
  BY <1>1, <1>2, <1>3, <1>4, <1>5, AcquireStep

\* The calls of the kubernetes runtime.
LEMMA KubernetesSteps ==
  ASSUME RtInv,
         \/ jobFor \/ createJob \/ adoptExistingJob \/ kubernetesCallError
         \/ waitForPod \/ watchForTerminatedPod
  PROVE  RtInv'
<1>0. rtDefer \in Seq(Kinds) /\ <<>> \o rtDefer = rtDefer
  BY DEF RtInv, RtTyped, RtTypeOK
\* A step that goes on, and one that returns.
<1>1. ASSUME Kubernetes, rtPc \in {"jobFor", "create", "list", "watch"},
             rtPc' \in {"create", "list", "watch"}, rtDefer' = rtDefer,
             UNCHANGED <<runVars, rtErr, hostVars>>, Fails \/ Works
      PROVE  RtInv'
  <2>1. PICK to \in {"create", "list", "watch"} : rtPc' = to
    BY <1>1
  <2>2. PICK d : d = <<>>
    OBVIOUS
  <2>3. rtDefer' = d \o rtDefer
    BY <1>0, <1>1, <2>2
  <2>4. d # <<"job">>
    BY <2>2
  <2>5. QED
    BY <1>1, <2>1, <2>2, <2>3, <2>4, ProgressStep
<1>2. ASSUME rtPc \in {"jobFor", "create", "list", "watch"},
             rtPc' = "unwind", rtErr' \in {"ok", "fail", "timeout"},
             UNCHANGED <<runVars, rtDefer, hostVars>>, Fails \/ Works
      PROVE  RtInv'
  <2>1. /\ UNCHANGED <<runVars, rtDefer, rtJob, rtLeft>> /\ rtHost' = rtHost /\ rtProc' = rtProc
        /\ rtPc \notin Outside \cup {"returned", "unwind", "task", "logfile"}
    BY <1>2 DEF hostVars, Outside
  <2>2. rtFaults' \in 0..MaxRtFaults
    BY <1>2, FaultsBounded
  <2>3. QED
    BY <1>2, <2>1, <2>2, ReturnStep
<1>3. CASE jobFor
  BY <1>1, <1>2, <1>3 DEF jobFor, ReturnWith, Works
<1>4. CASE createJob
  BY <1>4, CreateJobStep
<1>5. CASE adoptExistingJob
  <2>1. CASE rtJob.st = "foreign"
    BY <1>2, <1>5, <2>1 DEF adoptExistingJob, ReturnWith, Works
  <2>2. CASE rtJob.st # "foreign"
    <3>1. PICK d : d = <<"job">>
      OBVIOUS
    <3>2. PICK to \in {"create", "list", "watch"} : rtPc' = to
      BY <1>5, <2>2 DEF adoptExistingJob
    <3>3. /\ Kubernetes /\ rtPc \in {"jobFor", "create", "list", "watch"}
          /\ rtDefer' = d \o rtDefer /\ UNCHANGED <<runVars, rtErr, hostVars>> /\ Works
      BY <1>5, <2>2, <3>1 DEF adoptExistingJob, Works
    <3>4. QED
      BY <2>2, <3>1, <3>2, <3>3, ProgressStep
  <2>3. QED
    BY <2>1, <2>2
<1>6. CASE kubernetesCallError
  <2>1. PICK at \in {"create", "list"} : CallError(at)
    BY <1>6 DEF kubernetesCallError
  <2>2. QED
    BY <2>1, ErrorKeeps DEF Outside
<1>7. CASE waitForPod
  BY <1>1, <1>2, <1>7 DEF waitForPod, ReturnWith, exitError, Works
<1>8. CASE watchForTerminatedPod
  BY <1>1, <1>2, <1>8 DEF watchForTerminatedPod, ReturnWith, exitError
<1>9. QED
  BY <1>3, <1>4, <1>5, <1>6, <1>7, <1>8

\* A call whose answer is lost: what a create made is recorded as left, and
\* the process of a start has its holder.
LEMMA LostStep ==
  ASSUME RtInv, AnswerLost
  PROVE  RtInv'
<1>0. /\ rtPc \in {"create", "task", "start"} /\ rtPc' = "unwind"
      /\ rtErr' \in {"fail", "timeout"} /\ rtCtx' \in {"live", "expired"}
      /\ rtAct' = rtAct /\ rtTry' = rtTry /\ rtRun' = rtRun /\ rtState' = rtState
      /\ rtDefer' = rtDefer /\ (Fails \/ Works)
  BY DEF AnswerLost, LostContainer, LostJob, LostTask, LostStart, ReturnWith
<1>1. RtTypeOK /\ RtTyped /\ JobsOK /\ Covered /\ ProcCovered /\ rtPc \notin Outside
  BY <1>0 DEF RtInv, RtTyped, Outside
<1>2. Holder' = Holder /\ (Docker' <=> Docker) /\ (Containerd' <=> Containerd)
      /\ \A k : InDefer(k)' <=> InDefer(k)
  BY <1>0 DEF Holder, Docker, Containerd, InDefer
<1>3. rtRun \in 1..MaxRuns /\ rtRun \in Nat /\ rtRun \in 1..rtRun
  BY <1>1, RtAssumption DEF RtTypeOK, RtTyped
<1>4. rtFaults' \in 0..MaxRtFaults
  BY <1>0, FaultsBounded
\* What is on the host, and what is left.
<1>5. /\ rtLeft \subseteq rtLeft'
      /\ \A what \in rtHost' : \/ what \in rtHost
                               \/ what \in rtLeft' /\ what \in {<<"container", rtRun>>, <<"task", rtRun>>}
      /\ \A what \in rtLeft' : what \in rtLeft \/ \E k \in Kinds : what = <<k, rtRun>>
      /\ rtPc = "task" => <<"logfile", rtRun>> \notin rtHost'
  BY DEF AnswerLost, LostContainer, LostJob, LostTask, LostStart, Mine, Kinds
<1>6. /\ rtHost' \subseteq Kinds \X (1..MaxRuns) /\ rtLeft' \subseteq Kinds \X (1..MaxRuns)
      /\ \A what \in rtHost' : what[2] <= rtRun /\ what[1] # "job"
  <2>1. \A k \in Kinds : <<k, rtRun>> \in Kinds \X (1..MaxRuns)
    BY <1>3
  <2>2. "container" \in Kinds /\ "task" \in Kinds /\ rtRun <= rtRun
    BY <1>3 DEF Kinds
  <2>3. \A what \in rtHost : what[2] <= rtRun /\ what[1] # "job"
    BY <1>1 DEF RtTyped
  <2>4. rtHost' \subseteq Kinds \X (1..MaxRuns) /\ rtLeft' \subseteq Kinds \X (1..MaxRuns)
    BY <1>1, <1>5, <2>1, <2>2 DEF RtTypeOK
  <2>5. QED
    BY <1>5, <2>2, <2>3, <2>4
\* The Job and the processes.
<1>7. \/ rtProc' = rtProc /\ rtJob' = rtJob
      \/ /\ rtProc' = [rtProc EXCEPT ![rtRun] = "running"] /\ rtJob' = rtJob
         /\ InDefer(Holder) /\ Holder # "job"
      \/ /\ rtProc' = [rtProc EXCEPT ![rtRun] = "pending"] /\ rtJob.st = "absent"
         /\ rtJob' = [run |-> rtRun, st |-> "active"] /\ <<"job", rtRun>> \in rtLeft'
         /\ Holder = "job"
  <2>1. CASE LostContainer \/ LostTask
    BY <2>1 DEF LostContainer, LostTask
  <2>2. CASE LostStart
    BY <1>1, <2>2, HolderOf DEF LostStart, ProcCovered
  <2>3. CASE LostJob
    BY <2>3, HolderOf DEF LostJob, Mine
  <2>4. QED
    BY <2>1, <2>2, <2>3 DEF AnswerLost
<1>8. /\ rtProc' \in [1..MaxRuns -> {"none", "pending", "running", "dying", "zero",
                                     "nonzero", "podFailed"}]
      /\ \A r \in 1..MaxRuns : r # rtRun => rtProc'[r] = rtProc[r]
      /\ rtJob' \in [run : 0..MaxRuns, st : {"absent", "active", "deleting", "foreign"}]
  <2> DEFINE Procs == {"none", "pending", "running", "dying", "zero", "nonzero", "podFailed"}
             Sts == {"absent", "active", "deleting", "foreign"}
  <2>1. rtProc \in [1..MaxRuns -> Procs] /\ "pending" \in Procs /\ "running" \in Procs
        /\ rtJob \in [run : 0..MaxRuns, st : Sts] /\ "active" \in Sts
    BY <1>1 DEF RtTypeOK
  <2>2. rtRun \in 0..MaxRuns
    BY <1>1 DEF RtTypeOK
  <2> HIDE DEF Procs, Sts
  <2>3. \A v \in Procs : /\ [rtProc EXCEPT ![rtRun] = v] \in [1..MaxRuns -> Procs]
                         /\ \A r \in 1..MaxRuns : r # rtRun => [rtProc EXCEPT ![rtRun] = v][r] = rtProc[r]
    BY <1>3, <2>1
  <2>4. rtProc' = rtProc \/ \E v \in Procs : rtProc' = [rtProc EXCEPT ![rtRun] = v]
    BY <1>7, <2>1
  <2>5. rtProc' \in [1..MaxRuns -> Procs] /\ \A r \in 1..MaxRuns : r # rtRun => rtProc'[r] = rtProc[r]
    BY <2>1, <2>3, <2>4
  <2>6. [run |-> rtRun, st |-> "active"] \in [run : 0..MaxRuns, st : Sts]
    BY <2>1, <2>2
  <2>7. rtJob' \in [run : 0..MaxRuns, st : Sts]
    BY <1>7, <2>1, <2>6
  <2>8. QED
    BY <2>5, <2>7 DEF Procs, Sts
<1>9. RtTyped'
  <2>1. RtTypeOK'
    BY <1>0, <1>1, <1>4, <1>6, <1>8 DEF RtTypeOK
  <2>2. \A r \in 1..MaxRuns : rtRun' < r => rtProc'[r] = "none"
    BY <1>0, <1>1, <1>3, <1>8 DEF RtTyped
  <2>3. QED
    BY <1>0, <1>1, <1>6, <2>1, <2>2 DEF RtTyped, Outside
<1>10. JobsOK'
  <2>1. CASE rtJob' = rtJob
    <3>1. \A r \in 1..MaxRuns :
            \/ rtProc'[r] = rtProc[r]
            \/ r = rtRun /\ rtProc'[r] = "running" /\ Holder # "job"
      <4>1. rtJob.st = "absent" /\ rtJob' = [run |-> rtRun, st |-> "active"] => rtJob' # rtJob
        OBVIOUS
      <4>2. \/ rtProc' = rtProc
            \/ rtProc' = [rtProc EXCEPT ![rtRun] = "running"] /\ Holder # "job"
        BY <1>7, <2>1, <4>1
      <4>3. QED
        BY <1>1, <1>3, <4>2 DEF RtTypeOK
    <3>2. \A r \in 1..MaxRuns :
            /\ rtProc'[r] = "pending" => Holder' = "job"
            /\ rtProc'[r] = "dying" => Holder' = "task"
            /\ rtProc'[r] \in {"pending", "running"} /\ Holder' = "job" => rtJob'.run = r
      BY <1>1, <1>2, <2>1, <3>1 DEF JobsOK
    <3>3. QED
      BY <1>0, <1>1, <1>2, <2>1, <3>2 DEF JobsOK
  <2>2. CASE rtJob' # rtJob
    <3>1. /\ rtProc'[rtRun] = "pending" /\ rtJob.st = "absent" /\ Holder = "job"
          /\ rtJob' = [run |-> rtRun, st |-> "active"]
      BY <1>1, <1>3, <1>7, <2>2 DEF RtTypeOK
    <3>2. \A r \in 1..MaxRuns : r # rtRun => rtProc'[r] \notin {"pending", "running", "dying"}
      BY <1>1, <1>3, <1>8, <3>1 DEF JobsOK
    <3>3. \A r \in 1..MaxRuns :
            /\ rtProc'[r] = "pending" => Holder' = "job"
            /\ rtProc'[r] = "dying" => Holder' = "task"
            /\ rtProc'[r] \in {"pending", "running"} /\ Holder' = "job" => rtJob'.run = r
      BY <1>2, <3>1, <3>2
    <3>4. QED
      BY <1>0, <1>3, <3>1, <3>3 DEF JobsOK
  <2>3. QED
    BY <2>1, <2>2
<1>11. Covered'
  <2> SUFFICES ASSUME NEW what \in rtHost', what[2] = rtRun
              PROVE  \/ what \in rtLeft'
                     \/ InDefer(what[1])'
                     \/ what[1] = "logfile" /\ InDefer("task")'
    BY <1>0 DEF Covered
  <2>1. CASE what \in rtHost
    <3>1. \/ what \in rtLeft
          \/ InDefer(what[1])
          \/ what[1] = "logfile" /\ (InDefer("task") \/ rtPc = "task")
      BY <1>0, <1>1, <2>1 DEF Covered, KeptAfterError
    <3>2. what = <<what[1], rtRun>>
      BY <1>6
    <3>3. QED
      BY <1>2, <1>5, <3>1, <3>2
  <2>2. QED
    BY <1>5, <2>1
<1>12. ProcCovered'
  <2>1. (rtProc[rtRun] \in {"pending", "running", "dying"})' =>
           InDefer(Holder)' \/ Mine(Holder)' \in rtLeft'
    <3>1. CASE rtProc' = rtProc
      BY <1>0, <1>1, <1>2, <1>5, <3>1 DEF ProcCovered, Mine
    <3>2. CASE rtProc' # rtProc
      BY <1>0, <1>2, <1>7, <3>2 DEF Mine
    <3>3. QED
      BY <3>1, <3>2
  <2>2. QED
    BY <1>0, <2>1 DEF ProcCovered
<1>13. QED
  BY <1>9, <1>10, <1>11, <1>12 DEF RtInv

\* What happens outside of Execute: deadlines, exits, pods and the garbage collector.
LEMMA EnvironmentSteps ==
  ASSUME RtInv, DeadlinePasses \/ ProcessEnds \/ PodStarts \/ JobDeadline \/ JobCollected
  PROVE  RtInv'
<1> DEFINE States == {"none", "pending", "running", "dying", "zero", "nonzero", "podFailed"}
<1>0. /\ rtProc \in [1..MaxRuns -> States]
      /\ rtJob.st \in {"absent", "foreign"} => rtJob.run = 0
      /\ rtJob.st \in {"active", "deleting"} => rtJob.run \in 1..MaxRuns
      /\ rtJob.st \in {"active", "deleting"} => rtJob.run # 0
      /\ rtCtx \in {"live", "expired"}
  BY RtAssumption DEF RtInv, RtTyped, RtTypeOK, JobsOK
\* One process changes its state.
<1>1. ASSUME NEW r \in 1..MaxRuns, NEW p \in States,
             rtProc' = [rtProc EXCEPT ![r] = p],
             \/ rtProc[r] # "none" /\ p \in {"zero", "nonzero", "podFailed"}
             \/ rtProc[r] = "pending" /\ p = "running",
             UNCHANGED <<runVars, rtPc, rtDefer, rtErr, rtHost, rtJob, rtSpec, rtLeft, rtFaults>>
      PROVE  RtInv'
  <2>1. /\ UNCHANGED <<rtAct, rtPc, rtTry, rtRun, rtDefer, rtErr, rtState, rtHost, rtLeft, rtFaults>>
        /\ rtCtx' \in {"live", "expired"} /\ rtJob' = rtJob
    BY <1>0, <1>1 DEF runVars
  <2>2. /\ rtProc' \in [1..MaxRuns -> States]
        /\ \A q \in 1..MaxRuns :
             \/ rtProc'[q] = rtProc[q]
             \/ rtProc[q] # "none" /\ rtProc'[q] \in {"zero", "nonzero", "podFailed"}
             \/ rtProc[q] = "pending" /\ rtProc'[q] = "running"
    BY <1>0, <1>1
  <2>3. QED
    BY <2>1, <2>2, EnvironmentStep
<1>2. CASE DeadlinePasses
  <2>1. /\ UNCHANGED <<rtAct, rtPc, rtTry, rtRun, rtDefer, rtErr, rtState, rtHost, rtLeft, rtFaults>>
        /\ rtCtx' \in {"live", "expired"} /\ rtJob' = rtJob /\ rtProc' = rtProc
    BY <1>2 DEF DeadlinePasses, hostVars
  <2>2. QED
    BY <1>0, <2>1, EnvironmentStep
<1>3. CASE ProcessEnds
  <2>1. UNCHANGED <<runVars, rtPc, rtDefer, rtErr, rtHost, rtJob, rtSpec, rtLeft, rtFaults>>
    BY <1>3 DEF ProcessEnds
  <2>2. PICK r \in 1..MaxRuns :
          /\ rtProc[r] \in {"running", "dying"}
          /\ \E p \in {"zero", "nonzero"} : rtProc' = [rtProc EXCEPT ![r] = p]
    BY <1>3 DEF ProcessEnds
  <2>3. PICK p \in {"zero", "nonzero"} : rtProc' = [rtProc EXCEPT ![r] = p]
    BY <2>2
  <2>4. QED
    BY <1>1, <2>1, <2>2, <2>3
<1>4. CASE PodStarts
  <2>1. UNCHANGED <<runVars, rtPc, rtDefer, rtErr, rtHost, rtJob, rtSpec, rtLeft, rtFaults>>
    BY <1>4 DEF PodStarts
  <2>2. PICK r \in 1..MaxRuns :
          /\ rtProc[r] = "pending"
          /\ \E p \in {"running", "podFailed"} : rtProc' = [rtProc EXCEPT ![r] = p]
    BY <1>4 DEF PodStarts
  <2>3. PICK p \in {"running", "podFailed"} : rtProc' = [rtProc EXCEPT ![r] = p]
    BY <2>2
  <2>4. QED
    BY <1>1, <2>1, <2>2, <2>3
<1>5. CASE JobDeadline
  <2>1. /\ UNCHANGED <<runVars, rtPc, rtDefer, rtErr, rtHost, rtJob, rtSpec, rtLeft, rtFaults>>
        /\ rtJob.run \in 1..MaxRuns /\ rtProc[rtJob.run] = "running"
        /\ rtProc' = [rtProc EXCEPT ![rtJob.run] = "nonzero"]
    BY <1>0, <1>5 DEF JobDeadline, PodOfAction
  <2>2. QED
    BY <1>1, <2>1
<1>6. CASE JobCollected
  <2>1. rtJob.st = "deleting" /\ rtJob.run \in 1..MaxRuns /\ PodOfAction = rtProc[rtJob.run]
    BY <1>0, <1>6 DEF JobCollected, PodOfAction
  <2>2. CASE rtJob' = rtJob /\ PodOfAction \in {"pending", "running"}
             /\ rtProc' = [rtProc EXCEPT ![rtJob.run] = "nonzero"]
    <3>1. UNCHANGED <<runVars, rtPc, rtDefer, rtErr, rtHost, rtJob, rtSpec, rtLeft, rtFaults>>
      BY <1>6, <2>2 DEF JobCollected
    <3>2. QED
      BY <1>1, <2>1, <2>2, <3>1
  <2>3. CASE rtJob' = NoJobYet /\ rtProc' = rtProc /\ PodOfAction \notin {"pending", "running"}
    <3>1. /\ UNCHANGED <<rtAct, rtPc, rtTry, rtRun, rtDefer, rtErr, rtState, rtHost, rtLeft, rtFaults>>
          /\ rtCtx' \in {"live", "expired"}
      BY <1>0, <1>6 DEF JobCollected, runVars
    <3>2. QED
      BY <1>0, <2>1, <2>3, <3>1, EnvironmentStep
  <2>4. QED
    BY <1>6, <2>2, <2>3 DEF JobCollected
<1>7. QED
  BY <1>2, <1>3, <1>4, <1>5, <1>6

\* The clean-ups that run when Execute returns.
LEMMA DeferredSteps ==
  ASSUME RtInv,
         \/ cleanupScratch \/ removeContainer \/ deleteTask \/ deleteContainer \/ deleteJob
  PROVE  RtInv'
<1>0. /\ RtTyped /\ RtTypeOK /\ JobsOK /\ ProcCovered
      /\ rtLeft \subseteq Kinds \X (1..MaxRuns)
  BY DEF RtInv, RtTyped, RtTypeOK
<1>1. rtPc = "unwind" => rtRun \in 1..MaxRuns
  BY <1>0, RtAssumption DEF RtTyped, RtTypeOK, Outside
\* What a clean-up of one kind does to the host.
<1>2. ASSUME NEW kind \in Kinds, rtPc = "unwind", Release({kind})
      PROVE  /\ rtLeft \subseteq rtLeft' /\ rtLeft' \subseteq Kinds \X (1..MaxRuns)
             /\ rtHost' \subseteq rtHost /\ (Mine(kind) \in rtHost' => Mine(kind) \in rtLeft')
             /\ rtFaults' \in 0..MaxRtFaults
             /\ rtFaults' # rtFaults => Mine(kind) \in rtLeft'
  <2>1. {Mine(k) : k \in {kind}} = {Mine(kind)} /\ Mine(kind) \in Kinds \X (1..MaxRuns)
    BY <1>1, <1>2 DEF Mine
  <2>2. Fails \/ Works
    BY <1>2 DEF Release
  <2>3. rtFaults' \in 0..MaxRtFaults
    BY <2>2, FaultsBounded
  <2>4. CASE Works /\ rtHost' = rtHost \ {Mine(k) : k \in {kind}} /\ UNCHANGED rtLeft
    BY <1>0, <2>1, <2>3, <2>4 DEF Works
  <2>5. CASE Fails /\ rtLeft' = rtLeft \cup {Mine(k) : k \in {kind}} /\ UNCHANGED rtHost
    BY <1>0, <2>1, <2>3, <2>5
  <2>6. QED
    BY <1>2, <2>4, <2>5 DEF Release
<1>3. CASE cleanupScratch
  <2>1. PICK what \in {"dns", "net", "stream"} : Deferred(what) /\ Release({what})
    BY <1>3 DEF cleanupScratch
  <2>2. /\ rtPc = "unwind" /\ rtDefer # <<>> /\ Head(rtDefer) = what
        /\ rtDefer' = Tail(rtDefer) /\ UNCHANGED <<runVars, rtPc, rtErr, rtJob>>
        /\ rtProc' = rtProc
    BY <1>3, <2>1 DEF cleanupScratch, Deferred, Popped
  <2>3. what \in Kinds /\ what # "task" /\ what # Holder
    BY DEF Kinds, Holder
  <2>4. QED
    BY <1>2, <2>1, <2>2, <2>3, PopStep
<1>4. CASE removeContainer
  <2> DEFINE what == "container"
  <2>1. /\ rtPc = "unwind" /\ rtDefer # <<>> /\ Head(rtDefer) = what /\ Release({what})
        /\ rtDefer' = Tail(rtDefer) /\ UNCHANGED <<runVars, rtPc, rtErr, rtJob>>
        /\ rtProc' = rtProc \/ rtProc' = [rtProc EXCEPT ![rtRun] = "nonzero"]
        /\ Docker
    BY <1>4 DEF removeContainer, Deferred, Popped
  <2>2. what \in Kinds /\ what # "task" /\ what = Holder
    BY <2>1, HolderOf DEF Kinds
  <2>3. rtFaults' = rtFaults => rtProc'[rtRun] \notin {"pending", "running", "dying"}
    <3>1. rtProc[rtRun] \notin {"pending", "dying"}
      BY <1>0, <1>1, <2>1, <2>2 DEF JobsOK
    <3>2. rtProc \in [1..MaxRuns -> {"none", "pending", "running", "dying", "zero",
                                     "nonzero", "podFailed"}]
      BY <1>0 DEF RtTypeOK
    <3>3. QED
      BY <1>1, <1>4, <2>1, <3>1, <3>2 DEF removeContainer
  <2> HIDE DEF what
  <2>4. QED
    BY <1>2, <2>1, <2>2, <2>3, PopStep
<1>5. CASE deleteTask
  <2> DEFINE what == "task"
  <2>1. /\ rtPc = "unwind" /\ rtDefer # <<>> /\ Head(rtDefer) = what
        /\ rtDefer' = Tail(rtDefer) /\ UNCHANGED <<runVars, rtPc, rtErr, rtJob>>
        /\ rtProc' = rtProc /\ Containerd /\ (Fails \/ Works)
    BY <1>5 DEF deleteTask, Deferred, Popped
  <2>2. Mine(what) \in Kinds \X (1..MaxRuns) /\ what = Holder
    BY <1>1, <2>1, HolderOf DEF Mine, Kinds
  <2>3. /\ rtHost' \subseteq rtHost /\ Mine("logfile") \notin rtHost'
        /\ rtLeft \subseteq rtLeft' /\ rtLeft' \subseteq Kinds \X (1..MaxRuns)
        /\ \/ Mine(what) \notin rtHost' /\ rtProc[rtRun] \notin {"running", "dying"}
           \/ Mine(what) \in rtLeft'
    BY <1>0, <1>5, <2>2 DEF deleteTask
  <2>4. rtProc[rtRun] # "pending"
    BY <1>0, <1>1, <2>1, <2>2 DEF JobsOK
  <2>5. rtFaults' \in 0..MaxRtFaults
    BY <2>1, FaultsBounded
  <2> HIDE DEF what
  <2>6. QED
    BY <2>1, <2>2, <2>3, <2>4, <2>5, PopStep
<1>6. CASE deleteContainer
  <2>1. PICK what \in {"container", "logs"} :
          /\ Deferred(what)
          /\ IF rtErr = "ok" THEN Release({what}) ELSE Works /\ UNCHANGED <<rtHost, rtLeft>>
    BY <1>6 DEF deleteContainer
  <2>2. /\ rtPc = "unwind" /\ rtDefer # <<>> /\ Head(rtDefer) = what
        /\ rtDefer' = Tail(rtDefer) /\ UNCHANGED <<runVars, rtPc, rtErr, rtJob>>
        /\ rtProc' = rtProc /\ Containerd
    BY <1>6, <2>1 DEF deleteContainer, Deferred, Popped
  <2>3. what \in Kinds /\ what # "task" /\ what # Holder
    BY <2>2, HolderOf DEF Kinds
  <2>4. CASE rtErr = "ok"
    <3>1. Release({what})
      BY <2>1, <2>4
    <3>2. QED
      BY <1>2, <2>2, <2>3, <3>1, PopStep
  <2>5. CASE rtErr # "ok"
    <3>1. KeptAfterError(what) /\ rtHost' = rtHost /\ rtLeft' = rtLeft /\ Works
      BY <2>1, <2>2, <2>5 DEF KeptAfterError
    <3>2. rtFaults' \in 0..MaxRtFaults
      BY <3>1, FaultsBounded
    <3>3. QED
      BY <1>0, <2>2, <2>3, <3>1, <3>2, PopStep
  <2>6. QED
    BY <2>4, <2>5
<1>7. CASE deleteJob
  <2> DEFINE what == "job"
  <2>0. /\ rtPc = "unwind" /\ rtDefer # <<>> /\ Head(rtDefer) = what
        /\ rtHost' = rtHost /\ rtProc' = rtProc /\ (Fails \/ Works)
    BY <1>7 DEF deleteJob, Deferred
  <2>1. rtFaults' \in 0..MaxRtFaults
    BY <2>0, FaultsBounded
  <2>2. Mine(what) \notin rtHost' /\ what # "task"
    BY <1>0, <2>0 DEF RtTyped, Mine
  <2>3. rtJob.st # "foreign"
    <3>1. InDefer("job")
      BY <1>0, <2>0, HasRest DEF RtTypeOK, InDefer
    <3>2. QED
      BY <1>0, <3>1 DEF JobsOK
  <2>4. rtJob.st # "absent" => rtJob.run \in 1..MaxRuns
    BY <1>0, <2>3, RtAssumption DEF JobsOK, RtTypeOK
  <2>5. what = Holder /\ rtProc[rtRun] \in {"pending", "running", "dying"} =>
          rtJob.run = rtRun /\ rtJob.st # "absent"
    BY <1>0, <1>1, <2>0, RtAssumption DEF JobsOK, RtTypeOK, RtTyped, Outside
  <2>6. CASE Works /\ rtJob.st = "active" /\ rtJob' = [rtJob EXCEPT !.st = "deleting"]
             /\ UNCHANGED <<runVars, rtPc, rtErr, rtSpec, rtDefer, rtLeft>>
    <3>1. /\ rtAct' = rtAct /\ rtTry' = rtTry /\ rtRun' = rtRun /\ rtCtx' = rtCtx
          /\ rtState' = rtState /\ rtPc' = rtPc /\ rtErr' = rtErr /\ rtDefer' = rtDefer
          /\ rtLeft' = rtLeft
      BY <2>6 DEF runVars
    <3>2. rtJob' = [run |-> rtJob.run, st |-> "deleting"]
      BY <1>0, <2>6 DEF RtTypeOK
    <3>3. Holder' = Holder /\ (Docker' <=> Docker) /\ (Containerd' <=> Containerd)
          /\ \A k : (InDefer(k)' <=> InDefer(k)) /\ (KeptAfterError(k)' <=> KeptAfterError(k))
      BY <3>1 DEF Holder, Docker, Containerd, InDefer, KeptAfterError
    <3>4. RtTyped'
      <4>1. rtJob' \in [run : 0..MaxRuns, st : {"absent", "active", "deleting", "foreign"}]
        <5>1. rtJob.run \in 0..MaxRuns
          BY <1>0 DEF RtTypeOK
        <5>2. QED
          BY <3>2, <5>1
      <4>2. RtTypeOK'
        BY <1>0, <2>0, <2>1, <3>1, <4>1 DEF RtTypeOK
      <4>3. rtRun' # 0 /\ rtPc' \notin Outside \cup {"returned"} /\ rtTry' <= rtRun'
        BY <1>0, <2>0, <3>1 DEF RtTyped, Outside
      <4>4. (\A w \in rtHost : w[2] <= rtRun /\ w[1] # "job")'
            /\ (\A r \in 1..MaxRuns : rtRun < r => rtProc[r] = "none")'
        BY <1>0, <2>0, <3>1 DEF RtTyped
      <4>5. QED
        BY <4>2, <4>3, <4>4 DEF RtTyped
    <3>5. JobsOK'
      BY <1>0, <2>0, <2>6, <3>1, <3>2, <3>3 DEF JobsOK
    <3>6. Covered' /\ ProcCovered'
      BY <2>0, <3>1, <3>3 DEF RtInv, Covered, ProcCovered, Mine
    <3>7. QED
      BY <3>4, <3>5, <3>6 DEF RtInv
  <2>7. CASE Works /\ rtJob.st = "absent" /\ Popped /\ UNCHANGED <<rtJob, rtLeft>>
    <3>1. rtDefer' = Tail(rtDefer) /\ UNCHANGED <<runVars, rtPc, rtErr, rtJob>> /\ rtLeft' = rtLeft
      BY <2>7 DEF Popped
    <3>2. ~(what = Holder /\ rtProc[rtRun] \in {"pending", "running", "dying"})
      BY <2>5, <2>7
    <3> HIDE DEF what
    <3>4. QED
      BY <1>0, <2>0, <2>1, <2>2, <3>1, <3>2, PopStep
  <2>8. CASE Fails /\ rtJob.st # "absent" /\ Popped /\ UNCHANGED rtJob
             /\ rtLeft' = rtLeft \cup {<<"job", rtJob.run>>}
    <3>1. rtDefer' = Tail(rtDefer) /\ UNCHANGED <<runVars, rtPc, rtErr, rtJob>>
      BY <2>8 DEF Popped
    <3>2. what = Holder /\ rtProc[rtRun] \in {"pending", "running", "dying"} =>
            Mine(what) \in rtLeft'
      BY <2>5, <2>8 DEF Mine
    <3>3. rtLeft \subseteq rtLeft' /\ rtLeft' \subseteq Kinds \X (1..MaxRuns)
      BY <1>0, <2>4, <2>8 DEF Kinds
    <3> HIDE DEF what
    <3>4. QED
      BY <2>0, <2>1, <2>2, <3>1, <3>2, <3>3, PopStep
  <2>9. QED
    BY <1>7, <2>6, <2>7, <2>8 DEF deleteJob
<1>8. QED
  BY <1>3, <1>4, <1>5, <1>6, <1>7

\* A call of Execute starts with nothing acquired and no process.
LEMMA ExecuteStep ==
  ASSUME RtInv, Execute
  PROVE  RtInv'
<1>0. /\ rtPc \in {"announced", "returned"} /\ rtRun < MaxRuns
      /\ rtRun' = rtRun + 1 /\ rtTry' = rtTry + 1 /\ rtCtx' \in {rtCtx, "live", "expired"}
      /\ rtPc' \in {"jobFor", "image"} /\ rtErr' = "none"
      /\ rtAct' = rtAct /\ rtDefer' = rtDefer /\ rtHost' = rtHost /\ rtProc' = rtProc
      /\ rtJob' = rtJob /\ rtLeft' = rtLeft /\ rtState' = rtState /\ rtFaults' = rtFaults
  BY DEF Execute
<1>1. RtTypeOK /\ RtTyped /\ JobsOK /\ Covered /\ ProcCovered
  BY DEF RtInv, RtTyped
<1>2. /\ Holder' = Holder /\ rtDefer = <<>>
      /\ \A k : InDefer(k)' <=> InDefer(k)
  BY <1>0, <1>1 DEF Holder, Docker, Containerd, InDefer, RtTyped, Outside
<1>3. /\ rtRun \in Nat /\ rtTry \in Nat /\ rtRun' \in 1..MaxRuns /\ rtTry' \in 0..MaxRuns
      /\ rtTry' <= rtRun' /\ rtRun' \in 0..MaxRuns
  <2>1. rtTry \in 0..MaxRuns /\ rtRun \in 0..MaxRuns /\ rtTry <= rtRun
    BY <1>1 DEF RtTypeOK, RtTyped
  <2>2. rtRun < MaxRuns /\ rtRun' = rtRun + 1 /\ rtTry' = rtTry + 1
    BY <1>0
  <2>3. QED
    BY <2>1, <2>2, RtAssumption
<1>4. \A what \in rtHost : what[2] \in Nat
  BY <1>1, RtAssumption DEF RtTypeOK
<1>5. RtTyped'
  <2>1. RtTypeOK'
    BY <1>0, <1>1, <1>3 DEF RtTypeOK
  <2>2. \A what \in rtHost : what[2] <= rtRun' /\ what[1] # "job"
    BY <1>0, <1>1, <1>3, <1>4 DEF RtTyped
  <2>3. \A r \in 1..MaxRuns : rtRun' < r => rtProc[r] = "none"
    BY <1>0, <1>1, <1>3 DEF RtTyped
  <2>4. rtRun' # 0 /\ rtPc' \notin Outside \cup {"returned"}
    BY <1>0, <1>3 DEF Outside
  <2>5. QED
    BY <1>0, <1>3, <2>1, <2>2, <2>3, <2>4 DEF RtTyped
<1>6. JobsOK'
  <2>1. \A n \in 1..rtRun : n \in 1..rtRun'
    BY <1>0, <1>3
  <2>2. QED
    BY <1>0, <1>1, <1>2, <2>1 DEF JobsOK
<1>7. Covered'
  <2>1. \A what \in rtHost' : what[2] # rtRun'
    BY <1>0, <1>1, <1>3, <1>4 DEF RtTyped
  <2>2. QED
    BY <2>1 DEF Covered
<1>8. ProcCovered'
  <2>1. rtProc'[rtRun'] = "none"
    BY <1>0, <1>1, <1>3 DEF RtTyped
  <2>2. QED
    BY <1>0, <2>1 DEF ProcCovered
<1>9. QED
  BY <1>5, <1>6, <1>7, <1>8 DEF RtInv

\* The agent dies, comes back or reports: no call of Execute is under way.
LEMMA OutsideSteps ==
  ASSUME RtInv, RunEnds \/ AgentDies \/ AgentReturns
  PROVE  RtInv'
<1>1. RtTypeOK /\ RtTyped /\ JobsOK
  BY DEF RtInv, RtTyped
<1>2. /\ rtAct' = rtAct /\ rtRun' = rtRun /\ rtCtx' = rtCtx /\ rtErr' = rtErr
      /\ rtHost' = rtHost /\ rtProc' = rtProc /\ rtJob' = rtJob
      /\ rtPc' \in Outside /\ rtTry' \in {0, rtTry} /\ (Fails \/ Works)
      /\ rtState' \in {rtState, "SUCCESS", "TIMEOUT", "FAILED"}
  BY DEF RunEnds, AgentDies, AgentReturns, runVars, hostVars, Outside, Works
<1>3. rtDefer' = <<>>
  <2>1. CASE AgentDies
    BY <2>1 DEF AgentDies
  <2>2. CASE RunEnds \/ AgentReturns
    BY <1>1, <2>2 DEF RunEnds, AgentReturns, RtTyped, Outside
  <2>3. QED
    BY <2>1, <2>2
<1>4. rtLeft' \subseteq Kinds \X (1..MaxRuns)
  <2>1. CASE AgentDies
    <3>1. \A r \in {rtJob.run} \ {0} : <<"job", r>> \in Kinds \X (1..MaxRuns)
      BY <1>1, RtAssumption DEF RtTypeOK, Kinds
    <3>2. rtLeft' = rtLeft \cup rtHost \cup {<<"job", r>> : r \in {rtJob.run} \ {0}}
      BY <2>1 DEF AgentDies
    <3>3. QED
      BY <1>1, <3>1, <3>2 DEF RtTypeOK
  <2>2. CASE RunEnds \/ AgentReturns
    BY <1>1, <2>2 DEF RunEnds, AgentReturns, hostVars, RtTypeOK
  <2>3. QED
    BY <2>1, <2>2
<1>5. rtFaults' \in 0..MaxRtFaults
  BY <1>2, FaultsBounded
<1>6. rtTry' \in 0..MaxRuns /\ rtTry' <= rtRun
  BY <1>1, <1>2, RtAssumption DEF RtTypeOK, RtTyped
<1>7. RtTyped'
  <2>1. RtTypeOK'
    BY <1>1, <1>2, <1>3, <1>4, <1>5, <1>6, HasOne DEF RtTypeOK
  <2>2. QED
    BY <1>1, <1>2, <1>3, <1>6, <2>1 DEF RtTyped
<1>8. JobsOK'
  <2>1. Holder' = Holder /\ ~InDefer("job")'
    BY <1>2, <1>3, HasOne DEF Holder, Docker, Containerd, InDefer
  <2>2. QED
    BY <1>1, <1>2, <2>1 DEF JobsOK
<1>9. Covered' /\ ProcCovered'
  BY <1>2 DEF Covered, ProcCovered
<1>10. QED
  BY <1>7, <1>8, <1>9 DEF RtInv

\* No deferred call is left.
LEMMA ReturnedStep ==
  ASSUME RtInv, ExecuteReturns
  PROVE  RtInv'
<1>0. /\ rtPc = "unwind" /\ rtPc' = "returned" /\ rtDefer = <<>>
      /\ rtAct' = rtAct /\ rtTry' = rtTry /\ rtRun' = rtRun /\ rtCtx' = rtCtx
      /\ rtState' = rtState /\ rtDefer' = rtDefer /\ rtErr' = rtErr /\ rtHost' = rtHost
      /\ rtProc' = rtProc /\ rtJob' = rtJob /\ rtLeft' = rtLeft /\ rtFaults' = rtFaults
  BY DEF ExecuteReturns, runVars, hostVars
<1>1. RtTypeOK /\ RtTyped /\ JobsOK /\ Covered /\ ProcCovered
  BY DEF RtInv, RtTyped
<1>2. Holder' = Holder /\ (Docker' <=> Docker) /\ (Containerd' <=> Containerd)
      /\ \A k : (InDefer(k)' <=> InDefer(k)) /\ (KeptAfterError(k)' <=> KeptAfterError(k))
  BY <1>0 DEF Holder, Docker, Containerd, InDefer, KeptAfterError
<1>3. RtTyped'
  BY <1>0, <1>1 DEF RtTyped, RtTypeOK, Outside
<1>4. JobsOK'
  BY <1>0, <1>1, <1>2 DEF JobsOK
<1>5. Covered'
  BY <1>0, <1>1, <1>2 DEF Covered, Outside
<1>6. ProcCovered'
  BY <1>0, <1>1, <1>2 DEF ProcCovered, Outside, Mine
<1>7. QED
  BY <1>3, <1>4, <1>5, <1>6 DEF RtInv

\* Every step keeps the invariant.
LEMMA RtNextInv == RtInv /\ [RtNext]_rtVars => RtInv'
<1> SUFFICES ASSUME RtInv, [RtNext]_rtVars PROVE RtInv'
  OBVIOUS
<1>1. CASE RtNext
  BY <1>1, ExecuteStep, OutsideSteps, EnvironmentSteps, DockerSteps, ContainerdSteps,
     KubernetesSteps, LostStep, DeferredSteps, ReturnedStep DEF RtNext
<1>2. CASE UNCHANGED rtVars
  <2>1. /\ rtAct' = rtAct /\ rtTry' = rtTry /\ rtRun' = rtRun /\ rtCtx' = rtCtx
        /\ rtState' = rtState /\ rtDefer' = rtDefer /\ rtErr' = rtErr /\ rtHost' = rtHost
        /\ rtProc' = rtProc /\ rtJob' = rtJob /\ rtLeft' = rtLeft /\ rtFaults' = rtFaults
        /\ rtPc' = rtPc
    BY <1>2 DEF rtVars
  <2>2. RtTyped /\ RtTypeOK /\ JobsOK /\ Covered /\ ProcCovered
    BY DEF RtInv, RtTyped
  <2>3. RtTyped' /\ JobsOK'
    BY <2>1, <2>2 DEF RtTyped, RtTypeOK, JobsOK, InDefer, Holder, Docker, Containerd
  <2>4. Covered' /\ ProcCovered'
    BY <2>1, <2>2 DEF Covered, ProcCovered, InDefer, Holder, Docker, Containerd,
                      KeptAfterError, Mine
  <2>5. QED
    BY <2>3, <2>4 DEF RtInv
<1>3. QED
  BY <1>1, <1>2

\* The inductive invariant of the runtimes: on every path through Execute
\* what was acquired has a deferred call in agent's runtime packages, or is
\* recorded as left, and the process of the call has its holder.
THEOREM RuntimeInvariance == RtSpec => []RtInv
<1>1. QED
  BY RtInitInv, RtNextInv, PTL DEF RtSpec

\* The state of the runtimes stays within its types.
THEOREM RuntimeTypeCorrect == RtSpec => []RtTypeOK
<1>1. RtInv => RtTypeOK
  BY DEF RtInv, RtTyped
<1>2. QED
  BY <1>1, RuntimeInvariance, PTL

-----------------------------------------------------------------------------
(* What runs is the Action that was asked for, once: the name of a Docker  *)
(* container, the exit that SUCCESS stands for, and what a container is    *)
(* created with.                                                           *)

\* Under Docker a process runs only in a container that is on the host, and
\* by the container's name there is one at most.
NamedOK ==
  Docker =>
    /\ \A r : r \in 1..MaxRuns /\ rtProc[r] = "running" => <<"container", r>> \in rtHost
    /\ \A r, s : <<"container", r>> \in rtHost /\ <<"container", s>> \in rtHost => r = s
    /\ rtPc = "start" => <<"container", rtRun>> \in rtHost

\* A call of Execute that returns no error has seen a process exit with zero,
\* and only such a call is reported as SUCCESS.
ExitedZero == \E r \in 1..MaxRuns : rtProc[r] = "zero" /\ (r = rtRun \/ Kubernetes)

OkRan ==
  /\ rtErr = "ok" => rtPc \in Outside \cup {"unwind", "returned"} /\ ExitedZero
  /\ rtState # "none" => rtPc = "reporting"
  /\ rtState = "SUCCESS" => rtErr = "ok"

\* The specification of the container is a record, and as asked.
SpecOK ==
  /\ \E m, d, a : rtSpec = [mounts |-> m, dns |-> d, args |-> a]
  /\ ContainerAsAsked

AskedInv == RtInv /\ NamedOK /\ OkRan /\ SpecOK

\* A step that touches no container and starts no process.
LEMMA NamedKept ==
  ASSUME NamedOK, rtAct' = rtAct,
         \A r : <<"container", r>> \in rtHost' <=> <<"container", r>> \in rtHost,
         \A r \in 1..MaxRuns : rtProc'[r] = "running" => rtProc[r] = "running",
         rtPc' = "start" => rtPc = "start" /\ rtRun' = rtRun
  PROVE  NamedOK'
BY DEF NamedOK, Docker

\* The steps of Run, of the environment and of the deferred calls that are
\* not about containers.
LEMMA NamedAround ==
  ASSUME RtInv, NamedOK, Docker,
         \/ Execute \/ RunEnds \/ DeadlinePasses \/ AgentDies \/ AgentReturns
         \/ ProcessEnds \/ PodStarts \/ JobDeadline \/ JobCollected
         \/ cleanupScratch \/ deleteJob \/ ExecuteReturns
  PROVE  NamedOK'
<1>1. /\ rtProc \in [1..MaxRuns -> {"none", "pending", "running", "dying", "zero",
                                    "nonzero", "podFailed"}]
      /\ \A r \in 1..MaxRuns : rtProc[r] # "pending"
  BY DEF RtInv, RtTyped, RtTypeOK, JobsOK, Holder
<1>2. CASE Execute
  BY <1>2, NamedKept DEF Execute, Docker
<1>3. CASE RunEnds \/ DeadlinePasses \/ AgentDies \/ AgentReturns \/ ExecuteReturns
  BY <1>3, NamedKept DEF RunEnds, DeadlinePasses, AgentDies, AgentReturns, ExecuteReturns,
                         runVars, hostVars
<1>4. CASE ProcessEnds \/ PodStarts \/ JobDeadline \/ JobCollected
  <2>1. /\ rtAct' = rtAct /\ rtHost' = rtHost /\ rtPc' = rtPc /\ rtRun' = rtRun
        /\ \/ rtProc' = rtProc
           \/ \E r, p : p # "running" /\ rtProc' = [rtProc EXCEPT ![r] = p]
    <3>1. CASE ProcessEnds
      BY <3>1 DEF ProcessEnds, runVars
    <3>2. CASE PodStarts
      BY <3>2, <1>1 DEF PodStarts
    <3>3. CASE JobDeadline \/ JobCollected
      BY <3>3 DEF JobDeadline, JobCollected, runVars
    <3>4. QED
      BY <1>4, <3>1, <3>2, <3>3
  <2>2. \A r \in 1..MaxRuns : rtProc'[r] = "running" => rtProc[r] = "running"
    BY <2>1, <1>1
  <2>3. QED
    BY <2>1, <2>2, NamedKept
<1>5. CASE cleanupScratch
  <2>1. /\ rtAct' = rtAct /\ rtPc' = rtPc /\ rtRun' = rtRun /\ rtProc' = rtProc
        /\ \E what \in {"dns", "net", "stream"} :
             rtHost' = rtHost \/ rtHost' = rtHost \ {Mine(k) : k \in {what}}
    BY <1>5 DEF cleanupScratch, Popped, Release, runVars
  <2>2. \A r : <<"container", r>> \in rtHost' <=> <<"container", r>> \in rtHost
    BY <2>1 DEF Mine
  <2>3. QED
    BY <2>1, <2>2, NamedKept
<1>6. CASE deleteJob
  <2>1. /\ rtAct' = rtAct /\ rtHost' = rtHost /\ rtPc' = rtPc /\ rtRun' = rtRun
        /\ rtProc' = rtProc
    BY <1>6 DEF deleteJob, Popped, runVars
  <2>2. QED
    BY <2>1, NamedKept
<1>7. QED
  BY <1>2, <1>3, <1>4, <1>5, <1>6

\* The steps of Docker.
LEMMA NamedDocker ==
  ASSUME RtInv, NamedOK, Docker,
         \/ dockerPull \/ dockerCreate \/ dockerConflict \/ dockerStart
         \/ dockerAttach \/ dockerCallError \/ dockerSelect \/ removeContainer
  PROVE  NamedOK'
<1>1. /\ rtProc \in [1..MaxRuns -> {"none", "pending", "running", "dying", "zero",
                                    "nonzero", "podFailed"}]
      /\ rtRun \in 0..MaxRuns /\ (rtPc \notin Outside => rtRun \in 1..MaxRuns)
      /\ rtHost \subseteq Kinds \X (1..MaxRuns)
  BY RtAssumption DEF RtInv, RtTyped, RtTypeOK
<1>2. CASE dockerPull \/ dockerAttach
  <2>1. /\ rtAct' = rtAct /\ rtPc' # "start" /\ rtProc' = rtProc
        /\ \E kinds \in {{}, {"stream"}} : rtHost' = rtHost \cup {Mine(k) : k \in kinds}
    BY <1>2 DEF dockerPull, dockerAttach, Acquire, Keep, runVars
  <2>2. \A r : <<"container", r>> \in rtHost' <=> <<"container", r>> \in rtHost
    BY <2>1 DEF Mine
  <2>3. QED
    BY <2>1, <2>2, NamedKept
<1>3. CASE dockerCreate
  <2>1. /\ rtAct' = rtAct /\ rtProc' = rtProc /\ rtRun' = rtRun
        /\ rtHost' = rtHost \cup {<<"container", rtRun>>}
        /\ \A r \in 1..MaxRuns : <<"container", r>> \notin rtHost
    BY <1>3 DEF dockerCreate, Acquire, Keep, runVars, Mine
  <2>2. \A r : <<"container", r>> \in rtHost' <=> r = rtRun
    BY <2>1, <1>1
  <2>3. \A r \in 1..MaxRuns : rtProc[r] # "running"
    BY <2>1 DEF NamedOK
  <2>4. QED
    BY <2>1, <2>2, <2>3 DEF NamedOK, Docker
<1>4. CASE dockerConflict \/ dockerCallError
  BY <1>4, NamedKept DEF dockerConflict, dockerCallError, CallError, ReturnWith, runVars, hostVars
<1>5. CASE dockerStart
  <2>1. /\ rtAct' = rtAct /\ rtPc = "start" /\ rtPc' = "attach" /\ rtRun' = rtRun
        /\ rtHost' = rtHost
        /\ rtProc' = [rtProc EXCEPT ![rtRun] = "running"]
    BY <1>5 DEF dockerStart, Acquire, runVars, Mine
  <2>2. <<"container", rtRun>> \in rtHost
    BY <2>1 DEF NamedOK
  <2>3. \A r \in 1..MaxRuns : rtProc'[r] = "running" => rtProc[r] = "running" \/ r = rtRun
    BY <2>1, <1>1
  <2>4. QED
    BY <2>1, <2>2, <2>3 DEF NamedOK, Docker
<1>6. CASE dockerSelect
  <2>1. /\ rtAct' = rtAct /\ rtPc' = "unwind" /\ rtHost' = rtHost
        /\ rtProc' = rtProc \/ rtProc' = [rtProc EXCEPT ![rtRun] = "nonzero"]
    BY <1>6 DEF dockerSelect, ReturnWith, runVars
  <2>2. \A r \in 1..MaxRuns : rtProc'[r] = "running" => rtProc[r] = "running"
    BY <2>1, <1>1
  <2>3. QED
    BY <2>1, <2>2, NamedKept
<1>7. CASE removeContainer
  <2>1. /\ rtAct' = rtAct /\ rtPc = "unwind" /\ rtPc' = "unwind" /\ rtRun' = rtRun
        /\ \/ /\ rtFaults' = rtFaults /\ rtHost' = rtHost \ {<<"container", rtRun>>}
           \/ /\ rtFaults' = rtFaults + 1 /\ rtHost' = rtHost
        /\ rtProc' = IF rtFaults' = rtFaults /\ rtProc[rtRun] = "running"
                     THEN [rtProc EXCEPT ![rtRun] = "nonzero"] ELSE rtProc
    BY <1>7 DEF removeContainer, Release, Works, Fails, Popped, Deferred, runVars, Mine
  <2>2. \A r \in 1..MaxRuns : rtProc'[r] = "running" => rtProc[r] = "running"
    BY <2>1, <1>1
  <2>3. CASE rtHost' = rtHost
    BY <2>1, <2>2, <2>3, NamedKept
  <2>4. CASE rtFaults' = rtFaults /\ rtHost' = rtHost \ {<<"container", rtRun>>}
    <3>1. rtRun \in 1..MaxRuns
      BY <1>1, <2>1 DEF Outside
    <3>2. rtProc'[rtRun] # "running"
      BY <2>1, <2>4, <1>1, <3>1
    <3>3. \A r : <<"container", r>> \in rtHost' <=> <<"container", r>> \in rtHost /\ r # rtRun
      BY <2>4
    <3>4. QED
      BY <2>1, <2>2, <3>2, <3>3 DEF NamedOK, Docker
  <2>5. QED
    BY <2>1, <2>3, <2>4
<1>8. QED
  BY <1>2, <1>3, <1>4, <1>5, <1>6, <1>7

\* A create or a start whose answer is lost.
LEMMA NamedLost ==
  ASSUME RtInv, NamedOK, Docker, AnswerLost
  PROVE  NamedOK'
<1>1. /\ rtProc \in [1..MaxRuns -> {"none", "pending", "running", "dying", "zero",
                                    "nonzero", "podFailed"}]
      /\ rtHost \subseteq Kinds \X (1..MaxRuns)
  BY DEF RtInv, RtTyped, RtTypeOK
<1>2. rtAct' = rtAct /\ rtPc' = "unwind" /\ rtRun' = rtRun
  BY DEF AnswerLost, ReturnWith
<1>3. LostContainer \/ LostStart
  BY DEF AnswerLost, LostJob, LostTask, Docker, Containerd, Kubernetes
<1>4. CASE LostContainer
  <2>1. /\ rtProc' = rtProc /\ rtHost' = rtHost \cup {<<"container", rtRun>>}
        /\ \A r \in 1..MaxRuns : <<"container", r>> \notin rtHost
    BY <1>4 DEF LostContainer, Mine
  <2>2. \A r : <<"container", r>> \in rtHost' <=> r = rtRun
    BY <1>1, <2>1
  <2>3. \A r \in 1..MaxRuns : rtProc[r] # "running"
    BY <2>1 DEF NamedOK
  <2>4. QED
    BY <1>2, <2>1, <2>2, <2>3 DEF NamedOK, Docker
<1>5. CASE LostStart
  <2>1. rtPc = "start" /\ rtHost' = rtHost /\ rtProc' = [rtProc EXCEPT ![rtRun] = "running"]
    BY <1>5 DEF LostStart
  <2>2. <<"container", rtRun>> \in rtHost
    BY <2>1 DEF NamedOK
  <2>3. \A r \in 1..MaxRuns : rtProc'[r] = "running" => rtProc[r] = "running" \/ r = rtRun
    BY <1>1, <2>1
  <2>4. QED
    BY <1>2, <2>1, <2>2, <2>3 DEF NamedOK, Docker
<1>6. QED
  BY <1>3, <1>4, <1>5

\* Every step keeps the containers of Docker unique.
LEMMA NamedStep == RtInv /\ NamedOK /\ [RtNext]_rtVars => NamedOK'
<1> SUFFICES ASSUME RtInv, NamedOK, [RtNext]_rtVars PROVE NamedOK'
  OBVIOUS
<1>1. rtAct' = rtAct
  BY DEF RtNext, rtVars, runVars, hostVars, Execute, RunEnds, DeadlinePasses, AgentDies, AgentReturns,
         ProcessEnds, dockerPull, dockerCreate, dockerConflict, dockerStart, dockerAttach,
         dockerCallError, dockerSelect, containerdPull, prepareDNSFiles, dataStoreDir,
         createContainer, writeLogConfig, newJSONLogPair, NewTask, NewTaskError, SetupNetwork,
         taskWait, taskStart, containerdCallError, containerdSelect, jobFor, createJob,
         adoptExistingJob, kubernetesCallError, waitForPod, watchForTerminatedPod, PodStarts,
         JobDeadline, JobCollected, cleanupScratch, removeContainer, deleteTask, deleteContainer,
         deleteJob, ExecuteReturns, Acquire, FileStep, CallError, FileError, Popped, AnswerLost
<1>2. CASE ~Docker
  BY <1>1, <1>2 DEF NamedOK, Docker
<1>3. CASE Docker /\ RtNext
  <2>1. ~Containerd /\ ~Kubernetes
    BY <1>3 DEF Docker, Containerd, Kubernetes
  <2>2. ~(\/ containerdPull \/ prepareDNSFiles \/ dataStoreDir \/ createContainer
          \/ writeLogConfig \/ newJSONLogPair \/ NewTask \/ NewTaskError
          \/ SetupNetwork \/ taskWait \/ taskStart \/ containerdCallError
          \/ containerdSelect \/ deleteTask \/ deleteContainer)
    BY <2>1 DEF containerdPull, prepareDNSFiles, dataStoreDir, createContainer, writeLogConfig,
                newJSONLogPair, NewTask, NewTaskError, SetupNetwork, taskWait, taskStart,
                containerdCallError, containerdSelect, deleteTask, deleteContainer
  <2>3. ~(\/ jobFor \/ createJob \/ adoptExistingJob \/ kubernetesCallError
          \/ waitForPod \/ watchForTerminatedPod)
    BY <2>1 DEF jobFor, createJob, adoptExistingJob, kubernetesCallError, waitForPod,
                watchForTerminatedPod
  <2>4. QED
    BY <1>3, <2>2, <2>3, NamedAround, NamedDocker, NamedLost DEF RtNext
<1>4. CASE UNCHANGED rtVars
  BY <1>4, NamedKept DEF rtVars
<1>5. QED
  BY <1>2, <1>3, <1>4

\* Inside Execute no result is known yet, and the Action is not reported.
LEMMA NotYetOk ==
  ASSUME OkRan, rtPc \notin Outside \cup {"unwind", "returned"}
  PROVE  rtErr # "ok" /\ rtState = "none"
BY DEF OkRan, Outside

\* A step, before the report, after which no success stands.
LEMMA NotOkKept ==
  ASSUME OkRan, rtPc # "reporting", rtState' = rtState, rtErr' # "ok"
  PROVE  OkRan'
BY DEF OkRan

\* A step that keeps the result and the exits seen so far.
LEMMA OkKept ==
  ASSUME OkRan, rtErr' = rtErr, rtAct' = rtAct, rtRun' = rtRun, rtState' = rtState,
         rtPc' = rtPc \/ (rtPc # "reporting" /\ rtPc' \in Outside \cup {"unwind", "returned"}),
         \A r \in 1..MaxRuns : rtProc[r] = "zero" => rtProc'[r] = "zero"
  PROVE  OkRan'
<1>1. ExitedZero => ExitedZero'
  BY DEF ExitedZero, Kubernetes
<1>2. QED
  BY <1>1 DEF OkRan, Outside

\* A call that returns "ok" for a process that exited with zero.
LEMMA OkReturned ==
  ASSUME OkRan, rtPc # "reporting", rtState' = rtState, rtPc' = "unwind", ExitedZero,
         rtProc' = rtProc, rtAct' = rtAct, rtRun' = rtRun
  PROVE  OkRan'
<1>1. ExitedZero'
  BY DEF ExitedZero, Kubernetes
<1>2. QED
  BY <1>1 DEF OkRan

\* The steps of Run and of the environment.
LEMMA OkAround ==
  ASSUME RtInv, OkRan,
         \/ Execute \/ RunEnds \/ DeadlinePasses \/ AgentDies \/ AgentReturns
         \/ ProcessEnds \/ PodStarts \/ JobDeadline \/ JobCollected
  PROVE  OkRan'
<1>1. /\ rtProc \in [1..MaxRuns -> {"none", "pending", "running", "dying", "zero",
                                    "nonzero", "podFailed"}]
      /\ rtErr \in {"none", "ok", "fail", "timeout"}
  BY DEF RtInv, RtTyped, RtTypeOK
<1>2. CASE Execute
  BY <1>2, NotOkKept DEF Execute
<1>3. CASE RunEnds
  <2>1. /\ rtPc = "returned" /\ rtPc' = "reporting" /\ rtErr' = rtErr /\ rtProc' = rtProc
        /\ rtAct' = rtAct /\ rtRun' = rtRun
        /\ rtState' = "SUCCESS" => rtErr = "ok"
    BY <1>3 DEF RunEnds, hostVars
  <2>2. ExitedZero' <=> ExitedZero
    BY <2>1 DEF ExitedZero, Kubernetes
  <2>3. QED
    BY <2>1, <2>2 DEF OkRan, Outside
<1>4. CASE DeadlinePasses \/ AgentDies \/ AgentReturns
  BY <1>4, OkKept DEF DeadlinePasses, AgentDies, AgentReturns, runVars, hostVars, Outside
<1>5. CASE ProcessEnds \/ PodStarts \/ JobDeadline \/ JobCollected
  <2>1. /\ rtAct' = rtAct /\ rtErr' = rtErr /\ rtPc' = rtPc /\ rtRun' = rtRun
        /\ rtState' = rtState
        /\ \/ rtProc' = rtProc
           \/ \E r, p : rtProc[r] # "zero" /\ rtProc' = [rtProc EXCEPT ![r] = p]
    <3>1. CASE ProcessEnds
      BY <3>1 DEF ProcessEnds, runVars
    <3>2. CASE PodStarts
      BY <3>2 DEF PodStarts, runVars
    <3>3. CASE JobDeadline \/ JobCollected
      BY <3>3 DEF JobDeadline, JobCollected, PodOfAction, runVars
    <3>4. QED
      BY <1>5, <3>1, <3>2, <3>3
  <2>2. \A r \in 1..MaxRuns : rtProc[r] = "zero" => rtProc'[r] = "zero"
    BY <2>1, <1>1
  <2>3. QED
    BY <2>1, <2>2, OkKept
<1>6. QED
  BY <1>2, <1>3, <1>4, <1>5

\* The steps of Execute before it returns.
LEMMA OkInside ==
  ASSUME OkRan, rtPc \notin Outside \cup {"unwind", "returned"},
         rtState' = rtState, rtErr' \in {rtErr, "fail", "timeout"}
  PROVE  OkRan'
BY NotYetOk, NotOkKept DEF Outside

\* Where the steps of Execute start, and what they do with the error.
LEMMA OkDocker ==
  ASSUME RtInv, OkRan,
         \/ dockerPull \/ dockerCreate \/ dockerConflict \/ dockerStart
         \/ dockerAttach \/ dockerCallError \/ dockerSelect
  PROVE  OkRan'
<1>1. CASE dockerPull \/ dockerCreate \/ dockerStart \/ dockerAttach
  <2>1. /\ rtPc \in {"image", "create", "start", "attach"}
        /\ rtErr' = rtErr /\ rtState' = rtState
    BY <1>1 DEF dockerPull, dockerCreate, dockerStart, dockerAttach, Acquire, runVars
  <2>2. QED
    BY <2>1, OkInside DEF Outside
<1>2. CASE dockerConflict \/ dockerCallError
  <2>1. /\ rtPc \in {"image", "create", "start", "attach"}
        /\ rtErr' \in {"fail", "timeout"} /\ rtState' = rtState
    BY <1>2 DEF dockerConflict, dockerCallError, CallError, ReturnWith, CtxError, runVars
  <2>2. QED
    BY <2>1, OkInside DEF Outside
<1>3. CASE dockerSelect
  <2>1. /\ rtPc = "select" /\ rtPc' = "unwind" /\ rtState' = rtState
        /\ rtAct' = rtAct /\ rtRun' = rtRun
        /\ \/ rtErr' \in {"fail", "timeout"}
           \/ rtProc[rtRun] = "zero" /\ rtProc' = rtProc
    BY <1>3 DEF dockerSelect, ReturnWith, runVars
  <2>2. rtRun \in 1..MaxRuns
    BY <2>1, RtAssumption DEF RtInv, RtTyped, RtTypeOK, Outside
  <2>3. QED
    BY <2>1, <2>2, OkInside, OkReturned DEF Outside, ExitedZero
<1>4. QED
  BY <1>1, <1>2, <1>3

\* The same for containerd.
LEMMA OkContainerd ==
  ASSUME RtInv, OkRan,
         \/ containerdPull \/ prepareDNSFiles \/ dataStoreDir \/ createContainer
         \/ writeLogConfig \/ newJSONLogPair \/ NewTask \/ NewTaskError
         \/ SetupNetwork \/ taskWait \/ taskStart \/ containerdCallError
         \/ containerdSelect
  PROVE  OkRan'
<1>1. CASE containerdPull \/ createContainer \/ NewTask \/ taskWait \/ taskStart
  <2>1. /\ rtPc \in {"image", "create", "task", "wait", "start"}
        /\ rtErr' = rtErr /\ rtState' = rtState
    BY <1>1 DEF containerdPull, createContainer, NewTask, taskWait, taskStart, Acquire, runVars
  <2>2. QED
    BY <2>1, OkInside DEF Outside
<1>2. CASE prepareDNSFiles \/ dataStoreDir \/ writeLogConfig \/ newJSONLogPair \/ SetupNetwork
  <2>1. /\ rtPc \in {"dns", "store", "logs", "logfile", "net"}
        /\ rtErr' = rtErr /\ rtState' = rtState
    BY <1>2 DEF prepareDNSFiles, dataStoreDir, writeLogConfig, newJSONLogPair, SetupNetwork,
                FileStep, runVars
  <2>2. QED
    BY <2>1, OkInside DEF Outside
<1>3. CASE NewTaskError \/ containerdCallError
  <2>1. /\ rtPc \in {"image", "create", "wait", "start", "dns", "store", "logs", "logfile", "task"}
        /\ rtErr' \in {"fail", "timeout"} /\ rtState' = rtState
    BY <1>3 DEF NewTaskError, containerdCallError, CallError, FileError, ReturnWith, CtxError,
                runVars
  <2>2. QED
    BY <2>1, OkInside DEF Outside
<1>4. CASE containerdSelect
  <2>1. /\ rtPc = "select" /\ rtPc' = "unwind" /\ rtState' = rtState
        /\ rtAct' = rtAct /\ rtRun' = rtRun
        /\ \/ rtErr' \in {"fail", "timeout"}
           \/ rtProc[rtRun] = "zero" /\ rtProc' = rtProc
    BY <1>4 DEF containerdSelect, ReturnWith, runVars
  <2>2. rtRun \in 1..MaxRuns
    BY <2>1, RtAssumption DEF RtInv, RtTyped, RtTypeOK, Outside
  <2>3. QED
    BY <2>1, <2>2, OkInside, OkReturned DEF Outside, ExitedZero
<1>5. QED
  BY <1>1, <1>2, <1>3, <1>4

\* The same for Kubernetes.
LEMMA OkKubernetes ==
  ASSUME RtInv, OkRan,
         \/ jobFor \/ createJob \/ adoptExistingJob \/ kubernetesCallError
         \/ waitForPod \/ watchForTerminatedPod
  PROVE  OkRan'
<1>1. CASE jobFor \/ createJob \/ adoptExistingJob \/ kubernetesCallError
  <2>1. /\ rtPc \in {"jobFor", "create", "list"}
        /\ rtErr' \in {rtErr, "fail", "timeout"} /\ rtState' = rtState
    BY <1>1 DEF jobFor, createJob, adoptExistingJob, kubernetesCallError, CallError,
                ReturnWith, CtxError, runVars
  <2>2. QED
    BY <2>1, OkInside DEF Outside
<1>2. CASE waitForPod \/ watchForTerminatedPod
  <2>1. /\ rtPc \in {"list", "watch"} /\ rtState' = rtState /\ rtAct' = rtAct
        /\ rtRun' = rtRun /\ rtProc' = rtProc /\ Kubernetes
        /\ \/ rtErr' \in {rtErr, "timeout"}
           \/ rtPc' = "unwind" /\ rtErr' = exitError
    BY <1>2 DEF waitForPod, watchForTerminatedPod, ReturnWith, runVars, hostVars
  <2>2. CASE rtErr' \in {rtErr, "fail", "timeout"}
    BY <2>1, <2>2, OkInside DEF Outside
  <2>3. CASE rtPc' = "unwind" /\ rtErr' = exitError /\ exitError = "ok"
    <3>1. rtJob.run # 0 /\ rtProc[rtJob.run] = "zero"
      BY <2>3 DEF exitError, PodOfAction
    <3>2. rtJob.run \in 0..MaxRuns
      BY DEF RtInv, RtTyped, RtTypeOK
    <3>3. ExitedZero
      BY <2>1, <3>1, <3>2, RtAssumption DEF ExitedZero
    <3>4. QED
      BY <2>1, <2>3, <3>3, OkReturned
  <2>4. QED
    BY <2>1, <2>2, <2>3 DEF exitError
<1>3. QED
  BY <1>1, <1>2

\* The deferred calls change neither the result nor an exit that was seen.
LEMMA OkDeferred ==
  ASSUME RtInv, OkRan,
         \/ cleanupScratch \/ removeContainer \/ deleteTask \/ deleteContainer
         \/ deleteJob \/ ExecuteReturns
  PROVE  OkRan'
<1>1. rtProc \in [1..MaxRuns -> {"none", "pending", "running", "dying", "zero",
                                 "nonzero", "podFailed"}]
  BY DEF RtInv, RtTyped, RtTypeOK
<1>2. /\ rtPc = "unwind" /\ rtPc' \in {"unwind", "returned"} /\ rtErr' = rtErr
      /\ rtAct' = rtAct /\ rtRun' = rtRun /\ rtState' = rtState
  BY DEF cleanupScratch, removeContainer, deleteTask, deleteContainer, deleteJob, ExecuteReturns,
         Deferred, Popped, runVars
<1>3. \/ rtProc' = rtProc
      \/ \E r, p : rtProc[r] # "zero" /\ rtProc' = [rtProc EXCEPT ![r] = p]
  BY DEF cleanupScratch, removeContainer, deleteTask, deleteContainer, deleteJob, ExecuteReturns,
         hostVars
<1>4. \A r \in 1..MaxRuns : rtProc[r] = "zero" => rtProc'[r] = "zero"
  BY <1>1, <1>3
<1>5. QED
  BY <1>2, <1>4, OkKept

\* Every step keeps that success stands for an exit with zero.
LEMMA OkStep == RtInv /\ OkRan /\ [RtNext]_rtVars => OkRan'
<1> SUFFICES ASSUME RtInv, OkRan, [RtNext]_rtVars PROVE OkRan'
  OBVIOUS
<1>0. ASSUME AnswerLost PROVE OkRan'
  <2>1. /\ rtPc \in {"create", "task", "start"} /\ rtState' = rtState
        /\ rtErr' \in {"fail", "timeout"}
    BY <1>0 DEF AnswerLost, LostContainer, LostJob, LostTask, LostStart, ReturnWith
  <2>2. QED
    BY <2>1, OkInside DEF Outside
<1>1. CASE RtNext
  BY <1>0, <1>1, OkAround, OkDocker, OkContainerd, OkKubernetes, OkDeferred DEF RtNext
<1>2. CASE UNCHANGED rtVars
  BY <1>2, OkKept DEF rtVars
<1>3. QED
  BY <1>1, <1>2

\* A volume whose last option is ro is not mounted writable.
LEMMA ModeIsLast ==
  ASSUME NEW opts \in Seq(STRING), VolumeMode(opts) = "rw", opts # <<>>
  PROVE  Last(opts) # "ro"
<1> SUFFICES ASSUME Last(opts) = "ro" PROVE FALSE
  OBVIOUS
<1>1. /\ Len(opts) \in Nat \ {0} /\ DOMAIN opts = 1..Len(opts)
      /\ Len(opts) \in DOMAIN opts /\ opts[Len(opts)] = "ro"
  BY DEF Last
<1>2. Len(opts) \in Modes(opts) /\ \A i \in Modes(opts) : i \in 1..Len(opts)
  BY <1>1 DEF Modes
<1>3. \A i \in Modes(opts) : Len(opts) >= i
  BY <1>1, <1>2
<1>4. /\ Max(Modes(opts)) \in Modes(opts)
      /\ \A i \in Modes(opts) : Max(Modes(opts)) >= i
  BY <1>2, <1>3 DEF Max
<1>5. Max(Modes(opts)) = Len(opts)
  BY <1>1, <1>2, <1>4
<1>6. VolumeMode(opts) = "ro"
  BY <1>1, <1>2, <1>5 DEF VolumeMode
<1>7. QED
  BY <1>6

\* The mounts of an Action are its volumes, none wider than asked.
LEMMA MountsAsAsked ==
  ASSUME NEW a \in RtActions, NEW m \in parseVolumes(a.volumes)
  PROVE  \E v \in ToSet(a.volumes) :
           v.name = m.src /\ (m.mode = "rw" => v.opts = <<>> \/ Last(v.opts) # "ro")
<1>1. PICK v \in ToSet(a.volumes) : m = [src |-> v.name, mode |-> VolumeMode(v.opts)]
  BY DEF parseVolumes
<1>2. v.opts \in Seq(STRING)
  BY HostAssumption
<1>3. m.src = v.name /\ m.mode = VolumeMode(v.opts)
  BY <1>1
<1>4. m.mode = "rw" => v.opts = <<>> \/ Last(v.opts) # "ro"
  BY <1>2, <1>3, ModeIsLast
<1>5. QED
  BY <1>3, <1>4

\* The nameservers of a container in an isolated network.
LEMMA NameserversReachable ==
  ASSUME NEW a \in RtActions
  PROVE  /\ buildResolvConf(a.host, TRUE) # {}
         /\ buildResolvConf(a.host, TRUE) \cap a.host.loopback = {}
<1>1. "public" \notin a.host.loopback
  BY HostAssumption
<1>2. QED
  BY <1>1 DEF buildResolvConf

\* A step that leaves the specification of the container alone.
LEMMA SpecKept ==
  ASSUME SpecOK, rtSpec' = rtSpec, rtAct' = rtAct, rtRun' = rtRun,
         <<"dns", rtRun>> \in rtHost' => <<"dns", rtRun>> \in rtHost
  PROVE  SpecOK'
<1>1. Containerd' = Containerd /\ Isolated' = Isolated
  BY DEF Containerd, Isolated
<1>2. ContainerAsAsked'
  BY <1>1 DEF SpecOK, ContainerAsAsked
<1>3. QED
  BY <1>2 DEF SpecOK

\* The steps that leave it alone, or acquire something else.
LEMMA SpecAround ==
  ASSUME SpecOK,
         \/ RunEnds \/ DeadlinePasses \/ AgentDies \/ AgentReturns
         \/ ProcessEnds \/ PodStarts \/ JobDeadline \/ JobCollected
         \/ jobFor \/ createJob \/ adoptExistingJob \/ kubernetesCallError
         \/ waitForPod \/ watchForTerminatedPod \/ dockerConflict \/ dockerCallError
         \/ dockerSelect \/ containerdCallError \/ containerdSelect \/ ExecuteReturns
         \/ deleteJob
  PROVE  SpecOK'
<1>1. rtSpec' = rtSpec /\ rtAct' = rtAct /\ rtRun' = rtRun /\ rtHost' = rtHost
  BY DEF RunEnds, DeadlinePasses, AgentDies, AgentReturns, ProcessEnds, PodStarts, JobDeadline,
         JobCollected, jobFor, createJob, adoptExistingJob, kubernetesCallError, waitForPod,
         watchForTerminatedPod, dockerConflict, dockerCallError, dockerSelect,
         containerdCallError, containerdSelect, ExecuteReturns, deleteJob, CallError, FileError,
         Popped, runVars, hostVars
<1>2. QED
  BY <1>1, SpecKept

\* The steps that acquire or release.
LEMMA SpecAcquire ==
  ASSUME SpecOK,
         \/ dockerPull \/ dockerCreate \/ dockerStart \/ dockerAttach
         \/ containerdPull \/ dataStoreDir \/ writeLogConfig \/ newJSONLogPair
         \/ NewTask \/ NewTaskError \/ SetupNetwork \/ taskWait \/ taskStart
         \/ cleanupScratch \/ removeContainer \/ deleteTask \/ deleteContainer
  PROVE  SpecOK'
<1>1. CASE \/ dockerPull \/ dockerCreate \/ dockerStart \/ dockerAttach
           \/ containerdPull \/ NewTask \/ taskWait \/ taskStart
  <2>1. /\ rtSpec' = rtSpec /\ rtAct' = rtAct /\ rtRun' = rtRun
        /\ \E kinds \in {{}, {"container"}, {"stream"}, {"task"}} :
             rtHost' = rtHost \cup {Mine(k) : k \in kinds}
    BY <1>1 DEF dockerPull, dockerCreate, dockerStart, dockerAttach, containerdPull, NewTask,
                taskWait, taskStart, Acquire, Keep, runVars
  <2>2. <<"dns", rtRun>> \in rtHost' => <<"dns", rtRun>> \in rtHost
    BY <2>1 DEF Mine
  <2>3. QED
    BY <2>1, <2>2, SpecKept
<1>2. CASE dataStoreDir \/ writeLogConfig \/ newJSONLogPair \/ SetupNetwork
  <2>1. /\ rtSpec' = rtSpec /\ rtAct' = rtAct /\ rtRun' = rtRun
        /\ \E kinds \in {{}, {"logs"}, {"logfile"}, {"net"}} :
             rtHost' = rtHost \cup {Mine(k) : k \in kinds}
    BY <1>2 DEF dataStoreDir, writeLogConfig, newJSONLogPair, SetupNetwork, FileStep, runVars
  <2>2. <<"dns", rtRun>> \in rtHost' => <<"dns", rtRun>> \in rtHost
    BY <2>1 DEF Mine
  <2>3. QED
    BY <2>1, <2>2, SpecKept
<1>3. CASE NewTaskError \/ cleanupScratch \/ removeContainer \/ deleteTask \/ deleteContainer
  <2>1. /\ rtSpec' = rtSpec /\ rtAct' = rtAct /\ rtRun' = rtRun
        /\ rtHost' \subseteq rtHost
    BY <1>3 DEF NewTaskError, cleanupScratch, removeContainer, deleteTask, deleteContainer,
                Release, Popped, runVars
  <2>2. QED
    BY <2>1, SpecKept
<1>4. QED
  BY <1>1, <1>2, <1>3

\* The steps that write the specification.
LEMMA SpecWritten ==
  ASSUME RtInv, SpecOK, Execute \/ prepareDNSFiles \/ createContainer
  PROVE  SpecOK'
<1>1. /\ rtAct \in RtActions /\ rtRun \in Nat
      /\ \A what \in rtHost : what[2] <= rtRun
  BY DEF RtInv, RtTyped, RtTypeOK
<1>2. PICK m, d, a : rtSpec = [mounts |-> m, dns |-> d, args |-> a]
  BY DEF SpecOK
<1>3. CASE Execute
  <2>1. rtHost' = rtHost /\ rtRun' = rtRun + 1 /\ rtSpec' = [mounts |-> {}, dns |-> {}, args |-> <<>>]
    BY <1>3 DEF Execute, NoSpec
  <2>2. <<"dns", rtRun'>> \notin rtHost'
    <3>1. <<"dns", rtRun + 1>>[2] = rtRun + 1 /\ ~(rtRun + 1 <= rtRun)
      BY <1>1
    <3>2. QED
      BY <1>1, <2>1, <3>1
  <2>3. rtSpec'.mounts = {}
    BY <2>1
  <2>4. ContainerAsAsked'
    BY <2>2, <2>3 DEF ContainerAsAsked
  <2>5. QED
    BY <2>1, <2>4 DEF SpecOK
<1>4. CASE prepareDNSFiles
  <2>1. /\ rtAct' = rtAct /\ rtRun' = rtRun
        /\ rtSpec' = [rtSpec EXCEPT !.dns = buildResolvConf(rtAct.host, Isolated)]
    BY <1>4 DEF prepareDNSFiles, FileStep, runVars
  <2>2. rtSpec' = [mounts |-> m, dns |-> buildResolvConf(rtAct.host, Isolated), args |-> a]
    BY <1>2, <2>1
  <2>3. rtSpec'.mounts = rtSpec.mounts /\ rtSpec'.dns = buildResolvConf(rtAct.host, Isolated)
    BY <1>2, <2>2
  <2>4. Isolated => rtSpec'.dns # {} /\ rtSpec'.dns \cap rtAct.host.loopback = {}
    <3>1. ASSUME Isolated PROVE rtSpec'.dns = buildResolvConf(rtAct.host, TRUE)
      BY <2>3, <3>1 DEF Isolated
    <3>2. QED
      BY <1>1, <3>1, NameserversReachable
  <2>5. Isolated' = Isolated
    BY <2>1 DEF Isolated
  <2>6. ContainerAsAsked'
    BY <2>1, <2>3, <2>4, <2>5 DEF SpecOK, ContainerAsAsked
  <2>7. QED
    BY <2>2, <2>6 DEF SpecOK
<1>5. CASE createContainer
  <2>1. /\ rtAct' = rtAct /\ rtRun' = rtRun
        /\ rtHost' = rtHost \cup {Mine(k) : k \in {"container"}}
        /\ rtSpec' = [rtSpec EXCEPT !.mounts = parseVolumes(rtAct.volumes),
                                    !.args = ProcessArgs(rtAct)]
    BY <1>5 DEF createContainer, Acquire, runVars
  <2>2. rtSpec' = [mounts |-> parseVolumes(rtAct.volumes), dns |-> d, args |-> ProcessArgs(rtAct)]
    BY <1>2, <2>1
  <2>3. rtSpec'.dns = rtSpec.dns /\ rtSpec'.mounts = parseVolumes(rtAct.volumes)
    BY <1>2, <2>2
  <2>4. <<"dns", rtRun>> \in rtHost' => <<"dns", rtRun>> \in rtHost
    BY <2>1 DEF Mine
  <2>5. Isolated' = Isolated /\ Containerd' = Containerd
    BY <2>1 DEF Isolated, Containerd
  <2>6. ContainerAsAsked'
    BY <1>1, <2>1, <2>3, <2>4, <2>5, MountsAsAsked DEF SpecOK, ContainerAsAsked
  <2>7. QED
    BY <2>2, <2>6 DEF SpecOK
<1>6. QED
  BY <1>3, <1>4, <1>5

\* Every step keeps the specification of the container as asked.
LEMMA SpecStep == RtInv /\ SpecOK /\ [RtNext]_rtVars => SpecOK'
<1> SUFFICES ASSUME RtInv, SpecOK, [RtNext]_rtVars PROVE SpecOK'
  OBVIOUS
<1>0. ASSUME AnswerLost PROVE SpecOK'
  <2>1. /\ rtSpec' = rtSpec /\ rtAct' = rtAct /\ rtRun' = rtRun
        /\ \A what \in rtHost' : what \in rtHost \/ what \in {Mine("container"), Mine("task")}
    BY <1>0 DEF AnswerLost, LostContainer, LostJob, LostTask, LostStart
  <2>2. <<"dns", rtRun>> \in rtHost' => <<"dns", rtRun>> \in rtHost
    BY <2>1 DEF Mine
  <2>3. QED
    BY <2>1, <2>2, SpecKept
<1>1. CASE RtNext
  BY <1>0, <1>1, SpecAround, SpecAcquire, SpecWritten DEF RtNext
<1>2. CASE UNCHANGED rtVars
  BY <1>2, SpecKept DEF rtVars
<1>3. QED
  BY <1>1, <1>2

\* The invariant holds at first.
LEMMA AskedInit == RtInit => AskedInv
<1> SUFFICES ASSUME RtInit PROVE AskedInv
  OBVIOUS
<1>1. /\ rtPc = "announced" /\ rtErr = "none" /\ rtState = "none" /\ rtHost = {}
      /\ rtProc = [r \in 1..MaxRuns |-> "none"]
      /\ rtSpec = [mounts |-> {}, dns |-> {}, args |-> <<>>]
  BY DEF RtInit, NoSpec
<1>2. NamedOK
  BY <1>1 DEF NamedOK
<1>3. OkRan
  BY <1>1 DEF OkRan
<1>4. SpecOK
  <2>1. rtSpec.mounts = {} /\ <<"dns", rtRun>> \notin rtHost
    BY <1>1
  <2>2. QED
    BY <1>1, <2>1 DEF SpecOK, ContainerAsAsked
<1>5. QED
  BY <1>2, <1>3, <1>4, RtInitInv DEF AskedInv

\* Together with the invariant of the runtimes: under Docker the containers
\* of the Action are one at most and hold every running process, an Execute
\* without error has seen an exit with zero, and the container's
\* specification follows the Action.
THEOREM AskedInvariance == RtSpec => []AskedInv
<1>1. AskedInv /\ [RtNext]_rtVars => AskedInv'
  BY RtNextInv, NamedStep, OkStep, SpecStep DEF AskedInv
<1>2. QED
  BY <1>1, AskedInit, PTL DEF RtSpec

\* For every Action, number of calls, failures and crashes: two processes of
\* one Action never run at once under Docker (ContainerCreate's name) and
\* Kubernetes (the Job's name), Run reports SUCCESS only after an exit with
\* zero, and a containerd container gets reachable nameservers and no volume
\* more writable than asked.
THEOREM RunsAsAsked == RtSpec => []RunAsAsked
<1>1. AskedInv => RunAsAsked
  <2> SUFFICES ASSUME AskedInv PROVE RunAsAsked
    OBVIOUS
  <2>1. RtInv /\ NamedOK /\ OkRan /\ SpecOK
    BY DEF AskedInv
  <2>2. OneInstance
    <3> SUFFICES ASSUME ~Containerd
                 PROVE  Cardinality({r \in 1..MaxRuns : rtProc[r] \in {"pending", "running"}}) <= 1
      BY DEF OneInstance
    <3>1. \A r \in 1..MaxRuns :
            /\ rtProc[r] = "pending" => Holder = "job"
            /\ rtProc[r] \in {"pending", "running"} /\ Holder = "job" => rtJob.run = r
      BY <2>1 DEF RtInv, JobsOK
    <3>2. Holder = "job" \/ (Docker /\ Holder = "container")
      BY DEF Holder
    <3>3. ASSUME NEW r \in 1..MaxRuns, NEW s \in 1..MaxRuns,
                 rtProc[r] \in {"pending", "running"}, rtProc[s] \in {"pending", "running"}
          PROVE  r = s
      BY <2>1, <3>1, <3>2, <3>3 DEF NamedOK
    <3> DEFINE S == {r \in 1..MaxRuns : rtProc[r] \in {"pending", "running"}}
    <3>4. S = {} \/ \E r : S = {r}
      BY <3>3
    <3>5. Cardinality(S) \in {0, 1}
      BY <3>4, FS_EmptySet, FS_Singleton
    <3>6. QED
      BY <3>5
  <2>3. SuccessRan
    BY <2>1 DEF OkRan, ExitedZero, SuccessRan
  <2>4. QED
    BY <2>1, <2>2, <2>3 DEF SpecOK, RunAsAsked
<1>2. QED
  BY <1>1, AskedInvariance, PTL

-----------------------------------------------------------------------------
(* What a call of Execute leaves behind                                    *)

\* Under containerd a task that still runs when Execute unwinds was met by
\* the deadline or by a call that failed.
Late == rtErr = "timeout" \/ rtFaults > 0

OnlyLate ==
  Containerd /\ rtPc \in {"unwind", "returned"} /\ rtProc[rtRun] \in {"running", "dying"} => Late

LeftInv == AskedInv /\ OnlyLate

\* The deferred calls and what happens beside them start no process.
LEMMA LateKept ==
  ASSUME RtInv, OnlyLate, rtPc \in {"unwind", "returned"},
         rtErr' = rtErr, rtRun' = rtRun, rtAct' = rtAct,
         rtFaults' = rtFaults \/ rtFaults' = rtFaults + 1,
         \A r \in 1..MaxRuns : rtProc'[r] \in {"running", "dying"} => rtProc[r] \in {"running", "dying"}
  PROVE  OnlyLate'
<1>1. rtFaults \in Nat /\ rtRun \in 1..MaxRuns
  BY RtAssumption DEF RtInv, RtTyped, RtTypeOK, Outside
<1>2. Late => Late'
  BY <1>1 DEF Late
<1>3. QED
  BY <1>1, <1>2 DEF OnlyLate, Containerd

\* The steps in which Execute returns.
LEMMA LateReturns ==
  ASSUME RtInv, Containerd,
         NewTaskError \/ containerdCallError \/ containerdSelect \/ AnswerLost
  PROVE  OnlyLate'
<1>1. rtFaults \in Nat /\ rtAct' = rtAct /\ rtRun' = rtRun
  BY DEF RtInv, RtTyped, RtTypeOK, NewTaskError, containerdCallError, containerdSelect, AnswerLost,
         CallError, FileError, runVars
<1>2. Fails => rtFaults' > 0
  BY <1>1 DEF Fails
<1>3. CASE NewTaskError
  BY <1>2, <1>3 DEF NewTaskError, ReturnWith, CtxError, OnlyLate, Late
<1>4. CASE containerdCallError
  <2>1. PICK at \in {"image", "create", "wait", "start", "dns", "store", "logs", "logfile"} :
          CallError(at) \/ FileError(at)
    BY <1>4 DEF containerdCallError
  <2>2. QED
    BY <1>2, <2>1 DEF CallError, FileError, ReturnWith, CtxError, OnlyLate, Late
<1>5. CASE containerdSelect
  BY <1>1, <1>5 DEF containerdSelect, ReturnWith, OnlyLate, Late
<1>6. CASE AnswerLost
  BY <1>2, <1>6 DEF AnswerLost, ReturnWith, OnlyLate, Late
<1>7. QED
  BY <1>3, <1>4, <1>5, <1>6

\* The steps beside Execute and after it.
LEMMA LateAround ==
  ASSUME RtInv, OnlyLate, Containerd,
         \/ Execute \/ RunEnds \/ DeadlinePasses \/ AgentDies \/ AgentReturns
         \/ ProcessEnds \/ PodStarts \/ JobDeadline \/ JobCollected
         \/ cleanupScratch \/ deleteTask \/ deleteContainer \/ deleteJob \/ ExecuteReturns
  PROVE  OnlyLate'
<1>1. /\ rtProc \in [1..MaxRuns -> {"none", "pending", "running", "dying", "zero",
                                    "nonzero", "podFailed"}]
      /\ \A r \in 1..MaxRuns : rtProc[r] # "pending"
  BY DEF RtInv, RtTyped, RtTypeOK, JobsOK, Holder, Containerd
<1>2. CASE Execute \/ RunEnds \/ AgentDies \/ AgentReturns
  BY <1>2 DEF Execute, RunEnds, AgentDies, AgentReturns, OnlyLate
<1>3. CASE \/ DeadlinePasses \/ ProcessEnds \/ PodStarts \/ JobDeadline \/ JobCollected
           \/ cleanupScratch \/ deleteTask \/ deleteContainer \/ deleteJob \/ ExecuteReturns
  <2>1. /\ rtErr' = rtErr /\ rtRun' = rtRun /\ rtAct' = rtAct
        /\ rtPc' = rtPc \/ rtPc = "unwind"
        /\ rtFaults' = rtFaults \/ rtFaults' = rtFaults + 1
    BY <1>3 DEF DeadlinePasses, ProcessEnds, PodStarts, JobDeadline, JobCollected, cleanupScratch,
                deleteTask, deleteContainer, deleteJob, ExecuteReturns, Popped, Deferred, Release, Works,
                Fails, runVars
  <2>2. \/ rtProc' = rtProc
        \/ \E r, p : p \notin {"running", "dying"} /\ rtProc' = [rtProc EXCEPT ![r] = p]
    <3>1. CASE PodStarts
      BY <1>1, <3>1 DEF PodStarts
    <3>2. CASE \/ DeadlinePasses \/ ProcessEnds \/ JobDeadline \/ JobCollected
      BY <3>2 DEF DeadlinePasses, ProcessEnds, JobDeadline, JobCollected, hostVars
    <3>3. CASE \/ cleanupScratch \/ deleteTask \/ deleteContainer \/ deleteJob \/ ExecuteReturns
      BY <3>3 DEF cleanupScratch, deleteTask, deleteContainer, deleteJob, ExecuteReturns, hostVars
    <3>4. QED
      BY <1>3, <3>1, <3>2, <3>3
  <2>3. \A r \in 1..MaxRuns : rtProc'[r] \in {"running", "dying"} => rtProc[r] \in {"running", "dying"}
    BY <1>1, <2>2
  <2>4. CASE rtPc \in {"unwind", "returned"}
    BY <2>1, <2>3, <2>4, LateKept
  <2>5. CASE rtPc \notin {"unwind", "returned"}
    BY <2>1, <2>5 DEF OnlyLate
  <2>6. QED
    BY <2>4, <2>5
<1>4. QED
  BY <1>2, <1>3

\* Every step keeps it.
LEMMA LateStep == RtInv /\ OnlyLate /\ [RtNext]_rtVars => OnlyLate'
<1> SUFFICES ASSUME RtInv, OnlyLate, [RtNext]_rtVars PROVE OnlyLate'
  OBVIOUS
<1>1. rtAct' = rtAct
  BY DEF RtNext, rtVars, runVars, hostVars, Execute, RunEnds, DeadlinePasses, AgentDies, AgentReturns,
         ProcessEnds, dockerPull, dockerCreate, dockerConflict, dockerStart, dockerAttach,
         dockerCallError, dockerSelect, containerdPull, prepareDNSFiles, dataStoreDir,
         createContainer, writeLogConfig, newJSONLogPair, NewTask, NewTaskError, SetupNetwork,
         taskWait, taskStart, containerdCallError, containerdSelect, jobFor, createJob,
         adoptExistingJob, kubernetesCallError, waitForPod, watchForTerminatedPod, PodStarts,
         JobDeadline, JobCollected, cleanupScratch, removeContainer, deleteTask, deleteContainer,
         deleteJob, ExecuteReturns, Acquire, FileStep, CallError, FileError, Popped, AnswerLost
<1>2. CASE ~Containerd
  BY <1>1, <1>2 DEF OnlyLate, Containerd
<1>3. CASE Containerd /\ RtNext
  <2>1. ~Docker /\ ~Kubernetes
    BY <1>3 DEF Docker, Containerd, Kubernetes
  <2>2. ~(\/ dockerPull \/ dockerCreate \/ dockerConflict \/ dockerStart \/ dockerAttach
          \/ dockerCallError \/ dockerSelect \/ removeContainer)
    BY <2>1 DEF dockerPull, dockerCreate, dockerConflict, dockerStart, dockerAttach,
                dockerCallError, dockerSelect, removeContainer
  <2>3. ~(\/ jobFor \/ createJob \/ adoptExistingJob \/ kubernetesCallError
          \/ waitForPod \/ watchForTerminatedPod)
    BY <2>1 DEF jobFor, createJob, adoptExistingJob, kubernetesCallError, waitForPod,
                watchForTerminatedPod
  <2>4. CASE \/ containerdPull \/ prepareDNSFiles \/ dataStoreDir \/ createContainer
             \/ writeLogConfig \/ newJSONLogPair \/ NewTask \/ SetupNetwork \/ taskWait \/ taskStart
    <3>1. rtPc' \notin {"unwind", "returned"}
      BY <2>4 DEF containerdPull, prepareDNSFiles, dataStoreDir, createContainer, writeLogConfig,
                  newJSONLogPair, NewTask, SetupNetwork, taskWait, taskStart, Acquire, FileStep
    <3>2. QED
      BY <3>1 DEF OnlyLate
  <2>5. QED
    BY <1>3, <2>2, <2>3, <2>4, LateReturns, LateAround DEF RtNext
<1>4. CASE UNCHANGED rtVars
  BY <1>4 DEF rtVars, OnlyLate, Late, Containerd
<1>5. QED
  BY <1>2, <1>3, <1>4

\* When Execute has returned, every deferred call has run, and what is left
\* on the host is what a failing clean-up, a lost answer or, after a failure,
\* containerd leaves; a process or Pod runs on only where one of those
\* happened, under containerd only after a timeout or a failing call and
\* never with success: for every Action, every number of calls, failures and
\* crashes.
THEOREM ExecuteReleasesAll == RtSpec => []ExecuteReleases
<1>1. LeftInv => ExecuteReleases
  <2> SUFFICES ASSUME LeftInv, rtPc = "returned" PROVE ExecuteReleases
    BY DEF ExecuteReleases
  <2>1. /\ RtInv /\ OkRan /\ OnlyLate /\ RtTyped /\ RtTypeOK /\ JobsOK /\ Covered /\ ProcCovered
        /\ rtPc \notin Outside
    BY DEF LeftInv, AskedInv, RtInv, RtTyped, Outside
  <2>2. \A k : ~InDefer(k)
    BY <2>1, HasOne DEF RtTyped, InDefer
  <2>3. ASSUME NEW what \in rtHost, what[2] = rtRun
        PROVE  what \in rtLeft \/ KeptForDebugging(what)
    <3>1. what \in Kinds \X (1..MaxRuns)
      BY <2>1 DEF RtTypeOK
    <3>2. what = <<what[1], rtRun>>
      BY <2>3, <3>1
    <3>3. what \in rtLeft \/ KeptAfterError(what[1])
      BY <2>1, <2>2, <2>3 DEF Covered
    <3>4. QED
      BY <3>2, <3>3 DEF KeptAfterError, KeptForDebugging, Mine
  <2>4. ASSUME RunsOn, ~Containerd
        PROVE  \E kind \in {"container", "job"} : Mine(kind) \in rtLeft
    <3>1. Holder \in {"container", "job"}
      BY <2>4 DEF Holder
    <3>2. Mine(Holder) \in rtLeft
      BY <2>1, <2>2, <2>4 DEF ProcCovered, RunsOn
    <3>3. QED
      BY <3>1, <3>2
  <2>5. ASSUME RunsOn, Containerd
        PROVE  rtErr # "ok" /\ (rtErr = "timeout" \/ rtFaults > 0)
    <3>1. rtRun \in 1..MaxRuns /\ Holder = "task" /\ ~Kubernetes
      BY <2>1, <2>5, RtAssumption DEF RtTyped, RtTypeOK, Holder, Containerd, Kubernetes, Docker
    <3>2. rtProc[rtRun] \in {"running", "dying"}
      BY <2>1, <2>5, <3>1 DEF RunsOn, JobsOK
    <3>3. rtErr # "ok"
      BY <2>1, <3>1, <3>2 DEF OkRan, ExitedZero
    <3>4. QED
      BY <2>1, <2>5, <3>2, <3>3 DEF OnlyLate, Late
  <2>6. QED
    BY <2>3, <2>4, <2>5 DEF ExecuteReleases
<1>2. RtInit => LeftInv
  BY AskedInit DEF LeftInv, OnlyLate, RtInit
<1>3. LeftInv /\ [RtNext]_rtVars => LeftInv'
  BY RtNextInv, NamedStep, OkStep, SpecStep, LateStep DEF LeftInv, AskedInv
<1>4. QED
  BY <1>1, <1>2, <1>3, PTL DEF RtSpec
=============================================================================
