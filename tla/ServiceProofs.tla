---------------------------- MODULE ServiceProofs ----------------------------
(***************************************************************************)
(* Proofs about Smee's syslog receiver (SyslogReceiver), the Hardware      *)
(* backends (HardwareBackend), Smee's ISO proxy (IsoStream), the HTTP side *)
(* with Tootles (HttpServices) and the life of the process (ProcessLife),  *)
(* for every number of parsers, queue length, pool of message objects,     *)
(* datagrams, file contents, lookups, image, magic string, patch and size  *)
(* of a read, every table of routes, set of Hardware, list of proxies and  *)
(* configuration of the process.                                           *)
(***************************************************************************)
EXTENDS SyslogReceiver, HardwareBackend, IsoStream, HttpServices, ProcessLife,
        SequenceTheorems, FiniteSetTheorems, WellFoundedInduction, TLAPS

-----------------------------------------------------------------------------
(* The syslog receiver.  A datagram that was read has a number; the        *)
(* inductive invariant follows the numbers.                                *)

Logged == {e.n : e \in syLog}

\* The objects that hold a datagram on its way to the log.
Outstanding ==
  {syQueue[i] : i \in DOMAIN syQueue} \cup (UNION {syBusy[p] : p \in Parsers})
  \cup (IF syReader = "send" THEN syHeld ELSE {})

\* What the receiver keeps in types.
SyTyped ==
  /\ SyTypeOK
  /\ syCount \in Nat
  /\ DOMAIN syData = SyMessages /\ syData = [m \in SyMessages |-> syData[m]]
  /\ \A m \in SyMessages : syData[m].n \in Nat

\* An object is in one place: in the pool, in the reader's hand, once in the
\* channel or with one parser.
OnePlace ==
  /\ syPool \cap syHeld = {}
  /\ \A i \in DOMAIN syQueue : syQueue[i] \notin syPool \cup syHeld
  /\ \A i, j \in DOMAIN syQueue : syQueue[i] = syQueue[j] => i = j
  /\ \A p \in Parsers : \A m \in syBusy[p] :
       /\ m \notin syPool \cup syHeld
       /\ \A i \in DOMAIN syQueue : syQueue[i] # m
       /\ \A o \in syBusy[p] : o = m
       /\ \A q \in Parsers : m \in syBusy[q] => p = q

\* The reader holds one object from Get until it is sent or given back.
HandOK ==
  /\ \A m, o \in syHeld : m = o
  /\ syReader \in {"get", "stopped"} => syHeld = {}
  /\ syReader = "send" => (syHeld # {} /\ \A m \in syHeld : syData[m].n = syCount)
  /\ syReader = "stopped" <=> syEnd = "closed"
  /\ syEnd = "closed" => syQueue = <<>> /\ \A p \in Parsers : syBusy[p] = {}

\* Every number is logged or outstanding, once, but for the last one of a
\* reader that stopped.
NumbersOK ==
  /\ Logged \subseteq 1..syCount
  /\ \A e, f \in syLog : e.n = f.n => e = f
  /\ \A m \in Outstanding : syData[m].n \in 1..syCount /\ syData[m].n \notin Logged
  /\ \A m, o \in Outstanding : syData[m].n = syData[o].n => m = o
  /\ \A k \in 1..syCount :
       \/ k \in Logged
       \/ \E m \in Outstanding : syData[m].n = k
       \/ syReader \in {"stopping", "stopped"} /\ k = syCount

SyInv == SyTyped /\ OnePlace /\ HandOK /\ NumbersOK

\* The first element of a sequence that is not empty, and the others.
LEMMA QueueHead ==
  ASSUME NEW S, NEW q \in Seq(S), q # <<>>
  PROVE  /\ 1 \in DOMAIN q /\ Head(q) = q[1] /\ Head(q) \in S
         /\ Tail(q) \in Seq(S) /\ Len(Tail(q)) = Len(q) - 1
         /\ \A i \in DOMAIN Tail(q) : i + 1 \in DOMAIN q /\ Tail(q)[i] = q[i + 1]
         /\ \A i \in DOMAIN q \ {1} : i - 1 \in DOMAIN Tail(q) /\ Tail(q)[i - 1] = q[i]
  OBVIOUS

\* A sequence with one more element at its end.
LEMMA QueueAppend ==
  ASSUME NEW S, NEW q \in Seq(S), NEW m \in S
  PROVE  /\ Append(q, m) \in Seq(S) /\ Len(Append(q, m)) = Len(q) + 1
         /\ DOMAIN Append(q, m) = DOMAIN q \cup {Len(q) + 1}
         /\ Len(q) + 1 \notin DOMAIN q
         /\ Append(q, m)[Len(q) + 1] = m
         /\ \A i \in DOMAIN q : Append(q, m)[i] = q[i]
  OBVIOUS

\* The invariant holds at first.
LEMMA SyInitInv == SyInit => SyInv
<1> SUFFICES ASSUME SyInit PROVE SyInv
  OBVIOUS
<1> USE DEF SyInit
<1>1. SyTyped
  BY SyAssumption DEF SyTyped, SyTypeOK, NoDatagram
<1>2. OnePlace /\ HandOK
  BY DEF OnePlace, HandOK
<1>3. NumbersOK
  <2>1. Outstanding = {} /\ Logged = {}
    BY DEF Outstanding, Logged
  <2>2. QED
    BY <2>1 DEF NumbersOK
<1>4. QED
  BY <1>1, <1>2, <1>3 DEF SyInv

\* The reader takes an object from the pool: what is outstanding stays so.
LEMMA GetStep == ASSUME SyInv, Get PROVE SyInv'
<1> PICK m \in syPool : syHeld' = {m} /\ syPool' = syPool \ {m}
  BY DEF Get
<1>0. /\ syReader = "get" /\ syReader' = "read"
      /\ UNCHANGED <<syData, syQueue, syBusy, syLog, syCtx, syEnd, syCount>>
  BY DEF Get
<1>1. SyTyped'
  BY <1>0 DEF SyInv, SyTyped, SyTypeOK
<1>2. OnePlace' /\ HandOK'
  BY <1>0 DEF SyInv, SyTyped, SyTypeOK, OnePlace, HandOK
<1>3. Outstanding' = Outstanding /\ Logged' = Logged
  BY <1>0 DEF Outstanding, Logged
<1>4. NumbersOK'
  BY <1>0, <1>3 DEF SyInv, NumbersOK
<1>5. QED
  BY <1>1, <1>2, <1>4 DEF SyInv

\* A datagram is read: its number is new, and only its own object changes.
LEMMA ReadStep == ASSUME SyInv, ReadFromUDP PROVE SyInv'
<1> PICK d \in Datagrams, m \in syHeld :
      syData' = [syData EXCEPT ![m] =
        [n |-> syCount + 1, size |-> Len(d.head) + d.more, rest |-> d.rest]]
  BY DEF ReadFromUDP
<1>0. /\ syReader = "read" /\ syReader' = "send" /\ syCount' = syCount + 1
      /\ UNCHANGED <<syPool, syHeld, syQueue, syBusy, syLog, syCtx, syEnd>>
  BY DEF ReadFromUDP
<1>a. m \in SyMessages /\ syHeld = {m} /\ syCount \in Nat
  BY DEF SyInv, SyTyped, SyTypeOK, HandOK
<1>b. syData'[m].n = syCount + 1 /\ \A o \in SyMessages \ {m} : syData'[o] = syData[o]
  BY <1>a DEF SyInv, SyTyped
<1>1. SyTyped'
  <2>1. syCount' \in Nat /\ SyTypeOK'
    BY <1>0, <1>a DEF SyInv, SyTyped, SyTypeOK
  <2>2. DOMAIN syData' = SyMessages /\ syData' = [o \in SyMessages |-> syData'[o]]
    BY <1>a DEF SyInv, SyTyped
  <2>3. \A o \in SyMessages : syData'[o].n \in Nat
    BY <1>a, <1>b DEF SyInv, SyTyped
  <2>4. QED
    BY <2>1, <2>2, <2>3 DEF SyTyped
<1>2. OnePlace'
  BY <1>0 DEF SyInv, OnePlace
<1>3. HandOK'
  BY <1>0, <1>a, <1>b DEF SyInv, HandOK
<1>4. /\ Outstanding' = Outstanding \cup {m} /\ m \notin Outstanding
      /\ Outstanding \subseteq SyMessages /\ Logged' = Logged
  BY <1>0, <1>a DEF Outstanding, Logged, SyInv, OnePlace, SyTyped, SyTypeOK
<1>5. NumbersOK'
  <2> USE DEF NumbersOK
  <2>0. NumbersOK
    BY DEF SyInv
  <2>1. (Logged \subseteq 1..syCount)' /\ (\A e, f \in syLog : e.n = f.n => e = f)'
    BY <2>0, <1>0, <1>4, <1>a
  <2>2. \A o \in Outstanding' : syData'[o].n \in 1..syCount' /\ syData'[o].n \notin Logged'
    BY <2>0, <1>0, <1>4, <1>a, <1>b
  <2>3. \A o, p \in Outstanding' : syData'[o].n = syData'[p].n => o = p
    BY <2>0, <1>0, <1>4, <1>a, <1>b
  <2>4. \A k \in 1..syCount' : k \in Logged' \/ \E o \in Outstanding' : syData'[o].n = k
    <3> TAKE k \in 1..syCount'
    <3>1. CASE k = syCount + 1
      BY <3>1, <1>4, <1>b
    <3>2. CASE k # syCount + 1
      <4>1. k \in 1..syCount
        BY <3>2, <1>0, <1>a
      <4>2. k \in Logged \/ \E o \in Outstanding : syData[o].n = k
        BY <4>1, <2>0, <1>0
      <4>3. QED
        BY <4>2, <1>4, <1>b
    <3>3. QED
      BY <3>1, <3>2
  <2>5. QED
    BY <2>1, <2>2, <2>3, <2>4
<1>6. QED
  BY <1>1, <1>2, <1>3, <1>5 DEF SyInv

\* The object goes from the reader's hand into the channel.
LEMMA SendStep == ASSUME SyInv, SendMsg PROVE SyInv'
<1> PICK m \in syHeld : syQueue' = Append(syQueue, m)
  BY DEF SendMsg
<1>0. /\ syReader = "send" /\ syReader' = "get" /\ Len(syQueue) < QueueCap /\ syHeld' = {}
      /\ UNCHANGED <<syData, syPool, syBusy, syLog, syCtx, syEnd, syCount>> /\ syEnd = "open"
  BY DEF SendMsg, Alive
<1>a. m \in SyMessages /\ syHeld = {m} /\ syQueue \in Seq(SyMessages)
  BY DEF SyInv, SyTyped, SyTypeOK, HandOK
<1>b. /\ syQueue' \in Seq(SyMessages) /\ Len(syQueue') = Len(syQueue) + 1
      /\ DOMAIN syQueue' = DOMAIN syQueue \cup {Len(syQueue) + 1}
      /\ Len(syQueue) + 1 \notin DOMAIN syQueue
      /\ syQueue'[Len(syQueue) + 1] = m
      /\ \A i \in DOMAIN syQueue : syQueue'[i] = syQueue[i]
  BY <1>a, QueueAppend
<1>1. SyTyped'
  <2>1. Len(syQueue') <= QueueCap
    BY <1>0, <1>a, <1>b, SyAssumption
  <2>2. QED
    BY <2>1, <1>0, <1>b DEF SyInv, SyTyped, SyTypeOK
<1>2. OnePlace'
  BY <1>0, <1>a, <1>b DEF SyInv, OnePlace
<1>3. HandOK'
  BY <1>0 DEF SyInv, HandOK
<1>4. Outstanding' = Outstanding /\ Logged' = Logged
  BY <1>0, <1>a, <1>b DEF Outstanding, Logged
<1>5. NumbersOK'
  BY <1>0, <1>4 DEF SyInv, NumbersOK
<1>6. QED
  BY <1>1, <1>2, <1>3, <1>5 DEF SyInv

\* The reader stops: the datagram in its hand, if any, has the last number.
LEMMA StopStep == ASSUME SyInv, StopReading PROVE SyInv'
<1>0. /\ syReader \in {"read", "send"} /\ syReader' = "stopping" /\ syEnd = "open"
      /\ UNCHANGED <<syData, syPool, syHeld, syQueue, syBusy, syLog, syCtx, syEnd, syCount>>
  BY DEF StopReading, Alive
<1>1. SyTyped' /\ OnePlace' /\ HandOK'
  BY <1>0 DEF SyInv, SyTyped, SyTypeOK, OnePlace, HandOK
<1>2. /\ Logged' = Logged /\ Outstanding' \subseteq Outstanding
      /\ \A m \in Outstanding \ Outstanding' : syReader = "send" /\ m \in syHeld
  BY <1>0 DEF Outstanding, Logged
<1>3. \A m \in Outstanding \ Outstanding' : syData[m].n = syCount
  BY <1>2 DEF SyInv, HandOK
<1>4. NumbersOK'
  <2> USE DEF NumbersOK
  <2>0. NumbersOK
    BY DEF SyInv
  <2>1. \A k \in 1..syCount : \/ k \in Logged
                              \/ \E m \in Outstanding' : syData[m].n = k
                              \/ k = syCount
    BY <2>0, <1>0, <1>2, <1>3
  <2>2. QED
    BY <2>0, <2>1, <1>0, <1>2
<1>5. QED
  BY <1>1, <1>4 DEF SyInv

\* A parser takes the oldest object of the channel.
LEMMA ReceiveStep == ASSUME SyInv, NEW p \in Parsers, Receive(p) PROVE SyInv'
<1> DEFINE m == Head(syQueue)
<1>0. /\ syEnd = "open" /\ syBusy[p] = {} /\ syQueue # <<>> /\ syQueue \in Seq(SyMessages)
      /\ syBusy' = [syBusy EXCEPT ![p] = {m}] /\ syQueue' = Tail(syQueue)
      /\ UNCHANGED <<syData, syPool, syReader, syHeld, syLog, syCtx, syEnd, syCount>>
  BY DEF Receive, Alive, SyInv, SyTyped, SyTypeOK
<1>a. /\ 1 \in DOMAIN syQueue /\ m = syQueue[1] /\ m \in SyMessages
      /\ syQueue' \in Seq(SyMessages) /\ Len(syQueue') = Len(syQueue) - 1
      /\ \A i \in DOMAIN syQueue' : i + 1 \in DOMAIN syQueue /\ syQueue'[i] = syQueue[i + 1]
      /\ \A i \in DOMAIN syQueue \ {1} : i - 1 \in DOMAIN syQueue' /\ syQueue'[i - 1] = syQueue[i]
  BY <1>0, QueueHead
<1>b. syBusy'[p] = {m} /\ \A q \in Parsers \ {p} : syBusy'[q] = syBusy[q]
  BY <1>0 DEF SyInv, SyTyped, SyTypeOK
<1> HIDE DEF m
<1>c. \A i \in DOMAIN syQueue' : i \in Nat /\ i # 0
  BY <1>a
<1>1. SyTyped'
  <2>1. Len(syQueue') <= QueueCap
    BY <1>0, <1>a, SyAssumption DEF SyInv, SyTyped, SyTypeOK
  <2>2. QED
    BY <2>1, <1>0, <1>a DEF SyInv, SyTyped, SyTypeOK
<1>2. OnePlace'
  <2> USE DEF OnePlace
  <2>0. OnePlace
    BY DEF SyInv
  <2>1. (syPool \cap syHeld = {})' /\ (\A i \in DOMAIN syQueue : syQueue[i] \notin syPool \cup syHeld)'
    BY <2>0, <1>0, <1>a
  <2>2. \A i, j \in DOMAIN syQueue' : syQueue'[i] = syQueue'[j] => i = j
    BY <2>0, <1>a, <1>c
  <2>3. \A i \in DOMAIN syQueue' : syQueue'[i] # m
    BY <2>0, <1>a, <1>c
  <2>4. ASSUME NEW q \in Parsers, NEW o \in syBusy'[q]
        PROVE  /\ o \notin syPool' \cup syHeld'
               /\ \A i \in DOMAIN syQueue' : syQueue'[i] # o
               /\ \A x \in syBusy'[q] : x = o
               /\ \A r \in Parsers : o \in syBusy'[r] => q = r
    <3>1. CASE q = p
      <4>1. o = m
        BY <3>1, <2>4, <1>b
      <4>2. \A r \in Parsers : m \in syBusy'[r] => r = p
        BY <2>0, <1>a, <1>b
      <4>3. QED
        BY <3>1, <4>1, <4>2, <2>0, <2>3, <1>0, <1>a, <1>b
    <3>2. CASE q # p
      <4>1. o \in syBusy[q]
        BY <3>2, <2>4, <1>b
      <4>2. o # m
        BY <4>1, <2>0, <1>a
      <4>3. QED
        BY <3>2, <4>1, <4>2, <2>0, <1>0, <1>a, <1>b
    <3>3. QED
      BY <3>1, <3>2
  <2>5. QED
    BY <2>1, <2>2, <2>4
<1>3. HandOK'
  BY <1>0 DEF SyInv, HandOK
<1>4. Outstanding' = Outstanding /\ Logged' = Logged
  <2>1. {syQueue[i] : i \in DOMAIN syQueue} = {syQueue'[i] : i \in DOMAIN syQueue'} \cup {m}
    <3>1. \A i \in DOMAIN syQueue : i = 1 \/ \E j \in DOMAIN syQueue' : syQueue'[j] = syQueue[i]
      BY <1>a
    <3>2. \A j \in DOMAIN syQueue' : \E i \in DOMAIN syQueue : syQueue'[j] = syQueue[i]
      BY <1>a
    <3>3. QED
      BY <1>a, <3>1, <3>2
  <2>2. UNION {syBusy'[q] : q \in Parsers} = (UNION {syBusy[q] : q \in Parsers}) \cup {m}
    BY <1>0, <1>b
  <2>3. QED
    BY <2>1, <2>2, <1>0 DEF Outstanding, Logged
<1>5. NumbersOK'
  BY <1>0, <1>4 DEF SyInv, NumbersOK
<1>6. QED
  BY <1>1, <1>2, <1>3, <1>5 DEF SyInv

\* A parser logs what its object holds, under its number, and puts it back.
LEMMA ParserStep == ASSUME SyInv, NEW p \in Parsers, runParser(p) PROVE SyInv'
<1> PICK m \in syBusy[p] :
      /\ syLog' = syLog \cup {[n |-> syData[m].n, how |-> parse(m)]}
      /\ syEnd' = IF parse(m) = "panic" THEN "panic" ELSE syEnd
      /\ syPool' = syPool \cup {m}
  BY DEF runParser
<1> DEFINE how == parse(m)
<1>0. /\ syEnd = "open" /\ syBusy' = [syBusy EXCEPT ![p] = {}]
      /\ syLog' = syLog \cup {[n |-> syData[m].n, how |-> how]}
      /\ syEnd' \in {"open", "panic"}
      /\ UNCHANGED <<syData, syReader, syHeld, syQueue, syCtx, syCount>>
  BY DEF runParser, Alive
<1> HIDE DEF how
<1>a. m \in SyMessages /\ syBusy[p] = {m}
  BY DEF SyInv, SyTyped, SyTypeOK, OnePlace
<1>b. syBusy'[p] = {} /\ \A q \in Parsers \ {p} : syBusy'[q] = syBusy[q] /\ m \notin syBusy[q]
  BY <1>0, <1>a DEF SyInv, SyTyped, SyTypeOK, OnePlace
<1>1. SyTyped'
  BY <1>0, <1>a DEF SyInv, SyTyped, SyTypeOK
<1>2. OnePlace'
  BY <1>0, <1>a, <1>b DEF SyInv, OnePlace
<1>3. HandOK'
  BY <1>0 DEF SyInv, HandOK
<1>4. Logged' = Logged \cup {syData[m].n}
  <2> DEFINE new == [n |-> syData[m].n, how |-> how]
  <2>1. new.n = syData[m].n
    OBVIOUS
  <2>2. syLog' = syLog \cup {new}
    BY <1>0
  <2> HIDE DEF new
  <2>3. QED
    BY <2>1, <2>2 DEF Logged
<1>5. Outstanding' = Outstanding \ {m} /\ m \in Outstanding
  <2>1. UNION {syBusy'[q] : q \in Parsers} = (UNION {syBusy[q] : q \in Parsers}) \ {m}
    BY <1>0, <1>a, <1>b
  <2>2. m \notin syHeld /\ \A i \in DOMAIN syQueue : syQueue[i] # m
    BY <1>a DEF SyInv, OnePlace
  <2>3. {syQueue'[i] : i \in DOMAIN syQueue'} = {syQueue[i] : i \in DOMAIN syQueue} \ {m}
    BY <2>2, <1>0
  <2>4. (IF syReader' = "send" THEN syHeld' ELSE {}) = (IF syReader = "send" THEN syHeld ELSE {}) \ {m}
    BY <2>2, <1>0
  <2>5. m \in UNION {syBusy[q] : q \in Parsers}
    BY <1>a
  <2>6. QED
    BY <2>1, <2>3, <2>4, <2>5 DEF Outstanding
<1>6. NumbersOK'
  <2> USE DEF NumbersOK
  <2>0. NumbersOK
    BY DEF SyInv
  <2>1. (Logged \subseteq 1..syCount)'
    <3>1. syData[m].n \in 1..syCount /\ Logged \subseteq 1..syCount /\ syCount' = syCount
      BY <2>0, <1>0, <1>5
    <3>2. QED
      BY <3>1, <1>4
  <2>2. \A e, f \in syLog' : e.n = f.n => e = f
    <3>1. \A e \in syLog : e.n # syData[m].n
      BY <2>0, <1>5 DEF Logged
    <3>2. QED
      BY <3>1, <2>0, <1>0
  <2>3. \A o \in Outstanding' : syData'[o].n \in 1..syCount' /\ syData'[o].n \notin Logged'
    BY <2>0, <1>0, <1>4, <1>5
  <2>4. \A o, x \in Outstanding' : syData'[o].n = syData'[x].n => o = x
    BY <2>0, <1>0, <1>5
  <2>5. \A k \in 1..syCount' :
          \/ k \in Logged'
          \/ \E o \in Outstanding' : syData'[o].n = k
          \/ syReader' \in {"stopping", "stopped"} /\ k = syCount'
    BY <2>0, <1>0, <1>4, <1>5
  <2>6. QED
    BY <2>1, <2>2, <2>3, <2>4, <2>5
<1>7. QED
  BY <1>1, <1>2, <1>3, <1>6 DEF SyInv

\* done is closed: the channel is empty and no parser holds an object.
LEMMA ShutdownStep == ASSUME SyInv, shutdown PROVE SyInv'
<1>0. /\ syReader = "stopping" /\ syReader' = "stopped" /\ syEnd' = "closed"
      /\ syQueue = <<>> /\ (\A p \in Parsers : syBusy[p] = {})
      /\ syPool' = syPool \cup syHeld /\ syHeld' = {}
      /\ UNCHANGED <<syData, syQueue, syBusy, syLog, syCtx, syCount>>
  BY DEF shutdown
<1>1. SyTyped'
  BY <1>0 DEF SyInv, SyTyped, SyTypeOK
<1>2. OnePlace' /\ HandOK'
  BY <1>0 DEF SyInv, OnePlace, HandOK
<1>3. Outstanding' = Outstanding /\ Logged' = Logged
  BY <1>0 DEF Outstanding, Logged
<1>4. NumbersOK'
  BY <1>0, <1>3 DEF SyInv, NumbersOK
<1>5. QED
  BY <1>1, <1>2, <1>4 DEF SyInv

\* No step of the receiver disturbs the invariant.
LEMMA SyStep == SyInv /\ [SyNext]_syVars => SyInv'
<1> SUFFICES ASSUME SyInv, [SyNext]_syVars PROVE SyInv'
  OBVIOUS
<1>1. CASE CancelSyslog
  <2>1. UNCHANGED <<syData, syPool, syReader, syHeld, syQueue, syBusy, syLog, syEnd, syCount>>
        /\ syCtx' = "cancelled"
    BY <1>1 DEF CancelSyslog
  <2>2. Outstanding' = Outstanding /\ Logged' = Logged
    BY <2>1 DEF Outstanding, Logged
  <2>3. SyTyped'
    BY <2>1 DEF SyInv, SyTyped, SyTypeOK
  <2>4. OnePlace'
    BY <2>1 DEF SyInv, OnePlace
  <2>5. HandOK'
    BY <2>1 DEF SyInv, HandOK
  <2>6. NumbersOK'
    BY <2>1, <2>2 DEF SyInv, NumbersOK
  <2>7. QED
    BY <2>3, <2>4, <2>5, <2>6 DEF SyInv
<1>2. CASE UNCHANGED syVars
  <2>1. Outstanding' = Outstanding /\ Logged' = Logged
    BY <1>2 DEF Outstanding, Logged, syVars
  <2>2. SyTyped'
    BY <1>2 DEF SyInv, SyTyped, SyTypeOK, syVars
  <2>3. OnePlace'
    BY <1>2 DEF SyInv, OnePlace, syVars
  <2>4. HandOK'
    BY <1>2 DEF SyInv, HandOK, syVars
  <2>5. NumbersOK'
    BY <1>2, <2>1 DEF SyInv, NumbersOK, syVars
  <2>6. QED
    BY <2>2, <2>3, <2>4, <2>5 DEF SyInv
<1>3. CASE \E p \in Parsers : Receive(p) \/ runParser(p)
  BY <1>3, ReceiveStep, ParserStep
<1>4. QED
  BY <1>1, <1>2, <1>3, GetStep, ReadStep, SendStep, StopStep, ShutdownStep DEF SyNext

\* The inductive invariant of the receiver holds in every reachable state.
THEOREM SyslogInvariance == SySpec => []SyInv
BY SyInitInv, SyStep, PTL DEF SySpec

\* The receiver's state keeps its types; the channel is never filled beyond
\* its capacity.
THEOREM SyslogTypeCorrect == SySpec => []SyTypeOK
<1>1. SyInv => SyTypeOK
  BY DEF SyInv, SyTyped
<1>2. QED
  BY <1>1, SyslogInvariance, PTL

\* When Done is closed every datagram that was read is in the log, once, but
\* for the last one if the context ended while the reader held it.
THEOREM SyslogIsDrained == SySpec => []SyslogDrained
<1>1. SyInv => SyslogDrained
  <2> SUFFICES ASSUME SyInv, syEnd = "closed" PROVE SyslogDrained
    BY DEF SyslogDrained
  <2>1. Outstanding = {} /\ syCount \in Nat
    BY DEF SyInv, HandOK, Outstanding, SyTyped
  <2>2. Logged \subseteq 1..syCount /\ \A k \in 1..syCount : k \in Logged \/ k = syCount
    BY <2>1 DEF SyInv, NumbersOK
  <2>3. Logged = 1..syCount \/ Logged = 1..(syCount - 1)
    <3>1. CASE syCount \in Logged \/ syCount = 0
      <4>1. 1..syCount \subseteq Logged
        BY <3>1, <2>1, <2>2
      <4>2. QED
        BY <4>1, <2>2
    <3>2. CASE syCount \notin Logged /\ syCount # 0
      <4>1. \A k \in Logged : k \in 1..(syCount - 1)
        BY <3>2, <2>1, <2>2
      <4>2. \A k \in 1..(syCount - 1) : k \in Logged
        BY <3>2, <2>1, <2>2
      <4>3. QED
        BY <4>1, <4>2
    <3>3. QED
      BY <3>1, <3>2
  <2>4. QED
    BY <2>3 DEF SyslogDrained, Logged, SyInv, NumbersOK
<1>2. QED
  BY <1>1, SyslogInvariance, PTL

-----------------------------------------------------------------------------
(* The Hardware backends.                                                  *)

Copies == [rv : Nat, allowPXE : Nat, attributes : {"", "a"}]

\* What the watcher and the writers keep in types.
HbTyped ==
  /\ hbFile \in Contents /\ hbData \in Contents
  /\ hbEvents \in Seq({"write", "remove"})
  /\ hbRead = <<>> \/ \E c \in Contents : hbRead = <<c>>
  /\ hbObj \in Copies /\ hbObj.rv # 0
  /\ hbSeen \in [{"server", "controller"} -> Copies]
  /\ hbToggles \in Nat
  /\ hbWritten \in [allowPXE : Nat, attributes : {"", "a"}]

\* While the watch is on the file, a change that was not stored yet is in the
\* events or in the content in hand, or its read failed.
Following ==
  hbWatched =>
    /\ \A i \in DOMAIN hbEvents : hbEvents[i] = "write"
    /\ ~hbMissed => \/ hbEvents # <<>>
                    \/ hbRead = <<hbFile>>
                    \/ hbRead = <<>> /\ hbData = hbFile

\* A copy with the object's version is the object.
CopiesOK ==
  \A w \in {"server", "controller"} :
    /\ hbSeen[w].rv <= hbObj.rv
    /\ hbSeen[w].rv = hbObj.rv => hbSeen[w] = hbObj

HbInv == HbTyped /\ Following /\ CopiesOK /\ WritesKept

\* No copy has a version that no object has.
LEMMA NoCopyFacts == NoCopy \in Copies /\ NoCopy.rv = 0
BY DEF NoCopy, Copies

\* What a member of Copies has.
LEMMA CopyFields ==
  ASSUME NEW c \in Copies
  PROVE  c.rv \in Nat /\ c.allowPXE \in Nat /\ c.attributes \in {"", "a"}
BY DEF Copies

\* The invariant holds at first.
LEMMA HbInitInv == HbInit => HbInv
<1> SUFFICES ASSUME HbInit PROVE HbInv
  OBVIOUS
<1>0. /\ hbObj = [rv |-> 1, allowPXE |-> 0, attributes |-> ""]
      /\ hbWritten = [allowPXE |-> 0, attributes |-> ""]
      /\ hbSeen = [w \in {"server", "controller"} |-> NoCopy]
  BY DEF HbInit
<1>a. hbObj \in Copies /\ hbObj.rv = 1
  BY <1>0 DEF Copies
<1>1. HbTyped
  <2>1. hbSeen \in [{"server", "controller"} -> Copies]
    BY <1>0, NoCopyFacts
  <2>2. hbWritten \in [allowPXE : Nat, attributes : {"", "a"}]
    BY <1>0
  <2>3. hbFile \in Contents /\ hbData \in Contents /\ hbRead = <<>> /\ hbToggles = 0
        /\ hbEvents = <<>>
    BY Zenon DEF HbInit
  <2>4. <<>> \in Seq({"write", "remove"}) /\ 0 \in Nat /\ 1 # 0
    OBVIOUS
  <2>5. QED
    BY <1>a, <2>1, <2>2, <2>3, <2>4, Zenon DEF HbTyped
<1>2. CopiesOK
  <2>1. \A w \in {"server", "controller"} : hbSeen[w].rv = 0
    BY <1>0, NoCopyFacts
  <2>2. QED
    BY <1>a, <2>1 DEF CopiesOK
<1>3. Following
  <2>1. hbEvents = <<>> /\ hbRead = <<>> /\ hbData = hbFile
    BY Zenon DEF HbInit
  <2>2. DOMAIN <<>> = {}
    OBVIOUS
  <2>3. QED
    BY <2>1, <2>2, Zenon DEF Following
<1>4. WritesKept
  BY <1>0 DEF WritesKept
<1>5. QED
  BY <1>1, <1>2, <1>3, <1>4 DEF HbInv

\* The steps of the file and its watcher leave the object and its writers.
LEMMA FileSteps ==
  ASSUME HbInv, UNCHANGED hbObjVars, HbTyped', Following'
  PROVE  HbInv'
<1>1. CopiesOK' /\ WritesKept'
  BY DEF HbInv, CopiesOK, WritesKept, hbObjVars
<1>2. QED
  BY <1>1 DEF HbInv

\* The steps of the writers leave the file and its watcher.
LEMMA ObjectSteps ==
  ASSUME HbInv, UNCHANGED hbFileVars, HbTyped', CopiesOK', WritesKept'
  PROVE  HbInv'
<1>1. Following'
  BY DEF HbInv, Following, hbFileVars
<1>2. QED
  BY <1>1 DEF HbInv

\* The file changes: while it is watched, that is an event.
LEMMA WriteSteps ==
  ASSUME HbInv, NEW c \in Contents, WriteInPlace(c) \/ ReplaceFile(c)
  PROVE  HbInv'
<1>0. /\ hbFile' = c /\ UNCHANGED <<hbRead, hbData, hbMissed, hbObjVars>>
      /\ hbWatched' \in {hbWatched, FALSE}
      /\ \/ hbEvents' = hbEvents /\ (~hbWatched \/ ~hbWatched')
         \/ hbEvents' = Append(hbEvents, "write")
         \/ hbEvents' = Append(hbEvents, "remove") /\ ~hbWatched'
  BY DEF WriteInPlace, ReplaceFile
<1>1. hbEvents \in Seq({"write", "remove"})
  BY DEF HbInv, HbTyped
<1>2. hbEvents' \in Seq({"write", "remove"})
  BY <1>0, <1>1
<1>3. HbTyped'
  BY <1>0, <1>2 DEF HbInv, HbTyped, hbObjVars
<1>4. Following'
  <2> SUFFICES ASSUME hbWatched' PROVE Following'
    BY DEF Following
  <2>1. hbWatched /\ hbEvents' = Append(hbEvents, "write")
    BY <1>0
  <2>2. /\ DOMAIN hbEvents' = DOMAIN hbEvents \cup {Len(hbEvents) + 1}
        /\ hbEvents'[Len(hbEvents) + 1] = "write"
        /\ \A i \in DOMAIN hbEvents : hbEvents'[i] = hbEvents[i]
    BY <2>1, <1>1, QueueAppend
  <2>3. hbEvents' # <<>>
    BY <2>1, <1>1
  <2>4. QED
    BY <2>1, <2>2, <2>3 DEF HbInv, Following
<1>5. QED
  BY <1>0, <1>3, <1>4, FileSteps

\* An event is handled: what the file holds now is in hand, or was missed.
LEMMA WatchStep == ASSUME HbInv, WatchEvent PROVE HbInv'
<1>0. /\ hbRead = <<>> /\ hbEvents # <<>> /\ hbEvents' = Tail(hbEvents)
      /\ \/ Head(hbEvents) # "write" /\ UNCHANGED <<hbRead, hbMissed>>
         \/ hbRead' = <<hbFile>> /\ hbMissed' = FALSE
         \/ hbMissed' = TRUE /\ UNCHANGED hbRead
      /\ UNCHANGED <<hbFile, hbWatched, hbData, hbObjVars>>
  BY DEF WatchEvent
<1>1. hbEvents \in Seq({"write", "remove"}) /\ hbFile \in Contents
  BY DEF HbInv, HbTyped
<1>2. /\ hbEvents' \in Seq({"write", "remove"})
      /\ \A i \in DOMAIN hbEvents' : i + 1 \in DOMAIN hbEvents /\ hbEvents'[i] = hbEvents[i + 1]
      /\ 1 \in DOMAIN hbEvents /\ Head(hbEvents) = hbEvents[1]
  BY <1>0, <1>1, QueueHead
<1>3. HbTyped'
  <2>1. hbRead' = <<>> \/ \E c \in Contents : hbRead' = <<c>>
    BY <1>0, <1>1
  <2>2. QED
    BY <1>0, <1>2, <2>1 DEF HbInv, HbTyped, hbObjVars
<1>4. Following'
  BY <1>0, <1>2 DEF HbInv, Following
<1>5. QED
  BY <1>0, <1>3, <1>4, FileSteps

\* What is in hand is stored.
LEMMA StoreStep == ASSUME HbInv, StoreData PROVE HbInv'
<1>0. /\ hbRead # <<>> /\ hbData' = hbRead[1] /\ hbRead' = <<>>
      /\ UNCHANGED <<hbFile, hbWatched, hbEvents, hbMissed, hbObjVars>>
  BY DEF StoreData
<1>1. PICK c \in Contents : hbRead = <<c>>
  BY <1>0 DEF HbInv, HbTyped, Copies
<1>2. hbData' = c
  BY <1>0, <1>1
<1>3. HbTyped'
  BY <1>0, <1>2 DEF HbInv, HbTyped, hbObjVars
<1>4. Following'
  <2>1. hbRead = <<hbFile>> => c = hbFile
    BY <1>1
  <2>2. QED
    BY <1>0, <1>1, <1>2, <2>1 DEF HbInv, Following
<1>5. QED
  BY <1>0, <1>3, <1>4, FileSteps

\* A writer's copy is the object at that moment.
LEMMA ReadObjectStep ==
  ASSUME HbInv, NEW w \in {"server", "controller"}, ReadObject(w)
  PROVE  HbInv'
<1>0. /\ hbSeen' = [hbSeen EXCEPT ![w] = hbObj]
      /\ UNCHANGED <<hbFileVars, hbObj, hbToggles, hbWritten>>
  BY DEF ReadObject
<1>a. hbSeen \in [{"server", "controller"} -> Copies] /\ hbObj \in Copies
  BY DEF HbInv, HbTyped
<1>b. hbSeen'[w] = hbObj /\ \A v \in {"server", "controller"} \ {w} : hbSeen'[v] = hbSeen[v]
  BY <1>0, <1>a
<1>c. hbSeen' \in [{"server", "controller"} -> Copies]
  BY <1>0, <1>a
<1>1. HbTyped'
  BY <1>0, <1>c DEF HbInv, HbTyped, hbFileVars
<1>2. CopiesOK'
  <2> SUFFICES ASSUME NEW v \in {"server", "controller"}
               PROVE  hbSeen'[v].rv <= hbObj'.rv /\ (hbSeen'[v].rv = hbObj'.rv => hbSeen'[v] = hbObj')
    BY DEF CopiesOK
  <2>1. CASE v = w
    <3>1. hbSeen'[v] = hbObj' /\ hbObj'.rv \in Nat
      BY <2>1, <1>0, <1>a, <1>b, CopyFields
    <3>2. QED
      BY <3>1
  <2>2. CASE v # w
    BY <2>2, <1>0, <1>b DEF HbInv, CopiesOK
  <2>3. QED
    BY <2>1, <2>2
<1>3. WritesKept'
  BY <1>0 DEF HbInv, WritesKept
<1>4. QED
  BY <1>0, <1>1, <1>2, <1>3, ObjectSteps

\* A new version of the object, after which one writer has no copy: no other
\* copy has that version.
LEMMA NewVersion ==
  ASSUME HbInv, NEW w \in {"server", "controller"},
         hbSeen' = [hbSeen EXCEPT ![w] = NoCopy],
         hbObj' \in Copies, hbObj'.rv = hbObj.rv + 1 \/ hbObj' = hbObj
  PROVE  CopiesOK' /\ hbSeen' \in [{"server", "controller"} -> Copies]
         /\ hbObj'.rv # 0
<1>1. /\ hbSeen \in [{"server", "controller"} -> Copies]
      /\ hbObj.rv \in Nat /\ hbObj.rv # 0
      /\ \A v \in {"server", "controller"} : hbSeen[v].rv \in Nat
  BY CopyFields DEF HbInv, HbTyped
<1>2. hbSeen' \in [{"server", "controller"} -> Copies]
  BY <1>1, NoCopyFacts
<1>3. hbSeen'[w].rv = 0 /\ \A v \in {"server", "controller"} \ {w} : hbSeen'[v] = hbSeen[v]
  BY <1>1, NoCopyFacts
<1>4. hbObj'.rv \in Nat /\ hbObj'.rv # 0
  BY <1>1
<1>5. ASSUME NEW v \in {"server", "controller"}
      PROVE  hbSeen'[v].rv <= hbObj'.rv /\ (hbSeen'[v].rv = hbObj'.rv => hbSeen'[v] = hbObj')
  <2>1. CASE v = w
    BY <2>1, <1>3, <1>4
  <2>2. CASE v # w
    <3>1. hbSeen'[v] = hbSeen[v] /\ hbSeen[v].rv <= hbObj.rv
          /\ (hbSeen[v].rv = hbObj.rv => hbSeen[v] = hbObj)
      BY <2>2, <1>3 DEF HbInv, CopiesOK
    <3>2. QED
      BY <3>1, <1>1
  <2>3. QED
    BY <2>1, <2>2
<1>6. QED
  BY <1>2, <1>4, <1>5 DEF CopiesOK

\* The server's patch carries the attributes only, whatever its copy is.
LEMMA AttributesStep == ASSUME HbInv, UpdateHardwareWithAttributes PROVE HbInv'
<1> DEFINE hw == hbSeen["server"]
<1>0. /\ hw.attributes = ""
      /\ hbObj' = patchFromOpts(hw, [hw EXCEPT !.attributes = "a"])
      /\ hbWritten' = [hbWritten EXCEPT !.attributes = "a"]
      /\ hbSeen' = [hbSeen EXCEPT !["server"] = NoCopy]
      /\ UNCHANGED <<hbFileVars, hbToggles>>
  BY DEF UpdateHardwareWithAttributes
<1>a. hw \in Copies /\ hbObj \in Copies
  BY DEF HbInv, HbTyped
<1>1. hbObj' = [rv |-> hbObj.rv + 1, allowPXE |-> hbObj.allowPXE, attributes |-> "a"]
  <2> DEFINE new == [hw EXCEPT !.attributes = "a"]
  <2>1. new.attributes = "a" /\ new.allowPXE = hw.allowPXE
    BY <1>a DEF Copies
  <2> HIDE DEF new
  <2>2. hbObj' = patchFromOpts(hw, new)
    BY <1>0 DEF new
  <2>3. QED
    BY <1>0, <2>1, <2>2 DEF patchFromOpts
<1>2. hbWritten' = [allowPXE |-> hbWritten.allowPXE, attributes |-> "a"]
  BY <1>0 DEF HbInv, HbTyped
<1>3. hbObj' \in Copies /\ hbObj'.rv = hbObj.rv + 1
  <2>1. hbObj.rv \in Nat /\ hbObj.allowPXE \in Nat
    BY <1>a, CopyFields, Zenon
  <2>2. hbObj.rv + 1 \in Nat
    BY <2>1
  <2>3. QED
    BY <1>1, <2>1, <2>2 DEF Copies
<1>4. CopiesOK' /\ hbSeen' \in [{"server", "controller"} -> Copies] /\ hbObj'.rv # 0
  BY <1>0, <1>3, NewVersion
<1>5. HbTyped'
  <2>1. hbWritten' \in [allowPXE : Nat, attributes : {"", "a"}]
    BY <1>2 DEF HbInv, HbTyped
  <2>2. QED
    BY <1>0, <1>3, <1>4, <2>1 DEF HbInv, HbTyped, hbFileVars
<1>6. WritesKept'
  BY <1>1, <1>2 DEF HbInv, WritesKept
<1>7. QED
  BY <1>0, <1>4, <1>5, <1>6, ObjectSteps

\* The controller's update is taken only if its copy is the object.
LEMMA AllowPXEStep == ASSUME HbInv, SetAllowPXE PROVE HbInv'
<1> DEFINE hw == hbSeen["controller"]
<1>0. /\ hbSeen' = [hbSeen EXCEPT !["controller"] = NoCopy]
      /\ UNCHANGED hbFileVars
      /\ \/ /\ hw.rv = hbObj.rv
            /\ hbObj' = [hw EXCEPT !.rv = @ + 1, !.allowPXE = hbToggles + 1]
            /\ hbWritten' = [hbWritten EXCEPT !.allowPXE = hbToggles + 1]
            /\ hbToggles' = hbToggles + 1
         \/ UNCHANGED <<hbObj, hbWritten, hbToggles>>
  BY DEF SetAllowPXE
<1>a. hbObj \in Copies /\ hbToggles \in Nat
      /\ hbWritten \in [allowPXE : Nat, attributes : {"", "a"}]
  BY DEF HbInv, HbTyped
<1>b. hbToggles + 1 \in Nat
  <2>1. hbToggles \in Nat
    BY <1>a
  <2>2. QED
    BY <2>1
<1>1. /\ hbObj' \in Copies /\ (hbObj'.rv = hbObj.rv + 1 \/ hbObj' = hbObj)
      /\ hbToggles' \in Nat /\ hbWritten' \in [allowPXE : Nat, attributes : {"", "a"}]
      /\ WritesKept'
  <2>1. CASE UNCHANGED <<hbObj, hbWritten, hbToggles>>
    BY <2>1, <1>a DEF HbInv, WritesKept
  <2>2. CASE /\ hw.rv = hbObj.rv
             /\ hbObj' = [hw EXCEPT !.rv = @ + 1, !.allowPXE = hbToggles + 1]
             /\ hbWritten' = [hbWritten EXCEPT !.allowPXE = hbToggles + 1]
             /\ hbToggles' = hbToggles + 1
    <3>1. hw = hbObj
      BY <2>2 DEF HbInv, CopiesOK
    <3>2. hbObj' = [rv |-> hbObj.rv + 1, allowPXE |-> hbToggles + 1, attributes |-> hbObj.attributes]
      BY <2>2, <3>1, <1>a DEF Copies
    <3>3. hbWritten' = [allowPXE |-> hbToggles + 1, attributes |-> hbWritten.attributes]
      BY <2>2, <1>a
    <3>4. hbObj' \in Copies /\ hbObj'.rv = hbObj.rv + 1
      <4>1. hbObj.rv \in Nat
        BY <1>a, CopyFields, Zenon
      <4>2. hbObj.rv + 1 \in Nat /\ hbObj.attributes \in {"", "a"}
        <5>1. hbObj.rv + 1 \in Nat
          BY <4>1
        <5>2. QED
          BY <5>1, <1>a, CopyFields, Zenon
      <4>3. QED
        BY <3>2, <4>1, <4>2, <1>b DEF Copies
    <3>5. WritesKept'
      BY <3>2, <3>3 DEF HbInv, WritesKept
    <3>6. hbWritten' \in [allowPXE : Nat, attributes : {"", "a"}]
      <4>1. hbWritten.attributes \in {"", "a"}
        BY <1>a
      <4>2. QED
        BY <3>3, <4>1, <1>b
    <3>7. QED
      BY <2>2, <3>4, <3>5, <3>6, <1>b
  <2>3. QED
    BY <1>0, <2>1, <2>2
<1>2. CopiesOK' /\ hbSeen' \in [{"server", "controller"} -> Copies] /\ hbObj'.rv # 0
  BY <1>0, <1>1, NewVersion
<1>3. HbTyped'
  BY <1>0, <1>1, <1>2 DEF HbInv, HbTyped, hbFileVars
<1>4. QED
  BY <1>0, <1>1, <1>2, <1>3, ObjectSteps

\* No step of the backend disturbs the invariant.
LEMMA HbStep == HbInv /\ [HbNext]_hbVars => HbInv'
<1> SUFFICES ASSUME HbInv, [HbNext]_hbVars PROVE HbInv'
  OBVIOUS
<1>1. CASE UNCHANGED hbVars
  <2>1. UNCHANGED hbObjVars /\ UNCHANGED hbFileVars
    BY <1>1 DEF hbVars, hbObjVars, hbFileVars
  <2>2. HbTyped' /\ Following'
    BY <2>1 DEF HbInv, HbTyped, Following, hbObjVars, hbFileVars
  <2>3. QED
    BY <2>1, <2>2, FileSteps
<1>2. QED
  BY <1>1, WriteSteps, WatchStep, StoreStep, ReadObjectStep, AttributesStep, AllowPXEStep
     DEF HbNext

\* One object: the two backends' tests agree on it.
LEMMA MatchesAgree ==
  ASSUME NEW hw, NEW f, f.value # "",
         f.by \in {"name", "agent", "mac", "ip", "instance"},
         f.by = "mac" => \A n \in hw.nics : n.mac = Folded(n.mac) /\ f.value = Folded(f.value)
  PROVE  matchHardware(hw, f) <=> hardwareListOptions(hw, f)
<1>1. CASE f.by = "mac"
  <2>1. hardwareHasMAC(hw, f.value) <=> \E n \in hw.nics : n.mac = f.value
    BY <1>1 DEF hardwareHasMAC
  <2>2. f.value \in GetMACs(hw) <=> \E n \in hw.nics : n.mac = f.value
    BY DEF GetMACs
  <2>3. QED
    BY <1>1, <2>1, <2>2 DEF matchHardware, hardwareListOptions, Indexed
<1>2. CASE f.by = "ip"
  <2>1. f.value \in {n.ip : n \in {m \in hw.nics : m.ip # ""}} <=> \E n \in hw.nics : n.ip = f.value
    OBVIOUS
  <2>2. QED
    BY <1>2, <2>1 DEF matchHardware, hardwareListOptions, Indexed, hardwareHasIP
<1>3. CASE f.by \in {"name", "agent", "instance"}
  BY <1>3 DEF matchHardware, hardwareListOptions, Indexed
<1>4. QED
  BY <1>1, <1>2, <1>3

\* Contents that both backends hold are found alike.
LEMMA LookupsAgree == hbData \in Contents => BackendsAgree
<1> SUFFICES ASSUME hbData \in Contents, hbData.yaml, NEW f \in Filters,
                    f.by = "mac" => \A i \in DOMAIN hbData.list : \A n \in hbData.list[i].nics :
                                      n.mac = Folded(n.mac) /\ f.value = Folded(f.value)
             PROVE  /\ FileFilterHardware(hbData, f) = KubeFilterHardware(hbData.list, f)
                    /\ f.by = "name" /\ f.ns # "" /\ OnePerKey(hbData.list)
                         => FileReadHardware(hbData, f.ns, f.value)
                              = KubeReadHardware(hbData.list, f.ns, f.value)
  BY DEF BackendsAgree
<1> DEFINE list == hbData.list
<1>1. f.value # "" /\ f.by \in {"name", "agent", "mac", "ip", "instance"}
      /\ DOMAIN list \subseteq Nat
  <2>1. DOMAIN list = 1..Len(list) /\ Len(list) \in Nat
    BY HbAssumption
  <2>2. 1..Len(list) \subseteq Nat
    BY <2>1
  <2>3. QED
    BY <2>1, <2>2, HbAssumption
<1>2. {i \in DOMAIN list : matchHardware(list[i], f)} = {i \in DOMAIN list : hardwareListOptions(list[i], f)}
  <2>1. \A i \in DOMAIN list : matchHardware(list[i], f) <=> hardwareListOptions(list[i], f)
    BY <1>1, MatchesAgree
  <2>2. QED
    BY <2>1
<1>3. FileFilterHardware(hbData, f) = KubeFilterHardware(list, f)
  BY <1>2 DEF FileFilterHardware, KubeFilterHardware
<1>4. ASSUME f.ns # "", OnePerKey(list)
      PROVE  FileReadHardware(hbData, f.ns, f.value) = KubeReadHardware(list, f.ns, f.value)
  <2> DEFINE inFile == {i \in DOMAIN list : (f.ns = "" \/ list[i].ns = f.ns) /\ list[i].name = f.value}
             inCluster == {i \in DOMAIN list : list[i].ns = f.ns /\ list[i].name = f.value}
  <2>1. inFile = inCluster
    BY <1>4
  <2>2. \A i, j \in inCluster : i <= j
    <3>1. \A i, j \in inCluster : i = j /\ i \in Nat
      BY <1>1, <1>4 DEF OnePerKey
    <3>2. QED
      BY <3>1
  <2>3. {i \in inFile : \A j \in inFile : i <= j} = inCluster
    BY <2>1, <2>2
  <2>4. QED
    BY <2>1, <2>3 DEF FileReadHardware, KubeReadHardware
<1>5. QED
  BY <1>3, <1>4

\* The inductive invariant of the backends holds in every reachable state.
THEOREM BackendInvariance == HbSpec => []HbInv
BY HbInitInv, HbStep, PTL DEF HbSpec

\* The watcher's and the object's state keep their types.
THEOREM BackendTypeCorrect == HbSpec => []HbTypeOK
<1>1. HbInv => HbTypeOK
  <2> SUFFICES ASSUME HbInv PROVE HbTypeOK
    OBVIOUS
  <2>1. Len(hbRead) <= 1
    <3>1. Len(<<>>) <= 1 /\ \A c \in Contents : Len(<<c>>) <= 1
      OBVIOUS
    <3>2. QED
      BY <3>1 DEF HbInv, HbTyped
  <2>2. QED
    BY <2>1 DEF HbInv, HbTyped, Copies, HbTypeOK
<1>2. QED
  BY <1>1, BackendInvariance, PTL

\* The watcher that caught up serves what the file holds, both backends find
\* the same objects, and neither writer of a Hardware object undoes what the
\* other one wrote, however stale its copy.
THEOREM BackendsServe == HbSpec => []BackendServes
<1>1. HbInv => BackendServes
  <2> SUFFICES ASSUME HbInv PROVE BackendServes
    OBVIOUS
  <2>1. FileFollowed
    BY DEF HbInv, Following, FileFollowed
  <2>2. BackendsAgree
    BY LookupsAgree DEF HbInv, HbTyped
  <2>3. QED
    BY <2>1, <2>2 DEF HbInv, BackendServes
<1>2. QED
  BY <1>1, BackendInvariance, PTL

-----------------------------------------------------------------------------
(* The ISO proxy.                                                          *)

\* A set of natural numbers that is not empty has a least element.
LEMMA LeastNatural ==
  ASSUME NEW T, T \subseteq Nat, T # {}
  PROVE  \E x \in T : \A y \in T : x <= y
<1>1. PICK x \in T : \A y \in T : ~ (<<y, x>> \in OpToRel(<, Nat))
  BY NatLessThanWellFounded, WFMin
<1>2. \A y \in T : ~ (y < x)
  BY <1>1 DEF OpToRel
<1>3. QED
  BY <1>2

\* Magic starts at k in s.
MagicAt(s, k) ==
  /\ k \in 1..Len(s) /\ k + Len(Magic) - 1 <= Len(s)
  /\ SubSeq(s, k, k + Len(Magic) - 1) = Magic

\* The image consists of its bytes.
LEMMA ImageBytes == Image \in Seq(IsoBytes)
<1>1. DOMAIN Image = 1..Len(Image) /\ Len(Image) \in Nat /\ Image = [i \in 1..Len(Image) |-> Image[i]]
  BY IsoAssumption
<1>2. \A i \in 1..Len(Image) : Image[i] \in IsoBytes
  BY <1>1 DEF IsoBytes
<1> DEFINE im == [i \in 1..Len(Image) |-> Image[i]]
<1>3. im \in Seq(IsoBytes)
  BY <1>1, <1>2
<1>4. QED
  BY <1>1, <1>3

\* Where the search finds something, Magic is there.
LEMMA IndexIsMagic ==
  ASSUME NEW s \in Seq(IsoBytes), IndexOfMagic(s) # 0
  PROVE  MagicAt(s, IndexOfMagic(s))
<1> DEFINE at == {i \in 1..Len(s) : i + Len(Magic) - 1 <= Len(s)
                                    /\ SubSeq(s, i, i + Len(Magic) - 1) = Magic}
<1>1. at # {} /\ IndexOfMagic(s) = CHOOSE i \in at : \A j \in at : i <= j
  BY DEF IndexOfMagic
<1>2. at \subseteq Nat
  OBVIOUS
<1> HIDE DEF at
<1>3. \E i \in at : \A j \in at : i <= j
  BY <1>1, <1>2, LeastNatural
<1>4. IndexOfMagic(s) \in at
  BY <1>1, <1>3
<1>5. QED
  BY <1>4 DEF at, MagicAt

\* A patched piece is as long as it was; where the patch fits into the magic
\* string it changes nothing outside of it.
LEMMA PatchedPiece ==
  ASSUME NEW s \in Seq(IsoBytes), NEW size \in Nat
  PROVE  /\ Patched(s, size) \in Seq(IsoBytes) /\ Len(Patched(s, size)) = Len(s)
         /\ size <= Len(Magic) =>
              \A i \in 1..Len(s) : Patched(s, size)[i] # s[i] =>
                \E k \in 1..Len(s) : MagicAt(s, k) /\ i \in k..(k + Len(Magic) - 1)
<1> DEFINE k == IndexOfMagic(s)
           byte(i) == CASE k # 0 /\ i \in k..(k + size - 1) -> "patch"
                        [] k # 0 /\ i \in k..(k + Len(Magic) - 1) /\ i > k + size - 1 -> " "
                        [] OTHER -> s[i]
           p == [i \in 1..Len(s) |-> byte(i)]
<1>0. Len(s) \in Nat /\ Len(Magic) \in Nat
  BY IsoAssumption
<1>1. Patched(s, size) = p
  BY DEF Patched
<1>2. \A i \in 1..Len(s) : byte(i) \in IsoBytes
  <2>1. \A i \in 1..Len(s) : byte(i) \in {"patch", " ", s[i]}
    OBVIOUS
  <2>2. \A i \in 1..Len(s) : s[i] \in IsoBytes
    OBVIOUS
  <2>3. "patch" \in IsoBytes /\ " " \in IsoBytes
    BY DEF IsoBytes
  <2> HIDE DEF byte
  <2>4. QED
    BY <2>1, <2>2, <2>3, Zenon
<1>3. \A i \in 1..Len(s) : byte(i) # s[i] =>
        k # 0 /\ (i \in k..(k + size - 1) \/ i \in k..(k + Len(Magic) - 1))
  OBVIOUS
<1>4. k # 0 => k \in 1..Len(s) /\ MagicAt(s, k)
  BY IndexIsMagic DEF MagicAt
<1> HIDE DEF k, byte
<1>5. p \in Seq(IsoBytes) /\ Len(p) = Len(s) /\ \A i \in 1..Len(s) : p[i] = byte(i)
  BY <1>0, <1>2
<1>6. ASSUME size <= Len(Magic), NEW i \in 1..Len(s), p[i] # s[i]
      PROVE  \E j \in 1..Len(s) : MagicAt(s, j) /\ i \in j..(j + Len(Magic) - 1)
  <2>1. k \in 1..Len(s) /\ MagicAt(s, k)
        /\ (i \in k..(k + size - 1) \/ i \in k..(k + Len(Magic) - 1))
    BY <1>3, <1>4, <1>5, <1>6
  <2>2. i \in k..(k + Len(Magic) - 1)
    BY <2>1, <1>0, <1>6
  <2>3. QED
    BY <2>1, <2>2
<1>7. QED
  BY <1>1, <1>5, <1>6

\* Magic in a piece of the image is Magic in the image.
LEMMA MagicOfPiece ==
  ASSUME NEW s \in Seq(IsoBytes), NEW off \in Nat, off + Len(s) <= Len(Image),
         \A i \in 1..Len(s) : s[i] = Image[off + i],
         NEW k \in 1..Len(s), MagicAt(s, k), NEW i \in k..(k + Len(Magic) - 1)
  PROVE  InMagic(off + i)
<1> DEFINE L == Len(Magic)
           K == off + k
<1>0. Len(s) \in Nat /\ L \in Nat /\ L > 0 /\ Len(Image) \in Nat
  BY IsoAssumption
<1>1. k + L - 1 <= Len(s) /\ SubSeq(s, k, k + L - 1) = Magic
  BY DEF MagicAt
<1> DEFINE a == SubSeq(s, k, k + L - 1)
           b == SubSeq(Image, K, K + L - 1)
<1>2. /\ a \in Seq(IsoBytes) /\ Len(a) = L /\ \A j \in 1..L : a[j] = s[k + j - 1]
  <2>1. \A j \in k..(k + L - 1) : s[j] \in IsoBytes
    BY <1>0, <1>1
  <2>2. /\ a \in Seq(IsoBytes) /\ Len(a) = (IF k <= k + L - 1 THEN (k + L - 1) - k + 1 ELSE 0)
        /\ \A j \in 1..((k + L - 1) - k + 1) : a[j] = s[k + j - 1]
    BY <2>1, <1>0, SubSeqProperties
  <2>3. QED
    BY <2>2, <1>0
<1>3. /\ b \in Seq(IsoBytes) /\ Len(b) = L /\ \A j \in 1..L : b[j] = Image[K + j - 1]
  <2>1. \A j \in K..(K + L - 1) : Image[j] \in IsoBytes
    <3> TAKE j \in K..(K + L - 1)
    <3>1. j \in 1..Len(Image)
      BY <1>0, <1>1
    <3>2. QED
      BY <3>1, ImageBytes
  <2>2. /\ b \in Seq(IsoBytes) /\ Len(b) = (IF K <= K + L - 1 THEN (K + L - 1) - K + 1 ELSE 0)
        /\ \A j \in 1..((K + L - 1) - K + 1) : b[j] = Image[K + j - 1]
    <3>1. ASSUME NEW from \in Int, NEW to \in Int, \A j \in from..to : Image[j] \in IsoBytes
          PROVE  /\ SubSeq(Image, from, to) \in Seq(IsoBytes)
                 /\ Len(SubSeq(Image, from, to)) = (IF from <= to THEN to - from + 1 ELSE 0)
                 /\ \A j \in 1..(to - from + 1) : SubSeq(Image, from, to)[j] = Image[from + j - 1]
      <4> HIDE DEF K, L, a, b
      <4>1. QED
        BY <3>1, SubSeqProperties
    <3>2. K \in Int /\ K + L - 1 \in Int
      BY <1>0
    <3> HIDE DEF K, L
    <3>3. QED
      BY <3>1, <3>2, <2>1
  <2>3. K <= K + L - 1 /\ (K + L - 1) - K + 1 = L
    BY <1>0
  <2>4. QED
    BY <2>2, <2>3
<1>4. \A j \in 1..L : a[j] = b[j]
  <2> TAKE j \in 1..L
  <2>1. k + j - 1 \in 1..Len(s) /\ off + (k + j - 1) = K + j - 1
    BY <1>0, <1>1
  <2>2. QED
    BY <2>1, <1>2, <1>3
<1> HIDE DEF a, b
<1>5. a = b
  BY <1>2, <1>3, <1>4, SeqEqual
<1>6. b = Magic
  BY <1>1, <1>5 DEF a
<1>7. K \in 1..(Len(Image) - L + 1) /\ off + i \in K..(K + L - 1)
  BY <1>0, <1>1
<1>8. QED
  BY <1>6, <1>7 DEF InMagic, b

\* The bytes sent so far are the image's, but for patches in magic strings.
SentOK ==
  /\ Len(isoOut) <= Len(Image)
  /\ isoSize <= Len(Magic) =>
       \A i \in 1..Len(isoOut) : isoOut[i] # Image[i] => InMagic(i)

\* While it is copied, what is sent and what is not read yet make the image.
CopyOK ==
  isoPhase = "copy" =>
    /\ Len(isoOut) + Len(isoRest) = Len(Image)
    /\ \A i \in 1..Len(isoRest) : isoRest[i] = Image[Len(isoOut) + i]

\* Where the request is decides what is acquired and wanted.
PhaseOK ==
  /\ isoPhase \in {"idle", "roundtrip"} => isoOut = <<>>
  /\ isoPhase # "copy" => isoBody # "open" /\ isoFlush = FALSE
  /\ isoPhase # "done" => isoEnd = "none"
  /\ isoPhase = "roundtrip" => isoRedirects <= MaxRedirects
  /\ isoPhase = "idle" => isoRedirects = 0
  /\ isoEnd = "complete" => Len(isoOut) = Len(Image)
  /\ isoLate = FALSE

IsoInv == IsoTypeOK /\ SentOK /\ CopyOK /\ PhaseOK

\* The invariant holds at first.
LEMMA IsoInitInv == IsoInit => IsoInv
<1> SUFFICES ASSUME IsoInit PROVE IsoInv
  OBVIOUS
<1>0. /\ isoPhase = "idle" /\ isoRedirects = 0 /\ isoSize = 0
      /\ isoRest = <<>> /\ isoOut = <<>> /\ isoBody = "none" /\ isoEnd = "none"
      /\ isoLength = FALSE /\ isoClient = "open"
      /\ isoFlush = FALSE /\ isoLate = FALSE
  BY Zenon DEF IsoInit
<1>a. <<>> \in Seq(IsoBytes) /\ 0 \in 0..(MaxRedirects + 1) /\ FALSE \in BOOLEAN
      /\ Len(<<>>) = 0 /\ 1..0 = {} /\ 0 <= Len(Image) /\ 0 <= MaxRedirects
  BY IsoAssumption
<1>1. IsoTypeOK
  BY <1>0, <1>a, Zenon DEF IsoTypeOK
<1>2. SentOK
  BY <1>0, <1>a, Zenon DEF SentOK
<1>3. CopyOK
  BY <1>0 DEF CopyOK
<1>4. PhaseOK
  BY <1>0 DEF PhaseOK
<1>5. QED
  BY <1>1, <1>2, <1>3, <1>4 DEF IsoInv

\* The elements of two sequences, one behind the other.
LEMMA JoinedSequence ==
  ASSUME NEW S, NEW s \in Seq(S), NEW t \in Seq(S)
  PROVE  /\ s \o t \in Seq(S) /\ Len(s \o t) = Len(s) + Len(t)
         /\ \A i \in 1..(Len(s) + Len(t)) :
              (s \o t)[i] = IF i <= Len(s) THEN s[i] ELSE t[i - Len(s)]
OBVIOUS

\* A piece is read and as much of it sent as the client takes.
LEMMA PieceSent ==
  ASSUME IsoInv, isoPhase = "copy", NEW n \in Nat, n <= Len(isoRest), NEW taken \in 0..n,
         isoOut' = isoOut \o SubSeq(Patched(SubSeq(isoRest, 1, n), isoSize), 1, taken),
         isoRest' = SubSeq(isoRest, n + 1, Len(isoRest)),
         isoSize' = isoSize
  PROVE  /\ isoOut' \in Seq(IsoBytes) /\ isoRest' \in Seq(IsoBytes)
         /\ SentOK'
         /\ Len(isoOut') = Len(isoOut) + taken
         /\ Len(isoRest') = Len(isoRest) - n
         /\ Len(isoOut) + Len(isoRest) = Len(Image)
         /\ \A i \in 1..Len(isoRest') : isoRest'[i] = Image[Len(isoOut) + n + i]
<1> DEFINE s == SubSeq(isoRest, 1, n)
           p == Patched(s, isoSize)
           t == SubSeq(p, 1, taken)
           off == Len(isoOut)
<1>0. /\ isoOut \in Seq(IsoBytes) /\ isoRest \in Seq(IsoBytes) /\ isoSize \in Nat
      /\ off \in Nat /\ Len(isoRest) \in Nat /\ Len(Image) \in Nat
      /\ off + Len(isoRest) = Len(Image)
      /\ \A i \in 1..Len(isoRest) : isoRest[i] = Image[off + i]
  <2>1. isoOut \in Seq(IsoBytes) /\ isoRest \in Seq(IsoBytes) /\ isoSize \in {0} \cup PatchSizes
    BY Zenon DEF IsoInv, IsoTypeOK
  <2>2. isoSize \in Nat /\ Len(Image) \in Nat
    BY <2>1, IsoAssumption
  <2>3. QED
    BY <2>1, <2>2 DEF IsoInv, CopyOK
<1>1. s \in Seq(IsoBytes) /\ Len(s) = n /\ \A i \in 1..n : s[i] = isoRest[i]
  <2>1. \A i \in 1..n : isoRest[i] \in IsoBytes
    BY <1>0
  <2>2. /\ s \in Seq(IsoBytes) /\ Len(s) = (IF 1 <= n THEN n - 1 + 1 ELSE 0)
        /\ \A i \in 1..(n - 1 + 1) : s[i] = isoRest[1 + i - 1]
    BY <2>1, SubSeqProperties
  <2>3. QED
    BY <2>2
<1>2. /\ p \in Seq(IsoBytes) /\ Len(p) = n
      /\ isoSize <= Len(Magic) =>
           \A i \in 1..n : p[i] # s[i] =>
             \E k \in 1..Len(s) : MagicAt(s, k) /\ i \in k..(k + Len(Magic) - 1)
  BY <1>0, <1>1, PatchedPiece
<1> HIDE DEF s, p
<1>3. t \in Seq(IsoBytes) /\ Len(t) = taken /\ \A i \in 1..taken : t[i] = p[i]
  <2>1. \A i \in 1..taken : p[i] \in IsoBytes
    BY <1>2
  <2>2. /\ t \in Seq(IsoBytes) /\ Len(t) = (IF 1 <= taken THEN taken - 1 + 1 ELSE 0)
        /\ \A i \in 1..(taken - 1 + 1) : t[i] = p[1 + i - 1]
    BY <2>1, SubSeqProperties
  <2>3. QED
    BY <2>2
<1>4. isoOut' = isoOut \o t
  BY DEF s, p
<1> HIDE DEF t
<1>5. /\ isoOut' \in Seq(IsoBytes) /\ Len(isoOut') = off + taken
      /\ \A i \in 1..(off + taken) : isoOut'[i] = IF i <= off THEN isoOut[i] ELSE t[i - off]
  <2>1. /\ isoOut \o t \in Seq(IsoBytes) /\ Len(isoOut \o t) = Len(isoOut) + Len(t)
        /\ \A i \in 1..(Len(isoOut) + Len(t)) :
             (isoOut \o t)[i] = IF i <= Len(isoOut) THEN isoOut[i] ELSE t[i - Len(isoOut)]
    <3>1. isoOut \in Seq(IsoBytes) /\ t \in Seq(IsoBytes)
      BY <1>0, <1>3
    <3>2. QED
      BY ONLY <3>1, JoinedSequence
  <2>2. QED
    BY <2>1, <1>3, <1>4
<1>6. /\ isoRest' \in Seq(IsoBytes) /\ Len(isoRest') = Len(isoRest) - n
      /\ \A i \in 1..(Len(isoRest) - n) : isoRest'[i] = isoRest[n + i]
  <2>1. \A i \in (n + 1)..Len(isoRest) : isoRest[i] \in IsoBytes
    BY <1>0
  <2>2. /\ isoRest' \in Seq(IsoBytes)
        /\ Len(isoRest') = (IF n + 1 <= Len(isoRest) THEN Len(isoRest) - (n + 1) + 1 ELSE 0)
        /\ \A i \in 1..(Len(isoRest) - (n + 1) + 1) : isoRest'[i] = isoRest[(n + 1) + i - 1]
    BY <2>1, <1>0, SubSeqProperties
  <2>3. QED
    BY <2>2, <1>0
<1>7. \A i \in 1..Len(isoRest') : isoRest'[i] = Image[off + n + i]
  <2> TAKE i \in 1..Len(isoRest')
  <2>1. n + i \in 1..Len(isoRest) /\ off + (n + i) = off + n + i /\ i \in 1..(Len(isoRest) - n)
    <3> DEFINE rest == Len(isoRest)
    <3>1. off \in Nat /\ rest \in Nat /\ n \in Nat /\ i \in 1..(rest - n)
      BY <1>0, <1>6
    <3> HIDE DEF off, rest
    <3>2. n + i \in 1..rest /\ off + (n + i) = off + n + i
      BY ONLY <3>1
    <3>3. QED
      BY <3>1, <3>2 DEF off, rest
  <2>2. QED
    BY <2>1, <1>0, <1>6
<1>8. SentOK'
  <2>1. Len(isoOut') <= Len(Image)
    BY <1>0, <1>5
  <2>2. ASSUME isoSize <= Len(Magic), NEW i \in 1..Len(isoOut'), isoOut'[i] # Image[i]
        PROVE  InMagic(i)
    <3>1. CASE i <= off
      <4>1. i \in 1..Len(isoOut) /\ isoOut[i] # Image[i]
        BY <3>1, <2>2, <1>0, <1>5
      <4>2. QED
        BY <4>1, <2>2 DEF IsoInv, SentOK
    <3>2. CASE ~(i <= off)
      <4> DEFINE j == i - off
      <4>1. j \in 1..n /\ j \in 1..taken /\ off + j = i /\ isoOut'[i] = t[j]
        BY <3>2, <1>0, <1>5
      <4>2. p[j] # s[j]
        <5>1. j \in 1..Len(isoRest)
          BY <4>1, <1>0
        <5>2. s[j] = Image[i] /\ t[j] = p[j]
          BY <5>1, <4>1, <1>0, <1>1, <1>3
        <5>3. QED
          BY <5>2, <4>1, <2>2
      <4>3. PICK k \in 1..Len(s) : MagicAt(s, k) /\ j \in k..(k + Len(Magic) - 1)
        BY <4>1, <4>2, <2>2, <1>2
      <4> HIDE DEF j
      <4>4. off + Len(s) <= Len(Image) /\ \A x \in 1..Len(s) : s[x] = Image[off + x]
        <5>1. off + n <= Len(Image) /\ \A x \in 1..n : x \in 1..Len(isoRest)
          <6> DEFINE rest == Len(isoRest)
                     all == Len(Image)
          <6>1. off \in Nat /\ rest \in Nat /\ all \in Nat /\ off + rest = all /\ n \in Nat /\ n <= rest
            BY <1>0
          <6> HIDE DEF off, rest, all
          <6>2. off + n <= all /\ \A x \in 1..n : x \in 1..rest
            BY ONLY <6>1
          <6>3. QED
            BY <6>2 DEF off, rest, all
        <5>2. QED
          BY <5>1, <1>0, <1>1
      <4>5. InMagic(off + j)
        BY <4>3, <4>4, <1>0, <1>1, MagicOfPiece
      <4>6. QED
        BY <4>1, <4>5
    <3>3. QED
      BY <3>1, <3>2
  <2>3. QED
    BY <2>1, <2>2 DEF SentOK, InMagic
<1>9. QED
  BY <1>0, <1>5, <1>6, <1>7, <1>8

\* A piece is copied, or the last one and then the copy ends.
LEMMA IsoCopyStep == ASSUME IsoInv, IsoCopy PROVE IsoInv'
<1>0. isoPhase = "copy" /\ UNCHANGED <<isoRedirects, isoSize, isoLength, isoClient, isoLate>>
  BY DEF IsoCopy
<1>1. PICK n \in 0..BufSize :
        /\ n <= Len(isoRest)
        /\ isoOut' = isoOut \o Patched(SubSeq(isoRest, 1, n), isoSize)
        /\ isoRest' = SubSeq(isoRest, n + 1, Len(isoRest))
        /\ \/ UNCHANGED <<isoPhase, isoEnd, isoBody, isoFlush>>
           \/ n = Len(isoRest) /\ IsoFinish("complete")
  BY DEF IsoCopy
<1>2. n \in Nat /\ n \in 0..n
  BY IsoAssumption
<1>3. isoOut' = isoOut \o SubSeq(Patched(SubSeq(isoRest, 1, n), isoSize), 1, n)
  <2> DEFINE s == SubSeq(isoRest, 1, n)
             p == Patched(s, isoSize)
  <2>1. isoRest \in Seq(IsoBytes) /\ isoSize \in {0} \cup PatchSizes
    BY Zenon DEF IsoInv, IsoTypeOK
  <2>2. s \in Seq(IsoBytes) /\ Len(s) = n
    BY <2>1, <1>1, <1>2
  <2>3. isoSize \in Nat
    BY <2>1, IsoAssumption
  <2>4. p \in Seq(IsoBytes) /\ Len(p) = n
    BY <2>2, <2>3, PatchedPiece
  <2> HIDE DEF s, p
  <2>5. SubSeq(p, 1, n) = p
    BY <2>4, SubSeqFull
  <2>6. QED
    BY <2>5, <1>1 DEF s, p
<1>4. /\ isoOut' \in Seq(IsoBytes) /\ isoRest' \in Seq(IsoBytes) /\ SentOK'
      /\ Len(isoOut') = Len(isoOut) + n /\ Len(isoRest') = Len(isoRest) - n
      /\ Len(isoOut) + Len(isoRest) = Len(Image)
      /\ \A i \in 1..Len(isoRest') : isoRest'[i] = Image[Len(isoOut) + n + i]
  BY <1>0, <1>1, <1>2, <1>3, PieceSent
<1>5. Len(isoOut) \in Nat /\ Len(isoRest) \in Nat
  <2>1. isoOut \in Seq(IsoBytes) /\ isoRest \in Seq(IsoBytes)
    BY Zenon DEF IsoInv, IsoTypeOK
  <2>2. QED
    BY <2>1
<1>6. \/ UNCHANGED <<isoPhase, isoEnd, isoBody, isoFlush>>
      \/ /\ isoPhase' = "done" /\ isoEnd' = "complete" /\ isoBody' = "closed" /\ isoFlush' = FALSE
         /\ Len(isoOut') = Len(Image)
  BY <1>1, <1>4, <1>5 DEF IsoFinish
<1>7. IsoTypeOK'
  BY <1>0, <1>4, <1>6, Zenon DEF IsoInv, IsoTypeOK
<1>8. CopyOK'
  <2> SUFFICES ASSUME isoPhase' = "copy"
               PROVE  /\ Len(isoOut') + Len(isoRest') = Len(Image)
                      /\ \A i \in 1..Len(isoRest') : isoRest'[i] = Image[Len(isoOut') + i]
    BY DEF CopyOK
  <2>1. (Len(isoOut) + n) + (Len(isoRest) - n) = Len(isoOut) + Len(isoRest)
    BY <1>2, <1>5
  <2>2. QED
    BY <2>1, <1>4
<1>9. PhaseOK'
  BY <1>0, <1>6, Zenon DEF IsoInv, PhaseOK
<1>10. QED
  BY <1>4, <1>7, <1>8, <1>9 DEF IsoInv

\* The copy breaks off.
LEMMA IsoCopyFailsStep == ASSUME IsoInv, IsoCopyFails PROVE IsoInv'
<1>0. /\ isoPhase = "copy" /\ UNCHANGED <<isoRedirects, isoSize, isoLength, isoLate>>
      /\ isoPhase' = "done" /\ isoEnd' = "aborted" /\ isoBody' = "closed" /\ isoFlush' = FALSE
  BY DEF IsoCopyFails, IsoFinish
<1>a. PICK n \in 0..BufSize : \E taken \in 0..n :
        /\ n <= Len(isoRest)
        /\ isoOut' = isoOut \o SubSeq(Patched(SubSeq(isoRest, 1, n), isoSize), 1, taken)
        /\ isoRest' = SubSeq(isoRest, n + 1, Len(isoRest))
        /\ isoClient' \in {"cut", "open"}
  BY DEF IsoCopyFails
<1>1. PICK taken \in 0..n :
        /\ n <= Len(isoRest)
        /\ isoOut' = isoOut \o SubSeq(Patched(SubSeq(isoRest, 1, n), isoSize), 1, taken)
        /\ isoRest' = SubSeq(isoRest, n + 1, Len(isoRest))
        /\ isoClient' \in {"cut", "open"}
  BY <1>a
<1>2. n \in Nat
  BY IsoAssumption
<1>3. isoOut' \in Seq(IsoBytes) /\ isoRest' \in Seq(IsoBytes) /\ SentOK'
  BY <1>0, <1>1, <1>2, PieceSent
<1>4. IsoTypeOK'
  BY <1>0, <1>1, <1>3, Zenon DEF IsoInv, IsoTypeOK
<1>5. CopyOK' /\ PhaseOK'
  BY <1>0, Zenon DEF IsoInv, CopyOK, PhaseOK
<1>6. QED
  BY <1>3, <1>4, <1>5 DEF IsoInv

\* The source answers with the image.
LEMMA IsoRespondStep == ASSUME IsoInv, IsoRespond PROVE IsoInv'
<1>0. /\ isoPhase = "roundtrip" /\ isoPhase' = "copy" /\ isoBody' = "open" /\ isoRest' = Image
      /\ isoLength' \in BOOLEAN /\ isoFlush' = TRUE
      /\ UNCHANGED <<isoRedirects, isoSize, isoOut, isoEnd, isoClient, isoLate>>
  BY DEF IsoRespond
<1>1. isoOut = <<>> /\ isoOut' = <<>>
  BY <1>0 DEF IsoInv, PhaseOK
<1>2. IsoTypeOK'
  BY <1>0, ImageBytes, Zenon DEF IsoInv, IsoTypeOK
<1>3. SentOK' /\ PhaseOK'
  BY <1>0, Zenon DEF IsoInv, SentOK, PhaseOK
<1>4. CopyOK'
  BY <1>0, <1>1, ImageBytes DEF CopyOK
<1>5. QED
  BY <1>2, <1>3, <1>4 DEF IsoInv

\* The steps that send nothing.
LEMMA IsoOtherSteps ==
  ASSUME IsoInv,
         \/ IsoAccept \/ IsoRefuse \/ IsoRedirect \/ IsoSourceFails
         \/ delayedFlush \/ IsoReturn \/ UNCHANGED isoVars
  PROVE  IsoInv'
<1>0. MaxRedirects \in Nat
  BY IsoAssumption
<1>1. CASE IsoAccept
  <2>0. /\ isoPhase = "idle" /\ isoSize' \in PatchSizes /\ isoPhase' = "roundtrip"
        /\ UNCHANGED <<isoRedirects, isoRest, isoOut, isoBody, isoEnd, isoLength, isoClient,
                       isoFlush, isoLate>>
    BY <1>1 DEF IsoAccept
  <2>1. IsoTypeOK'
    BY <2>0, Zenon DEF IsoInv, IsoTypeOK
  <2>2. SentOK'
    <3>1. isoOut' = <<>> /\ Len(<<>>) = 0 /\ 1..0 = {}
      BY <2>0 DEF IsoInv, PhaseOK
    <3>2. QED
      BY <2>0, <3>1, Zenon DEF IsoInv, SentOK
  <2>3. CopyOK'
    BY <2>0 DEF CopyOK
  <2>4. PhaseOK'
    <3>1. isoRedirects' <= MaxRedirects
      BY <2>0, <1>0 DEF IsoInv, PhaseOK
    <3>2. QED
      BY <2>0, <3>1, Zenon DEF IsoInv, PhaseOK
  <2>5. QED
    BY <2>1, <2>2, <2>3, <2>4 DEF IsoInv
<1>2. CASE IsoRefuse \/ IsoSourceFails
  <2>0. /\ isoPhase \in {"idle", "roundtrip"} /\ isoPhase' = "done"
        /\ isoEnd' \in {"refused", "badGateway"}
        /\ UNCHANGED <<isoRedirects, isoSize, isoRest, isoOut, isoBody, isoLength, isoClient,
                       isoFlush, isoLate>>
    BY <1>2 DEF IsoRefuse, IsoSourceFails
  <2>1. IsoTypeOK' /\ SentOK' /\ CopyOK'
    BY <2>0, Zenon DEF IsoInv, IsoTypeOK, SentOK, CopyOK
  <2>2. PhaseOK'
    BY <2>0, Zenon DEF IsoInv, PhaseOK
  <2>3. QED
    BY <2>1, <2>2 DEF IsoInv
<1>3. CASE IsoRedirect
  <2>0. /\ isoPhase = "roundtrip" /\ isoRedirects' = isoRedirects + 1 /\ isoBody' = "closed"
        /\ \/ isoPhase' = "done" /\ isoEnd' = "badGateway"
           \/ isoRedirects + 1 <= MaxRedirects /\ UNCHANGED <<isoPhase, isoEnd>>
        /\ UNCHANGED <<isoSize, isoRest, isoOut, isoLength, isoClient, isoFlush, isoLate>>
    <3>1. isoRedirects \in 0..(MaxRedirects + 1)
      BY Zenon DEF IsoInv, IsoTypeOK
    <3>2. QED
      BY <1>3, <3>1, <1>0 DEF IsoRedirect
  <2>1. isoRedirects' \in 0..(MaxRedirects + 1)
    <3>1. isoRedirects \in 0..(MaxRedirects + 1) /\ isoRedirects <= MaxRedirects
      BY <2>0, Zenon DEF IsoInv, IsoTypeOK, PhaseOK
    <3>2. QED
      BY <2>0, <3>1, <1>0
  <2>2. IsoTypeOK' /\ SentOK'
    BY <2>0, <2>1, Zenon DEF IsoInv, IsoTypeOK, SentOK
  <2>3. CopyOK'
    BY <2>0 DEF CopyOK
  <2>4. PhaseOK'
    BY <2>0, Zenon DEF IsoInv, PhaseOK
  <2>5. QED
    BY <2>2, <2>3, <2>4 DEF IsoInv
<1>4. CASE delayedFlush
  <2>0. /\ isoPhase # "done" /\ isoFlush' = FALSE /\ isoLate' = FALSE
        /\ UNCHANGED <<isoPhase, isoRedirects, isoSize, isoRest, isoOut, isoBody, isoEnd,
                       isoLength, isoClient>>
    BY <1>4, Zenon DEF delayedFlush, IsoInv, PhaseOK
  <2>1. IsoTypeOK'
    <3>1. IsoTypeOK
      BY DEF IsoInv
    <3>2. QED
      BY <2>0, <3>1, Zenon DEF IsoTypeOK
  <2>2. SentOK' /\ CopyOK'
    BY <2>0, Zenon DEF IsoInv, SentOK, CopyOK
  <2>3. PhaseOK'
    BY <2>0, Zenon DEF IsoInv, PhaseOK
  <2>4. QED
    BY <2>1, <2>2, <2>3 DEF IsoInv
<1>5. CASE IsoReturn \/ UNCHANGED isoVars
  <2>0. /\ isoClient' \in {"cut", "ended", isoClient}
        /\ UNCHANGED <<isoPhase, isoRedirects, isoSize, isoRest, isoOut, isoBody, isoEnd,
                       isoLength, isoFlush, isoLate>>
    BY <1>5 DEF IsoReturn, isoVars
  <2>1. IsoTypeOK'
    <3>1. IsoTypeOK
      BY DEF IsoInv
    <3>2. isoClient' \in {"open", "ended", "cut"}
      BY <2>0, <3>1 DEF IsoTypeOK
    <3>3. QED
      BY <2>0, <3>1, <3>2, Zenon DEF IsoTypeOK
  <2>2. SentOK' /\ CopyOK'
    BY <2>0, Zenon DEF IsoInv, SentOK, CopyOK
  <2>3. PhaseOK'
    BY <2>0, Zenon DEF IsoInv, PhaseOK
  <2>4. QED
    BY <2>1, <2>2, <2>3 DEF IsoInv
<1>6. QED
  BY <1>1, <1>2, <1>3, <1>4, <1>5

\* The inductive invariant of an ISO request holds in every reachable state.
THEOREM IsoInvariance == IsoSpec => []IsoInv
<1>1. IsoInv /\ [IsoNext]_isoVars => IsoInv'
  BY IsoCopyStep, IsoCopyFailsStep, IsoRespondStep, IsoOtherSteps DEF IsoNext
<1>2. QED
  BY <1>1, IsoInitInv, PTL DEF IsoSpec

\* A request's state keeps its types; no more redirects are followed than
\* are allowed and one.
THEOREM IsoTypeCorrect == IsoSpec => []IsoTypeOK
<1>1. IsoInv => IsoTypeOK
  BY DEF IsoInv
<1>2. QED
  BY <1>1, IsoInvariance, PTL

\* In whatever pieces an image is read, a client that got it to its end holds
\* as many bytes as the source, all of them the source's outside of the magic
\* strings when the parameters fit; the source's body is closed whenever the
\* handler ended, and no flush comes after that.
THEOREM IsoIsServed == IsoSpec => []IsoServed
<1>1. IsoInv => IsoServed
  <2> SUFFICES ASSUME IsoInv PROVE IsoServed
    OBVIOUS
  <2>1. IsoIntact
    BY DEF IsoInv, SentOK, PhaseOK, IsoIntact
  <2>2. IsoReleased
    BY Zenon DEF IsoInv, PhaseOK, IsoReleased
  <2>3. QED
    BY <2>1, <2>2 DEF IsoServed
<1>2. QED
  BY <1>1, IsoInvariance, PTL

-----------------------------------------------------------------------------
(* The HTTP side.  The inductive invariant follows a request: the route it *)
(* is for, the way back to its client, and what its answer says.           *)

\* The codes that are answered, and the fields of a request.
HsCodes == {200, 308, 404, 500}
RequestFields == {"client", "route", "path", "instance", "scheme", "forwarded", "peer", "hops",
                  "followed"}
RoutesOf(c) == ToSet(routeList(c))
DataPaths == {DataRoutes[f] : f \in DOMAIN DataRoutes}

\* What paths are made of.
DataWords == {"meta-data", "user-data", "instance-id", "hostname", "public-ipv4", "local-ipv4", "iqn"}
Words == DataWords \cup UNION {{e[i] : i \in DOMAIN e} : e \in Endpoints}

\* On the way to some data.
Leads(path) == \E d \in DataPaths : IsPrefix(path, d)

\* Every request that was answered is counted.
AllCounted ==
  /\ hsCount \in [HsCodes -> Nat]
  /\ hsCount[200] + hsCount[308] + hsCount[404] + hsCount[500]
       + (IF hsAt = "way" THEN 1 ELSE 0) = hsSent

\* A request comes from its client, or from a trusted proxy with a list in which the
\* client is followed only by trusted proxies.
Traced(r) ==
  /\ r.client \in Machines
  /\ \/ r.peer = r.client
     \/ /\ r.peer \in Relays \cap hsConfig.trusted
        /\ \E n \in DOMAIN r.forwarded :
             /\ r.forwarded[n] = r.client
             /\ \A j \in DOMAIN r.forwarded : j > n => r.forwarded[j] \in Relays \cap hsConfig.trusted

\* A request is for a route of the table, one that was offered is for a route of the
\* multiplexer, and below the metadata its path was asked for or leads to data.
Routed(r) ==
  /\ \E x \in RoutesOf(hsConfig) :
       x.pattern = r.route /\ (x.by = "ec2" => r.path \in Endpoints \/ Leads(r.path))
  /\ r.followed => \E m \in Muxes(hsConfig, r.scheme) : m.pattern = r.route
  /\ r.path \in Seq(Words) /\ r.scheme \in {"http", "https"}

\* What an answer says of the request it is for.
AnswerOf(r, a) ==
  /\ a.by = Matched(hsConfig, r.scheme, r.route).by /\ a.code \in HsCodes
  /\ a.code = 308 => a.by = "redirect"
  /\ a.code = 404 => a.by \in {"notFound", "ec2", "hack"}
  /\ a.by = "ec2" /\ a.code = 200 /\ StaticChildren(r.path) # {} => a.body = StaticChildren(r.path)
  /\ a.by = "ec2" /\ a.code = 404 /\ Leads(r.path) => r.path \in DataPaths
  /\ a.code >= 500 => a.logged \in {"always", "error"}

\* The finite sets of objects: states of the cluster.
Objects == {s \in SUBSET HwObjects : IsFiniteSet(s)}

HsInv ==
  /\ HsTypeOK /\ IsFiniteSet(hsCache) /\ hsLater \in Seq(Objects) /\ ~Conflict(hsConfig) /\ AllCounted
  /\ DOMAIN hsReq = RequestFields /\ (hsAt = "none" => hsReq = NoRequest)
  /\ hsAt # "none" => Traced(hsReq) /\ Routed(hsReq)
  /\ hsAt = "answered" => AnswerOf(hsReq, hsAnswer)

-----------------------------------------------------------------------------
(* Paths.                                                                  *)

LEMMA DataPathsAre ==
  DataPaths = {<<"meta-data", "instance-id">>, <<"meta-data", "hostname">>,
               <<"meta-data", "public-ipv4">>, <<"meta-data", "local-ipv4">>,
               <<"user-data">>, <<"meta-data", "iqn">>}
BY DEF DataPaths, DataRoutes

LEMMA DataPathSeqs ==
  ASSUME NEW d \in DataPaths
  PROVE  /\ d \in Seq(Words)
         /\ \/ Len(d) = 2 /\ d[1] = "meta-data"
            \/ Len(d) = 1 /\ d[1] = "user-data"
<1>1. ASSUME NEW s \in Words
      PROVE  <<"meta-data", s>> \in Seq(Words) /\ Len(<<"meta-data", s>>) = 2 /\ <<"meta-data", s>>[1] = "meta-data"
  BY DEF Words, DataWords
<1>2. <<"user-data">> \in Seq(Words) /\ Len(<<"user-data">>) = 1 /\ <<"user-data">>[1] = "user-data"
  BY DEF Words, DataWords
<1>3. d = <<"user-data">> \/ \E s \in Words : d = <<"meta-data", s>>
  <2>1. \/ d = <<"meta-data", "instance-id">> \/ d = <<"meta-data", "hostname">>
        \/ d = <<"meta-data", "public-ipv4">> \/ d = <<"meta-data", "local-ipv4">>
        \/ d = <<"user-data">> \/ d = <<"meta-data", "iqn">>
    BY DataPathsAre, Zenon
  <2>2. {"instance-id", "hostname", "public-ipv4", "local-ipv4", "iqn"} \subseteq Words
    BY DEF Words, DataWords
  <2>3. QED
    BY <2>1, <2>2, Zenon
<1>4. QED
  BY <1>1, <1>2, <1>3

\* The paths that are asked for are made of words.
LEMMA EndpointsAre == Endpoints \subseteq Seq(Words)
<1> SUFFICES ASSUME NEW e \in Endpoints PROVE e \in Seq(Words)
  OBVIOUS
<1> DEFINE S == {e[i] : i \in DOMAIN e}
<1>1. e \in Seq(S)
  BY HsAssumption
<1>2. S \subseteq Words
  BY DEF Words
<1> HIDE DEF S
<1>3. QED
  BY <1>1, <1>2

\* What a strict prefix is.
LEMMA StrictPrefix ==
  ASSUME NEW s \in Seq(Words), NEW t \in Seq(Words), IsStrictPrefix(s, t)
  PROVE  Len(s) < Len(t) /\ \A i \in 1..Len(s) : s[i] = t[i]
<1>1. Len(s) \in Nat /\ Len(t) \in Nat /\ Len(s) <= Len(t)
  BY DEF IsStrictPrefix, IsPrefix
<1>2. \A i \in 1..Len(s) : s[i] = t[i]
  <2>1. SubSeq(s, 1, Len(s)) = SubSeq(t, 1, Len(s))
    BY DEF IsStrictPrefix, IsPrefix
  <2>2. ASSUME NEW i \in 1..Len(s) PROVE SubSeq(s, 1, Len(s))[i] = s[i] /\ SubSeq(t, 1, Len(s))[i] = t[i]
    BY <1>1
  <2>3. QED
    BY <2>1, <2>2
<1>3. Len(s) # Len(t)
  BY <1>1, <1>2 DEF IsStrictPrefix
<1>4. QED
  BY <1>1, <1>2, <1>3

\* What has the same first elements is a prefix.
LEMMA PrefixIf ==
  ASSUME NEW s \in Seq(Words), NEW t \in Seq(Words), Len(s) <= Len(t),
         \A i \in 1..Len(s) : s[i] = t[i]
  PROVE  IsPrefix(s, t)
<1>1. Len(s) \in Nat /\ Len(t) \in Nat
  OBVIOUS
<1>2. ASSUME NEW q \in Seq(Words), Len(s) <= Len(q)
      PROVE  SubSeq(q, 1, Len(s)) = [i \in 1..Len(s) |-> q[i]]
  BY <1>1, <1>2
<1>3. SubSeq(s, 1, Len(s)) = SubSeq(t, 1, Len(s))
  <2>1. [i \in 1..Len(s) |-> s[i]] = [i \in 1..Len(s) |-> t[i]]
    OBVIOUS
  <2>2. SubSeq(s, 1, Len(s)) = [i \in 1..Len(s) |-> s[i]] /\ SubSeq(t, 1, Len(s)) = [i \in 1..Len(s) |-> t[i]]
    BY <1>1, <1>2
  <2>3. QED
    BY <2>1, <2>2
<1>4. QED
  BY <1>3 DEF IsPrefix

LEMMA ChildOf ==
  ASSUME NEW path, NEW child \in StaticChildren(path)
  PROVE  \E d \in DataPaths : IsStrictPrefix(path, d) /\ child = d[Len(path) + 1]
BY DEF StaticChildren, DataPaths

\* Nothing lies below the path of some data.
LEMMA NothingBelowData ==
  ASSUME NEW path \in DataPaths
  PROVE  StaticChildren(path) = {}
<1> SUFFICES ASSUME NEW child \in StaticChildren(path) PROVE FALSE
  OBVIOUS
<1>1. PICK d \in DataPaths : IsStrictPrefix(path, d)
  BY ChildOf
<1>2. Len(path) < Len(d) /\ \A i \in 1..Len(path) : path[i] = d[i]
  BY <1>1, DataPathSeqs, StrictPrefix
<1>3. Len(path) = 1 /\ path[1] = "user-data" /\ d[1] = "meta-data"
  BY <1>2, DataPathSeqs
<1>4. QED
  BY <1>2, <1>3

\* An entry of a listing leads to data.
LEMMA ChildLeads ==
  ASSUME NEW path \in Seq(Words), NEW child \in StaticChildren(path)
  PROVE  Append(path, child) \in Seq(Words) /\ Leads(Append(path, child))
<1>1. PICK d \in DataPaths : IsStrictPrefix(path, d) /\ child = d[Len(path) + 1]
  BY ChildOf
<1>2. d \in Seq(Words)
  BY DataPathSeqs
<1>3. Len(path) < Len(d) /\ (\A i \in 1..Len(path) : path[i] = d[i]) /\ Len(path) \in Nat /\ Len(d) \in Nat
  BY <1>1, <1>2, StrictPrefix
<1>4. child \in Words
  BY <1>1, <1>2, <1>3
<1> DEFINE new == Append(path, child)
<1>5. /\ new \in Seq(Words) /\ Len(new) = Len(path) + 1 /\ new[Len(path) + 1] = child
      /\ \A i \in 1..Len(path) : new[i] = path[i]
  BY <1>4
<1> HIDE DEF new
<1>6. Len(new) <= Len(d) /\ \A i \in 1..Len(new) : new[i] = d[i]
  BY <1>1, <1>3, <1>5
<1>7. IsPrefix(new, d)
  BY <1>2, <1>5, <1>6, PrefixIf
<1>8. QED
  BY <1>5, <1>7 DEF Leads, new

\* A path that leads to data is the path of some, or has something below it.
LEMMA LeadsOn ==
  ASSUME NEW path, Leads(path), path \notin DataPaths
  PROVE  StaticChildren(path) # {}
<1>1. PICK f \in DOMAIN DataRoutes : IsPrefix(path, DataRoutes[f])
  BY DEF Leads, DataPaths
<1>2. path # DataRoutes[f]
  BY <1>1 DEF DataPaths
<1>3. f \in {g \in DOMAIN DataRoutes : IsStrictPrefix(path, DataRoutes[g])}
  BY <1>1, <1>2 DEF IsStrictPrefix
<1>4. QED
  BY <1>3, Zenon DEF StaticChildren

-----------------------------------------------------------------------------
(* The table of routes.                                                    *)

RouteNames == {"binary", "script", "iso", "pxe", "ec2", "hack", "ui", "metrics", "health"}

\* The routes that can be in the table.
GoodRoutes(c) ==
  {r \in [pattern : {"/ipxe/binary/", "/ipxe/script/", "/iso/", "/2009-04-04/", "/tootles/",
                     "/metadata", "/smee/metrics", "/tink-server/metrics", "/controllers/metrics",
                     "/http/metrics", "/metrics", "/healthcheck", "/healthz", "/readyz",
                     c.pxePrefix, c.uiPrefix},
          by : RouteNames, level : {"always", "never", "debug"},
          https : {FALSE, c.tls}, rewrite : {FALSE, c.tls}] :
     /\ r.rewrite => r.https
     /\ r.by = "ec2" => r.pattern \in {"/2009-04-04/", "/tootles/"}}

LEMMA RoutesGood == ASSUME NEW c PROVE routeList(c) \in Seq(GoodRoutes(c))
<1> DEFINE S == GoodRoutes(c)
<1>1. /\ \A p \in {"/ipxe/binary/", "/ipxe/script/", "/smee/metrics", "/tink-server/metrics",
                   "/controllers/metrics", "/http/metrics", "/metrics", "/healthcheck", "/healthz",
                   "/readyz", c.pxePrefix}, b \in RouteNames \ {"ec2"}, l \in {"always", "never"} :
           Plain(p, b, l) \in S
      /\ Route("/iso/", "iso", "never", c.tls, FALSE) \in S
      /\ Route("/2009-04-04/", "ec2", "always", c.tls, c.tls) \in S
      /\ Route("/tootles/", "ec2", "always", c.tls, c.tls) \in S
      /\ Route("/metadata", "hack", "always", c.tls, c.tls) \in S
      /\ Route(c.uiPrefix, "ui", "debug", c.tls, c.tls) \in S
  BY DEF Plain, Route, GoodRoutes, RouteNames
<1> HIDE DEF S
<1>2. ASSUME NEW s \in Seq(S), NEW t \in Seq(S) PROVE s \o t \in Seq(S)
  OBVIOUS
<1>3. ASSUME NEW a \in S PROVE <<a>> \in Seq(S)
  OBVIOUS
<1>4. ASSUME NEW a \in S, NEW b \in S PROVE <<a, b>> \in Seq(S)
  OBVIOUS
<1>5. ASSUME NEW a \in S, NEW b \in S, NEW d \in S PROVE <<a, b, d>> \in Seq(S)
  OBVIOUS
<1>6. <<>> \in Seq(S)
  OBVIOUS
<1>7. SmeeRoutes(c) \in Seq(S)
  <2>1. << Plain("/ipxe/binary/", "binary", "always"), Plain("/ipxe/script/", "script", "always") >> \in Seq(S)
    BY <1>1, <1>4 DEF RouteNames
  <2>2. (IF c.iso THEN << Route("/iso/", "iso", "never", c.tls, FALSE) >> ELSE <<>>) \in Seq(S)
    BY <1>1, <1>3, <1>6
  <2>3. (IF c.pxePrefix # "" THEN << Plain(c.pxePrefix, "pxe", "always") >> ELSE <<>>) \in Seq(S)
    BY <1>1, <1>3, <1>6 DEF RouteNames
  <2>4. QED
    BY <1>2, <2>1, <2>2, <2>3, Zenon DEF SmeeRoutes
<1>8. TootlesRoutes(c) \in Seq(S)
  <2>1. << Route("/2009-04-04/", "ec2", "always", c.tls, c.tls) >> \in Seq(S)
    BY <1>1, <1>3
  <2>2. (IF c.instance THEN << Route("/tootles/", "ec2", "always", c.tls, c.tls) >> ELSE <<>>) \in Seq(S)
    BY <1>1, <1>3, <1>6
  <2>3. << Route("/metadata", "hack", "always", c.tls, c.tls) >> \in Seq(S)
    BY <1>1, <1>3
  <2>4. QED
    BY <1>2, <2>1, <2>2, <2>3, Zenon DEF TootlesRoutes
<1>9. MetricsRoutes(c) \in Seq(S)
  <2>1. (IF c.smee THEN << Plain("/smee/metrics", "metrics", "never") >> ELSE <<>>) \in Seq(S)
    BY <1>1, <1>3, <1>6 DEF RouteNames
  <2>2. (IF c.tink THEN << Plain("/tink-server/metrics", "metrics", "never") >> ELSE <<>>) \in Seq(S)
    BY <1>1, <1>3, <1>6 DEF RouteNames
  <2>3. (IF c.controllers THEN << Plain("/controllers/metrics", "metrics", "never") >> ELSE <<>>) \in Seq(S)
    BY <1>1, <1>3, <1>6 DEF RouteNames
  <2>4. << Plain("/http/metrics", "metrics", "never"), Plain("/metrics", "metrics", "never") >> \in Seq(S)
    BY <1>1, <1>4 DEF RouteNames
  <2>5. QED
    BY <1>2, <2>1, <2>2, <2>3, <2>4, Zenon DEF MetricsRoutes
<1>10. /\ (IF c.smee THEN SmeeRoutes(c) ELSE <<>>) \in Seq(S)
       /\ (IF c.tootles THEN TootlesRoutes(c) ELSE <<>>) \in Seq(S)
       /\ (IF c.ui THEN << Route(c.uiPrefix, "ui", "debug", c.tls, c.tls) >> ELSE <<>>) \in Seq(S)
       /\ << Plain("/healthcheck", "health", "never"), Plain("/healthz", "health", "never"),
             Plain("/readyz", "health", "never") >> \in Seq(S)
  <2>1. (IF c.ui THEN << Route(c.uiPrefix, "ui", "debug", c.tls, c.tls) >> ELSE <<>>) \in Seq(S)
    BY <1>1, <1>3, <1>6
  <2>2. << Plain("/healthcheck", "health", "never"), Plain("/healthz", "health", "never"),
           Plain("/readyz", "health", "never") >> \in Seq(S)
    BY <1>1, <1>5 DEF RouteNames
  <2>3. QED
    BY <1>6, <1>7, <1>8, <2>1, <2>2
<1>11. routeList(c) \in Seq(S)
  BY <1>2, <1>9, <1>10, Zenon DEF routeList
<1>12. QED
  BY <1>11 DEF S

\* What can be said of a route of the table.
LEMMA RouteFacts ==
  ASSUME NEW c, NEW r \in RoutesOf(c)
  PROVE  /\ r.by \in RouteNames /\ (r.rewrite => r.https)
         /\ r.by = "ec2" => r.pattern # "/"
<1>1. r \in GoodRoutes(c)
  BY RoutesGood DEF RoutesOf, ToSet
<1>2. QED
  BY <1>1 DEF GoodRoutes

\* Without a conflict a pattern names a route.
LEMMA RouteUnique ==
  ASSUME NEW c, ~Conflict(c), NEW r \in RoutesOf(c), NEW x \in RoutesOf(c), r.pattern = x.pattern
  PROVE  r = x
BY DEF Conflict, RoutesOf, ToSet

\* What a multiplexer holds comes from the table.
LEMMA MuxOf ==
  ASSUME NEW c, NEW scheme, NEW m \in Muxes(c, scheme)
  PROVE  \E r \in RoutesOf(c) :
           /\ m.pattern = r.pattern /\ (scheme = "http" \/ r.https)
           /\ m.by = r.by \/ (m.by = "redirect" /\ r.rewrite /\ scheme = "http")
BY DEF Muxes, RoutesOf

LEMMA InMux ==
  ASSUME NEW c, NEW scheme, NEW r \in RoutesOf(c), scheme = "http" \/ r.https
  PROVE  \E m \in Muxes(c, scheme) : m.pattern = r.pattern
<1> DEFINE m == [pattern |-> r.pattern,
                 level |-> IF scheme = "http" /\ r.rewrite /\ c.redirect /\ c.tls THEN "debug" ELSE r.level,
                 by |-> IF scheme = "http" /\ r.rewrite /\ c.redirect /\ c.tls THEN "redirect" ELSE r.by]
<1>1. m \in Muxes(c, scheme)
  BY DEF Muxes, RoutesOf
<1>2. m.pattern = r.pattern
  OBVIOUS
<1>3. QED
  BY <1>1, <1>2

\* The route that ServeMux finds.
LEMMA MatchedIs ==
  ASSUME NEW c, NEW scheme, NEW route
  PROVE  LET m == Matched(c, scheme, route)
         IN \/ m \in Muxes(c, scheme) /\ m.pattern = route
            \/ /\ \A x \in Muxes(c, scheme) : x.pattern # route
               /\ \/ m \in Muxes(c, scheme) /\ m.pattern = "/"
                  \/ m.by = "notFound"
<1> DEFINE mux == Muxes(c, scheme)
           exact == {r \in mux : r.pattern = route}
           root == {r \in mux : r.pattern = "/"}
           miss == [pattern |-> "", by |-> "notFound", level |-> "debug"]
           T == IF exact # {} THEN exact ELSE IF root # {} THEN root ELSE {miss}
           m == Matched(c, scheme, route)
<1>1. m = CHOOSE r \in T : TRUE
  BY DEF Matched
<1>2. T # {}
  OBVIOUS
<1>3. m \in T
  <2> HIDE DEF T, m
  <2> QED BY <1>1, <1>2
<1>4. miss.by = "notFound"
  OBVIOUS
<1> HIDE DEF mux, m, miss
<1>5. \/ m \in mux /\ m.pattern = route
      \/ (\A x \in mux : x.pattern # route) /\ ((m \in mux /\ m.pattern = "/") \/ m = miss)
  BY <1>3
<1>6. QED
  BY <1>4, <1>5 DEF m, mux

LEMMA MatchedEc2 ==
  ASSUME NEW c, NEW scheme, NEW route, Matched(c, scheme, route).by = "ec2"
  PROVE  /\ \E r \in RoutesOf(c) : r.pattern = route /\ r.by = "ec2"
         /\ \E m \in Muxes(c, scheme) : m.pattern = route
<1> DEFINE m == Matched(c, scheme, route)
<1>1. m \in Muxes(c, scheme) /\ (m.pattern = route \/ m.pattern = "/")
  BY MatchedIs
<1>2. m.by = "ec2"
  OBVIOUS
<1> HIDE DEF m
<1>3. PICK r \in RoutesOf(c) : m.pattern = r.pattern /\ m.by = r.by
  BY <1>1, <1>2, MuxOf
<1>4. m.pattern = route
  BY <1>1, <1>2, <1>3, RouteFacts
<1>5. QED
  BY <1>1, <1>2, <1>3, <1>4

LEMMA MatchedRedirect ==
  ASSUME NEW c, NEW scheme, NEW x \in RoutesOf(c), Matched(c, scheme, x.pattern).by = "redirect"
  PROVE  \E m \in Muxes(c, "https") : m.pattern = x.pattern
<1> DEFINE m == Matched(c, scheme, x.pattern)
<1>1. /\ m \in Muxes(c, scheme)
      /\ m.pattern = x.pattern \/ \A y \in Muxes(c, scheme) : y.pattern # x.pattern
  BY MatchedIs
<1>2. m.by = "redirect"
  OBVIOUS
<1> HIDE DEF m
<1>3. PICK r \in RoutesOf(c) : /\ m.pattern = r.pattern
                               /\ m.by = r.by \/ (r.rewrite /\ scheme = "http")
  BY <1>1, MuxOf
<1>4. r.by \in RouteNames /\ (r.rewrite => r.https)
  BY RouteFacts
<1>5. r.rewrite /\ scheme = "http" /\ r.https
  BY <1>2, <1>3, <1>4 DEF RouteNames
<1>6. m.pattern = x.pattern
  BY <1>1, <1>5, InMux
<1>7. PICK y \in Muxes(c, "https") : y.pattern = r.pattern
  BY <1>5, InMux
<1>8. QED
  BY <1>3, <1>6, <1>7

LEMMA MatchedOffered ==
  ASSUME NEW c, NEW scheme, NEW route, \E m \in Muxes(c, scheme) : m.pattern = route
  PROVE  Matched(c, scheme, route).by # "notFound"
<1> DEFINE m == Matched(c, scheme, route)
<1>1. m \in Muxes(c, scheme)
  BY MatchedIs
<1> HIDE DEF m
<1>2. PICK r \in RoutesOf(c) : m.by = r.by \/ m.by = "redirect"
  BY <1>1, MuxOf
<1>3. r.by \in RouteNames
  BY RouteFacts
<1>4. QED
  BY <1>2, <1>3 DEF RouteNames, m

-----------------------------------------------------------------------------
(* The address of the client.                                              *)

LEMMA RemoteIsClient ==
  ASSUME hsConfig \in HsConfigs, NEW r, Traced(r), NEW S, r.forwarded \in Seq(S)
  PROVE  getRemoteAddrIfAllowed(hsConfig, r) = r.client
<1> DEFINE trusted == hsConfig.trusted
           ips == r.forwarded
<1>1. r.client \in Machines /\ r.client \notin trusted /\ r.client # ""
  BY HsAssumption DEF Traced
<1>2. CASE r.peer = r.client
  BY <1>1, <1>2 DEF getRemoteAddrIfAllowed, allowed
<1>3. CASE r.peer # r.client
  <2>1. PICK n \in DOMAIN ips :
          /\ ips[n] = r.client
          /\ \A j \in DOMAIN ips : j > n => ips[j] \in Relays \cap trusted
    BY <1>3 DEF Traced
  <2> HIDE DEF ips, trusted
  <2>2. DOMAIN ips = 1..Len(ips) /\ Len(ips) \in Nat
    BY DEF ips
  <2>3. /\ Len(ips) \in DOMAIN ips /\ n \in Nat
        /\ \A j \in DOMAIN ips : j \in Nat /\ (j > n \/ j = n \/ j < n)
        /\ \A j \in DOMAIN ips : j > n => j - 1 \in DOMAIN ips /\ (j - 1 = n \/ j - 1 > n)
    BY <2>1, <2>2
  <2>4. \A j \in DOMAIN ips : j >= n => ips[j] \in Machines \cup Relays
    <3> SUFFICES ASSUME NEW j \in DOMAIN ips, j >= n PROVE ips[j] \in Machines \cup Relays
      OBVIOUS
    <3>1. j = n \/ j > n
      BY <2>3
    <3>2. QED
      BY <1>1, <2>1, <3>1
  <2> DEFINE bad == {i \in DOMAIN ips : ips[i] \notin Machines \cup Relays}
             stops == {i \in DOMAIN ips : ips[i] \notin trusted \/ i - 1 \in bad}
  <2>5. n \in stops
    BY <1>1, <2>1
  <2>6. \A j \in stops : j <= n
    <3> SUFFICES ASSUME NEW j \in stops, j > n PROVE FALSE
      BY <2>3
    <3>1. j \in DOMAIN ips /\ ips[j] \in trusted /\ j - 1 \in DOMAIN ips /\ j - 1 >= n
      BY <2>1, <2>3
    <3>2. j - 1 \notin bad
      BY <2>4, <3>1
    <3>3. QED
      BY <3>1, <3>2
  <2>7. \A j \in stops : j \in Nat
    BY <2>3
  <2> DEFINE stop == IF stops = {} THEN 1 ELSE CHOOSE i \in stops : \A j \in stops : j <= i
  <2>8. stop = n
    <3> HIDE DEF stops
    <3>1. stop \in stops /\ \A j \in stops : j <= stop
      BY <2>5, <2>6
    <3> HIDE DEF stop
    <3>2. QED
      BY <2>5, <2>6, <2>7, <3>1
  <2>9. Last(ips) \in Machines \cup Relays
    <3>1. Len(ips) >= n
      BY <2>1, <2>2
    <3>2. QED
      BY <2>3, <2>4, <3>1 DEF Last
  <2>10. parseForwarded(hsConfig, ips) = IF Last(ips) \in Machines \cup Relays THEN ips[stop] ELSE ""
    BY DEF parseForwarded, trusted
  <2> HIDE DEF stop
  <2>11. parseForwarded(hsConfig, ips) = r.client
    BY <2>1, <2>8, <2>9, <2>10
  <2>12. ips # <<>> /\ allowed(hsConfig, r.peer)
    <3>1. ips # <<>>
      BY <2>1, <2>2
    <3>2. QED
      BY <1>3, <3>1 DEF Traced, allowed, trusted
  <2>13. QED
    BY <1>1, <2>11, <2>12 DEF getRemoteAddrIfAllowed, ips
<1>4. QED
  BY <1>2, <1>3

-----------------------------------------------------------------------------
(* Tootles.                                                                *)

LEMMA NoneOrOne == \A k \in Nat : k # 0 /\ ~(k > 1) => k = 1
OBVIOUS

\* An answer is about the one object that was found.
LEMMA FilteredOne ==
  \A c, hws : IsFiniteSet(hws) /\ Filtered(c, hws).err = "nil" =>
    (\E h : hws = {h}) /\ Filtered(c, hws).hw = hws
<1> SUFFICES ASSUME NEW c, NEW hws, IsFiniteSet(hws), Filtered(c, hws).err = "nil"
             PROVE  (\E h : hws = {h}) /\ Filtered(c, hws).hw = hws
  BY Zenon
<1>1. hws # {} /\ ~(Cardinality(hws) > 1) /\ Filtered(c, hws).hw = hws
  BY DEF Filtered
<1>2. Cardinality(hws) \in Nat
  BY FS_CardinalityType
<1>3. Cardinality(hws) # 0
  BY <1>1, FS_EmptySet
<1> DEFINE n == Cardinality(hws)
<1>4. n = 1
  <2>1. n \in Nat /\ n # 0 /\ ~(n > 1)
    BY <1>1, <1>2, <1>3
  <2>2. QED
    BY <2>1, NoneOrOne, Zenon
<1>5. QED
  BY <1>1, <1>4, FS_Singleton

\* The data of a machine are its object's.
DataOf(h) ==
  {h.id, h.hostname, h.userdata, h.storage, ""} \cup
  {h.addresses[i].address : i \in DOMAIN h.addresses}

LEMMA InstanceOf ==
  ASSUME NEW h \in HwObjects, NEW f \in DOMAIN DataRoutes
  PROVE  toEC2Instance(h)[f] \in DataOf(h)
<1> DEFINE at(public) == {i \in DOMAIN h.addresses : h.addresses[i].public = public}
           first(public) == IF at(public) = {} THEN ""
                            ELSE h.addresses[CHOOSE i \in at(public) : \A j \in at(public) : i <= j].address
           all == {h.addresses[i].address : i \in DOMAIN h.addresses}
<1>1. ASSUME NEW public PROVE first(public) \in {""} \cup all
  <2> DEFINE T == at(public)
  <2>1. T \subseteq DOMAIN h.addresses /\ T \subseteq Nat
    BY HsAssumption
  <2> HIDE DEF T
  <2>2. CASE T = {}
    BY <2>2 DEF T
  <2>3. CASE T # {}
    <3> DEFINE k == CHOOSE i \in T : \A j \in T : i <= j
    <3>1. k \in T
      BY <2>1, <2>3, LeastNatural
    <3> HIDE DEF k
    <3>2. h.addresses[k].address \in all
      BY <2>1, <3>1
    <3>3. first(public) = h.addresses[k].address
      BY <2>3 DEF T, k
    <3>4. QED
      BY <3>2, <3>3
  <2>4. QED
    BY <2>2, <2>3
<1>2. toEC2Instance(h) =
        [instanceID |-> h.id, hostname |-> h.hostname, publicIPv4 |-> first(TRUE),
         localIPv4 |-> first(FALSE), userdata |-> h.userdata, iqn |-> ""]
  BY DEF toEC2Instance
<1> HIDE DEF first, all
<1>3. f \in {"instanceID", "hostname", "publicIPv4", "localIPv4", "userdata", "iqn"}
  BY DEF DataRoutes
<1>4. toEC2Instance(h)[f] \in {h.id, h.hostname, h.userdata, "", first(TRUE), first(FALSE)}
  <2> DEFINE e == toEC2Instance(h)
             a == first(TRUE)
             b == first(FALSE)
  <2>0. e = [instanceID |-> h.id, hostname |-> h.hostname, publicIPv4 |-> a,
             localIPv4 |-> b, userdata |-> h.userdata, iqn |-> ""]
    BY <1>2
  <2> HIDE DEF a, b
  <2> HIDE DEF e
  <2>1. /\ e["instanceID"] = h.id /\ e["hostname"] = h.hostname /\ e["publicIPv4"] = a
        /\ e["localIPv4"] = b /\ e["userdata"] = h.userdata /\ e["iqn"] = ""
    BY <2>0, Zenon
  <2>2. e[f] \in {h.id, h.hostname, h.userdata, "", a, b}
    BY <1>3, <2>1, Zenon
  <2>3. QED
    BY <2>2 DEF e, a, b
<1>5. toEC2Instance(h)[f] \in {h.id, h.hostname, h.userdata, h.storage, ""} \cup all
  BY <1>1, <1>4
<1>6. QED
  BY <1>5 DEF all, DataOf

\* The answers of Tootles' EC2 frontend.
LEMMA Ec2Answers ==
  ASSUME NEW c, NEW found, NEW path, NEW a, a = ec2Answer(c, found, path)
  PROVE  /\ a.code \in {200, 404, 500}
         /\ StaticChildren(path) # {} => a.code = 200 /\ a.body = StaticChildren(path)
         /\ a.code = 404 /\ Leads(path) => path \in DataPaths
         /\ StaticChildren(path) = {} /\ a.code = 200 =>
              /\ Filtered(c, found).err = "nil"
              /\ \A y \in a.body : \E f \in DOMAIN DataRoutes, h \in Filtered(c, found).hw :
                   y = toEC2Instance(h)[f]
<1> DEFINE data == {f \in DOMAIN DataRoutes : DataRoutes[f] = path}
           res == Filtered(c, found)
           body == {toEC2Instance(h)[f] : f \in data, h \in res.hw}
           failed == Failure(ErrorCode(res.err))
           whole == [code |-> 200, body |-> body]
           listing == [code |-> 200, body |-> StaticChildren(path)]
           missing == Failure(404)
<1>0. /\ failed.code \in {404, 500} /\ missing.code = 404
      /\ whole.code = 200 /\ whole.body = body
      /\ listing.code = 200 /\ listing.body = StaticChildren(path)
  <2>1. \A y : Failure(y).code = y
    BY DEF Failure
  <2>2. ErrorCode(res.err) \in {404, 500}
    BY DEF ErrorCode
  <2>3. failed.code \in {404, 500} /\ missing.code = 404
    BY <2>1, <2>2
  <2>4. QED
    BY <2>3
<1>1. a = CASE data # {} /\ res.err # "nil" -> failed
            [] data # {} /\ res.err = "nil" -> whole
            [] data = {} /\ StaticChildren(path) # {} -> listing
            [] OTHER -> missing
  BY DEF ec2Answer
<1>2. data # {} <=> path \in DataPaths
  BY DEF DataPaths
<1>3. \A y \in body : \E f \in DOMAIN DataRoutes, h \in res.hw : y = toEC2Instance(h)[f]
  OBVIOUS
<1> HIDE DEF data, res, body, failed, whole, listing, missing
<1>4. CASE data # {}
  <2>1. path \in DataPaths /\ StaticChildren(path) = {}
    BY <1>2, <1>4, NothingBelowData
  <2>2. CASE res.err # "nil"
    <3>1. a = failed
      BY <1>1, <1>4, <2>2
    <3>2. a.code \in {404, 500}
      BY <1>0, <3>1
    <3>3. QED
      BY <2>1, <3>2
  <2>3. CASE res.err = "nil"
    <3>1. a = whole
      BY <1>1, <1>4, <2>3
    <3>2. a.code = 200 /\ a.body = body
      BY <1>0, <3>1
    <3>3. QED
      BY <1>3, <2>1, <2>3, <3>2 DEF res
  <2>4. QED
    BY <2>2, <2>3
<1>5. CASE data = {}
  <2>1. CASE StaticChildren(path) # {}
    <3>1. a = listing
      BY <1>1, <1>5, <2>1
    <3>2. a.code = 200 /\ a.body = StaticChildren(path)
      BY <1>0, <3>1
    <3>3. QED
      BY <2>1, <3>2
  <2>2. CASE StaticChildren(path) = {}
    <3>1. a = missing
      BY <1>1, <1>5, <2>2
    <3>2. a.code = 404
      BY <1>0, <3>1
    <3>3. ~Leads(path)
      BY <1>2, <1>5, <2>2, LeadsOn
    <3>4. QED
      BY <2>2, <3>2, <3>3
  <2>3. QED
    BY <2>1, <2>2
<1>6. QED
  BY <1>4, <1>5

LEMMA HackAnswers ==
  ASSUME NEW c, NEW found, NEW a, a = hackAnswer(c, found)
  PROVE  /\ a.code \in {200, 404, 500}
         /\ a.code = 200 => Filtered(c, found).err = "nil" /\ a.body = {h.storage : h \in Filtered(c, found).hw}
<1> DEFINE res == Filtered(c, found)
           body == {h.storage : h \in res.hw}
           failed == Failure(IF c.backend = "kube" THEN ErrorCode(res.err) ELSE 500)
           whole == [code |-> 200, body |-> body]
<1>0. failed.code \in {404, 500} /\ whole.code = 200 /\ whole.body = body
  <2>1. \A y : Failure(y).code = y
    BY DEF Failure
  <2>2. ErrorCode(res.err) \in {404, 500}
    BY DEF ErrorCode
  <2>3. failed.code \in {404, 500}
    BY <2>1, <2>2
  <2>4. QED
    BY <2>3
<1>1. a = IF res.err # "nil" THEN failed ELSE whole
  BY DEF hackAnswer
<1> HIDE DEF body, res, failed, whole
<1>2. CASE res.err # "nil"
  <2>1. a.code \in {404, 500}
    BY <1>0, <1>1, <1>2
  <2>2. QED
    BY <2>1
<1>3. CASE res.err = "nil"
  <2>1. a.code = 200 /\ a.body = body
    BY <1>0, <1>1, <1>3
  <2>2. QED
    BY <1>3, <2>1 DEF body, res
<1>4. QED
  BY <1>2, <1>3

\* What a handler answers, by its name.
LEMMA HandledBy ==
  ASSUME NEW c, NEW r, NEW by, NEW a, a = Handled(c, r, by)
  PROVE  /\ a.code \in HsCodes
         /\ a.code = 308 => by = "redirect"
         /\ a.code = 404 => by \in {"notFound", "ec2", "hack"}
         /\ by = "ec2" /\ StaticChildren(r.path) # {} => a.body = StaticChildren(r.path)
         /\ by = "ec2" /\ a.code = 404 /\ Leads(r.path) => r.path \in DataPaths
<1> DEFINE remote == getRemoteAddrIfAllowed(c, r)
           found == IF r.route = "/tootles/" THEN HardwareOfInstance(r.instance) ELSE HardwareOfIP(remote)
           ofEc2 == ec2Answer(c, found, r.path)
           ofHack == hackAnswer(c, HardwareOfIP(remote))
           page == [code |-> 200, body |-> {by}]
<1>0. a = CASE by = "ec2" -> ofEc2
            [] by = "hack" -> ofHack
            [] by = "redirect" -> Failure(308)
            [] by = "notFound" -> Failure(404)
            [] OTHER -> page
  BY DEF Handled
<1>1. CASE by = "ec2"
  <2> HIDE DEF ofEc2, ofHack, page, found
  <2>1. a = ofEc2
    BY <1>0, <1>1
  <2>2. a = ec2Answer(c, found, r.path)
    BY <2>1 DEF ofEc2
  <2>3. /\ a.code \in {200, 404, 500}
        /\ StaticChildren(r.path) # {} => a.body = StaticChildren(r.path)
        /\ a.code = 404 /\ Leads(r.path) => r.path \in DataPaths
    BY <2>2, Ec2Answers
  <2>4. QED
    BY <1>1, <2>3 DEF HsCodes
<1>2. CASE by = "hack"
  <2> HIDE DEF ofEc2, ofHack, page, remote
  <2>1. a = ofHack
    BY <1>0, <1>2
  <2>2. a = hackAnswer(c, HardwareOfIP(remote))
    BY <2>1 DEF ofHack
  <2>3. a.code \in {200, 404, 500}
    BY <2>2, HackAnswers
  <2>4. QED
    BY <1>2, <2>3 DEF HsCodes
<1>3. CASE by \notin {"ec2", "hack"}
  <2>1. page.code = 200 /\ Failure(308).code = 308 /\ Failure(404).code = 404
    BY DEF Failure
  <2> HIDE DEF ofEc2, ofHack, page
  <2>2. \/ by = "redirect" /\ a = Failure(308)
        \/ by = "notFound" /\ a = Failure(404)
        \/ a = page
    BY <1>0, <1>3
  <2>3. QED
    BY <1>3, <2>1, <2>2 DEF HsCodes
<1>4. QED
  BY <1>1, <1>2, <1>3

\* Data that a request by address gets are of the object that has the client's address.
DataFor(by) ==
  /\ hsAt = "way" /\ by \in {"ec2", "hack"} /\ hsReq.route # "/tootles/"
  /\ StaticChildren(hsReq.path) = {} /\ Handled(hsConfig, hsReq, by).code = 200

LEMMA OwnData ==
  ASSUME HsInv, NEW by, DataFor(by)
  PROVE  \E h \in hsCache :
           /\ hsReq.client \in h.ips
           /\ Handled(hsConfig, hsReq, by).body \subseteq DataOf(h)
<1> DEFINE found == HardwareOfIP(hsReq.client)
           remote == getRemoteAddrIfAllowed(hsConfig, hsReq)
           a == Handled(hsConfig, hsReq, by)
<1>0. /\ hsConfig \in HsConfigs /\ Traced(hsReq) /\ IsFiniteSet(hsCache) /\ hsCache \subseteq HwObjects
      /\ hsReq.forwarded \in Seq(Machines \cup Relays \cup {"unknown"})
  BY Zenon DEF HsInv, HsTypeOK, DataFor
<1>1. remote = hsReq.client
  BY <1>0, RemoteIsClient, Zenon
<1>2. /\ by = "ec2" => a = ec2Answer(hsConfig, found, hsReq.path)
      /\ by = "hack" => a = hackAnswer(hsConfig, found)
  <2>1. /\ by = "ec2" => a = ec2Answer(hsConfig, HardwareOfIP(remote), hsReq.path)
        /\ by = "hack" => a = hackAnswer(hsConfig, HardwareOfIP(remote))
    BY DEF Handled, DataFor
  <2> HIDE DEF remote, a
  <2>2. QED
    BY <1>1, <2>1
<1>3. found \subseteq hsCache /\ IsFiniteSet(found) /\ \A h \in found : hsReq.client \in h.ips
  <2>1. found \subseteq hsCache /\ \A h \in found : hsReq.client \in h.ips
    BY DEF HardwareOfIP, GetIPs
  <2>2. QED
    BY <1>0, <2>1, FS_Subset
<1> HIDE DEF found, a
<1>4. a.code = 200 /\ by \in {"ec2", "hack"} /\ StaticChildren(hsReq.path) = {}
  BY DEF a, DataFor
<1>5. /\ Filtered(hsConfig, found).err = "nil"
      /\ \/ \A y \in a.body : \E f \in DOMAIN DataRoutes, h \in Filtered(hsConfig, found).hw :
              y = toEC2Instance(h)[f]
         \/ a.body = {h.storage : h \in Filtered(hsConfig, found).hw}
  <2>1. CASE by = "ec2"
    <3>1. a = ec2Answer(hsConfig, found, hsReq.path)
      BY <1>2, <2>1
    <3>2. /\ Filtered(hsConfig, found).err = "nil"
          /\ \A y \in a.body : \E f \in DOMAIN DataRoutes, h \in Filtered(hsConfig, found).hw :
               y = toEC2Instance(h)[f]
      BY <1>4, <3>1, Ec2Answers
    <3>3. QED
      BY <3>2
  <2>2. CASE by = "hack"
    <3>1. a = hackAnswer(hsConfig, found)
      BY <1>2, <2>2
    <3>2. Filtered(hsConfig, found).err = "nil" /\ a.body = {h.storage : h \in Filtered(hsConfig, found).hw}
      BY <1>4, <3>1, HackAnswers
    <3>3. QED
      BY <3>2
  <2>3. QED
    BY <1>4, <2>1, <2>2
<1>6. PICK h : found = {h} /\ Filtered(hsConfig, found).hw = {h}
  <2>1. IsFiniteSet(found) /\ Filtered(hsConfig, found).err = "nil"
    BY <1>3, <1>5, Zenon
  <2>2. (\E h : found = {h}) /\ Filtered(hsConfig, found).hw = found
    BY <2>1, FilteredOne
  <2>3. QED
    BY <2>2, Zenon
<1>7. h \in hsCache /\ h \in HwObjects /\ hsReq.client \in h.ips
  BY <1>0, <1>3, <1>6
<1>8. \A f \in DOMAIN DataRoutes : toEC2Instance(h)[f] \in DataOf(h)
  BY <1>7, InstanceOf, Zenon
<1>9. h.storage \in DataOf(h)
  BY Zenon DEF DataOf
<1>10. a.body \subseteq DataOf(h)
  <2> DEFINE hw == Filtered(hsConfig, found).hw
  <2>1. hw = {h}
    BY <1>6
  <2>2. \/ \A y \in a.body : \E f \in DOMAIN DataRoutes, g \in hw : y = toEC2Instance(g)[f]
        \/ a.body = {g.storage : g \in hw}
    BY <1>5
  <2> HIDE DEF hw
  <2>3. CASE \A y \in a.body : \E f \in DOMAIN DataRoutes, g \in hw : y = toEC2Instance(g)[f]
    <3> SUFFICES ASSUME NEW y \in a.body PROVE y \in DataOf(h)
      OBVIOUS
    <3>1. PICK f \in DOMAIN DataRoutes, g \in hw : y = toEC2Instance(g)[f]
      BY <2>3
    <3>2. QED
      BY <1>8, <2>1, <3>1
  <2>4. CASE a.body = {g.storage : g \in hw}
    BY <1>9, <2>1, <2>4
  <2>5. QED
    BY <2>2, <2>3, <2>4
<1>11. QED
  BY <1>7, <1>10 DEF a

-----------------------------------------------------------------------------
(* The steps.                                                              *)

\* What the invariant says, each part by itself.
LEMMA HsParts ==
  ASSUME HsInv
  PROVE  /\ hsConfig \in HsConfigs /\ hsCache \subseteq HwObjects /\ IsFiniteSet(hsCache) /\ ~Conflict(hsConfig)
         /\ hsLater \in Seq(Objects) /\ hsLater \in Seq(SUBSET HwObjects)
         /\ hsReq.forwarded \in Seq(Machines \cup Relays \cup {"unknown"})
         /\ hsAt \in {"none", "way", "answered"} /\ hsAnswer.code \in {0, 200, 308, 404, 500}
         /\ hsSent \in 0..MaxRequests /\ hsEdits \in 0..MaxHwEdits
         /\ DOMAIN hsReq = RequestFields /\ AllCounted
         /\ hsAt # "none" => Traced(hsReq) /\ Routed(hsReq)
         /\ hsAt = "answered" => AnswerOf(hsReq, hsAnswer)
BY Zenon DEF HsInv, HsTypeOK

LEMMA HttpStarts == HsInit => HsInv
<1> SUFFICES ASSUME HsInit PROVE HsInv
  OBVIOUS
<1>1. /\ hsConfig \in HsConfigs /\ ~Conflict(hsConfig) /\ hsLater = <<>> /\ hsAt = "none"
      /\ hsCache \subseteq HwObjects /\ IsFiniteSet(hsCache)
      /\ hsSent = 0 /\ hsEdits = 0 /\ hsCount = [code \in {200, 308, 404, 500} |-> 0]
  BY DEF HsInit
<1>2. hsAnswer.code = 0
  BY Zenon DEF HsInit
<1>3. hsReq = NoRequest
  BY Zenon DEF HsInit
<1>4. NoRequest.client = ""
  BY Zenon DEF NoRequest
<1>5. NoRequest.forwarded = <<>> /\ DOMAIN NoRequest = RequestFields
  BY Zenon DEF NoRequest, RequestFields
<1>6. hsReq.client \in Machines \cup {""}
  BY <1>3, <1>4, Zenon
<1>7. hsReq.forwarded = <<>> /\ DOMAIN hsReq = RequestFields
  BY <1>3, <1>5, Zenon
<1>8. /\ hsReq.forwarded \in Seq(Machines \cup Relays \cup {"unknown"})
      /\ hsCache \subseteq HwObjects /\ hsAt \in {"none", "way", "answered"}
      /\ hsLater \in Seq(Objects) /\ hsLater \in Seq(SUBSET HwObjects)
      /\ hsAnswer.code \in {0, 200, 308, 404, 500}
  BY <1>1, <1>2, <1>7
<1>9. hsSent \in 0..MaxRequests /\ hsEdits \in 0..MaxHwEdits
  <2>1. MaxRequests \in Nat /\ MaxHwEdits \in Nat
    BY HsAssumption, Zenon
  <2>2. QED
    BY <1>1, <2>1
<1>10. IsFiniteSet(hsCache)
  BY <1>1
<1>11. AllCounted
  BY <1>1 DEF AllCounted, HsCodes
<1>12. hsAt # "way" /\ hsAt # "answered"
  BY <1>1
<1>13. QED
  BY <1>1, <1>3, <1>6, <1>7, <1>8, <1>9, <1>10, <1>11, <1>12, Zenon DEF HsInv, HsTypeOK

\* A step of a request keeps the invariant if it keeps the parts that it can disturb.
LEMMA HsKept ==
  ASSUME hsConfig' = hsConfig, hsConfig \in HsConfigs, ~Conflict(hsConfig),
         hsCache' \subseteq HwObjects, IsFiniteSet(hsCache'), AllCounted',
         hsLater' \in Seq(Objects), hsLater' \in Seq(SUBSET HwObjects),
         DOMAIN hsReq' = RequestFields,
         hsReq'.forwarded \in Seq(Machines \cup Relays \cup {"unknown"}),
         hsAt' \in {"way", "answered"}, hsAnswer'.code \in {0, 200, 308, 404, 500},
         hsSent' \in 0..MaxRequests, hsEdits' \in 0..MaxHwEdits,
         Traced(hsReq)', Routed(hsReq)', hsAt' = "answered" => AnswerOf(hsReq, hsAnswer)'
  PROVE  HsInv'
<1>1. hsReq'.client \in Machines \cup {""}
  BY Zenon DEF Traced
<1>2. hsAt' \in {"none", "way", "answered"} /\ hsAt' # "none"
  OBVIOUS
<1>3. hsConfig' \in HsConfigs /\ ~Conflict(hsConfig)'
  BY Zenon
<1>4. QED
  BY <1>1, <1>2, <1>3, Zenon DEF HsInv, HsTypeOK

\* The first request of a machine, field by field.
OwnHeaders == {<<>>, <<"unknown">>} \cup {<<y>> : y \in Machines}

LEMMA HeadersAre == OwnHeaders \subseteq Seq(Machines \cup Relays \cup {"unknown"})
<1> DEFINE S == Machines \cup Relays \cup {"unknown"}
<1>1. Machines \subseteq S /\ "unknown" \in S
  OBVIOUS
<1> HIDE DEF S
<1>2. <<>> \in Seq(S) /\ \A y \in S : <<y>> \in Seq(S)
  OBVIOUS
<1>3. QED
  BY <1>1, <1>2, Zenon DEF OwnHeaders, S

FirstAsked(m, route, path, id, scheme, own) ==
  [Asked(m, route, path, id, scheme) EXCEPT !.forwarded = own]

FirstFields(q, m, route, path, scheme, own) ==
  /\ DOMAIN q = RequestFields /\ q.client = m /\ q.peer = m /\ q.route = route
  /\ q.path = path /\ q.scheme = scheme /\ q.forwarded = own /\ q.followed = FALSE

LEMMA AskedIs ==
  ASSUME NEW m, NEW route, NEW path, NEW id, NEW scheme, NEW own
  PROVE  FirstFields(FirstAsked(m, route, path, id, scheme, own), m, route, path, scheme, own)
<1> DEFINE q == FirstAsked(m, route, path, id, scheme, own)
<1> DEFINE Empty(e) == [client |-> e, route |-> e, path |-> <<>>, instance |-> e,
                        scheme |-> "http", forwarded |-> <<>>, peer |-> e, hops |-> 0,
                        followed |-> FALSE]
<1>1. NoRequest = Empty("")
  BY Zenon DEF NoRequest
<1>2. PICK e : NoRequest = Empty(e)
  BY <1>1, Zenon
<1>3. q = [[Empty(e) EXCEPT !.client = m, !.peer = m, !.route = route, !.path = path,
                            !.instance = id, !.scheme = scheme] EXCEPT !.forwarded = own]
  BY <1>2, Zenon DEF Asked, FirstAsked
<1>4. QED
  BY <1>3 DEF RequestFields, FirstFields

LEMMA SendRequestKeeps == ASSUME HsInv, SendRequest PROVE HsInv'
<1>1. /\ hsAt = "none" /\ hsSent < MaxRequests /\ hsAt' = "way" /\ hsSent' = hsSent + 1
      /\ hsConfig' = hsConfig /\ hsCache' = hsCache /\ hsLater' = hsLater
      /\ hsAnswer' = hsAnswer /\ hsCount' = hsCount
      /\ hsEdits' = hsEdits
  BY Zenon DEF SendRequest
<1>2. PICK m \in Machines, scheme \in {"http", "https"},
           own \in OwnHeaders :
        \E r \in RoutesOf(hsConfig) :
        \E path \in IF r.by = "ec2" THEN Endpoints ELSE {<<>>} :
        \E id \in IF r.pattern = "/tootles/" THEN InstanceIDs ELSE {""} :
          hsReq' = FirstAsked(m, r.pattern, path, id, scheme, own)
  BY Zenon DEF SendRequest, RoutesOf, FirstAsked, OwnHeaders
<1>3. PICK r \in RoutesOf(hsConfig) : \E path, id :
        /\ path \in IF r.by = "ec2" THEN Endpoints ELSE {<<>>}
        /\ hsReq' = FirstAsked(m, r.pattern, path, id, scheme, own)
  BY <1>2, Zenon
<1>3a. PICK path, id :
        /\ path \in IF r.by = "ec2" THEN Endpoints ELSE {<<>>}
        /\ hsReq' = FirstAsked(m, r.pattern, path, id, scheme, own)
  BY <1>3, Zenon
<1>4. /\ DOMAIN hsReq' = RequestFields /\ hsReq'.client = m /\ hsReq'.peer = m
      /\ hsReq'.route = r.pattern /\ hsReq'.path = path /\ hsReq'.scheme = scheme
      /\ hsReq'.forwarded = own /\ hsReq'.followed = FALSE
  <2>1. FirstFields(hsReq', m, r.pattern, path, scheme, own)
    BY <1>3a, AskedIs, Zenon
  <2>2. QED
    BY <2>1, Zenon DEF FirstFields
<1>5. hsReq'.forwarded \in Seq(Machines \cup Relays \cup {"unknown"})
  BY <1>4, HeadersAre, Zenon
<1>6. (r.by = "ec2" => path \in Endpoints) /\ path \in Seq(Words)
  <2>1. (r.by = "ec2" => path \in Endpoints) /\ (path \in Endpoints \/ path = <<>>)
    BY <1>3a, Zenon
  <2>2. <<>> \in Seq(Words)
    OBVIOUS
  <2>3. QED
    BY <2>1, <2>2, EndpointsAre, Zenon
<1>7. Traced(hsReq)'
  BY <1>4 DEF Traced
<1>8. Routed(hsReq)'
  <2>1. r \in RoutesOf(hsConfig')
    BY <1>1
  <2>2. r.pattern = hsReq'.route /\ (r.by = "ec2" => hsReq'.path \in Endpoints)
        /\ hsReq'.path \in Seq(Words) /\ hsReq'.scheme \in {"http", "https"} /\ ~hsReq'.followed
    BY <1>4, <1>6
  <2>3. QED
    BY <2>1, <2>2, Zenon DEF Routed
<1>9. AllCounted'
  BY <1>1, HsParts DEF AllCounted, HsCodes
<1>10. hsSent' \in 0..MaxRequests
  <2>1. MaxRequests \in Nat /\ hsSent \in 0..MaxRequests
    BY HsAssumption, HsParts, Zenon
  <2>2. QED
    BY <1>1, <2>1
<1>11. /\ hsConfig \in HsConfigs /\ ~Conflict(hsConfig) /\ hsCache' \subseteq HwObjects /\ IsFiniteSet(hsCache')
       /\ hsLater' \in Seq(Objects) /\ hsLater' \in Seq(SUBSET HwObjects)
       /\ hsAnswer'.code \in {0, 200, 308, 404, 500} /\ hsEdits' \in 0..MaxHwEdits
  BY <1>1, HsParts
<1>12. hsAt' \in {"way", "answered"} /\ hsAt' # "answered"
  BY <1>1
<1>13. QED
  BY <1>1, <1>4, <1>5, <1>7, <1>8, <1>9, <1>10, <1>11, <1>12, HsKept, Zenon

LEMMA FollowKeeps == ASSUME HsInv, Follow PROVE HsInv'
<1>1. /\ hsAt = "answered" /\ hsSent < MaxRequests /\ hsAt' = "way" /\ hsSent' = hsSent + 1
      /\ hsConfig' = hsConfig /\ hsCache' = hsCache /\ hsLater' = hsLater
      /\ hsAnswer' = hsAnswer /\ hsCount' = hsCount
      /\ hsEdits' = hsEdits
  BY Zenon DEF Follow
<1>2. Traced(hsReq) /\ Routed(hsReq) /\ AnswerOf(hsReq, hsAnswer) /\ DOMAIN hsReq = RequestFields
  BY <1>1, HsParts
<1>3. PICK x \in RoutesOf(hsConfig) : x.pattern = hsReq.route /\ (x.by = "ec2" => hsReq.path \in Endpoints \/ Leads(hsReq.path))
  BY <1>2 DEF Routed
<1>4. hsReq.path \in Seq(Words) /\ hsReq.scheme \in {"http", "https"}
  BY <1>2 DEF Routed
<1>5. ASSUME hsAnswer.code = 308, hsReq' = [hsReq EXCEPT !.scheme = "https", !.followed = TRUE]
      PROVE  /\ DOMAIN hsReq' = RequestFields /\ hsReq'.client = hsReq.client /\ hsReq'.peer = hsReq.peer
             /\ hsReq'.forwarded = hsReq.forwarded /\ Routed(hsReq)'
  <2>1. /\ DOMAIN hsReq' = RequestFields /\ hsReq'.client = hsReq.client /\ hsReq'.peer = hsReq.peer
        /\ hsReq'.route = hsReq.route /\ hsReq'.path = hsReq.path /\ hsReq'.scheme = "https"
        /\ hsReq'.forwarded = hsReq.forwarded
    BY <1>2, <1>5 DEF RequestFields
  <2>2. Matched(hsConfig, hsReq.scheme, x.pattern).by = "redirect"
    BY <1>2, <1>3, <1>5 DEF AnswerOf
  <2>3. \E m \in Muxes(hsConfig, "https") : m.pattern = x.pattern
    BY <2>2, MatchedRedirect, Zenon
  <2>4. Routed(hsReq)'
    BY <1>1, <1>3, <1>4, <2>1, <2>3 DEF Routed
  <2>5. QED
    BY <2>1, <2>4
<1>6. ASSUME hsAnswer.by = "ec2", hsAnswer.code = 200, StaticChildren(hsReq.path) # {},
             NEW child \in hsAnswer.body,
             hsReq' = [hsReq EXCEPT !.path = Append(@, child), !.followed = TRUE]
      PROVE  /\ DOMAIN hsReq' = RequestFields /\ hsReq'.client = hsReq.client /\ hsReq'.peer = hsReq.peer
             /\ hsReq'.forwarded = hsReq.forwarded /\ Routed(hsReq)'
  <2>1. /\ DOMAIN hsReq' = RequestFields /\ hsReq'.client = hsReq.client /\ hsReq'.peer = hsReq.peer
        /\ hsReq'.route = hsReq.route /\ hsReq'.path = Append(hsReq.path, child)
        /\ hsReq'.scheme = hsReq.scheme /\ hsReq'.forwarded = hsReq.forwarded
    BY <1>2, <1>6 DEF RequestFields
  <2>2. child \in StaticChildren(hsReq.path)
    BY <1>2, <1>6 DEF AnswerOf
  <2>3. hsReq'.path \in Seq(Words) /\ Leads(hsReq'.path)
    BY <1>4, <2>1, <2>2, ChildLeads
  <2>4. Matched(hsConfig, hsReq.scheme, hsReq.route).by = "ec2"
    BY <1>2, <1>6 DEF AnswerOf
  <2>5. \E m \in Muxes(hsConfig, hsReq.scheme) : m.pattern = hsReq.route
    BY <2>4, MatchedEc2
  <2>6. Routed(hsReq)'
    BY <1>1, <1>3, <1>4, <2>1, <2>3, <2>5 DEF Routed
  <2>7. QED
    BY <2>1, <2>6
<1>7. /\ DOMAIN hsReq' = RequestFields /\ hsReq'.client = hsReq.client /\ hsReq'.peer = hsReq.peer
      /\ hsReq'.forwarded = hsReq.forwarded /\ Routed(hsReq)'
  <2>1. \/ hsAnswer.code = 308 /\ hsReq' = [hsReq EXCEPT !.scheme = "https", !.followed = TRUE]
        \/ /\ hsAnswer.by = "ec2" /\ hsAnswer.code = 200 /\ StaticChildren(hsReq.path) # {}
           /\ \E child \in hsAnswer.body :
                hsReq' = [hsReq EXCEPT !.path = Append(@, child), !.followed = TRUE]
    BY DEF Follow
  <2>2. QED
    BY <1>5, <1>6, <2>1
<1>8. Traced(hsReq)'
  BY <1>1, <1>2, <1>7 DEF Traced
<1>9. AllCounted'
  BY <1>1, HsParts DEF AllCounted, HsCodes
<1>10. hsSent' \in 0..MaxRequests
  <2>1. MaxRequests \in Nat /\ hsSent \in 0..MaxRequests
    BY HsAssumption, HsParts, Zenon
  <2>2. QED
    BY <1>1, <2>1
<1>11. /\ hsConfig \in HsConfigs /\ ~Conflict(hsConfig) /\ hsCache' \subseteq HwObjects /\ IsFiniteSet(hsCache')
       /\ hsLater' \in Seq(Objects) /\ hsLater' \in Seq(SUBSET HwObjects)
       /\ hsReq'.forwarded \in Seq(Machines \cup Relays \cup {"unknown"})
       /\ hsAnswer'.code \in {0, 200, 308, 404, 500} /\ hsEdits' \in 0..MaxHwEdits
  BY <1>1, <1>7, HsParts
<1>12. hsAt' \in {"way", "answered"} /\ hsAt' # "answered"
  BY <1>1
<1>13. QED
  BY <1>1, <1>7, <1>8, <1>9, <1>10, <1>11, <1>12, HsKept, Zenon

LEMMA ForwardKeeps == ASSUME HsInv, Forward PROVE HsInv'
<1>1. /\ hsAt = "way" /\ hsAt' = hsAt /\ hsSent' = hsSent
      /\ hsConfig' = hsConfig /\ hsCache' = hsCache /\ hsLater' = hsLater
      /\ hsAnswer' = hsAnswer /\ hsCount' = hsCount
      /\ hsEdits' = hsEdits
  BY Zenon DEF Forward
<1>2. PICK p \in Relays \cap hsConfig.trusted :
        hsReq' = [hsReq EXCEPT !.forwarded = Append(@, hsReq.peer), !.peer = p, !.hops = @ + 1]
  BY DEF Forward
<1>3. /\ Traced(hsReq) /\ Routed(hsReq) /\ DOMAIN hsReq = RequestFields
      /\ hsReq.forwarded \in Seq(Machines \cup Relays \cup {"unknown"})
  BY <1>1, HsParts
<1>4. /\ DOMAIN hsReq' = RequestFields /\ hsReq'.client = hsReq.client /\ hsReq'.peer = p
      /\ hsReq'.route = hsReq.route /\ hsReq'.path = hsReq.path /\ hsReq'.scheme = hsReq.scheme
      /\ hsReq'.followed = hsReq.followed /\ hsReq'.forwarded = Append(hsReq.forwarded, hsReq.peer)
  BY <1>2, <1>3 DEF RequestFields
<1> DEFINE old == hsReq.forwarded
           new == hsReq'.forwarded
<1>5. hsReq.peer \in Machines \cup Relays
  BY <1>3 DEF Traced
<1>6. /\ new \in Seq(Machines \cup Relays \cup {"unknown"}) /\ Len(new) = Len(old) + 1
      /\ new[Len(old) + 1] = hsReq.peer /\ Len(old) \in Nat
      /\ \A i \in 1..Len(old) : new[i] = old[i]
  BY <1>3, <1>4, <1>5
<1>7. DOMAIN old = 1..Len(old) /\ DOMAIN new = 1..(Len(old) + 1)
  BY <1>3, <1>6
<1>8. Traced(hsReq)'
  <2> DEFINE T == Relays \cap hsConfig.trusted
             cl == hsReq.client
             pe == hsReq.peer
  <2>1. /\ cl \in Machines
        /\ \/ pe = cl
           \/ pe \in T /\ \E n \in DOMAIN old : old[n] = cl /\ \A j \in DOMAIN old : j > n => old[j] \in T
    BY <1>3 DEF Traced
  <2>2. \E n \in DOMAIN new : new[n] = cl /\ \A j \in DOMAIN new : j > n => new[j] \in T
    <3> HIDE DEF old, new, T, cl
    <3>1. CASE pe = cl
      <4>1. Len(old) + 1 \in DOMAIN new /\ new[Len(old) + 1] = cl
        BY <1>6, <1>7, <3>1
      <4>2. \A j \in DOMAIN new : ~ (j > Len(old) + 1)
        BY <1>6, <1>7
      <4>3. QED
        BY <4>1, <4>2
    <3>2. CASE pe # cl
      <4> HIDE DEF pe
      <4>1. PICK n \in DOMAIN old : old[n] = cl /\ \A j \in DOMAIN old : j > n => old[j] \in T
        BY <2>1, <3>2
      <4>2. pe \in T
        BY <2>1, <3>2
      <4>3. n \in DOMAIN new /\ new[n] = cl
        BY <1>6, <1>7, <4>1
      <4>4. ASSUME NEW j \in DOMAIN new, j > n PROVE new[j] \in T
        <5>1. j \in 1..Len(old) \/ j = Len(old) + 1
          BY <1>6, <1>7
        <5>2. CASE j \in 1..Len(old)
          BY <1>6, <1>7, <4>1, <4>4, <5>2
        <5>3. CASE j = Len(old) + 1
          BY <1>6, <4>2, <5>3 DEF pe
        <5>4. QED
          BY <5>1, <5>2, <5>3
      <4>5. QED
        BY <4>3, <4>4
    <3>3. QED
      BY <3>1, <3>2
  <2>3. QED
    BY <1>1, <1>4, <2>1, <2>2 DEF Traced
<1>9. Routed(hsReq)'
  BY <1>1, <1>3, <1>4 DEF Routed
<1>10. AllCounted'
  BY <1>1, HsParts DEF AllCounted
<1>11. /\ hsConfig \in HsConfigs /\ ~Conflict(hsConfig) /\ hsCache' \subseteq HwObjects /\ IsFiniteSet(hsCache')
       /\ hsLater' \in Seq(Objects) /\ hsLater' \in Seq(SUBSET HwObjects)
       /\ hsAnswer'.code \in {0, 200, 308, 404, 500} /\ hsSent' \in 0..MaxRequests
       /\ hsEdits' \in 0..MaxHwEdits
  BY <1>1, HsParts, Zenon
<1>12. hsAt' \in {"way", "answered"} /\ hsAt' # "answered"
  BY <1>1
<1>13. QED
  BY <1>1, <1>4, <1>6, <1>8, <1>9, <1>10, <1>11, <1>12, HsKept, Zenon

\* What ServeHTTP answers.
LEMMA ServeIs ==
  ASSUME HsInv, ServeHTTP
  PROVE  /\ hsAnswer'.by = Matched(hsConfig, hsReq.scheme, hsReq.route).by
         /\ hsAnswer'.code \in HsCodes /\ hsCount' = [hsCount EXCEPT ![hsAnswer'.code] = @ + 1]
         /\ \/ hsAnswer'.code = 500 /\ hsAnswer'.body = {} /\ hsAnswer'.logged = "error"
            \/ LET a == Handled(hsConfig, hsReq, hsAnswer'.by)
               IN /\ hsAnswer'.code = a.code /\ hsAnswer'.body = a.body
                  /\ a.code >= 500 => hsAnswer'.logged \in {"always", "error"}
<1> DEFINE m == Matched(hsConfig, hsReq.scheme, hsReq.route)
           h == Handled(hsConfig, hsReq, m.by)
           f == Failure(500)
<1>1. PICK panics \in {"no", "before", "after"} :
        LET a == IF panics = "before" THEN f ELSE h
        IN /\ hsAnswer' = [code |-> a.code, body |-> a.body, by |-> m.by,
                           logged |-> IF panics # "no" THEN "error"
                                      ELSE IF a.code >= 500 THEN "always" ELSE m.level]
           /\ hsCount' = [hsCount EXCEPT ![a.code] = @ + 1]
  BY DEF ServeHTTP
<1>2. f.code = 500 /\ f.body = {}
  BY DEF Failure
<1>3. h.code \in HsCodes
  <2>1. h = Handled(hsConfig, hsReq, m.by)
    OBVIOUS
  <2> HIDE DEF h, m
  <2>2. QED
    BY <2>1, HandledBy
<1> HIDE DEF m, h, f
<1>4. CASE panics = "before"
  <2>1. /\ hsAnswer' = [code |-> f.code, body |-> f.body, by |-> m.by, logged |-> "error"]
        /\ hsCount' = [hsCount EXCEPT ![f.code] = @ + 1]
    BY <1>1, <1>4
  <2>2. /\ hsAnswer'.code = 500 /\ hsAnswer'.body = {} /\ hsAnswer'.logged = "error" /\ hsAnswer'.by = m.by
        /\ hsCount' = [hsCount EXCEPT ![hsAnswer'.code] = @ + 1] /\ hsAnswer'.code \in HsCodes
    BY <1>2, <2>1 DEF HsCodes
  <2>3. QED
    BY <2>2 DEF m
<1>5. CASE panics # "before"
  <2>1. /\ hsAnswer' = [code |-> h.code, body |-> h.body, by |-> m.by,
                        logged |-> IF panics # "no" THEN "error"
                                   ELSE IF h.code >= 500 THEN "always" ELSE m.level]
        /\ hsCount' = [hsCount EXCEPT ![h.code] = @ + 1]
    BY <1>1, <1>5
  <2>2. /\ hsAnswer'.code = h.code /\ hsAnswer'.body = h.body /\ hsAnswer'.by = m.by
        /\ h.code >= 500 => hsAnswer'.logged \in {"always", "error"}
        /\ hsCount' = [hsCount EXCEPT ![hsAnswer'.code] = @ + 1] /\ hsAnswer'.code \in HsCodes
    BY <1>3, <2>1
  <2>3. h = Handled(hsConfig, hsReq, hsAnswer'.by)
    BY <2>2 DEF h
  <2>4. QED
    BY <2>2, <2>3 DEF m
<1>6. QED
  BY <1>4, <1>5

LEMMA ServeHTTPKeeps == ASSUME HsInv, ServeHTTP PROVE HsInv'
<1>1. /\ hsAt = "way" /\ hsAt' = "answered" /\ hsSent' = hsSent
      /\ hsConfig' = hsConfig /\ hsCache' = hsCache /\ hsLater' = hsLater /\ hsReq' = hsReq /\ hsEdits' = hsEdits
  BY Zenon DEF ServeHTTP
<1>2. /\ Traced(hsReq) /\ Routed(hsReq) /\ DOMAIN hsReq = RequestFields /\ AllCounted
      /\ hsSent \in Nat
  BY <1>1, HsParts
<1> DEFINE by == hsAnswer'.by
           a == Handled(hsConfig, hsReq, by)
<1>3. /\ by = Matched(hsConfig, hsReq.scheme, hsReq.route).by
      /\ hsAnswer'.code \in HsCodes /\ hsCount' = [hsCount EXCEPT ![hsAnswer'.code] = @ + 1]
      /\ \/ hsAnswer'.code = 500 /\ hsAnswer'.body = {} /\ hsAnswer'.logged = "error"
         \/ /\ hsAnswer'.code = a.code /\ hsAnswer'.body = a.body
            /\ a.code >= 500 => hsAnswer'.logged \in {"always", "error"}
  BY ServeIs
<1>4. /\ a.code = 308 => by = "redirect"
      /\ a.code = 404 => by \in {"notFound", "ec2", "hack"}
      /\ by = "ec2" /\ StaticChildren(hsReq.path) # {} => a.body = StaticChildren(hsReq.path)
      /\ by = "ec2" /\ a.code = 404 /\ Leads(hsReq.path) => hsReq.path \in DataPaths
  <2>1. a = Handled(hsConfig, hsReq, by)
    OBVIOUS
  <2> HIDE DEF a, by
  <2>2. QED
    BY <2>1, HandledBy
<1>5. AnswerOf(hsReq, hsAnswer)'
  <2> HIDE DEF a
  <2>1. CASE hsAnswer'.code = 500 /\ hsAnswer'.body = {} /\ hsAnswer'.logged = "error"
    BY <1>1, <1>3, <2>1 DEF AnswerOf
  <2>2. CASE /\ hsAnswer'.code = a.code /\ hsAnswer'.body = a.body
             /\ a.code >= 500 => hsAnswer'.logged \in {"always", "error"}
    BY <1>1, <1>3, <1>4, <2>2 DEF AnswerOf
  <2>3. QED
    BY <1>3, <2>1, <2>2
<1>6. AllCounted'
  <2> DEFINE f == hsCount
             g == hsCount'
  <2>1. /\ g \in [HsCodes -> Nat]
        /\ g[200] + g[308] + g[404] + g[500] = f[200] + f[308] + f[404] + f[500] + 1
    <3>1. f \in [HsCodes -> Nat]
      BY <1>2 DEF AllCounted
    <3> DEFINE code == hsAnswer'.code
    <3>2. g = [f EXCEPT ![code] = @ + 1] /\ code \in HsCodes
      BY <1>3, Zenon
    <3> HIDE DEF f, g, code
    <3>3. code = 200 \/ code = 308 \/ code = 404 \/ code = 500
      BY <3>2 DEF HsCodes
    <3>4. QED
      BY <3>1, <3>2, <3>3 DEF HsCodes
  <2>2. f \in [HsCodes -> Nat] /\ f[200] + f[308] + f[404] + f[500] + 1 = hsSent
    BY <1>1, <1>2 DEF AllCounted
  <2>3. g \in [HsCodes -> Nat] /\ g[200] + g[308] + g[404] + g[500] = hsSent'
    BY <1>1, <2>1, <2>2
  <2>4. g[200] \in Nat /\ g[308] \in Nat /\ g[404] \in Nat /\ g[500] \in Nat
    BY <2>1 DEF HsCodes
  <2>5. QED
    BY <1>1, <2>3, <2>4 DEF AllCounted
<1>7. /\ hsConfig \in HsConfigs /\ ~Conflict(hsConfig) /\ hsCache' \subseteq HwObjects /\ IsFiniteSet(hsCache')
      /\ hsLater' \in Seq(Objects) /\ hsLater' \in Seq(SUBSET HwObjects)
      /\ hsReq'.forwarded \in Seq(Machines \cup Relays \cup {"unknown"})
      /\ hsSent' \in 0..MaxRequests /\ hsEdits' \in 0..MaxHwEdits
  BY <1>1, HsParts, Zenon
<1>8. hsAt' \in {"way", "answered"} /\ hsAnswer'.code \in {0, 200, 308, 404, 500}
  BY <1>1, <1>3 DEF HsCodes
<1>9. Traced(hsReq)' /\ Routed(hsReq)' /\ DOMAIN hsReq' = RequestFields
  BY <1>1, <1>2 DEF Traced, Routed
<1>10. QED
  BY <1>1, <1>5, <1>6, <1>7, <1>8, <1>9, HsKept, Zenon

\* What happens to the Hardware leaves the request alone.
LEMMA HardwareKept ==
  ASSUME HsInv, hsCache' \subseteq HwObjects, IsFiniteSet(hsCache'), hsLater' \in Seq(Objects),
         hsEdits' \in 0..MaxHwEdits,
         UNCHANGED <<hsConfig, hsReq, hsAt, hsAnswer, hsCount, hsSent>>
  PROVE  HsInv'
<1>1. /\ hsConfig' = hsConfig /\ hsReq' = hsReq /\ hsAt' = hsAt /\ hsAnswer' = hsAnswer
      /\ hsCount' = hsCount /\ hsSent' = hsSent
  OBVIOUS
<1>2. hsLater' \in Seq(SUBSET HwObjects)
  <2>1. Objects \subseteq SUBSET HwObjects
    BY DEF Objects
  <2>2. QED
    BY <2>1
<1>5. AllCounted'
  BY <1>1, HsParts DEF AllCounted
<1>6. hsAt' # "none" => Traced(hsReq)' /\ Routed(hsReq)'
  BY <1>1, HsParts DEF Traced, Routed
<1>7. hsAt' = "answered" => AnswerOf(hsReq, hsAnswer)'
  BY <1>1, HsParts DEF AnswerOf
<1>8. hsReq'.client \in Machines \cup {""} /\ (hsAt' = "none" => hsReq' = NoRequest)
  <2>1. hsReq.client \in Machines \cup {""}
    BY Zenon DEF HsInv, HsTypeOK
  <2>2. hsAt = "none" => hsReq = NoRequest
    BY Zenon DEF HsInv
  <2>3. QED
    BY <1>1, <2>1, <2>2, Zenon
<1>9. /\ hsConfig' \in HsConfigs /\ ~Conflict(hsConfig)' /\ DOMAIN hsReq' = RequestFields
      /\ hsReq'.forwarded \in Seq(Machines \cup Relays \cup {"unknown"})
      /\ hsAt' \in {"none", "way", "answered"} /\ hsAnswer'.code \in {0, 200, 308, 404, 500}
      /\ hsSent' \in 0..MaxRequests
  BY <1>1, HsParts
<1>10. HsTypeOK'
  BY <1>2, <1>8, <1>9, Zenon DEF HsTypeOK
<1>11. QED
  BY <1>5, <1>6, <1>7, <1>8, <1>9, <1>10, Zenon DEF HsInv

LEMMA EditHardwareKeeps == ASSUME HsInv, EditHardware PROVE HsInv'
<1>1. /\ hsEdits < MaxHwEdits /\ hsEdits' = hsEdits + 1 /\ hsCache' = hsCache
      /\ UNCHANGED <<hsConfig, hsReq, hsAt, hsAnswer, hsCount, hsSent>>
  BY Zenon DEF EditHardware
<1>2. PICK h \in HwObjects :
        hsLater' = Append(hsLater, IF h \in Cluster THEN Cluster \ {h} ELSE Cluster \cup {h})
  BY DEF EditHardware
<1>3. hsCache \subseteq HwObjects /\ IsFiniteSet(hsCache) /\ hsLater \in Seq(Objects)
  BY HsParts
<1>4. Cluster \subseteq HwObjects /\ IsFiniteSet(Cluster)
  <2>1. CASE hsLater = <<>>
    BY <1>3, <2>1 DEF Cluster
  <2>2. CASE hsLater # <<>>
    <3>1. Last(hsLater) \in Objects
      BY <1>3, <2>2 DEF Last
    <3>2. QED
      BY <2>2, <3>1 DEF Cluster, Objects
  <2>3. QED
    BY <2>1, <2>2
<1>5. Cluster \ {h} \in Objects /\ Cluster \cup {h} \in Objects
  <2>1. IsFiniteSet(Cluster \ {h}) /\ IsFiniteSet(Cluster \cup {h})
    BY <1>4, FS_AddElement, FS_RemoveElement
  <2>2. QED
    BY <1>4, <2>1 DEF Objects
<1>6. hsLater' \in Seq(Objects)
  <2>1. PICK s \in Objects : hsLater' = Append(hsLater, s)
    BY <1>2, <1>5
  <2>2. QED
    BY <1>3, <2>1
<1>7. hsEdits' \in 0..MaxHwEdits
  <2>1. MaxHwEdits \in Nat /\ hsEdits \in 0..MaxHwEdits
    BY HsAssumption, HsParts, Zenon
  <2>2. QED
    BY <1>1, <2>1
<1>8. hsCache' \subseteq HwObjects /\ IsFiniteSet(hsCache')
  BY <1>1, <1>3
<1>9. QED
  BY <1>1, <1>6, <1>7, <1>8, HardwareKept

LEMMA CacheUpdateKeeps == ASSUME HsInv, CacheUpdate PROVE HsInv'
<1>1. /\ hsLater # <<>> /\ hsCache' = Head(hsLater) /\ hsLater' = Tail(hsLater) /\ hsEdits' = hsEdits
      /\ UNCHANGED <<hsConfig, hsReq, hsAt, hsAnswer, hsCount, hsSent>>
  BY Zenon DEF CacheUpdate
<1>2. hsLater \in Seq(Objects) /\ hsEdits \in 0..MaxHwEdits
  BY HsParts
<1>3. hsCache' \in Objects /\ hsLater' \in Seq(Objects)
  BY <1>1, <1>2
<1>4. hsCache' \subseteq HwObjects /\ IsFiniteSet(hsCache') /\ hsEdits' \in 0..MaxHwEdits
  BY <1>1, <1>2, <1>3 DEF Objects
<1>5. QED
  BY <1>1, <1>3, <1>4, HardwareKept

LEMMA HttpStep == HsInv /\ [HsNext]_hsVars => HsInv'
<1> SUFFICES ASSUME HsInv, [HsNext]_hsVars PROVE HsInv'
  OBVIOUS
<1>1. CASE UNCHANGED hsVars
  <2>1. /\ hsConfig' = hsConfig /\ hsCache' = hsCache /\ hsLater' = hsLater /\ hsReq' = hsReq
        /\ hsAt' = hsAt /\ hsAnswer' = hsAnswer
        /\ hsCount' = hsCount /\ hsSent' = hsSent /\ hsEdits' = hsEdits
    BY <1>1, Zenon DEF hsVars
  <2>2. AllCounted'
    BY <2>1, HsParts DEF AllCounted
  <2>3. hsAt' # "none" => Traced(hsReq)' /\ Routed(hsReq)'
    BY <2>1, HsParts DEF Traced, Routed
  <2>4. hsAt' = "answered" => AnswerOf(hsReq, hsAnswer)'
    BY <2>1, HsParts DEF AnswerOf
  <2>5. HsTypeOK'
    <3>1. hsReq.client \in Machines \cup {""}
      BY Zenon DEF HsInv, HsTypeOK
    <3>2. hsReq'.client \in Machines \cup {""}
      BY <2>1, <3>1, Zenon
    <3>3. /\ hsConfig' \in HsConfigs /\ hsCache' \subseteq HwObjects /\ hsLater' \in Seq(SUBSET HwObjects)
          /\ hsReq'.forwarded \in Seq(Machines \cup Relays \cup {"unknown"})
          /\ hsAt' \in {"none", "way", "answered"} /\ hsAnswer'.code \in {0, 200, 308, 404, 500}
          /\ hsSent' \in 0..MaxRequests /\ hsEdits' \in 0..MaxHwEdits
      BY <2>1, HsParts
    <3>4. QED
      BY <3>2, <3>3, Zenon DEF HsTypeOK
  <2>6. /\ IsFiniteSet(hsCache)' /\ hsLater' \in Seq(Objects) /\ ~Conflict(hsConfig)' /\ DOMAIN hsReq' = RequestFields
        /\ hsAt' = "none" => hsReq' = NoRequest
    BY <2>1, Zenon DEF HsInv
  <2>7. QED
    BY <2>2, <2>3, <2>4, <2>5, <2>6, Zenon DEF HsInv
<1>2. QED
  BY <1>1, SendRequestKeeps, FollowKeeps, ForwardKeeps, ServeHTTPKeeps, EditHardwareKeeps,
     CacheUpdateKeeps, Zenon DEF HsNext

\* The bookkeeping of a request, its route and its way back to the client, holds
\* throughout, for every table of routes, every set of Hardware and all proxies.
THEOREM HttpInvariance == HsSpec => []HsInv
BY HttpStarts, HttpStep, PTL DEF HsSpec

\* The types of the HTTP services.
THEOREM HttpTypeCorrect == HsSpec => []HsTypeOK
<1>1. HsInv => HsTypeOK
  BY Zenon DEF HsInv
<1>2. QED
  BY <1>1, HttpInvariance, PTL

\* The requests that were answered are counted and their failures logged.
LEMMA AllAccounted == HsInv => RequestsAccounted
<1> SUFFICES ASSUME HsInv, hsAt = "answered"
             PROVE  /\ hsCount[200] + hsCount[308] + hsCount[404] + hsCount[500] = hsSent
                    /\ hsAnswer.code >= 500 => hsAnswer.logged \in {"always", "error"}
  BY Zenon DEF RequestsAccounted
<1>1. AllCounted /\ AnswerOf(hsReq, hsAnswer) /\ hsSent \in Nat
  BY HsParts
<1>2. hsAnswer.code >= 500 => hsAnswer.logged \in {"always", "error"}
  BY <1>1 DEF AnswerOf
<1>3. hsCount[200] + hsCount[308] + hsCount[404] + hsCount[500] = hsSent
  BY <1>1 DEF AllCounted, HsCodes
<1>4. QED
  BY <1>2, <1>3

\* What was offered is served.
LEMMA AllOffersServed == HsInv => OffersServed
<1> SUFFICES ASSUME HsInv, hsAt = "answered", hsReq.followed, 404 = hsAnswer.code
             PROVE  \/ hsAnswer.by = "hack"
                    \/ /\ hsAnswer.by = "ec2"
                       /\ hsReq.path \in Endpoints \cup {DataRoutes[f] : f \in DOMAIN DataRoutes}
  BY Zenon DEF OffersServed
<1>1. Routed(hsReq) /\ AnswerOf(hsReq, hsAnswer) /\ ~Conflict(hsConfig)
  BY HsParts
<1>2. /\ hsAnswer.by = Matched(hsConfig, hsReq.scheme, hsReq.route).by
      /\ hsAnswer.by \in {"notFound", "ec2", "hack"}
      /\ hsAnswer.by = "ec2" /\ Leads(hsReq.path) => hsReq.path \in DataPaths
  BY <1>1 DEF AnswerOf
<1>3. hsAnswer.by # "notFound"
  <2>1. \E m \in Muxes(hsConfig, hsReq.scheme) : m.pattern = hsReq.route
    BY <1>1 DEF Routed
  <2>2. QED
    BY <1>2, <2>1, MatchedOffered
<1>4. ASSUME "ec2" = hsAnswer.by PROVE hsReq.path \in Endpoints \cup DataPaths
  <2>1. PICK r \in RoutesOf(hsConfig) : r.pattern = hsReq.route /\ r.by = "ec2"
    <3>1. Matched(hsConfig, hsReq.scheme, hsReq.route).by = "ec2"
      BY <1>2, <1>4
    <3>2. QED
      BY <3>1, MatchedEc2
  <2>2. PICK x \in RoutesOf(hsConfig) :
          x.pattern = hsReq.route /\ (x.by = "ec2" => hsReq.path \in Endpoints \/ Leads(hsReq.path))
    BY <1>1 DEF Routed
  <2>3. r = x
    BY <1>1, <2>1, <2>2, RouteUnique
  <2>4. QED
    BY <1>2, <1>4, <2>1, <2>2, <2>3
<1>5. QED
  BY <1>2, <1>3, <1>4 DEF DataPaths

\* The metadata of an answer are the client's.
LEMMA OwnMetadata == HsInv /\ HsNext => MetadataOwn
<1> SUFFICES ASSUME HsInv, HsNext, hsAt = "way", hsAt' = "answered",
                    hsAnswer'.by \in {"ec2", "hack"}, 200 = hsAnswer'.code,
                    hsReq.route # "/tootles/", StaticChildren(hsReq.path) = {}
             PROVE  \E h \in hsCache : hsReq.client \in h.ips /\ hsAnswer'.body \subseteq DataOf(h)
  BY Zenon DEF MetadataOwn, DataOf
<1>1. ServeHTTP
  BY DEF HsNext, SendRequest, Follow, Forward, EditHardware, CacheUpdate
<1> DEFINE by == hsAnswer'.by
           a == Handled(hsConfig, hsReq, by)
<1>2. hsAnswer'.code = a.code /\ hsAnswer'.body = a.body
  BY <1>1, ServeIs
<1>3. DataFor(by)
  BY <1>2 DEF DataFor
<1>4. \E h \in hsCache : hsReq.client \in h.ips /\ a.body \subseteq DataOf(h)
  <2> HIDE DEF by
  <2>1. QED
    BY <1>3, OwnData
<1>5. QED
  BY <1>2, <1>4

\* The data a machine gets are of the Hardware that owns its address in the backend's
\* copy, whatever proxies it came through and whatever header it sent; every request is counted and
\* every failure logged; what the server offers in a redirect or a listing it serves.
THEOREM HttpIsServed == HsSpec => HttpServed
<1>1. HsInv /\ HsInv' /\ [HsNext]_hsVars =>
        [MetadataOwn /\ RequestsAccounted' /\ OffersServed']_hsVars
  <2>1. HsInv' => RequestsAccounted' /\ OffersServed'
    BY AllAccounted, AllOffersServed, PTL
  <2>2. QED
    BY <2>1, OwnMetadata, Zenon
<1>2. QED
  BY <1>1, HttpInvariance, PTL DEF HsSpec, HttpServed

-----------------------------------------------------------------------------
(* The life of the process.  The inductive invariant ties the goroutines   *)
(* to the phase of the main one and to the errors of their groups.         *)

\* Where no service has been started yet.
BeforeLaunch == {"config", "await", "migrate", "ready", "cleanup", "backend", "launch"}
NothingLaunched == pcMain \in BeforeLaunch => \A u \in Services : pcRun[u] = "none"

\* Past the migration the CRDs are established.
Migrated ==
  /\ \/ pcMain \in {"backend", "launch", "wait"}
     \/ pcMain = "exit" /\ \E u \in Services : pcRun[u] # "none"
  /\ BackendOf(pcConfig) = "kube" /\ pcConfig.migrate
  => \A c \in CRDs : pcCrds[c] = "established"

\* A server of the HTTP server runs only while the HTTP server does, and one of Smee
\* only while Smee does or where its Start has given up.
UnderParents ==
  /\ pcRun["web"] # "up" => \A u \in WebServers : ~Running(u)
  /\ pcRun["smee"] \notin {"up", "failed"} => \A u \in SmeeServers : ~Running(u)

\* A group ends for a reason: the signal, or an error that it keeps.
EndsForReason ==
  /\ pcMain \notin {"cleanup", "exit"} /\ pcErr["main"] = "canceled" => pcSignal
  /\ pcMain = "wait" =>
       /\ pcRun["web"] # "none"
       /\ pcRun["web"] = "up" /\ ~Running("plain") =>
            pcSignal \/ pcErr["main"] # "" \/ pcErr["web"] # ""
       /\ pcRun["web"] = "nil" => pcSignal \/ pcErr["main"] # ""
       /\ pcRun["web"] \in {"failed", "canceled"} => pcErr["main"] # ""

\* Work goes on after its server has returned only where the server does not wait for it,
\* or waited for too long; the servers of the HTTP server start once.
WorkAccounted ==
  /\ pcRun["web"] \in {"none", "starting"} => \A u \in WebServers : pcRun[u] = "none"
  /\ \A u \in pcWork : u \in Unjoined \/ (u \in Patient /\ pcRun[u] = "failed")

\* The main goroutine is out when the process has ended.
OutAtEnd == pcMain = "exit" <=> pcExit # ""

LifeInv ==
  PcTypeOK /\ NothingLaunched /\ Migrated /\ UnderParents /\ EndsForReason /\ WorkAccounted /\ OutAtEnd

\* What a step may do to the errors of the groups: it keeps those there are, and the
\* process's group is cancelled only by the signal or by a failed migration.
ErrorsKept ==
  /\ pcErr' \in [{"main", "smee", "web"} -> {"", "failed", "canceled"}]
  /\ \A g \in {"main", "smee", "web"} : pcErr[g] # "" => pcErr'[g] = pcErr[g]
  /\ pcErr'["main"] = "canceled" => pcErr["main"] = "canceled" \/ pcSignal \/ pcMain = "cleanup"

LEMMA LifeStarts == PcInit => LifeInv
<1> SUFFICES ASSUME PcInit PROVE LifeInv
  OBVIOUS
<1>1. PcTypeOK
  BY DEF PcInit, PcTypeOK, Units, Embedded, Services, SmeeServers, WebServers
<1>2. \A u \in Units : pcRun[u] = "none"
  BY DEF PcInit
<1>3. NothingLaunched /\ UnderParents /\ WorkAccounted
  BY <1>2 DEF NothingLaunched, UnderParents, WorkAccounted, PcInit, Running, Units, Services, WebServers, SmeeServers
<1>4. Migrated /\ EndsForReason /\ OutAtEnd
  BY DEF PcInit, Migrated, EndsForReason, OutAtEnd
<1>5. QED
  BY <1>1, <1>3, <1>4 DEF LifeInv

\* The main goroutine goes on, and leaves the others as they are.
LEMMA MainMoves ==
  ASSUME LifeInv, UNCHANGED <<pcConfig, pcRun, pcErr>>, pcWork' \subseteq pcWork,
         pcSignal' \in {pcSignal, TRUE},
         pcMain' \in {"config", "await", "migrate", "ready", "cleanup", "backend", "launch",
                      "wait", "exit"},
         pcExit' \in {"", "ok", "error", "panic"}, pcKilled' \subseteq Units,
         pcCrds' \in [CRDs -> {"old", "new", "established"}],
         pcMain' \in BeforeLaunch => pcMain \in BeforeLaunch, pcMain' = "wait" => pcMain = "wait",
         pcMain' \notin {"cleanup", "exit"} => pcMain \notin {"cleanup", "exit"},
         OutAtEnd', Migrated'
  PROVE  LifeInv'
<1>1. PcTypeOK'
  BY DEF LifeInv, PcTypeOK
<1>2. NothingLaunched'
  BY DEF LifeInv, NothingLaunched
<1>3. UnderParents'
  BY DEF LifeInv, UnderParents, Running
<1>4. EndsForReason'
  BY DEF LifeInv, EndsForReason, Running
<1>5. WorkAccounted'
  BY DEF LifeInv, WorkAccounted
<1>6. QED
  BY <1>1, <1>2, <1>3, <1>4, <1>5 DEF LifeInv

\* A server that runs goes on, or ends.
LEMMA LeafMoves ==
  ASSUME LifeInv, Life, UNCHANGED <<pcConfig, pcMain, pcSignal, pcCrds, pcExit, pcKilled>>,
         ErrorsKept, NEW u \in Leaves, Running(u),
         NEW how \in {"starting", "up", "nil", "failed", "canceled"},
         pcRun' = [pcRun EXCEPT ![u] = how],
         \/ UNCHANGED pcWork
         \/ pcWork' = pcWork \cup {u} /\ (u \in Unjoined \/ (u \in Patient /\ how = "failed")),
         u = "plain" /\ how \notin {"starting", "up"} =>
           pcSignal \/ pcErr'["main"] # "" \/ pcErr'["web"] # ""
  PROVE  LifeInv'
<1>1. /\ pcRun' \in [Units -> {"none", "starting", "up", "nil", "failed", "canceled"}]
      /\ pcRun'[u] = how /\ \A v \in Units \ {u} : pcRun'[v] = pcRun[v]
  BY DEF LifeInv, PcTypeOK, Leaves
<1>2. /\ {"web", "smee", "plain"} \subseteq Units /\ u \notin {"web", "smee"}
      /\ Services \subseteq Units /\ WebServers \subseteq Units /\ SmeeServers \subseteq Units
  BY DEF Leaves, Units, Services, WebServers, SmeeServers
<1>3. pcRun'["web"] = pcRun["web"] /\ pcRun'["smee"] = pcRun["smee"]
  BY <1>1, <1>2
<1>4. ASSUME NEW v \in Units, ~Running(v) PROVE ~Running(v)' /\ pcRun'[v] = pcRun[v]
  BY <1>1, <1>4 DEF Running
<1>5. PcTypeOK'
  <2>1. pcWork' \subseteq Unjoined \cup Patient
    BY DEF LifeInv, PcTypeOK
  <2>2. QED
    BY <1>1, <2>1 DEF LifeInv, PcTypeOK, ErrorsKept
<1>6. NothingLaunched'
  BY <1>2, <1>4 DEF LifeInv, NothingLaunched, Running
<1>7. UnderParents'
  BY <1>2, <1>3, <1>4 DEF LifeInv, UnderParents
<1>8. Migrated' /\ OutAtEnd'
  BY DEF LifeInv, Migrated, OutAtEnd, Life
<1>9. EndsForReason'
  <2>1. pcMain \notin {"cleanup", "exit"} /\ pcErr'["main"] = "canceled" => pcSignal
    BY DEF LifeInv, EndsForReason, ErrorsKept
  <2>2. \A g \in {"main", "web"} : pcErr[g] # "" => pcErr'[g] # ""
    BY DEF ErrorsKept
  <2>3. pcMain = "wait" /\ pcRun["web"] = "up" /\ ~Running("plain")' =>
          pcSignal \/ pcErr'["main"] # "" \/ pcErr'["web"] # ""
    <3> SUFFICES ASSUME pcMain = "wait", pcRun["web"] = "up", ~Running("plain")'
                 PROVE  pcSignal \/ pcErr'["main"] # "" \/ pcErr'["web"] # ""
      OBVIOUS
    <3>1. CASE u = "plain"
      BY <1>1, <3>1 DEF Running
    <3>2. CASE u # "plain"
      <4>1. ~Running("plain")
        BY <1>1, <1>2, <3>2 DEF Running
      <4>2. QED
        BY <2>2, <4>1 DEF LifeInv, EndsForReason
    <3>3. QED
      BY <3>1, <3>2
  <2>4. QED
    BY <1>3, <2>1, <2>2, <2>3 DEF LifeInv, EndsForReason
<1>10. WorkAccounted'
  <2>1. pcRun["web"] \in {"none", "starting"} => \A v \in WebServers : pcRun'[v] = "none"
    BY <1>2, <1>4 DEF LifeInv, WorkAccounted, Running
  <2>2. ASSUME NEW v \in pcWork' PROVE v \in Unjoined \/ (v \in Patient /\ pcRun'[v] = "failed")
    <3>1. CASE v \in pcWork
      <4>1. v \in Units
        BY <3>1 DEF LifeInv, PcTypeOK, Unjoined, Patient, Units, Services, SmeeServers, WebServers
      <4>2. QED
        BY <1>4, <3>1, <4>1 DEF LifeInv, WorkAccounted, Running
    <3>2. CASE v = u /\ (u \in Unjoined \/ (u \in Patient /\ how = "failed"))
      BY <1>1, <3>2
    <3>3. QED
      BY <2>2, <3>1, <3>2
  <2>3. QED
    BY <1>3, <2>1, <2>2 DEF WorkAccounted
<1>11. QED
  BY <1>5, <1>6, <1>7, <1>8, <1>9, <1>10 DEF LifeInv

\* What a goroutine that returns leaves behind.
LEMMA ReturnFacts ==
  ASSUME PcTypeOK, NEW u \in Units, NEW how \in {"nil", "failed", "canceled"}, Return(u, how),
         how = "canceled" => Cancelled("main")
  PROVE  /\ ErrorsKept /\ pcRun' = [pcRun EXCEPT ![u] = how]
         /\ how # "nil" => pcErr'[GroupOf(u)] # ""
<1>1. GroupOf(u) \in {"main", "smee", "web"}
  BY DEF GroupOf
<1>2. \/ pcErr' = pcErr /\ (how # "nil" => pcErr[GroupOf(u)] # "")
      \/ how # "nil" /\ pcErr[GroupOf(u)] = "" /\ pcErr' = [pcErr EXCEPT ![GroupOf(u)] = how]
  BY DEF Return
<1>3. CASE pcErr' = pcErr /\ (how # "nil" => pcErr[GroupOf(u)] # "")
  BY <1>3 DEF Return, ErrorsKept, PcTypeOK
<1>4. CASE how # "nil" /\ pcErr[GroupOf(u)] = "" /\ pcErr' = [pcErr EXCEPT ![GroupOf(u)] = how]
  <2>1. /\ pcErr' \in [{"main", "smee", "web"} -> {"", "failed", "canceled"}]
        /\ pcErr'[GroupOf(u)] = how
        /\ \A g \in {"main", "smee", "web"} \ {GroupOf(u)} : pcErr'[g] = pcErr[g]
    <3> DEFINE h == GroupOf(u)
               G == {"main", "smee", "web"}
               E == {"", "failed", "canceled"}
    <3>1. h \in G /\ how \in E /\ pcErr \in [G -> E] /\ pcErr' = [pcErr EXCEPT ![h] = how]
      BY <1>1, <1>4 DEF PcTypeOK
    <3> HIDE DEF h, G, E
    <3>2. pcErr' \in [G -> E] /\ pcErr'[h] = how /\ \A g \in G \ {h} : pcErr'[g] = pcErr[g]
      BY <3>1
    <3>3. QED
      BY <3>2 DEF h, G, E
  <2>2. pcErr'["main"] = "canceled" => pcErr["main"] = "canceled" \/ pcSignal \/ pcMain = "cleanup"
    <3>1. CASE GroupOf(u) = "main"
      BY <1>4, <2>1, <3>1 DEF Cancelled
    <3>2. CASE GroupOf(u) # "main"
      BY <2>1, <3>2
    <3>3. QED
      BY <3>1, <3>2
  <2>3. \A g \in {"main", "smee", "web"} : pcErr[g] # "" => pcErr'[g] = pcErr[g]
    BY <1>4, <2>1
  <2>4. ErrorsKept
    BY <2>1, <2>2, <2>3 DEF ErrorsKept
  <2>5. QED
    BY <2>1, <2>4 DEF Return
<1>5. QED
  BY <1>2, <1>3, <1>4

LEMMA KilledAreUnits == ASSUME LifeInv PROVE {u \in Units : Running(u)} \cup pcWork \subseteq Units
<1>1. Unjoined \cup Patient \subseteq Units
  BY DEF Unjoined, Patient, Units, Services, SmeeServers, WebServers
<1>2. QED
  BY <1>1 DEF LifeInv, PcTypeOK

LEMMA ConfigureLives == ASSUME LifeInv, Configure PROVE LifeInv'
<1>0. pcMain = "config" /\ pcExit = "" /\ UNCHANGED <<pcConfig, pcWork, pcErr, pcSignal, pcCrds>>
  BY DEF Configure, Life
<1>1. CASE \E how \in {"ok", "error"} : Leave(how) /\ UNCHANGED pcRun
  <2>1. PICK how \in {"ok", "error"} : Leave(how) /\ UNCHANGED pcRun
    BY <1>1
  <2>2. pcMain' = "exit" /\ pcExit' = how /\ pcKilled' \subseteq Units
    BY <2>1, KilledAreUnits DEF Leave
  <2>3. Migrated'
    BY <1>0, <2>1, <2>2 DEF LifeInv, NothingLaunched, BeforeLaunch, Migrated
  <2>4. QED
    BY <1>0, <2>1, <2>2, <2>3, MainMoves DEF LifeInv, PcTypeOK, BeforeLaunch, OutAtEnd
<1>2. CASE /\ pcRun' = Begun(Embedded) /\ UNCHANGED <<pcExit, pcKilled>>
           /\ pcMain' = IF BackendOf(pcConfig) = "kube" /\ pcConfig.migrate THEN "await" ELSE "backend"
  <2>1. /\ pcRun' \in [Units -> {"none", "starting", "up", "nil", "failed", "canceled"}]
        /\ \A u \in Units \ Embedded : pcRun'[u] = pcRun[u]
    BY <1>2 DEF Begun, LifeInv, PcTypeOK
  <2>2. /\ Services \subseteq Units \ Embedded /\ WebServers \subseteq Units \ Embedded
        /\ SmeeServers \subseteq Units \ Embedded /\ {"web", "smee"} \subseteq Services
    BY DEF Services, WebServers, SmeeServers, Embedded, Units
  <2>3. \A u \in Services \cup WebServers \cup SmeeServers : pcRun'[u] = pcRun[u]
    BY <2>1, <2>2
  <2>4. PcTypeOK' /\ OutAtEnd'
    BY <1>0, <1>2, <2>1 DEF LifeInv, PcTypeOK, OutAtEnd
  <2>5. NothingLaunched'
    BY <1>0, <1>2, <2>3 DEF LifeInv, NothingLaunched, BeforeLaunch
  <2>6. Migrated'
    BY <1>0, <1>2 DEF Migrated
  <2>7. UnderParents'
    BY <2>2, <2>3 DEF LifeInv, UnderParents, Running
  <2>8. EndsForReason'
    BY <1>0, <1>2 DEF LifeInv, EndsForReason
  <2>9. WorkAccounted'
    <3>1. \A u \in Patient : u \in Services \cup WebServers
      BY DEF Patient, Services
    <3>2. QED
      BY <1>0, <2>2, <2>3, <3>1 DEF LifeInv, WorkAccounted
  <2>10. QED
    BY <2>4, <2>5, <2>6, <2>7, <2>8, <2>9 DEF LifeInv
<1>3. QED
  BY <1>1, <1>2 DEF Configure

\* The steps of the main goroutine that start nothing.
LEMMA MainLives ==
  ASSUME LifeInv,
         \/ WaitForAPIServer \/ Migrate \/ Establish \/ Ready \/ Cleanup \/ Backend \/ Wait
         \/ CachePanics \/ Signal \/ WorkEnds
  PROVE  LifeInv'
<1> USE DEF BeforeLaunch
<1>0. /\ pcMain # "exit" /\ UNCHANGED <<pcConfig, pcRun, pcErr>> /\ pcExit = ""
      /\ pcSignal' \in {pcSignal, TRUE} /\ pcWork' \subseteq pcWork
  BY DEF WaitForAPIServer, Migrate, Establish, Ready, Cleanup, Backend, Wait, CachePanics, Signal,
         WorkEnds, Life, LifeInv, OutAtEnd
<1>1. CASE \E how \in {"ok", "error", "panic"} : Leave(how) /\ UNCHANGED pcCrds
  <2>1. PICK how \in {"ok", "error", "panic"} : Leave(how) /\ UNCHANGED pcCrds
    BY <1>1
  <2>2. pcMain' = "exit" /\ pcExit' = how /\ pcKilled' \subseteq Units
    BY <2>1, KilledAreUnits DEF Leave
  <2>3. Migrated'
    <3>1. pcMain \in BeforeLaunch \/ pcMain = "wait"
      BY <1>0 DEF LifeInv, PcTypeOK
    <3>2. pcMain \in BeforeLaunch => \A u \in Services : pcRun[u] = "none"
      BY DEF LifeInv, NothingLaunched
    <3>3. QED
      BY <1>0, <2>1, <2>2, <3>1, <3>2 DEF LifeInv, Migrated
  <2>4. QED
    BY <1>0, <2>1, <2>2, <2>3, MainMoves DEF LifeInv, PcTypeOK, OutAtEnd
<1>2. CASE /\ UNCHANGED <<pcExit, pcKilled>>
           /\ \/ UNCHANGED <<pcMain, pcCrds>>
              \/ pcMain' = pcMain /\ \E c \in CRDs :
                   pcCrds[c] # "established" /\ \E s \in {"new", "established"} :
                     pcCrds' = [pcCrds EXCEPT ![c] = s]
              \/ /\ UNCHANGED pcCrds
                 /\ pcMain' \in {"migrate", "ready", "cleanup", "backend", "launch"}
                 /\ pcMain \in {"await", "migrate", "ready", "backend"}
                 /\ pcMain' = "backend" => \A c \in CRDs : pcCrds[c] = "established"
                 /\ pcMain' = "launch" => pcMain = "backend"
  <2>1. pcCrds' \in [CRDs -> {"old", "new", "established"}]
        /\ \A c \in CRDs : pcCrds[c] = "established" => pcCrds'[c] = "established"
    BY <1>2 DEF LifeInv, PcTypeOK
  <2>2. /\ pcMain' \in {"config", "await", "migrate", "ready", "cleanup", "backend", "launch", "wait"}
        /\ pcMain' \in BeforeLaunch => pcMain \in BeforeLaunch
        /\ pcMain' = "wait" => pcMain = "wait"
        /\ pcMain' \notin {"cleanup", "exit"} => pcMain \notin {"cleanup", "exit"}
    BY <1>0, <1>2 DEF LifeInv, PcTypeOK
  <2>3. Migrated'
    BY <1>0, <1>2, <2>1, <2>2 DEF LifeInv, Migrated
  <2>4. QED
    BY <1>0, <1>2, <2>1, <2>2, <2>3, MainMoves DEF LifeInv, PcTypeOK, OutAtEnd
<1>3. CASE WaitForAPIServer
  BY <1>1, <1>2, <1>3 DEF WaitForAPIServer, NoBackend
<1>4. CASE Migrate
  <2>1. CASE \E c \in CRDs : WriteCRD(c) /\ UNCHANGED pcMain
    BY <1>2, <1>4, <2>1 DEF Migrate, WriteCRD
  <2>2. CASE UNCHANGED pcCrds /\ pcMain' \in {"ready", "cleanup"}
    BY <1>2, <1>4, <2>2 DEF Migrate
  <2>3. QED
    BY <1>4, <2>1, <2>2 DEF Migrate
<1>5. CASE Establish
  BY <1>2, <1>5 DEF Establish
<1>6. CASE Ready
  BY <1>2, <1>6 DEF Ready
<1>7. CASE Cleanup \/ Wait
  BY <1>1, <1>7 DEF Cleanup, Wait
<1>8. CASE Backend
  BY <1>1, <1>2, <1>8 DEF Backend, NoBackend
<1>9. CASE CachePanics
  BY <1>1, <1>9 DEF CachePanics
<1>10. CASE Signal \/ WorkEnds
  BY <1>2, <1>10 DEF Signal, WorkEnds
<1>11. QED
  BY <1>3, <1>4, <1>5, <1>6, <1>7, <1>8, <1>9, <1>10

LEMMA LaunchLives == ASSUME LifeInv, Launch PROVE LifeInv'
<1>1. /\ pcMain = "launch" /\ pcMain' = "wait" /\ pcExit = "" /\ pcRun' = Begun(Services)
      /\ UNCHANGED <<pcConfig, pcWork, pcErr, pcSignal, pcCrds, pcExit, pcKilled>>
  BY DEF Launch, Life
<1>2. /\ pcRun' \in [Units -> {"none", "starting", "up", "nil", "failed", "canceled"}]
      /\ \A u \in Units \ Services : pcRun'[u] = pcRun[u]
  BY <1>1 DEF Begun, LifeInv, PcTypeOK
<1>3. /\ WebServers \subseteq Units \ Services /\ SmeeServers \subseteq Units \ Services
      /\ {"web", "smee"} \subseteq Services /\ Services \subseteq Units
  BY DEF Services, WebServers, SmeeServers, Embedded, Units
<1>4. pcRun'["web"] = "starting"
  BY <1>1, <1>3 DEF Begun, Wanted
<1>5. \A u \in WebServers \cup SmeeServers : ~Running(u)'
  <2>1. pcRun["web"] = "none" /\ pcRun["smee"] = "none"
    BY <1>1, <1>3 DEF LifeInv, NothingLaunched, BeforeLaunch
  <2>2. \A u \in WebServers \cup SmeeServers : ~Running(u)
    BY <2>1 DEF LifeInv, UnderParents
  <2>3. QED
    BY <1>2, <1>3, <2>2 DEF Running
<1>6. PcTypeOK' /\ OutAtEnd'
  BY <1>1, <1>2 DEF LifeInv, PcTypeOK, OutAtEnd
<1>7. NothingLaunched' /\ UnderParents'
  BY <1>1, <1>5 DEF NothingLaunched, UnderParents, BeforeLaunch
<1>8. Migrated'
  BY <1>1 DEF LifeInv, Migrated
<1>9. EndsForReason'
  BY <1>1, <1>4 DEF LifeInv, EndsForReason
<1>10. WorkAccounted'
  <2>1. \A u \in Services : pcRun[u] = "none"
    BY <1>1 DEF LifeInv, NothingLaunched, BeforeLaunch
  <2>2. \A u \in Patient : u \in WebServers \/ u \in Services
    BY DEF Patient, Services
  <2>3. \A u \in WebServers : pcRun'[u] = pcRun[u] /\ pcRun[u] = "none"
    BY <1>2, <1>3, <2>1 DEF LifeInv, WorkAccounted
  <2>4. \A u \in pcWork : u \in Unjoined
    BY <2>1, <2>2, <2>3 DEF LifeInv, WorkAccounted
  <2>5. QED
    BY <1>1, <2>3, <2>4 DEF WorkAccounted
<1>11. QED
  BY <1>6, <1>7, <1>8, <1>9, <1>10 DEF LifeInv

LEMMA Children ==
  ASSUME NEW c
  PROVE  SmeeChildren(c) \subseteq SmeeServers /\ WebChildren(c) \subseteq WebServers /\ "plain" \in WebChildren(c)
<1>1. ASSUME NEW i \in 1 .. 3 PROVE SmeeOrder(c)[i].unit \in SmeeServers
  <2>1. i = 1 \/ i = 2 \/ i = 3
    OBVIOUS
  <2>2. QED
    BY <2>1 DEF SmeeOrder, SmeeServers
<1>2. SmeeChildren(c) \subseteq SmeeServers
  BY <1>1 DEF SmeeChildren
<1>3. WebChildren(c) = {"plain"} \/ WebChildren(c) = {"plain", "https"}
  BY DEF WebChildren
<1>4. QED
  BY <1>2, <1>3 DEF WebServers

\* Smee starts its servers, or gives up.
LEMMA SmeeStartLives == ASSUME LifeInv, SmeeStart PROVE LifeInv'
<1> DEFINE children == SmeeChildren(pcConfig)
           begun == [u \in Units |-> IF u \in children THEN "starting" ELSE pcRun[u]]
<1>1. /\ pcExit = "" /\ pcRun["smee"] = "starting"
      /\ UNCHANGED <<pcConfig, pcWork, pcMain, pcSignal, pcCrds, pcExit, pcKilled>>
  BY DEF SmeeStart, Life
<1>2. PICK how \in {"up", "failed"} : pcRun' = [begun EXCEPT !["smee"] = how]
  BY DEF SmeeStart
<1>3. pcErr' = pcErr \/ (pcErr["main"] = "" /\ pcErr' = [pcErr EXCEPT !["main"] = "failed"])
  BY DEF SmeeStart
<1>4. ErrorsKept
  BY <1>3 DEF LifeInv, PcTypeOK, ErrorsKept
<1>5. children \subseteq SmeeServers
  BY Children
<1>6. /\ SmeeServers \subseteq Units /\ Services \subseteq Units /\ WebServers \subseteq Units
      /\ "smee" \in Services /\ "web" \in Services /\ "plain" \in WebServers
      /\ "smee" \notin SmeeServers \cup WebServers /\ SmeeServers \cap (Services \cup WebServers) = {}
  BY DEF Units, Services, SmeeServers, WebServers
<1> HIDE DEF children
<1>7. /\ pcRun' \in [Units -> {"none", "starting", "up", "nil", "failed", "canceled"}]
      /\ pcRun'["smee"] = how
      /\ \A u \in Units \ ({"smee"} \cup children) : pcRun'[u] = pcRun[u]
  BY <1>2, <1>6 DEF LifeInv, PcTypeOK
<1>8. pcMain \notin BeforeLaunch /\ pcMain # "exit"
  BY <1>1, <1>6 DEF LifeInv, NothingLaunched, OutAtEnd
<1>9. /\ \A u \in WebServers : pcRun'[u] = pcRun[u]
      /\ pcRun'["web"] = pcRun["web"]
  BY <1>5, <1>6, <1>7
<1>10. PcTypeOK' /\ OutAtEnd'
  BY <1>1, <1>4, <1>7 DEF LifeInv, PcTypeOK, OutAtEnd, ErrorsKept
<1>11. NothingLaunched' /\ Migrated'
  BY <1>1, <1>8 DEF LifeInv, NothingLaunched, Migrated
<1>12. UnderParents'
  BY <1>7, <1>9 DEF LifeInv, UnderParents, Running
<1>13. EndsForReason'
  <2>1. Running("plain")' = Running("plain")
    BY <1>6, <1>9 DEF Running
  <2>2. pcErr'["main"] = "canceled" => pcErr["main"] = "canceled"
    BY <1>3 DEF LifeInv, PcTypeOK
  <2>3. \A g \in {"main", "web"} : pcErr[g] # "" => pcErr'[g] # ""
    BY <1>4 DEF ErrorsKept
  <2>4. QED
    BY <1>1, <1>9, <2>1, <2>2, <2>3 DEF LifeInv, EndsForReason
<1>14. WorkAccounted'
  <2>1. \A u \in Patient : u \in Units \ ({"smee"} \cup children)
    BY <1>5, <1>6 DEF Patient, Units, Services, SmeeServers, WebServers
  <2>2. QED
    BY <1>1, <1>7, <1>9, <2>1 DEF LifeInv, WorkAccounted
<1>15. QED
  BY <1>10, <1>11, <1>12, <1>13, <1>14 DEF LifeInv

\* A group of Smee or of the HTTP server has ended, and its goroutine returns.
LEMMA ParentReturns ==
  ASSUME LifeInv, Life, NEW p \in {"smee", "web"}, NEW how \in {"nil", "failed"}, Return(p, how),
         pcRun[p] \in {"starting", "up"},
         p = "smee" /\ how = "nil" => \A u \in SmeeServers : ~Running(u),
         p = "web" => \A u \in WebServers : ~Running(u),
         p = "web" /\ how = "nil" => pcRun["web"] = "up" /\ pcErr["web"] = "",
         UNCHANGED <<pcConfig, pcWork, pcMain, pcSignal, pcCrds, pcExit, pcKilled>>
  PROVE  LifeInv'
<1>1. {"smee", "web", "plain"} \cup WebServers \cup SmeeServers \subseteq Units
      /\ {"smee", "web"} \subseteq Services /\ "plain" \in WebServers /\ GroupOf(p) = "main"
      /\ p \notin WebServers \cup SmeeServers
  BY DEF Units, Services, SmeeServers, WebServers, GroupOf
<1>2. /\ ErrorsKept /\ pcRun' = [pcRun EXCEPT ![p] = how] /\ (how # "nil" => pcErr'["main"] # "")
  <2>1. PcTypeOK /\ p \in Units /\ GroupOf(p) = "main"
    BY <1>1 DEF LifeInv
  <2>2. how \in {"nil", "failed", "canceled"} /\ how # "canceled"
    OBVIOUS
  <2>3. QED
    BY <2>1, <2>2, ReturnFacts
<1>3. /\ pcRun' \in [Units -> {"none", "starting", "up", "nil", "failed", "canceled"}]
      /\ pcRun'[p] = how /\ \A u \in Units \ {p} : pcRun'[u] = pcRun[u]
  BY <1>1, <1>2 DEF LifeInv, PcTypeOK
<1>4. \A u \in WebServers \cup SmeeServers : Running(u)' <=> Running(u)
  BY <1>1, <1>3 DEF Running
<1>5. pcMain \notin BeforeLaunch /\ pcMain # "exit"
  BY <1>1 DEF LifeInv, NothingLaunched, OutAtEnd, Life
<1>6. PcTypeOK' /\ OutAtEnd'
  BY <1>2, <1>3 DEF LifeInv, PcTypeOK, OutAtEnd, ErrorsKept
<1>7. NothingLaunched' /\ Migrated'
  BY <1>5 DEF LifeInv, NothingLaunched, Migrated
<1>8. UnderParents'
  <2>1. CASE p = "web"
    <3>1. pcRun'["smee"] = pcRun["smee"]
      BY <1>1, <1>3, <2>1
    <3>2. QED
      BY <1>4, <2>1, <3>1 DEF LifeInv, UnderParents
  <2>2. CASE p = "smee"
    <3>1. pcRun'["web"] = pcRun["web"]
      BY <1>1, <1>3, <2>2
    <3>2. pcRun'["smee"] \notin {"up", "failed"} => \A u \in SmeeServers : ~Running(u)
      BY <1>3, <2>2
    <3>3. QED
      BY <1>4, <3>1, <3>2 DEF LifeInv, UnderParents
  <2>3. QED
    BY <2>1, <2>2
<1>9. EndsForReason'
  <2>1. pcMain \notin {"cleanup", "exit"} /\ pcErr'["main"] = "canceled" => pcSignal
    BY <1>2 DEF LifeInv, EndsForReason, ErrorsKept
  <2>2. \A g \in {"main", "web"} : pcErr[g] # "" => pcErr'[g] # ""
    BY <1>2 DEF ErrorsKept
  <2>3. CASE p = "web"
    <3>1. how = "nil" /\ pcMain = "wait" => pcSignal \/ pcErr["main"] # ""
      BY <1>1, <2>3 DEF LifeInv, EndsForReason
    <3>2. pcRun'["web"] = how
      BY <1>3, <2>3
    <3>3. QED
      BY <1>2, <2>1, <2>2, <3>1, <3>2 DEF EndsForReason
  <2>4. CASE p = "smee"
    <3>1. pcRun'["web"] = pcRun["web"] /\ (Running("plain")' <=> Running("plain"))
      BY <1>1, <1>3, <1>4, <2>4
    <3>2. QED
      BY <2>1, <2>2, <3>1 DEF LifeInv, EndsForReason
  <2>5. QED
    BY <2>3, <2>4
<1>10. WorkAccounted'
  <2>1. \A u \in Patient : u \in Units \ {p}
    BY DEF Patient, Units, Services, SmeeServers, WebServers
  <2>2. \A u \in WebServers : pcRun'[u] = pcRun[u]
    BY <1>1, <1>3
  <2>3. pcRun'["web"] \in {"none", "starting"} => pcRun["web"] \in {"none", "starting"}
    BY <1>1, <1>3
  <2>4. QED
    BY <1>3, <2>1, <2>2, <2>3 DEF LifeInv, WorkAccounted
<1>11. QED
  BY <1>6, <1>7, <1>8, <1>9, <1>10 DEF LifeInv

LEMMA ParentsLive == ASSUME LifeInv, SmeeReturns \/ WebReturns PROVE LifeInv'
<1>1. CASE SmeeReturns
  <2>1. PICK how \in {"nil", "failed"} : Return("smee", how)
    BY <1>1 DEF SmeeReturns
  <2>2. QED
    BY <1>1, <2>1, ParentReturns DEF SmeeReturns
<1>2. CASE WebReturns
  <2>1. PICK how \in {"nil", "failed"} : Return("web", how) /\ (how = "nil" => pcErr["web"] = "")
    BY <1>2 DEF WebReturns
  <2>2. QED
    BY <1>2, <2>1, ParentReturns DEF WebReturns
<1>3. QED
  BY <1>1, <1>2

\* The HTTP server starts, fails to, or panics.
LEMMA WebStartLives == ASSUME LifeInv, WebStart PROVE LifeInv'
<1>1. /\ Life /\ pcRun["web"] = "starting" /\ UNCHANGED <<pcConfig, pcWork, pcSignal, pcCrds>>
  BY DEF WebStart
<1>2. /\ SmeeServers \subseteq Units /\ WebServers \subseteq Units /\ {"web", "smee"} \subseteq Units
      /\ {"web", "smee"} \subseteq Services /\ "plain" \in WebServers
      /\ "web" \notin SmeeServers \cup WebServers /\ (SmeeServers \cup {"smee"}) \cap WebServers = {}
  BY DEF Units, Services, SmeeServers, WebServers
<1>3. pcMain = "wait"
  BY <1>1, <1>2 DEF LifeInv, NothingLaunched, OutAtEnd, Life, PcTypeOK, BeforeLaunch
<1>4. CASE pcMain' = "exit" /\ pcExit' = "panic" /\ pcKilled' \subseteq Units /\ UNCHANGED <<pcRun, pcErr>>
  <2>1. Migrated'
    BY <1>1, <1>3, <1>4 DEF LifeInv, Migrated
  <2>2. QED
    BY <1>1, <1>4, <2>1, MainMoves DEF LifeInv, PcTypeOK, OutAtEnd, BeforeLaunch
<1>5. CASE Return("web", "failed") /\ UNCHANGED <<pcMain, pcExit, pcKilled>>
  <2>1. \A u \in WebServers : ~Running(u)
    BY <1>1 DEF LifeInv, UnderParents
  <2>2. QED
    BY <1>1, <1>5, <2>1, ParentReturns
<1>6. CASE /\ pcRun' = [u \in Units |-> IF u = "web" THEN "up"
                             ELSE IF u \in WebChildren(pcConfig) THEN "starting" ELSE pcRun[u]]
           /\ UNCHANGED <<pcErr, pcMain, pcExit, pcKilled>>
  <2> DEFINE children == WebChildren(pcConfig)
  <2>1. children \subseteq WebServers /\ "plain" \in children
    BY Children
  <2> HIDE DEF children
  <2>2. /\ pcRun' \in [Units -> {"none", "starting", "up", "nil", "failed", "canceled"}]
        /\ pcRun'["web"] = "up" /\ pcRun'["plain"] = "starting"
        /\ \A u \in Units \ ({"web"} \cup children) : pcRun'[u] = pcRun[u]
    BY <1>2, <1>6, <2>1 DEF LifeInv, PcTypeOK, children
  <2>3. \A u \in SmeeServers \cup {"smee"} : pcRun'[u] = pcRun[u]
    BY <1>2, <2>1, <2>2
  <2>4. PcTypeOK' /\ OutAtEnd'
    BY <1>1, <1>6, <2>2 DEF LifeInv, PcTypeOK, OutAtEnd
  <2>5. NothingLaunched' /\ Migrated'
    BY <1>1, <1>3, <1>6 DEF LifeInv, NothingLaunched, Migrated, BeforeLaunch
  <2>6. UnderParents'
    BY <2>2, <2>3 DEF LifeInv, UnderParents, Running
  <2>7. EndsForReason'
    BY <1>1, <1>3, <1>6, <2>2 DEF LifeInv, EndsForReason, Running
  <2>8. WorkAccounted'
    <3>1. \A u \in WebServers : pcRun[u] = "none"
      BY <1>1 DEF LifeInv, WorkAccounted
    <3>2. \A u \in Patient \ WebServers : u \in Units \ ({"web"} \cup children)
      BY <2>1 DEF Patient, Units, Services, SmeeServers, WebServers
    <3>3. QED
      BY <1>1, <2>2, <3>1, <3>2 DEF LifeInv, WorkAccounted
  <2>9. QED
    BY <2>4, <2>5, <2>6, <2>7, <2>8 DEF LifeInv
<1>7. QED
  BY <1>4, <1>5, <1>6, KilledAreUnits DEF WebStart

\* The servers come up, fail and stop.
LEMMA LeavesLive ==
  ASSUME LifeInv, NEW u \in Leaves, UnitUp(u) \/ UnitFails(u) \/ UnitStops(u)
  PROVE  LifeInv'
<1>0. u \in Units /\ PcTypeOK /\ (u = "plain" => GroupOf(u) = "web")
  BY DEF Leaves, LifeInv, GroupOf, SmeeServers, WebServers
<1>1. CASE UnitUp(u)
  BY <1>0, <1>1, LeafMoves DEF UnitUp, Running, ErrorsKept, PcTypeOK
<1>2. CASE UnitFails(u)
  <2>1. Life /\ Running(u) /\ UNCHANGED <<pcConfig, pcMain, pcSignal, pcCrds, pcExit, pcKilled>>
    BY <1>2 DEF UnitFails
  <2>2. CASE u \in Embedded /\ pcRun' = [pcRun EXCEPT ![u] = "starting"] /\ UNCHANGED <<pcErr, pcWork>>
    BY <1>0, <2>1, <2>2, LeafMoves DEF ErrorsKept, PcTypeOK
  <2>3. CASE Return(u, "failed") /\ LeavesWork(u, "failed")
    <3>1. /\ ErrorsKept /\ pcRun' = [pcRun EXCEPT ![u] = "failed"] /\ pcErr'[GroupOf(u)] # ""
      BY <1>0, <2>3, ReturnFacts
    <3>2. QED
      BY <1>0, <2>1, <2>3, <3>1, LeafMoves DEF LeavesWork
  <2>4. QED
    BY <1>2, <2>2, <2>3 DEF UnitFails
<1>3. CASE UnitStops(u)
  <2>1. /\ Life /\ Running(u) /\ Cancelled(GroupOf(u))
        /\ UNCHANGED <<pcConfig, pcMain, pcSignal, pcCrds, pcExit, pcKilled>>
    BY <1>3 DEF UnitStops
  <2>2. PICK how \in {"nil", "failed", "canceled"} :
          Return(u, how) /\ LeavesWork(u, how) /\ (how = "canceled" => u \in Embedded)
    BY <1>3 DEF UnitStops, StopResults, Leaves, Units, Embedded, Services, SmeeServers, WebServers,
                EtcdStops, APIServerStops, ControllerManagerStops, SyslogStops, TFTPStops, DHCPStops,
                HTTPStops, TinkServerStops, TinkControllerStops, RufioStops, SecondStarStops
  <2>3. how = "canceled" => Cancelled("main")
    BY <2>1, <2>2 DEF GroupOf, Embedded, SmeeServers, WebServers
  <2>4. ErrorsKept /\ pcRun' = [pcRun EXCEPT ![u] = how]
    BY <1>0, <2>2, <2>3, ReturnFacts
  <2>5. u = "plain" => pcSignal \/ pcErr'["main"] # "" \/ pcErr'["web"] # ""
    <3> SUFFICES ASSUME u = "plain" PROVE pcSignal \/ pcErr'["main"] # "" \/ pcErr'["web"] # ""
      OBVIOUS
    <3>1. pcRun["web"] = "up"
      BY <2>1 DEF LifeInv, UnderParents, WebServers
    <3>2. pcMain # "cleanup"
      BY <3>1 DEF LifeInv, NothingLaunched, BeforeLaunch, Services
    <3>3. QED
      BY <1>0, <2>1, <2>4, <3>2 DEF Cancelled, ErrorsKept
  <2>6. QED
    BY <2>1, <2>2, <2>4, <2>5, LeafMoves DEF LeavesWork
<1>4. QED
  BY <1>1, <1>2, <1>3

LEMMA LifeStep == LifeInv /\ [PcNext]_pcVars => LifeInv'
<1> SUFFICES ASSUME LifeInv, [PcNext]_pcVars PROVE LifeInv'
  OBVIOUS
<1>1. CASE PcNext
  BY <1>1, ConfigureLives, MainLives, LaunchLives, SmeeStartLives, ParentsLive, WebStartLives,
     LeavesLive DEF PcNext
<1>2. CASE UNCHANGED pcVars
  <2>1. UNCHANGED <<pcConfig, pcMain, pcRun, pcErr, pcSignal, pcCrds, pcExit, pcWork, pcKilled>>
    BY <1>2 DEF pcVars
  <2>2. OutAtEnd' /\ Migrated'
    BY <2>1 DEF LifeInv, OutAtEnd, Migrated
  <2>3. QED
    BY <2>1, <2>2, MainMoves DEF LifeInv, PcTypeOK
<1>3. QED
  BY <1>1, <1>2

\* Everything the life of the process rests on holds throughout.
THEOREM LifeInvariance == PcSpec => []LifeInv
<1>1. QED
  BY LifeStarts, LifeStep, PTL DEF PcSpec

\* The state of the process keeps its types: phases, goroutines, errors, CRDs.
THEOREM ProcessTypeCorrect == PcSpec => []PcTypeOK
<1>1. LifeInv => PcTypeOK
  BY DEF LifeInv
<1>2. QED
  BY <1>1, LifeInvariance, PTL

\* The end of the process, from the group or from a failed migration.
LEMMA EndStep == LifeInv /\ PcNext => EndsInOrder
<1> DEFINE Allowed == Unjoined \cup {u \in Patient : pcRun[u] = "failed"}
                       \cup (IF pcRun["smee"] = "failed" THEN SmeeServers ELSE {})
<1> SUFFICES ASSUME LifeInv, PcNext, pcMain \in {"wait", "cleanup"}, pcMain' = "exit",
                    pcExit' \in {"ok", "error"}
             PROVE  /\ pcKilled' \subseteq Allowed
                    /\ \A u \in pcKilled' : u \in SmeeServers \/ ~Running(u)
                    /\ pcExit' = "ok" => pcSignal
  BY DEF EndsInOrder
<1>1. Wait \/ Cleanup
  BY DEF PcNext, Configure, WaitForAPIServer, Migrate, Establish, Ready, Backend, Launch, SmeeStart,
         SmeeReturns, WebStart, WebReturns, CachePanics, Signal, UnitUp, UnitFails, UnitStops, Leave,
         WorkEnds
<1>2. pcKilled' = {u \in Units : Running(u)} \cup pcWork
  BY <1>1 DEF Wait, Cleanup, Leave
<1>0. pcWork \subseteq Allowed /\ pcWork \subseteq Units
  BY KilledAreUnits DEF LifeInv, WorkAccounted
<1> HIDE DEF Allowed
<1>3. Units = Embedded \cup Services \cup SmeeServers \cup WebServers /\ {"web", "smee"} \subseteq Services
  BY DEF Units, Services
<1>4. CASE Cleanup
  <2>1. \A u \in Services : pcRun[u] = "none"
    BY <1>4 DEF Cleanup, LifeInv, NothingLaunched, BeforeLaunch
  <2>2. \A u \in SmeeServers \cup WebServers : ~Running(u)
    BY <1>3, <2>1 DEF LifeInv, UnderParents
  <2>3. \A u \in Units : ~Running(u)
    BY <1>3, <1>4, <2>1, <2>2 DEF Cleanup, Running
  <2>4. QED
    BY <1>0, <1>2, <1>4, <2>3 DEF Cleanup, Leave
<1>5. CASE Wait
  <2>1. \A u \in Embedded \cup Services : Ended(u) /\ ~Running(u)
    BY <1>5 DEF Wait, Ended, Running
  <2>2. \A u \in WebServers : ~Running(u)
    BY <1>3, <2>1 DEF LifeInv, UnderParents, Running
  <2>3. pcRun["smee"] # "failed" => \A u \in SmeeServers : ~Running(u)
    BY <1>3, <2>1 DEF LifeInv, UnderParents, Running
  <2>4. pcKilled' \subseteq Allowed /\ \A u \in pcKilled' : u \in SmeeServers \/ ~Running(u)
    BY <1>0, <1>2, <1>3, <2>1, <2>2, <2>3 DEF Allowed
  <2>5. ASSUME pcExit' = "ok" PROVE pcSignal
    <3>1. pcErr["main"] # "failed" /\ pcMain = "wait"
      BY <1>5, <2>5 DEF Wait, Leave
    <3>2. pcRun["web"] \in {"nil", "failed", "canceled"}
      BY <1>3, <2>1 DEF Ended
    <3>3. pcSignal \/ pcErr["main"] # ""
      BY <3>1, <3>2 DEF LifeInv, EndsForReason
    <3>4. pcErr["main"] \in {"", "failed", "canceled"}
      BY DEF LifeInv, PcTypeOK
    <3>5. QED
      BY <3>1, <3>3, <3>4 DEF LifeInv, EndsForReason
  <2>6. QED
    BY <2>4, <2>5
<1>6. QED
  BY <1>1, <1>4, <1>5

\* Services start only on a cluster whose CRDs are established.  At its end the
\* process waits for every server; what it can cut off is the work that SSH, TFTP,
\* DHCP and Tink Server leave behind, a request or reconcile that outlasted its
\* server's patience, and the servers of a Smee whose Start gave up.  It reports
\* success only when it was told to end.
THEOREM LivesInOrder == PcSpec => LifeInOrder
<1>1. LifeInv => StartsOnReadyCluster
  BY DEF LifeInv, Migrated, StartsOnReadyCluster
<1>2. LifeInv /\ [PcNext]_pcVars => [StartsOnReadyCluster' /\ EndsInOrder]_pcVars
  <2> SUFFICES ASSUME LifeInv, PcNext PROVE StartsOnReadyCluster' /\ EndsInOrder
    OBVIOUS
  <2>1. LifeInv'
    BY LifeStep
  <2>2. StartsOnReadyCluster'
    BY <2>1 DEF LifeInv, Migrated, StartsOnReadyCluster
  <2>3. QED
    BY <2>2, EndStep
<1>3. QED
  BY <1>2, LifeInvariance, PTL DEF PcSpec, LifeInOrder

=============================================================================
