--------------------------- MODULE SyslogReceiver ---------------------------
(***************************************************************************)
(* Smee's syslog receiver (smee/internal/syslog): the reader takes a       *)
(* message object from a pool, reads a datagram into its buffer and sends  *)
(* it over a bounded channel to the parsers, which log it and put the      *)
(* object back.  reset() clears the parsed fields of an object, not its    *)
(* buffer.  A cancelled context ends the reader, which closes the channel  *)
(* and waits for the parsers.                                              *)
(***************************************************************************)
EXTENDS Naturals, Sequences, FiniteSets, SequencesExt

CONSTANTS Datagrams,     \* [head |-> characters, rest |-> what follows the priority]
          SyMessages,    \* message objects
          Parsers,
          QueueCap,      \* parsers*64 in the code
          MaxDatagrams   \* datagrams that arrive

ASSUME SyAssumption ==
  /\ IsFiniteSet(SyMessages) /\ Parsers # {}
  /\ QueueCap \in Nat /\ MaxDatagrams \in Nat

VARIABLES syBuf,     \* the first characters of each object's buffer
          syData,    \* the datagram in each object, and its number
          syPool,    \* objects in the pool
          syReader,  \* "get", "read", "send", "stopping", "stopped"
          syHeld,    \* the objects the reader holds: none or one
          syQueue,   \* msgCh
          syBusy,    \* the objects each parser holds
          syLog,     \* what was logged: [n, how]
          syCtx,     \* "live", "cancelled"
          syEnd,     \* done: "open", "closed", or "panic" of the process
          syCount

syVars == <<syBuf, syData, syPool, syReader, syHeld, syQueue, syBusy, syLog,
            syCtx, syEnd, syCount>>

Blank == <<"nul", "nul", "nul", "nul", "nul">>
NoDatagram == [n |-> 0, size |-> 0, rest |-> "none"]

SyInit ==
  /\ syBuf = [m \in SyMessages |-> Blank]
  /\ syData = [m \in SyMessages |-> NoDatagram]
  /\ syPool = SyMessages
  /\ syReader = "get" /\ syHeld = {} /\ syQueue = <<>>
  /\ syBusy = [p \in Parsers |-> {}]
  /\ syLog = {} /\ syCtx = "live" /\ syEnd = "open" /\ syCount = 0

-----------------------------------------------------------------------------
(* message.go                                                              *)

Digits == {"0", "1", "2", "3", "4", "5", "6", "7", "8", "9"}

\* parsePriority looks at the four characters behind "<", whatever the size
\* of the datagram, for the ">" that ends the number.  Where it ends behind
\* the datagram the slice of the rest is out of range.
parsePriority(buf, size) ==
  LET stops == {i \in 2..5 : buf[i] \notin Digits}
      first == CHOOSE i \in stops : \A j \in stops : i <= j
  IN IF size < 3 \/ buf[1] # "<" \/ stops = {} \/ buf[first] # ">" THEN "invalid"
     ELSE IF first > size THEN "panic" ELSE "ok"

\* The rest decides between the two formats: a line that starts with
\* version 1 has a header of six fields with a timestamp and no structured
\* data, any other line is a legacy one.
parseRest(rest) ==
  CASE rest = "rfc5424" -> "structured"
    [] rest \in {"shortHeader", "badTime", "structuredData"} -> "unparseable"
    [] OTHER -> "legacy"

parse(m) ==
  LET pri == parsePriority(syBuf[m], syData[m].size)
  IN CASE pri = "panic" -> "panic"
       [] pri = "invalid" -> "unparseable"
       [] OTHER -> parseRest(syData[m].rest)

-----------------------------------------------------------------------------
(* receiver.go                                                             *)

Alive == syEnd = "open"

\* An object from the pool, or a new one when the pool has dropped its own.
Get ==
  /\ Alive /\ syReader = "get"
  /\ \E m \in syPool :
       /\ syHeld' = {m} /\ syPool' = syPool \ {m}
       /\ \E fresh \in BOOLEAN :
            syBuf' = IF fresh THEN [syBuf EXCEPT ![m] = Blank] ELSE syBuf
  /\ syReader' = "read"
  /\ UNCHANGED <<syData, syQueue, syBusy, syLog, syCtx, syEnd, syCount>>

\* The datagram overwrites the start of the buffer and leaves the rest.
ReadFromUDP ==
  /\ Alive /\ syReader = "read" /\ syCtx = "live" /\ syCount < MaxDatagrams
  /\ \E d \in Datagrams, m \in syHeld :
       /\ syBuf' = [syBuf EXCEPT ![m] =
            [i \in 1..5 |-> IF i <= Len(d.head) THEN d.head[i] ELSE @[i]]]
       /\ syData' = [syData EXCEPT ![m] =
            [n |-> syCount + 1, size |-> Len(d.head) + d.more, rest |-> d.rest]]
  /\ syCount' = syCount + 1
  /\ syReader' = "send"
  /\ UNCHANGED <<syPool, syHeld, syQueue, syBusy, syLog, syCtx, syEnd>>

\* The send waits for room, but not longer than the context lives.
SendMsg ==
  /\ Alive /\ syReader = "send" /\ Len(syQueue) < QueueCap
  /\ \E m \in syHeld : syQueue' = Append(syQueue, m)
  /\ syHeld' = {} /\ syReader' = "get"
  /\ UNCHANGED <<syBuf, syData, syPool, syBusy, syLog, syCtx, syEnd, syCount>>

CancelSyslog ==
  /\ Alive /\ syCtx = "live"
  /\ syCtx' = "cancelled"
  /\ UNCHANGED <<syBuf, syData, syPool, syReader, syHeld, syQueue, syBusy, syLog,
                 syEnd, syCount>>

\* The connection is closed, or fails for good: the channel is closed; the
\* object in hand goes back when the reader returns.
StopReading ==
  /\ Alive /\ syReader \in {"read", "send"}
  /\ syCtx = "cancelled" \/ syReader = "read"
  /\ syReader' = "stopping"
  /\ UNCHANGED <<syBuf, syData, syPool, syHeld, syQueue, syBusy, syLog, syCtx,
                 syEnd, syCount>>

ClosesAtOnce ==
  /\ Alive /\ syReader = "stopping"
  /\ syReader' = "stopped" /\ syEnd' = "closed"
  /\ syPool' = syPool \cup syHeld /\ syHeld' = {}
  /\ UNCHANGED <<syBuf, syData, syQueue, syBusy, syLog, syCtx, syCount>>

\* shutdown: done is closed when every parser has returned.
shutdown ==
  /\ Alive /\ syReader = "stopping"
  /\ syQueue = <<>> /\ \A p \in Parsers : syBusy[p] = {}
  /\ syReader' = "stopped" /\ syEnd' = "closed"
  /\ syPool' = syPool \cup syHeld /\ syHeld' = {}
  /\ UNCHANGED <<syBuf, syData, syQueue, syBusy, syLog, syCtx, syCount>>

Receive(p) ==
  /\ Alive /\ syBusy[p] = {} /\ syQueue # <<>>
  /\ syBusy' = [syBusy EXCEPT ![p] = {Head(syQueue)}]
  /\ syQueue' = Tail(syQueue)
  /\ UNCHANGED <<syBuf, syData, syPool, syReader, syHeld, syLog, syCtx, syEnd, syCount>>

\* The message is logged, parsed or raw, and its object put back.  A panic
\* is not recovered: it ends the process.
runParser(p) ==
  /\ Alive
  /\ \E m \in syBusy[p] :
       /\ syLog' = syLog \cup {[n |-> syData[m].n, how |-> parse(m)]}
       /\ syEnd' = IF parse(m) = "panic" THEN "panic" ELSE syEnd
       /\ syPool' = syPool \cup {m}
  /\ syBusy' = [syBusy EXCEPT ![p] = {}]
  /\ UNCHANGED <<syBuf, syData, syReader, syHeld, syQueue, syCtx, syCount>>

SyNext ==
  \/ Get \/ ReadFromUDP \/ SendMsg \/ CancelSyslog \/ StopReading \/ shutdown
  \/ \E p \in Parsers : Receive(p) \/ runParser(p)

SySpec == SyInit /\ [][SyNext]_syVars

-----------------------------------------------------------------------------

SyTypeOK ==
  /\ syPool \subseteq SyMessages /\ syHeld \subseteq SyMessages
  /\ syQueue \in Seq(SyMessages) /\ Len(syQueue) <= QueueCap
  /\ syBusy \in [Parsers -> SUBSET SyMessages]
  /\ syReader \in {"get", "read", "send", "stopping", "stopped"}
  /\ syCtx \in {"live", "cancelled"} /\ syEnd \in {"open", "closed", "panic"}

\* Every datagram that was handed to a parser is in the log when Done is
\* closed, even if the context ended while the channel was full, and under
\* one text only, though message objects are used again; only the one the
\* reader still held may be missing.
SyslogDrained ==
  syEnd = "closed" =>
    /\ {e.n : e \in syLog} \in {1..syCount, 1..(syCount - 1)}
    /\ \A e, f \in syLog : e.n = f.n => e = f

\* receiver.go says that a message object is never reused with stale state:
\* what is made of a datagram is decided by its own bytes.
NoStaleState == syEnd # "panic"
=============================================================================
