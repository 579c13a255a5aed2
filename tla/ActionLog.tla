----------------------------- MODULE ActionLog -----------------------------
(***************************************************************************)
(* The log file of an Action's container (containerd/jsonlog.go): the      *)
(* copiers of stdout and stderr write pieces of any size, each stream's    *)
(* writer collects whole lines and appends a record per line to the one    *)
(* file through one encoder, Close flushes what is left.  An append can    *)
(* fail, and with it every later one: the encoder keeps its first error.   *)
(***************************************************************************)
EXTENDS Naturals, Sequences, SequencesExt

CONSTANTS Pieces,        \* pieces of output, sequences over {"x", "nl"}
          MaxOutput      \* pieces per stream

ASSUME LogAssumption == Pieces \subseteq Seq({"x", "nl"}) /\ MaxOutput \in Nat

VARIABLES logBuf,      \* the incomplete line of each stream
          logFile,     \* records [stream, line]
          logOpen,     \* the file is open
          logOutput,   \* what each stream's copier handed over
          logErr,      \* an append failed: the encoder's error
          logCopied,   \* the copiers that still run
          logCount     \* pieces handed over, of each stream

logVars == <<logBuf, logFile, logOpen, logOutput, logErr, logCopied, logCount>>

Streams == {"stdout", "stderr"}

LogInit ==
  /\ logBuf = [s \in Streams |-> <<>>] /\ logFile = <<>> /\ logOpen = TRUE
  /\ logOutput = [s \in Streams |-> <<>>] /\ logErr = FALSE
  /\ logCopied = Streams
  /\ logCount = [s \in Streams |-> 0]

NewlineAt(b) == {i \in DOMAIN b : b[i] = "nl"}

Ends(b) == SetToSortSeq(NewlineAt(b), <)

\* The whole lines of b, each with its newline, and what follows them.
LinesOf(b) ==
  [k \in DOMAIN Ends(b) |->
     SubSeq(b, IF k = 1 THEN 1 ELSE Ends(b)[k - 1] + 1, Ends(b)[k])]

RestOf(b) == IF Ends(b) = <<>> THEN b ELSE SubSeq(b, Last(Ends(b)) + 1, Len(b))

Records(s, lines) == [k \in DOMAIN lines |-> [stream |-> s, line |-> lines[k]]]

\* A record is appended while the file is open and no append has failed.
encodeLocked == logOpen /\ ~logErr

SwallowsError(s) ==
  /\ s \in logCopied /\ logCount[s] < MaxOutput
  /\ \E p \in Pieces :
       LET b == logBuf[s] \o p
           lines == LinesOf(b)
       IN /\ logOutput' = [logOutput EXCEPT ![s] = @ \o p]
          /\ logBuf' = [logBuf EXCEPT ![s] = RestOf(b)]
          /\ \/ logFile' = logFile \o Records(s, lines) /\ UNCHANGED logErr
             \/ /\ \E k \in DOMAIN lines : logFile' = logFile \o Records(s, RemoveAt(lines, k))
                /\ logErr' = TRUE
  /\ logCount' = [logCount EXCEPT ![s] = @ + 1]
  /\ UNCHANGED <<logOpen, logCopied>>

\* A piece arrives: its whole lines are appended, under the lock that both
\* writers share.  A line that cannot be appended is dropped and ends the
\* call with the error, and that ends the stream's copier; the lines behind
\* it stay in the buffer.  The copiers may outlive Close.
LogWrite(s) ==
  /\ s \in logCopied /\ logCount[s] < MaxOutput
  /\ \E p \in Pieces :
       LET b == logBuf[s] \o p
           lines == LinesOf(b)
       IN /\ logOutput' = [logOutput EXCEPT ![s] = @ \o p]
          /\ \/ /\ lines # <<>> => encodeLocked
                /\ logFile' = logFile \o Records(s, lines)
                /\ logBuf' = [logBuf EXCEPT ![s] = RestOf(b)]
                /\ UNCHANGED <<logErr, logCopied>>
             \/ /\ \E k \in DOMAIN lines :
                     /\ k > 1 => encodeLocked
                     /\ logFile' = logFile \o Records(s, SubSeq(lines, 1, k - 1))
                     /\ logBuf' = [logBuf EXCEPT ![s] =
                          FlattenSeq(SubSeq(lines, k + 1, Len(lines))) \o RestOf(b)]
                /\ logErr' = TRUE /\ logCopied' = logCopied \ {s}
  /\ logCount' = [logCount EXCEPT ![s] = @ + 1]
  /\ UNCHANGED logOpen

\* Close: what the buffers hold becomes a last record of each stream, unless
\* an append fails, and the file is closed whether or not that worked.
flush(s) == IF logBuf[s] = <<>> THEN <<>> ELSE Records(s, <<logBuf[s]>>)

LogClose ==
  /\ logOpen
  /\ LET all == logFile \o flush("stdout") \o flush("stderr")
     IN /\ logFile' \in {logFile} \cup
                        (IF encodeLocked THEN {logFile \o flush("stdout"), all} ELSE {})
        /\ logErr' = (logErr \/ logFile' # all)
  /\ logBuf' = [s \in Streams |-> <<>>]
  /\ logOpen' = FALSE
  /\ UNCHANGED <<logOutput, logCopied, logCount>>

LogNext == (\E s \in Streams : LogWrite(s)) \/ LogClose

LogSpec == LogInit /\ [][LogNext]_logVars

-----------------------------------------------------------------------------

Logged(s) ==
  FlattenSeq([k \in DOMAIN SelectSeq(logFile, LAMBDA r : r.stream = s) |->
                SelectSeq(logFile, LAMBDA r : r.stream = s)[k].line])

LogTypeOK ==
  /\ logBuf \in [Streams -> Seq({"x", "nl"})]
  /\ \A i \in DOMAIN logFile : logFile[i].stream \in Streams
  /\ logOpen \in BOOLEAN /\ logErr \in BOOLEAN /\ logCopied \subseteq Streams

\* However the output of the two streams is cut and interleaved, the file
\* and the buffers together hold each stream's output in order, every byte
\* once, as long as no append has failed.  Whenever one has, the file holds a
\* beginning of each stream: no byte is repeated, moved to the other stream,
\* or kept behind one that was lost.  Until Close every record is one whole
\* line.
LogFaithful ==
  \A s \in Streams :
    /\ ~logErr => Logged(s) \o logBuf[s] = logOutput[s]
    /\ IsPrefix(Logged(s), logOutput[s])
    /\ \A i \in 1..Len(logFile) :
         logOpen => NewlineAt(logFile[i].line) = {Len(logFile[i].line)}
=============================================================================
