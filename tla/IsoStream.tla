----------------------------- MODULE IsoStream -----------------------------
(***************************************************************************)
(* One request for Smee's ISO: the reverse proxy of smee/internal/iso/     *)
(* internal follows the redirects of the source, copies its body to the    *)
(* client and, in each piece it reads, overwrites the magic string with    *)
(* the machine's kernel parameters (Handler.Copy).  A second goroutine,    *)
(* started by a timer, flushes the headers (maxLatencyWriter).  The source *)
(* and the client can fail at any point.                                   *)
(***************************************************************************)
EXTENDS Naturals, Sequences, SequencesExt

CONSTANTS Image,          \* the bytes of the source image
          Magic,          \* the bytes of the magic string
          PatchSizes,     \* lengths of the kernel parameters
          BufSize,        \* 32 KiB in the code: the most that one read returns
          MaxRedirects    \* 10 in the code

ASSUME IsoAssumption ==
  /\ Image \in Seq(STRING) /\ Magic \in Seq(STRING) /\ Magic # <<>>
  /\ PatchSizes \subseteq Nat \ {0}
  /\ BufSize \in Nat \ {0} /\ MaxRedirects \in Nat

VARIABLES isoPhase,     \* "idle", "roundtrip", "copy", "done"
          isoRedirects, \* redirects followed
          isoSize,      \* length of the patch in the request's context
          isoRest,      \* bytes of the body not read yet
          isoOut,       \* bytes written to the client
          isoBody,      \* the response body of the source: "none", "open", "closed"
          isoEnd,       \* how the handler ended: "none", "refused", "badGateway",
                        \* "complete", or "aborted" (panic with ErrAbortHandler)
          isoLength,    \* the source announced the length of the body
          isoClient,    \* what the client sees: "open", "ended", "cut"
          isoFlush,     \* flushPending of the writer
          isoLate       \* a flush ran after the handler was done

isoVars == <<isoPhase, isoRedirects, isoSize, isoRest, isoOut, isoBody, isoEnd,
             isoLength, isoClient, isoFlush, isoLate>>

IsoInit ==
  /\ isoPhase = "idle" /\ isoRedirects = 0 /\ isoSize = 0
  /\ isoRest = <<>> /\ isoOut = <<>> /\ isoBody = "none" /\ isoEnd = "none"
  /\ isoLength = FALSE /\ isoClient = "open"
  /\ isoFlush = FALSE /\ isoLate = FALSE

\* The request passes the checks of the first round trip (SmeeFiles) and
\* carries its patch, or is answered with an error status and no body.
IsoAccept ==
  /\ isoPhase = "idle"
  /\ \E n \in PatchSizes : isoSize' = n
  /\ isoPhase' = "roundtrip"
  /\ UNCHANGED <<isoRedirects, isoRest, isoOut, isoBody, isoEnd, isoLength, isoClient,
                 isoFlush, isoLate>>

IsoRefuse ==
  /\ isoPhase = "idle"
  /\ isoPhase' = "done" /\ isoEnd' = "refused"
  /\ UNCHANGED <<isoRedirects, isoSize, isoRest, isoOut, isoBody, isoLength, isoClient,
                 isoFlush, isoLate>>

\* The source redirects: the body is closed and the next location asked,
\* with the same patch, until one redirect too many is an error.
IsoRedirect ==
  /\ isoPhase = "roundtrip"
  /\ isoRedirects' = isoRedirects + 1
  /\ isoBody' = "closed"
  /\ IF isoRedirects + 1 > MaxRedirects
     THEN isoPhase' = "done" /\ isoEnd' = "badGateway"
     ELSE UNCHANGED <<isoPhase, isoEnd>>
  /\ UNCHANGED <<isoSize, isoRest, isoOut, isoLength, isoClient, isoFlush, isoLate>>

\* The source cannot be reached: the error handler answers.
IsoSourceFails ==
  /\ isoPhase = "roundtrip"
  /\ isoPhase' = "done" /\ isoEnd' = "badGateway"
  /\ UNCHANGED <<isoRedirects, isoSize, isoRest, isoOut, isoBody, isoLength, isoClient,
                 isoFlush, isoLate>>

\* The source answers: headers are copied, the writer is set up with its
\* timer, which asks for a first flush.
IsoRespond ==
  /\ isoPhase = "roundtrip"
  /\ isoPhase' = "copy" /\ isoBody' = "open"
  /\ isoRest' = Image
  /\ isoLength' \in BOOLEAN
  /\ isoFlush' = TRUE
  /\ UNCHANGED <<isoRedirects, isoSize, isoOut, isoEnd, isoClient, isoLate>>

-----------------------------------------------------------------------------
(* Handler.Copy                                                            *)

\* The first place where Magic starts in s, or 0.
IndexOfMagic(s) ==
  LET at == {i \in 1..Len(s) : i + Len(Magic) - 1 <= Len(s)
                               /\ SubSeq(s, i, i + Len(Magic) - 1) = Magic}
  IN IF at = {} THEN 0 ELSE CHOOSE i \in at : \A j \in at : i <= j

\* A mutant of Patched: the patch goes behind the magic string.
PatchedBehind(s, size) ==
  LET k == IndexOfMagic(s)
  IN [i \in 1..Len(s) |->
        IF k # 0 /\ i \in (k + Len(Magic))..(k + Len(Magic) + size - 1)
        THEN "patch" ELSE s[i]]

\* One read with the patch laid over it: padding over the magic string,
\* then the patch, which is cut where the read ends.
Patched(s, size) ==
  LET k == IndexOfMagic(s)
  IN [i \in 1..Len(s) |->
        CASE k # 0 /\ i \in k..(k + size - 1) -> "patch"
          [] k # 0 /\ i \in k..(k + Len(Magic) - 1) /\ i > k + size - 1 -> " "
          [] OTHER -> s[i]]

\* A mutant of IsoFinish: the timer is not stopped.
IsoFinishFlushing(how) ==
  /\ isoPhase' = "done" /\ isoEnd' = how
  /\ isoBody' = "closed"
  /\ UNCHANGED isoFlush

\* stop(): no flush is wanted any more, and the body is closed.
IsoFinish(how) ==
  /\ isoPhase' = "done" /\ isoEnd' = how
  /\ isoBody' = "closed"
  /\ isoFlush' = FALSE

\* A piece is read and written; the write flushes at once.  After the last
\* piece the read reports the end, with the piece or by itself.
IsoCopy ==
  /\ isoPhase = "copy"
  /\ \E n \in 0..BufSize :
       /\ n <= Len(isoRest)
       /\ isoOut' = isoOut \o Patched(SubSeq(isoRest, 1, n), isoSize)
       /\ isoRest' = SubSeq(isoRest, n + 1, Len(isoRest))
       /\ \/ /\ n > 0
             /\ UNCHANGED <<isoPhase, isoEnd, isoBody, isoFlush>>
          \/ /\ n = Len(isoRest)
             /\ IsoFinish("complete")
  /\ UNCHANGED <<isoRedirects, isoSize, isoLength, isoClient, isoLate>>

\* The read fails, with or without a piece that is still written, or the
\* client that goes away takes only a part of it: the request is aborted.
IsoCopyFails ==
  /\ isoPhase = "copy"
  /\ \E n \in 0..BufSize : \E taken \in 0..n :
       /\ n <= Len(isoRest)
       /\ isoOut' = isoOut \o SubSeq(Patched(SubSeq(isoRest, 1, n), isoSize), 1, taken)
       /\ isoRest' = SubSeq(isoRest, n + 1, Len(isoRest))
       /\ isoClient' = IF taken < n THEN "cut" ELSE "open"
  /\ IsoFinish("aborted")
  /\ UNCHANGED <<isoRedirects, isoSize, isoLength, isoLate>>

\* The timer's goroutine: it flushes only what is still pending.
delayedFlush ==
  /\ isoPhase \in {"copy", "done"} /\ isoFlush
  /\ isoFlush' = FALSE
  /\ isoLate' = (isoPhase = "done")
  /\ UNCHANGED <<isoPhase, isoRedirects, isoSize, isoRest, isoOut, isoBody, isoEnd,
                 isoLength, isoClient>>

\* The handler returns to the server, or its panic reaches the Recovery
\* middleware, which swallows it: for the server both are the end of the
\* response.  It closes the connection where fewer bytes were written than
\* announced and ends the chunks of a body of unknown length.
IsoReturn ==
  /\ isoPhase = "done" /\ isoClient = "open"
  /\ isoClient' = IF isoEnd = "aborted" /\ isoLength /\ Len(isoOut) < Len(Image)
                  THEN "cut" ELSE "ended"
  /\ UNCHANGED <<isoPhase, isoRedirects, isoSize, isoRest, isoOut, isoBody, isoEnd,
                 isoLength, isoFlush, isoLate>>

IsoNext ==
  \/ IsoAccept \/ IsoRefuse \/ IsoRedirect \/ IsoSourceFails \/ IsoRespond
  \/ IsoCopy \/ IsoCopyFails \/ delayedFlush \/ IsoReturn

IsoSpec == IsoInit /\ [][IsoNext]_isoVars

-----------------------------------------------------------------------------

\* The bytes that a client can get.
IsoBytes == {Image[i] : i \in DOMAIN Image} \cup {"patch", " "}

IsoTypeOK ==
  /\ isoPhase \in {"idle", "roundtrip", "copy", "done"}
  /\ isoRedirects \in 0..(MaxRedirects + 1) /\ isoSize \in {0} \cup PatchSizes
  /\ isoRest \in Seq(IsoBytes) /\ isoOut \in Seq(IsoBytes)
  /\ isoBody \in {"none", "open", "closed"}
  /\ isoEnd \in {"none", "refused", "badGateway", "complete", "aborted"}
  /\ isoLength \in BOOLEAN /\ isoClient \in {"open", "ended", "cut"}
  /\ isoFlush \in BOOLEAN /\ isoLate \in BOOLEAN

InMagic(i) ==
  \E k \in 1..(Len(Image) - Len(Magic) + 1) :
    /\ i \in k..(k + Len(Magic) - 1)
    /\ SubSeq(Image, k, k + Len(Magic) - 1) = Magic

\* The image that a client holds after a request that ended normally has the
\* length of the source, and in whatever pieces it was read, every byte is
\* the source's except inside a magic string, as long as the parameters fit
\* into it.
IsoIntact ==
  /\ isoEnd = "complete" => Len(isoOut) = Len(Image)
  /\ isoSize <= Len(Magic) =>
       \A i \in 1..Len(isoOut) : isoOut[i] # Image[i] => InMagic(i)

\* However the handler ends, the body of the source is not left open, and
\* the timer's goroutine does not touch the response afterwards.
IsoReleased == (isoPhase = "done" => isoBody # "open") /\ ~isoLate

\* The reverse proxy aborts the request when the copy fails, so that no
\* client takes a part of the image for the whole one.
CutTransferSeen ==
  isoEnd = "aborted" /\ isoClient = "ended" => Len(isoOut) = Len(Image)

\* The client holds the patched image and the server holds nothing more.
IsoServed == IsoIntact /\ IsoReleased
=============================================================================
