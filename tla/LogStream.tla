----------------------------- MODULE LogStream -----------------------------
(***************************************************************************)
(* Manager.StreamLogs of internal/docker/manager.go: the log of a running  *)
(* container becomes the lines of the console.  A goroutine copies what    *)
(* Docker sends into a pipe; a scanner at the other end cuts the bytes at  *)
(* newlines, and the width of Docker's frame header is cut off each line.  *)
(*                                                                         *)
(* Containers have no TTY, so that Docker multiplexes: each line it has    *)
(* logged comes in a frame of its own, or in several when it is longer     *)
(* than FrameMax, and a frame begins with a header whose last byte tells   *)
(* its length.  Nothing in the code tells the bytes of a header from those *)
(* of a line.  Bytes are numbers; the widths and limits are scaled down.   *)
(***************************************************************************)
EXTENDS Naturals, SequencesExt

CONSTANTS
  Lines,     \* what the container may print: sequences of bytes
  NL, CR,    \* the newline byte (10) and the carriage return (13)
  Header,    \* the width of a frame header (8)
  FrameMax,  \* payload of a frame (16 KiB)
  TokenMax,  \* bufio.MaxScanTokenSize (64 KiB)
  TailLines,      \* lines of the past that are asked for (100)
  MaxLines   \* bound: lines the container prints

ASSUME LogStreamAssumption ==
  /\ {NL, CR, Header, FrameMax, TokenMax, TailLines, MaxLines} \subseteq Nat \ {0}
  /\ CR # NL /\ \A l \in Lines : l \in Seq(Nat \ {NL})

VARIABLES
  printed,   \* the lines the container printed
  first,     \* how many of them the stream leaves out; TailLines decides
  wire,      \* bytes Docker has for the stream and nobody has read
  state,     \* the container: "running" or "ended"
  cut,       \* the context of the server was cancelled
  copier,    \* "none", "copy", "closed"
  pipe,      \* bytes the copier is handing over
  reader,    \* "none", "scan", "done"
  buf,       \* the scanner's buffer
  out        \* the lines passed to outputFn

vars == <<printed, first, wire, state, cut, copier, pipe, reader, buf, out>>

Init ==
  /\ printed = <<>> /\ first = 0 /\ wire = <<>>
  /\ state = "running" /\ cut = FALSE
  /\ copier = "none" /\ pipe = <<>>
  /\ reader = "none" /\ buf = <<>> /\ out = <<>>

-----------------------------------------------------------------------------
(* Docker's side                                                           *)

Frame(payload) ==
  [i \in 1 .. Header |-> IF i = 1 /\ Header > 1 THEN 1
                         ELSE IF i = Header THEN Len(payload) ELSE 0]
  \o payload

\* A line that does not fit goes out in full frames without a newline first.
Framed(line) ==
  LET full == Len(line) \div FrameMax IN
  FlattenSeq([k \in 1 .. full |->
                Frame(SubSeq(line, (k - 1) * FrameMax + 1, k * FrameMax))])
  \o Frame(Append(SubSeq(line, full * FrameMax + 1, Len(line)), NL))

FramedAll(lines) == FlattenSeq([i \in DOMAIN lines |-> Framed(lines[i])])

PrintLine(line) ==
  /\ state = "running" /\ Len(printed) < MaxLines
  /\ printed' = Append(printed, line)
  /\ wire' = IF copier = "none" THEN wire ELSE wire \o Framed(line)
  /\ UNCHANGED <<first, state, cut, copier, pipe, reader, buf, out>>

End ==
  /\ state = "running" /\ state' = "ended"
  /\ UNCHANGED <<printed, first, wire, cut, copier, pipe, reader, buf, out>>

\* Manager.Remove of the server cancels the context of the stream.
Cancel ==
  /\ ~cut /\ cut' = TRUE
  /\ UNCHANGED <<printed, first, wire, state, copier, pipe, reader, buf, out>>

-----------------------------------------------------------------------------
(* StreamLogs                                                              *)

\* Mutant: the log is not followed.
Attach_NoFollow ==
  /\ reader = "none"
  /\ first' = IF Len(printed) > TailLines THEN Len(printed) - TailLines ELSE 0
  /\ pipe' = FramedAll(SubSeq(printed, first' + 1, Len(printed)))
  /\ copier' = "closed" /\ reader' = "scan"
  /\ UNCHANGED <<printed, wire, state, cut, buf, out>>

\* ContainerLogs with Follow and TailLines, then the goroutine and the scanner.
Attach ==
  /\ reader = "none"
  /\ \/ /\ ~cut
        /\ first' = IF Len(printed) > TailLines THEN Len(printed) - TailLines ELSE 0
        /\ wire' = FramedAll(SubSeq(printed, first' + 1, Len(printed)))
        /\ copier' = "copy" /\ reader' = "scan"
     \/ /\ cut
        /\ copier' = "closed" /\ reader' = "done"
        /\ UNCHANGED <<first, wire>>
  /\ UNCHANGED <<printed, state, cut, pipe, buf, out>>

\* io.Copy: a read of any length, then a write that lasts until the scanner
\* has taken all of it.
CopyRead ==
  /\ copier = "copy" /\ pipe = <<>> /\ wire # <<>>
  /\ \E n \in 1 .. Len(wire) :
       /\ pipe' = SubSeq(wire, 1, n)
       /\ wire' = SubSeq(wire, n + 1, Len(wire))
  /\ UNCHANGED <<printed, first, state, cut, copier, reader, buf, out>>

\* Mutant: the writing end is left open.
CopyEnd_Open ==
  /\ copier = "copy" /\ pipe = <<>>
  /\ cut \/ reader = "done" \/ (wire = <<>> /\ state = "ended")
  /\ UNCHANGED vars

\* The log is at its end, or its body cannot be read any more: the context is
\* cancelled, or StreamLogs has returned and closed it.
CopyEnd ==
  /\ copier = "copy" /\ pipe = <<>>
  /\ cut \/ reader = "done" \/ (wire = <<>> /\ state = "ended")
  /\ copier' = "closed"
  /\ UNCHANGED <<printed, first, wire, state, cut, pipe, reader, buf, out>>

Broken == \E i \in DOMAIN buf : buf[i] = NL

Scanning == reader = "scan" /\ ~Broken

\* Mutant: of a read longer than the room left the rest is lost.
ReadPipe_Rest ==
  /\ Scanning /\ Len(buf) < TokenMax /\ pipe # <<>>
  /\ LET room == TokenMax - Len(buf)
         n == IF Len(pipe) < room THEN Len(pipe) ELSE room
     IN /\ buf' = buf \o SubSeq(pipe, 1, n)
        /\ pipe' = <<>>
  /\ UNCHANGED <<printed, first, wire, state, cut, copier, reader, out>>

ReadPipe ==
  /\ Scanning /\ Len(buf) < TokenMax /\ pipe # <<>>
  /\ LET room == TokenMax - Len(buf)
         n == IF Len(pipe) < room THEN Len(pipe) ELSE room
     IN /\ buf' = buf \o SubSeq(pipe, 1, n)
        /\ pipe' = SubSeq(pipe, n + 1, Len(pipe))
  /\ UNCHANGED <<printed, first, wire, state, cut, copier, reader, out>>

\* bufio.ScanLines takes a carriage return off the end of a line.
DropCR(line) ==
  IF line # <<>> /\ line[Len(line)] = CR THEN SubSeq(line, 1, Len(line) - 1) ELSE line

\* "if len(line) > 8 { line = line[8:] }"
Strip(line) ==
  IF Len(line) > Header THEN SubSeq(line, Header + 1, Len(line)) ELSE line

ScanLine ==
  /\ reader = "scan" /\ Broken
  /\ LET i == SelectInSeq(buf, LAMBDA b : b = NL) IN
       /\ out' = Append(out, Strip(DropCR(SubSeq(buf, 1, i - 1))))
       /\ buf' = SubSeq(buf, i + 1, Len(buf))
  /\ UNCHANGED <<printed, first, wire, state, cut, copier, pipe, reader>>

\* At the end of the pipe what is left is a line, if anything is left.
ScanLast ==
  /\ Scanning /\ Len(buf) < TokenMax /\ pipe = <<>> /\ copier = "closed"
  /\ out' = IF buf = <<>> THEN out ELSE Append(out, Strip(DropCR(buf)))
  /\ buf' = <<>> /\ reader' = "done"
  /\ UNCHANGED <<printed, first, wire, state, cut, copier, pipe>>

\* bufio.ErrTooLong: the scanner gives up and StreamLogs returns; the reading
\* end of the pipe is not closed.
TooLong ==
  /\ Scanning /\ Len(buf) = TokenMax
  /\ reader' = "done"
  /\ UNCHANGED <<printed, first, wire, state, cut, copier, pipe, buf, out>>

Copier == CopyRead \/ CopyEnd

Reader == Attach \/ ReadPipe \/ ScanLine \/ ScanLast \/ TooLong

Next == (\E line \in Lines : PrintLine(line)) \/ End \/ Cancel \/ Copier \/ Reader

Spec == Init /\ [][Next]_vars

\* Both goroutines run; nothing makes the container print or end, or anybody
\* delete the server.
FairSpec == Spec /\ WF_vars(Copier) /\ WF_vars(Reader)

-----------------------------------------------------------------------------

\* The lines of a sequence of bytes: those that a newline ends, each without
\* the width of a header.
Taken(scan, b) ==
  IF b = NL THEN [lines |-> Append(scan.lines, Strip(DropCR(scan.open))), open |-> <<>>]
            ELSE [lines |-> scan.lines, open |-> Append(scan.open, b)]

NoBytes == [lines |-> <<>>, open |-> <<>>]

Scan(bytes) == FoldLeft(Taken, NoBytes, bytes)

Sent(n) == FramedAll(SubSeq(printed, first + 1, n))

\* What is passed on is made of all the bytes Docker sends, from the TailLines
\* on, in their order, none lost, doubled or put into another line, however
\* they are cut into reads and whatever the bytes are (manager.go:395-411).
\* Only the last line of a stream that is cancelled may be a piece.
LinesAsSent ==
  LET due == Scan(Sent(Len(printed))).lines IN
  \/ IsPrefix(out, due)
  \/ cut /\ out # <<>> /\ IsPrefix(Front(out), due)

\* The scanner gives up on as many bytes as its buffer holds and no newline.
Overlong ==
  \E i \in DOMAIN printed :
    LET bytes == Framed(printed[i]) IN
    \E a \in 0 .. Len(bytes) - TokenMax :
      \A j \in a + 1 .. a + TokenMax : bytes[j] # NL

\* All that becomes of a line that is printed arrives, as long as the stream is
\* not cancelled and no line is too long for the scanner; those the stream
\* began too late for are counted by `first' (manager.go:393).
LinesArrive ==
  \A n \in 1 .. MaxLines :
    Len(printed) >= n ~>
      \/ Len(printed) >= n /\ Len(out) >= Len(Scan(Sent(n)).lines)
      \/ cut \/ Overlong

\* When the container has ended or the server is deleted, StreamLogs returns
\* and its goroutine ends (manager.go:398-401), unless the scanner gave up on
\* a line that was too long.
StreamEnds ==
  (state = "ended" \/ cut) ~>
    (reader = "done" /\ (copier = "closed" \/ Overlong))

=============================================================================
