------------------------------ MODULE LogPipe ------------------------------
(***************************************************************************)
(* One output of the function on its way to the watchdog's log: the pipe,  *)
(* and the goroutine that bindLoggingPipe starts to read lines from it     *)
(* (executor/logging.go).  A buffer of zero bytes or more is a             *)
(* bufio.Scanner of that size, a negative one a bufio.Reader without limit.*)
(*                                                                         *)
(* The function writes its lines byte by byte, exits when it likes, and    *)
(* cmd.Wait, which every mode calls in another goroutine, then closes the  *)
(* pipe under the reader.                                                  *)
(***************************************************************************)
EXTENDS Integers, Sequences

CONSTANTS
  Outputs,      \* what the function may write: sequences of line lengths
  BufferSizes,  \* the values of log_buffer_size to explore
  PipeCap       \* capacity of the pipe

ASSUME LogPipeAssumption ==
  /\ Outputs \subseteq Seq(Nat)
  /\ BufferSizes \subseteq Int
  /\ PipeCap \in Nat \ {0}

VARIABLES
  lines, maxBufferSize,  \* the output and the configuration; never changed
  wrote, got,            \* bytes written to the pipe and read from it
  out,                   \* the lengths of the lines logged
  reader,                \* the goroutine: "run", "tooLong" or "done"
  exited, closed         \* the function has exited; Wait has closed the pipe

vars == <<lines, maxBufferSize, wrote, got, out, reader, exited, closed>>

\* Ends(s)[k]: the bytes of the first k lines of s, newlines included.
Ends(s) ==
  LET end[k \in 0..Len(s)] == IF k = 0 THEN 0 ELSE end[k - 1] + s[k] + 1
  IN  end

LineEnd == Ends(lines)

Init ==
  /\ lines \in Outputs
  /\ maxBufferSize \in BufferSizes
  /\ wrote = 0 /\ got = 0
  /\ out = <<>>
  /\ reader = "run"
  /\ exited = FALSE /\ closed = FALSE

-----------------------------------------------------------------------------
(* The function and cmd.Wait. *)

Write ==
  /\ ~exited
  /\ wrote < LineEnd[Len(lines)] /\ wrote - got < PipeCap
  /\ wrote' = wrote + 1
  /\ UNCHANGED <<lines, maxBufferSize, got, out, reader, exited, closed>>

Exit ==
  /\ ~exited
  /\ exited' = TRUE
  /\ UNCHANGED <<lines, maxBufferSize, wrote, got, out, reader, closed>>

WaitCloses ==
  /\ exited /\ ~closed
  /\ closed' = TRUE
  /\ UNCHANGED <<lines, maxBufferSize, wrote, got, out, reader, exited>>

-----------------------------------------------------------------------------
(* The reader. *)

\* bindLoggingPipe: which of the two readers is started.
Buffered == maxBufferSize >= 0

\* The bytes read of the line at hand, and whether that line is complete.
Held == got - LineEnd[Len(out)]

HasLine == Len(out) < Len(lines) /\ LineEnd[Len(out) + 1] <= got

\* Mutant: one byte of the buffer is kept back.
RoomShort == IF Buffered THEN maxBufferSize - 1 - Held ELSE PipeCap

\* What one more read may take: the rest of the buffer, if there is a limit.
Room == IF Buffered THEN maxBufferSize - Held ELSE PipeCap

\* Mutant: only what fills the buffer is read.
FillsBuffer(n) == n = Room

Fits(n) == n \in 1..Room

Read ==
  /\ reader = "run" /\ ~HasLine /\ ~closed
  /\ \E n \in 1..(wrote - got) : Fits(n) /\ got' = got + n
  /\ UNCHANGED <<lines, maxBufferSize, wrote, out, reader, exited, closed>>

LogLine ==
  /\ reader = "run" /\ HasLine
  /\ out' = Append(out, lines[Len(out) + 1])
  /\ UNCHANGED <<lines, maxBufferSize, wrote, got, reader, exited, closed>>

\* bufio.ErrTooLong: a full buffer without a newline.  The pipe is left unread.
StopTooLong ==
  /\ reader = "run" /\ ~HasLine /\ Room <= 0
  /\ reader' = "tooLong"
  /\ UNCHANGED <<lines, maxBufferSize, wrote, got, out, exited, closed>>

\* Mutant: the last line is logged even if it is empty.
RestAlways == <<Held>>

\* What is logged of a last line without a newline: the scanner returns it,
\* ReadString returns it with an error and it is dropped.
Rest == IF Buffered /\ Held > 0 THEN <<Held>> ELSE <<>>

\* Mutant: an empty pipe is taken for its end.
AtEndWhenEmpty == wrote = got

\* The end of the pipe, or an error because Wait has closed it.
AtEnd == closed \/ (exited /\ wrote = got)

EndOfPipe ==
  /\ reader = "run" /\ ~HasLine /\ Room > 0
  /\ AtEnd
  /\ out' = out \o Rest
  /\ reader' = "done"
  /\ UNCHANGED <<lines, maxBufferSize, wrote, got, exited, closed>>

-----------------------------------------------------------------------------

Reader == Read \/ LogLine \/ StopTooLong \/ EndOfPipe
Next == Write \/ Exit \/ WaitCloses \/ Reader

\* The goroutine runs.  The function owes nothing.
Spec == Init /\ [][Next]_vars /\ WF_vars(Reader)

-----------------------------------------------------------------------------
(* Properties. *)

\* Every variable has its type, and the reader is never ahead of the function.
TypeOK ==
  /\ lines \in Outputs /\ maxBufferSize \in BufferSizes
  /\ wrote \in 0..LineEnd[Len(lines)] /\ got \in 0..wrote
  /\ wrote - got <= PipeCap
  /\ out \in Seq(Nat) /\ Len(out) <= Len(lines)
  /\ reader \in {"run", "tooLong", "done"}
  /\ exited \in BOOLEAN /\ closed \in BOOLEAN

\* The log is the function's lines, whole and in order; only the last may be cut,
\* and only because the function has exited.  In the end it has every line begun
\* before the exit, unless Wait closed the pipe first; of the reader without limit
\* an unterminated last line is missing.
LogIsFaithful ==
  /\ \A k \in 1..Len(out) :
       out[k] = lines[k] \/ (k = Len(out) /\ out[k] < lines[k] /\ exited /\ reader = "done")
  /\ reader = "done" /\ ~closed =>
       \A k \in 1..Len(lines) :
         LineEnd[k - 1] < wrote /\ (Buffered \/ LineEnd[k] <= wrote) => Len(out) >= k

\* Logging stops early at a line that does not fit the buffer together with its
\* newline, and at no other; without a limit it never does.  A buffer of zero bytes
\* stops it before anything is written.
StopsOnlyAtLongLine ==
  reader = "tooLong" =>
    /\ Buffered
    /\ \/ maxBufferSize = 0
       \/ Len(out) < Len(lines) /\ lines[Len(out) + 1] + 1 > maxBufferSize

\* The function never waits for ever on a full pipe, until a line is too long.
FunctionNotBlocked ==
  wrote - got = PipeCap ~> (wrote - got < PipeCap \/ reader = "tooLong" \/ closed)

=============================================================================
