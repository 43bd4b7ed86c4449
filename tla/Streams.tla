------------------------------- MODULE Streams ------------------------------
(***************************************************************************)
(* The standard streams of the target (runtime/stdlib/src/stdio.cpp) over  *)
(* the console (include/console/stdio.cpp and, abstracted to one line of   *)
(* input and to what is painted, module Console).                          *)
(*                                                                         *)
(* Flushing the console first polls events, so handlers of the program run *)
(* inside every flush and every blocked read; they may do all but read     *)
(* (docs/IOSTREAM.md:48). A byte is its number in the order of typing.     *)
(***************************************************************************)
EXTENDS Integers, Sequences, SequencesExt

CONSTANTS BufferBytes,             \* 256: FILE's buffer
          Requests,                \* how many bytes the program asks for
          MaxTyped,                \* characters of a line, at most
          LineBound, StreamCallBound \* bounds: lines typed, calls of the program

ASSUME StreamsAssumption ==
  /\ BufferBytes \in Nat \ {0} /\ Requests \subseteq Nat \ {0}
  /\ MaxTyped \in Nat /\ LineBound \in Nat /\ StreamCallBound \in Nat

VARIABLES
  stdin,      \* eof, error, closed, pushed (no byte or one), buffer (what is left of it)
  files,      \* of stdout and stderr: closed, dirty, mode
  pending,    \* what is left of the adapter's line
  editing, completed, inputClosed, inputCancelled, \* the console's input
  line,       \* completed_text
  written, shown,       \* bytes the console was given, and has painted
  flushing, dispatching, \* in console::flush? in events::poll?
  request,    \* the reading call: bytes left to read, whether it ends at a newline
  waiting,    \* in read_line_result?
  toFlush,    \* the calls of fflush to come, the first one running
  ending,     \* "no", "finalizers", "last flush", "done"
  lines, made, \* counters: lines typed, calls made
  typed, got   \* history: bytes of the lines the adapter took; read and not put back

inputVars == <<editing, completed, inputClosed, inputCancelled, line>>
paintVars == <<written, shown, flushing, dispatching>>
streamVars == <<stdin, files, pending, inputVars, paintVars, request, waiting, toFlush, ending, lines, made, typed, got>>

Newline == 0
Idle == [left |-> 0, stop |-> FALSE]
Modes == {"full", "line", "none"}
Output == {"stdout", "stderr"}

StreamsInit ==
  /\ stdin = [eof |-> FALSE, error |-> FALSE, closed |-> FALSE, pushed |-> <<>>, buffer |-> <<>>]
  /\ files = [f \in Output |-> [closed |-> FALSE, dirty |-> FALSE, mode |-> IF f = "stderr" THEN "none" ELSE "full"]]
  /\ pending = <<>>
  /\ editing = FALSE /\ completed = FALSE /\ inputClosed = FALSE /\ inputCancelled = FALSE /\ line = <<>>
  /\ written = 0 /\ shown = 0 /\ flushing = FALSE /\ dispatching = FALSE
  /\ request = Idle /\ waiting = FALSE /\ toFlush = <<>> /\ ending = "no"
  /\ lines = 0 /\ made = 0 /\ typed = <<>> /\ got = <<>>

\* The program's own code runs: main, a finalizer of exit, or a handler.
InMain == ~dispatching /\ ~flushing /\ request = Idle /\ toFlush = <<>> /\ ending \in {"no", "finalizers"}
InHandler == dispatching /\ ending # "done"
Calls == /\ InMain \/ InHandler
         /\ made < StreamCallBound
         /\ made' = made + 1 /\ UNCHANGED lines

-----------------------------------------------------------------------------
\* fgetc, from the first of its sources that has a byte.
TakePushed == [stdin EXCEPT !.pushed = <<>>]
TakeBuffered == [stdin EXCEPT !.buffer = Tail(@)]

\* The reading call goes on with this byte, or ends.
Reads(c) ==
  /\ got' = Append(got, c)
  /\ request' = IF request.left = 1 \/ (request.stop /\ c = Newline) THEN Idle ELSE [request EXCEPT !.left = @ - 1]
ReadsNothing == request' = Idle /\ UNCHANGED got

Buffered == /\ stdin.buffer # <<>>
            /\ stdin' = TakeBuffered
            /\ Reads(Head(stdin.buffer))
            /\ UNCHANGED <<pending, waiting, inputVars>>

\* Mutant: what does not fit into FILE's buffer is given up.
RefillWhole ==
  /\ stdin.buffer = <<>> /\ pending # <<>>
  /\ LET n == IF BufferBytes < Len(pending) THEN BufferBytes ELSE Len(pending) IN
     stdin' = [stdin EXCEPT !.buffer = SubSeq(pending, 1, n)] /\ pending' = <<>>
  /\ UNCHANGED <<request, waiting, inputVars, got>>

\* __scrpp_io_read with a line to give: the rest of it stays with the adapter.
Refill ==
  /\ stdin.buffer = <<>> /\ pending # <<>>
  /\ LET n == IF BufferBytes < Len(pending) THEN BufferBytes ELSE Len(pending) IN
     /\ stdin' = [stdin EXCEPT !.buffer = SubSeq(pending, 1, n)]
     /\ pending' = SubSeq(pending, n + 1, Len(pending))
  /\ UNCHANGED <<request, waiting, inputVars, got>>

\* read_line_result, before it waits.
AskLine ==
  /\ stdin.buffer = <<>> /\ pending = <<>>
  /\ \/ /\ inputClosed
        /\ stdin' = [stdin EXCEPT !.eof = TRUE]
        /\ ReadsNothing
        /\ UNCHANGED <<waiting, inputVars>>
     \/ /\ ~inputClosed /\ (editing \/ completed)
        /\ stdin' = [stdin EXCEPT !.error = TRUE]
        /\ ReadsNothing
        /\ UNCHANGED <<waiting, inputVars>>
     \/ /\ ~inputClosed /\ ~editing /\ ~completed
        /\ editing' = TRUE /\ inputCancelled' = FALSE /\ waiting' = TRUE
        /\ UNCHANGED <<stdin, request, got, completed, inputClosed, line>>
  /\ UNCHANGED pending

ReadByte ==
  /\ request # Idle /\ ~waiting /\ ~flushing /\ ~dispatching
  /\ \/ stdin.closed /\ stdin' = [stdin EXCEPT !.error = TRUE] /\ ReadsNothing /\ UNCHANGED <<pending, waiting, inputVars>>
     \/ /\ ~stdin.closed /\ stdin.pushed # <<>>
        /\ stdin' = TakePushed /\ Reads(stdin.pushed[1])
        /\ UNCHANGED <<pending, waiting, inputVars>>
     \/ /\ ~stdin.closed /\ stdin.pushed = <<>> /\ stdin.eof
        /\ ReadsNothing
        /\ UNCHANGED <<stdin, pending, waiting, inputVars>>
     \/ ~stdin.closed /\ stdin.pushed = <<>> /\ ~stdin.eof /\ (Buffered \/ Refill \/ AskLine)
  /\ UNCHANGED <<files, paintVars, toFlush, ending, lines, made, typed>>

\* fgetc, fread and fgets.
Read ==
  /\ InMain /\ Calls
  /\ \E n \in Requests, stop \in BOOLEAN : request' = [left |-> n, stop |-> stop]
  /\ UNCHANGED <<stdin, files, pending, inputVars, paintVars, waiting, toFlush, ending, typed, got>>

\* read_line_result after its loop.
LineArrives ==
  /\ waiting /\ ~editing /\ ~flushing
  /\ waiting' = FALSE
  /\ completed' = FALSE
  /\ \/ /\ completed
        /\ pending' = Append(line, Newline)
        /\ typed' = typed \o Append(line, Newline)
        /\ line' = <<>>
        /\ UNCHANGED <<stdin, request, inputCancelled, got>>
     \/ /\ ~completed
        /\ stdin' = IF inputClosed THEN [stdin EXCEPT !.eof = TRUE] ELSE [stdin EXCEPT !.error = TRUE]
        /\ inputCancelled' = (inputCancelled /\ inputClosed)
        /\ ReadsNothing
        /\ UNCHANGED <<pending, typed, line>>
  /\ UNCHANGED <<files, editing, inputClosed, paintVars, toFlush, ending, lines, made>>

\* ungetc of the byte that was read last.
Ungetc ==
  /\ InMain /\ Calls /\ ~stdin.closed /\ stdin.pushed = <<>> /\ got # <<>>
  /\ stdin' = [stdin EXCEPT !.eof = FALSE, !.pushed = <<Last(got)>>]
  /\ got' = Front(got)
  /\ UNCHANGED <<files, pending, inputVars, paintVars, request, waiting, toFlush, ending, typed>>

Clearerr ==
  /\ Calls
  /\ stdin' = [stdin EXCEPT !.eof = FALSE, !.error = FALSE]
  /\ UNCHANGED <<files, pending, inputVars, paintVars, request, waiting, toFlush, ending, typed, got>>

-----------------------------------------------------------------------------
Fflush(f) == <<[file |-> f, then |-> "-"]>>
FflushAll == Fflush("stdout") \o Fflush("stderr")

\* console::flush is called for a stream that was written to.
NeedsFlush(f) == ~files[f].closed /\ files[f].dirty

After(file, then) ==
  [file EXCEPT !.dirty = FALSE, !.closed = @ \/ then = "close", !.mode = IF then \in Modes THEN then ELSE @]

\* In a handler fflush is over at once: console::flush paints what there is, and
\* nothing if it was called in a flush already.
FlushedInHandler(fs, total) ==
  shown' = IF ~flushing /\ \E f \in fs : NeedsFlush(f) THEN total ELSE shown

\* fflush, fclose and setvbuf.
FlushCall ==
  /\ Calls
  /\ \E f \in Output, then \in {"-", "close"} \cup Modes :
       /\ ~files[f].closed
       /\ IF dispatching
          THEN /\ files' = [files EXCEPT ![f] = After(@, then)]
               /\ FlushedInHandler({f}, written)
               /\ UNCHANGED toFlush
          ELSE /\ toFlush' = <<[file |-> f, then |-> then]>>
               /\ UNCHANGED <<files, shown>>
  /\ UNCHANGED <<stdin, pending, inputVars, written, flushing, dispatching, request, waiting, ending, typed, got>>

CloseStdin ==
  /\ Calls /\ ~stdin.closed
  /\ stdin' = [stdin EXCEPT !.closed = TRUE]
  /\ UNCHANGED <<files, pending, inputVars, paintVars, request, waiting, toFlush, ending, typed, got>>

\* Mutant: a stream that is not fully buffered counts as flushed already.
MarkedByMode(f) == [files EXCEPT ![f].dirty = @ \/ files[f].mode = "full"]

Marked(f) == [files EXCEPT ![f].dirty = TRUE]

Cancelled == /\ editing' = FALSE
             /\ inputCancelled' = (inputCancelled \/ editing)
             /\ UNCHANGED <<completed, inputClosed, line>>

\* fwrite of one byte; an unbuffered stream, or a line that is over, is flushed.
Fwrite ==
  /\ Calls
  /\ \E f \in Output, c \in {Newline, 1} :
       /\ ~files[f].closed
       /\ written' = written + 1
       /\ LET flush == files[f].mode = "none" \/ (files[f].mode = "line" /\ c = Newline) IN
          IF dispatching
          THEN /\ files' = [Marked(f) EXCEPT ![f].dirty = ~flush]
               /\ shown' = IF flush /\ ~flushing THEN written' ELSE shown
               /\ UNCHANGED toFlush
          ELSE /\ files' = Marked(f)
               /\ toFlush' = IF flush THEN Fflush(f) ELSE <<>>
               /\ UNCHANGED shown
  /\ Cancelled
  /\ UNCHANGED <<stdin, pending, flushing, dispatching, request, waiting, ending, typed, got>>

-----------------------------------------------------------------------------
\* Flushing and polling from main.
FlushBegins ==
  /\ ~flushing /\ ~dispatching
  /\ \/ toFlush # <<>> /\ NeedsFlush(toFlush[1].file)
     \/ waiting /\ editing
  /\ flushing' = TRUE /\ dispatching' = TRUE
  /\ UNCHANGED <<stdin, files, pending, inputVars, written, shown, request, waiting, toFlush, ending, lines, made, typed, got>>

FlushSkipped ==
  /\ toFlush # <<>> /\ ~flushing /\ ~dispatching /\ ~NeedsFlush(toFlush[1].file)
  /\ files' = [files EXCEPT ![toFlush[1].file] = After(@, toFlush[1].then)]
  /\ toFlush' = Tail(toFlush)
  /\ UNCHANGED <<stdin, pending, inputVars, paintVars, request, waiting, ending, lines, made, typed, got>>

\* events::poll, called by the program's own loop.
Poll ==
  /\ InMain /\ Calls
  /\ dispatching' = TRUE
  /\ UNCHANGED <<stdin, files, pending, inputVars, written, shown, flushing, request, waiting, toFlush, ending, typed, got>>

HandlersReturn ==
  /\ dispatching
  /\ dispatching' = FALSE
  /\ UNCHANGED <<stdin, files, pending, inputVars, written, shown, flushing, request, waiting, toFlush, ending, lines, made, typed, got>>

Paint ==
  /\ flushing /\ ~dispatching
  /\ shown' = written
  /\ flushing' = FALSE
  /\ IF waiting THEN UNCHANGED <<files, toFlush>>
     ELSE /\ files' = [files EXCEPT ![toFlush[1].file] = After(@, toFlush[1].then)]
          /\ toFlush' = Tail(toFlush)
  /\ UNCHANGED <<stdin, pending, inputVars, written, dispatching, request, waiting, ending, lines, made, typed, got>>

\* exit, or main's return: finalizers run, then both streams are flushed.
ExitCalled ==
  /\ InMain /\ ending = "no"
  /\ ending' = "finalizers"
  /\ UNCHANGED <<stdin, files, pending, inputVars, paintVars, request, waiting, toFlush, lines, made, typed, got>>

LastFlush ==
  /\ InMain /\ ending = "finalizers"
  /\ ending' = "last flush" /\ toFlush' = FflushAll
  /\ UNCHANGED <<stdin, files, pending, inputVars, paintVars, request, waiting, lines, made, typed, got>>

Stop ==
  /\ ending = "last flush" /\ toFlush = <<>>
  /\ ending' = "done"
  /\ UNCHANGED <<stdin, files, pending, inputVars, paintVars, request, waiting, toFlush, lines, made, typed, got>>

\* exit called by a handler; finalizers do what the handler may do.
ExitInHandler ==
  /\ dispatching
  /\ ending' = "done"
  /\ FlushedInHandler(Output, written)
  /\ files' = [f \in Output |-> IF NeedsFlush(f) THEN After(files[f], "-") ELSE files[f]]
  /\ UNCHANGED <<stdin, pending, inputVars, written, flushing, dispatching, request, waiting, toFlush, lines, made, typed, got>>

-----------------------------------------------------------------------------
\* The console's own functions, and the Enter key.
BeginInput ==
  /\ InMain /\ Calls
  /\ ~inputClosed /\ ~editing /\ ~completed
  /\ editing' = TRUE /\ inputCancelled' = FALSE
  /\ UNCHANGED <<completed, inputClosed, line>>

TryRead ==
  /\ Calls
  /\ completed' = FALSE
  /\ line' = IF completed THEN <<>> ELSE line
  /\ inputCancelled' = (inputCancelled /\ (completed \/ inputClosed))
  /\ UNCHANGED <<editing, inputClosed>>

CancelInput == Calls /\ editing /\ Cancelled

CloseInput ==
  /\ Calls
  /\ editing' = FALSE /\ inputCancelled' = FALSE /\ inputClosed' = TRUE
  /\ UNCHANGED <<completed, line>>

ReopenInput ==
  /\ Calls
  /\ inputClosed' = FALSE /\ inputCancelled' = FALSE
  /\ UNCHANGED <<editing, completed, line>>

Enter ==
  /\ dispatching /\ editing /\ lines < LineBound
  /\ editing' = FALSE /\ completed' = TRUE
  /\ \E n \in 0 .. MaxTyped : line' = [i \in 1 .. n |-> lines * MaxTyped + i]
  /\ lines' = lines + 1
  /\ UNCHANGED <<inputClosed, inputCancelled, made>>

Console == /\ BeginInput \/ TryRead \/ CancelInput \/ CloseInput \/ ReopenInput \/ Enter
           /\ UNCHANGED <<stdin, files, pending, paintVars, request, waiting, toFlush, ending, typed, got>>

StreamsNext ==
  /\ ending # "done"
  /\ \/ ReadByte \/ Read \/ LineArrives \/ Ungetc \/ Clearerr \/ FlushCall \/ CloseStdin \/ Fwrite
     \/ FlushBegins \/ FlushSkipped \/ Poll \/ HandlersReturn \/ Paint
     \/ ExitCalled \/ LastFlush \/ Stop \/ ExitInHandler \/ Console

StreamsSpec == StreamsInit /\ [][StreamsNext]_streamVars

-----------------------------------------------------------------------------
StreamsTypeOK ==
  /\ stdin.pushed \in {<<>>} \cup {<<c>> : c \in ToSet(typed)} /\ Len(stdin.buffer) <= BufferBytes
  /\ DOMAIN files = Output /\ \A f \in Output : files[f].mode \in Modes
  /\ shown \in 0 .. written /\ (request = Idle \/ \E n \in Requests : request.left \in 1 .. n)
  /\ ending \in {"no", "finalizers", "last flush", "done"}

\* Bytes reach the program in the order they were typed, none lost or doubled
\* on the way through the console's line, the adapter's rest of it, FILE's
\* buffer and ungetc, whatever handlers do while a read waits; and the end of
\* the input is reported only when all of it has been read ("bytes already in
\* the FILE buffer are read first", docs/IOSTREAM.md).
InputFaithful ==
  /\ StreamsTypeOK
  /\ got \o stdin.pushed \o stdin.buffer \o pending = typed
  /\ stdin.eof => stdin.pushed = <<>> /\ stdin.buffer = <<>> /\ pending = <<>>

\* Outside a flush, streams that need none have been shown, whichever streams
\* the handlers of the flushes wrote to; and so has everything when the program
\* ends ("a normal return and exit() flush", docs/IOSTREAM.md), unless it ends
\* inside a flush.
OutputShown ==
  ~flushing /\ (ending = "done" \/ \A f \in Output : ~files[f].dirty) => shown = written

\* Whatever ends by exit has shown all it wrote (docs/IOSTREAM.md:29).
ExitFlushes == ending = "done" => shown = written
=============================================================================
