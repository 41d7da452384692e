----------------------------- MODULE CmdWrapper -----------------------------
(***************************************************************************)
(* client/cmd_wrapper.go and adapter/lxc/cmd_wrapper.go: the two versions   *)
(* of Run, which start a command, stream its output to the log with         *)
(* WriteStream (client/log.go), and wait.  The command may leave behind a   *)
(* grandchild that keeps the write end of the pipe.                         *)
(*                                                                          *)
(* Output is written in pieces, numbered in the order of writing; a piece   *)
(* either ends in a newline or does not.  From the pipe a piece goes to the *)
(* buffer of the line reader, across a channel into WriteStream's payload,  *)
(* and with it into the log.  In the basic version the pipe stands for the  *)
(* system's, the copying goroutine of os/exec and the io.Pipe behind it.    *)
(***************************************************************************)
EXTENDS Naturals, Sequences

CONSTANTS MaxPieces,      \* bound: pieces ever written
          FlushThreshold  \* byteFlushThreshold, in pieces

ASSUME CmdWrapperAssumption == /\ MaxPieces \in Nat
                               /\ FlushThreshold \in Nat \ {0}

VARIABLES wrapper,  \* whose Run this is: "basic" or "lxc"
          capture,  \* captureOutput
          pc,       \* where Run is
          timedOut, \* it has stopped waiting for WriteStream
          result,   \* what it has returned
          closing,  \* the goroutine that closes cmdwriter
          writer,   \* cmdwriter is open
          proc,     \* the command
          child,    \* a grandchild has the write end open
          out,      \* for each piece written, whether it ends in a newline
          pipe,     \* pieces nobody has read yet
          scan,     \* the goroutine of newLogLineReader
          rbuf,     \* pieces in its bufio.Reader
          offer,    \* the line it sends on "lines"
          stream,   \* where WriteStream is
          payload,  \* its payload
          logged,   \* pieces the log has taken
          logOpen   \* Log.Close has not been called

runVars  == <<pc, timedOut, result, closing, writer>>
procVars == <<proc, child, out>>
scanVars == <<scan, rbuf, offer>>
streamVars == <<stream, payload, logged>>
vars == <<wrapper, capture, runVars, procVars, pipe, scanVars, streamVars, logOpen>>

NoResult == [err |-> FALSE, success |-> FALSE, output |-> 0, returned |-> FALSE]

Init == /\ wrapper \in {"basic", "lxc"} /\ capture \in BOOLEAN
        /\ pc = "begin" /\ timedOut = FALSE /\ result = NoResult
        /\ closing = "off" /\ writer = FALSE
        /\ proc = "none" /\ child = FALSE /\ out = <<>> /\ pipe = <<>>
        /\ scan = "off" /\ rbuf = <<>> /\ offer = <<>>
        /\ stream = "off" /\ payload = <<>> /\ logged = <<>>
        /\ logOpen = TRUE

Exited == proc \in {"ok", "failed", "broken"}

-----------------------------------------------------------------------------
(* The command and its grandchild *)

ProcUnchanged == UNCHANGED <<wrapper, capture, runVars, scanVars, streamVars, logOpen>>

\* Either of them writes a piece.
WriteOutput ==
    /\ proc = "running" \/ child
    /\ Len(out) < MaxPieces
    /\ \E newline \in BOOLEAN : out' = Append(out, newline)
    /\ pipe' = Append(pipe, Len(out) + 1)
    /\ UNCHANGED <<proc, child>> /\ ProcUnchanged

Fork == /\ proc = "running" /\ ~child /\ child' = TRUE
        /\ UNCHANGED <<proc, out, pipe>> /\ ProcUnchanged

\* The command ends with status 0, with another one, or in a way that Wait
\* reports as an error of its own.
Exit == /\ proc = "running"
        /\ proc' \in {"ok", "failed"} \union (IF wrapper = "basic" THEN {"broken"} ELSE {})
        /\ UNCHANGED <<child, out, pipe>> /\ ProcUnchanged

\* The grandchild ends or closes its end.
Release == /\ child /\ child' = FALSE
           /\ UNCHANGED <<proc, out, pipe>> /\ ProcUnchanged

-----------------------------------------------------------------------------
(* The goroutine of newLogLineReader *)

ScanUnchanged == UNCHANGED <<wrapper, capture, runVars, procVars, streamVars, logOpen>>

Newlines == {i \in DOMAIN rbuf : out[rbuf[i]]}

\* All the reader will ever get has arrived: the io.Pipe is closed by Run
\* alone, the system's pipe by everybody who has its write end.
AtEOF == /\ pipe = <<>> /\ ~writer
         /\ wrapper = "lxc" => proc # "running" /\ ~child

\* A read from the pipe returns some of what is there.
Fill == /\ scan = "reading" /\ Newlines = {} /\ pipe # <<>>
        /\ \E n \in 1..Len(pipe) :
              /\ rbuf' = rbuf \o SubSeq(pipe, 1, n)
              /\ pipe' = SubSeq(pipe, n + 1, Len(pipe))
        /\ UNCHANGED <<scan, offer>> /\ ScanUnchanged

\* ReadBytes returns a line.
TakeLine == /\ scan = "reading"
            /\ \E n \in Newlines :
                  /\ \A m \in Newlines : n <= m
                  /\ offer' = SubSeq(rbuf, 1, n)
                  /\ rbuf' = SubSeq(rbuf, n + 1, Len(rbuf))
            /\ scan' = "line"
            /\ UNCHANGED pipe /\ ScanUnchanged

\* ReadBytes returns what is left with an error: EOF, or, from the system's
\* pipe, a failed read.
TakeRest == /\ scan = "reading" /\ Newlines = {}
            /\ \/ AtEOF /\ scan' = "eof"
               \/ wrapper = "lxc" /\ pipe # <<>> /\ scan' = "error"
            /\ offer' = rbuf /\ rbuf' = <<>>
            /\ UNCHANGED pipe /\ ScanUnchanged

-----------------------------------------------------------------------------
(* WriteStream *)

StreamUnchanged == UNCHANGED <<wrapper, capture, runVars, procVars, pipe, rbuf, logOpen>>

Finished == scan \in {"done", "failed"}

\* The channel "lines" is unbuffered: reader and WriteStream meet.  With the
\* last line, or with enough bytes, the payload goes to the log.
Deliver ==
    /\ stream = "collect" /\ scan \in {"line", "eof", "error"}
    /\ payload' = payload \o offer /\ offer' = <<>>
    /\ scan' = CASE scan = "line" -> "reading"
                 [] scan = "eof"  -> "done"
                 [] OTHER         -> "failed"
    /\ stream' = IF scan = "line" /\ Len(payload') < FlushThreshold
                 THEN "collect" ELSE "flush"
    /\ UNCHANGED logged /\ StreamUnchanged

\* Mutant: the payload is only sent when it is full.
Tick_Ignored ==
    /\ stream = "collect" /\ Len(payload) >= FlushThreshold
    /\ stream' = "flush"
    /\ UNCHANGED <<payload, logged, scan, offer>> /\ StreamUnchanged

\* timeFlushThreshold has passed; without a payload that changes nothing.
Tick == /\ stream = "collect" /\ payload # <<>>
        /\ stream' = "flush"
        /\ UNCHANGED <<payload, logged, scan, offer>> /\ StreamUnchanged

\* Mutant: a payload the size of the threshold is not sent.
Flush_OffByOne ==
    /\ stream = "flush"
    /\ logged' = IF Len(payload) # FlushThreshold THEN logged \o payload ELSE logged
    /\ payload' = <<>>
    /\ stream' = IF Finished THEN "done" ELSE "collect"
    /\ UNCHANGED <<scan, offer>> /\ StreamUnchanged

\* The log takes the payload, or is closed and refuses it; either way the next
\* one begins empty.
Flush == /\ stream = "flush"
         /\ \/ logged' = logged \o payload
            \/ ~logOpen /\ UNCHANGED logged
         /\ payload' = <<>>
         /\ stream' = IF Finished THEN "done" ELSE "collect"
         /\ UNCHANGED <<scan, offer>> /\ StreamUnchanged

\* The engine closes the log, at the end of the build or when it is aborted.
CloseLog == /\ logOpen /\ logOpen' = FALSE
            /\ UNCHANGED <<wrapper, capture, runVars, procVars, pipe, scanVars, streamVars>>

-----------------------------------------------------------------------------
(* Run.  A Printf in it ends: the log takes the line or is closed. *)

RunUnchanged == UNCHANGED <<wrapper, capture, out, child, pipe, rbuf, offer,
                            payload, logged, logOpen>>

Goto(from, to) == pc = from /\ pc' = to

Return(err, success, output) ==
    /\ pc' = "returned"
    /\ result' = [err |-> err, success |-> success, output |-> output, returned |-> TRUE]

\* StdinPipe or os.Pipe fails.
PipeFails == /\ pc = "begin" /\ Return(TRUE, FALSE, 0)
             /\ UNCHANGED <<timedOut, closing, writer, proc, scan, stream>> /\ RunUnchanged

\* The pipe is made; the LXC version starts WriteStream at once.
MakePipe == /\ Goto("begin", "start") /\ writer' = TRUE
            /\ IF wrapper = "lxc" THEN stream' = "collect" /\ scan' = "reading"
                                  ELSE UNCHANGED <<stream, scan>>
            /\ UNCHANGED <<timedOut, result, closing, proc>> /\ RunUnchanged

\* The command runs; the basic version starts WriteStream now.
Start == /\ Goto("start", "wait") /\ proc' = "running"
         /\ IF wrapper = "basic" THEN stream' = "collect" /\ scan' = "reading"
                                 ELSE UNCHANGED <<stream, scan>>
         /\ UNCHANGED <<timedOut, result, closing, writer>> /\ RunUnchanged

\* It cannot be started; only the LXC version closes the pipe.
StartFails == /\ pc = "start" /\ Return(TRUE, FALSE, 0)
              /\ writer' = (wrapper = "basic")
              /\ UNCHANGED <<timedOut, closing, proc, scan, stream>> /\ RunUnchanged

\* cmd.Wait also waits for the copying goroutine, that is, until everything is
\* read and nobody has the system's pipe open; RunCommandStatus waits for the
\* command alone.  The writer is then closed by a goroutine of its own.
Wait == /\ Goto("wait", "close") /\ Exited
        /\ wrapper = "basic" => ~child /\ pipe = <<>>
        /\ closing' = "close"
        /\ UNCHANGED <<timedOut, result, writer, proc, scan, stream>> /\ RunUnchanged

CloseWriter == /\ closing = "close" /\ closing' = "send" /\ writer' = FALSE
               /\ UNCHANGED <<pc, timedOut, result, proc, scan, stream>> /\ RunUnchanged

\* Run hears that the writer is closed, or stops waiting for that after ten
\* seconds; nobody takes the message of the goroutine then.
Closed == /\ Goto("close", "drain")
          /\ closing = "send" /\ closing' = "done"
          /\ UNCHANGED <<timedOut, result, writer, proc, scan, stream>> /\ RunUnchanged

CloseTimesOut ==
    /\ Goto("close", "drain")
    /\ UNCHANGED <<timedOut, result, closing, writer, proc, scan, stream>> /\ RunUnchanged

\* Mutant: Run does not wait for WriteStream.
Drained_NoWait ==
    /\ Goto("drain", "report") /\ stream \in {"collect", "flush", "done"}
    /\ UNCHANGED <<timedOut, result, closing, writer, proc, scan, stream>> /\ RunUnchanged

\* WriteStream is through.
Drained == /\ Goto("drain", "report") /\ stream = "done"
           /\ UNCHANGED <<timedOut, result, closing, writer, proc, scan, stream>> /\ RunUnchanged

\* Mutant: the LXC version waits for WriteStream without a limit, too.
DrainTimesOut_Never ==
    /\ Goto("drain", "report") /\ wrapper = "lxc" /\ stream = "done" /\ timedOut' = TRUE
    /\ UNCHANGED <<result, closing, writer, proc, scan, stream>> /\ RunUnchanged

\* The LXC version waits five seconds for it, no longer.
DrainTimesOut ==
    /\ Goto("drain", "report") /\ wrapper = "lxc" /\ timedOut' = TRUE
    /\ UNCHANGED <<result, closing, writer, proc, scan, stream>> /\ RunUnchanged

\* The tee has copied what was read.  While WriteStream still reads, Run and
\* it race for the buffer: Run gets any beginning of that.
Captured == LET read == Len(out) - Len(pipe) IN
            IF ~capture THEN {0} ELSE IF timedOut THEN 0..read ELSE {read}

Report == /\ pc = "report"
          /\ \E n \in Captured :
                IF proc = "broken" THEN Return(TRUE, FALSE, 0)
                                   ELSE Return(FALSE, proc = "ok", n)
          /\ UNCHANGED <<timedOut, closing, writer, proc, scan, stream>> /\ RunUnchanged

Terminated == pc = "returned" /\ UNCHANGED vars

RunStep == \/ PipeFails \/ MakePipe \/ Start \/ StartFails \/ Wait
           \/ Closed \/ CloseTimesOut \/ Drained \/ DrainTimesOut \/ Report

ScanStep == Fill \/ TakeLine \/ TakeRest

Next == \/ RunStep \/ CloseWriter \/ ScanStep \/ Deliver \/ Tick \/ Flush
        \/ WriteOutput \/ Fork \/ Exit \/ Release \/ CloseLog \/ Terminated

\* Goroutines run when they can, timers fire, and the log's consumer takes
\* what it is given; nothing is assumed of the command and its grandchild.
Fairness == /\ WF_vars(RunStep) /\ WF_vars(CloseWriter) /\ WF_vars(ScanStep)
            /\ WF_vars(Deliver) /\ WF_vars(Tick) /\ WF_vars(Flush)

Spec == Init /\ [][Next]_vars /\ Fairness

-----------------------------------------------------------------------------
RunTypes ==
    /\ wrapper \in {"basic", "lxc"} /\ capture \in BOOLEAN
    /\ pc \in {"begin", "start", "wait", "close", "drain", "report", "returned"}
    /\ timedOut \in BOOLEAN /\ writer \in BOOLEAN
    /\ result \in [err : BOOLEAN, success : BOOLEAN, output : Nat, returned : BOOLEAN]
    /\ closing \in {"off", "close", "send", "done"}
    /\ proc \in {"none", "running", "ok", "failed", "broken"} /\ child \in BOOLEAN

StreamTypes ==
    /\ out \in Seq(BOOLEAN) /\ Len(pipe) <= Len(out)
    /\ {pipe, rbuf, offer, payload, logged} \subseteq Seq(Nat)
    /\ scan \in {"off", "reading", "line", "eof", "error", "done", "failed"}
    /\ stream \in {"off", "collect", "flush", "done"}
    /\ logOpen \in BOOLEAN

\* The inductive invariant: where the two goroutines that carry the output are
\* with respect to one another and to the pipe.
StreamControl ==
    /\ scan \in {"off", "reading", "done", "failed"} => offer = <<>>
    /\ scan \in {"eof", "error", "done", "failed"} => rbuf = <<>>
    /\ Finished => stream \in {"flush", "done"}
    /\ stream = "done" => Finished /\ payload = <<>>
    /\ stream = "off" => scan = "off"
    /\ scan \in {"eof", "done"} => AtEOF

\* Where Run is with respect to them and to the command.
RunControl ==
    /\ pc = "begin" => scan = "off"
    /\ pc = "start" => writer /\ (wrapper = "basic" => scan = "off")
    /\ pc \in {"begin", "start"} => proc = "none"
    /\ proc = "none" => ~child
    /\ pc \in {"close", "drain", "report"} => closing # "off"
    /\ closing # "off" => /\ Exited /\ pc \in {"close", "drain", "report", "returned"}
                          /\ wrapper = "basic" => ~child /\ pipe = <<>>
    /\ wrapper = "basic" /\ scan # "off" /\ ~writer => closing # "off"
    /\ pc = "report" => timedOut \/ stream = "done"
    /\ result.returned => pc = "returned"

\* What was written, from the log back to the pipe.
Stream == logged \o payload \o offer \o rbuf \o pipe

\* The limits of size and time at which WriteStream cuts the output neither
\* lose, repeat nor reorder any of it: as long as the log is open, all that was
\* ever written is in the log, or on its way there, in order.
NothingLost == logOpen => Stream = [i \in 1..Len(out) |-> i]

\* A result of Run is whole: when Run has returned one, the log has all of the
\* output (unless it was closed), and so has the captured output, and the
\* result says how the command ended.  Exempt is the LXC version after it has
\* stopped waiting for the stream, or after the stream could not be read.
ResultIsWhole ==
    result.returned /\ ~result.err =>
        /\ result.success <=> proc = "ok"
        /\ ~timedOut /\ scan # "failed" =>
              /\ logOpen => Len(logged) = Len(out)
              /\ capture => result.output = Len(out)

\* What a result rests on, after it has been returned.
Returned ==
    result.returned /\ ~result.err =>
        /\ closing # "off" /\ (timedOut \/ stream = "done")
        /\ result.success <=> proc = "ok"
        /\ capture /\ ~timedOut /\ scan # "failed" => result.output = Len(out)

IInv == RunTypes /\ StreamTypes /\ StreamControl /\ RunControl /\ NothingLost /\ Returned

\* Run returns once the command has ended, the LXC version although a
\* grandchild keeps the pipe open, the basic one if none does.
RunReturns == (Exited /\ (wrapper = "lxc" \/ ~child)) ~> pc = "returned"

\* A line that is complete gets into the log, however little follows it.
LinesAreLogged ==
    \A i \in 1..MaxPieces :
        (i \in DOMAIN out /\ out[i])
            ~> (Len(logged) >= i \/ ~logOpen \/ scan = "failed")

\* The comment in Run: "Wait 10 seconds for the pipe to close. If it doesn't we
\* give up on actually closing as a child process might be causing things to
\* stick around".  Both versions would return once the command has ended.
GivesUpOnChild == Exited ~> pc = "returned"

=============================================================================
