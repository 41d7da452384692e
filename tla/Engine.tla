------------------------------- MODULE Engine -------------------------------
(***************************************************************************)
(* One run of the client: client.go (main, run), engine/engine.go           *)
(* (RunBuildPlan, Run, runBuildPlan, executeCommands, reportLogChunks),     *)
(* engine/upstream_monitor.go, with the reporter's queue as its users see   *)
(* it (DefaultReporter has its steps) and the console log as the            *)
(* rendezvous it is (client/log.go).  Goroutines: the main one, the one     *)
(* that executes the commands, the one that forwards the console log, the   *)
(* reporter's transport, the upstream monitor and the interrupt handler.    *)
(*                                                                          *)
(* The adapter, the server and the user's commands are the environment:     *)
(* every adapter call may succeed or fail, and a command may run forever.   *)
(***************************************************************************)
EXTENDS Naturals, Sequences

CONSTANTS Configs,     \* configurations considered
          MaxCmds,     \* the most commands any of them has
          MaxPending,  \* max_pending_reports
          MaxLines     \* bound: console lines written while one command runs

CmdTypes == {"default", "infra_setup"}

\* What flags and the fetched job step configuration decide.
ConfigType ==
    [cmds        : Seq(CmdTypes),  \* the commands, in order
     forceInfra  : BOOLEAN,        \* forceInfraFailure is true or malformed
     monitor     : BOOLEAN,        \* UpstreamMonitor
     snapshot    : BOOLEAN,        \* save-snapshot is not empty
     pushChunks  : BOOLEAN,        \* not mesosDontPushLogChunks
     exitResult  : BOOLEAN,        \* exit-result
     interrupts  : Nat]            \* bound: signals the user sends

ASSUME EngineAssumption == /\ Configs \subseteq ConfigType
                           /\ MaxCmds \in Nat
                           /\ \A c \in Configs : Len(c.cmds) <= MaxCmds
                           /\ MaxPending \in Nat
                           /\ MaxLines \in Nat

VARIABLES
    config,
    process,    \* "running", "exited" (os.Exit or main returns) or "panicked"
    exitCode,
    main,       \* where the main goroutine is
    result,     \* the Result main has so far
    err,        \* the error main has so far is not nil
    snapshot,   \* "none", then "active" or "failed", then "pushed"
    exec,       \* where the goroutine of executeCommands is
    current,    \* index of its command
    outcome,    \* what adapter.Run returned: "pass", "fail" or "error"
    lines,      \* console lines the current command has written
    delivery,   \* what executeCommands returned: [result, err]
    console,    \* reportLogChunks: "off", "recv", "push" or "done"
    logClosed,  \* clientLog is closed
    monitor,    \* WaitUntilAbort: "off", "polling" or "returned"
    upstream,   \* the job step at the server: "running", "aborted", "finished"
    interrupts, \* signals sent so far
    sigchan,    \* signals buffered in sigchan: 0 or 1
    handler,    \* its reader: "off", "ready" or "shuttingDown"
    cancelled,  \* the context is cancelled
    adapter,    \* "created", "inited", "prepared" or "shutdown"
    accepted, retired, closed, stopped   \* the report queue

queueVars == <<accepted, retired, closed, stopped>>
procVars  == <<config, process, exitCode>>
mainVars  == <<main, result, err, snapshot>>
execVars  == <<exec, current, outcome, lines, delivery>>
logVars   == <<console, logClosed>>
stopVars  == <<monitor, upstream, interrupts, sigchan, handler, cancelled>>
vars == <<procVars, mainVars, execVars, logVars, stopVars, adapter, queueVars>>

Results == {"none", "passed", "failed", "aborted", "infra_failed"}

(* Reports: what the methods of reporter/mesos put into PublishChannel. *)
JobstepStatus(status, res) == [kind |-> "job", id |-> 0, status |-> status, value |-> res]
CommandStatus(i, status, code) == [kind |-> "cmd", id |-> i, status |-> status, value |-> code]
LogChunk == [kind |-> "chunk", id |-> 0, status |-> "none", value |-> "none"]
Metrics  == [kind |-> "metrics", id |-> 0, status |-> "none", value |-> "none"]

ReturnCodes == {"none", "0", "1", "255"}
Statuses == {"in_progress", "finished"}

Report == {JobstepStatus(s, r) : s \in Statuses, r \in Results}
          \union {CommandStatus(i, s, c) : i \in 1..MaxCmds, s \in Statuses, c \in ReturnCodes}
          \union {LogChunk, Metrics}

NoDelivery == [result |-> "none", err |-> FALSE]

Init == /\ config \in Configs
        /\ process = "running" /\ exitCode = 0
        /\ main = "config" /\ result = "none" /\ err = FALSE /\ snapshot = "none"
        /\ exec = "off" /\ current = 1 /\ outcome = "none" /\ lines = 0
        /\ delivery = NoDelivery
        /\ console = "off" /\ logClosed = FALSE
        /\ monitor = "off" /\ upstream = "running"
        /\ interrupts = 0 /\ sigchan = 0 /\ handler = "off" /\ cancelled = FALSE
        /\ adapter = "created"
        /\ accepted = <<>> /\ retired = 0 /\ closed = FALSE /\ stopped = FALSE

-----------------------------------------------------------------------------
(* The report queue, from outside. *)

Outstanding == Len(accepted) - retired

\* Mutant: the channel holds one report more than it should.
Push_OneMore(r) == /\ ~closed /\ Outstanding <= MaxPending + 1
                   /\ accepted' = Append(accepted, r)
                   /\ UNCHANGED <<retired, closed, stopped>>

\* PublishChannel <- r, when there is room.
Push(r) == /\ ~closed /\ Outstanding <= MaxPending
           /\ accepted' = Append(accepted, r)
           /\ UNCHANGED <<retired, closed, stopped>>

\* transportSend settles the oldest report.
Transport ==
    /\ process = "running" /\ retired < Len(accepted)
    /\ retired' = retired + 1
    /\ UNCHANGED <<procVars, mainVars, execVars, logVars, stopVars, adapter,
                   accepted, closed, stopped>>

\* transportSend leaves its range loop and offers the shutdown signal.
TransportStops ==
    /\ process = "running" /\ closed /\ ~stopped /\ retired = Len(accepted)
    /\ stopped' = TRUE
    /\ UNCHANGED <<procVars, mainVars, execVars, logVars, stopVars, adapter,
                   accepted, retired, closed>>

-----------------------------------------------------------------------------
(* The console log. *)

\* Log.write: hands the payload to the console goroutine, or fails once the
\* log is closed; when both are possible select takes either.
LogWrite == \/ /\ console = "recv"
               /\ console' = "push"
               /\ UNCHANGED logClosed
            \/ /\ logClosed
               /\ UNCHANGED logVars

\* reportLogChunks pushes the chunk; the reporter may be told to ignore it.
ConsolePush ==
    /\ process = "running" /\ console = "push"
    /\ IF config.pushChunks THEN Push(LogChunk) ELSE UNCHANGED queueVars
    /\ console' = "recv"
    /\ UNCHANGED <<procVars, mainVars, execVars, logClosed, stopVars, adapter>>

\* GetChunk reports the closed log.
ConsoleDone ==
    /\ process = "running" /\ console = "recv" /\ logClosed
    /\ console' = "done"
    /\ UNCHANGED <<procVars, mainVars, execVars, logClosed, stopVars, adapter, queueVars>>

-----------------------------------------------------------------------------
(* The goroutine of executeCommands. *)

ExecAt(pc) == process = "running" /\ exec = pc

ExecGoes(pc) == exec' = pc /\ UNCHANGED <<current, outcome, lines, delivery>>

Deliver(r, e) == /\ exec' = "deliver"
                 /\ delivery' = [result |-> r, err |-> e]
                 /\ UNCHANGED <<current, outcome, lines>>

ExecUnchanged == UNCHANGED <<procVars, mainVars, stopVars, adapter>>

\* Head of the loop over the commands.
NextCommand ==
    /\ ExecAt("next") /\ ExecUnchanged /\ UNCHANGED queueVars
    /\ IF current > Len(config.cmds)
       THEN Deliver("passed", FALSE) /\ UNCHANGED logVars
       ELSE ExecGoes("create") /\ LogWrite

\* NewCommand; after a failure cmd is nil and cmd.ID dereferences it.
CreateCommand ==
    /\ ExecAt("create") /\ ExecGoes("begin")
    /\ UNCHANGED <<procVars, mainVars, stopVars, adapter, logVars, queueVars>>

CreateCommandFails ==
    /\ ExecAt("create")
    /\ process' = "panicked"
    /\ exitCode' = 2
    /\ UNCHANGED <<config, mainVars, execVars, logVars, stopVars, adapter, queueVars>>

\* PushCommandStatus(in_progress)
BeginCommand ==
    /\ ExecAt("begin") /\ ExecUnchanged
    /\ Push(CommandStatus(current, "in_progress", "none"))
    /\ exec' = "run" /\ lines' = 0
    /\ UNCHANGED <<current, outcome, delivery, logVars>>

\* adapter.Run copies what the command prints to the console log.
CommandPrints ==
    /\ ExecAt("run") /\ lines < MaxLines /\ ExecUnchanged /\ UNCHANGED queueVars
    /\ LogWrite
    /\ lines' = lines + 1
    /\ UNCHANGED <<exec, current, outcome, delivery>>

\* adapter.Run returns.
CommandEnds ==
    /\ ExecAt("run") /\ ExecUnchanged
    /\ outcome' \in {"pass", "fail", "error"}
    /\ exec' = "ended"
    /\ UNCHANGED <<current, lines, delivery, logVars, queueVars>>

ReturnCode == CASE outcome = "pass"  -> "0"
                [] outcome = "fail"  -> "1"
                [] outcome = "error" -> "255"

\* PushCommandStatus(finished), or PushCommandOutput, which carries the same.
EndCommand ==
    /\ ExecAt("ended") /\ ExecUnchanged /\ UNCHANGED logVars
    /\ Push(CommandStatus(current, "finished", ReturnCode))
    /\ CASE outcome = "error" -> ExecGoes("logError")
         [] outcome = "fail" /\ config.cmds[current] = "infra_setup" ->
                Deliver("infra_failed", TRUE)
         [] OTHER -> ExecGoes("publish")

\* A command's error, or a publishing one, is logged before it is returned.
LogError ==
    /\ ExecAt("logError") /\ ExecUnchanged /\ UNCHANGED queueVars
    /\ LogWrite
    /\ Deliver("infra_failed", TRUE)

\* Mutant: the loop goes on after a failing command.
PublishArtifacts_GoesOn ==
    /\ ExecAt("publish") /\ ExecUnchanged /\ UNCHANGED <<logVars, queueVars>>
    /\ \/ ExecGoes("logError")
       \/ /\ exec' = "next" /\ current' = current + 1
          /\ UNCHANGED <<outcome, lines, delivery>>

\* reporter.PublishArtifacts
PublishArtifacts ==
    /\ ExecAt("publish") /\ ExecUnchanged /\ UNCHANGED <<logVars, queueVars>>
    /\ \/ ExecGoes("logError")
       \/ outcome = "fail" /\ Deliver("failed", FALSE)
       \/ /\ outcome = "pass"
          /\ exec' = "next" /\ current' = current + 1
          /\ UNCHANGED <<outcome, lines, delivery>>

\* A goroutine is about to send on PublishChannel, or blocked in the send.
Sending == \/ exec \in {"begin", "ended"}
           \/ console = "push" /\ config.pushChunks

\* A send on the closed channel panics.
SendAfterShutdown ==
    /\ process = "running" /\ closed /\ Sending
    /\ process' = "panicked"
    /\ exitCode' = 2
    /\ UNCHANGED <<config, mainVars, execVars, logVars, stopVars, adapter, queueVars>>

ExecStep == \/ NextCommand \/ CreateCommand \/ CreateCommandFails \/ BeginCommand
            \/ EndCommand \/ LogError \/ PublishArtifacts \/ SendAfterShutdown

-----------------------------------------------------------------------------
(* Cancellation: upstream monitor and interrupts. *)

\* The server ends the job step on its side, for whatever reason.
UpstreamEnds ==
    /\ process = "running" /\ config.monitor /\ upstream = "running"
    /\ upstream' \in {"aborted", "finished"}
    /\ UNCHANGED <<procVars, mainVars, execVars, logVars, adapter, queueVars,
                   monitor, interrupts, sigchan, handler, cancelled>>

\* Mutant: the monitor returns without cancelling the context.
Heartbeat_NoCancel ==
    /\ process = "running" /\ monitor = "polling" /\ upstream # "running"
    /\ monitor' = "returned"
    /\ UNCHANGED <<procVars, mainVars, execVars, logVars, adapter, queueVars,
                   upstream, interrupts, sigchan, handler, cancelled>>

\* A heartbeat that learns the job step is finished ends WaitUntilAbort, and
\* its caller cancels the context whatever it returned.  Other heartbeats,
\* failed ones included, change nothing.
Heartbeat ==
    /\ process = "running" /\ monitor = "polling" /\ upstream # "running"
    /\ monitor' = "returned"
    /\ cancelled' = TRUE
    /\ UNCHANGED <<procVars, mainVars, execVars, logVars, adapter, queueVars,
                   upstream, interrupts, sigchan, handler>>

\* os.Interrupt, once signal.Notify has been called; a full channel drops it.
Interrupt ==
    /\ process = "running" /\ handler # "off" /\ interrupts < config.interrupts
    /\ interrupts' = interrupts + 1
    /\ sigchan' = 1
    /\ UNCHANGED <<procVars, mainVars, execVars, logVars, adapter, queueVars,
                   monitor, upstream, handler, cancelled>>

FirstInterrupt ==
    /\ process = "running" /\ sigchan = 1 /\ handler = "ready"
    /\ sigchan' = 0 /\ handler' = "shuttingDown" /\ cancelled' = TRUE
    /\ UNCHANGED <<procVars, mainVars, execVars, logVars, adapter, queueVars,
                   monitor, upstream, interrupts>>

SecondInterrupt ==
    /\ process = "running" /\ sigchan = 1 /\ handler = "shuttingDown"
    /\ process' = "exited" /\ exitCode' = 1
    /\ UNCHANGED <<config, mainVars, execVars, logVars, stopVars, adapter, queueVars>>

-----------------------------------------------------------------------------
(* The main goroutine, in program order. *)

MainAt(pc) == process = "running" /\ main = pc

MainGoes(pc) == main' = pc /\ UNCHANGED <<result, err, snapshot>>

MainReturns(r, e, pc) == /\ main' = pc /\ result' = r /\ err' = e
                         /\ UNCHANGED snapshot

\* client.GetConfig and reporter.Create: without them nothing is started.
GetConfigFails ==
    /\ MainAt("config") /\ MainReturns("infra_failed", TRUE, "exit")
    /\ UNCHANGED <<procVars, execVars, logVars, stopVars, adapter, queueVars>>

GetConfig ==
    /\ MainAt("config") /\ MainGoes("createAdapter")
    /\ UNCHANGED <<procVars, execVars, logVars, stopVars, adapter, queueVars>>

\* adapter.Create; its failure still shuts the reporter down.
CreateAdapter ==
    /\ MainAt("createAdapter")
    /\ UNCHANGED <<procVars, execVars, stopVars, adapter, queueVars, logClosed>>
    /\ \/ MainReturns("infra_failed", TRUE, "closeQueue") /\ UNCHANGED console
       \/ MainGoes("hello") /\ console' = "recv"

LogHello ==
    /\ MainAt("hello") /\ LogWrite /\ MainGoes("pushInProgress")
    /\ UNCHANGED <<procVars, execVars, stopVars, adapter, queueVars>>

PushInProgress ==
    /\ MainAt("pushInProgress") /\ MainGoes("plan")
    /\ Push(JobstepStatus("in_progress", "none"))
    /\ UNCHANGED <<procVars, execVars, logVars, stopVars, adapter>>

\* The debugging switch, then the interrupt handler and the monitor.
StartPlan ==
    /\ MainAt("plan")
    /\ UNCHANGED <<procVars, execVars, logVars, adapter, queueVars,
                   upstream, interrupts, sigchan, cancelled>>
    /\ IF config.forceInfra
       THEN MainReturns("infra_failed", TRUE, "logFinished") /\ UNCHANGED <<handler, monitor>>
       ELSE /\ MainGoes("init")
            /\ handler' = "ready"
            /\ monitor' = IF config.monitor THEN "polling" ELSE "off"

AdapterInit ==
    /\ MainAt("init")
    /\ \/ MainGoes("prepare") /\ adapter' = "inited"
       \/ MainReturns("infra_failed", TRUE, "logNotReady") /\ UNCHANGED adapter
    /\ UNCHANGED <<procVars, execVars, logVars, stopVars, queueVars>>

\* Only a Prepare that succeeded is followed by Shutdown.
AdapterPrepare ==
    /\ MainAt("prepare")
    /\ \/ MainGoes("prepareMetrics") /\ adapter' = "prepared"
       \/ MainReturns("infra_failed", TRUE, "logNotReady") /\ UNCHANGED adapter
    /\ UNCHANGED <<procVars, execVars, logVars, stopVars, queueVars>>

LogNotReady ==
    /\ MainAt("logNotReady") /\ LogWrite /\ MainGoes("logFinished")
    /\ UNCHANGED <<procVars, execVars, stopVars, adapter, queueVars>>

\* ReportMetrics sends nothing when there are none.
ReportMetrics(pc, next) ==
    /\ MainAt(pc) /\ MainGoes(next)
    /\ Push(Metrics) \/ UNCHANGED queueVars
    /\ UNCHANGED <<procVars, execVars, logVars, stopVars, adapter>>

SpawnExec ==
    /\ MainAt("spawn") /\ MainGoes("select")
    /\ exec' = "next"
    /\ UNCHANGED <<current, outcome, lines, delivery,
                   procVars, logVars, stopVars, adapter, queueVars>>

\* finished is unbuffered: the result is delivered to a waiting select only.
SelectFinished ==
    /\ MainAt("select") /\ exec = "deliver"
    /\ exec' = "done"
    /\ MainReturns(delivery.result, delivery.err,
                   IF delivery.result = "passed" /\ config.snapshot
                   THEN "snapshot" ELSE "adapterShutdown")
    /\ UNCHANGED <<current, outcome, lines, delivery,
                   procVars, logVars, stopVars, adapter, queueVars>>

\* Mutant: an abort is recorded as a failure.
SelectCancelled_AsFailure ==
    /\ MainAt("select") /\ cancelled
    /\ MainReturns("failed", FALSE, "logAborted")
    /\ UNCHANGED <<procVars, execVars, logVars, stopVars, adapter, queueVars>>

SelectCancelled ==
    /\ MainAt("select") /\ cancelled
    /\ MainReturns("aborted", FALSE, "logAborted")
    /\ UNCHANGED <<procVars, execVars, logVars, stopVars, adapter, queueVars>>

\* Mutant: an aborted build returns past the adapter's Shutdown.
LogAborted_NoShutdown ==
    /\ MainAt("logAborted") /\ LogWrite /\ MainGoes("logFinished")
    /\ UNCHANGED <<procVars, execVars, stopVars, adapter, queueVars>>

LogAborted ==
    /\ MainAt("logAborted") /\ LogWrite /\ MainGoes("adapterShutdown")
    /\ UNCHANGED <<procVars, execVars, stopVars, adapter, queueVars>>

CaptureSnapshot ==
    /\ MainAt("snapshot")
    /\ main' = "pushSnapshot" /\ snapshot' \in {"active", "failed"}
    /\ UNCHANGED <<result, err>>
    /\ UNCHANGED <<procVars, execVars, logVars, stopVars, adapter, queueVars>>

\* Mutant: only the capture's own error is returned.
PushSnapshotImageStatus_IgnoresPush ==
    /\ MainAt("pushSnapshot") /\ main' = "adapterShutdown"
    /\ \E pushed \in BOOLEAN :
          /\ snapshot' = IF pushed THEN snapshot ELSE "failed"
          /\ IF snapshot = "active"
             THEN UNCHANGED <<result, err>>
             ELSE result' = "infra_failed" /\ err' = TRUE
    /\ UNCHANGED <<procVars, execVars, logVars, stopVars, adapter, queueVars>>

\* The status is posted synchronously; either error makes the build fail.
PushSnapshotImageStatus ==
    /\ MainAt("pushSnapshot") /\ main' = "adapterShutdown"
    /\ \E pushed \in BOOLEAN :
          /\ snapshot' = IF pushed THEN snapshot ELSE "failed"
          /\ IF snapshot = "active" /\ pushed
             THEN UNCHANGED <<result, err>>
             ELSE result' = "infra_failed" /\ err' = TRUE
    /\ UNCHANGED <<procVars, execVars, logVars, stopVars, adapter, queueVars>>

\* The deferred call; an error of Shutdown is only logged.
AdapterShutdown ==
    /\ MainAt("adapterShutdown") /\ MainGoes("shutdownMetrics")
    /\ adapter' = "shutdown"
    /\ UNCHANGED <<procVars, execVars, logVars, stopVars, queueVars>>

LogFinished ==
    /\ MainAt("logFinished") /\ LogWrite /\ MainGoes("pushFinished")
    /\ UNCHANGED <<procVars, execVars, stopVars, adapter, queueVars>>

PushFinished ==
    /\ MainAt("pushFinished") /\ MainGoes("closeLog")
    /\ Push(JobstepStatus("finished", result))
    /\ UNCHANGED <<procVars, execVars, logVars, stopVars, adapter>>

\* Mutant: the log is never closed.
CloseLog_Forgotten ==
    /\ MainAt("closeLog") /\ MainGoes("waitConsole")
    /\ UNCHANGED <<procVars, execVars, logVars, stopVars, adapter, queueVars>>

CloseLog ==
    /\ MainAt("closeLog") /\ MainGoes("waitConsole")
    /\ logClosed' = TRUE
    /\ UNCHANGED <<procVars, execVars, console, stopVars, adapter, queueVars>>

\* Mutant: main does not wait for the console goroutine.
WaitConsole_Skipped ==
    /\ MainAt("waitConsole") /\ MainGoes("closeQueue")
    /\ UNCHANGED <<procVars, execVars, logVars, stopVars, adapter, queueVars>>

WaitConsole ==
    /\ MainAt("waitConsole") /\ console = "done" /\ MainGoes("closeQueue")
    /\ UNCHANGED <<procVars, execVars, logVars, stopVars, adapter, queueVars>>

\* reporter.Shutdown closes the channel and waits for the transport.
CloseQueue ==
    /\ MainAt("closeQueue") /\ MainGoes("drain")
    /\ closed' = TRUE
    /\ UNCHANGED <<procVars, execVars, logVars, stopVars, adapter,
                   accepted, retired, stopped>>

\* Mutant: Shutdown does not wait for the transport.
Drain_Skipped ==
    /\ MainAt("drain") /\ MainGoes("exit")
    /\ UNCHANGED <<procVars, execVars, logVars, stopVars, adapter, queueVars>>

Drain ==
    /\ MainAt("drain") /\ stopped /\ MainGoes("exit")
    /\ UNCHANGED <<procVars, execVars, logVars, stopVars, adapter, queueVars>>

\* run: any error counts as an infrastructure failure.
RunResult == IF err THEN "infra_failed" ELSE result

\* Mutant: infrastructure failures are not told apart.
ExitCodeOf_NoInfra(r) == CASE ~config.exitResult -> 0
                           [] r = "passed"       -> 0
                           [] OTHER              -> 1

ExitCodeOf(r) == CASE ~config.exitResult   -> 0
                   [] r = "passed"         -> 0
                   [] r = "infra_failed"   -> 99
                   [] OTHER                -> 1

Exit ==
    /\ MainAt("exit") /\ MainGoes("gone")
    /\ process' = "exited" /\ exitCode' = ExitCodeOf(RunResult)
    /\ UNCHANGED <<config, execVars, logVars, stopVars, adapter, queueVars>>

MainStep ==
    \/ GetConfigFails \/ GetConfig \/ CreateAdapter \/ LogHello \/ PushInProgress
    \/ StartPlan \/ AdapterInit \/ AdapterPrepare \/ LogNotReady
    \/ ReportMetrics("prepareMetrics", "spawn") \/ SpawnExec
    \/ SelectFinished \/ SelectCancelled \/ LogAborted
    \/ CaptureSnapshot \/ PushSnapshotImageStatus \/ AdapterShutdown
    \/ ReportMetrics("shutdownMetrics", "logFinished")
    \/ LogFinished \/ PushFinished \/ CloseLog \/ WaitConsole
    \/ CloseQueue \/ Drain \/ Exit

Ended == process # "running"

\* The process is gone.
Terminated == Ended /\ UNCHANGED vars

Next == \/ MainStep
        \/ ExecStep \/ CommandPrints \/ CommandEnds
        \/ ConsolePush \/ ConsoleDone
        \/ Transport \/ TransportStops
        \/ UpstreamEnds \/ Heartbeat
        \/ Interrupt \/ FirstInterrupt \/ SecondInterrupt
        \/ Terminated

\* Every goroutine that can go on does, calls of the adapter and posts return and
\* some heartbeat gets through; nobody interrupts, no command ends and
\* the server does not end the job step unless they choose to.
Fairness == /\ WF_vars(MainStep)
            /\ WF_vars(ExecStep)
            /\ WF_vars(ConsolePush) /\ WF_vars(ConsoleDone)
            /\ WF_vars(Transport) /\ WF_vars(TransportStops)
            /\ WF_vars(Heartbeat)
            /\ WF_vars(FirstInterrupt)

Spec == Init /\ [][Next]_vars /\ Fairness

-----------------------------------------------------------------------------
MainPoints == {"config", "createAdapter", "hello", "pushInProgress", "plan",
               "init", "prepare", "logNotReady", "prepareMetrics", "spawn",
               "select", "logAborted", "snapshot", "pushSnapshot",
               "adapterShutdown", "shutdownMetrics", "logFinished",
               "pushFinished", "closeLog", "waitConsole", "closeQueue",
               "drain", "exit", "gone"}
ExecPoints == {"off", "next", "create", "begin", "run", "ended", "logError",
               "publish", "deliver", "done"}

ProcTypes == /\ config \in Configs
             /\ process \in {"running", "exited", "panicked"}
             /\ exitCode \in {0, 1, 2, 99}

MainTypes == /\ main \in MainPoints /\ result \in Results /\ err \in BOOLEAN
             /\ snapshot \in {"none", "active", "failed"}

\* A command is being dealt with, and adapter.Run has returned for it.
InCommand == exec \in {"create", "begin", "run", "ended", "logError", "publish"}
AfterRun == exec \in {"ended", "logError", "publish"}

ExecTypes == /\ exec \in ExecPoints
             /\ current \in 1..Len(config.cmds) + 1
             /\ InCommand => current <= Len(config.cmds)
             /\ outcome \in {"none", "pass", "fail", "error"}
             /\ AfterRun => outcome # "none"
             /\ lines \in 0..MaxLines
             /\ delivery \in [result : Results, err : BOOLEAN]

LogTypes == console \in {"off", "recv", "push", "done"} /\ logClosed \in BOOLEAN

StopTypes == /\ monitor \in {"off", "polling", "returned"}
             /\ upstream \in {"running", "aborted", "finished"}
             /\ interrupts \in Nat /\ sigchan \in 0..1
             /\ handler \in {"off", "ready", "shuttingDown"}
             /\ cancelled \in BOOLEAN
             /\ adapter \in {"created", "inited", "prepared", "shutdown"}

\* The capacity of the queue: never more than MaxPending reports in the
\* channel and one with the transport.
QueueTypes == /\ accepted \in Seq(Report)
              /\ retired \in 0..Len(accepted)
              /\ Outstanding <= MaxPending + 1
              /\ closed \in BOOLEAN /\ stopped \in BOOLEAN

\* Types, the index of the current command and the capacity of the queue.
TypeOK == ProcTypes /\ MainTypes /\ ExecTypes /\ LogTypes /\ StopTypes /\ QueueTypes

\* What the server is told about commands is a proper history: a command is
\* reported in progress once, after the one before it finished with code 0, and
\* finished at most once, after it was in progress.
CommandProtocol ==
    \A k \in DOMAIN accepted :
        LET r == accepted[k]
            Before(x) == \E j \in 1..(k - 1) : accepted[j] = x
        IN  r.kind = "cmd" =>
              /\ \A j \in 1..(k - 1) :
                    accepted[j].kind = "cmd" /\ accepted[j].id = r.id
                        => r.status = "finished" /\ accepted[j].status = "in_progress"
              /\ r.status = "finished" =>
                    Before(CommandStatus(r.id, "in_progress", "none"))
              /\ r.status = "in_progress" /\ r.id > 1 =>
                    Before(CommandStatus(r.id - 1, "finished", "0"))

\* A build is reported as passed only after every command was reported finished
\* with code 0 and, when a snapshot is asked for, after it was captured and the
\* server was told so.
PassedIsDeserved ==
    \A k \in DOMAIN accepted :
        accepted[k] = JobstepStatus("finished", "passed") =>
            /\ \A i \in 1..Len(config.cmds) :
                  \E j \in 1..(k - 1) : accepted[j] = CommandStatus(i, "finished", "0")
            /\ config.snapshot => snapshot = "active"

\* The job step's own reports frame the others: it is in progress before
\* anything else but console output is reported, and after it is finished only
\* console output follows, and, when the build was aborted, reports of the
\* goroutine that was left behind.
JobstepFrames ==
    \A j, k \in DOMAIN accepted : j < k =>
        /\ accepted[k] = JobstepStatus("in_progress", "none") => accepted[j] = LogChunk
        /\ accepted[j].kind = "job" /\ accepted[j].status = "finished" =>
              \/ accepted[k] = LogChunk
              \/ accepted[k].kind = "cmd" /\ accepted[j].value = "aborted"

\* Commands run in an adapter that is prepared, or, once the build is aborted,
\* in one that is being shut down; and a run that ends by itself never leaves a
\* prepared adapter behind.
AdapterProtocol ==
    /\ exec = "run" => \/ adapter = "prepared"
                       \/ adapter = "shutdown" /\ result = "aborted"
    /\ main = "gone" => adapter # "prepared"

\* The exit code agrees with what the server was told.
ExitCodeTellsResult ==
    main = "gone" /\ config.exitResult =>
        LET Told(r) == \E k \in DOMAIN accepted : accepted[k] = JobstepStatus("finished", r)
        IN  /\ exitCode = 0 => Told("passed")
            /\ exitCode = 1 => Told("failed") \/ Told("aborted")
            /\ exitCode = 99 => \/ Told("infra_failed")
                                \/ \A k \in DOMAIN accepted : accepted[k].kind # "job"

\* A run that ends by itself has settled every report and pushed every chunk
\* of the console log it took.
ExitIsDrained ==
    main = "gone" =>
        retired = Len(accepted) /\ console \in {"off", "done"}

\* The process panics only where a command's script cannot be created, or
\* after an abort, in the goroutine that the abort left behind.
PanicOnlyWhenAbandoned ==
    process = "panicked" => exec = "create" \/ (closed /\ result = "aborted")

\* Where the goroutines are with respect to one another: the invariant from
\* which the two properties above and AdapterProtocol follow.
BeforeExec == {"config", "createAdapter", "hello", "pushInProgress", "plan",
               "init", "prepare", "logNotReady", "prepareMetrics", "spawn"}
WithAdapter == {"prepareMetrics", "spawn", "select", "logAborted", "snapshot",
                "pushSnapshot", "adapterShutdown"}
Reporting == {"logFinished", "pushFinished", "closeLog", "waitConsole",
              "closeQueue", "drain", "exit", "gone"}

ExecControl ==
    /\ main \in BeforeExec => exec = "off"
    /\ exec \notin {"off", "done"} => main = "select" \/ result = "aborted"
    /\ result = "aborted" => main \in {"logAborted", "adapterShutdown", "shutdownMetrics"}
                                      \union Reporting

AdapterControl ==
    /\ main \in WithAdapter <=> adapter = "prepared"
    /\ main = "shutdownMetrics" => adapter = "shutdown"
    /\ exec # "off" => adapter \in {"prepared", "shutdown"}

CloseControl ==
    /\ closed => main \in {"drain", "exit", "gone"}
    /\ main \in {"closeQueue", "drain", "exit", "gone"} => console \in {"off", "done"}

NothingYet == accepted = <<>> /\ retired = 0 /\ exec = "off" /\ console = "off"

DrainControl ==
    /\ main \in {"config", "createAdapter"} => NothingYet
    /\ stopped => closed /\ retired = Len(accepted)
    /\ main \in {"exit", "gone"} => stopped \/ NothingYet

Control == ExecControl /\ AdapterControl /\ CloseControl /\ DrainControl

\* What has been reported, with respect to where the goroutines are: the
\* invariant for the four properties about the history of reports.
Reported(r) == \E k \in 1..Len(accepted) : accepted[k] = r

AfterFinish == {"closeLog", "waitConsole", "closeQueue", "drain", "exit", "gone"}

\* Reports of commands follow the loop over the commands.
CommandHistory ==
    /\ \A k \in 1..Len(accepted) : accepted[k].kind = "cmd" =>
          /\ accepted[k].id <= current
          /\ accepted[k].id = current =>
                /\ exec \notin {"off", "next", "create", "begin"}
                /\ exec \in {"run", "ended"} => accepted[k].status = "in_progress"
    /\ \A i \in 1..(current - 1) : Reported(CommandStatus(i, "finished", "0"))
    /\ exec \in {"run", "ended"} => Reported(CommandStatus(current, "in_progress", "none"))
    /\ exec = "publish" /\ outcome = "pass" => Reported(CommandStatus(current, "finished", "0"))

\* Results come from where they are decided.
ResultHistory ==
    /\ err <=> result = "infra_failed"
    /\ delivery.err <=> delivery.result = "infra_failed"
    /\ exec = "deliver" => delivery.result # "none"
    /\ delivery.result = "passed" => exec \in {"deliver", "done"} /\ current > Len(config.cmds)
    /\ result = "passed" => exec = "done" /\ delivery.result = "passed"
    /\ main \notin (BeforeExec \ {"logNotReady"}) \union {"select"} => result # "none"
    /\ result = "passed" /\ config.snapshot =>
          main \in {"snapshot", "pushSnapshot"} \/ snapshot = "active"
    /\ main = "gone" => process # "running" /\ exitCode = ExitCodeOf(RunResult)

\* Reports of the job step follow main.
JobHistory ==
    /\ main \in {"config", "createAdapter", "hello", "pushInProgress"} =>
          \A k \in 1..Len(accepted) : accepted[k] = LogChunk
    /\ \A k \in 1..Len(accepted) :
          accepted[k].kind = "job" /\ accepted[k].status = "finished" =>
              main \in AfterFinish /\ accepted[k].value = result
    /\ main \in AfterFinish =>
          \/ Reported(JobstepStatus("finished", result))
          \/ result = "infra_failed" /\ \A k \in 1..Len(accepted) : accepted[k].kind # "job"

History == /\ CommandHistory /\ ResultHistory /\ JobHistory
           /\ CommandProtocol /\ PassedIsDeserved /\ JobstepFrames

\* Once the context is cancelled, or the monitor is up and the server has ended
\* the job step, the process ends, even while a command runs forever.
CancellationEndsRun ==
    (cancelled \/ (monitor = "polling" /\ upstream # "running")) ~> Ended

\* Nothing but a command that never returns keeps a run from ending.
OnlyCommandsHang == <>Ended \/ <>[](main = "select" /\ exec = "run")

\* What the server may see after it has seen the report r: nothing of an earlier
\* command, or of a command whose predecessor failed, or of one that is finished;
\* nothing but console output after the job step is finished, unless it was
\* aborted; only console output before it is in progress.
MayFollow(r, t) ==
    /\ r.kind = "cmd" /\ t.kind = "cmd" =>
          \/ r = t
          \/ r.id = t.id /\ r.status = "in_progress" /\ t.status = "finished"
          \/ r.id < t.id /\ (r.status = "finished" => r.value = "0")
    /\ r.kind = "job" /\ r.status = "finished" =>
          \/ t \in {r, LogChunk}
          \/ t.kind = "cmd" /\ r.value = "aborted"
    /\ t = JobstepStatus("in_progress", "none") => r \in {t, LogChunk}

\* The reporter repeats reports and gives some up, but keeps their order (InOrder
\* of ReportQueue): whatever sequence of applied reports that leaves the server
\* with, it is never told of an impossible course of the build.
ServerSeesSense ==
    \A log \in Seq(Report) :
        (\A i, j \in DOMAIN log : i <= j =>
            \E k, l \in DOMAIN accepted :
                k <= l /\ log[i] = accepted[k] /\ log[j] = accepted[l])
        => \A i, j \in DOMAIN log : i <= j => MayFollow(log[i], log[j])

\* That is a matter of each two reports that were made.
OrderOfReports ==
    \A j, k \in DOMAIN accepted : j <= k => MayFollow(accepted[j], accepted[k])

\* The comment on PublishChannel: "not safe to send to after Shutdown() is
\* called".  No goroutine of the engine may be about to do so.
NoSendAfterShutdown == ~(process = "running" /\ closed /\ Sending)

\* The comment on the monitor: the build is aborted "if upstream suggests that
\* it's been cancelled".  An abort needs a cancelled job step or an interrupt.
AbortOnlyIfCancelled ==
    result = "aborted" => upstream = "aborted" \/ handler = "shuttingDown"

=============================================================================
