--------------------------- MODULE Engine_proofs ---------------------------
(***************************************************************************)
(* Theorems about Engine for every set of configurations and every capacity *)
(* of the report queue.                                                     *)
(***************************************************************************)
EXTENDS Engine, SequenceTheorems, TLAPS

(* How one step of the engine can touch the report queue. *)
QueueStep == \/ \E r \in Report : Push(r)
             \/ /\ retired < Len(accepted) /\ retired' = retired + 1
                /\ UNCHANGED <<accepted, closed, stopped>>
             \/ /\ ~closed /\ closed' = TRUE
                /\ UNCHANGED <<accepted, retired, stopped>>
             \/ /\ closed /\ ~stopped /\ retired = Len(accepted) /\ stopped' = TRUE
                /\ UNCHANGED <<accepted, retired, closed>>
             \/ UNCHANGED queueVars

LEMMA ReportTypes ==
    /\ LogChunk \in Report /\ Metrics \in Report
    /\ \A s \in Statuses, r \in Results : JobstepStatus(s, r) \in Report
    /\ \A i \in 1..MaxCmds, s \in Statuses, c \in ReturnCodes : CommandStatus(i, s, c) \in Report
  BY DEF Report

LEMMA ConfigBounds ==
    ASSUME ProcTypes
    PROVE  Len(config.cmds) \in Nat /\ Len(config.cmds) <= MaxCmds
<1>1. config \in ConfigType /\ Len(config.cmds) <= MaxCmds
  BY EngineAssumption DEF ProcTypes
<1>2. config.cmds \in Seq(CmdTypes)
  BY <1>1 DEF ConfigType
<1> QED
  BY <1>1, <1>2, LenProperties

\* The steps that move the goroutine of the commands; config never changes.
LEMMA ExecMoves ==
    ASSUME [Next]_vars
    PROVE  \/ UNCHANGED <<execVars, config>>
           \/ NextCommand \/ CreateCommand \/ BeginCommand \/ CommandPrints
           \/ CommandEnds \/ EndCommand \/ LogError \/ PublishArtifacts
           \/ SpawnExec \/ SelectFinished
  BY DEF Next, MainStep, ExecStep, vars, procVars, Terminated, CreateCommandFails,
         SendAfterShutdown, ConsolePush, ConsoleDone, Transport, TransportStops,
         UpstreamEnds, Heartbeat, Interrupt, FirstInterrupt, SecondInterrupt,
         GetConfigFails, GetConfig, CreateAdapter, LogHello, PushInProgress,
         StartPlan, AdapterInit, AdapterPrepare, LogNotReady, ReportMetrics,
         SelectCancelled, LogAborted, CaptureSnapshot, PushSnapshotImageStatus,
         AdapterShutdown, LogFinished, PushFinished, CloseLog, WaitConsole,
         CloseQueue, Drain, Exit

\* Typing of the goroutine that executes the commands.
LEMMA ExecTypesStep ==
    ASSUME TypeOK, [Next]_vars
    PROVE  ExecTypes'
<1> USE DEF TypeOK, ExecTypes, ExecPoints, InCommand, AfterRun, NoDelivery, Results
<1>0. Len(config.cmds) \in Nat /\ Len(config.cmds) <= MaxCmds
  BY ConfigBounds
<1>1. CASE UNCHANGED execVars /\ config' = config
  BY <1>1 DEF execVars
<1>2. CASE NextCommand
  <2>1. config' = config
    BY <1>2 DEF NextCommand, ExecUnchanged, procVars
  <2>2. CASE Deliver("passed", FALSE)
    BY <2>1, <2>2 DEF Deliver
  <2>3. CASE current <= Len(config.cmds) /\ ExecGoes("create")
    BY <2>1, <2>3 DEF ExecGoes
  <2>4. ~(current > Len(config.cmds)) => current <= Len(config.cmds)
    BY <1>0
  <2> QED
    BY <1>2, <2>2, <2>3, <2>4 DEF NextCommand
<1>3. CASE CreateCommand
  BY <1>0, <1>3 DEF CreateCommand, ExecAt, ExecGoes, procVars
<1>4. CASE BeginCommand
  BY <1>0, <1>4, EngineAssumption DEF BeginCommand, ExecAt, ExecUnchanged, procVars
<1>5. CASE CommandPrints
  BY <1>0, <1>5, EngineAssumption DEF CommandPrints, ExecAt, ExecUnchanged, procVars
<1>6. CASE CommandEnds
  BY <1>0, <1>6 DEF CommandEnds, ExecAt, ExecUnchanged, procVars
<1>7. CASE EndCommand
  <2>1. config' = config /\ exec = "ended"
    BY <1>7 DEF EndCommand, ExecAt, ExecUnchanged, procVars
  <2>2. CASE Deliver("infra_failed", TRUE)
    BY <2>1, <2>2 DEF Deliver
  <2>3. CASE ExecGoes("logError") \/ ExecGoes("publish")
    BY <2>1, <2>3 DEF ExecGoes
  <2> QED
    BY <1>7, <2>2, <2>3 DEF EndCommand
<1>8. CASE LogError
  BY <1>0, <1>8 DEF LogError, ExecAt, ExecUnchanged, Deliver, procVars
<1>9. CASE PublishArtifacts
  <2>1. config' = config /\ exec = "publish"
    BY <1>9 DEF PublishArtifacts, ExecAt, ExecUnchanged, procVars
  <2>2. CASE ExecGoes("logError")
    BY <2>1, <2>2 DEF ExecGoes
  <2>3. CASE Deliver("failed", FALSE)
    BY <2>1, <2>3 DEF Deliver
  <2>4. CASE /\ exec' = "next" /\ current' = current + 1
             /\ UNCHANGED <<outcome, lines, delivery>>
    BY <1>0, <2>1, <2>4
  <2> QED
    BY <1>9, <2>2, <2>3, <2>4 DEF PublishArtifacts
<1>10. CASE SpawnExec
  BY <1>0, <1>10 DEF SpawnExec, procVars
<1>11. CASE SelectFinished
  BY <1>0, <1>11 DEF SelectFinished, procVars
<1> QED
  BY <1>1, <1>2, <1>3, <1>4, <1>5, <1>6, <1>7, <1>8, <1>9, <1>10, <1>11, ExecMoves DEF execVars

-----------------------------------------------------------------------------
\* Every step touches the queue in one of the ways of the abstract queue.
LEMMA QueueSteps ==
    ASSUME TypeOK, [Next]_vars
    PROVE  QueueStep
<1> USE DEF TypeOK, QueueStep
<1>1. CASE Transport
  BY <1>1 DEF Transport
<1>2. CASE TransportStops
  BY <1>2 DEF TransportStops
<1>3. CASE ConsolePush
  <2>1. Push(LogChunk) \/ UNCHANGED queueVars
    BY <1>3 DEF ConsolePush
  <2> QED
    BY <2>1, ReportTypes
<1>4. CASE BeginCommand
  <2>1. current \in 1..MaxCmds
    BY <1>4, ConfigBounds, EngineAssumption DEF BeginCommand, ExecAt, ExecTypes, InCommand
  <2>2. Push(CommandStatus(current, "in_progress", "none"))
    BY <1>4 DEF BeginCommand
  <2> QED
    BY <2>1, <2>2, ReportTypes DEF Statuses, ReturnCodes
<1>5. CASE EndCommand
  <2>1. current \in 1..MaxCmds
    BY <1>5, ConfigBounds, EngineAssumption DEF EndCommand, ExecAt, ExecTypes, InCommand
  <2>2. ReturnCode \in ReturnCodes
    BY <1>5 DEF EndCommand, ExecAt, ExecTypes, AfterRun, ReturnCode, ReturnCodes
  <2>3. Push(CommandStatus(current, "finished", ReturnCode))
    BY <1>5 DEF EndCommand
  <2> QED
    BY <2>1, <2>2, <2>3, ReportTypes DEF Statuses
<1>6. CASE PushInProgress
  BY <1>6, ReportTypes DEF PushInProgress, Statuses, Results
<1>7. CASE PushFinished
  BY <1>7, ReportTypes DEF PushFinished, Statuses, MainTypes
<1>8. ASSUME NEW pc, NEW next, ReportMetrics(pc, next)
      PROVE  QueueStep
  BY <1>8, ReportTypes DEF ReportMetrics
<1>9. CASE CloseQueue
  BY <1>9 DEF CloseQueue, queueVars, QueueTypes
<1>10. CASE UNCHANGED queueVars
  BY <1>10
<1>11. \/ Transport \/ TransportStops \/ ConsolePush \/ BeginCommand \/ EndCommand
       \/ PushInProgress \/ PushFinished \/ CloseQueue
       \/ \E pc, next : ReportMetrics(pc, next)
       \/ UNCHANGED queueVars
  BY DEF Next, MainStep, ExecStep, vars, Terminated, NextCommand, CreateCommand,
         CreateCommandFails, CommandPrints, CommandEnds, LogError, PublishArtifacts,
         SendAfterShutdown, ConsoleDone, UpstreamEnds, Heartbeat, Interrupt,
         FirstInterrupt, SecondInterrupt, GetConfigFails, GetConfig, CreateAdapter,
         LogHello, StartPlan, AdapterInit, AdapterPrepare, LogNotReady, SpawnExec,
         SelectFinished, SelectCancelled, LogAborted, CaptureSnapshot,
         PushSnapshotImageStatus, AdapterShutdown, LogFinished, CloseLog,
         WaitConsole, Drain, Exit
<1> QED
  BY <1>1, <1>2, <1>3, <1>4, <1>5, <1>6, <1>7, <1>8, <1>9, <1>10, <1>11

LEMMA QueueTypesStep ==
    ASSUME TypeOK, QueueStep
    PROVE  QueueTypes'
<1> USE DEF TypeOK, QueueTypes, Outstanding
<1>1. ASSUME NEW r \in Report, Push(r)
      PROVE  QueueTypes'
  BY <1>1, AppendProperties, LenProperties, EngineAssumption DEF Push
<1>2. CASE /\ retired < Len(accepted) /\ retired' = retired + 1
           /\ UNCHANGED <<accepted, closed, stopped>>
  BY <1>2, LenProperties, EngineAssumption
<1>3. CASE /\ UNCHANGED <<accepted, retired>>
           /\ closed' \in BOOLEAN /\ stopped' \in BOOLEAN
  BY <1>3
<1> QED
  BY <1>1, <1>2, <1>3 DEF QueueStep, queueVars

-----------------------------------------------------------------------------
\* The configuration never changes, and only four actions end the process.
LEMMA ProcSteps ==
    ASSUME [Next]_vars
    PROVE  /\ config' = config
           /\ \/ UNCHANGED <<process, exitCode>>
              \/ CreateCommandFails \/ SendAfterShutdown \/ SecondInterrupt \/ Exit
  BY DEF Next, MainStep, ExecStep, vars, procVars, Terminated, ExecUnchanged,
         NextCommand, CreateCommand, CreateCommandFails, BeginCommand, CommandPrints,
         CommandEnds, EndCommand, LogError, PublishArtifacts, SendAfterShutdown,
         ConsolePush, ConsoleDone, Transport, TransportStops, UpstreamEnds, Heartbeat,
         Interrupt, FirstInterrupt, SecondInterrupt, GetConfigFails, GetConfig,
         CreateAdapter, LogHello, PushInProgress, StartPlan, AdapterInit,
         AdapterPrepare, LogNotReady, ReportMetrics, SpawnExec, SelectFinished,
         SelectCancelled, LogAborted, CaptureSnapshot, PushSnapshotImageStatus,
         AdapterShutdown, LogFinished, PushFinished, CloseLog, WaitConsole,
         CloseQueue, Drain, Exit

LEMMA ProcTypesStep ==
    ASSUME TypeOK, [Next]_vars
    PROVE  ProcTypes'
<1>1. config' = config
  BY ProcSteps
<1>2. CASE UNCHANGED <<process, exitCode>>
  BY <1>1, <1>2 DEF TypeOK, ProcTypes
<1>3. CASE CreateCommandFails \/ SendAfterShutdown \/ SecondInterrupt
  BY <1>1, <1>3 DEF TypeOK, ProcTypes, CreateCommandFails, SendAfterShutdown, SecondInterrupt
<1>4. CASE Exit
  BY <1>1, <1>4 DEF TypeOK, ProcTypes, Exit, ExitCodeOf
<1> QED
  BY <1>2, <1>3, <1>4, ProcSteps

LEMMA MainMoves ==
    ASSUME [Next]_vars
    PROVE  MainStep \/ UNCHANGED mainVars
  BY DEF Next, ExecStep, vars, Terminated, ExecUnchanged, NextCommand, CreateCommand,
         CreateCommandFails, BeginCommand, CommandPrints, CommandEnds, EndCommand,
         LogError, PublishArtifacts, SendAfterShutdown, ConsolePush, ConsoleDone,
         Transport, TransportStops, UpstreamEnds, Heartbeat, Interrupt,
         FirstInterrupt, SecondInterrupt

LEMMA MainTypesStep ==
    ASSUME TypeOK, [Next]_vars
    PROVE  MainTypes'
<1> USE DEF TypeOK, MainTypes, MainPoints, MainGoes, MainReturns, Results
<1>1. CASE UNCHANGED mainVars
  BY <1>1 DEF mainVars
<1>2. CASE GetConfigFails \/ GetConfig \/ CreateAdapter \/ LogHello \/ PushInProgress
  BY <1>2 DEF GetConfigFails, GetConfig, CreateAdapter, LogHello, PushInProgress
<1>3. CASE StartPlan \/ AdapterInit \/ AdapterPrepare \/ LogNotReady
  BY <1>3 DEF StartPlan, AdapterInit, AdapterPrepare, LogNotReady
<1>4. CASE \/ ReportMetrics("prepareMetrics", "spawn")
           \/ ReportMetrics("shutdownMetrics", "logFinished")
           \/ SpawnExec
  BY <1>4 DEF ReportMetrics, SpawnExec
<1>5. CASE SelectFinished
  <2>1. delivery.result \in Results /\ delivery.err \in BOOLEAN
    BY DEF ExecTypes
  <2> QED
    BY <1>5, <2>1 DEF SelectFinished
<1>6. CASE SelectCancelled \/ LogAborted \/ CaptureSnapshot
  BY <1>6 DEF SelectCancelled, LogAborted, CaptureSnapshot
<1>7. CASE PushSnapshotImageStatus
  BY <1>7 DEF PushSnapshotImageStatus
<1>8. CASE AdapterShutdown \/ LogFinished \/ PushFinished \/ CloseLog
  BY <1>8 DEF AdapterShutdown, LogFinished, PushFinished, CloseLog
<1>9. CASE WaitConsole \/ CloseQueue \/ Drain \/ Exit
  BY <1>9 DEF WaitConsole, CloseQueue, Drain, Exit
<1> QED
  BY <1>1, <1>2, <1>3, <1>4, <1>5, <1>6, <1>7, <1>8, <1>9, MainMoves DEF MainStep

LEMMA LogTypesStep ==
    ASSUME TypeOK, [Next]_vars
    PROVE  LogTypes'
<1> USE DEF TypeOK, LogTypes, logVars
<1>1. CASE UNCHANGED logVars \/ LogWrite
  BY <1>1 DEF LogWrite
<1>2. CASE ConsolePush \/ ConsoleDone \/ CreateAdapter \/ CloseLog
  BY <1>2 DEF ConsolePush, ConsoleDone, CreateAdapter, CloseLog
<1>3. \/ UNCHANGED logVars \/ LogWrite
      \/ ConsolePush \/ ConsoleDone \/ CreateAdapter \/ CloseLog
  BY DEF Next, MainStep, ExecStep, vars, Terminated, NextCommand, CreateCommand,
         CreateCommandFails, BeginCommand, CommandPrints, CommandEnds, EndCommand,
         LogError, PublishArtifacts, SendAfterShutdown, Transport, TransportStops,
         UpstreamEnds, Heartbeat, Interrupt, FirstInterrupt, SecondInterrupt,
         GetConfigFails, GetConfig, LogHello, PushInProgress, StartPlan, AdapterInit,
         AdapterPrepare, LogNotReady, ReportMetrics, SpawnExec, SelectFinished,
         SelectCancelled, LogAborted, CaptureSnapshot, PushSnapshotImageStatus,
         AdapterShutdown, LogFinished, PushFinished, WaitConsole, CloseQueue, Drain, Exit
<1> QED
  BY <1>1, <1>2, <1>3

LEMMA StopTypesStep ==
    ASSUME TypeOK, [Next]_vars
    PROVE  StopTypes'
<1> USE DEF TypeOK, StopTypes, stopVars
<1>1. CASE UNCHANGED <<stopVars, adapter>>
  BY <1>1
<1>2. CASE UpstreamEnds \/ Heartbeat
  BY <1>2 DEF UpstreamEnds, Heartbeat
<1>3. CASE Interrupt
  BY <1>3 DEF Interrupt
<1>7. CASE FirstInterrupt
  BY <1>7 DEF FirstInterrupt
<1>4. CASE StartPlan
  BY <1>4 DEF StartPlan
<1>5. CASE AdapterInit \/ AdapterPrepare \/ AdapterShutdown
  BY <1>5 DEF AdapterInit, AdapterPrepare, AdapterShutdown
<1>6. \/ UNCHANGED <<stopVars, adapter>>
      \/ UpstreamEnds \/ Heartbeat \/ Interrupt \/ FirstInterrupt
      \/ StartPlan \/ AdapterInit \/ AdapterPrepare \/ AdapterShutdown
  BY DEF Next, MainStep, ExecStep, vars, Terminated, ExecUnchanged, NextCommand,
         CreateCommand, CreateCommandFails, BeginCommand, CommandPrints, CommandEnds,
         EndCommand, LogError, PublishArtifacts, SendAfterShutdown, ConsolePush,
         ConsoleDone, Transport, TransportStops, SecondInterrupt, GetConfigFails,
         GetConfig, CreateAdapter, LogHello, PushInProgress, LogNotReady,
         ReportMetrics, SpawnExec, SelectFinished, SelectCancelled, LogAborted,
         CaptureSnapshot, PushSnapshotImageStatus, LogFinished, PushFinished,
         CloseLog, WaitConsole, CloseQueue, Drain, Exit
<1> QED
  BY <1>1, <1>2, <1>3, <1>4, <1>5, <1>6, <1>7

LEMMA TypeInit == Init => TypeOK
<1> SUFFICES ASSUME Init
             PROVE  TypeOK
  OBVIOUS
<1>0. /\ err \in BOOLEAN /\ logClosed \in BOOLEAN /\ cancelled \in BOOLEAN
      /\ closed \in BOOLEAN /\ stopped \in BOOLEAN
  BY DEF Init
<1>1. ProcTypes /\ MainTypes /\ LogTypes /\ StopTypes
  <2>1. ProcTypes
    BY DEF Init, ProcTypes
  <2>2. MainTypes
    BY <1>0 DEF Init, MainTypes, MainPoints, Results
  <2>3. LogTypes
    BY <1>0 DEF Init, LogTypes
  <2>4. StopTypes
    BY <1>0 DEF Init, StopTypes
  <2> QED
    BY <2>1, <2>2, <2>3, <2>4
<1>2. ExecTypes
  BY <1>1, ConfigBounds, EngineAssumption
     DEF Init, ExecTypes, ExecPoints, InCommand, AfterRun, NoDelivery, Results
<1>3. accepted \in Seq(Report) /\ Len(accepted) = 0
  BY EmptySeq DEF Init
<1>4. QueueTypes
  <2>1. retired = 0
    BY DEF Init
  <2> QED
    BY <1>0, <1>3, <2>1, EngineAssumption DEF QueueTypes, Outstanding
<1> QED
  BY <1>1, <1>2, <1>4 DEF TypeOK

\* Types, the index of the current command and the capacity of the queue, for
\* every set of configurations and every capacity.
THEOREM EngineTypeCorrect == Spec => []TypeOK
<1>1. TypeOK /\ [Next]_vars => TypeOK'
  BY ProcTypesStep, MainTypesStep, ExecTypesStep, LogTypesStep, StopTypesStep,
     QueueSteps, QueueTypesStep DEF TypeOK
<1> QED
  BY <1>1, TypeInit, PTL DEF Spec

-----------------------------------------------------------------------------
(* The control invariant.  A step of the goroutine that executes commands    *)
(* leaves main where it is and the goroutine inside its loop; other steps    *)
(* outside main touch neither.                                               *)

ExecLoops == /\ exec \notin {"off", "done"} /\ exec' \notin {"off", "done"}
             /\ UNCHANGED <<mainVars, adapter, closed, stopped, retired>>

LEMMA ExecStepLoops ==
    ASSUME ExecStep \/ CommandPrints \/ CommandEnds
    PROVE  ExecLoops \/ SendAfterShutdown
<1> USE DEF ExecLoops, ExecAt, ExecUnchanged, ExecGoes, Deliver, queueVars, execVars, Push
<1>1. CASE NextCommand
  BY <1>1 DEF NextCommand
<1>2. CASE CreateCommand \/ CreateCommandFails
  BY <1>2 DEF CreateCommand, CreateCommandFails
<1>3. CASE BeginCommand
  BY <1>3 DEF BeginCommand
<1>4. CASE CommandPrints \/ CommandEnds
  BY <1>4 DEF CommandPrints, CommandEnds
<1>5. CASE EndCommand
  BY <1>5 DEF EndCommand
<1>6. CASE LogError \/ PublishArtifacts
  BY <1>6 DEF LogError, PublishArtifacts
<1> QED
  BY <1>1, <1>2, <1>3, <1>4, <1>5, <1>6 DEF ExecStep

\* Steps of the other goroutines.
Aside == \/ SendAfterShutdown
         \/ ConsolePush \/ ConsoleDone \/ Transport \/ TransportStops
         \/ UpstreamEnds \/ Heartbeat \/ Interrupt \/ FirstInterrupt \/ SecondInterrupt

AsideFrame == UNCHANGED <<main, result, exec, adapter, closed>>

LEMMA AsideStep == Aside => AsideFrame
  BY DEF Aside, AsideFrame, SendAfterShutdown, ConsolePush, ConsoleDone, Transport,
         TransportStops, UpstreamEnds, Heartbeat, Interrupt, FirstInterrupt,
         SecondInterrupt, mainVars, execVars, queueVars, Push

LEMMA StepKinds ==
    ASSUME [Next]_vars
    PROVE  MainStep \/ ExecLoops \/ Aside \/ UNCHANGED vars
  BY ExecStepLoops DEF Next, Aside, Terminated

LEMMA ExecControlStep ==
    ASSUME Control, [Next]_vars
    PROVE  ExecControl'
<1> USE DEF Control, ExecControl, BeforeExec, Reporting
<1>1. CASE ExecLoops
  BY <1>1 DEF ExecLoops, mainVars
<1>2. CASE Aside \/ UNCHANGED vars
  BY <1>2, AsideStep DEF AsideFrame, vars, mainVars, execVars
<1>3. CASE MainStep
  <2> USE DEF MainAt, MainGoes, MainReturns, execVars
  <2>1. CASE GetConfigFails \/ GetConfig \/ CreateAdapter \/ LogHello \/ PushInProgress
    BY <2>1 DEF GetConfigFails, GetConfig, CreateAdapter, LogHello, PushInProgress
  <2>2. CASE StartPlan \/ AdapterInit \/ AdapterPrepare \/ LogNotReady
    BY <2>2 DEF StartPlan, AdapterInit, AdapterPrepare, LogNotReady
  <2>3. CASE \/ ReportMetrics("prepareMetrics", "spawn")
             \/ ReportMetrics("shutdownMetrics", "logFinished")
    BY <2>3 DEF ReportMetrics
  <2>4. CASE SpawnExec
    BY <2>4 DEF SpawnExec
  <2>5. CASE SelectFinished
    BY <2>5 DEF SelectFinished
  <2>6. CASE SelectCancelled \/ LogAborted
    BY <2>6 DEF SelectCancelled, LogAborted
  <2>7. CASE CaptureSnapshot \/ PushSnapshotImageStatus \/ AdapterShutdown
    BY <2>7 DEF CaptureSnapshot, PushSnapshotImageStatus, AdapterShutdown
  <2>8. CASE LogFinished \/ PushFinished \/ CloseLog \/ WaitConsole
    BY <2>8 DEF LogFinished, PushFinished, CloseLog, WaitConsole
  <2>9. CASE CloseQueue \/ Drain \/ Exit
    BY <2>9 DEF CloseQueue, Drain, Exit
  <2> QED
    BY <1>3, <2>1, <2>2, <2>3, <2>4, <2>5, <2>6, <2>7, <2>8, <2>9 DEF MainStep
<1> QED
  BY <1>1, <1>2, <1>3, StepKinds

LEMMA AdapterControlStep ==
    ASSUME Control, [Next]_vars
    PROVE  AdapterControl'
<1> USE DEF Control, AdapterControl, ExecControl, WithAdapter, BeforeExec
<1>1. CASE ExecLoops
  BY <1>1 DEF ExecLoops, mainVars
<1>2. CASE Aside \/ UNCHANGED vars
  BY <1>2, AsideStep DEF AsideFrame, vars, mainVars, execVars
<1>3. CASE MainStep
  <2> USE DEF MainAt, MainGoes, MainReturns, execVars
  <2>1. CASE GetConfigFails \/ GetConfig \/ CreateAdapter \/ LogHello \/ PushInProgress
    BY <2>1 DEF GetConfigFails, GetConfig, CreateAdapter, LogHello, PushInProgress
  <2>2. CASE StartPlan \/ AdapterInit \/ AdapterPrepare \/ LogNotReady
    BY <2>2 DEF StartPlan, AdapterInit, AdapterPrepare, LogNotReady
  <2>3. CASE \/ ReportMetrics("prepareMetrics", "spawn")
             \/ ReportMetrics("shutdownMetrics", "logFinished")
    BY <2>3 DEF ReportMetrics
  <2>4. CASE SpawnExec \/ SelectFinished
    BY <2>4 DEF SpawnExec, SelectFinished
  <2>5. CASE SelectCancelled \/ LogAborted
    BY <2>5 DEF SelectCancelled, LogAborted
  <2>6. CASE CaptureSnapshot \/ PushSnapshotImageStatus \/ AdapterShutdown
    BY <2>6 DEF CaptureSnapshot, PushSnapshotImageStatus, AdapterShutdown
  <2>7. CASE LogFinished \/ PushFinished \/ CloseLog \/ WaitConsole
    BY <2>7 DEF LogFinished, PushFinished, CloseLog, WaitConsole
  <2>8. CASE CloseQueue \/ Drain \/ Exit
    BY <2>8 DEF CloseQueue, Drain, Exit
  <2> QED
    BY <1>3, <2>1, <2>2, <2>3, <2>4, <2>5, <2>6, <2>7, <2>8 DEF MainStep
<1> QED
  BY <1>1, <1>2, <1>3, StepKinds

\* Only the adapter's creation starts the console goroutine.
LEMMA ConsoleMoves ==
    ASSUME [Next]_vars
    PROVE  console' = console \/ console \in {"recv", "push"} \/ CreateAdapter
<1>1. CASE LogWrite \/ UNCHANGED logVars
  BY <1>1 DEF LogWrite, logVars
<1>2. CASE ConsolePush \/ ConsoleDone \/ CloseLog
  BY <1>2 DEF ConsolePush, ConsoleDone, CloseLog
<1>3. \/ UNCHANGED logVars \/ LogWrite
      \/ ConsolePush \/ ConsoleDone \/ CreateAdapter \/ CloseLog
  BY DEF Next, MainStep, ExecStep, vars, Terminated, NextCommand, CreateCommand,
         CreateCommandFails, BeginCommand, CommandPrints, CommandEnds, EndCommand,
         LogError, PublishArtifacts, SendAfterShutdown, Transport, TransportStops,
         UpstreamEnds, Heartbeat, Interrupt, FirstInterrupt, SecondInterrupt,
         GetConfigFails, GetConfig, LogHello, PushInProgress, StartPlan, AdapterInit,
         AdapterPrepare, LogNotReady, ReportMetrics, SpawnExec, SelectFinished,
         SelectCancelled, LogAborted, CaptureSnapshot, PushSnapshotImageStatus,
         AdapterShutdown, LogFinished, PushFinished, WaitConsole, CloseQueue, Drain, Exit
<1> QED
  BY <1>1, <1>2, <1>3

\* How main reaches its last steps.
LEMMA MainEnds ==
    ASSUME [Next]_vars, main' # main
    PROVE  /\ main' = "closeQueue" => CreateAdapter \/ WaitConsole
           /\ main' = "drain" => CloseQueue
           /\ main' = "exit" => GetConfigFails \/ Drain
           /\ main' = "gone" => Exit
           /\ main' = "createAdapter" => GetConfig
           /\ main' # "config"
<1>1. MainStep
  BY StepKinds, AsideStep DEF ExecLoops, AsideFrame, vars, mainVars
<1> USE DEF MainGoes, MainReturns
<1>2. CASE GetConfigFails \/ GetConfig \/ CreateAdapter \/ LogHello \/ PushInProgress
  BY <1>2 DEF GetConfigFails, GetConfig, CreateAdapter, LogHello, PushInProgress
<1>3. CASE StartPlan \/ AdapterInit \/ AdapterPrepare \/ LogNotReady
  BY <1>3 DEF StartPlan, AdapterInit, AdapterPrepare, LogNotReady
<1>4. CASE \/ ReportMetrics("prepareMetrics", "spawn")
           \/ ReportMetrics("shutdownMetrics", "logFinished")
  BY <1>4 DEF ReportMetrics
<1>5. CASE SpawnExec \/ SelectFinished
  BY <1>5 DEF SpawnExec, SelectFinished
<1>6. CASE SelectCancelled \/ LogAborted
  BY <1>6 DEF SelectCancelled, LogAborted
<1>7. CASE CaptureSnapshot \/ PushSnapshotImageStatus \/ AdapterShutdown
  BY <1>7 DEF CaptureSnapshot, PushSnapshotImageStatus, AdapterShutdown
<1>8. CASE LogFinished \/ PushFinished \/ CloseLog \/ WaitConsole
  BY <1>8 DEF LogFinished, PushFinished, CloseLog, WaitConsole
<1>9. CASE CloseQueue \/ Drain \/ Exit
  BY <1>9 DEF CloseQueue, Drain, Exit
<1> QED
  BY <1>1, <1>2, <1>3, <1>4, <1>5, <1>6, <1>7, <1>8, <1>9 DEF MainStep

\* Once closed, the channel stays closed, and only CloseQueue closes it.
LEMMA ClosedMoves ==
    ASSUME [Next]_vars
    PROVE  closed' = closed \/ (CloseQueue /\ closed' = TRUE)
<1>1. CASE UNCHANGED queueVars \/ \E r : Push(r)
  BY <1>1 DEF queueVars, Push
<1>2. CASE ExecLoops \/ Aside \/ UNCHANGED vars
  BY <1>2, AsideStep DEF ExecLoops, AsideFrame, vars, queueVars
<1>3. CASE MainStep
  <2>1. UNCHANGED queueVars \/ (\E r : Push(r)) \/ CloseQueue
    BY <1>3 DEF MainStep, GetConfigFails, GetConfig, CreateAdapter, LogHello,
         PushInProgress, StartPlan, AdapterInit, AdapterPrepare, LogNotReady,
         ReportMetrics, SpawnExec, SelectFinished, SelectCancelled, LogAborted,
         CaptureSnapshot, PushSnapshotImageStatus, AdapterShutdown, LogFinished,
         PushFinished, CloseLog, WaitConsole, Drain, Exit
  <2> QED
    BY <1>1, <2>1 DEF CloseQueue
<1> QED
  BY <1>2, <1>3, StepKinds

LEMMA CloseControlStep ==
    ASSUME Control, [Next]_vars
    PROVE  CloseControl'
<1> USE DEF Control, CloseControl
<1>1. closed' => main' \in {"drain", "exit", "gone"}
  <2>1. CASE CloseQueue
    BY <2>1 DEF CloseQueue, MainGoes
  <2>2. CASE closed' = closed /\ main' = main
    BY <2>2
  <2>3. CASE closed /\ main' # main
    <3>1. MainStep
      BY <2>3, StepKinds, AsideStep DEF ExecLoops, AsideFrame, vars, mainVars
    <3>2. Drain \/ Exit
      BY <2>3, <3>1 DEF MainStep, MainAt, GetConfigFails, GetConfig, CreateAdapter,
         LogHello, PushInProgress, StartPlan, AdapterInit, AdapterPrepare, LogNotReady,
         ReportMetrics, SpawnExec, SelectFinished, SelectCancelled, LogAborted,
         CaptureSnapshot, PushSnapshotImageStatus, AdapterShutdown, LogFinished,
         PushFinished, CloseLog, WaitConsole, CloseQueue
    <3> QED
      BY <3>2 DEF Drain, Exit, MainGoes
  <2> QED
    BY <2>1, <2>2, <2>3, ClosedMoves
<1>2. main' \in {"closeQueue", "drain", "exit", "gone"} => console' \in {"off", "done"}
  <2> SUFFICES ASSUME main' \in {"closeQueue", "drain", "exit", "gone"}
               PROVE  console' \in {"off", "done"}
    OBVIOUS
  <2>1. CASE CreateAdapter
    BY <2>1 DEF CreateAdapter, MainAt, MainGoes, MainReturns, DrainControl, NothingYet
  <2>2. CASE main' = main /\ ~CreateAdapter
    BY <2>2, ConsoleMoves
  <2>3. CASE main' # main /\ ~CreateAdapter
    <3>1. WaitConsole \/ CloseQueue \/ GetConfigFails \/ Drain \/ Exit
      BY <2>3, MainEnds
    <3> QED
      BY <3>1 DEF WaitConsole, CloseQueue, GetConfigFails, Drain, Exit, MainAt,
         logVars, DrainControl, NothingYet
  <2> QED
    BY <2>1, <2>2, <2>3
<1> QED
  BY <1>1, <1>2

\* While nothing has been started, nothing happens but main's own steps.
LEMMA QuietStep ==
    ASSUME NothingYet, [Next]_vars,
           main \in {"config", "createAdapter", "exit", "gone"}
    PROVE  NothingYet' \/ CreateAdapter
<1> USE DEF NothingYet
<1>0. Len(accepted) = 0
  BY EmptySeq
<1>1. CASE MainStep
  <2>1. GetConfigFails \/ GetConfig \/ CreateAdapter \/ Exit
    BY <1>1 DEF MainStep, MainAt, LogHello, PushInProgress, StartPlan, AdapterInit,
         AdapterPrepare, LogNotReady, ReportMetrics, SpawnExec, SelectFinished,
         SelectCancelled, LogAborted, CaptureSnapshot, PushSnapshotImageStatus,
         AdapterShutdown, LogFinished, PushFinished, CloseLog, WaitConsole,
         CloseQueue, Drain
  <2> QED
    BY <2>1 DEF GetConfigFails, GetConfig, Exit, execVars, logVars, queueVars
<1>2. CASE Aside
  <2>1. ~Transport
    BY <1>0 DEF Transport
  <2>2. ~ConsolePush /\ ~ConsoleDone
    BY DEF ConsolePush, ConsoleDone
  <2> QED
    BY <1>2, <2>1, <2>2 DEF Aside, SendAfterShutdown, TransportStops, UpstreamEnds,
       Heartbeat, Interrupt, FirstInterrupt, SecondInterrupt, execVars, logVars, queueVars
<1>3. CASE UNCHANGED vars
  BY <1>3 DEF vars, execVars, logVars, queueVars
<1> QED
  BY <1>1, <1>2, <1>3, StepKinds DEF ExecLoops

LEMMA DrainControlStep ==
    ASSUME TypeOK, Control, [Next]_vars
    PROVE  DrainControl'
<1> USE DEF Control, DrainControl
<1>1. stopped' => closed' /\ retired' = Len(accepted')
  <2>1. CASE \E r \in Report : Push(r)
    BY <2>1 DEF Push
  <2>2. CASE /\ retired < Len(accepted) /\ retired' = retired + 1
             /\ UNCHANGED <<accepted, closed, stopped>>
    <3>1. retired # Len(accepted)
      BY <2>2, LenProperties DEF TypeOK, QueueTypes
    <3> QED
      BY <2>2, <3>1
  <2>3. CASE /\ ~closed /\ closed' = TRUE
             /\ UNCHANGED <<accepted, retired, stopped>>
    BY <2>3
  <2>4. CASE /\ closed /\ ~stopped /\ retired = Len(accepted) /\ stopped' = TRUE
             /\ UNCHANGED <<accepted, retired, closed>>
    BY <2>4
  <2>5. CASE UNCHANGED queueVars
    BY <2>5 DEF queueVars
  <2> QED
    BY <2>1, <2>2, <2>3, <2>4, <2>5, QueueSteps DEF QueueStep
<1>2. stopped => stopped'
  BY QueueSteps DEF QueueStep, Push, queueVars
<1>3. main' \in {"config", "createAdapter"} => NothingYet'
  <2> SUFFICES ASSUME main' \in {"config", "createAdapter"}
               PROVE  NothingYet'
    OBVIOUS
  <2>1. main \in {"config", "createAdapter"}
    BY MainEnds DEF GetConfig, MainAt
  <2>2. ~CreateAdapter
    BY DEF CreateAdapter, MainGoes, MainReturns
  <2> QED
    BY <2>1, <2>2, QuietStep
<1>4. main' \in {"exit", "gone"} => stopped' \/ NothingYet'
  <2> SUFFICES ASSUME main' \in {"exit", "gone"}
               PROVE  stopped' \/ NothingYet'
    OBVIOUS
  <2>1. CASE Drain
    BY <2>1, <1>2 DEF Drain
  <2>2. CASE main \in {"config", "exit", "gone"}
    <3>1. ~CreateAdapter
      BY DEF CreateAdapter, MainGoes, MainReturns
    <3> QED
      BY <2>2, <3>1, <1>2, QuietStep
  <2>3. Drain \/ main \in {"config", "exit", "gone"}
    BY MainEnds DEF GetConfigFails, Exit, MainAt
  <2> QED
    BY <2>1, <2>2, <2>3
<1> QED
  BY <1>1, <1>3, <1>4

LEMMA ControlInit == Init => Control
<1> SUFFICES ASSUME Init
             PROVE  Control
  OBVIOUS
<1>1. ~closed /\ ~stopped
  BY DEF Init
<1>2. ExecControl /\ AdapterControl
  BY DEF Init, ExecControl, AdapterControl, BeforeExec, WithAdapter
<1>3. CloseControl
  BY <1>1 DEF Init, CloseControl
<1>4. DrainControl
  <2>1. NothingYet
    BY DEF Init, NothingYet
  <2> QED
    BY <1>1, <2>1 DEF DrainControl
<1> QED
  BY <1>2, <1>3, <1>4 DEF Control

\* The goroutines are always where Control says, with respect to one another.
THEOREM EngineControl == Spec => []Control
<1>1. TypeOK /\ Control /\ [Next]_vars => Control'
  BY ExecControlStep, AdapterControlStep, CloseControlStep, DrainControlStep DEF Control
<1> QED
  BY <1>1, ControlInit, EngineTypeCorrect, PTL DEF Spec

\* Nothing happens once the process has ended.
LEMMA EndedStays ==
    ASSUME process # "running", [Next]_vars
    PROVE  UNCHANGED vars
  BY DEF Next, MainStep, ExecStep, vars, Terminated, ExecAt, MainAt, NextCommand,
         CreateCommand, CreateCommandFails, BeginCommand, CommandPrints,
         CommandEnds, EndCommand, LogError, PublishArtifacts, SendAfterShutdown,
         ConsolePush, ConsoleDone, Transport, TransportStops, UpstreamEnds,
         Heartbeat, Interrupt, FirstInterrupt, SecondInterrupt, GetConfigFails,
         GetConfig, CreateAdapter, LogHello, PushInProgress, StartPlan,
         AdapterInit, AdapterPrepare, LogNotReady, ReportMetrics, SpawnExec,
         SelectFinished, SelectCancelled, LogAborted, CaptureSnapshot,
         PushSnapshotImageStatus, AdapterShutdown, LogFinished, PushFinished,
         CloseLog, WaitConsole, CloseQueue, Drain, Exit

-----------------------------------------------------------------------------
(* What follows from the control invariant. *)

\* Commands run in a prepared adapter, or in one being shut down under an
\* aborted build; a run that ends by itself leaves no prepared adapter.
THEOREM AdapterProtocolHolds == Spec => []AdapterProtocol
<1>1. Control => AdapterProtocol
  <2> SUFFICES ASSUME Control
               PROVE  AdapterProtocol
    OBVIOUS
  <2> USE DEF Control, AdapterControl, ExecControl, WithAdapter
  <2>1. main = "gone" => adapter # "prepared"
    OBVIOUS
  <2>2. ASSUME exec = "run"
        PROVE  \/ adapter = "prepared"
               \/ adapter = "shutdown" /\ result = "aborted"
    BY <2>2
  <2> QED
    BY <2>1, <2>2 DEF AdapterProtocol
<1> QED
  BY <1>1, EngineControl, PTL

\* A run that ends by itself has settled every report it made, and its console
\* goroutine holds no chunk.
THEOREM ExitDrained == Spec => []ExitIsDrained
<1>1. Control => ExitIsDrained
  <2> SUFFICES ASSUME Control, main = "gone"
               PROVE  retired = Len(accepted) /\ console \in {"off", "done"}
    BY DEF ExitIsDrained
  <2>1. console \in {"off", "done"}
    BY DEF Control, CloseControl
  <2>2. CASE stopped
    BY <2>1, <2>2 DEF Control, DrainControl
  <2>3. CASE NothingYet
    BY <2>1, <2>3, EmptySeq DEF NothingYet
  <2> QED
    BY <2>1, <2>2, <2>3 DEF Control, DrainControl
<1> QED
  BY <1>1, EngineControl, PTL

\* The process panics only in a command that cannot be created, or after an
\* abort, in the goroutine that the abort left behind.
THEOREM PanicsOnlyWhenAbandoned == Spec => []PanicOnlyWhenAbandoned
<1>1. Init => PanicOnlyWhenAbandoned
  BY DEF Init, PanicOnlyWhenAbandoned
<1>2. Control /\ PanicOnlyWhenAbandoned /\ [Next]_vars => PanicOnlyWhenAbandoned'
  <2> SUFFICES ASSUME Control, PanicOnlyWhenAbandoned, [Next]_vars,
                      process' = "panicked"
               PROVE  exec' = "create" \/ (closed' /\ result' = "aborted")
    BY DEF PanicOnlyWhenAbandoned
  <2>1. CASE process = "panicked"
    <3>1. UNCHANGED vars
      BY <2>1, EndedStays
    <3> QED
      BY <2>1, <3>1 DEF PanicOnlyWhenAbandoned, vars, mainVars, execVars, queueVars
  <2>2. CASE CreateCommandFails
    BY <2>2 DEF CreateCommandFails, ExecAt, execVars
  <2>3. CASE SendAfterShutdown
    <3>1. main \in {"drain", "exit", "gone"} /\ console # "push"
      BY <2>3 DEF SendAfterShutdown, Control, CloseControl
    <3>2. exec \in {"begin", "ended"}
      BY <2>3, <3>1 DEF SendAfterShutdown, Sending
    <3>3. result = "aborted"
      BY <3>1, <3>2 DEF Control, ExecControl
    <3> QED
      BY <2>3, <3>3 DEF SendAfterShutdown, mainVars, queueVars
  <2>4. CASE SecondInterrupt \/ Exit
    BY <2>4 DEF SecondInterrupt, Exit
  <2> QED
    BY <2>1, <2>2, <2>3, <2>4, ProcSteps
<1> QED
  BY <1>1, <1>2, EngineControl, PTL DEF Spec

-----------------------------------------------------------------------------
(* The history of reports.  A step appends at most one report, and which one  *)
(* it appends tells where the goroutine stood that made it.                   *)

NewReport(r) ==
    \/ r = LogChunk /\ UNCHANGED <<mainVars, execVars>>
    \/ r = Metrics /\ main \in {"prepareMetrics", "shutdownMetrics"} /\ UNCHANGED execVars
    \/ r = CommandStatus(current, "in_progress", "none") /\ BeginCommand
    \/ r = CommandStatus(current, "finished", ReturnCode) /\ EndCommand
    \/ r = JobstepStatus("in_progress", "none") /\ PushInProgress
    \/ r = JobstepStatus("finished", result) /\ PushFinished

LEMMA ReportsOfStep ==
    ASSUME [Next]_vars
    PROVE  (\E r : Push(r) /\ NewReport(r)) \/ UNCHANGED accepted
<1> USE DEF NewReport, queueVars
<1>1. CASE ConsolePush
  <2>1. Push(LogChunk) \/ UNCHANGED accepted
    BY <1>1 DEF ConsolePush
  <2>2. UNCHANGED <<mainVars, execVars>>
    BY <1>1 DEF ConsolePush
  <2> QED
    BY <2>1, <2>2
<1>2. CASE \/ ReportMetrics("prepareMetrics", "spawn")
           \/ ReportMetrics("shutdownMetrics", "logFinished")
  <2>1. Push(Metrics) \/ UNCHANGED accepted
    BY <1>2 DEF ReportMetrics
  <2>2. main \in {"prepareMetrics", "shutdownMetrics"} /\ UNCHANGED execVars
    BY <1>2 DEF ReportMetrics, MainAt
  <2> QED
    BY <2>1, <2>2
<1>3. CASE BeginCommand
  BY <1>3 DEF BeginCommand
<1>4. CASE EndCommand
  BY <1>4 DEF EndCommand
<1>5. CASE PushInProgress
  BY <1>5 DEF PushInProgress
<1>6. CASE PushFinished
  BY <1>6 DEF PushFinished
<1>7. \/ ConsolePush \/ BeginCommand \/ EndCommand \/ PushInProgress \/ PushFinished
      \/ ReportMetrics("prepareMetrics", "spawn")
      \/ ReportMetrics("shutdownMetrics", "logFinished")
      \/ UNCHANGED accepted
  BY DEF Next, MainStep, ExecStep, vars, Terminated, NextCommand, CreateCommand,
         CreateCommandFails, CommandPrints, CommandEnds, LogError, PublishArtifacts,
         SendAfterShutdown, ConsoleDone, Transport, TransportStops, UpstreamEnds,
         Heartbeat, Interrupt, FirstInterrupt, SecondInterrupt, GetConfigFails,
         GetConfig, CreateAdapter, LogHello, StartPlan, AdapterInit, AdapterPrepare,
         LogNotReady, SpawnExec, SelectFinished, SelectCancelled, LogAborted,
         CaptureSnapshot, PushSnapshotImageStatus, AdapterShutdown, LogFinished,
         CloseLog, WaitConsole, CloseQueue, Drain, Exit
<1> QED
  BY <1>1, <1>2, <1>3, <1>4, <1>5, <1>6, <1>7

\* The list of reports grows at its end.
LEMMA ReportsGrow ==
    ASSUME TypeOK, [Next]_vars
    PROVE  /\ Len(accepted) \in Nat
           /\ \A k \in 1..Len(accepted) : accepted[k] \in Report
           /\ \/ accepted' = accepted
              \/ /\ Len(accepted') = Len(accepted) + 1
                 /\ \A k \in 1..Len(accepted) : accepted'[k] = accepted[k]
                 /\ accepted'[Len(accepted) + 1] \in Report
                 /\ NewReport(accepted'[Len(accepted) + 1])
           /\ \A r : Reported(r) => Reported(r)'
<1>1. /\ accepted \in Seq(Report) /\ Len(accepted) \in Nat
      /\ \A k \in 1..Len(accepted) : accepted[k] \in Report
  BY LenProperties, ElementOfSeq DEF TypeOK, QueueTypes
<1>2. \/ accepted' = accepted
      \/ /\ Len(accepted') = Len(accepted) + 1
         /\ \A k \in 1..Len(accepted) : accepted'[k] = accepted[k]
         /\ accepted'[Len(accepted) + 1] \in Report
         /\ NewReport(accepted'[Len(accepted) + 1])
  <2>1. CASE \E r : Push(r) /\ NewReport(r)
    <3>1. PICK r : Push(r) /\ NewReport(r)
      BY <2>1
    <3>2. accepted' = Append(accepted, r)
      BY <3>1 DEF Push
    <3>3. accepted' \in Seq(Report)
      BY QueueSteps, QueueTypesStep DEF QueueTypes
    <3>4. accepted' # <<>>
      BY <3>2, <1>1
    <3>5. /\ Len(accepted') = Len(accepted) + 1
          /\ \A k \in 1..Len(accepted) : accepted'[k] = accepted[k]
          /\ accepted'[Len(accepted) + 1] = r
      BY <3>2, <1>1
    <3>6. accepted'[Len(accepted) + 1] \in Report
      BY <3>3, <3>5, <1>1, ElementOfSeq
    <3> QED
      BY <3>1, <3>5, <3>6
  <2> QED
    BY <2>1, ReportsOfStep
<1>3. \A r : Reported(r) => Reported(r)'
  <2>1. \A k \in 1..Len(accepted) : k \in 1..Len(accepted') /\ accepted'[k] = accepted[k]
    BY <1>1, <1>2
  <2> QED
    BY <2>1 DEF Reported
<1> QED
  BY <1>1, <1>2, <1>3

\* The fields of reports.
LEMMA ReportFields ==
    /\ \A s, r : JobstepStatus(s, r).kind = "job" /\ JobstepStatus(s, r).status = s
                 /\ JobstepStatus(s, r).value = r
    /\ \A i, s, c : CommandStatus(i, s, c).kind = "cmd" /\ CommandStatus(i, s, c).id = i
                    /\ CommandStatus(i, s, c).status = s
    /\ LogChunk.kind = "chunk" /\ Metrics.kind = "metrics"
    /\ \A r \in Report : r.kind = "cmd" => r.id \in 1..MaxCmds
    /\ \A r \in Report : r.kind = "job" =>
           \E s \in Statuses, v \in Results : r = JobstepStatus(s, v)
BY DEF JobstepStatus, CommandStatus, LogChunk, Metrics, Report

\* A step that reports no command.
LEMMA OtherReports ==
    ASSUME TypeOK, [Next]_vars, ~BeginCommand, ~EndCommand
    PROVE  \A k \in 1..Len(accepted') : accepted'[k].kind = "cmd" =>
               k \in 1..Len(accepted) /\ accepted'[k] = accepted[k]
<1>1. CASE accepted' = accepted
  BY <1>1
<1>2. CASE /\ Len(accepted') = Len(accepted) + 1
           /\ \A k \in 1..Len(accepted) : accepted'[k] = accepted[k]
           /\ NewReport(accepted'[Len(accepted) + 1])
  <2>1. accepted'[Len(accepted) + 1].kind # "cmd"
    BY <1>2, ReportFields DEF NewReport
  <2>2. \A k \in 1..Len(accepted') : k \in 1..Len(accepted) \/ k = Len(accepted) + 1
    BY <1>2, ReportsGrow
  <2> QED
    BY <1>2, <2>1, <2>2
<1> QED
  BY <1>1, <1>2, ReportsGrow

LEMMA CommandHistoryStep ==
    ASSUME TypeOK, Control, CommandHistory, [Next]_vars
    PROVE  CommandHistory'
<1> DEFINE last == Len(accepted) + 1
           About(k) == accepted[k].kind = "cmd" =>
                          /\ accepted[k].id <= current
                          /\ accepted[k].id = current =>
                                /\ exec \notin {"off", "next", "create", "begin"}
                                /\ exec \in {"run", "ended"} => accepted[k].status = "in_progress"
<1>0. /\ Len(accepted) \in Nat /\ current \in Nat
      /\ \A k \in 1..Len(accepted) : accepted[k].kind = "cmd" => accepted[k].id \in Nat
  <2>1. \A k \in 1..Len(accepted) : accepted[k].kind = "cmd" => accepted[k].id \in 1..MaxCmds
    BY ReportsGrow, ReportFields
  <2> QED
    BY <2>1, ReportsGrow, EngineAssumption DEF TypeOK, ExecTypes
<1>1. \A r : Reported(r) => Reported(r)'
  BY ReportsGrow
<1>2. CASE BeginCommand
  <2>1. /\ exec = "begin" /\ exec' = "run" /\ current' = current
        /\ accepted' = Append(accepted, CommandStatus(current, "in_progress", "none"))
    BY <1>2 DEF BeginCommand, ExecAt, Push
  <2>2. /\ Len(accepted') = last
        /\ \A k \in 1..Len(accepted) : accepted'[k] = accepted[k]
        /\ accepted'[last] = CommandStatus(current, "in_progress", "none")
    BY <2>1, AppendProperties DEF TypeOK, QueueTypes
  <2>3. \A k \in 1..Len(accepted') : About(k)'
    <3> SUFFICES ASSUME NEW k \in 1..Len(accepted')
                 PROVE  About(k)'
      OBVIOUS
    <3>1. CASE k = last
      BY <1>0, <2>1, <2>2, <3>1, ReportFields
    <3>2. CASE k \in 1..Len(accepted)
      BY <2>1, <2>2, <3>2 DEF CommandHistory
    <3> QED
      BY <1>0, <2>2, <3>1, <3>2
  <2>4. Reported(CommandStatus(current, "in_progress", "none"))'
    BY <1>0, <2>1, <2>2 DEF Reported, CommandStatus
  <2> QED
    BY <1>1, <2>1, <2>3, <2>4 DEF CommandHistory, CommandStatus
<1>3. CASE EndCommand
  <2>1. /\ exec = "ended" /\ exec' \in {"logError", "deliver", "publish"}
        /\ current' = current /\ outcome' = outcome
        /\ accepted' = Append(accepted, CommandStatus(current, "finished", ReturnCode))
    BY <1>3 DEF EndCommand, ExecAt, Push, ExecGoes, Deliver
  <2>2. /\ Len(accepted') = last
        /\ \A k \in 1..Len(accepted) : accepted'[k] = accepted[k]
        /\ accepted'[last] = CommandStatus(current, "finished", ReturnCode)
    BY <2>1, AppendProperties DEF TypeOK, QueueTypes
  <2>3. \A k \in 1..Len(accepted') : About(k)'
    <3> SUFFICES ASSUME NEW k \in 1..Len(accepted')
                 PROVE  About(k)'
      OBVIOUS
    <3>1. CASE k = last
      BY <1>0, <2>1, <2>2, <3>1, ReportFields
    <3>2. CASE k \in 1..Len(accepted)
      BY <2>1, <2>2, <3>2 DEF CommandHistory
    <3> QED
      BY <1>0, <2>2, <3>1, <3>2
  <2>4. outcome' = "pass" => Reported(CommandStatus(current, "finished", "0"))'
    BY <1>0, <2>1, <2>2 DEF Reported, CommandStatus, ReturnCode
  <2> QED
    BY <1>1, <2>1, <2>3, <2>4 DEF CommandHistory, CommandStatus
<1>4. CASE ~BeginCommand /\ ~EndCommand
  <2>1. \A k \in 1..Len(accepted') : accepted'[k].kind = "cmd" =>
            k \in 1..Len(accepted) /\ accepted'[k] = accepted[k]
    BY <1>4, OtherReports
  <2>2. CASE UNCHANGED execVars
    BY <1>1, <2>1, <2>2 DEF CommandHistory, CommandStatus, execVars
  <2>3. CASE NextCommand \/ CreateCommand \/ SpawnExec \/ SelectFinished \/ LogError
    <3>1. /\ current' = current
          /\ \/ exec = "next" /\ exec' \in {"create", "deliver"}
             \/ exec = "create" /\ exec' = "begin"
             \/ exec = "off" /\ exec' = "next"
             \/ exec = "deliver" /\ exec' = "done"
             \/ exec = "logError" /\ exec' = "deliver"
      BY <2>3 DEF NextCommand, CreateCommand, SpawnExec, SelectFinished, LogError,
         ExecAt, ExecGoes, Deliver, MainAt, Control, ExecControl, BeforeExec
    <3> QED
      BY <1>1, <2>1, <3>1 DEF CommandHistory, CommandStatus
  <2>4. CASE CommandPrints \/ CommandEnds
    <3>1. exec = "run" /\ exec' \in {"run", "ended"} /\ current' = current
      BY <2>4 DEF CommandPrints, CommandEnds, ExecAt
    <3> QED
      BY <1>1, <2>1, <3>1 DEF CommandHistory, CommandStatus
  <2>5. CASE PublishArtifacts
    <3>1. CASE current' = current /\ exec' \in {"logError", "deliver"}
      BY <1>1, <2>1, <3>1 DEF CommandHistory, CommandStatus
    <3>2. CASE exec = "publish" /\ outcome = "pass" /\ current' = current + 1 /\ exec' = "next"
      <4>1. \A i \in 1..(current' - 1) : i \in 1..(current - 1) \/ i = current
        BY <1>0, <3>2
      <4>2. \A i \in 1..(current' - 1) : Reported(CommandStatus(i, "finished", "0"))'
        BY <1>1, <3>2, <4>1 DEF CommandHistory, CommandStatus
      <4>3. \A k \in 1..Len(accepted') : About(k)'
        BY <1>0, <2>1, <3>2 DEF CommandHistory
      <4> QED
        BY <3>2, <4>2, <4>3 DEF CommandHistory
    <3> QED
      BY <2>5, <3>1, <3>2 DEF PublishArtifacts, ExecAt, ExecGoes, Deliver
  <2> QED
    BY <1>4, <2>2, <2>3, <2>4, <2>5, ExecMoves
<1> QED
  BY <1>2, <1>3, <1>4

\* What CommandProtocol says of the k-th report of s.
ProperReport(s, k) ==
    s[k].kind = "cmd" =>
        /\ \A j \in 1..(k - 1) :
              s[j].kind = "cmd" /\ s[j].id = s[k].id
                  => s[k].status = "finished" /\ s[j].status = "in_progress"
        /\ s[k].status = "finished" =>
              \E j \in 1..(k - 1) : s[j] = CommandStatus(s[k].id, "in_progress", "none")
        /\ s[k].status = "in_progress" /\ s[k].id > 1 =>
              \E j \in 1..(k - 1) : s[j] = CommandStatus(s[k].id - 1, "finished", "0")

LEMMA ProperPrefix ==
    ASSUME NEW s, NEW t, NEW k \in Nat, \A j \in 1..k : s[j] = t[j],
           k > 0, ProperReport(s, k)
    PROVE  ProperReport(t, k)
<1>1. s[k] = t[k] /\ \A j \in 1..(k - 1) : s[j] = t[j]
  OBVIOUS
<1> QED
  BY <1>1 DEF ProperReport

LEMMA ProtocolIsProper ==
    CommandProtocol <=> \A k \in DOMAIN accepted : ProperReport(accepted, k)
BY DEF CommandProtocol, ProperReport

\* What a command is reported with agrees with what was reported before it.
LEMMA CommandProtocolStep ==
    ASSUME TypeOK, CommandHistory, CommandProtocol, [Next]_vars
    PROVE  CommandProtocol'
<1> DEFINE last == Len(accepted) + 1
           now == accepted'
<1>0. Len(accepted) \in Nat /\ current \in Nat
  BY ReportsGrow DEF TypeOK, ExecTypes
<1>1. DOMAIN accepted = 1..Len(accepted) /\ DOMAIN now = 1..Len(now)
  <2>1. accepted \in Seq(Report) /\ accepted' \in Seq(Report)
    BY QueueSteps, QueueTypesStep DEF TypeOK, QueueTypes
  <2> QED
    BY <2>1, LenProperties
<1>2. \A k \in 1..Len(accepted) : ProperReport(accepted, k)
  BY <1>1, ProtocolIsProper
<1>3. SUFFICES \A k \in 1..Len(now) : ProperReport(now, k)
  <2>1. ASSUME \A k \in DOMAIN accepted' : ProperReport(accepted', k)
        PROVE  CommandProtocol'
    BY <2>1 DEF CommandProtocol, ProperReport
  <2> QED
    BY <1>1, <2>1
<1>4. CASE now = accepted
  BY <1>2, <1>4
<1>5. CASE /\ Len(now) = last
           /\ \A k \in 1..Len(accepted) : now[k] = accepted[k]
           /\ NewReport(now[last])
  <2>1. ASSUME NEW k \in 1..Len(accepted)
        PROVE  ProperReport(now, k)
    <3>1. \A j \in 1..k : accepted[j] = now[j]
      BY <1>0, <1>5
    <3> QED
      BY <1>0, <1>2, <3>1, ProperPrefix
  <2>2. ProperReport(now, last)
    <3>0. /\ last - 1 = Len(accepted)
          /\ \A j \in 1..(last - 1) : now[j] = accepted[j]
      BY <1>0, <1>5
    <3> HIDE DEF now, last
    <3>1. CASE now[last].kind # "cmd"
      BY <3>1 DEF ProperReport
    <3>2. CASE now[last] = CommandStatus(current, "in_progress", "none") /\ BeginCommand
      <4>1. exec = "begin"
        BY <3>2 DEF BeginCommand, ExecAt
      <4>2. \A j \in 1..(last - 1) : ~(now[j].kind = "cmd" /\ now[j].id = current)
        BY <3>0, <4>1 DEF CommandHistory
      <4>3. current > 1 => \E j \in 1..(last - 1) :
                               now[j] = CommandStatus(current - 1, "finished", "0")
        <5> SUFFICES ASSUME current > 1
                     PROVE  \E j \in 1..(last - 1) :
                                now[j] = CommandStatus(current - 1, "finished", "0")
          OBVIOUS
        <5>1. current - 1 \in 1..(current - 1)
          BY <1>0
        <5>2. Reported(CommandStatus(current - 1, "finished", "0"))
          BY <5>1 DEF CommandHistory
        <5> QED
          BY <3>0, <5>2 DEF Reported
      <4>4. now[last].id = current /\ now[last].status = "in_progress"
        BY <3>2, ReportFields
      <4> QED
        BY <4>2, <4>3, <4>4 DEF ProperReport
    <3>3. CASE now[last] = CommandStatus(current, "finished", ReturnCode) /\ EndCommand
      <4>1. exec = "ended"
        BY <3>3 DEF EndCommand, ExecAt
      <4>2. \A j \in 1..(last - 1) :
                now[j].kind = "cmd" /\ now[j].id = current => now[j].status = "in_progress"
        BY <3>0, <4>1 DEF CommandHistory
      <4>3. \E j \in 1..(last - 1) : now[j] = CommandStatus(current, "in_progress", "none")
        BY <3>0, <4>1 DEF CommandHistory, Reported
      <4>4. now[last].id = current /\ now[last].status = "finished"
        BY <3>3, ReportFields
      <4> QED
        BY <4>2, <4>3, <4>4 DEF ProperReport
    <3> QED
      BY <1>5, <3>1, <3>2, <3>3, ReportFields DEF NewReport
  <2>3. \A k \in 1..Len(now) : k \in 1..Len(accepted) \/ k = last
    BY <1>0, <1>5
  <2> QED
    BY <2>1, <2>2, <2>3
<1> QED
  BY <1>4, <1>5, ReportsGrow

LEMMA ResultHistoryStep ==
    ASSUME TypeOK, Control, ResultHistory, [Next]_vars
    PROVE  ResultHistory'
<1> DEFINE Verdict == /\ err <=> result = "infra_failed"
                      /\ main \notin (BeforeExec \ {"logNotReady"}) \union {"select"} =>
                            result # "none"
                      /\ result = "passed" /\ config.snapshot =>
                            main \in {"snapshot", "pushSnapshot"} \/ snapshot = "active"
           Delivery == /\ delivery.err <=> delivery.result = "infra_failed"
                       /\ exec = "deliver" => delivery.result # "none"
                       /\ delivery.result = "passed" =>
                             exec \in {"deliver", "done"} /\ current > Len(config.cmds)
           Passing == result = "passed" => exec = "done" /\ delivery.result = "passed"
           Gone == main = "gone" => process # "running" /\ exitCode = ExitCodeOf(RunResult)
<1>0. config' = config
  BY ProcSteps
<1>1. Verdict'
  <2> USE DEF BeforeExec, MainAt, MainGoes, MainReturns
  <2>0. Verdict
    BY DEF ResultHistory
  <2>1. CASE UNCHANGED mainVars
    BY <1>0, <2>0, <2>1 DEF mainVars
  <2>2. CASE GetConfigFails \/ GetConfig \/ CreateAdapter \/ LogHello \/ PushInProgress
    BY <1>0, <2>0, <2>2 DEF GetConfigFails, GetConfig, CreateAdapter, LogHello, PushInProgress
  <2>3. CASE StartPlan \/ AdapterInit \/ AdapterPrepare \/ LogNotReady
    BY <1>0, <2>0, <2>3 DEF StartPlan, AdapterInit, AdapterPrepare, LogNotReady
  <2>4. CASE \/ ReportMetrics("prepareMetrics", "spawn")
             \/ ReportMetrics("shutdownMetrics", "logFinished")
             \/ SpawnExec
    BY <1>0, <2>0, <2>4 DEF ReportMetrics, SpawnExec
  <2>5. CASE SelectFinished
    <3>1. /\ delivery.err <=> delivery.result = "infra_failed"
          /\ delivery.result # "none"
      BY <2>5 DEF ResultHistory, SelectFinished
    <3>2. /\ result' = delivery.result /\ err' = delivery.err
          /\ main' = IF delivery.result = "passed" /\ config.snapshot
                     THEN "snapshot" ELSE "adapterShutdown"
      BY <2>5 DEF SelectFinished
    <3> QED
      BY <1>0, <3>1, <3>2
  <2>6. CASE SelectCancelled \/ LogAborted \/ CaptureSnapshot
    BY <1>0, <2>0, <2>6 DEF SelectCancelled, LogAborted, CaptureSnapshot
  <2>7. CASE PushSnapshotImageStatus
    <3>1. PICK pushed \in BOOLEAN :
              /\ snapshot' = IF pushed THEN snapshot ELSE "failed"
              /\ IF snapshot = "active" /\ pushed
                 THEN UNCHANGED <<result, err>>
                 ELSE result' = "infra_failed" /\ err' = TRUE
      BY <2>7 DEF PushSnapshotImageStatus
    <3>2. main = "pushSnapshot" /\ main' = "adapterShutdown"
      BY <2>7 DEF PushSnapshotImageStatus
    <3>3. CASE snapshot = "active" /\ pushed
      BY <1>0, <2>0, <3>1, <3>2, <3>3
    <3>4. CASE ~(snapshot = "active" /\ pushed)
      BY <1>0, <2>0, <3>1, <3>2, <3>4
    <3> QED
      BY <3>3, <3>4
  <2>8. CASE AdapterShutdown \/ LogFinished \/ PushFinished \/ CloseLog
    BY <1>0, <2>0, <2>8 DEF AdapterShutdown, LogFinished, PushFinished, CloseLog
  <2>9. CASE WaitConsole \/ CloseQueue \/ Drain \/ Exit
    BY <1>0, <2>0, <2>9 DEF WaitConsole, CloseQueue, Drain, Exit
  <2> QED
    BY <2>1, <2>2, <2>3, <2>4, <2>5, <2>6, <2>7, <2>8, <2>9, MainMoves DEF MainStep
<1>2. Delivery'
  <2> USE DEF ExecAt, ExecGoes
  <2>0. Delivery
    BY DEF ResultHistory
  <2>1. CASE UNCHANGED execVars
    BY <1>0, <2>0, <2>1 DEF execVars
  <2>2. ASSUME NEW r, NEW e, Deliver(r, e), e <=> r = "infra_failed", r # "none",
               r = "passed" => current > Len(config.cmds)
        PROVE  Delivery'
    BY <1>0, <2>2 DEF Deliver
  <2>3. CASE exec' # "deliver" /\ UNCHANGED <<delivery, current>> /\ exec \notin {"deliver", "done"}
    BY <1>0, <2>0, <2>3
  <2>4. CASE NextCommand
    <3>1. \/ current > Len(config.cmds) /\ Deliver("passed", FALSE)
          \/ exec = "next" /\ ExecGoes("create")
      BY <2>4 DEF NextCommand
    <3> QED
      BY <2>2, <2>3, <3>1
  <2>5. CASE CreateCommand \/ BeginCommand \/ CommandPrints \/ CommandEnds
    BY <2>3, <2>5 DEF CreateCommand, BeginCommand, CommandPrints, CommandEnds
  <2>6. CASE EndCommand \/ LogError
    <3>1. \/ Deliver("infra_failed", TRUE)
          \/ exec = "ended" /\ ExecGoes("logError")
          \/ exec = "ended" /\ ExecGoes("publish")
      BY <2>6 DEF EndCommand, LogError
    <3> QED
      BY <2>2, <2>3, <3>1
  <2>7. CASE PublishArtifacts
    <3>1. \/ Deliver("failed", FALSE)
          \/ exec = "publish" /\ ExecGoes("logError")
          \/ exec = "publish" /\ exec' = "next" /\ delivery' = delivery
      BY <2>7 DEF PublishArtifacts
    <3> QED
      BY <1>0, <2>0, <2>2, <2>3, <3>1
  <2>8. CASE SpawnExec
    <3>1. exec = "off" /\ exec' = "next" /\ UNCHANGED <<delivery, current>>
      BY <2>8 DEF SpawnExec, MainAt, Control, ExecControl, BeforeExec
    <3> QED
      BY <2>3, <3>1
  <2>9. CASE SelectFinished
    BY <1>0, <2>0, <2>9 DEF SelectFinished
  <2> QED
    BY <2>1, <2>4, <2>5, <2>6, <2>7, <2>8, <2>9, ExecMoves DEF execVars
<1>3. Passing'
  <2>0. Passing
    BY DEF ResultHistory
  <2>1. CASE SelectFinished
    BY <2>1 DEF SelectFinished, MainReturns
  <2>2. CASE SpawnExec
    BY <2>0, <2>2 DEF SpawnExec, MainGoes, MainAt, Control, ExecControl, BeforeExec
  <2>3. CASE ~SelectFinished /\ ~SpawnExec
    <3>1. result' = "passed" => result = "passed"
      <4>1. CASE UNCHANGED mainVars
        BY <4>1 DEF mainVars
      <4>2. CASE PushSnapshotImageStatus
        BY <4>2 DEF PushSnapshotImageStatus
      <4> QED
        BY <2>3, <4>1, <4>2, MainMoves DEF MainStep, MainGoes, MainReturns, GetConfigFails,
         GetConfig, CreateAdapter, LogHello, PushInProgress, StartPlan, AdapterInit,
         AdapterPrepare, LogNotReady, ReportMetrics, SelectCancelled, LogAborted,
         CaptureSnapshot, AdapterShutdown, LogFinished, PushFinished, CloseLog,
         WaitConsole, CloseQueue, Drain, Exit
    <3>2. exec = "done" => UNCHANGED execVars
      BY <2>3, ExecMoves DEF NextCommand, CreateCommand, BeginCommand, CommandPrints,
         CommandEnds, EndCommand, LogError, PublishArtifacts, ExecAt, execVars
    <3> QED
      BY <2>0, <3>1, <3>2 DEF execVars
  <2> QED
    BY <2>1, <2>2, <2>3
<1>4. Gone'
  <2>1. CASE main = "gone"
    <3>1. UNCHANGED vars
      BY <2>1, EndedStays DEF ResultHistory
    <3> QED
      BY <2>1, <3>1 DEF ResultHistory, vars, procVars, mainVars, ExitCodeOf, RunResult
  <2>2. CASE main # "gone" /\ main' = "gone"
    <3>1. Exit
      BY <2>2, MainEnds
    <3> QED
      BY <3>1 DEF Exit, MainGoes, ExitCodeOf, RunResult
  <2> QED
    BY <2>1, <2>2
<1> QED
  BY <1>1, <1>2, <1>3, <1>4 DEF ResultHistory

Early == {"config", "createAdapter", "hello", "pushInProgress"}

\* Main's way in and out of its first and its last steps.
LEMMA MainFrames ==
    ASSUME [Next]_vars
    PROVE  /\ main' \in Early => main \in Early
           /\ main \in AfterFinish =>
                  main' \in AfterFinish /\ UNCHANGED <<result, err, snapshot>>
           /\ main \notin AfterFinish /\ main' \in AfterFinish =>
                  \/ PushFinished
                  \/ main \in {"config", "createAdapter"} /\ result' = "infra_failed"
<1> USE DEF Early, AfterFinish, MainAt, MainGoes, MainReturns
<1>1. CASE UNCHANGED mainVars
  BY <1>1 DEF mainVars
<1>2. CASE GetConfigFails \/ GetConfig \/ CreateAdapter \/ LogHello \/ PushInProgress
  BY <1>2 DEF GetConfigFails, GetConfig, CreateAdapter, LogHello, PushInProgress
<1>3. CASE StartPlan \/ AdapterInit \/ AdapterPrepare \/ LogNotReady
  BY <1>3 DEF StartPlan, AdapterInit, AdapterPrepare, LogNotReady
<1>4. CASE \/ ReportMetrics("prepareMetrics", "spawn")
           \/ ReportMetrics("shutdownMetrics", "logFinished")
           \/ SpawnExec
  BY <1>4 DEF ReportMetrics, SpawnExec
<1>5. CASE SelectFinished \/ SelectCancelled \/ LogAborted
  BY <1>5 DEF SelectFinished, SelectCancelled, LogAborted
<1>6. CASE CaptureSnapshot \/ PushSnapshotImageStatus \/ AdapterShutdown
  BY <1>6 DEF CaptureSnapshot, PushSnapshotImageStatus, AdapterShutdown
<1>7. CASE LogFinished \/ PushFinished \/ CloseLog \/ WaitConsole
  BY <1>7 DEF LogFinished, PushFinished, CloseLog, WaitConsole
<1>8. CASE CloseQueue \/ Drain \/ Exit
  BY <1>8 DEF CloseQueue, Drain, Exit
<1> QED
  BY <1>1, <1>2, <1>3, <1>4, <1>5, <1>6, <1>7, <1>8, MainMoves DEF MainStep

\* Who reports what while main is where.
LEMMA ReportersByPlace ==
    ASSUME TypeOK, Control, [Next]_vars, NEW r, NewReport(r)
    PROVE  /\ main \in Early \ {"pushInProgress"} => r = LogChunk
           /\ main = "pushInProgress" => r = LogChunk \/ PushInProgress
           /\ main \in AfterFinish =>
                  r = LogChunk \/ (r.kind = "cmd" /\ result = "aborted")
           /\ r.kind = "job" =>
                  \/ PushInProgress /\ main = "pushInProgress"
                     /\ r = JobstepStatus("in_progress", "none")
                  \/ PushFinished /\ main = "pushFinished"
                     /\ r = JobstepStatus("finished", result)
<1>1. CASE r = LogChunk
  BY <1>1, ReportFields
<1>2. CASE r = Metrics /\ main \in {"prepareMetrics", "shutdownMetrics"}
  BY <1>2, ReportFields DEF Early, AfterFinish
<1>3. CASE \/ r = CommandStatus(current, "in_progress", "none") /\ BeginCommand
           \/ r = CommandStatus(current, "finished", ReturnCode) /\ EndCommand
  <2>0. exec \in {"begin", "ended"}
    <3>1. BeginCommand \/ EndCommand
      BY <1>3
    <3>2. ASSUME BeginCommand
          PROVE  exec = "begin"
      BY <3>2 DEF BeginCommand, ExecAt
    <3>3. ASSUME EndCommand
          PROVE  exec = "ended"
      BY <3>3 DEF EndCommand, ExecAt
    <3> QED
      BY <3>1, <3>2, <3>3
  <2>1. r.kind = "cmd" /\ exec \in {"begin", "ended"}
    BY <1>3, <2>0, ReportFields
  <2>2. main = "select" \/ result = "aborted"
    BY <2>1 DEF Control, ExecControl
  <2>3. main \notin Early
    BY <2>1 DEF Control, ExecControl, BeforeExec, Early
  <2>4. main \in AfterFinish => result = "aborted"
    BY <2>2 DEF AfterFinish
  <2> QED
    BY <2>1, <2>3, <2>4 DEF Early
<1>4. CASE r = JobstepStatus("in_progress", "none") /\ PushInProgress
  BY <1>4 DEF PushInProgress, MainAt, Early, AfterFinish
<1>5. CASE r = JobstepStatus("finished", result) /\ PushFinished
  BY <1>5 DEF PushFinished, MainAt, Early, AfterFinish
<1> QED
  BY <1>1, <1>2, <1>3, <1>4, <1>5 DEF NewReport

LEMMA JobHistoryStep ==
    ASSUME TypeOK, Control, JobHistory, [Next]_vars
    PROVE  JobHistory'
<1> DEFINE last == Len(accepted) + 1
           now == accepted'
<1>1. /\ Len(accepted) \in Nat
      /\ \/ now = accepted
         \/ /\ Len(now) = last
            /\ \A k \in 1..Len(accepted) : now[k] = accepted[k]
            /\ NewReport(now[last])
      /\ \A r : Reported(r) => Reported(r)'
  BY ReportsGrow
<1>2. \A k \in 1..Len(now) : \/ k \in 1..Len(accepted) /\ now[k] = accepted[k]
                             \/ k = last /\ NewReport(now[last]) /\ Len(now) = last
  BY <1>1
<1> HIDE DEF last, now
<1>3. ASSUME main' \in Early, NEW k \in 1..Len(now)
      PROVE  now[k] = LogChunk
  <2>1. main \in Early
    BY <1>3, MainFrames
  <2>2. CASE k \in 1..Len(accepted) /\ now[k] = accepted[k]
    BY <2>1, <2>2 DEF JobHistory, Early
  <2>3. CASE k = last /\ NewReport(now[last])
    <3>1. ~PushInProgress
      BY <1>3 DEF PushInProgress, MainGoes, Early
    <3> QED
      BY <2>1, <2>3, <3>1, ReportersByPlace DEF Early
  <2> QED
    BY <1>2, <2>2, <2>3
<1>4. ASSUME NEW k \in 1..Len(now), now[k].kind = "job", now[k].status = "finished"
      PROVE  main' \in AfterFinish /\ now[k].value = result'
  <2>1. CASE k \in 1..Len(accepted) /\ now[k] = accepted[k]
    BY <1>4, <2>1, MainFrames DEF JobHistory
  <2>2. CASE k = last /\ NewReport(now[last])
    <3>1. PushFinished /\ now[k] = JobstepStatus("finished", result)
      BY <1>4, <2>2, ReportersByPlace, ReportFields
    <3> QED
      BY <3>1, ReportFields DEF PushFinished, MainGoes, AfterFinish
  <2> QED
    BY <1>2, <2>1, <2>2
<1>5. ASSUME main' \in AfterFinish
      PROVE  \/ Reported(JobstepStatus("finished", result))'
             \/ result' = "infra_failed" /\ \A k \in 1..Len(now) : now[k].kind # "job"
  <2>1. CASE PushFinished
    <3>1. /\ now = Append(accepted, JobstepStatus("finished", result))
          /\ result' = result
      BY <2>1 DEF PushFinished, Push, MainGoes, now
    <3>2. Len(now) = last /\ now[last] = JobstepStatus("finished", result)
      BY <3>1, AppendProperties DEF TypeOK, QueueTypes, last
    <3> QED
      BY <1>1, <3>1, <3>2 DEF Reported, JobstepStatus, now, last
  <2>2. CASE main \in {"config", "createAdapter"} /\ result' = "infra_failed"
    <3>1. \A k \in 1..Len(now) : now[k] = LogChunk
      <4> SUFFICES ASSUME NEW k \in 1..Len(now)
                   PROVE  now[k] = LogChunk
        OBVIOUS
      <4>1. CASE k \in 1..Len(accepted) /\ now[k] = accepted[k]
        BY <2>2, <4>1 DEF JobHistory
      <4>2. CASE k = last /\ NewReport(now[last])
        BY <2>2, <4>2, ReportersByPlace DEF Early
      <4> QED
        BY <1>2, <4>1, <4>2
    <3> QED
      BY <2>2, <3>1, ReportFields
  <2>3. CASE main \in AfterFinish
    <3>1. result' = result
      BY <2>3, MainFrames
    <3>2. CASE Reported(JobstepStatus("finished", result))
      BY <1>1, <3>1, <3>2 DEF JobstepStatus
    <3>3. CASE result = "infra_failed" /\ \A k \in 1..Len(accepted) : accepted[k].kind # "job"
      <4>1. ASSUME NEW k \in 1..Len(now)
            PROVE  now[k].kind # "job"
        BY <1>2, <2>3, <3>3, ReportersByPlace, ReportFields DEF AfterFinish
      <4> QED
        BY <3>1, <3>3, <4>1
    <3> QED
      BY <2>3, <3>2, <3>3 DEF JobHistory
  <2> QED
    BY <1>5, <2>1, <2>2, <2>3, MainFrames
<1> QED
  BY <1>3, <1>4, <1>5 DEF JobHistory, Early, now

\* What PassedIsDeserved asks of the reports before the k-th of s.
DeservedBefore(s, k) ==
    \A i \in 1..Len(config.cmds) :
        \E j \in 1..(k - 1) : s[j] = CommandStatus(i, "finished", "0")

LEMMA PassedStep ==
    ASSUME TypeOK, Control, CommandHistory, ResultHistory, JobHistory,
           PassedIsDeserved, [Next]_vars
    PROVE  PassedIsDeserved'
<1> DEFINE last == Len(accepted) + 1
           now == accepted'
           pass == JobstepStatus("finished", "passed")
<1>1. /\ Len(accepted) \in Nat
      /\ \/ now = accepted
         \/ /\ Len(now) = last
            /\ \A k \in 1..Len(accepted) : now[k] = accepted[k]
            /\ NewReport(now[last])
  BY ReportsGrow
<1>2. DOMAIN accepted = 1..Len(accepted) /\ DOMAIN now = 1..Len(now)
  <2>1. accepted \in Seq(Report) /\ accepted' \in Seq(Report)
    BY QueueSteps, QueueTypesStep DEF TypeOK, QueueTypes
  <2> QED
    BY <2>1, LenProperties
<1>3. config' = config
  BY ProcSteps
<1>4. ASSUME NEW k \in 1..Len(now), now[k] = pass
      PROVE  DeservedBefore(now, k) /\ (config.snapshot => snapshot' = "active")
  <2>1. CASE k \in 1..Len(accepted) /\ now[k] = accepted[k]
    <3>1. \A j \in 1..(k - 1) : now[j] = accepted[j]
      BY <1>1, <2>1
    <3>2. DeservedBefore(accepted, k) /\ (config.snapshot => snapshot = "active")
      BY <1>2, <1>4, <2>1 DEF PassedIsDeserved, DeservedBefore
    <3>3. DeservedBefore(now, k)
      BY <3>1, <3>2 DEF DeservedBefore
    <3>4. main \in AfterFinish
      BY <1>4, <2>1, ReportFields DEF JobHistory
    <3>5. snapshot' = snapshot
      BY <3>4, MainFrames
    <3> QED
      BY <3>2, <3>3, <3>5
  <2>2. CASE k = last /\ NewReport(now[last])
    <3>1. PushFinished /\ main = "pushFinished" /\ pass = JobstepStatus("finished", result)
      BY <1>4, <2>2, ReportersByPlace, ReportFields
    <3>2. result = "passed"
      BY <3>1 DEF JobstepStatus
    <3>3. current > Len(config.cmds)
          /\ (config.snapshot => snapshot = "active")
      BY <3>1, <3>2 DEF ResultHistory
    <3>4. snapshot' = snapshot
      BY <3>1 DEF PushFinished, MainGoes
    <3>5. current \in Nat /\ Len(config.cmds) \in Nat
      BY ConfigBounds DEF TypeOK, ExecTypes
    <3>6. \A i \in 1..Len(config.cmds) : Reported(CommandStatus(i, "finished", "0"))
      BY <3>3, <3>5 DEF CommandHistory
    <3>7. /\ k - 1 = Len(accepted)
          /\ \A j \in 1..Len(accepted) : now[j] = accepted[j]
      BY <1>1, <2>2
    <3>8. DeservedBefore(now, k)
      BY <3>6, <3>7 DEF DeservedBefore, Reported
    <3> QED
      BY <3>3, <3>4, <3>8
  <2> QED
    BY <1>1, <2>1, <2>2
<1>5. ASSUME \A k \in DOMAIN accepted' : accepted'[k] = pass =>
                 DeservedBefore(accepted', k) /\ (config.snapshot => snapshot' = "active")
      PROVE  PassedIsDeserved'
  BY <1>3, <1>5 DEF PassedIsDeserved, DeservedBefore, CommandStatus, JobstepStatus
<1> QED
  BY <1>2, <1>4, <1>5

LEMMA FramesStep ==
    ASSUME TypeOK, Control, JobHistory, JobstepFrames, [Next]_vars
    PROVE  JobstepFrames'
<1> DEFINE last == Len(accepted) + 1
           now == accepted'
           Framed(s, j, k) ==
               /\ s[k] = JobstepStatus("in_progress", "none") => s[j] = LogChunk
               /\ s[j].kind = "job" /\ s[j].status = "finished" =>
                     \/ s[k] = LogChunk
                     \/ s[k].kind = "cmd" /\ s[j].value = "aborted"
<1>1. /\ Len(accepted) \in Nat
      /\ \/ now = accepted
         \/ /\ Len(now) = last
            /\ \A k \in 1..Len(accepted) : now[k] = accepted[k]
            /\ NewReport(now[last])
  BY ReportsGrow
<1>2. DOMAIN accepted = 1..Len(accepted) /\ DOMAIN now = 1..Len(now)
  <2>1. accepted \in Seq(Report) /\ accepted' \in Seq(Report)
    BY QueueSteps, QueueTypesStep DEF TypeOK, QueueTypes
  <2> QED
    BY <2>1, LenProperties
<1>3. ASSUME NEW j \in 1..Len(now), NEW k \in 1..Len(now), j < k
      PROVE  Framed(now, j, k)
  <2>1. CASE k \in 1..Len(accepted)
    <3>1. j \in 1..Len(accepted) /\ now[j] = accepted[j] /\ now[k] = accepted[k]
      BY <1>1, <1>3, <2>1
    <3> QED
      BY <1>2, <1>3, <2>1, <3>1 DEF JobstepFrames
  <2>2. CASE k = last /\ NewReport(now[last])
    <3>1. j \in 1..Len(accepted) /\ now[j] = accepted[j]
      BY <1>1, <1>3, <2>2
    <3>2. now[k] = JobstepStatus("in_progress", "none") => now[j] = LogChunk
      <4> SUFFICES ASSUME now[k] = JobstepStatus("in_progress", "none")
                   PROVE  now[j] = LogChunk
        OBVIOUS
      <4>1. now[k].kind = "job" /\ now[k].status # "finished"
        BY ReportFields
      <4>2. main = "pushInProgress"
        BY <2>2, <4>1, ReportersByPlace, ReportFields
      <4> QED
        BY <3>1, <4>2 DEF JobHistory
    <3>3. ASSUME now[j].kind = "job", now[j].status = "finished"
          PROVE  \/ now[k] = LogChunk
                 \/ now[k].kind = "cmd" /\ now[j].value = "aborted"
      <4>1. main \in AfterFinish /\ now[j].value = result
        BY <3>1, <3>3 DEF JobHistory
      <4> QED
        BY <2>2, <4>1, ReportersByPlace
    <3> QED
      BY <3>2, <3>3
  <2> QED
    BY <1>1, <2>1, <2>2
<1>4. ASSUME \A j, k \in DOMAIN accepted' : j < k => Framed(accepted', j, k)
      PROVE  JobstepFrames'
  BY <1>4 DEF JobstepFrames, JobstepStatus, LogChunk
<1> QED
  BY <1>2, <1>3, <1>4

LEMMA HistoryInit == Init => History
<1> SUFFICES ASSUME Init
             PROVE  History
  OBVIOUS
<1>1. Len(accepted) = 0 /\ DOMAIN accepted = {}
  BY EmptySeq DEF Init
<1>2. CommandHistory
  BY <1>1 DEF Init, CommandHistory
<1>3. ResultHistory
  BY DEF Init, ResultHistory, NoDelivery, BeforeExec
<1>4. JobHistory
  BY <1>1 DEF Init, JobHistory, AfterFinish
<1>5. CommandProtocol /\ PassedIsDeserved /\ JobstepFrames
  BY <1>1 DEF CommandProtocol, PassedIsDeserved, JobstepFrames
<1> QED
  BY <1>2, <1>3, <1>4, <1>5 DEF History

\* The reports made so far and the results decided so far are what the places of
\* the goroutines say.
THEOREM EngineHistory == Spec => []History
<1>1. TypeOK /\ Control /\ History /\ [Next]_vars => History'
  BY CommandHistoryStep, ResultHistoryStep, JobHistoryStep, CommandProtocolStep,
     PassedStep, FramesStep DEF History
<1> QED
  BY <1>1, HistoryInit, EngineTypeCorrect, EngineControl, PTL DEF Spec

\* The server is told a proper history of commands: each in progress once, after
\* the one before it finished with code 0, and finished once, after that.
THEOREM CommandsReportedInProtocol == Spec => []CommandProtocol
<1>1. History => CommandProtocol
  BY DEF History
<1> QED
  BY <1>1, EngineHistory, PTL

\* A build is reported as passed only after each of its commands was reported
\* finished with code 0 and a snapshot that was asked for is active.
THEOREM PassesAreDeserved == Spec => []PassedIsDeserved
<1>1. History => PassedIsDeserved
  BY DEF History
<1> QED
  BY <1>1, EngineHistory, PTL

\* The job step's reports frame all others but console output, and those of the
\* goroutine that an abort left behind.
THEOREM JobstepFramesReports == Spec => []JobstepFrames
<1>1. History => JobstepFrames
  BY DEF History
<1> QED
  BY <1>1, EngineHistory, PTL

\* The exit code agrees with the result the server was told, or tells of a run
\* that never reported its job step.
THEOREM ExitCodeIsTold == Spec => []ExitCodeTellsResult
<1>1. TypeOK /\ History => ExitCodeTellsResult
  <2> SUFFICES ASSUME TypeOK, History, main = "gone", config.exitResult
               PROVE  LET Told(r) == \E k \in DOMAIN accepted :
                                         accepted[k] = JobstepStatus("finished", r)
                      IN  /\ exitCode = 0 => Told("passed")
                          /\ exitCode = 1 => Told("failed") \/ Told("aborted")
                          /\ exitCode = 99 => \/ Told("infra_failed")
                                              \/ \A k \in DOMAIN accepted :
                                                     accepted[k].kind # "job"
    BY DEF ExitCodeTellsResult
  <2>1. DOMAIN accepted = 1..Len(accepted)
    BY LenProperties DEF TypeOK, QueueTypes
  <2>2. /\ err <=> result = "infra_failed"
        /\ result # "none" /\ exitCode = ExitCodeOf(RunResult)
    BY DEF History, ResultHistory, BeforeExec
  <2>3. RunResult = result
    BY <2>2 DEF RunResult
  <2>4. /\ result = "passed" => exitCode = 0
        /\ result = "infra_failed" => exitCode = 99
        /\ result \notin {"passed", "infra_failed"} => exitCode = 1
    BY <2>2, <2>3 DEF ExitCodeOf
  <2>5. \/ Reported(JobstepStatus("finished", result))
        \/ result = "infra_failed" /\ \A k \in 1..Len(accepted) : accepted[k].kind # "job"
    BY DEF History, JobHistory, AfterFinish
  <2>6. result \in {"passed", "failed", "aborted", "infra_failed"}
    BY <2>2 DEF TypeOK, MainTypes, Results
  <2> QED
    BY <2>1, <2>4, <2>5, <2>6 DEF Reported
<1> QED
  BY <1>1, EngineHistory, EngineTypeCorrect, PTL

-----------------------------------------------------------------------------
(* What the server may see. *)

\* The commands are reported in their order: what is reported is the current one.
CommandsInOrder ==
    \A j, k \in 1..Len(accepted) :
        j < k /\ accepted[j].kind = "cmd" /\ accepted[k].kind = "cmd"
            => accepted[j].id <= accepted[k].id

\* A step reports the current command, which no report is beyond.
LEMMA CommandsInOrderStep ==
    ASSUME TypeOK, CommandHistory, CommandsInOrder, [Next]_vars
    PROVE  CommandsInOrder'
<1> DEFINE last == Len(accepted) + 1
           now == accepted'
<1>1. Len(accepted) \in Nat
  BY ReportsGrow
<1>2. CASE now = accepted
  BY <1>2 DEF CommandsInOrder
<1>3. CASE /\ Len(now) = last
           /\ \A k \in 1..Len(accepted) : now[k] = accepted[k]
           /\ NewReport(now[last])
  <2>1. now[last].kind = "cmd" => now[last].id = current
    BY <1>3, ReportFields DEF NewReport
  <2>2. \A k \in 1..Len(accepted) : accepted[k].kind = "cmd" => accepted[k].id <= current
    BY DEF CommandHistory
  <2>3. ASSUME NEW j \in 1..Len(now), NEW k \in 1..Len(now),
               j < k, now[j].kind = "cmd", now[k].kind = "cmd"
        PROVE  now[j].id <= now[k].id
    <3>1. j \in 1..Len(accepted) /\ (k \in 1..Len(accepted) \/ k = last)
      BY <1>1, <1>3, <2>3
    <3>2. CASE k \in 1..Len(accepted)
      BY <1>3, <2>3, <3>1, <3>2 DEF CommandsInOrder
    <3>3. CASE k = last
      BY <1>3, <2>1, <2>2, <2>3, <3>1, <3>3
    <3> QED
      BY <3>1, <3>2, <3>3
  <2> QED
    BY <2>3 DEF CommandsInOrder
<1> QED
  BY <1>2, <1>3, ReportsGrow

\* In every state of the engine.
LEMMA CommandsInOrderHolds == Spec => []CommandsInOrder
<1>1. Init => CommandsInOrder
  BY EmptySeq DEF Init, CommandsInOrder
<1>2. TypeOK /\ History /\ CommandsInOrder /\ [Next]_vars => CommandsInOrder'
  BY CommandsInOrderStep DEF History
<1> QED
  BY <1>1, <1>2, EngineTypeCorrect, EngineHistory, PTL DEF Spec

\* Of two reports of commands, the later one is of a later command, and then the
\* earlier one is of no failure, or it finishes what the earlier one began.
LEMMA CommandsFollow ==
    ASSUME TypeOK, History, CommandsInOrder,
           NEW j \in 1..Len(accepted), NEW k \in 1..Len(accepted), j < k,
           NEW r, r = accepted[j], NEW t, t = accepted[k], r.kind = "cmd", t.kind = "cmd"
    PROVE  \/ r.id = t.id /\ r.status = "in_progress" /\ t.status = "finished"
           \/ r.id < t.id /\ (r.status = "finished" => r.value = "0")
<1>1. /\ Len(accepted) \in Nat /\ DOMAIN accepted = 1..Len(accepted)
      /\ r \in Report /\ t \in Report /\ r.id \in 1..MaxCmds /\ t.id \in 1..MaxCmds
      /\ MaxCmds \in Nat /\ current \in Nat
  <2>1. accepted \in Seq(Report) /\ current \in Nat
    BY DEF TypeOK, QueueTypes, ExecTypes
  <2>2. r \in Report /\ t \in Report
    BY <2>1
  <2> QED
    BY <2>1, <2>2, EngineAssumption, ReportFields
<1>2. ASSUME NEW m \in 1..Len(accepted), NEW n \in 1..Len(accepted), m < n,
             accepted[m].kind = "cmd", accepted[n].kind = "cmd", accepted[m].id = accepted[n].id
      PROVE  accepted[n].status = "finished" /\ accepted[m].status = "in_progress"
  <2>1. m \in 1..(n - 1) /\ n \in DOMAIN accepted
    BY <1>1, <1>2
  <2> QED
    BY <1>2, <2>1 DEF History, CommandProtocol
<1>3. r.id <= t.id
  BY DEF CommandsInOrder
<1>4. CASE r.id = t.id
  BY <1>2, <1>4
<1>5. CASE r.id < t.id
  <2> SUFFICES ASSUME r.status = "finished" PROVE r.value = "0"
    BY <1>5
  <2>1. t.id <= current
    BY DEF History, CommandHistory
  <2>2. r.id \in 1..(current - 1)
    BY <1>1, <1>5, <2>1
  <2>3. PICK m \in 1..Len(accepted) : accepted[m] = CommandStatus(r.id, "finished", "0")
    BY <2>2 DEF History, CommandHistory, Reported
  <2>4. /\ accepted[m].kind = "cmd" /\ accepted[m].id = r.id /\ accepted[m].status = "finished"
        /\ accepted[m].value = "0"
    BY <2>3 DEF CommandStatus
  <2>5. m = j
    <3>1. ~(m < j) /\ ~(j < m)
      BY <1>2, <2>4
    <3> QED
      BY <3>1
  <2> QED
    BY <2>4, <2>5
<1> QED
  BY <1>1, <1>3, <1>4, <1>5

\* Whatever was reported later may follow what was reported earlier.
LEMMA ReportsFollow ==
    ASSUME TypeOK, History, CommandsInOrder
    PROVE  OrderOfReports
<1> SUFFICES ASSUME NEW j \in DOMAIN accepted, NEW k \in DOMAIN accepted, j <= k
             PROVE  MayFollow(accepted[j], accepted[k])
  BY DEF OrderOfReports
<1>1. DOMAIN accepted = 1..Len(accepted) /\ Len(accepted) \in Nat
  BY DEF TypeOK, QueueTypes
<1>2. CASE j = k
  BY <1>2 DEF MayFollow
<1>3. CASE j < k
  <2>1. JobstepFrames
    BY DEF History
  <2> DEFINE r == accepted[j]
             t == accepted[k]
  <2>2. r.kind = "cmd" /\ t.kind = "cmd" =>
           \/ r.id = t.id /\ r.status = "in_progress" /\ t.status = "finished"
           \/ r.id < t.id /\ (r.status = "finished" => r.value = "0")
    BY <1>1, <1>3, CommandsFollow
  <2>3. /\ t = JobstepStatus("in_progress", "none") => r = LogChunk
        /\ r.kind = "job" /\ r.status = "finished" =>
              t = LogChunk \/ (t.kind = "cmd" /\ r.value = "aborted")
    BY <1>3, <2>1 DEF JobstepFrames
  <2> QED
    BY <2>2, <2>3 DEF MayFollow
<1> QED
  BY <1>1, <1>2, <1>3

\* A reporter that keeps the order of the reports, as DefaultReporter does, never
\* tells the server of an impossible course of the build, however often it repeats
\* a report and whatever reports it gives up.
THEOREM ServerIsToldSense == Spec => []ServerSeesSense
<1>1. OrderOfReports => ServerSeesSense
  <2> SUFFICES ASSUME OrderOfReports, NEW log \in Seq(Report),
                      \A i, j \in DOMAIN log : i <= j =>
                          \E k, l \in DOMAIN accepted :
                              k <= l /\ log[i] = accepted[k] /\ log[j] = accepted[l],
                      NEW i \in DOMAIN log, NEW j \in DOMAIN log, i <= j
               PROVE  MayFollow(log[i], log[j])
    BY DEF ServerSeesSense
  <2>1. PICK k \in DOMAIN accepted, l \in DOMAIN accepted :
           k <= l /\ log[i] = accepted[k] /\ log[j] = accepted[l]
    OBVIOUS
  <2>2. MayFollow(accepted[k], accepted[l])
    BY <2>1 DEF OrderOfReports
  <2> QED
    BY <2>1, <2>2
<1>2. TypeOK /\ History /\ CommandsInOrder => OrderOfReports
  BY ReportsFollow
<1> QED
  BY <1>1, <1>2, EngineTypeCorrect, EngineHistory, CommandsInOrderHolds, PTL

=============================================================================
