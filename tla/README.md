# Verification of changes-client

changes-client is the program that runs one *job step* of the Changes build
system on a build host: it fetches the step's configuration, prepares an
environment (the host itself, or an LXC container), runs the step's commands in
it, streams their output and states to the server, publishes artifacts, and
cleans up. This directory holds TLA+ models of its core, TLC configurations that
check them on small instances, and proofs for instances of any size that the
TLA+ proof system checks.

`tlc -workers 2 -config MCEngine.cfg MCEngine` runs one check, `tlapm
Engine_proofs.tla` one module of proofs. `PROJECT.json` lists components, runs,
mutants, the lines every definition stands for, findings, hazards and theorems.

## 1. The system

| Component (under `src/`) | State | Operations | Modelled in |
|---|---|---|---|
| engine, `engine/engine.go` | result so far, context, goroutines | `RunBuildPlan`, `Run`, `runBuildPlan`, `executeCommands`, `captureSnapshot`, `reportLogChunks` | `Engine` |
| upstream monitor, `engine/upstream_monitor.go` | the job step at the server | `WaitUntilAbort`, `postHeartbeat` | `Engine` |
| main, `client.go` | exit code | `main`, `run` | `Engine` (not `-version`, `-showinfo`, the Sentry wrapping) |
| default reporter, `client/reporter/defaultreporter.go` | `PublishChannel`, a retry counter | `SendPayload`, `transportSend`, `PushSnapshotImageStatus`, `Shutdown` | `ReportQueue` (what it promises), `DefaultReporter` (what it does) |
| mesos reporter, `reporter/mesos` | none of its own | `Push...` | the reports of `Engine` and the sends of `DefaultReporter` |
| client log, `client/log.go` | an unbuffered channel | `Writeln`, `Printf`, `WriteStream`, `Close`, `GetChunk` | `Engine` (the rendezvous and `Close`), `CmdWrapper` (`WriteStream` and its line reader) |
| file log, `client/filelog` | a file, its offset, a shutdown handshake | `StartReporting`, `readFromFile`, `Shutdown` | `FileLog` |
| LXC adapter, container and executor, `adapter/lxc` | containers, executor files, cached image, base container | `Launch`, `Clean`, `Register`, `Deregister`, `CaptureSnapshot`, `Shutdown`, `Destroy` | `Container` |
| lock file, `common/lockfile` | a file that holds a pid | `TryLock`, `GetOwner`, `Unlock` | `HostLock` (what it promises), `Lockfile` (what it does) |
| commands, `client/cmd.go`, `client/cmd_wrapper.go`, `adapter/lxc/cmd_wrapper.go` | pipes, a process | `NewCommand`, `Run` | `CmdWrapper` (both versions of `Run`), `Engine` (their outcomes) |
| artifact store, `reporter/artifactstore`, `common/atomicflag` | bucket, chunked artifacts, disabled flag | `Init`, `PushLogChunk`, `PublishArtifacts`, `Shutdown`, each under a deadline | `ArtifactStore` |
| multireporter, `reporter/multireporter` | a list of reporters | fan-out of every call | `MultiReporter` |
| blacklist, `common/blacklist` | the tree it clears | `fnMatch`, `Match`, `RemoveBlacklistedFiles` | `FnMatch`, `Blacklist` |
| configuration, `client/config.go` | none | `GetConfig`, `fetchConfig` | its outcome, in `Engine` |
| glob, `common/glob` | none | `GlobTreeRegular` | not modelled; what it finds is `Artifacts` |
| basic adapter, jenkins and noop reporters, metrics, registries, sentry, tagged errors, scoped logger, version | little or none | file copying, maps from names to constructors, formatting | not modelled, or only as choices of `Engine` |

**How they interact.** The main goroutine calls the adapter and the reporter; a
goroutine runs the commands and reports their states; another takes console
output from the client log (an unbuffered channel) and reports it; the reporter's
transport goroutine takes reports from a buffered channel and posts them; the
monitor polls the server and a signal handler waits for interrupts, and either
cancels the context. Clients of one host meet at the file system: at the executor
files, at the base container of a snapshot and its cached image, and at the lock
file that guards those. Console output has a way of its own before it gets to the
log: from the command through a pipe to the goroutine of the line reader, across a
channel to `WriteStream`. Reports and chunks go to every destination of the
multireporter in turn; the artifact store answers each call from a goroutine that
may outlive the call. The blacklist tool is a program of its own, mounted into the
container for the commands to call; it shares no state with the client.

**What is hard.** An abort stops the wait for the commands but not the commands;
the goroutine that is left behind uses the adapter, the log and the reporter while
main shuts them down. Every goroutine may block on the network by way of the
report queue, and closing has to release all of them. A post whose answer was lost
is repeated. The tail of the infrastructure log meets its shutdown in the middle
of a round. A client may be killed between making a container, recording it and
starting it; the next one has to clean up from one small file. Locks survive
their owners. A command may leave a process behind that keeps its pipe open. An
upload that missed its deadline goes on unobserved, next to `Shutdown` and to later
calls. `PROJECT.json` lists these hazards at their lines.

**What makes each component correct.** Engine: the server sees a well-formed
protocol, a pass is deserved, the exit code agrees with it, everything is drained
before the process ends, cancellation ends the run. Reporter: reports arrive in
order, each is settled, `Shutdown` returns and leaves nothing behind. File log: the
reporter gets the file, in order, once. Containers: nothing runs on unrecorded,
nobody touches a container of somebody else's, and what a client has found out about
the shared base under the lock stays true until it has acted on it. Lock: exclusion, and
no lock that nobody can take any more. Command: its output gets into the log whole and in
order, `Run` returns, its result stands for all the output. Artifact store: what it
acknowledges has been handed to every destination's queue, once and in order, whatever is
late; a bucket is closed only when its logs have been flushed, as far as flushing them
works, and nothing is appended afterwards; publishing neither invents nor hides an error.
Blacklist: only what the patterns mean is removed, and of that only links that lead
nowhere are left.

## 2. Modules

**`ReportQueue`** is the abstract specification of the publishing half of
`DefaultReporter`: `Accept` (a send into `PublishChannel`), `Apply` (the server
applies the oldest outstanding report, any number of times), `Retire` (it is
acknowledged or given up), `Close`, `Stop`. At most `MaxPending + 1` reports are
outstanding: those in the buffer and the one being posted.

**`DefaultReporter`** is the real thing: the channel, `transportSend`, the loop of
`SendPayload` with its counter and pauses, the synchronous caller of
`PushSnapshotImageStatus`, and `Shutdown`'s handshake. A post is one step whose
outcomes are: applied and acknowledged; applied, but the answer is lost or not
2xx; not applied. `Abstract` maps it to `ReportQueue` (what is neither in the
buffer nor being sent is retired).

**`Engine`** composes main, engine, monitor, interrupt handler, client log and the
queue of the reporter as its users see it. One action is a stretch of code that
other goroutines cannot tell apart from an instant: between two sends, receives,
adapter calls or posts. `config` holds what flags and the fetched configuration
decide. The adapter's calls succeed or fail freely, a command may print, fail, err
or run forever. Its queue is written after `ReportQueue`, the specification that
`DefaultReporter` is shown to implement: it takes a report if there is room, settles the
oldest one in a step, and stops once it is closed and empty.

**`FileLog`** numbers the bytes of the log, so that a payload is an interval and a
lost or repeated byte shows as a gap or an overlap.

**`HostLock`** is the lock that clients of one host rely on between `acquireLock` and the
deferred `Unlock`: `Acquire` if nobody is under it, `Free` by the end of who is.

**`Lockfile`** has one action per system call of `TryLock` and `GetOwner` (`Link`,
`Stat`, `Read`, `Signal`, `Remove`) and a kill between any two. Whether
`Process.Signal` reports a pid that is not in use as the errno `ESRCH`, as the code
expects, or as an error of package `os`, depends on the Go release; `deadSignal`
takes either. Pids are not used again while somebody holds one in hand.
`Abstract` maps it to `HostLock` (the holders are the processes whose `TryLock` has
succeeded), which it implements until it removes the lock of a living process.

**`Container`** has one action per operation of LXC and of the file system between
which a client can be killed: from `Clean` by way of the base container (`LookUp`,
`Fetch`, `Create`, `RemoveCachedImage`, `Clone`) or a container of its own
(`CreateOwn`) to `Register`, `Start`, `Provision`, and from `CaptureSnapshot`,
`Keep` or `Stop`/`Destroy` to `Deregister`. An executor runs one client at a time,
which the code relies on (`executor.go:33-35`). `lost` remembers containers whose
executor file was removed although they were still there: `Clean` removes the file
before it kills the container and does not try again, and `Shutdown` removes it even
if the container's own file could not be written. `image` is what the cache holds of
an image: nothing, files without the root file system, the root file system without
some other file, or all of it. `LookUp` wants all of it, as `ensureImageCached` does
before a download, but after a sync that succeeds `FetchEnds` wants only the root
file system, since only `getImageCompressionType` looks again
(`container.go:183-188`). A base made from less may come out half-made (`base` is
`"partial"`), as may one whose making was cut short, and `LookUp` takes any base
that LXC lists for cached. Its lock is that of `HostLock` (`Base`, `UsesHostLock`):
`Container` and `Lockfile` meet at that specification, and the theft of a lock
(below) is left to `Lockfile`.

**`CmdWrapper`** has both versions of `Run` (`wrapper`): `client/cmd_wrapper.go` on
the host ("basic") and `adapter/lxc/cmd_wrapper.go` in a container ("lxc"). They
differ in what they wait for and in their time limits, which is what matters once a
grandchild holds the pipe. Output is a sequence of numbered pieces, some of which
end a line, so that the model has every cut of the output into lines, reads and
payloads: a piece moves from `pipe` to `rbuf` (the `bufio.Reader`), `offer` (the line
on the channel), `payload` (`WriteStream`) and `logged`. Steps of `Run` are its waits;
a time limit is a step that is always possible (`CloseTimesOut`, `DrainTimesOut`,
`Tick`), so it may be early or late with respect to everything else. `CloseLog` is the
engine's: the log may be closed at any point, as it is after an abort. The outcomes
of `Run` are those of `CommandEnds` in `Engine`.

**`ArtifactStore`** models `runWithDeadline` by a caller (`call`) and the goroutine it
starts (`body`): the body may finish before the deadline or after it, and the caller
that sees the deadline pass sets `disabled`. Every request to the store's server
succeeds, fails or never returns. `AppendLog` queues a chunk (`queued`) or fails
(`refused`), and the body answers `true` either way, as at lines 130-133; a flush that
fails (`unflushed`) does not keep the bucket from being closed. Two bodies that use the unsynchronized map of
chunked artifacts at once may end the process (`MapRace`, `crashed`), or not.
**`MultiReporter`** EXTENDS it with the list of destinations (`dests`) and with the
engine's callers: a goroutine per log, which pushes chunks destination by
destination and stops at the first refusal (the mesos reporter refuses nothing, but drops
what `MesosTakes` excludes), the runner of the commands, which
publishes artifacts, and main, which calls `Init` first and `Shutdown` last.

**`FnMatch`** has the matcher of the blacklist as operators, one per function of the
code and one per loop. A slice of pattern or name is a position in it, and a loop is
a recursive function of positions, whose round is an operator of its own
(`ScanRound`, `RangeRound`, `ChunkRound`, `FnMatchRound`). Characters are single bytes: the code steps through a name by
bytes, and what that does to a longer encoding, or to an invalid one, is left out. Next to
it stands the language the comment of `fnMatch` defines (`Listed`, `WellFormed`), a recursion over the grammar
of the comment that knows nothing of the code: it tries every cut of the pattern into
terms, where the code goes from left to right. **`Blacklist`** adds the fast path of
`Match` and the tool as a state machine: read the configuration, walk, remove, where
looking at a path and removing one may fail, the latter with a part of a
directory gone. `Links` says which paths a symbolic link needs to lead anywhere: the test for
what has gone already, `os.Stat`, follows links (`Found`).

`MC...` modules and `.cfg` files give the constants their values; definitions named
`X_...` before a definition `X` are mutants, plausible bugs that the properties are
known to catch.

## 3. Runs

| Run | States | What it shows |
|---|---|---|
| `reporter` | 143k | justified results, drain and return of `Shutdown`, each step of which leaves less to do, refinement of `ReportQueue`, which holds order and capacity |
| `engine` | 206k | command protocol, deserved pass, frame of the job step's reports, adapter protocol, exit code, drain, panics only where an abort left a goroutine or a command could not be created; cancellation ends the run, and only a command that never returns can hold it up |
| `filelog` | 16k | what is pushed is the file's beginning in order; `Shutdown` delivers and returns; what is written is reported |
| `command` | 132k | output gets into the log whole and in order; a result stands for all the output unless the stream was given up; `Run` returns; a complete line is logged however little follows it |
| `artifacts` | 1.08M | a chunk that was agreed to was handed to every destination that takes it, none twice or out of order; the bucket is closed when all logs are flushed whose flush did not fail, and nothing is appended later; an error of a publish is one of its own, and success in time means that everything was sent or there was nothing to collect; every call comes back although no request need return |
| `blacklist` | 136k | the matcher decides the language of its comment; what is removed is blacklisted, and after success only links that lead nowhere are left of what is |
| `lockfile` | 1.3k | a living process never leaves a lock behind; exclusion is lost only by theft, until which every step is one of `HostLock`; the lock is obtained although owners die |
| `container` | 265k | no stray containers but those whose record was lost; foreign containers untouched; what was found out about base and image under the lock stays true; the lock freed on every path |
| `engine_panic` | violation | finding 1 |
| `engine_abort` | violation | finding 2 |
| `lockfile_theft` | violation | finding 3 |
| `container_launch` | violation | finding 4 |

**Bounds.** `reporter`: two reporting goroutines with two reports each, a channel of
capacity one, and 0 or 2 tries: enough for a full channel, a report behind a
retried one, a report in the buffer at `Close`, and the case in which the loop
never runs. `engine`: five configurations that between them take every branch, at
most two commands, one console line per command, capacity one; two commands suffice
for "the next command is not started". `filelog`: chunks of two bytes in a file of
five, so that payloads end on, before and after a chunk boundary; the bound on the file also
means that its writers pause in the end, and a writer that never does would keep the
last round of the tail going. `lockfile`: three
processes, the fewest with which a removal can hit a new owner, and each attempt
may repeat. `container`: two executors, of which one runs two clients, so that there
is a cleaner, somebody to clean up after, and a stranger at the base container;
the base is absent or complete at first. `command`: three pieces and a payload of two
(`MaxPieces`, `FlushThreshold`), so that a payload is cut by its size, by time and by
the end of the stream, and a piece is left over after each. `artifacts`: two chunks of
the console log, one of the infrastructure log, one artifact and one publish
(`MaxChunks`, `MaxPublish`): enough for a late body beside a later call of its own
caller and beside the other callers. Several artifacts at once, one failing among
others, are the theorem's (`PublishIsHonest`): two of them double the states, and the
uploads meet nowhere but at the first error. Both orders of the destinations are tried, and
`DiscardErrors` is off: with it every call returns nil and says nothing.
`blacklist`: every pattern of up to four characters over nine symbols, sixteen
longer ones for stars beside classes and slashes, and twelve pairs, on a tree of
seven paths, among them a link whose target is removed before it, one whose target is not,
and one that leads nowhere (`MCLinks`). The theorems of section 4 lift these bounds for safety.

**Fairness.** Weak fairness of each goroutine's own steps: the Go scheduler runs what
can run. It includes the return of calls into the adapter and of posts. That is an
assumption about the server, not something the code enforces: `http.Post`
(`defaultreporter.go:111`) and the client of the heartbeats (`upstream_monitor.go:34`)
have no time limit, so the liveness properties hold of a server that answers, with
whatever error, or whose connections break; one that accepts a connection and never
answers would hold everything up. Likewise some heartbeat gets through in the end.
Fairness does not include the end of a command: `CommandEnds` is an
outcome that may never come. A send on a full channel competes with other senders;
weak fairness suffices because the bounded number of reports leaves it enabled in the end. In `FileLog`
the hand-over of `Shutdown` is strongly fair: the tail offers it once per round, and
the runtime serves waiting senders in turn. In `CmdWrapper` the goroutines are
fair, timers fire and the consumer of the log takes what it is given; nothing is
assumed of the command or its grandchild. In `MultiReporter` the callers go on
and the deadlines fire; no request has to return, which is the point of the
deadline. In `Lockfile` and `Container` a process
that is not killed goes on; scripts and transfers end. Interrupts, kills and the
server's decisions are never fair. `Deadlock` is checked in every run: the end of a
run is an explicit stuttering step.

## 4. Theorems

All proofs are checked by TLAPS for every value of the constants that satisfies
the named assumptions of the module.

* `Engine_proofs`: `EngineTypeCorrect` (with the capacity of the queue);
  `EngineControl`, the inductive invariant `Control` that relates the places of the
  goroutines: the command goroutine outlives main's `select` only in an aborted
  build, the adapter is prepared exactly in the stretch whose deferred function
  shuts it down, the channel is closed only after the console goroutine is done,
  and main is beyond `Drain` only if the transport has stopped. None of the three
  properties is inductive without it. From it follow `AdapterProtocolHolds`,
  `ExitDrained` and `PanicsOnlyWhenAbandoned`.
  Its second half is about history: `EngineHistory` proves `History`, which ties the
  reports made so far to the places of the goroutines. `CommandHistory` says how far
  the report of each command has got (the current one by the place of its
  goroutine, the earlier ones finished with code 0, the later ones none),
  `ResultHistory` what the result decided so far rests on, `JobHistory` which of the
  job step's own reports have been made. From it follow `CommandsReportedInProtocol`,
  `PassesAreDeserved`, `JobstepFramesReports` and `ExitCodeIsTold`, for any number of
  commands.
  These are about the reports as they are made. `ServerIsToldSense` is about what
  arrives: any sequence that keeps their order, whatever it repeats or leaves out,
  tells of a possible course of the build (`MayFollow`: nothing of an earlier command
  after a later one, no command after one that failed, nothing but console output
  after the end unless the build was aborted). That the reporter keeps the order is
  `ServerSeesOrder` below. It rests on `CommandsInOrder`, which adds the order of the
  reports of different commands to `CommandHistory`.
* `DefaultReporter_proofs`: `ReporterInvariant`. `Window`: what is queued, after the
  payload in the transport's hands, is the end of what was accepted. `Places`: a
  payload is in one place at a time. `Counting`: the counter of the loop counts the
  posts. From it `ResultsAreJustified`, `ShutdownHasDrained` and
  `ReporterImplementsQueue`: under the mapping that takes for retired what is
  neither queued nor in hand, initial states map to initial states and every step
  to a step of `ReportQueue` or a stutter.
  The theorems about `ReportQueue` itself are stated of that instance: its types
  (`QTypeCorrect`), that a stopped queue is drained (`StoppedQueueIsDrained`), and
  `AppliedInOrder`: with `applied` growing only at `accepted[retired + 1]` and `retired`
  never decreasing, positions in `applied` map monotonically to positions in
  `accepted`; the inductive step extends that map by one. `TransportKeepsOrder` and
  `TransportStopsDrained` carry them through the refinement to the real reporter. An
  order up to repetition says little of payloads that may be equal; here each is made
  once (`OwnOrder`), which gives `ServerSeesOrder`: the server gets the reports of a
  goroutine in the order it made them.
  `ShutdownIsBounded` is about progress without fairness: after `CloseChannel` every step
  decreases the natural number `Owed`, which weighs the payloads in the channel by the
  posts and pauses they may still cost, unless it is the panic of a late send. `Shutdown`
  therefore takes at most as many steps as are owed when it closes the channel. It states
  `ShutdownNears`, which the run checks.
* `FileLog_proofs`: `FileLogTypeCorrect`, `ReporterGetsPrefix`, `LastRoundDelivers`. `Rounds`
  relates the tail's place to its offsets (between two rounds all that was read has
  been pushed) and to the lock of `Shutdown`; `LastRound` says that what was there when
  `Shutdown` began has been read before the tail ends.
* `CmdWrapper_proofs`: `OutputIsKept` and `ResultStandsForAll`. As long as the
  log is open, the output is the concatenation of what is logged, in the payload, on
  offer, in the reader's buffer and in the pipe (`Stream`); `StreamControl` and `RunControl` relate
  the reader, `WriteStream` and `Run`, so that a stream that is through leaves the
  inner places empty.
* `MultiReporter_proofs`: `MultiTypeCorrect`, `AcknowledgedIsHandedOver`,
  `ClosedBucketIsComplete`, `PublishIsHonest`. The invariant rests on a fact that is easy to miss: a caller never
  has two bodies at work, because a body is left behind only by a deadline, and the
  deadline disables the store. Hence at most one chunk of a log is in doubt
  (`PushControl`, `Answered`, `Appended`), and `Shutdown` can only close the bucket
  (`Closing`) when no body of a log is at work. `Uploading` ties the error to the call it is
  from: it is there exactly when something failed, as long as the call waits, and gone
  before the next one.
* `Lockfile_proofs`: `LockInv` adds to the types that, until a theft, who holds the
  lock owns the file at its path, and that removal takes a death; from it
  `NoLockForgotten` and `ExclusionUnlessTheft`, for any number of processes.
  `LockfileImplementsLock`: up to a theft every step maps to one of `HostLock` or a
  stutter; `Stat` is the step that acquires.
* `Container_proofs`: `ContainerInv` adds that an executor runs one client at a time
  (`OneAtATime`) and that its file follows the container from `Register` on
  (`Records`). The base is changed only under the lock, which `LockHeld` gives to one run
  at a time. From it `NoStrays`, `BaseIsProtected` and the action property
  `ForeignContainersSafe`, for any number of executors and of runs. `ContainerUsesLock`
  shows that it moves its lock as `HostLock` allows.
* `Blacklist_proofs`: `FnMatchIsGlob`, for every pattern and every name of one-byte
  characters. It goes the
  way of the code: `scanChunk` cuts where the grammar has a star, a class of the code
  reads what the grammar takes for one and finds the same characters in it
  (`ClassReads` and its converse), a chunk matches exactly the names that its terms
  allow, and after stars the first place where a chunk fits is as good as any later
  one (`FirstStop`), because the star behind it can make up for the difference. An
  error is another matter: the code may find a match or a mismatch before it comes to
  what is malformed, so that only one direction holds. From it `MatchesGlob`, with
  `PlainPrefixMatches` (what the fast path skips does not match) `MatchDecides`, and with
  the invariant `IInv` of the walk and the removal `RemovesExactly`. The
  assumptions: characters have different codes, `Tree` is a tree, links are no directories
  of it, patterns and paths are sequences of characters.
  Every recursion here looks ahead only, from a position to later ones. The proofs
  use that natural numbers are well ordered (`Least`), in the form of an induction
  from the end (`Backwards`), and show first that such a recursion has a solution
  (`Recursion`), since TLA+ leaves a recursive function without one undefined.

**Only model-checked**: the liveness properties (liveness under fairness and
`ENABLED` are out of this prover's reach), and with them the absence of deadlock. Every
invariant and every action property of the passing runs is a theorem. The theorems
`ServerSeesOrder`, `ServerIsToldSense`, `TransportKeepsOrder`,
`TransportStopsDrained` and `ContainerUsesLock` go beyond the runs.

## 5. Findings

1. `engine_panic`: after an abort the goroutine of the commands reports to a channel
   that `Shutdown` has closed; `defaultreporter.go:51` says this is not safe, and the
   process ends with a panic (exit code 2).
2. `engine_abort`: `engine.go:284` drops the error of `WaitUntilAbort`, so that a job
   step that merely finished at the server is recorded as aborted.
3. `lockfile_theft`: a process reads the pid of the lock's owner, which then unlocks and
   ends; it finds the pid dead and removes the file at the path (`lockfile.go:149`), which
   a third process, alive, has linked meanwhile, against the comment at
   `lockfile.go:95-96`. The run stops there; if the third one's `TryLock` has succeeded by
   then, a second process can take the lock beside it (`ExclusionLostOnlyByTheft`).
4. `container_launch`: a failed launch ends without `Destroy` (`engine.go:295-300`),
   against the comment at `container.go:626`. The executor's next client removes such
   a container if it was registered; one that failed in `Register`, or whose client
   has a default executor name with its own pid, stays.

Met on the way and visible in the models, without a run of their own: `Clean` gives
a container up if `lxc-stop` fails or the client is killed after the file was removed
(`lost` in `Container`); a client killed between writing a kept container's own file
and removing the executor's leaves the container to the next `Clean`; a nil command
is dereferenced at `engine.go:172-176` (`CreateCommandFails`); giving up on a report
does not panic, although the comment at `defaultreporter.go:26-30` says so
(`GivingUpPanics` in `DefaultReporter`).

More of that kind, from the modules of the command, the artifacts and the blacklist:

* `GivesUpOnChild` (`CmdWrapper`): `cmd_wrapper.go:74-75` gives up on a child that keeps
  the pipe after ten seconds, but `cmd.Wait` before it and `wg.Wait` at line 92 do not.
  `RunReturns` states what does hold: in a container `Run` returns, on the host it
  returns if no such child exists.
* `EveryDestinationServed` (`MultiReporter`): one destination's refusal keeps a chunk from
  those after it that would take it (`multireporter/reporter.go:72`). The default order,
  mesos first, has nothing to lose by it.
* `PushLogChunk` of the artifact store may queue a chunk after it has returned false. It
  also returns true for a chunk that `AppendLog` has failed to queue
  (`artifactstore/reporter.go:130-133`), although `client/reporter/reporter.go:39` says that it
  "returns false if pushing the log chunk failed" (`refused`).
* `Shutdown` of the artifact store only reports that a log could not be flushed, and closes
  the bucket all the same (lines 264-272, `unflushed`).
* `PublishArtifacts` returns nil when the deadline has passed or the store is disabled, and,
  having sent nothing, when there is no bucket (lines 178-180); `discardErrors`, on by
  default, makes every error nil.
* A base container whose making was cut short, or that was made from an incomplete image,
  is cloned from then on as if it were whole (`LookUp`, `FetchEnds` in `Container`).
* A blacklisted path that is a link and leads nowhere, from the start or because an
  earlier match was its target, stays, although the tool reports success
  (`blacklist.go:123-127`, `RemovalIsExact`).
* The map of chunked artifacts (`artifactstore/reporter.go:117-129`) is used by the
  goroutines of both logs without a lock: `MapRace`.
* A `log_chunk_size` of 0 makes `WriteStream` spin without reading a line; the model
  assumes `FlushThreshold > 0`.
* Patterns such as `?` or `*` match the root of the walk, `.`, and the removal then
  takes the whole tree. A malformed pattern is reported only for a path that
  its plain prefix fits.
* A file that two patterns of the configuration match is published twice by glob.

## 6. Not modelled, and why

Formatting, decoding and file copying (`basic adapter`, `jenkins`, `metrics`,
`taggederr`, `sentry`, `version`, `scopedlogger`, the registries) keep no state that
another step depends on. Heartbeats that change nothing are stutters of `Engine`.
The file system work of the adapters is represented by its success or failure.
`fetchConfig` asks again with growing pauses in the only goroutine there is yet; only
its outcome reaches the rest, and a model of the loop would restate its two
conditions. `GlobTreeRegular` walks a tree and asks `filepath.Match` of the standard
library. Of the container, configuration items, bind mounts, resource statistics and
the network wait's polling are left out. `MultiReporter` takes lists of destinations
without duplicates that contain the store, and leaves out the calls that only the
mesos reporter acts on. The tree belongs to the blacklist tool alone while it runs.
Executor files that can be neither read nor removed are left out: the client
writes that directory.

## 7. Plan

What is left, in this order:

1. Bounds like `ShutdownIsBounded` for the other waits: `Shutdown` of the file log, `Run`
   once the command has ended, a call of the artifact store.
2. Composition: `CmdWrapper` as the refinement of `CommandEnds` and of the console of
   `Engine`, and the chunk pushes of `MultiReporter` as those of `Engine`. The modules
   meet at outcomes today; together they exceed what TLC can explore, so that this is a
   matter for proofs.
3. The setup and the commands of the LXC container: bind mounts and resource
   statistics, as far as their failure leaves state behind.
