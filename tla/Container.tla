----------------------------- MODULE Container -----------------------------
(***************************************************************************)
(* The life of LXC containers on one host: adapter/lxc/adapter.go,          *)
(* container.go and executor.go.  Clients of several executors, one after   *)
(* the other on each, clean up what the executor's last client left, make   *)
(* a container of their own, usually over a base container they share,      *)
(* start and register it, and destroy or keep it in the end.  A client may  *)
(* be killed between any two steps and every operation of LXC and of the    *)
(* file system may fail.                                                    *)
(* Removing an executor file, which the client can write, does not.         *)
(*                                                                          *)
(* The lock of the base container is that of module HostLock here, freed    *)
(* when its owner dies; module Lockfile has its steps.                      *)
(***************************************************************************)
EXTENDS Naturals

CONSTANTS Executors,  \* names of executors
          Runs,       \* runs of the client, <<executor, turn>>: an executor has one
                      \* at a time.  A run stands for its container, too, which is
                      \* named after the job step.
          None        \* no run

ASSUME ContainerAssumption == Runs \subseteq Executors \X Nat /\ None \notin Runs

VARIABLES pc,        \* where each run is; "over" is its own exit, "dead" a kill
          cont,      \* its container: "absent", "defined" or "running"
          file,      \* the container each executor file names
          kept,      \* containers that have a named executor file of their own
          imaging,   \* runs whose snapshot has an executor file
          leftover,  \* the container a run found in the executor file
          lock,      \* holder of the lock on the base container
          base,      \* the base container: "absent", "partial" or "complete"
          image,     \* its image in the cache: "none", "some" files without the root
                     \* file system, "rootfs" with it, or "full"
          lost       \* history: containers whose executor file is gone too early

hosts == <<cont, file, kept, imaging, leftover>>
bases == <<lock, base, image>>
vars  == <<pc, hosts, bases, lost>>

Executor(r) == r[1]
Earlier(r)  == {q \in Runs : q[1] = r[1] /\ q[2] < r[2]}
Over(r)     == pc[r] \in {"over", "dead"}
Live(r)     == pc[r] # "start" /\ ~Over(r)
Goes(r, to) == pc' = [pc EXCEPT ![r] = to]
Becomes(r, to) == cont' = [cont EXCEPT ![r] = to]

Init == /\ pc = [r \in Runs |-> "start"]
        /\ cont = [r \in Runs |-> "absent"]
        /\ file = [e \in Executors |-> None]
        /\ kept = {} /\ imaging = {} /\ lost = {}
        /\ leftover = [r \in Runs |-> None]
        /\ lock = None
        /\ base \in {"absent", "complete"} /\ image = "none"

\* Launch returns an error: the client ends without a Shutdown of the adapter.
LaunchFails(r) == Goes(r, "over") /\ UNCHANGED hosts

-----------------------------------------------------------------------------
(* Executor.Clean: the container in the executor file is killed and destroyed. *)

\* The file is removed as soon as it is read; the executor runs one client at
\* a time.
Clean(r) ==
    /\ pc[r] = "start"
    /\ \A q \in Earlier(r) : Over(q)
    /\ leftover' = [leftover EXCEPT ![r] = file[Executor(r)]]
    /\ file' = [file EXCEPT ![Executor(r)] = None]
    /\ Goes(r, IF leftover'[r] = None THEN "prepare" ELSE "kill")
    /\ UNCHANGED <<cont, kept, imaging, bases, lost>>

\* Clean returns, whether or not the container is gone; the launch goes on.
CleanReturns(r) ==
    /\ Goes(r, "prepare")
    /\ leftover' = [leftover EXCEPT ![r] = None]
    /\ lost' = IF cont'[leftover[r]] = "absent" THEN lost ELSE lost \union {leftover[r]}
    /\ UNCHANGED <<file, kept, imaging, bases>>

\* lxc-stop -k, unless the container cannot be opened or does not run.
Kill(r) ==
    /\ pc[r] = "kill"
    /\ \/ /\ Becomes(leftover[r], IF cont[leftover[r]] = "absent" THEN "absent" ELSE "defined")
          /\ Goes(r, "destroy")
          /\ UNCHANGED <<file, kept, imaging, leftover, bases, lost>>
       \/ UNCHANGED cont /\ CleanReturns(r)

DestroyLeftover(r) ==
    /\ pc[r] = "destroy"
    /\ Becomes(leftover[r], "absent") \/ UNCHANGED cont
    /\ CleanReturns(r)

-----------------------------------------------------------------------------
(* launchOverlayContainer: the base container, under the lock. *)

\* Mutant: the lock is not waited for.
AcquireLock_Ignored(r) ==
    /\ pc[r] = "prepare"
    /\ lock' = r
    /\ Goes(r, "lookup")
    /\ UNCHANGED <<hosts, base, image, lost>>

\* acquireLock, which gives up after lockTimeout.
AcquireLock(r) ==
    /\ pc[r] = "prepare"
    /\ \/ /\ lock = None
          /\ lock' = r
          /\ Goes(r, "lookup")
          /\ UNCHANGED hosts
       \/ lock # None /\ LaunchFails(r) /\ UNCHANGED lock
    /\ UNCHANGED <<base, image, lost>>

\* Mutant: the error path keeps the lock.
FailsLocked_KeepsLock(r) == LaunchFails(r) /\ UNCHANGED lock

\* The launch fails under the lock, which the deferred Unlock frees.
FailsLocked(r) == LaunchFails(r) /\ lock' = None

\* What may be in the cache, and how much of an image each of it is.
Images == {"none", "some", "rootfs", "full"}
Size   == [none |-> 0, some |-> 1, rootfs |-> 2, full |-> 3]

\* getImageCompressionType: a root file system is there, whatever else is not.
CompressionKnown == image \in {"rootfs", "full"}

\* snapshotIsCached lists the container however far it has been created;
\* ensureImageCached wants every file of the image.
LookUp(r) ==
    /\ pc[r] = "lookup"
    /\ \/ base # "absent" /\ Goes(r, "open")
       \/ base = "absent" /\ Goes(r, IF image = "full" THEN "create" ELSE "fetch")
    /\ UNCHANGED <<hosts, bases, lost>>

\* aws s3 sync adds to the cache what the bucket has, as far as it gets.
Fetch(r) ==
    /\ pc[r] = "fetch"
    /\ image' \in {i \in Images : Size[i] >= Size[image]}
    /\ Goes(r, "sync")
    /\ UNCHANGED <<hosts, lock, base, lost>>

\* It ends.  A sync that succeeds may have brought less than an image, which
\* nobody looks at again but for a root file system of known compression.
FetchEnds(r) ==
    /\ pc[r] = "sync"
    /\ \/ /\ CompressionKnown
          /\ Goes(r, "create")
          /\ UNCHANGED <<hosts, lock>>
       \/ FailsLocked(r)
    /\ UNCHANGED <<base, image, lost>>

\* base.Create defines the container, then unpacks the image into it.
Create(r) ==
    /\ pc[r] = "create"
    /\ base' = "partial"
    /\ Goes(r, "unpack")
    /\ UNCHANGED <<hosts, lock, image, lost>>

\* LXC may or may not notice that an image lacks something; it cleans up after a
\* template that fails, if it can.
CreateEnds(r) ==
    /\ pc[r] = "unpack"
    /\ \/ /\ base' = "complete" \/ (image # "full" /\ base' = "partial")
          /\ Goes(r, "clear")
          /\ UNCHANGED <<hosts, lock>>
       \/ /\ base' \in {"absent", "partial"}
          /\ FailsLocked(r)
    /\ UNCHANGED <<image, lost>>

\* NewContainer; LXC itself may remove a container whose creation was cut short.
OpenBase(r) ==
    /\ pc[r] = "open"
    /\ \/ /\ base' \in IF base = "partial" THEN {"absent", "partial"} ELSE {base}
          /\ Goes(r, "clear")
          /\ UNCHANGED <<hosts, lock>>
       \/ FailsLocked(r) /\ UNCHANGED base
    /\ UNCHANGED <<image, lost>>

\* removeCachedImage, whose error is ignored.
RemoveCachedImage(r) ==
    /\ pc[r] = "clear"
    /\ image' \in {i \in Images : Size[i] <= Size[image]}
    /\ Goes(r, "clone")
    /\ UNCHANGED <<hosts, lock, base, lost>>

\* base.Clone, then the deferred Unlock.
Clone(r) ==
    /\ pc[r] = "clone"
    /\ \/ /\ base # "absent"
          /\ Becomes(r, "defined")
          /\ Goes(r, "register")
          /\ lock' = None
          /\ UNCHANGED <<file, kept, imaging, leftover>>
       \/ FailsLocked(r)
    /\ UNCHANGED <<base, image, lost>>

LaunchOverlay(r) ==
    \/ AcquireLock(r) \/ LookUp(r) \/ Fetch(r) \/ FetchEnds(r) \/ Create(r)
    \/ CreateEnds(r) \/ OpenBase(r) \/ RemoveCachedImage(r) \/ Clone(r)

-----------------------------------------------------------------------------
(* launchContainer and Launch: the run's own container. *)

\* Mutant: the container starts before it is registered.
CreateOwn_Starts(r) ==
    /\ pc[r] = "prepare"
    /\ Becomes(r, "running")
    /\ Goes(r, "register")
    /\ UNCHANGED <<file, kept, imaging, leftover, bases, lost>>

\* Without a snapshot the container is created by itself.
CreateOwn(r) ==
    /\ pc[r] = "prepare"
    /\ \/ /\ Becomes(r, "defined")
          /\ Goes(r, "register")
          /\ UNCHANGED <<file, kept, imaging, leftover>>
       \/ LaunchFails(r)
    /\ UNCHANGED <<bases, lost>>

\* NewContainer and Executor.Register.
Register(r) ==
    /\ pc[r] = "register"
    /\ \/ /\ file' = [file EXCEPT ![Executor(r)] = r]
          /\ Goes(r, "boot")
          /\ UNCHANGED <<cont, kept, imaging, leftover>>
       \/ LaunchFails(r)
    /\ UNCHANGED <<bases, lost>>

\* The pre-launch script, the configuration and Start.
Start(r) ==
    /\ pc[r] = "boot"
    /\ \/ /\ Becomes(r, "running")
          /\ Goes(r, "network")
          /\ UNCHANGED <<file, kept, imaging, leftover>>
       \/ LaunchFails(r)
    /\ UNCHANGED <<bases, lost>>

\* waitIPAddresses, setupSudoers, the post-launch script and UploadFile; then
\* the engine runs the commands in the container.
Provision(r) ==
    /\ pc[r] = "network"
    /\ (Goes(r, "ready") /\ UNCHANGED hosts) \/ LaunchFails(r)
    /\ UNCHANGED <<bases, lost>>

Launch(r) == LaunchOverlay(r) \/ CreateOwn(r) \/ Register(r) \/ Start(r) \/ Provision(r)

-----------------------------------------------------------------------------
(* CaptureSnapshot and Shutdown. *)

\* The snapshot gets an executor file, named after the job step so that its own
\* Clean finds none, and CreateImage stops the container; the
\* output snapshot has a name, and an image, of its own.
CaptureSnapshot(r) ==
    /\ pc[r] = "ready"
    /\ \/ /\ imaging' = imaging \union {r}
          /\ Goes(r, "capture")
          /\ Becomes(r, "defined") \/ UNCHANGED cont
       \/ Goes(r, "shutdown") /\ UNCHANGED <<imaging, cont>>
    /\ UNCHANGED <<file, kept, leftover, bases, lost>>

\* CreateImage and UploadImage end, well or badly; Deregister is deferred.
CaptureEnds(r) ==
    /\ pc[r] = "capture"
    /\ imaging' = imaging \ {r}
    /\ Goes(r, "shutdown")
    /\ UNCHANGED <<cont, file, kept, leftover, bases, lost>>

\* Mutant: the client of a container it keeps leaves the executor file.
Keep_StaysRegistered(r) ==
    /\ pc[r] \in {"ready", "shutdown"}
    /\ kept' = kept \union {r}
    /\ Goes(r, "over")
    /\ UNCHANGED <<cont, file, imaging, leftover, bases, lost>>

\* Shutdown of a container that is to stay registers it under its own name;
\* whatever becomes of that, the executor file goes.
Keep(r) ==
    /\ pc[r] \in {"ready", "shutdown"}
    /\ \/ kept' = kept \union {r} /\ UNCHANGED lost
       \/ lost' = lost \union {r} /\ UNCHANGED kept
    /\ Goes(r, "deregister")
    /\ UNCHANGED <<cont, file, imaging, leftover, bases>>

\* Destroy stops the container, if it can.
Stop(r) ==
    /\ pc[r] \in {"ready", "shutdown"}
    /\ Becomes(r, "defined") \/ UNCHANGED cont
    /\ Goes(r, "remove")
    /\ UNCHANGED <<file, kept, imaging, leftover, bases, lost>>

\* LXC destroys no running container; a container that is still there keeps
\* its executor file.
Destroy(r) ==
    /\ pc[r] = "remove"
    /\ \/ cont[r] = "defined" /\ Becomes(r, "absent") /\ Goes(r, "deregister")
       \/ UNCHANGED cont /\ Goes(r, "over")
    /\ UNCHANGED <<file, kept, imaging, leftover, bases, lost>>

\* Executor.Deregister.
Deregister(r) ==
    /\ pc[r] = "deregister"
    /\ file' = [file EXCEPT ![Executor(r)] = None]
    /\ Goes(r, "over")
    /\ UNCHANGED <<cont, kept, imaging, leftover, bases, lost>>

Shutdown(r) == Keep(r) \/ Stop(r) \/ Destroy(r) \/ Deregister(r)

-----------------------------------------------------------------------------
\* SIGKILL, or the panic of another goroutine.
Dies(r) ==
    /\ Live(r)
    /\ Goes(r, "dead")
    /\ lock' = IF lock = r THEN None ELSE lock
    /\ lost' = IF leftover[r] = None THEN lost ELSE lost \union {leftover[r]}
    /\ leftover' = [leftover EXCEPT ![r] = None]
    /\ UNCHANGED <<cont, file, kept, imaging, base, image>>

Step(r) == \/ Clean(r) \/ Kill(r) \/ DestroyLeftover(r) \/ Launch(r)
           \/ CaptureSnapshot(r) \/ CaptureEnds(r) \/ Shutdown(r)

\* The last client of every executor has ended.
Terminated == (\A r \in Runs : Over(r)) /\ UNCHANGED vars

Next == (\E r \in Runs : Step(r) \/ Dies(r)) \/ Terminated

\* Clients go on: scripts and transfers end, and so do builds.
Fairness == \A r \in Runs : WF_vars(Step(r))

Spec == Init /\ [][Next]_vars /\ Fairness

-----------------------------------------------------------------------------
Points == {"start", "kill", "destroy", "prepare", "lookup", "fetch", "sync", "create",
           "unpack", "open", "clear", "clone", "register", "boot", "network", "ready",
           "capture", "shutdown", "remove", "deregister", "over", "dead"}

Locked == {"lookup", "fetch", "sync", "create", "unpack", "open", "clear", "clone"}

HostTypes == /\ pc \in [Runs -> Points]
             /\ cont \in [Runs -> {"absent", "defined", "running"}]
             /\ file \in [Executors -> Runs \union {None}]
             /\ leftover \in [Runs -> Runs \union {None}]
             /\ kept \subseteq Runs /\ imaging \subseteq Runs /\ lost \subseteq Runs

BaseTypes == /\ lock \in Runs \union {None}
             /\ base \in {"absent", "partial", "complete"}
             /\ image \in Images

\* An executor file names a run of its executor that has begun, and what Clean
\* is at work on is the container of an earlier one.
FilesNameOwnRuns ==
    /\ \A e \in Executors :
          file[e] # None => Executor(file[e]) = e /\ pc[file[e]] # "start"
    /\ \A r \in Runs : IF pc[r] \in {"kill", "destroy"}
                       THEN leftover[r] \in Earlier(r)
                       ELSE leftover[r] = None

\* The lock is held from acquireLock to the deferred Unlock.
LockHeld == \A r \in Runs : lock = r <=> pc[r] \in Locked

\* Types, with whom the files and the lock belong to.
TypeOK == HostTypes /\ BaseTypes /\ FilesNameOwnRuns /\ LockHeld

\* A container never runs on without its client and without a trace: an
\* executor file names it, it was kept under its own name, a later client is
\* about to kill it, or Clean or the keep path has given its record up.
NoStrayContainers ==
    \A r \in Runs :
        cont[r] = "running" /\ Over(r)
            => \/ file[Executor(r)] = r
               \/ r \in kept \union lost
               \/ \E q \in Runs : leftover[q] = r

\* A container is changed by its own client only, or by a later client of the
\* same executor after its own has ended, unless that one has kept it.
ForeignContainersUntouched ==
    [][\A r \in Runs :
          cont'[r] # cont[r]
             => \/ pc'[r] # pc[r]
                \/ /\ Over(r)
                   /\ ~(r \in kept /\ pc[r] = "over")
                   /\ \E q \in Runs : leftover[q] = r /\ Executor(q) = Executor(r)]_vars

\* What a run has found out about the base container and its image under the lock
\* stays true until it has acted on it: nobody else makes the base that it makes,
\* takes the image away from under it or the base before it clones it, nor clones
\* a base that it is still making.  It may have found a base that is half-made,
\* or an image that lacks more than its root file system.
LockProtectsBase ==
    \A r \in Runs :
        /\ pc[r] \in {"fetch", "sync", "create"} => base = "absent"
        /\ pc[r] \in {"create", "unpack"} => CompressionKnown
        /\ pc[r] = "unpack" => base = "partial"
        /\ pc[r] = "open" => base # "absent"

\* The executor's files and its containers: an executor runs one client at a
\* time, whose file, once written, stays until the container is gone, kept or
\* given up, and a container does not run before it is registered.
OneAtATime == \A r \in Runs : pc[r] # "start" => \A q \in Earlier(r) : Over(q)

Registered == {"boot", "network", "ready", "capture", "shutdown", "remove"}
Unstarted  == {"start", "kill", "destroy", "prepare", "register", "boot"} \union Locked

Records ==
    \A r \in Runs :
        /\ Live(r) => file[Executor(r)] \in {None, r}
        /\ pc[r] \in Registered => file[Executor(r)] = r
        /\ pc[r] \in Unstarted => cont[r] # "running"
        /\ pc[r] = "deregister" => cont[r] = "absent" \/ r \in kept \union lost
        /\ r \in kept => pc[r] \in {"deregister", "over", "dead"}
        /\ r \in kept /\ pc[r] = "over" =>
              file[Executor(r)] # r /\ \A q \in Runs : leftover[q] # r

ContainerInv == /\ TypeOK /\ OneAtATime /\ Records /\ NoStrayContainers
                /\ LockProtectsBase

Base == INSTANCE HostLock WITH Clients <- Runs, holders <- {lock} \ {None}

\* The lock is used as HostLock promises it: clients take it when nobody has it,
\* and free only their own.
UsesHostLock == Base!LInit /\ [][Base!LNext]_lock

\* Whatever fails under it, the lock on the base container is freed.
LockIsFreed == \A r \in Runs : lock = r ~> lock # r

\* The comment on Destroy: "We ensure that this is called as long as we don't
\* have --keep-container as an option or we don't get SIGKILLed".  A client that
\* ends by itself and leaves its container behind has tried to destroy it.
DestroyedOnExit ==
    [][\A r \in Runs :
          pc[r] # "start" /\ pc'[r] = "over" /\ cont[r] # "absent"
             => pc[r] = "remove" \/ r \in kept \union lost]_vars

=============================================================================
