------------------------------ MODULE Lockfile ------------------------------
(***************************************************************************)
(* common/lockfile/lockfile.go, as acquireLock and the deferred Unlock of   *)
(* adapter/lxc/container.go use it: processes that take a lock by linking a *)
(* private file, which holds their pid, to a common path, and that remove   *)
(* the lock of an owner that does not exist any more.  Every system call is *)
(* a step of its own; a process may be killed between any two.              *)
(*                                                                          *)
(* A process stands for its pid and for its private file: it links only the *)
(* file of its current attempt.  The file is complete before it is linked,  *)
(* so the lock never holds anything but a pid.                              *)
(***************************************************************************)
EXTENDS Naturals

CONSTANTS Procs,       \* processes, each of which takes the lock once
          NoOwner,     \* there is no file at the common path
          DeadSignals  \* what Process.Signal may answer for a pid not in use:
                       \* "ESRCH" (the Errno) or "finished" (an error of os)

ASSUME LockAssumption == /\ NoOwner \notin Procs
                         /\ DeadSignals \subseteq {"ESRCH", "finished"}

VARIABLES path,        \* owner of the file linked at the common path
          pc,          \* where each process is
          seen,        \* the pid it read from the lock
          deadSignal,  \* how this build's Process.Signal reports a dead pid
          stolen       \* history: the lock of a living process was removed as stale

vars == <<path, pc, seen, deadSignal, stolen>>

\* A process that was killed earlier may have left its lock behind.
Init == /\ \E dead \in SUBSET Procs :
              /\ pc = [p \in Procs |-> IF p \in dead THEN "dead" ELSE "start"]
              /\ path \in dead \union {NoOwner}
        /\ seen = [p \in Procs |-> NoOwner]
        /\ deadSignal \in DeadSignals
        /\ stolen = FALSE

Goes(p, to) == pc' = [pc EXCEPT ![p] = to]

\* TryLock returns an error: acquireLock tries again or, after lockTimeout,
\* gives up.
Retry(p) == Goes(p, "start") \/ Goes(p, "gone")

Dead(p) == pc[p] = "dead"

-----------------------------------------------------------------------------
\* Mutant: the file is renamed to the path, which replaces the one there.
Link_Replaces(p) == /\ pc[p] = "start"
                    /\ path' = p
                    /\ Goes(p, "stat")
                    /\ UNCHANGED <<seen, deadSignal, stolen>>

\* os.Link(tmplock.Name(), name), whose result is ignored.
Link(p) == /\ pc[p] = "start"
           /\ path' = IF path = NoOwner THEN p ELSE path
           /\ Goes(p, "stat")
           /\ UNCHANGED <<seen, deadSignal, stolen>>

\* Mutant: a lock that exists is taken for one's own.
Stat_NoCompare(p) ==
    /\ pc[p] = "stat"
    /\ IF path = NoOwner THEN Retry(p) ELSE Goes(p, "held")
    /\ UNCHANGED <<path, seen, deadSignal, stolen>>

\* os.Lstat(name) and os.SameFile: the lock is held, somebody else's or gone.
Stat(p) ==
    /\ pc[p] = "stat"
    /\ CASE path = p       -> Goes(p, "held")
         [] path = NoOwner -> Retry(p)
         [] OTHER          -> Goes(p, "read")
    /\ UNCHANGED <<path, seen, deadSignal, stolen>>

\* GetOwner reads the pid.
Read(p) ==
    /\ pc[p] = "read"
    /\ IF path = NoOwner
       THEN Retry(p) /\ UNCHANGED seen
       ELSE Goes(p, "signal") /\ seen' = [seen EXCEPT ![p] = path]
    /\ UNCHANGED <<path, deadSignal, stolen>>

\* Mutant: no owner is ever found dead.
Signal_AlwaysBusy(p) ==
    /\ pc[p] = "signal"
    /\ Retry(p)
    /\ seen' = [seen EXCEPT ![p] = NoOwner]
    /\ UNCHANGED <<path, deadSignal, stolen>>

\* GetOwner signals the pid; only ESRCH makes the owner a dead one.
Signal(p) ==
    /\ pc[p] = "signal"
    /\ IF Dead(seen[p]) /\ deadSignal = "ESRCH" THEN Goes(p, "remove") ELSE Retry(p)
    /\ seen' = [seen EXCEPT ![p] = NoOwner]
    /\ UNCHANGED <<path, deadSignal, stolen>>

\* os.Remove(name), whoever owns it by now; TryLock recurses unless it fails.
Remove(p) ==
    /\ pc[p] = "remove"
    /\ IF path = NoOwner THEN Retry(p) ELSE Goes(p, "start")
    /\ path' = NoOwner
    /\ stolen' = (stolen \/ (path # NoOwner /\ ~Dead(path)))
    /\ UNCHANGED <<seen, deadSignal>>

\* Mutant: the lock is left behind.
Unlock_Forgotten(p) ==
    /\ pc[p] = "held"
    /\ Goes(p, "gone")
    /\ UNCHANGED <<path, seen, deadSignal, stolen>>

\* Unlock removes whatever is there.
Unlock(p) ==
    /\ pc[p] = "held"
    /\ path' = NoOwner
    /\ Goes(p, "gone")
    /\ UNCHANGED <<seen, deadSignal, stolen>>

\* The process is killed, or ends after it is through with the lock.
Dies(p) ==
    /\ ~Dead(p)
    /\ Goes(p, "dead")
    /\ seen' = [seen EXCEPT ![p] = NoOwner]
    /\ UNCHANGED <<path, deadSignal, stolen>>

TryLock(p) == Link(p) \/ Stat(p) \/ Read(p) \/ Signal(p) \/ Remove(p)

Step(p) == TryLock(p) \/ Unlock(p)

\* Nobody is left.
Terminated == (\A p \in Procs : Dead(p)) /\ UNCHANGED vars

Next == (\E p \in Procs : Step(p) \/ Dies(p)) \/ Terminated

\* A process that is not killed goes on, and what it does under the lock ends.
Fairness == \A p \in Procs : WF_vars(Step(p))

Spec == Init /\ [][Next]_vars /\ Fairness

-----------------------------------------------------------------------------
Points == {"start", "stat", "read", "signal", "remove", "held", "gone", "dead"}

\* Types; a process signals an owner it has read, which is never itself.
TypeOK == /\ path \in Procs \union {NoOwner}
          /\ pc \in [Procs -> Points]
          /\ seen \in [Procs -> Procs \union {NoOwner}]
          /\ \A p \in Procs : /\ pc[p] = "signal" <=> seen[p] # NoOwner
                              /\ seen[p] # p
          /\ deadSignal \in DeadSignals
          /\ stolen \in BOOLEAN

\* A lock whose owner is alive belongs to a process that holds it or is about
\* to find out that it does: giving up, failing or finishing never leaves a
\* living process's lock behind, which no other process could remove.
NoForgottenLock ==
    path # NoOwner /\ ~Dead(path) => pc[path] \in {"stat", "held"}

\* Two processes are under the lock together only after the lock of a living
\* one was removed as stale, and that takes a process that has died.
ExclusionLostOnlyByTheft ==
    \A p, q \in Procs :
        pc[p] = "held" /\ pc[q] = "held" /\ p # q
            => stolen /\ \E d \in Procs : Dead(d)

\* Until then, who holds the lock owns the file at its path.
HolderOwnsPath == ~stolen => \A p \in Procs : pc[p] = "held" => path = p

\* Removing a lock takes a process that has died.
RemovalNeedsDeath ==
    /\ \A p \in Procs : pc[p] = "remove" => \E d \in Procs : Dead(d)
    /\ stolen => \E d \in Procs : Dead(d)

LockInv == TypeOK /\ NoForgottenLock /\ HolderOwnsPath /\ RemovalNeedsDeath

Holders == {p \in Procs : pc[p] = "held"}

Abstract == INSTANCE HostLock WITH Clients <- Procs, holders <- Holders

\* Until the lock of a living process is removed as stale, the lock file is what
\* HostLock promises: TryLock succeeds only if nobody is under the lock, and only
\* the end of who is under it, by Unlock or by a kill, takes it away.
ImplementsHostLock == Abstract!LInit /\ [][stolen \/ Abstract!LNext]_Holders

\* With a build that recognises dead owners, whoever wants the lock gets it,
\* gives up or dies: stale locks and removals by others do not hold it up.
LockIsObtained ==
    deadSignal = "ESRCH" =>
        \A p \in Procs : pc[p] = "start" ~> pc[p] \in {"held", "gone", "dead"}

\* The comment on TryLock: "existing lockfiles containing pids of dead processes
\* and lockfiles containing no pid at all are deleted".  The lock of a living
\* process is removed by that process alone.
OnlyStaleDeleted ==
    [][path # NoOwner /\ path' = NoOwner
          => Dead(path) \/ (pc[path] = "held" /\ pc'[path] = "gone")]_vars

=============================================================================
