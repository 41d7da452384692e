-------------------------- MODULE Container_proofs --------------------------
(***************************************************************************)
(* Theorems about the life of containers, for any number of executors and   *)
(* of runs on each.                                                         *)
(***************************************************************************)
EXTENDS Container, TLAPS

\* The runs of an executor are ordered by their turns.
LEMMA Turns ==
    ASSUME NEW r \in Runs
    PROVE  /\ Executor(r) \in Executors
           /\ Earlier(r) \subseteq Runs \ {r}
           /\ \A q \in Earlier(r) : Executor(q) = Executor(r) /\ r \notin Earlier(q)
           /\ \A q \in Runs : Executor(q) = Executor(r)
                  => q = r \/ q \in Earlier(r) \/ r \in Earlier(q)
<1>1. \A q \in Runs : q \in Executors \X Nat
  BY ContainerAssumption
<1>2. /\ Executor(r) \in Executors
      /\ Earlier(r) \subseteq Runs \ {r}
      /\ \A q \in Earlier(r) : Executor(q) = Executor(r) /\ r \notin Earlier(q)
  BY <1>1 DEF Executor, Earlier
<1>3. ASSUME NEW q \in Runs, Executor(q) = Executor(r)
      PROVE  q = r \/ q \in Earlier(r) \/ r \in Earlier(q)
  <2>1. q = <<q[1], q[2]>> /\ r = <<r[1], r[2]>> /\ q[2] \in Nat /\ r[2] \in Nat
    BY <1>1
  <2>2. q[2] < r[2] \/ r[2] < q[2] \/ q[2] = r[2]
    BY <2>1
  <2> QED
    BY <1>3, <2>1, <2>2 DEF Executor, Earlier
<1> QED
  BY <1>2, <1>3

\* Every step keeps the types: of the files and containers, then of the base.
LEMMA HostTypesStep ==
    ASSUME ContainerInv, [Next]_vars
    PROVE  HostTypes'
<1> USE
       DEF ContainerInv, TypeOK, HostTypes, FilesNameOwnRuns, Points, Goes,
           Becomes, hosts
<1>1. ASSUME NEW r \in Runs, Clean(r)
      PROVE  HostTypes'
  BY <1>1, Turns DEF Clean
<1>2. ASSUME NEW r \in Runs, Kill(r)
      PROVE  HostTypes'
  BY <1>2, Turns DEF Kill, CleanReturns
<1>3. ASSUME NEW r \in Runs, DestroyLeftover(r)
      PROVE  HostTypes'
  BY <1>3, Turns DEF DestroyLeftover, CleanReturns
<1>4. ASSUME NEW r \in Runs, Clone(r)
      PROVE  HostTypes'
  BY <1>4 DEF Clone, FailsLocked, LaunchFails
<1>5. ASSUME NEW r \in Runs, CreateOwn(r)
      PROVE  HostTypes'
  BY <1>5 DEF CreateOwn, LaunchFails
<1>6. ASSUME NEW r \in Runs, Register(r)
      PROVE  HostTypes'
  BY <1>6, Turns DEF Register, LaunchFails
<1>7. ASSUME NEW r \in Runs, Start(r)
      PROVE  HostTypes'
  BY <1>7 DEF Start, LaunchFails
<1>8. ASSUME NEW r \in Runs, Provision(r)
      PROVE  HostTypes'
  BY <1>8 DEF Provision, LaunchFails
<1>9. ASSUME NEW r \in Runs, CaptureSnapshot(r)
      PROVE  HostTypes'
  BY <1>9 DEF CaptureSnapshot
<1>10. ASSUME NEW r \in Runs, CaptureEnds(r)
      PROVE  HostTypes'
  BY <1>10 DEF CaptureEnds
<1>11. ASSUME NEW r \in Runs, Keep(r)
      PROVE  HostTypes'
  BY <1>11 DEF Keep
<1>12. ASSUME NEW r \in Runs, Stop(r)
      PROVE  HostTypes'
  BY <1>12 DEF Stop
<1>13. ASSUME NEW r \in Runs, Destroy(r)
      PROVE  HostTypes'
  BY <1>13 DEF Destroy
<1>14. ASSUME NEW r \in Runs, Deregister(r)
      PROVE  HostTypes'
  BY <1>14, Turns DEF Deregister
<1>15. ASSUME NEW r \in Runs, Dies(r)
      PROVE  HostTypes'
  BY <1>15 DEF Dies
<1>16. ASSUME NEW r \in Runs,
              LookUp(r) \/ Fetch(r) \/ Create(r) \/ RemoveCachedImage(r)
      PROVE  HostTypes'
  BY <1>16 DEF LookUp, Fetch, Create, RemoveCachedImage
<1>17. ASSUME NEW r \in Runs,
              AcquireLock(r) \/ FetchEnds(r) \/ CreateEnds(r) \/ OpenBase(r)
      PROVE  HostTypes'
  BY <1>17 DEF AcquireLock, LaunchFails, FetchEnds, FailsLocked, CreateEnds, OpenBase
<1>18. CASE UNCHANGED vars
  BY <1>18 DEF vars
<1> QED
  BY <1>1, <1>2, <1>3, <1>4, <1>5, <1>6, <1>7, <1>8, <1>9, <1>10, <1>11, <1>12, <1>13,
      <1>14, <1>15, <1>16, <1>17, <1>18
     DEF Next, Step, Launch, LaunchOverlay, Shutdown, Terminated

LEMMA BaseTypesStep ==
    ASSUME ContainerInv, [Next]_vars
    PROVE  BaseTypes'
<1> USE DEF ContainerInv, TypeOK, BaseTypes, Images, bases
<1>1. ASSUME NEW r \in Runs, AcquireLock(r)
      PROVE  BaseTypes'
  BY <1>1 DEF AcquireLock, LaunchFails
<1>2. ASSUME NEW r \in Runs, LookUp(r)
      PROVE  BaseTypes'
  BY <1>2 DEF LookUp
<1>3. ASSUME NEW r \in Runs, Fetch(r)
      PROVE  BaseTypes'
  BY <1>3 DEF Fetch
<1>4. ASSUME NEW r \in Runs, FetchEnds(r)
      PROVE  BaseTypes'
  BY <1>4 DEF FetchEnds, FailsLocked, LaunchFails
<1>5. ASSUME NEW r \in Runs, Create(r)
      PROVE  BaseTypes'
  BY <1>5 DEF Create
<1>6. ASSUME NEW r \in Runs, CreateEnds(r)
      PROVE  BaseTypes'
  BY <1>6 DEF CreateEnds, FailsLocked, LaunchFails
<1>7. ASSUME NEW r \in Runs, OpenBase(r)
      PROVE  BaseTypes'
  BY <1>7 DEF OpenBase, FailsLocked, LaunchFails
<1>8. ASSUME NEW r \in Runs, RemoveCachedImage(r)
      PROVE  BaseTypes'
  BY <1>8 DEF RemoveCachedImage
<1>9. ASSUME NEW r \in Runs, Clone(r)
      PROVE  BaseTypes'
  BY <1>9 DEF Clone, FailsLocked, LaunchFails
<1>10. ASSUME NEW r \in Runs, Dies(r)
      PROVE  BaseTypes'
  BY <1>10 DEF Dies
<1>11. ASSUME NEW r \in Runs,
              Clean(r) \/ Kill(r) \/ DestroyLeftover(r)
      PROVE  BaseTypes'
  BY <1>11 DEF Clean, Kill, CleanReturns, DestroyLeftover
<1>12. ASSUME NEW r \in Runs,
              CreateOwn(r) \/ Register(r) \/ Start(r) \/ Provision(r) \/
              CaptureSnapshot(r)
      PROVE  BaseTypes'
  BY <1>12 DEF CreateOwn, LaunchFails, Register, Start, Provision, CaptureSnapshot
<1>13. ASSUME NEW r \in Runs,
              CaptureEnds(r) \/ Keep(r) \/ Stop(r) \/ Destroy(r) \/
              Deregister(r)
      PROVE  BaseTypes'
  BY <1>13 DEF CaptureEnds, Keep, Stop, Destroy, Deregister
<1>14. CASE UNCHANGED vars
  BY <1>14 DEF vars
<1> QED
  BY <1>1, <1>2, <1>3, <1>4, <1>5, <1>6, <1>7, <1>8, <1>9, <1>10, <1>11, <1>12, <1>13,
      <1>14
     DEF Next, Step, Launch, LaunchOverlay, Shutdown, Terminated

\* Executor files name runs of their executor: what Clean reads is an earlier run.
LEMMA FilesStep ==
    ASSUME ContainerInv, [Next]_vars
    PROVE  FilesNameOwnRuns'
<1> USE
       DEF ContainerInv, TypeOK, HostTypes, FilesNameOwnRuns, Points, Goes,
           hosts, Locked
<1>1. ASSUME NEW r \in Runs, Clean(r)
      PROVE  FilesNameOwnRuns'
  <2> DEFINE x == file[Executor(r)]
  <2>1. Executor(r) \in Executors /\ pc[r] = "start"
    BY <1>1, Turns DEF Clean
  <2>2. ASSUME x # None
        PROVE  x \in Earlier(r)
    <3>1. x \in Runs /\ Executor(x) = Executor(r) /\ pc[x] # "start"
      BY <2>1, <2>2
    <3>2. r \notin Earlier(x)
      BY <2>1, <3>1 DEF OneAtATime, Over
    <3> QED
      BY <2>1, <3>1, <3>2, Turns
  <2>3. leftover' = [leftover EXCEPT ![r] = x] /\ file' = [file EXCEPT ![Executor(r)] =
          None]
    BY <1>1 DEF Clean
  <2>4. pc' = [pc EXCEPT ![r] = IF x = None THEN "prepare" ELSE "kill"]
    BY <1>1, <2>3 DEF Clean
  <2> HIDE DEF x
  <2> QED
    BY <2>1, <2>2, <2>3, <2>4, ContainerAssumption
<1>2. ASSUME NEW r \in Runs, Kill(r)
      PROVE  FilesNameOwnRuns'
  BY <1>2 DEF Kill, CleanReturns
<1>3. ASSUME NEW r \in Runs, DestroyLeftover(r)
      PROVE  FilesNameOwnRuns'
  BY <1>3 DEF DestroyLeftover, CleanReturns
<1>4. ASSUME NEW r \in Runs, Clone(r)
      PROVE  FilesNameOwnRuns'
  BY <1>4 DEF Clone, FailsLocked, LaunchFails
<1>5. ASSUME NEW r \in Runs, CreateOwn(r)
      PROVE  FilesNameOwnRuns'
  BY <1>5 DEF CreateOwn, LaunchFails
<1>6. ASSUME NEW r \in Runs, Register(r)
      PROVE  FilesNameOwnRuns'
  BY <1>6, Turns DEF Register, LaunchFails
<1>7. ASSUME NEW r \in Runs, Start(r)
      PROVE  FilesNameOwnRuns'
  BY <1>7 DEF Start, LaunchFails
<1>8. ASSUME NEW r \in Runs, Provision(r)
      PROVE  FilesNameOwnRuns'
  BY <1>8 DEF Provision, LaunchFails
<1>9. ASSUME NEW r \in Runs, CaptureSnapshot(r)
      PROVE  FilesNameOwnRuns'
  BY <1>9 DEF CaptureSnapshot
<1>10. ASSUME NEW r \in Runs, CaptureEnds(r)
      PROVE  FilesNameOwnRuns'
  BY <1>10 DEF CaptureEnds
<1>11. ASSUME NEW r \in Runs, Keep(r)
      PROVE  FilesNameOwnRuns'
  BY <1>11 DEF Keep
<1>12. ASSUME NEW r \in Runs, Stop(r)
      PROVE  FilesNameOwnRuns'
  BY <1>12 DEF Stop
<1>13. ASSUME NEW r \in Runs, Destroy(r)
      PROVE  FilesNameOwnRuns'
  BY <1>13 DEF Destroy
<1>14. ASSUME NEW r \in Runs, Deregister(r)
      PROVE  FilesNameOwnRuns'
  BY <1>14, Turns DEF Deregister
<1>15. ASSUME NEW r \in Runs, Dies(r)
      PROVE  FilesNameOwnRuns'
  BY <1>15 DEF Dies
<1>16. ASSUME NEW r \in Runs,
              LookUp(r) \/ Fetch(r) \/ Create(r) \/ RemoveCachedImage(r)
      PROVE  FilesNameOwnRuns'
  BY <1>16 DEF LookUp, Fetch, Create, RemoveCachedImage
<1>17. ASSUME NEW r \in Runs,
              AcquireLock(r) \/ FetchEnds(r) \/ CreateEnds(r) \/ OpenBase(r)
      PROVE  FilesNameOwnRuns'
  BY <1>17 DEF AcquireLock, LaunchFails, FetchEnds, FailsLocked, CreateEnds, OpenBase
<1>18. CASE UNCHANGED vars
  BY <1>18 DEF vars
<1> QED
  BY <1>1, <1>2, <1>3, <1>4, <1>5, <1>6, <1>7, <1>8, <1>9, <1>10, <1>11, <1>12, <1>13,
      <1>14, <1>15, <1>16, <1>17, <1>18
     DEF Next, Step, Launch, LaunchOverlay, Shutdown, Terminated

\* The lock goes with the program counter on every way into and out of it.
LEMMA LockHeldStep ==
    ASSUME ContainerInv, [Next]_vars
    PROVE  LockHeld'
<1> USE ContainerAssumption
       DEF ContainerInv, TypeOK, HostTypes, BaseTypes, LockHeld, Locked, Goes,
           bases
<1>1. ASSUME NEW r \in Runs, AcquireLock(r)
      PROVE  LockHeld'
  BY <1>1 DEF AcquireLock, LaunchFails
<1>2. ASSUME NEW r \in Runs, LookUp(r)
      PROVE  LockHeld'
  BY <1>2 DEF LookUp
<1>3. ASSUME NEW r \in Runs, Fetch(r)
      PROVE  LockHeld'
  BY <1>3 DEF Fetch
<1>4. ASSUME NEW r \in Runs, FetchEnds(r)
      PROVE  LockHeld'
  BY <1>4 DEF FetchEnds, FailsLocked, LaunchFails
<1>5. ASSUME NEW r \in Runs, Create(r)
      PROVE  LockHeld'
  BY <1>5 DEF Create
<1>6. ASSUME NEW r \in Runs, CreateEnds(r)
      PROVE  LockHeld'
  BY <1>6 DEF CreateEnds, FailsLocked, LaunchFails
<1>7. ASSUME NEW r \in Runs, OpenBase(r)
      PROVE  LockHeld'
  BY <1>7 DEF OpenBase, FailsLocked, LaunchFails
<1>8. ASSUME NEW r \in Runs, RemoveCachedImage(r)
      PROVE  LockHeld'
  BY <1>8 DEF RemoveCachedImage
<1>9. ASSUME NEW r \in Runs, Clone(r)
      PROVE  LockHeld'
  BY <1>9 DEF Clone, FailsLocked, LaunchFails
<1>10. ASSUME NEW r \in Runs, Dies(r)
      PROVE  LockHeld'
  BY <1>10 DEF Dies
<1>11. ASSUME NEW r \in Runs,
              Clean(r) \/ Kill(r) \/ DestroyLeftover(r)
      PROVE  LockHeld'
  BY <1>11 DEF Clean, Kill, CleanReturns, DestroyLeftover
<1>12. ASSUME NEW r \in Runs,
              CreateOwn(r) \/ Register(r) \/ Start(r) \/ Provision(r) \/
              CaptureSnapshot(r)
      PROVE  LockHeld'
  BY <1>12 DEF CreateOwn, LaunchFails, Register, Start, Provision, CaptureSnapshot
<1>13. ASSUME NEW r \in Runs,
              CaptureEnds(r) \/ Keep(r) \/ Stop(r) \/ Destroy(r) \/
              Deregister(r)
      PROVE  LockHeld'
  BY <1>13 DEF CaptureEnds, Keep, Stop, Destroy, Deregister
<1>14. CASE UNCHANGED vars
  BY <1>14 DEF vars
<1> QED
  BY <1>1, <1>2, <1>3, <1>4, <1>5, <1>6, <1>7, <1>8, <1>9, <1>10, <1>11, <1>12, <1>13,
      <1>14
     DEF Next, Step, Launch, LaunchOverlay, Shutdown, Terminated

\* A run begins only after its predecessors and never comes back.
LEMMA OneAtATimeStep ==
    ASSUME ContainerInv, [Next]_vars
    PROVE  OneAtATime'
<1> USE DEF ContainerInv, TypeOK, HostTypes, OneAtATime, Over, Live, Goes
<1>1. ASSUME NEW r \in Runs, Clean(r)
      PROVE  OneAtATime'
  BY <1>1, Turns DEF Clean
<1>2. ASSUME NEW r \in Runs, Clone(r)
      PROVE  OneAtATime'
  BY <1>2, Turns DEF Clone, FailsLocked, LaunchFails
<1>3. ASSUME NEW r \in Runs, Dies(r)
      PROVE  OneAtATime'
  BY <1>3, Turns DEF Dies
<1>4. ASSUME NEW r \in Runs,
              Kill(r) \/ DestroyLeftover(r)
      PROVE  OneAtATime'
  BY <1>4, Turns DEF Kill, CleanReturns, DestroyLeftover
<1>5. ASSUME NEW r \in Runs,
              LookUp(r) \/ Fetch(r) \/ Create(r) \/ RemoveCachedImage(r)
      PROVE  OneAtATime'
  BY <1>5, Turns DEF LookUp, Fetch, Create, RemoveCachedImage
<1>6. ASSUME NEW r \in Runs,
              AcquireLock(r) \/ FetchEnds(r) \/ CreateEnds(r) \/ OpenBase(r)
      PROVE  OneAtATime'
  BY <1>6, Turns
     DEF AcquireLock, LaunchFails, FetchEnds, FailsLocked, CreateEnds, OpenBase
<1>7. ASSUME NEW r \in Runs,
              CreateOwn(r) \/ Register(r) \/ Start(r) \/ Provision(r) \/
              CaptureSnapshot(r)
      PROVE  OneAtATime'
  BY <1>7, Turns DEF CreateOwn, LaunchFails, Register, Start, Provision, CaptureSnapshot
<1>8. ASSUME NEW r \in Runs,
              CaptureEnds(r) \/ Keep(r) \/ Stop(r) \/ Destroy(r) \/
              Deregister(r)
      PROVE  OneAtATime'
  BY <1>8, Turns DEF CaptureEnds, Keep, Stop, Destroy, Deregister
<1>9. CASE UNCHANGED vars
  BY <1>9 DEF vars
<1> QED
  BY <1>1, <1>2, <1>3, <1>4, <1>5, <1>6, <1>7, <1>8, <1>9
     DEF Next, Step, Launch, LaunchOverlay, Shutdown, Terminated

\* Under the lock nobody else makes the base, or takes it or its image away.
LEMMA LockProtectsBaseStep ==
    ASSUME ContainerInv, [Next]_vars
    PROVE  LockProtectsBase'
<1> USE ContainerAssumption
       DEF ContainerInv, TypeOK, HostTypes, BaseTypes, LockHeld, Locked,
           CompressionKnown, LockProtectsBase, Goes, bases
<1>1. ASSUME NEW r \in Runs, AcquireLock(r)
      PROVE  LockProtectsBase'
  BY <1>1 DEF AcquireLock, LaunchFails
<1>2. ASSUME NEW r \in Runs, LookUp(r)
      PROVE  LockProtectsBase'
  BY <1>2 DEF LookUp
<1>3. ASSUME NEW r \in Runs, Fetch(r)
      PROVE  LockProtectsBase'
  BY <1>3 DEF Fetch, Images, Size
<1>4. ASSUME NEW r \in Runs, FetchEnds(r)
      PROVE  LockProtectsBase'
  BY <1>4 DEF FetchEnds, FailsLocked, LaunchFails
<1>5. ASSUME NEW r \in Runs, Create(r)
      PROVE  LockProtectsBase'
  BY <1>5 DEF Create
<1>6. ASSUME NEW r \in Runs, CreateEnds(r)
      PROVE  LockProtectsBase'
  BY <1>6 DEF CreateEnds, FailsLocked, LaunchFails
<1>7. ASSUME NEW r \in Runs, OpenBase(r)
      PROVE  LockProtectsBase'
  BY <1>7 DEF OpenBase, FailsLocked, LaunchFails
<1>8. ASSUME NEW r \in Runs, RemoveCachedImage(r)
      PROVE  LockProtectsBase'
  BY <1>8 DEF RemoveCachedImage, Images, Size
<1>9. ASSUME NEW r \in Runs, Clone(r)
      PROVE  LockProtectsBase'
  BY <1>9 DEF Clone, FailsLocked, LaunchFails
<1>10. ASSUME NEW r \in Runs, Dies(r)
      PROVE  LockProtectsBase'
  BY <1>10 DEF Dies
<1>11. ASSUME NEW r \in Runs,
              Clean(r) \/ Kill(r) \/ DestroyLeftover(r)
      PROVE  LockProtectsBase'
  BY <1>11 DEF Clean, Kill, CleanReturns, DestroyLeftover
<1>12. ASSUME NEW r \in Runs,
              CreateOwn(r) \/ Register(r) \/ Start(r) \/ Provision(r) \/
              CaptureSnapshot(r)
      PROVE  LockProtectsBase'
  BY <1>12 DEF CreateOwn, LaunchFails, Register, Start, Provision, CaptureSnapshot
<1>13. ASSUME NEW r \in Runs,
              CaptureEnds(r) \/ Keep(r) \/ Stop(r) \/ Destroy(r) \/
              Deregister(r)
      PROVE  LockProtectsBase'
  BY <1>13 DEF CaptureEnds, Keep, Stop, Destroy, Deregister
<1>14. CASE UNCHANGED vars
  BY <1>14 DEF vars
<1> QED
  BY <1>1, <1>2, <1>3, <1>4, <1>5, <1>6, <1>7, <1>8, <1>9, <1>10, <1>11, <1>12, <1>13,
      <1>14
     DEF Next, Step, Launch, LaunchOverlay, Shutdown, Terminated

\* While a run is under way, or about to start, no other of its executor is.
LEMMA Alone ==
    ASSUME OneAtATime, NEW r \in Runs, NEW q \in Runs,
           r # q, Executor(q) = Executor(r), ~Over(r),
           Live(r) \/ \A p \in Earlier(r) : Over(p)
    PROVE  ~Live(q)
<1>1. q \in Earlier(r) \/ r \in Earlier(q)
  BY Turns
<1>2. \A p \in Earlier(r) : Over(p)
  BY DEF OneAtATime, Live
<1>3. r \in Earlier(q) => pc[q] = "start"
  BY DEF OneAtATime
<1> QED
  BY <1>1, <1>2, <1>3 DEF Live

\* The executor file follows the container from Register to Deregister.
LEMMA RecordsStep ==
    ASSUME ContainerInv, [Next]_vars
    PROVE  Records'
<1> USE Turns
       DEF ContainerInv, TypeOK, HostTypes, FilesNameOwnRuns, Records,
           Registered, Unstarted, Locked, Over, Live, Goes, Becomes, hosts
<1>1. ASSUME NEW r \in Runs, Clean(r)
      PROVE  Records'
  <2>1. ASSUME NEW q \in Runs, q # r, Executor(q) = Executor(r)
        PROVE  ~Live(q)
    BY <1>1, <2>1, Alone DEF Clean
  <2>2. Executor(r) \in Executors
    BY Turns
  <2> QED
    BY <1>1, <2>1, <2>2, ContainerAssumption DEF Clean
<1>2. ASSUME NEW r \in Runs, Kill(r)
      PROVE  Records'
  BY <1>2 DEF Kill, CleanReturns
<1>3. ASSUME NEW r \in Runs, DestroyLeftover(r)
      PROVE  Records'
  BY <1>3 DEF DestroyLeftover, CleanReturns
<1>4. ASSUME NEW r \in Runs, Clone(r)
      PROVE  Records'
  BY <1>4 DEF Clone, FailsLocked, LaunchFails
<1>5. ASSUME NEW r \in Runs, CreateOwn(r)
      PROVE  Records'
  BY <1>5 DEF CreateOwn, LaunchFails
<1>6. ASSUME NEW r \in Runs, Register(r)
      PROVE  Records'
  <2>1. ASSUME NEW q \in Runs, q # r, Executor(q) = Executor(r)
        PROVE  ~Live(q)
    BY <1>6, <2>1, Alone DEF Register
  <2>2. Executor(r) \in Executors
    BY Turns
  <2> QED
    BY <1>6, <2>1, <2>2, ContainerAssumption DEF Register, LaunchFails
<1>7. ASSUME NEW r \in Runs, Start(r)
      PROVE  Records'
  BY <1>7 DEF Start, LaunchFails
<1>8. ASSUME NEW r \in Runs, Provision(r)
      PROVE  Records'
  BY <1>8 DEF Provision, LaunchFails
<1>9. ASSUME NEW r \in Runs, CaptureSnapshot(r)
      PROVE  Records'
  BY <1>9 DEF CaptureSnapshot
<1>10. ASSUME NEW r \in Runs, CaptureEnds(r)
      PROVE  Records'
  BY <1>10 DEF CaptureEnds
<1>11. ASSUME NEW r \in Runs, Keep(r)
      PROVE  Records'
  BY <1>11 DEF Keep
<1>12. ASSUME NEW r \in Runs, Stop(r)
      PROVE  Records'
  BY <1>12 DEF Stop
<1>13. ASSUME NEW r \in Runs, Destroy(r)
      PROVE  Records'
  BY <1>13 DEF Destroy
<1>14. ASSUME NEW r \in Runs, Deregister(r)
      PROVE  Records'
  <2>1. ASSUME NEW q \in Runs, q # r, Executor(q) = Executor(r)
        PROVE  ~Live(q)
    BY <1>14, <2>1, Alone DEF Deregister
  <2>2. Executor(r) \in Executors
    BY Turns
  <2>3. ASSUME NEW q \in Runs, leftover[q] = r
        PROVE  FALSE
    <3>1. r \in Earlier(q) /\ pc[q] # "start"
      BY <2>3, ContainerAssumption
    <3> QED
      BY <1>14, <3>1 DEF Deregister, OneAtATime
  <2> QED
    BY <1>14, <2>1, <2>2, <2>3, ContainerAssumption DEF Deregister
<1>15. ASSUME NEW r \in Runs, Dies(r)
      PROVE  Records'
  BY <1>15 DEF Dies
<1>16. ASSUME NEW r \in Runs,
              LookUp(r) \/ Fetch(r) \/ Create(r) \/ RemoveCachedImage(r)
      PROVE  Records'
  BY <1>16 DEF LookUp, Fetch, Create, RemoveCachedImage
<1>17. ASSUME NEW r \in Runs,
              AcquireLock(r) \/ FetchEnds(r) \/ CreateEnds(r) \/ OpenBase(r)
      PROVE  Records'
  BY <1>17 DEF AcquireLock, LaunchFails, FetchEnds, FailsLocked, CreateEnds, OpenBase
<1>18. CASE UNCHANGED vars
  BY <1>18 DEF vars
<1> QED
  BY <1>1, <1>2, <1>3, <1>4, <1>5, <1>6, <1>7, <1>8, <1>9, <1>10, <1>11, <1>12, <1>13,
      <1>14, <1>15, <1>16, <1>17, <1>18
     DEF Next, Step, Launch, LaunchOverlay, Shutdown, Terminated

\* No step leaves a running container without a record.
LEMMA NoStrayStep ==
    ASSUME ContainerInv, [Next]_vars
    PROVE  NoStrayContainers'
<1> USE Turns
       DEF ContainerInv, TypeOK, HostTypes, FilesNameOwnRuns, Records,
           Registered, Unstarted, Locked, NoStrayContainers, Over, Live, Goes,
           Becomes, hosts
<1>1. ASSUME NEW r \in Runs, Clean(r)
      PROVE  NoStrayContainers'
  BY <1>1 DEF Clean
<1>2. ASSUME NEW r \in Runs, Kill(r)
      PROVE  NoStrayContainers'
  BY <1>2 DEF Kill, CleanReturns
<1>3. ASSUME NEW r \in Runs, DestroyLeftover(r)
      PROVE  NoStrayContainers'
  BY <1>3 DEF DestroyLeftover, CleanReturns
<1>4. ASSUME NEW r \in Runs, Clone(r)
      PROVE  NoStrayContainers'
  BY <1>4 DEF Clone, FailsLocked, LaunchFails
<1>5. ASSUME NEW r \in Runs, CreateOwn(r)
      PROVE  NoStrayContainers'
  BY <1>5 DEF CreateOwn, LaunchFails
<1>6. ASSUME NEW r \in Runs, Register(r)
      PROVE  NoStrayContainers'
  BY <1>6 DEF Register, LaunchFails
<1>7. ASSUME NEW r \in Runs, Start(r)
      PROVE  NoStrayContainers'
  BY <1>7 DEF Start, LaunchFails
<1>8. ASSUME NEW r \in Runs, Provision(r)
      PROVE  NoStrayContainers'
  BY <1>8 DEF Provision, LaunchFails
<1>9. ASSUME NEW r \in Runs, CaptureSnapshot(r)
      PROVE  NoStrayContainers'
  BY <1>9 DEF CaptureSnapshot
<1>10. ASSUME NEW r \in Runs, CaptureEnds(r)
      PROVE  NoStrayContainers'
  BY <1>10 DEF CaptureEnds
<1>11. ASSUME NEW r \in Runs, Keep(r)
      PROVE  NoStrayContainers'
  BY <1>11 DEF Keep
<1>12. ASSUME NEW r \in Runs, Stop(r)
      PROVE  NoStrayContainers'
  BY <1>12 DEF Stop
<1>13. ASSUME NEW r \in Runs, Destroy(r)
      PROVE  NoStrayContainers'
  BY <1>13 DEF Destroy
<1>14. ASSUME NEW r \in Runs, Deregister(r)
      PROVE  NoStrayContainers'
  BY <1>14 DEF Deregister
<1>15. ASSUME NEW r \in Runs, Dies(r)
      PROVE  NoStrayContainers'
  <2>1. ASSUME NEW q \in Runs, cont'[q] = "running", Over(q)'
        PROVE  \/ file'[Executor(q)] = q
               \/ q \in kept' \union lost'
               \/ \E p \in Runs : leftover'[p] = q
    <3>1. q # r => Over(q)
      BY <1>15, <2>1 DEF Dies
    <3>2. q = r => file[Executor(q)] = q \/ q \in kept \union lost
      <4>1. q = r => cont[r] = "running" /\ Live(r)
        BY <1>15, <2>1 DEF Dies
      <4>2. q = r => pc[r] \in Registered \union {"deregister"}
        BY <4>1 DEF Points
      <4> QED
        BY <4>1, <4>2
    <3>3. leftover[r] = q => q \in lost'
      BY <1>15, ContainerAssumption DEF Dies
    <3>4. \A p \in Runs : p # r => leftover'[p] = leftover[p]
      BY <1>15 DEF Dies
    <3>5. lost \subseteq lost' /\ kept' = kept /\ file' = file /\ cont' = cont
      BY <1>15 DEF Dies
    <3> QED
      BY <2>1, <3>1, <3>2, <3>3, <3>4, <3>5
  <2> QED
    BY <2>1
<1>16. ASSUME NEW r \in Runs,
              LookUp(r) \/ Fetch(r) \/ Create(r) \/ RemoveCachedImage(r)
      PROVE  NoStrayContainers'
  BY <1>16 DEF LookUp, Fetch, Create, RemoveCachedImage
<1>17. ASSUME NEW r \in Runs,
              AcquireLock(r) \/ FetchEnds(r) \/ CreateEnds(r) \/ OpenBase(r)
      PROVE  NoStrayContainers'
  BY <1>17 DEF AcquireLock, LaunchFails, FetchEnds, FailsLocked, CreateEnds, OpenBase
<1>18. CASE UNCHANGED vars
  BY <1>18 DEF vars
<1> QED
  BY <1>1, <1>2, <1>3, <1>4, <1>5, <1>6, <1>7, <1>8, <1>9, <1>10, <1>11, <1>12, <1>13,
      <1>14, <1>15, <1>16, <1>17, <1>18
     DEF Next, Step, Launch, LaunchOverlay, Shutdown, Terminated

LEMMA ContainerInit == Init => ContainerInv
<1> SUFFICES ASSUME Init
             PROVE  ContainerInv
  OBVIOUS
<1> USE DEF Init
<1>1. TypeOK
  BY ContainerAssumption
     DEF TypeOK, HostTypes, BaseTypes, Images, FilesNameOwnRuns, LockHeld, Points, Locked
<1>2. OneAtATime /\ Records /\ NoStrayContainers
  BY ContainerAssumption
     DEF OneAtATime, Records, NoStrayContainers, Registered, Over, Live
<1>3. LockProtectsBase
  BY DEF LockProtectsBase
<1> QED
  BY <1>1, <1>2, <1>3 DEF ContainerInv

LEMMA ContainerStep == ContainerInv /\ [Next]_vars => ContainerInv'
<1> SUFFICES ASSUME ContainerInv, [Next]_vars
             PROVE  ContainerInv'
  OBVIOUS
<1>1. TypeOK'
  BY HostTypesStep, BaseTypesStep, FilesStep, LockHeldStep DEF TypeOK
<1> QED
  BY <1>1, OneAtATimeStep, RecordsStep, NoStrayStep, LockProtectsBaseStep
     DEF ContainerInv

\* The inductive invariant: who has which file and container, one run of an
\* executor at a time, and what the lock is held for.
THEOREM ContainerInvariant == Spec => []ContainerInv
  BY ContainerInit, ContainerStep, PTL DEF Spec

\* Types: in particular the lock is held exactly from acquireLock to Unlock, and
\* Clean only ever works on a container of an earlier run of its own executor.
THEOREM ContainerTypeCorrect == Spec => []TypeOK
<1>1. ContainerInv => TypeOK
  BY DEF ContainerInv
<1> QED
  BY <1>1, ContainerInvariant, PTL

\* Executor.Register comes before Start and Deregister after Destroy, so that no
\* container runs on after its client unless a file names it, it is being
\* killed, or Clean or the keep path has given its record up.
THEOREM NoStrays == Spec => []NoStrayContainers
<1>1. ContainerInv => NoStrayContainers
  BY DEF ContainerInv
<1> QED
  BY <1>1, ContainerInvariant, PTL

\* launchOverlayContainer holds its lock from the first look at the base container
\* and the cache to the last use of what it found there.
THEOREM BaseIsProtected == Spec => []LockProtectsBase
<1>1. ContainerInv => LockProtectsBase
  BY DEF ContainerInv
<1> QED
  BY <1>1, ContainerInvariant, PTL

\* One step changes a container of another client only where the executor's
\* record leads to it, and never one that was kept.
LEMMA ForeignStep ==
    ASSUME ContainerInv, [Next]_vars, NEW x \in Runs, cont'[x] # cont[x]
    PROVE  \/ pc'[x] # pc[x]
           \/ /\ Over(x)
              /\ ~(x \in kept /\ pc[x] = "over")
              /\ \E q \in Runs : leftover[q] = x /\ Executor(q) = Executor(x)
<1> USE DEF ContainerInv, TypeOK, HostTypes, Points
<1>1. ASSUME NEW r \in Runs, cont' # cont, Kill(r) \/ DestroyLeftover(r)
      PROVE  leftover[r] = x /\ leftover[r] \in Earlier(r) /\ pc[r] # "start"
  <2>1. leftover[r] \in Earlier(r) /\ pc[r] # "start"
    BY <1>1 DEF Kill, DestroyLeftover, FilesNameOwnRuns
  <2>2. leftover[r] = x
    BY <1>1, <2>1, Turns DEF Kill, DestroyLeftover, Becomes
  <2> QED
    BY <2>1, <2>2
<1>2. ASSUME NEW r \in Runs, Kill(r) \/ DestroyLeftover(r)
      PROVE  /\ Over(x)
             /\ ~(x \in kept /\ pc[x] = "over")
             /\ \E q \in Runs : leftover[q] = x /\ Executor(q) = Executor(x)
  <2>1. leftover[r] = x /\ leftover[r] \in Earlier(r) /\ pc[r] # "start"
    BY <1>1, <1>2
  <2>2. Over(x) /\ Executor(r) = Executor(x)
    BY <2>1, Turns DEF OneAtATime
  <2> QED
    BY <2>1, <2>2 DEF Records
<1>3. ASSUME NEW r \in Runs, Step(r) \/ Dies(r), ~(Kill(r) \/ DestroyLeftover(r))
      PROVE  pc'[x] # pc[x]
  <2>1. ASSUME r = x
        PROVE  pc'[x] # pc[x]
    BY <1>3, <2>1 DEF Step, Launch, LaunchOverlay, Shutdown, Clean, AcquireLock, LookUp,
       Fetch, FetchEnds, FailsLocked, LaunchFails, Create, CreateEnds, OpenBase,
       RemoveCachedImage, Clone, CreateOwn, Register, Start, Provision, CaptureSnapshot,
       CaptureEnds, Keep, Stop, Destroy, Deregister, Dies, Goes, Over, Live
  <2>2. ASSUME r # x
        PROVE  cont'[x] = cont[x]
    BY <1>3, <2>2 DEF Step, Launch, LaunchOverlay, Shutdown, Clean, AcquireLock, LookUp,
       Fetch, FetchEnds, FailsLocked, LaunchFails, Create, CreateEnds, OpenBase,
       RemoveCachedImage, Clone, CreateOwn, Register, Start, Provision, CaptureSnapshot,
       CaptureEnds, Keep, Stop, Destroy, Deregister, Dies, Becomes, hosts
  <2> QED
    BY <2>1, <2>2
<1>4. CASE UNCHANGED vars
  BY <1>4 DEF vars, hosts
<1> QED
  BY <1>2, <1>3, <1>4 DEF Next, Terminated

\* Clean touches containers of its own executor's ended runs only, and never one
\* whose client kept it to the end.
THEOREM ForeignContainersSafe == Spec => ForeignContainersUntouched
<1>1. ContainerInv /\ [Next]_vars =>
        [\A r \in Runs :
           cont'[r] # cont[r]
             => \/ pc'[r] # pc[r]
                \/ /\ Over(r)
                   /\ ~(r \in kept /\ pc[r] = "over")
                   /\ \E q \in Runs : leftover[q] = r /\ Executor(q) = Executor(r)]_vars
  BY ForeignStep
<1> QED
  BY <1>1, ContainerInvariant, PTL DEF Spec, ForeignContainersUntouched

\* Only the holder's own steps free the lock, and only a free one is taken.
LEMMA LockStep ==
    ASSUME ContainerInv, [Next]_vars, lock' # lock
    PROVE  Base!LNext
<1> USE DEF ContainerInv, TypeOK, BaseTypes, LockHeld, bases
<1>1. \A r \in Runs : r # None
  BY ContainerAssumption
<1>2. ASSUME NEW r \in Runs, lock = r, lock' = None
      PROVE  Base!LNext
  BY <1>1, <1>2 DEF Base!LNext, Base!Free
<1>3. ASSUME NEW r \in Runs, AcquireLock(r)
      PROVE  Base!LNext
  <2>1. lock = None /\ lock' = r
    BY <1>3 DEF AcquireLock
  <2> QED
    BY <1>1, <2>1 DEF Base!LNext, Base!Acquire
<1>4. ASSUME NEW r \in Runs, FetchEnds(r) \/ CreateEnds(r) \/ OpenBase(r) \/ Clone(r)
      PROVE  Base!LNext
  <2>1. lock' = None
    BY <1>4 DEF FetchEnds, CreateEnds, OpenBase, Clone, FailsLocked
  <2>2. lock = r
    BY <1>4 DEF FetchEnds, CreateEnds, OpenBase, Clone, Locked
  <2> QED
    BY <1>2, <2>1, <2>2
<1>5. ASSUME NEW r \in Runs, Dies(r)
      PROVE  Base!LNext
  BY <1>2, <1>5 DEF Dies
<1>6. ASSUME NEW r \in Runs, Step(r),
             ~(AcquireLock(r) \/ FetchEnds(r) \/ CreateEnds(r) \/ OpenBase(r) \/ Clone(r))
      PROVE  FALSE
  BY <1>6 DEF Step, Launch, LaunchOverlay, Shutdown, Clean, Kill, DestroyLeftover,
     CleanReturns, LookUp, Fetch, Create, RemoveCachedImage, CreateOwn, LaunchFails,
     Register, Start, Provision, CaptureSnapshot, CaptureEnds, Keep, Stop, Destroy,
     Deregister
<1> QED
  BY <1>3, <1>4, <1>5, <1>6 DEF Next, Terminated, vars

\* The clients use the lock as the lock file implements it: what launchOverlayContainer
\* does under it rests on HostLock alone, on every path out and for any number of clients.
THEOREM ContainerUsesLock == Spec => UsesHostLock
<1>1. Init => Base!LInit
  BY DEF Init, Base!LInit
<1>2. ContainerInv /\ [Next]_vars => [Base!LNext]_lock
  BY LockStep
<1> QED
  BY <1>1, <1>2, ContainerInvariant, PTL DEF Spec, UsesHostLock

=============================================================================
