-------------------------- MODULE Lockfile_proofs --------------------------
(***************************************************************************)
(* Theorems about the lock file, for any number of processes.               *)
(***************************************************************************)
EXTENDS Lockfile, TLAPS

LEMMA LockInit == Init => LockInv
<1> SUFFICES ASSUME Init
             PROVE  LockInv
  OBVIOUS
<1>1. PICK dead \in SUBSET Procs :
         /\ pc = [p \in Procs |-> IF p \in dead THEN "dead" ELSE "start"]
         /\ path \in dead \union {NoOwner}
  BY DEF Init
<1>2. ~stolen /\ stolen \in BOOLEAN
  BY DEF Init
<1>3. TypeOK
  BY <1>1, <1>2, LockAssumption DEF Init, TypeOK, Points
<1>4. NoForgottenLock
  BY <1>1 DEF NoForgottenLock, Dead
<1>5. HolderOwnsPath /\ RemovalNeedsDeath
  BY <1>1, <1>2 DEF HolderOwnsPath, RemovalNeedsDeath
<1> QED
  BY <1>3, <1>4, <1>5 DEF LockInv

LEMMA TypeStep ==
    ASSUME LockInv, [Next]_vars
    PROVE  TypeOK'
<1> USE LockAssumption DEF LockInv, TypeOK, Points, Goes, Retry
<1>1. ASSUME NEW p \in Procs, Link(p)
      PROVE  TypeOK'
  BY <1>1 DEF Link
<1>2. ASSUME NEW p \in Procs, Stat(p)
      PROVE  TypeOK'
  BY <1>2 DEF Stat
<1>3. ASSUME NEW p \in Procs, Read(p)
      PROVE  TypeOK'
  <2>1. path # p
    BY <1>3 DEF Read, NoForgottenLock, Dead
  <2> QED
    BY <1>3, <2>1 DEF Read
<1>4. ASSUME NEW p \in Procs, Signal(p)
      PROVE  TypeOK'
  BY <1>4 DEF Signal
<1>5. ASSUME NEW p \in Procs, Remove(p)
      PROVE  TypeOK'
  BY <1>5 DEF Remove
<1>6. ASSUME NEW p \in Procs, Unlock(p)
      PROVE  TypeOK'
  BY <1>6 DEF Unlock
<1>7. ASSUME NEW p \in Procs, Dies(p)
      PROVE  TypeOK'
  BY <1>7 DEF Dies
<1>8. CASE UNCHANGED vars
  BY <1>8 DEF vars
<1> QED
  BY <1>1, <1>2, <1>3, <1>4, <1>5, <1>6, <1>7, <1>8 DEF Next, Step, TryLock, Terminated

LEMMA NoForgottenLockStep ==
    ASSUME LockInv, [Next]_vars
    PROVE  NoForgottenLock'
<1> USE LockAssumption DEF LockInv, TypeOK, NoForgottenLock, Dead, Goes, Retry
<1>1. ASSUME NEW p \in Procs, Link(p)
      PROVE  NoForgottenLock'
  BY <1>1 DEF Link
<1>2. ASSUME NEW p \in Procs, Stat(p)
      PROVE  NoForgottenLock'
  BY <1>2 DEF Stat
<1>3. ASSUME NEW p \in Procs, Read(p) \/ Signal(p)
      PROVE  NoForgottenLock'
  BY <1>3 DEF Read, Signal
<1>4. ASSUME NEW p \in Procs, Remove(p) \/ Unlock(p)
      PROVE  NoForgottenLock'
  BY <1>4 DEF Remove, Unlock
<1>5. ASSUME NEW p \in Procs, Dies(p)
      PROVE  NoForgottenLock'
  BY <1>5 DEF Dies
<1>6. CASE UNCHANGED vars
  BY <1>6 DEF vars
<1> QED
  BY <1>1, <1>2, <1>3, <1>4, <1>5, <1>6 DEF Next, Step, TryLock, Terminated

LEMMA HolderOwnsPathStep ==
    ASSUME LockInv, [Next]_vars
    PROVE  HolderOwnsPath'
<1> USE LockAssumption DEF LockInv, TypeOK, HolderOwnsPath, Dead, Goes, Retry
<1>1. ASSUME NEW p \in Procs, Link(p)
      PROVE  HolderOwnsPath'
  BY <1>1 DEF Link
<1>2. ASSUME NEW p \in Procs, Stat(p)
      PROVE  HolderOwnsPath'
  BY <1>2 DEF Stat
<1>3. ASSUME NEW p \in Procs, Read(p) \/ Signal(p)
      PROVE  HolderOwnsPath'
  BY <1>3 DEF Read, Signal
<1>4. ASSUME NEW p \in Procs, Remove(p)
      PROVE  HolderOwnsPath'
  BY <1>4 DEF Remove
<1>5. ASSUME NEW p \in Procs, Unlock(p)
      PROVE  HolderOwnsPath'
  BY <1>5 DEF Unlock
<1>6. ASSUME NEW p \in Procs, Dies(p)
      PROVE  HolderOwnsPath'
  BY <1>6 DEF Dies
<1>7. CASE UNCHANGED vars
  BY <1>7 DEF vars
<1> QED
  BY <1>1, <1>2, <1>3, <1>4, <1>5, <1>6, <1>7 DEF Next, Step, TryLock, Terminated

\* Nobody comes back from the dead.
LEMMA DeadStaysDead ==
    ASSUME TypeOK, [Next]_vars, NEW d \in Procs, Dead(d)
    PROVE  Dead(d)'
<1> USE DEF TypeOK, Dead, Goes, Retry
<1>1. ASSUME NEW p \in Procs, Step(p) \/ Dies(p)
      PROVE  pc'[d] = "dead"
  BY <1>1 DEF Step, TryLock, Link, Stat, Read, Signal, Remove, Unlock, Dies
<1>2. CASE UNCHANGED vars
  BY <1>2 DEF vars
<1> QED
  BY <1>1, <1>2 DEF Next, Terminated

LEMMA RemovalNeedsDeathStep ==
    ASSUME LockInv, [Next]_vars
    PROVE  RemovalNeedsDeath'
<1> USE DEF LockInv, TypeOK
<1>1. CASE \E d \in Procs : Dead(d)
  BY <1>1, DeadStaysDead DEF RemovalNeedsDeath
<1>2. CASE ~(\E d \in Procs : Dead(d))
  <2>1. ~stolen /\ \A p \in Procs : pc[p] # "remove"
    BY <1>2 DEF RemovalNeedsDeath
  <2>2. ASSUME NEW p \in Procs, Link(p) \/ Stat(p) \/ Read(p) \/ Unlock(p) \/ Dies(p)
        PROVE  RemovalNeedsDeath'
    BY <2>1, <2>2 DEF Link, Stat, Read, Unlock, Dies, Goes, Retry, RemovalNeedsDeath
  <2>3. ASSUME NEW p \in Procs, Signal(p)
        PROVE  RemovalNeedsDeath'
    <3>1. seen[p] \in Procs
      BY <2>3 DEF Signal
    <3>2. Goes(p, "start") \/ Goes(p, "gone")
      BY <1>2, <2>3, <3>1 DEF Signal, Retry
    <3> QED
      BY <2>1, <2>3, <3>2 DEF Signal, Goes, RemovalNeedsDeath
  <2>4. ASSUME NEW p \in Procs, Remove(p)
        PROVE  FALSE
    BY <2>1, <2>4 DEF Remove
  <2>5. CASE UNCHANGED vars
    BY <2>1, <2>5 DEF vars, RemovalNeedsDeath
  <2> QED
    BY <2>2, <2>3, <2>4, <2>5 DEF Next, Step, TryLock, Terminated
<1> QED
  BY <1>1, <1>2

LEMMA LockInvariant == Spec => []LockInv
<1>1. LockInv /\ [Next]_vars => LockInv'
  BY TypeStep, NoForgottenLockStep, HolderOwnsPathStep, RemovalNeedsDeathStep DEF LockInv
<1> QED
  BY <1>1, LockInit, PTL DEF Spec

\* Types; a process never signals itself.
THEOREM LockTypeCorrect == Spec => []TypeOK
  BY LockInvariant, PTL DEF LockInv

\* A living process whose file is at the path holds the lock or is about to
\* find out, whatever was removed, for any number of processes.
THEOREM NoLockForgotten == Spec => []NoForgottenLock
  BY LockInvariant, PTL DEF LockInv

\* Mutual exclusion is lost only after the lock of a living process has been
\* removed as stale, and only when a process has died.
THEOREM ExclusionUnlessTheft == Spec => []ExclusionLostOnlyByTheft
<1>1. LockInv => ExclusionLostOnlyByTheft
  <2> SUFFICES ASSUME LockInv, NEW p \in Procs, NEW q \in Procs,
                      pc[p] = "held", pc[q] = "held", p # q
               PROVE  stolen /\ \E d \in Procs : Dead(d)
    BY DEF ExclusionLostOnlyByTheft
  <2>1. stolen
    BY DEF LockInv, HolderOwnsPath
  <2> QED
    BY <2>1 DEF LockInv, RemovalNeedsDeath
<1> QED
  BY <1>1, LockInvariant, PTL

LEMMA HoldersStep ==
    ASSUME LockInv, [Next]_vars
    PROVE  [stolen \/ Abstract!LNext]_Holders
<1> SUFFICES ASSUME ~stolen, Holders' # Holders
             PROVE  Abstract!LNext
  OBVIOUS
<1> USE DEF LockInv, TypeOK, Holders
<1>1. ASSUME NEW p \in Procs, Stat(p)
      PROVE  Abstract!LNext
  <2>1. path = p /\ Goes(p, "held")
    BY <1>1 DEF Stat, Retry, Goes
  <2>2. Holders = {}
    BY <1>1, <2>1 DEF HolderOwnsPath, Stat
  <2>3. Holders' = {p}
    BY <2>1, <2>2 DEF Goes
  <2> QED
    BY <2>2, <2>3 DEF Abstract!LNext, Abstract!Acquire
<1>2. ASSUME NEW p \in Procs, Unlock(p) \/ Dies(p)
      PROVE  Abstract!LNext
  <2>1. \A q \in Procs : pc'[q] = "held" <=> pc[q] = "held" /\ q # p
    BY <1>2 DEF Unlock, Dies, Goes
  <2>2. Holders' = Holders \ {p} /\ p \in Holders
    BY <2>1
  <2> QED
    BY <2>2 DEF Abstract!LNext, Abstract!Free
<1>3. ASSUME NEW p \in Procs, Link(p) \/ Read(p) \/ Signal(p) \/ Remove(p)
      PROVE  FALSE
  <2>1. \A q \in Procs : pc'[q] = "held" <=> pc[q] = "held"
    BY <1>3 DEF Link, Read, Signal, Remove, Goes, Retry
  <2> QED
    BY <2>1
<1>4. CASE UNCHANGED vars
  BY <1>4 DEF vars
<1> QED
  BY <1>1, <1>2, <1>3, <1>4 DEF Next, Step, TryLock, Terminated

\* The system calls of TryLock and Unlock implement the atomic lock, up to the
\* step that removes the lock of a living process, for any number of processes.
THEOREM LockfileImplementsLock == Spec => ImplementsHostLock
<1>1. Init => Abstract!LInit
  BY DEF Init, Abstract!LInit, Holders
<1> QED
  BY <1>1, HoldersStep, LockInvariant, PTL DEF Spec, ImplementsHostLock

=============================================================================
