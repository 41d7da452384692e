------------------------------ MODULE HostLock ------------------------------
(***************************************************************************)
(* What launchOverlayContainer relies on between acquireLock and the        *)
(* deferred Unlock: that one client of the host at a time is under the      *)
(* lock.  Its end frees the lock, whether the client returns, fails or is   *)
(* killed.                                                                  *)
(***************************************************************************)
CONSTANT Clients

VARIABLE holders  \* the clients under the lock

LInit == holders = {}

Acquire(c) == holders = {} /\ holders' = {c}

Free(c) == c \in holders /\ holders' = holders \ {c}

LNext == \E c \in Clients : Acquire(c) \/ Free(c)

LSpec == LInit /\ [][LNext]_holders

\* At most one client is under the lock.
Exclusive == \A c, d \in holders : c = d

=============================================================================
