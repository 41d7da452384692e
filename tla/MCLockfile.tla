----------------------------- MODULE MCLockfile -----------------------------
(***************************************************************************)
(* Three processes that take the lock once each, any of which may be dead   *)
(* from the start, under both behaviours of Process.Signal.                 *)
(***************************************************************************)
EXTENDS Lockfile

=============================================================================
