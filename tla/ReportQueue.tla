---------------------------- MODULE ReportQueue ----------------------------
(***************************************************************************)
(* What the publishing half of DefaultReporter promises to its callers     *)
(* (client/reporter/defaultreporter.go): payloads are accepted in some      *)
(* order, at most MaxPending + 1 of them are outstanding, the oldest one is *)
(* applied at the server any number of times and then retired, nothing is   *)
(* accepted once the channel is closed, and the queue stops only when it is *)
(* closed and everything accepted has been retired.                         *)
(***************************************************************************)
EXTENDS Naturals, Sequences

CONSTANTS Payload,      \* what callers report
          MaxPending    \* capacity of PublishChannel

VARIABLES accepted,     \* every payload accepted so far, in order
          retired,      \* how many of them are done with
          applied,      \* what the server has applied, in order
          closed,       \* the channel is closed
          stopped       \* the transport has said that it is finished

qvars == <<accepted, retired, applied, closed, stopped>>

Outstanding == Len(accepted) - retired

QInit == /\ accepted = <<>>
         /\ retired = 0
         /\ applied = <<>>
         /\ closed = FALSE
         /\ stopped = FALSE

Accept(p) == /\ ~closed
             /\ Outstanding <= MaxPending
             /\ accepted' = Append(accepted, p)
             /\ UNCHANGED <<retired, applied, closed, stopped>>

\* The oldest outstanding payload reaches the server, possibly once more.
Apply == /\ retired < Len(accepted)
         /\ applied' = Append(applied, accepted[retired + 1])
         /\ UNCHANGED <<accepted, retired, closed, stopped>>

\* The oldest outstanding payload is acknowledged or given up.
Retire == /\ retired < Len(accepted)
          /\ retired' = retired + 1
          /\ UNCHANGED <<accepted, applied, closed, stopped>>

\* The last attempt at the oldest outstanding payload is also its last post.
ApplyAndRetire == /\ retired < Len(accepted)
                  /\ applied' = Append(applied, accepted[retired + 1])
                  /\ retired' = retired + 1
                  /\ UNCHANGED <<accepted, closed, stopped>>

Close == /\ ~closed
         /\ closed' = TRUE
         /\ UNCHANGED <<accepted, retired, applied, stopped>>

Stop == /\ closed /\ ~stopped
        /\ retired = Len(accepted)
        /\ stopped' = TRUE
        /\ UNCHANGED <<accepted, retired, applied, closed>>

QNext == \/ \E p \in Payload : Accept(p)
         \/ Apply
         \/ Retire
         \/ ApplyAndRetire
         \/ Close
         \/ Stop

QSpec == QInit /\ [][QNext]_qvars

-----------------------------------------------------------------------------
QTypeOK == /\ accepted \in Seq(Payload)
           /\ retired \in 0..Len(accepted)
           /\ applied \in Seq(Payload)
           /\ closed \in BOOLEAN
           /\ stopped \in BOOLEAN

\* The server applies payloads in the order they were accepted: whatever it
\* applied earlier was accepted no later than what it applied afterwards, and
\* nothing is applied before its turn.
InOrder ==
    \A i, j \in DOMAIN applied : i <= j =>
        \E k, l \in DOMAIN accepted :
            /\ k <= l /\ l <= retired + 1
            /\ applied[i] = accepted[k]
            /\ applied[j] = accepted[l]

\* A stopped queue owes nothing: it is closed and all payloads are retired.
StoppedMeansDrained == stopped => closed /\ retired = Len(accepted)

=============================================================================
