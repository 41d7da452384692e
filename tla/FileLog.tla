------------------------------ MODULE FileLog ------------------------------
(***************************************************************************)
(* client/filelog/filelog.go: a log written to a file, and the goroutine    *)
(* readFromFile that tails the file to a reporter until Shutdown.  Bytes    *)
(* are numbered by their place in the file, so that a payload is an         *)
(* interval of numbers; the reporter is external and may refuse a chunk,    *)
(* and a read may fail.                                                     *)
(***************************************************************************)
EXTENDS Naturals, Sequences, FiniteSetsExt

CONSTANTS Callers,    \* goroutines that call StartReporting and Shutdown
          NoCaller,
          ChunkSize,  \* chunkSize
          MaxBytes    \* bound: bytes ever written

ASSUME FileLogAssumption == /\ NoCaller \notin Callers
                            /\ ChunkSize \in Nat \ {0}
                            /\ MaxBytes \in Nat

VARIABLES written,   \* bytes in the file
          read,      \* offset of readFile
          sent,      \* offset up to which "send" has been emptied
          tail,      \* where readFromFile is
          running,   \* its variable of that name
          complete,  \* shutdownComplete is closed
          reporting, \* f.reporter is not nil
          lock,      \* holder of reporterLock
          caller,    \* what each caller is doing
          \* history
          pushed,    \* the chunks the reporter accepted: [from, to] offsets
          refused,   \* the reporter has refused a chunk
          readError, \* a read has failed with something other than EOF
          owed       \* bytes in the file when Shutdown got the lock

tailVars == <<read, sent, tail, running, complete, pushed, refused, readError>>
callVars == <<reporting, lock, caller, owed>>
vars == <<written, tailVars, callVars>>

Init == /\ written = 0 /\ read = 0 /\ sent = 0
        /\ tail = "off" /\ running = TRUE /\ complete = FALSE
        /\ reporting = FALSE /\ lock = NoCaller
        /\ caller = [c \in Callers |-> "idle"]
        /\ pushed = <<>> /\ refused = FALSE /\ readError = FALSE /\ owed = 0

Write == /\ \E n \in 1..(MaxBytes - written) : written' = written + n
         /\ UNCHANGED <<tailVars, callVars>>

-----------------------------------------------------------------------------
(* readFromFile *)

TailUnchanged == UNCHANGED <<written, callVars>>

\* Mutant: the deferred close is missing.
Return_NoClose == tail' = "done" /\ UNCHANGED complete

\* The goroutine returns, which closes shutdownComplete.
Return == tail' = "done" /\ complete' = TRUE

\* One round is over: the next one, unless this was the last.
EndRound == IF running THEN tail' = "wait" /\ UNCHANGED complete ELSE Return

\* flushDelay has passed.
Flush == /\ tail = "wait" /\ tail' = "read" /\ TailUnchanged
         /\ UNCHANGED <<read, sent, running, complete, pushed, refused, readError>>

\* Mutant: a payload that is exactly a chunk is not pushed yet.
Read_OffByOne ==
    /\ tail = "read" /\ read < written /\ TailUnchanged
    /\ read' = Min({written, read + ChunkSize})
    /\ tail' = IF read' - sent > ChunkSize THEN "pushFull" ELSE "read"
    /\ UNCHANGED <<sent, running, complete, pushed, refused, readError>>

\* Read appends what is there, at most ChunkSize bytes, to send.
Read == /\ tail = "read" /\ read < written /\ TailUnchanged
        /\ read' = Min({written, read + ChunkSize})
        /\ tail' = IF read' - sent >= ChunkSize THEN "pushFull" ELSE "read"
        /\ UNCHANGED <<sent, running, complete, pushed, refused, readError>>

\* Mutant: less than a chunk is not sent.
ReadStops_DropsRest == EndRound

\* Any error ends the inner loop; what has been read so far is still sent.
ReadStops == IF read > sent THEN tail' = "pushRest" /\ UNCHANGED complete ELSE EndRound

ReadEOF == /\ tail = "read" /\ read = written /\ TailUnchanged
           /\ ReadStops
           /\ UNCHANGED <<read, sent, running, pushed, refused, readError>>

ReadFails == /\ tail = "read" /\ TailUnchanged
             /\ ReadStops
             /\ readError' = TRUE
             /\ UNCHANGED <<read, sent, running, pushed, refused>>

\* Mutant: send is not emptied after it was pushed.
PushAccepted_KeepsSend ==
    /\ tail \in {"pushFull", "pushRest"} /\ TailUnchanged
    /\ pushed' = Append(pushed, [from |-> sent, to |-> read])
    /\ IF tail = "pushFull" THEN tail' = "read" /\ UNCHANGED complete ELSE EndRound
    /\ UNCHANGED <<read, sent, running, refused, readError>>

PushAccepted ==
    /\ tail \in {"pushFull", "pushRest"} /\ TailUnchanged
    /\ pushed' = Append(pushed, [from |-> sent, to |-> read])
    /\ sent' = read
    /\ IF tail = "pushFull" THEN tail' = "read" /\ UNCHANGED complete ELSE EndRound
    /\ UNCHANGED <<read, running, refused, readError>>

\* A refused chunk ends the tail, but Shutdown still has to find a receiver.
PushRefused ==
    /\ tail \in {"pushFull", "pushRest"} /\ TailUnchanged
    /\ refused' = TRUE
    /\ IF running THEN tail' = "refused" /\ UNCHANGED complete ELSE Return
    /\ UNCHANGED <<read, sent, running, pushed, readError>>

-----------------------------------------------------------------------------
(* StartReporting and Shutdown *)

\* StartReporting, which the client calls once; after Shutdown it does nothing.
StartReporting(c) ==
    /\ caller[c] = "idle" /\ lock = NoCaller
    /\ ~reporting /\ ~complete
    /\ reporting' = TRUE
    /\ tail' = "wait"
    /\ UNCHANGED <<written, read, sent, running, complete, pushed, refused,
                   readError, lock, caller, owed>>

\* Shutdown takes the lock; without a reporter it only marks the log closed.
ShutdownBegins(c) ==
    /\ caller[c] = "idle" /\ lock = NoCaller
    /\ UNCHANGED <<written, read, sent, tail, running, pushed, refused, readError, reporting>>
    /\ IF reporting
       THEN /\ lock' = c
            /\ caller' = [caller EXCEPT ![c] = "signal"]
            /\ owed' = IF complete THEN owed ELSE written
            /\ UNCHANGED complete
       ELSE complete' = TRUE /\ UNCHANGED <<lock, caller, owed>>

\* Mutant: the last round is skipped.
ShutdownSignal_NoLastRound(c) ==
    /\ caller[c] = "signal" /\ tail \in {"wait", "refused"}
    /\ caller' = [caller EXCEPT ![c] = "waiting"]
    /\ running' = FALSE
    /\ Return
    /\ UNCHANGED <<written, read, sent, pushed, refused, readError, reporting, lock, owed>>

\* f.shutdown meets the goroutine, either between two rounds or after a
\* refused chunk.
ShutdownSignal(c) ==
    /\ caller[c] = "signal" /\ tail \in {"wait", "refused"}
    /\ caller' = [caller EXCEPT ![c] = "waiting"]
    /\ IF tail = "wait"
       THEN running' = FALSE /\ tail' = "read" /\ UNCHANGED complete
       ELSE Return /\ UNCHANGED running
    /\ UNCHANGED <<written, read, sent, pushed, refused, readError, reporting, lock, owed>>

\* shutdownComplete is closed: now, or already before the call.
ShutdownReturns(c) ==
    /\ caller[c] \in {"signal", "waiting"} /\ complete
    /\ caller' = [caller EXCEPT ![c] = "idle"]
    /\ lock' = NoCaller
    /\ UNCHANGED <<written, tailVars, reporting, owed>>

TailStep == Flush \/ Read \/ ReadEOF \/ ReadFails \/ PushAccepted \/ PushRefused

Next == \/ Write
        \/ TailStep
        \/ \E c \in Callers : \/ StartReporting(c) \/ ShutdownBegins(c)
                              \/ ShutdownSignal(c) \/ ShutdownReturns(c)

\* The tail runs whenever it can, and so does a caller inside Shutdown; the
\* signal is a choice of select that stays possible only between two rounds,
\* where it competes with the timer.
Fairness == /\ WF_vars(TailStep)
            /\ \A c \in Callers : SF_vars(ShutdownSignal(c)) /\ WF_vars(ShutdownReturns(c))

Spec == Init /\ [][Next]_vars /\ Fairness

-----------------------------------------------------------------------------
\* Types, with the bound on "send": less than a chunk is carried over from one
\* read to the next, so that a payload has less than two chunks.
TypeOK == /\ written \in 0..MaxBytes
          /\ read \in 0..written /\ sent \in 0..read
          /\ tail \in {"off", "wait", "read", "pushFull", "pushRest", "refused", "done"}
          /\ read - sent < 2 * ChunkSize
          /\ tail \in {"read", "pushRest"} => read - sent < ChunkSize
          /\ running \in BOOLEAN /\ complete \in BOOLEAN /\ reporting \in BOOLEAN
          /\ lock \in Callers \union {NoCaller}
          /\ caller \in [Callers -> {"idle", "signal", "waiting"}]
          /\ pushed \in Seq([from : Nat, to : Nat])
          /\ refused \in BOOLEAN /\ readError \in BOOLEAN
          /\ owed \in 0..written

\* How the tail stands to its offsets, to Shutdown and to the log: between two
\* rounds "send" is empty, and a caller holds the lock while it is in Shutdown.
Rounds ==
    /\ tail \in {"off", "wait"} => read = sent
    /\ tail \in {"pushFull", "pushRest"} => sent < read
    /\ tail = "refused" => refused
    /\ tail = "done" => complete
    /\ ~reporting => tail = "off" /\ running
    /\ \A c \in Callers : caller[c] # "idle" <=> lock = c

\* The last round: what was there when Shutdown began has been read before
\* the tail ends, and nobody begins another Shutdown meanwhile.
LastRound ==
    /\ ~running /\ ~complete => lock # NoCaller
    /\ ~running /\ ~readError /\ tail = "pushRest" => read >= owed

\* The reporter gets the file from its beginning, without gaps, repetitions or
\* reordering, in chunks that are never empty.
PushedIsPrefix ==
    /\ \A k \in DOMAIN pushed :
          /\ pushed[k].from < pushed[k].to
          /\ pushed[k].from = IF k = 1 THEN 0 ELSE pushed[k - 1].to
    /\ sent = IF pushed = <<>> THEN 0 ELSE pushed[Len(pushed)].to

\* When Shutdown is through with a log that was being reported, the reporter
\* has everything the file held when Shutdown began, unless it refused a chunk
\* or the file could not be read.
ShutdownDelivers ==
    tail = "done" /\ ~refused /\ ~readError => sent >= owed

\* Every call of Shutdown returns.
ShutdownEnds == \A c \in Callers : caller[c] = "signal" ~> caller[c] = "idle"

\* What is written while the log is reported reaches the reporter.
WrittenIsReported ==
    \A n \in 1..MaxBytes :
        (reporting /\ lock = NoCaller /\ ~complete /\ written >= n)
            ~> (sent >= n \/ refused \/ readError \/ complete)

=============================================================================
