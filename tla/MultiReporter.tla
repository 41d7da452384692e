--------------------------- MODULE MultiReporter ---------------------------
(***************************************************************************)
(* reporter/multireporter/reporter.go: fans every call out to a list of     *)
(* destinations, here the artifact store and the mesos reporter, which      *)
(* agrees to every log chunk, and queues it unless it is told not to or it  *)
(* is not of the console (DefaultReporter models what becomes of it).       *)
(* The callers are the engine's: the goroutines of the console log and of   *)
(* the infrastructure log push chunks, the one that runs the commands       *)
(* publishes artifacts, and main calls Init first and, when both logs have  *)
(* ended, Shutdown.  After an abort the commands may still be running then. *)
(***************************************************************************)
EXTENDS ArtifactStore

CONSTANTS Orders,        \* the lists of destinations to consider
          Console,       \* the stream of the console log
          DontPushLogChunks, \* dontPushLogChunks of the mesos reporter
          DiscardErrors, \* discardErrors of the store
          MaxPublish     \* bound: calls of PublishArtifacts

ASSUME MultiReporterAssumption ==
    /\ \A o \in Orders : /\ o \in Seq({"mesos", "store"}) /\ "store" \in Range(o)
                         /\ \A i, j \in DOMAIN o : o[i] = o[j] => i = j
    /\ DontPushLogChunks \in BOOLEAN /\ DiscardErrors \in BOOLEAN /\ MaxPublish \in Nat

VARIABLES dests,     \* r.reporterDestinations
          at,        \* for each stream: the destination PushLogChunk is at, or 0
          success,   \* its variable of that name
          main,      \* where main is
          publishes, \* calls of PublishArtifacts
          \* history
          mesos,     \* the chunks of each stream that the mesos reporter has queued
          acked      \* the chunks for which PushLogChunk returned true

multiVars == <<dests, at, success, main, publishes, mesos, acked>>
vars == <<storeVars, multiVars>>

Init == /\ StoreInit
        /\ dests \in Orders
        /\ at = [s \in Streams |-> 0] /\ success = [s \in Streams |-> TRUE]
        /\ main = "start" /\ publishes = 0
        /\ mesos = [s \in Streams |-> <<>>] /\ acked = [s \in Streams |-> {}]

Over(c) == call[c] \in {"done", "late", "skipped"}

\* The caller goes on with what the store has returned.
Back(c) == Over(c) /\ call' = [call EXCEPT ![c] = "idle"]

StoreUnchanged == UNCHANGED <<bucket, disabled, stored, upload, collected, crashed,
                              logs, flushes, deadlines>>

-----------------------------------------------------------------------------
(* PushLogChunk *)

PushUnchangedToo == UNCHANGED <<dests, main, publishes, firstError>>
                    /\ StoreUnchanged

Begin(s) ==
    /\ main = "running" /\ at[s] = 0 /\ chunk[s] < MaxChunks[s]
    /\ chunk' = [chunk EXCEPT ![s] = @ + 1]
    /\ at' = [at EXCEPT ![s] = 1]
    /\ UNCHANGED <<success, call, body, retch, carried, mesos, acked>> /\ PushUnchangedToo

AtDest(s, d) == at[s] \in DOMAIN dests /\ dests[at[s]] = d

\* Once a destination has refused the chunk, "success &&" keeps it from the
\* ones that follow.
Proceed(s, ok) == /\ at' = [at EXCEPT ![s] = IF ok THEN @ + 1 ELSE Len(dests) + 1]
                  /\ success' = [success EXCEPT ![s] = ok]

\* The mesos reporter takes no other chunks, and agrees to them all the same.
MesosTakes(s) == ~DontPushLogChunks /\ s = Console

PushMesos(s) ==
    /\ AtDest(s, "mesos") /\ Proceed(s, TRUE)
    /\ mesos' = IF MesosTakes(s) THEN [mesos EXCEPT ![s] = Append(@, chunk[s])] ELSE mesos
    /\ UNCHANGED <<chunk, call, body, retch, carried, acked>> /\ PushUnchangedToo

\* A call that finds the reporter disabled starts no body.
PushStore(s) ==
    /\ AtDest(s, "store") /\ Call(s, "check")
    /\ carried' = IF disabled THEN carried ELSE [carried EXCEPT ![s] = chunk[s]]
    /\ UNCHANGED <<chunk, at, success, retch, mesos, acked>> /\ PushUnchangedToo

\* Mutant: without an answer the push counts as a success.
StorePushed_Optimist(s) ==
    /\ AtDest(s, "store") /\ Back(s) /\ Proceed(s, retch[s] # "false")
    /\ retch' = [retch EXCEPT ![s] = "empty"]
    /\ UNCHANGED <<chunk, body, carried, mesos, acked>> /\ PushUnchangedToo

\* The answer counts even if it came just after the deadline.
StorePushed(s) ==
    /\ AtDest(s, "store") /\ Back(s) /\ Proceed(s, retch[s] = "true")
    /\ retch' = [retch EXCEPT ![s] = "empty"]
    /\ UNCHANGED <<chunk, body, carried, mesos, acked>> /\ PushUnchangedToo

End(s) ==
    /\ at[s] = Len(dests) + 1 /\ at' = [at EXCEPT ![s] = 0]
    /\ success' = [success EXCEPT ![s] = TRUE]
    /\ acked' = IF success[s] THEN [acked EXCEPT ![s] = @ \union {chunk[s]}] ELSE acked
    /\ UNCHANGED <<chunk, call, body, retch, carried, mesos>> /\ PushUnchangedToo

PushLogChunk(s) == \/ Begin(s) \/ PushMesos(s) \/ PushStore(s)
                   \/ StorePushed(s) \/ End(s)

-----------------------------------------------------------------------------
(* PublishArtifacts, Init and Shutdown; the mesos reporter does nothing here *)

MainUnchanged == UNCHANGED <<dests, at, success, mesos, acked, retch,
                             chunk, carried, bucket, disabled, stored, crashed,
                             logs, flushes, deadlines>>

Publish == /\ main \notin {"start", "init"} /\ publishes < MaxPublish
           /\ Call("runner", "collect") /\ publishes' = publishes + 1
           /\ IF disabled THEN UNCHANGED <<upload, collected>>
                          ELSE upload' = [a \in Artifacts |-> "none"] /\ collected' = "none"
           /\ UNCHANGED <<main, firstError>> /\ MainUnchanged

\* An error that is there when the call is over is returned, or discarded.
PublishError == Over("runner") /\ firstError /\ ~DiscardErrors

PublishEnds == /\ Back("runner") /\ firstError' = FALSE
               /\ UNCHANGED <<main, publishes, body, upload, collected>> /\ MainUnchanged

MainStep(from, to) == main = from /\ main' = to

InitStore == /\ MainStep("start", "init") /\ Call("main", "newBucket")
             /\ UNCHANGED <<publishes, upload, collected, firstError>> /\ MainUnchanged

InitEnds == /\ MainStep("init", "running") /\ Back("main")
            /\ UNCHANGED <<publishes, body, upload, collected, firstError>> /\ MainUnchanged

Shutdown == /\ MainStep("running", "shutdown") /\ \A s \in Streams : at[s] = 0
            /\ Call("main", "flush")
            /\ UNCHANGED <<publishes, upload, collected, firstError>> /\ MainUnchanged

ShutdownEnds == /\ MainStep("shutdown", "down") /\ Back("main")
                /\ UNCHANGED <<publishes, body, upload, collected, firstError>>
                /\ MainUnchanged

\* A step of the callers, or of runWithDeadline for one of them.
CallerStep == \/ \E s \in Streams : PushLogChunk(s)
              \/ Publish \/ PublishEnds \/ InitStore \/ InitEnds
              \/ Shutdown \/ ShutdownEnds

Timed(c) == ~crashed /\ (Returns(c) \/ Deadline(c)) /\ UNCHANGED multiVars

\* The runtime has ended the process, or main is through.
Terminated == (crashed \/ main = "down") /\ UNCHANGED vars

Next == \/ ~crashed /\ CallerStep
        \/ \E c \in Callers : Timed(c)
        \/ ~crashed /\ (Body \/ MapRace) /\ UNCHANGED multiVars
        \/ Terminated

\* Deadlines pass and callers go on; no request to the server has to return.
Fairness == /\ \A c \in Callers : WF_vars(Timed(c))
            /\ \A s \in Streams : WF_vars(~crashed /\ at[s] # 0 /\ PushLogChunk(s))
            /\ WF_vars(~crashed /\ (InitEnds \/ ShutdownEnds \/ PublishEnds))

Spec == Init /\ [][Next]_vars /\ Fairness

-----------------------------------------------------------------------------
CallTypes ==
    /\ bucket \in {"none", "open", "closed"} /\ disabled \in BOOLEAN /\ crashed \in BOOLEAN
    /\ stored \subseteq Streams
    /\ call \in [Callers -> {"idle", "waiting", "done", "late", "skipped"}]
    /\ body \in [Callers -> {"none", "newBucket", "check", "lookUp", "create", "store",
                             "append", "collect", "wait", "flush", "close", "done"}]
    /\ retch \in [Streams -> {"empty", "true", "false"}]
    /\ upload \in [Artifacts -> {"none", "begun", "settled", "failed"}]
    /\ collected \in {"none", "found", "failed"} /\ unflushed \subseteq Streams
    /\ firstError \in BOOLEAN
    /\ deadlines \in [Callers -> 0..1]
    /\ main \in {"start", "init", "running", "shutdown", "down"}
    /\ dests \in Orders

ChunkTypes ==
    /\ {chunk, carried, flushed, at} \subseteq [Streams -> Nat]
    /\ {queued, mesos} \subseteq [Streams -> Seq(Nat)]
    /\ success \in [Streams -> BOOLEAN] /\ {acked, refused} \subseteq [Streams -> SUBSET Nat]

Bounds == \A s \in Streams :
    /\ chunk[s] <= MaxChunks[s] /\ carried[s] <= chunk[s] /\ flushed[s] <= chunk[s]
    /\ at[s] <= Len(dests) + 1 /\ \A n \in acked[s] : 0 < n /\ n <= chunk[s]

\* Types; and each caller waits out the deadline at most once, since nobody
\* calls a reporter that one call has disabled: a server that hangs costs the
\* build no more than that.
TypeOK == CallTypes /\ ChunkTypes /\ Bounds

Pushing == {"check", "lookUp", "create", "store", "append"}

Increasing(seq) == \A i, j \in DOMAIN seq : i < j => seq[i] < seq[j]

\* AppendLog has been called for chunk n of stream s, and has queued it or failed.
HandedOver(s, n) == n \in Range(queued[s]) \/ n \in refused[s]

\* PushLogChunk returns true only for a chunk that has been handed to the queue of
\* every destination that takes its stream's chunks, though the artifact store's
\* queue may have refused it; and no queue gets a stream's chunks twice or out of
\* order, even from a body that finishes long after its call was given up.
AcksAreTrue ==
    \A s \in Streams :
        /\ \A n \in acked[s] : HandedOver(s, n)
        /\ "mesos" \in Range(dests) /\ MesosTakes(s) => acked[s] \subseteq Range(mesos[s])
        /\ Increasing(queued[s]) /\ Increasing(mesos[s])

\* A bucket is closed only when everything that was queued for its logs has been
\* flushed, but for the logs whose flush has failed, and when nothing more will
\* be queued: no body left behind by a deadline appends to a closed bucket.
ClosedIsComplete ==
    bucket = "closed" =>
        \A s \in Streams : /\ s \notin unflushed => flushed[s] = Len(queued[s])
                          /\ body[s] \notin Pushing

\* PublishArtifacts does not invent errors: the one it returns is from collecting or
\* sending artifacts in this very call.  Nor does it hide any, unless the deadline
\* cut it short, it was skipped or errors are discarded: either every artifact was
\* sent or is empty, or there was nothing to collect, for want of a bucket perhaps,
\* and nothing was sent.
PublishIsTruthful ==
    /\ Over("runner") /\ PublishError =>
           collected = "failed" \/ \E a \in Artifacts : upload[a] = "failed"
    /\ call["runner"] = "done" /\ ~DiscardErrors /\ ~PublishError =>
           \/ collected = "found" /\ \A a \in Artifacts : upload[a] = "settled"
           \/ collected = "none" /\ \A a \in Artifacts : upload[a] = "none"

\* No call is under way.
Quiet == /\ \A s \in Streams : at[s] = 0
         /\ call["runner"] = "idle" /\ main \notin {"init", "shutdown"}

\* The inductive invariant: how the goroutines stand to the calls they belong to.
CallControl ==
    \A c \in Callers :
        /\ deadlines[c] = 1 => disabled /\ call[c] # "waiting"
        /\ body[c] \notin {"none", "done"} => call[c] = "waiting" \/ disabled
        /\ call[c] = "done" => body[c] = "done"

BodyOf ==
    /\ \A s \in Streams : body[s] \in Pushing \union {"none", "done"}
    /\ body["main"] \in {"none", "newBucket", "flush", "close", "done"}
    /\ body["runner"] \in {"none", "collect", "wait", "done"}

Ahead(s, d) == \E i \in DOMAIN dests : dests[i] = d /\ 0 < at[s] /\ at[s] <= i
Passed(s, d) == \E i \in DOMAIN dests : dests[i] = d /\ i < at[s]

\* How a stream's call, the destination it is at and the chunk in hand agree.
PushControl(s) ==
    /\ at[s] # 0 => chunk[s] > 0
    /\ success[s] \/ at[s] = Len(dests) + 1
    /\ call[s] # "idle" => AtDest(s, "store")
    /\ call[s] \in {"waiting", "done", "late"} => carried[s] = chunk[s]
    /\ call[s] \in {"idle", "skipped"} => retch[s] = "empty"
    /\ Ahead(s, "store") /\ call[s] = "idle" => carried[s] < chunk[s]

\* A destination that has agreed to the current chunk has been handed it.
Answered(s) ==
    /\ retch[s] = "true" => HandedOver(s, chunk[s])
    /\ success[s] /\ Passed(s, "store") => HandedOver(s, chunk[s])
    /\ success[s] /\ Passed(s, "mesos") /\ MesosTakes(s) => chunk[s] \in Range(mesos[s])

\* What a destination holds, compared with what is in hand for it.
Below(seq, n) == seq \in Seq(Nat) /\ Len(seq) < n /\ \A i \in DOMAIN seq : seq[i] < n

Appended(s) ==
    /\ Below(queued[s], IF body[s] \in Pushing THEN carried[s] ELSE carried[s] + 1)
    /\ Below(mesos[s], IF Ahead(s, "mesos") THEN chunk[s] ELSE chunk[s] + 1)

Closing ==
    /\ main \in {"start", "init", "shutdown", "down"} => \A s \in Streams : at[s] = 0
    /\ body["main"] \in {"flush", "close"} \/ bucket = "closed" =>
          /\ main \in {"shutdown", "down"}
          /\ \A s \in Streams : body[s] \notin Pushing
    /\ body["main"] = "close" =>
          \A s \in Streams : s \notin unflushed => flushed[s] = Len(queued[s])
    /\ \A s \in Streams : body[s] = "append" \/ queued[s] # <<>> => s \in stored

\* How artifacts, the error and the call of PublishArtifacts agree.
Uploading ==
    /\ \A a \in Artifacts :
          /\ upload[a] = "begun" => body["runner"] = "wait"
          /\ upload[a] = "none" <=> collected # "found"
          /\ upload[a] = "failed" /\ call["runner"] \in {"waiting", "done"} => firstError
    /\ collected = "failed" /\ call["runner"] \in {"waiting", "done"} => firstError
    /\ body["runner"] = "collect" => collected = "none"
    /\ call["runner"] \in {"idle", "skipped"} => ~firstError
    /\ firstError => collected = "failed" \/ \E a \in Artifacts : upload[a] = "failed"

IInv == /\ TypeOK /\ CallControl /\ BodyOf
        /\ \A s \in Streams : PushControl(s) /\ Answered(s) /\ Appended(s)
        /\ Closing /\ Uploading /\ AcksAreTrue /\ ClosedIsComplete

\* Whatever the server does, every call comes back: time and again the build is
\* in nobody's hands but the engine's, or the process has been ended.
CallsReturn == []<>(Quiet \/ crashed)

\* "Sends out notifications to multiple reporters": every destination gets
\* every chunk it takes that has been through PushLogChunk, whatever the others do.
EveryDestinationServed ==
    \A s \in Streams :
        at[s] = 0 /\ "mesos" \in Range(dests) /\ MesosTakes(s) => Len(mesos[s]) = chunk[s]

=============================================================================
