--------------------------- MODULE ArtifactStore ---------------------------
(***************************************************************************)
(* reporter/artifactstore/reporter.go: a reporter whose calls run in a      *)
(* goroutine of their own, the body, under a deadline (runWithDeadline).    *)
(* The caller that sees the deadline pass disables the reporter for good    *)
(* and leaves the body behind, which may still finish.  The client library  *)
(* of the server is external: each call of it succeeds, fails or never      *)
(* returns.  AppendLog queues a chunk, which Flush waits for.               *)
(***************************************************************************)
EXTENDS Naturals, Sequences, Functions

CONSTANTS Streams,   \* sources of log chunks, one goroutine each
          Artifacts, \* the files CollectArtifacts finds
          MaxChunks  \* bound: how many chunks each stream pushes

\* The goroutines that call the reporter: one per stream, the one that runs
\* the commands, and main.
Callers == Streams \union {"runner", "main"}

ASSUME ArtifactStoreAssumption == /\ "runner" \notin Streams /\ "main" \notin Streams
                                  /\ MaxChunks \in [Streams -> Nat]

VARIABLES bucket,     \* r.bucket: none, or the server has it open or closed
          disabled,   \* r.disabled
          stored,     \* streams with an entry in r.chunkedArtifacts
          call,       \* for each caller: runWithDeadline waits, or has returned with
                      \* the body "done", too "late", or without one ("skipped")
          body,       \* the goroutine it has started
          retch,      \* the channel of PushLogChunk
          firstError, \* the channel of PublishArtifacts holds an error
          upload,     \* the goroutine of each artifact
          crashed,    \* the runtime has found two uses of the map at once
          \* what the server has, and history
          chunk,      \* the number of the chunk each stream pushes
          carried,    \* the chunk its body has in hand
          queued,     \* the chunks AppendLog has queued for each stream's artifact
          refused,    \* the chunks for which it has failed
          flushed,    \* how many chunks of each artifact a flush has waited for
          unflushed,  \* streams whose flush has failed
          collected,  \* CollectArtifacts of this call of PublishArtifacts: "none",
                      \* "found" or "failed"
          deadlines   \* how often each caller saw the deadline pass

logs    == <<queued, refused>>
flushes == <<flushed, unflushed>>

storeVars == <<bucket, disabled, stored, call, body, retch, firstError, upload,
               crashed, chunk, carried, logs, flushes, collected, deadlines>>

StoreInit == /\ bucket = "none" /\ disabled = FALSE /\ stored = {}
             /\ call = [c \in Callers |-> "idle"] /\ body = [c \in Callers |-> "none"]
             /\ retch = [s \in Streams |-> "empty"] /\ firstError = FALSE
             /\ upload = [a \in Artifacts |-> "none"]
             /\ crashed = FALSE
             /\ chunk = [s \in Streams |-> 0] /\ carried = [s \in Streams |-> 0]
             /\ queued = [s \in Streams |-> <<>>] /\ refused = [s \in Streams |-> {}]
             /\ flushed = [s \in Streams |-> 0] /\ unflushed = {}
             /\ collected = "none"
             /\ deadlines = [c \in Callers |-> 0]

-----------------------------------------------------------------------------
(* runWithDeadline *)

\* Mutant: a disabled reporter is called all the same.
Call_WhenDisabled(c, first) ==
    /\ call[c] = "idle"
    /\ call' = [call EXCEPT ![c] = "waiting"]
    /\ body' = [body EXCEPT ![c] = first]

\* The body starts at "first", unless the reporter is disabled.
Call(c, first) ==
    /\ call[c] = "idle"
    /\ IF disabled THEN /\ call' = [call EXCEPT ![c] = "skipped"]
                        /\ UNCHANGED body
                   ELSE /\ call' = [call EXCEPT ![c] = "waiting"]
                        /\ body' = [body EXCEPT ![c] = first]

\* The body is done in time.
Returns(c) ==
    /\ call[c] = "waiting" /\ body[c] = "done"
    /\ call' = [call EXCEPT ![c] = "done"]
    /\ UNCHANGED <<bucket, disabled, stored, body, retch, firstError, upload, crashed,
                   chunk, carried, logs, flushes, collected, deadlines>>

\* Mutant: the call returns but the reporter stays enabled.
Deadline_StaysEnabled(c) ==
    /\ call[c] = "waiting"
    /\ call' = [call EXCEPT ![c] = "late"]
    /\ deadlines' = [deadlines EXCEPT ![c] = @ + 1]
    /\ UNCHANGED <<bucket, disabled, stored, body, retch, firstError, upload, crashed,
                   chunk, carried, logs, flushes, collected>>

\* Mutant: there is no time limit.
Deadline_Never(c) == call[c] = "waiting" /\ body[c] = "done" /\ Returns(c)

\* The deadline passes, perhaps just when the body gets done.
Deadline(c) ==
    /\ call[c] = "waiting"
    /\ call' = [call EXCEPT ![c] = "late"]
    /\ disabled' = TRUE
    /\ deadlines' = [deadlines EXCEPT ![c] = @ + 1]
    /\ UNCHANGED <<bucket, stored, body, retch, firstError, upload, crashed,
                   chunk, carried, logs, flushes, collected>>

-----------------------------------------------------------------------------
(* The bodies *)

BodyUnchanged == UNCHANGED <<disabled, call, crashed, chunk, carried, deadlines>>

Goto(c, from, to) == body[c] = from /\ body' = [body EXCEPT ![c] = to]

\* Init makes a bucket; without a server, or when that fails, there is none.
NewBucket == /\ Goto("main", "newBucket", "done")
             /\ bucket' \in {"none", "open"}
             /\ UNCHANGED <<stored, retch, firstError, upload, collected, logs, flushes>>
             /\ BodyUnchanged

\* The call that the body of c belongs to has not returned to the caller's
\* caller yet: its channel is still looked at.
Heard(c) == call[c] \in {"waiting", "late"}

Answer(s, b) == retch' = IF Heard(s) THEN [retch EXCEPT ![s] = b] ELSE retch

PushUnchanged == UNCHANGED <<bucket, firstError, upload, collected, flushes>> /\ BodyUnchanged

\* PushLogChunk's body: no bucket, no log.
CheckBucket(s) ==
    /\ IF bucket = "none" THEN Goto(s, "check", "done") /\ Answer(s, "false")
                          ELSE Goto(s, "check", "lookUp") /\ UNCHANGED retch
    /\ UNCHANGED <<stored, logs>> /\ PushUnchanged

LookUp(s) == /\ Goto(s, "lookUp", IF s \in stored THEN "append" ELSE "create")
             /\ UNCHANGED <<retch, stored, logs>> /\ PushUnchanged

\* The server makes the stream's artifact, or fails to.
Create(s) ==
    /\ \/ Goto(s, "create", "store") /\ UNCHANGED retch
       \/ Goto(s, "create", "done") /\ Answer(s, "false")
    /\ UNCHANGED <<stored, logs>> /\ PushUnchanged

\* The entry in the map is made; while body is "store", it is being written.
Store(s) == /\ Goto(s, "store", "append") /\ stored' = stored \union {s}
            /\ UNCHANGED <<retch, logs>> /\ PushUnchanged

\* AppendLog queues the chunk or fails; the answer is true either way.
AppendLog(s) ==
    /\ Goto(s, "append", "done")
    /\ \/ queued' = [queued EXCEPT ![s] = Append(@, carried[s])] /\ UNCHANGED refused
       \/ refused' = [refused EXCEPT ![s] = @ \union {carried[s]}] /\ UNCHANGED queued
    /\ Answer(s, "true")
    /\ UNCHANGED stored /\ PushUnchanged

\* chunkedArtifacts is a map without a lock: a use of it while another
\* goroutine writes to it may be found out by the runtime, which ends the
\* process, or go unnoticed.
MapRace ==
    /\ \E s \in Streams, c \in Callers \ {"runner"} :
          /\ c # s /\ body[s] = "store" /\ body[c] \in {"lookUp", "store", "append", "flush"}
    /\ crashed' = TRUE
    /\ UNCHANGED <<bucket, disabled, stored, call, body, retch, firstError, upload,
                   chunk, carried, logs, flushes, collected, deadlines>>

\* PublishArtifacts' body: it ends at once, and without an error, if there is no
\* bucket or nothing to collect; or CollectArtifacts fails; or a goroutine is
\* started for each artifact.
Collect ==
    /\ \/ /\ Goto("runner", "collect", "done")
          /\ UNCHANGED <<firstError, upload, collected>>
       \/ /\ bucket # "none" /\ Goto("runner", "collect", "done")
          /\ collected' = "failed" /\ firstError' = (firstError \/ Heard("runner"))
          /\ UNCHANGED upload
       \/ /\ bucket # "none" /\ Goto("runner", "collect", "wait")
          /\ collected' = "found" /\ upload' = [a \in Artifacts |-> "begun"]
          /\ UNCHANGED firstError
    /\ UNCHANGED <<bucket, stored, retch, logs, flushes>> /\ BodyUnchanged

\* Mutant: the error of an upload is lost.
Upload_DropsError(a) ==
    /\ upload[a] = "begun"
    /\ \E how \in {"settled", "failed"} : upload' = [upload EXCEPT ![a] = how]
    /\ UNCHANGED <<bucket, stored, body, retch, firstError, collected, logs, flushes>> /\ BodyUnchanged

\* An artifact is sent or ignored as empty, or something fails; of several
\* errors captureError keeps the first.
Upload(a) ==
    /\ upload[a] = "begun"
    /\ \E how \in {"settled", "failed"} :
          /\ upload' = [upload EXCEPT ![a] = how]
          /\ firstError' = (firstError \/ (how = "failed" /\ Heard("runner")))
    /\ UNCHANGED <<bucket, stored, body, retch, collected, logs, flushes>> /\ BodyUnchanged

WaitUploads ==
    /\ Goto("runner", "wait", "done")
    /\ \A a \in Artifacts : upload[a] # "begun"
    /\ UNCHANGED <<bucket, stored, retch, firstError, upload, collected, logs, flushes>>
    /\ BodyUnchanged

\* Shutdown's body: each stream's artifact is flushed, which waits for its queue
\* or fails.
Flush ==
    /\ IF bucket = "none"
       THEN Goto("main", "flush", "done") /\ UNCHANGED flushes
       ELSE /\ Goto("main", "flush", "close")
            /\ unflushed' \in SUBSET stored
            /\ flushed' = [s \in Streams |-> IF s \in stored \ unflushed'
                                            THEN Len(queued[s]) ELSE 0]
    /\ UNCHANGED <<bucket, stored, retch, firstError, upload, collected, logs>>
    /\ BodyUnchanged

\* Whatever has failed to be flushed, the bucket is closed, or cannot be.
CloseBucket == /\ Goto("main", "close", "done")
               /\ bucket' \in {"open", "closed"}
               /\ UNCHANGED <<stored, retch, firstError, upload, collected, logs, flushes>>
               /\ BodyUnchanged

Body == \/ NewBucket \/ Collect \/ WaitUploads \/ Flush \/ CloseBucket
        \/ \E s \in Streams : \/ CheckBucket(s) \/ LookUp(s) \/ Create(s)
                              \/ Store(s) \/ AppendLog(s)
        \/ \E a \in Artifacts : Upload(a)

=============================================================================
