----------------------- MODULE MultiReporter_proofs -----------------------
(***************************************************************************)
(* Theorems about the multireporter and the queued store, for any number *)
(* of logs, chunks and artifacts and any lists of destinations.            *)
(***************************************************************************)
EXTENDS MultiReporter, SequenceTheorems, TLAPS

\* The steps of the callers, and those of the bodies.
Pushes(s) == Begin(s) \/ PushMesos(s) \/ PushStore(s) \/ StorePushed(s) \/ End(s)
StreamBody(s) == CheckBucket(s) \/ LookUp(s) \/ Create(s) \/ Store(s) \/ AppendLog(s)

LEMMA CallTypesStep ==
    ASSUME TypeOK, CallControl, [Next]_vars
    PROVE  CallTypes'
<1> USE ArtifactStoreAssumption DEF TypeOK, CallTypes, Callers, logs, flushes
<1>1. ASSUME NEW c \in Callers, Returns(c), UNCHANGED multiVars
      PROVE  CallTypes'
  BY <1>1 DEF Returns, multiVars
<1>2. ASSUME NEW c \in Callers, Deadline(c), UNCHANGED multiVars
      PROVE  CallTypes'
  <2>1. deadlines[c] = 0
    BY <1>2 DEF Deadline, CallControl
  <2> QED
    BY <1>2, <2>1 DEF Deadline, multiVars
<1>3. ASSUME NewBucket \/ Collect \/ WaitUploads \/ Flush \/ CloseBucket, UNCHANGED multiVars
      PROVE  CallTypes'
  <2>1. CASE NewBucket
    BY <1>3, <2>1 DEF NewBucket, multiVars, Goto, BodyUnchanged
  <2>2. CASE Collect
    <3>1. /\ firstError' \in BOOLEAN /\ collected' \in {"none", "found", "failed"}
          /\ UNCHANGED <<bucket, disabled, crashed, stored, call, retch, unflushed,
                         deadlines, main, dests>>
      BY <1>3, <2>2 DEF Collect, Heard, multiVars, BodyUnchanged
    <3>2. body' \in [Callers -> {"none", "newBucket", "check", "lookUp", "create", "store",
                                "append", "collect", "wait", "flush", "close", "done"}]
      BY <2>2 DEF Collect, Goto
    <3>3. upload' \in [Artifacts -> {"none", "begun", "settled", "failed"}]
      BY <2>2 DEF Collect
    <3> QED
      BY <3>1, <3>2, <3>3
  <2>3. CASE WaitUploads
    BY <1>3, <2>3 DEF WaitUploads, multiVars, Goto, BodyUnchanged
  <2>4. CASE Flush
    BY <1>3, <2>4 DEF Flush, multiVars, Goto, BodyUnchanged
  <2>5. CASE CloseBucket
    BY <1>3, <2>5 DEF CloseBucket, multiVars, Goto, BodyUnchanged
  <2> QED
    BY <1>3, <2>1, <2>2, <2>3, <2>4, <2>5
<1>4. ASSUME NEW s \in Streams, StreamBody(s), UNCHANGED multiVars
      PROVE  CallTypes'
  BY <1>4 DEF StreamBody, CheckBucket, LookUp, Create, Store, AppendLog, PushUnchanged, Answer,
              multiVars, Goto, BodyUnchanged
<1>5. ASSUME NEW a \in Artifacts, Upload(a), UNCHANGED multiVars
      PROVE  CallTypes'
  <2>1. firstError' \in BOOLEAN /\ UNCHANGED <<bucket, disabled, crashed, stored, call, body, retch,
                                              collected, unflushed, deadlines, main, dests>>
    BY <1>5 DEF Upload, Heard, multiVars, BodyUnchanged
  <2>2. upload' \in [Artifacts -> {"none", "begun", "settled", "failed"}]
    BY <1>5 DEF Upload
  <2> QED
    BY <2>1, <2>2
<1>6. ASSUME MapRace, UNCHANGED multiVars
      PROVE  CallTypes'
  BY <1>6 DEF MapRace, multiVars
<1>7. ASSUME NEW s \in Streams, Pushes(s)
      PROVE  CallTypes'
  <2>1. CASE Begin(s) \/ PushMesos(s) \/ End(s)
    BY <2>1 DEF Begin, PushMesos, End, PushUnchangedToo, StoreUnchanged
  <2>2. CASE PushStore(s)
    BY <2>2 DEF PushStore, Call, PushUnchangedToo, StoreUnchanged
  <2>3. CASE StorePushed(s)
    BY <2>3 DEF StorePushed, Back, PushUnchangedToo, StoreUnchanged
  <2> QED
    BY <1>7, <2>1, <2>2, <2>3 DEF Pushes
<1>8. ASSUME Publish \/ PublishEnds
      PROVE  CallTypes'
  <2>1. CASE Publish
    BY <2>1 DEF Publish, Call, MainUnchanged
  <2>2. CASE PublishEnds
    BY <2>2 DEF PublishEnds, Back, MainUnchanged
  <2> QED
    BY <1>8, <2>1, <2>2
<1>9. ASSUME InitStore \/ InitEnds \/ Shutdown \/ ShutdownEnds
      PROVE  CallTypes'
  BY <1>9 DEF InitStore, InitEnds, Shutdown, ShutdownEnds, MainStep, Call, Back, MainUnchanged
<1>10. ASSUME UNCHANGED vars
      PROVE  CallTypes'
  BY <1>10 DEF vars, storeVars, multiVars
<1> QED
  BY <1>1, <1>2, <1>3, <1>4, <1>5, <1>6, <1>7, <1>8, <1>9, <1>10
     DEF Next, CallerStep, PushLogChunk, Pushes, Timed, Body, StreamBody, Terminated

LEMMA ChunkTypesStep ==
    ASSUME TypeOK, [Next]_vars
    PROVE  ChunkTypes'
<1> USE DEF TypeOK, ChunkTypes, logs, flushes
<1>1. ASSUME NEW c \in Callers, Returns(c) \/ Deadline(c), UNCHANGED multiVars
      PROVE  ChunkTypes'
  BY <1>1 DEF Returns, Deadline, multiVars
<1>2. ASSUME NewBucket \/ Collect \/ WaitUploads \/ CloseBucket \/ MapRace, UNCHANGED multiVars
      PROVE  ChunkTypes'
  BY <1>2 DEF NewBucket, Collect, WaitUploads, CloseBucket, MapRace, multiVars, BodyUnchanged
<1>3. ASSUME Flush, UNCHANGED multiVars
      PROVE  ChunkTypes'
  <2>1. \A s \in Streams : Len(queued[s]) \in Nat
    OBVIOUS
  <2>2. flushed' \in [Streams -> Nat]
    BY <1>3, <2>1 DEF Flush
  <2> QED
    BY <1>3, <2>2 DEF Flush, multiVars, BodyUnchanged
<1>4. ASSUME NEW s \in Streams, CheckBucket(s) \/ LookUp(s) \/ Create(s) \/ Store(s),
             UNCHANGED multiVars
      PROVE  ChunkTypes'
  BY <1>4 DEF CheckBucket, LookUp, Create, Store, PushUnchanged, multiVars, BodyUnchanged
<1>5. ASSUME NEW s \in Streams, AppendLog(s), UNCHANGED multiVars
      PROVE  ChunkTypes'
  <2>1. Append(queued[s], carried[s]) \in Seq(Nat)
    OBVIOUS
  <2>2. queued' \in [Streams -> Seq(Nat)]
    BY <1>5, <2>1 DEF AppendLog
  <2>3. refused[s] \union {carried[s]} \in SUBSET Nat
    OBVIOUS
  <2>4. refused' \in [Streams -> SUBSET Nat]
    BY <1>5, <2>3 DEF AppendLog
  <2> QED
    BY <1>5, <2>2, <2>4 DEF AppendLog, PushUnchanged, multiVars, BodyUnchanged
<1>6. ASSUME NEW a \in Artifacts, Upload(a), UNCHANGED multiVars
      PROVE  ChunkTypes'
  BY <1>6 DEF Upload, multiVars, BodyUnchanged
<1>7. ASSUME NEW s \in Streams, Begin(s) \/ StorePushed(s) \/ PushStore(s)
      PROVE  ChunkTypes'
  <2>1. Len(dests) + 1 \in Nat
    BY MultiReporterAssumption DEF CallTypes
  <2>2. CASE Begin(s)
    BY <2>2 DEF Begin, PushUnchangedToo, StoreUnchanged
  <2>3. CASE StorePushed(s)
    BY <2>1, <2>3 DEF StorePushed, Proceed, PushUnchangedToo, StoreUnchanged
  <2>4. CASE PushStore(s)
    BY <2>4 DEF PushStore, PushUnchangedToo, StoreUnchanged
  <2> QED
    BY <1>7, <2>2, <2>3, <2>4
<1>8. ASSUME NEW s \in Streams, PushMesos(s)
      PROVE  ChunkTypes'
  <2>1. Append(mesos[s], chunk[s]) \in Seq(Nat) /\ Len(dests) + 1 \in Nat
    BY MultiReporterAssumption DEF CallTypes
  <2> QED
    BY <1>8, <2>1 DEF PushMesos, Proceed, PushUnchangedToo, StoreUnchanged
<1>9. ASSUME NEW s \in Streams, End(s)
      PROVE  ChunkTypes'
  BY <1>9 DEF End, PushUnchangedToo, StoreUnchanged
<1>10. ASSUME Publish \/ PublishEnds \/ InitStore \/ InitEnds \/ Shutdown \/ ShutdownEnds
      PROVE  ChunkTypes'
  BY <1>10 DEF Publish, PublishEnds, InitStore, InitEnds, Shutdown, ShutdownEnds, MainUnchanged
<1>11. ASSUME UNCHANGED vars
      PROVE  ChunkTypes'
  BY <1>11 DEF vars, storeVars, multiVars
<1> QED
  BY <1>1, <1>2, <1>3, <1>4, <1>5, <1>6, <1>7, <1>8, <1>9, <1>10, <1>11
     DEF Next, CallerStep, PushLogChunk, Timed, Body, Terminated

LEMMA CallControlStep ==
    ASSUME TypeOK, CallControl, BodyOf, [Next]_vars
    PROVE  CallControl' /\ BodyOf'
<1> USE ArtifactStoreAssumption DEF TypeOK, CallTypes, CallControl, BodyOf, Callers, Pushing,
                                    logs, flushes
<1>1. ASSUME NEW c \in Callers, Returns(c), UNCHANGED multiVars
      PROVE  CallControl' /\ BodyOf'
  BY <1>1 DEF Returns
<1>2. ASSUME NEW c \in Callers, Deadline(c), UNCHANGED multiVars
      PROVE  CallControl' /\ BodyOf'
  BY <1>2 DEF Deadline
<1>3. ASSUME NewBucket \/ Collect \/ WaitUploads \/ Flush \/ CloseBucket
      PROVE  CallControl' /\ BodyOf'
  <2>1. CASE NewBucket
    BY <2>1 DEF NewBucket, Goto, BodyUnchanged
  <2>2. CASE Collect
    BY <2>2 DEF Collect, Goto, BodyUnchanged
  <2>3. CASE WaitUploads
    BY <2>3 DEF WaitUploads, Goto, BodyUnchanged
  <2>4. CASE Flush
    BY <2>4 DEF Flush, Goto, BodyUnchanged
  <2>5. CASE CloseBucket
    BY <2>5 DEF CloseBucket, Goto, BodyUnchanged
  <2> QED
    BY <1>3, <2>1, <2>2, <2>3, <2>4, <2>5
<1>4. ASSUME NEW s \in Streams, StreamBody(s)
      PROVE  CallControl' /\ BodyOf'
  <2>1. CASE CheckBucket(s) \/ Create(s)
    BY <2>1 DEF CheckBucket, Create, PushUnchanged, Goto, BodyUnchanged
  <2>2. CASE LookUp(s) \/ Store(s) \/ AppendLog(s)
    BY <2>2 DEF LookUp, Store, AppendLog, PushUnchanged, Goto, BodyUnchanged
  <2> QED
    BY <1>4, <2>1, <2>2 DEF StreamBody
<1>5. ASSUME NEW a \in Artifacts, Upload(a)
      PROVE  CallControl' /\ BodyOf'
  BY <1>5 DEF Upload, BodyUnchanged
<1>6. ASSUME MapRace
      PROVE  CallControl' /\ BodyOf'
  BY <1>6 DEF MapRace
<1>7. ASSUME NEW s \in Streams, Pushes(s)
      PROVE  CallControl' /\ BodyOf'
  <2>1. CASE Begin(s) \/ PushMesos(s) \/ End(s)
    BY <2>1 DEF Begin, PushMesos, End, PushUnchangedToo, StoreUnchanged
  <2>2. CASE PushStore(s)
    BY <2>2 DEF PushStore, Call, PushUnchangedToo, StoreUnchanged
  <2>3. CASE StorePushed(s)
    BY <2>3 DEF StorePushed, Back, Over, PushUnchangedToo, StoreUnchanged
  <2> QED
    BY <1>7, <2>1, <2>2, <2>3 DEF Pushes
<1>8. ASSUME Publish \/ InitStore \/ Shutdown
      PROVE  CallControl' /\ BodyOf'
  <2>1. CASE Publish
    BY <2>1 DEF Publish, Call, MainUnchanged
  <2>2. CASE InitStore
    BY <2>2 DEF InitStore, Call, MainUnchanged
  <2>3. CASE Shutdown
    BY <2>3 DEF Shutdown, Call, MainUnchanged
  <2> QED
    BY <1>8, <2>1, <2>2, <2>3
<1>9. ASSUME PublishEnds \/ InitEnds \/ ShutdownEnds
      PROVE  CallControl' /\ BodyOf'
  <2>1. PICK c \in Callers : Back(c)
    BY <1>9 DEF PublishEnds, InitEnds, ShutdownEnds
  <2>2. UNCHANGED <<body, disabled, deadlines>>
    BY <1>9 DEF PublishEnds, InitEnds, ShutdownEnds, MainUnchanged
  <2> QED
    BY <2>1, <2>2 DEF Back, Over
<1>10. ASSUME UNCHANGED vars
      PROVE  CallControl' /\ BodyOf'
  BY <1>10 DEF vars, storeVars
<1> QED
  BY <1>1, <1>2, <1>3, <1>4, <1>5, <1>6, <1>7, <1>8, <1>9, <1>10
     DEF Next, CallerStep, PushLogChunk, Pushes, Timed, Body, StreamBody, Terminated

LEMMA UploadingStep ==
    ASSUME TypeOK, CallControl, BodyOf, Uploading, [Next]_vars
    PROVE  Uploading'
<1> USE ArtifactStoreAssumption DEF TypeOK, CallTypes, Uploading, Callers
<1>1. ASSUME NEW c \in Callers, Returns(c) \/ Deadline(c)
      PROVE  Uploading'
  <2>1. UNCHANGED <<upload, collected, firstError, body>>
    BY <1>1 DEF Returns, Deadline
  <2>2. call'["runner"] = call["runner"] \/ call["runner"] = "waiting"
    BY <1>1 DEF Returns, Deadline
  <2>3. call'["runner"] = call["runner"] \/ call'["runner"] \in {"done", "late"}
    BY <1>1 DEF Returns, Deadline
  <2> QED
    BY <2>1, <2>2, <2>3
<1>2. ASSUME NewBucket \/ Flush \/ CloseBucket \/ MapRace
      PROVE  Uploading'
  <2>1. UNCHANGED <<upload, collected, firstError, call>>
    BY <1>2 DEF NewBucket, Flush, CloseBucket, MapRace, BodyUnchanged
  <2>2. body'["runner"] = body["runner"]
    BY <1>2 DEF NewBucket, Flush, CloseBucket, MapRace, Goto
  <2> QED
    BY <2>1, <2>2
<1>3. ASSUME Collect
      PROVE  Uploading'
  <2>1. /\ body["runner"] = "collect" /\ collected = "none" /\ call' = call
        /\ \A a \in Artifacts : upload[a] = "none"
    BY <1>3 DEF Collect, Goto, BodyUnchanged
  <2>2. call["runner"] \notin {"idle", "skipped"} => call["runner"] = "waiting" \/ disabled
    BY <2>1 DEF CallControl
  <2>3. CASE Goto("runner", "collect", "done") /\ UNCHANGED <<firstError, upload, collected>>
    BY <2>1, <2>3 DEF Goto
  <2>4. CASE /\ Goto("runner", "collect", "done") /\ collected' = "failed"
             /\ firstError' = (firstError \/ Heard("runner")) /\ UNCHANGED upload
    <3>1. body'["runner"] = "done"
      BY <2>4 DEF Goto
    <3>2. call["runner"] # "done"
      BY <2>1 DEF CallControl
    <3>3. call["runner"] = "waiting" => firstError'
      BY <2>4 DEF Heard
    <3>4. call["runner"] \in {"idle", "skipped"} => ~firstError'
      BY <2>4 DEF Heard
    <3> QED
      BY <2>1, <2>4, <3>1, <3>2, <3>3, <3>4
  <2>5. CASE /\ Goto("runner", "collect", "wait") /\ collected' = "found"
             /\ upload' = [a \in Artifacts |-> "begun"] /\ UNCHANGED firstError
    <3>1. body'["runner"] = "wait"
      BY <2>5 DEF Goto
    <3>2. ~firstError
      BY <2>1
    <3> QED
      BY <2>1, <2>5, <3>1, <3>2
  <2> QED
    BY <1>3, <2>3, <2>4, <2>5 DEF Collect
<1>4. ASSUME WaitUploads
      PROVE  Uploading'
  BY <1>4 DEF WaitUploads, Goto, BodyUnchanged
<1>5. ASSUME NEW a \in Artifacts, Upload(a)
      PROVE  Uploading'
  <2>1. body["runner"] = "wait" /\ collected = "found"
    BY <1>5 DEF Upload
  <2>2. call["runner"] # "done"
    BY <2>1 DEF CallControl
  <2>3. UNCHANGED <<call, body, collected>>
    BY <1>5 DEF Upload, BodyUnchanged
  <2>4. PICK how \in {"settled", "failed"} :
           /\ upload' = [upload EXCEPT ![a] = how]
           /\ firstError' = (firstError \/ (how = "failed" /\ Heard("runner")))
    BY <1>5 DEF Upload
  <2>5. ASSUME NEW b \in Artifacts
        PROVE  /\ upload'[b] = "begun" => upload[b] = "begun"
               /\ upload'[b] = "none" <=> upload[b] = "none"
               /\ upload'[b] = "failed" /\ call["runner"] = "waiting" => firstError'
    <3>1. CASE b = a
      <4>1. upload'[b] = how /\ upload[b] = "begun"
        BY <1>5, <2>4, <3>1 DEF Upload
      <4> QED
        BY <2>4, <4>1 DEF Heard
    <3>2. CASE b # a
      <4>1. upload'[b] = upload[b]
        BY <2>4, <3>2
      <4> QED
        BY <2>4, <4>1
    <3> QED
      BY <3>1, <3>2
  <2>6. call["runner"] \in {"idle", "skipped"} => ~firstError'
    BY <2>4 DEF Heard
  <2>7. ASSUME firstError'
        PROVE  \E b \in Artifacts : upload'[b] = "failed"
    <3>1. CASE how = "failed"
      <4>1. upload'[a] = "failed"
        BY <2>4, <3>1
      <4> QED
        BY <4>1
    <3>2. CASE how # "failed"
      <4>1. PICK b \in Artifacts : upload[b] = "failed"
        BY <2>1, <2>4, <2>7, <3>2
      <4>2. upload'[b] = "failed"
        BY <1>5, <2>4, <4>1 DEF Upload
      <4> QED
        BY <4>2
    <3> QED
      BY <3>1, <3>2
  <2> QED
    BY <2>1, <2>2, <2>3, <2>5, <2>6, <2>7
<1>6. ASSUME NEW s \in Streams, StreamBody(s)
      PROVE  Uploading'
  <2>1. UNCHANGED <<call, upload, collected, firstError>>
    BY <1>6 DEF StreamBody, CheckBucket, LookUp, Create, Store, AppendLog, PushUnchanged, BodyUnchanged
  <2>2. body'["runner"] = body["runner"]
    BY <1>6 DEF StreamBody, CheckBucket, LookUp, Create, Store, AppendLog, Goto
  <2> QED
    BY <2>1, <2>2
<1>7. ASSUME NEW s \in Streams, Pushes(s)
      PROVE  Uploading'
  <2>1. UNCHANGED <<upload, collected, firstError>>
    BY <1>7 DEF Pushes, Begin, PushMesos, PushStore, StorePushed, End, PushUnchangedToo, StoreUnchanged
  <2>2. body'["runner"] = body["runner"] /\ call'["runner"] = call["runner"]
    BY <1>7 DEF Pushes, Begin, PushMesos, PushStore, StorePushed, End, Call, Back
  <2> QED
    BY <2>1, <2>2
<1>8. ASSUME Publish
      PROVE  Uploading'
  <2>1. ~firstError /\ ~firstError'
    BY <1>8 DEF Publish, Call
  <2>2. CASE disabled
    <3>1. UNCHANGED <<upload, collected, body>> /\ call'["runner"] = "skipped"
      BY <1>8, <2>2 DEF Publish, Call
    <3> QED
      BY <2>1, <3>1
  <2>3. CASE ~disabled
    <3>1. /\ upload' = [a \in Artifacts |-> "none"] /\ collected' = "none"
      BY <1>8, <2>3 DEF Publish
    <3> QED
      BY <2>1, <3>1
  <2> QED
    BY <2>2, <2>3
<1>9. ASSUME PublishEnds
      PROVE  Uploading'
  BY <1>9 DEF PublishEnds, Back
<1>10. ASSUME InitStore \/ InitEnds \/ Shutdown \/ ShutdownEnds
      PROVE  Uploading'
  <2>1. UNCHANGED <<upload, collected, firstError>>
    BY <1>10 DEF InitStore, InitEnds, Shutdown, ShutdownEnds
  <2>2. body'["runner"] = body["runner"] /\ call'["runner"] = call["runner"]
    BY <1>10 DEF InitStore, InitEnds, Shutdown, ShutdownEnds, Call, Back
  <2> QED
    BY <2>1, <2>2
<1>11. ASSUME UNCHANGED vars
      PROVE  Uploading'
  BY <1>11 DEF vars, storeVars
<1> QED
  BY <1>1, <1>2, <1>3, <1>4, <1>5, <1>6, <1>7, <1>8, <1>9, <1>10, <1>11
     DEF Next, CallerStep, PushLogChunk, Pushes, Timed, Body, StreamBody, Terminated

-----------------------------------------------------------------------------
(* The invariants about one stream *)

\* Nothing of stream s changes.
SameStream(s) ==
    /\ chunk'[s] = chunk[s] /\ carried'[s] = carried[s]
    /\ queued'[s] = queued[s] /\ refused'[s] = refused[s]
    /\ mesos'[s] = mesos[s] /\ acked'[s] = acked[s]
    /\ at'[s] = at[s] /\ success'[s] = success[s]
    /\ retch'[s] = retch[s] /\ call'[s] = call[s] /\ body'[s] = body[s]

\* A step of s: runWithDeadline's, the body's, or PushLogChunk's.
OwnStep(s) == \/ (Returns(s) \/ Deadline(s)) /\ UNCHANGED multiVars
              \/ StreamBody(s) /\ UNCHANGED multiVars
              \/ Pushes(s)

LEMMA OneStream ==
    ASSUME TypeOK, [Next]_vars, NEW s \in Streams
    PROVE  dests' = dests /\ (SameStream(s) \/ OwnStep(s))
<1> DEFINE Goal == dests' = dests /\ (SameStream(s) \/ OwnStep(s))
<1> USE ArtifactStoreAssumption DEF TypeOK, CallTypes, ChunkTypes, Callers, logs, flushes
<1>1. ASSUME NEW c \in Callers, Returns(c) \/ Deadline(c), UNCHANGED multiVars
      PROVE  Goal
  <2>1. CASE c = s
    BY <1>1, <2>1 DEF OwnStep, multiVars
  <2>2. CASE c # s
    BY <1>1, <2>2 DEF Returns, Deadline, multiVars, SameStream
  <2> QED
    BY <2>1, <2>2
<1>2. ASSUME NewBucket \/ Collect \/ WaitUploads \/ Flush \/ CloseBucket, UNCHANGED multiVars
      PROVE  Goal
  BY <1>2 DEF NewBucket, Collect, WaitUploads, Flush, CloseBucket, Goto, BodyUnchanged,
              multiVars, SameStream
<1>3. ASSUME NEW t \in Streams, StreamBody(t), UNCHANGED multiVars
      PROVE  Goal
  <2>1. CASE t = s
    BY <1>3, <2>1 DEF OwnStep, multiVars
  <2>2. CASE t # s
    <3>1. UNCHANGED <<call, chunk, carried>> /\ body'[s] = body[s]
      BY <1>3, <2>2 DEF StreamBody, CheckBucket, LookUp, Create, Store, AppendLog, PushUnchanged,
                        Goto, BodyUnchanged
    <3>2. retch'[s] = retch[s]
      BY <1>3, <2>2 DEF StreamBody, CheckBucket, LookUp, Create, Store, AppendLog, Answer
    <3>3. queued'[s] = queued[s] /\ refused'[s] = refused[s]
      BY <1>3, <2>2 DEF StreamBody, CheckBucket, LookUp, Create, Store, AppendLog
    <3> QED
      BY <1>3, <3>1, <3>2, <3>3 DEF multiVars, SameStream
  <2> QED
    BY <2>1, <2>2
<1>4. ASSUME (\E a \in Artifacts : Upload(a)) \/ MapRace, UNCHANGED multiVars
      PROVE  Goal
  BY <1>4 DEF Upload, MapRace, BodyUnchanged, multiVars, SameStream
<1>5. ASSUME NEW t \in Streams, Pushes(t)
      PROVE  Goal
  <2>1. dests' = dests /\ queued' = queued /\ refused' = refused
    BY <1>5 DEF Pushes, Begin, PushMesos, PushStore, StorePushed, End, PushUnchangedToo,
                StoreUnchanged
  <2>2. CASE t = s
    BY <1>5, <2>1, <2>2 DEF OwnStep
  <2>3. CASE t # s
    <3>1. CASE Begin(t) \/ PushMesos(t) \/ End(t)
      BY <2>1, <2>3, <3>1 DEF Begin, PushMesos, End, Proceed, SameStream
    <3>2. CASE PushStore(t)
      BY <2>1, <2>3, <3>2 DEF PushStore, Call, SameStream
    <3>3. CASE StorePushed(t)
      BY <2>1, <2>3, <3>3 DEF StorePushed, Back, Proceed, SameStream
    <3> QED
      BY <1>5, <3>1, <3>2, <3>3 DEF Pushes
  <2> QED
    BY <2>2, <2>3
<1>6. ASSUME Publish \/ PublishEnds \/ InitStore \/ InitEnds \/ Shutdown \/ ShutdownEnds
      PROVE  Goal
  <2>1. UNCHANGED <<dests, chunk, carried, logs, mesos, acked, at, success, retch>>
    BY <1>6 DEF Publish, PublishEnds, InitStore, InitEnds, Shutdown, ShutdownEnds, MainUnchanged
  <2>2. call'[s] = call[s] /\ body'[s] = body[s]
    BY <1>6 DEF Publish, PublishEnds, InitStore, InitEnds, Shutdown, ShutdownEnds, Call, Back
  <2> QED
    BY <2>1, <2>2 DEF SameStream
<1>7. ASSUME UNCHANGED vars
      PROVE  Goal
  BY <1>7 DEF vars, storeVars, multiVars, SameStream
<1> HIDE DEF Goal
<1>8. Goal
  BY <1>1, <1>2, <1>3, <1>4, <1>5, <1>6, <1>7
     DEF Next, CallerStep, PushLogChunk, Pushes, Timed, Body, StreamBody, Terminated
<1> QED
  BY <1>8 DEF Goal

\* The list of destinations is finite and names none of them twice.
LEMMA Destinations ==
    ASSUME TypeOK
    PROVE  /\ Len(dests) \in Nat /\ DOMAIN dests = 1 .. Len(dests)
           /\ \A i, j \in DOMAIN dests : dests[i] = dests[j] => i = j
           /\ "store" \in Range(dests)
BY MultiReporterAssumption DEF TypeOK, CallTypes


LEMMA PushControlStep ==
    ASSUME TypeOK, [Next]_vars, NEW s \in Streams, PushControl(s)
    PROVE  PushControl(s)'
<1> USE Destinations DEF PushControl, AtDest, Ahead
<1>1. dests' = dests
  BY OneStream
<1>2. /\ at[s] \in Nat /\ chunk[s] \in Nat /\ carried[s] \in Nat /\ carried[s] <= chunk[s]
      /\ call \in [Callers -> {"idle", "waiting", "done", "late", "skipped"}] /\ s \in Callers
      /\ {at, chunk, carried} \subseteq [Streams -> Nat]
      /\ retch \in [Streams -> {"empty", "true", "false"}] /\ success \in [Streams -> BOOLEAN]
  BY DEF TypeOK, CallTypes, ChunkTypes, Bounds, Callers
<1>3. ASSUME SameStream(s)
      PROVE  PushControl(s)'
  BY <1>1, <1>3 DEF SameStream
<1>4. ASSUME Returns(s) \/ Deadline(s), UNCHANGED multiVars
      PROVE  PushControl(s)'
  BY <1>1, <1>2, <1>4 DEF Returns, Deadline, multiVars
<1>5. ASSUME StreamBody(s), UNCHANGED multiVars
      PROVE  PushControl(s)'
  <2>1. UNCHANGED <<call, at, chunk, carried, success>>
    BY <1>5 DEF StreamBody, CheckBucket, LookUp, Create, Store, AppendLog, PushUnchanged,
                BodyUnchanged, multiVars
  <2>2. retch' = retch \/ call[s] \in {"waiting", "late"}
    BY <1>5 DEF StreamBody, CheckBucket, LookUp, Create, Store, AppendLog, Answer, Heard
  <2> QED
    BY <1>1, <2>1, <2>2
<1>6. ASSUME Begin(s)
      PROVE  PushControl(s)'
  <2>1. call[s] = "idle"
    BY <1>2, <1>6 DEF Begin
  <2>2. UNCHANGED <<call, carried, retch, success>> /\ at'[s] = 1 /\ chunk'[s] = chunk[s] + 1
    BY <1>2, <1>6 DEF Begin
  <2>3. success[s]
    BY <1>2, <1>6 DEF Begin
  <2> QED
    BY <1>1, <1>2, <2>1, <2>2, <2>3
<1>7. ASSUME PushMesos(s)
      PROVE  PushControl(s)'
  <2>1. call[s] = "idle"
    BY <1>7 DEF PushMesos
  <2>2. UNCHANGED <<call, carried, chunk, retch>> /\ at'[s] = at[s] + 1 /\ success'[s]
    BY <1>2, <1>7 DEF PushMesos, Proceed
  <2> QED
    BY <1>1, <1>2, <1>7, <2>1, <2>2 DEF PushMesos
<1>8. ASSUME PushStore(s)
      PROVE  PushControl(s)'
  <2>1. UNCHANGED <<at, chunk, retch, success>> /\ call[s] = "idle" /\ AtDest(s, "store")
    BY <1>8 DEF PushStore, Call
  <2>2. \/ call'[s] = "skipped" /\ carried' = carried
        \/ call'[s] = "waiting" /\ carried'[s] = chunk[s]
    BY <1>2, <1>8 DEF PushStore, Call
  <2> QED
    BY <1>1, <1>2, <2>1, <2>2
<1>9. ASSUME StorePushed(s)
      PROVE  PushControl(s)'
  <2>1. UNCHANGED <<chunk, carried>> /\ call'[s] = "idle" /\ retch'[s] = "empty"
    BY <1>2, <1>9 DEF StorePushed, Back
  <2>2. \/ at'[s] = at[s] + 1 /\ success'[s]
        \/ at'[s] = Len(dests) + 1
    BY <1>2, <1>9 DEF StorePushed, Proceed
  <2> QED
    BY <1>1, <1>2, <1>9, <2>1, <2>2 DEF StorePushed
<1>10. ASSUME End(s)
      PROVE  PushControl(s)'
  BY <1>1, <1>2, <1>10 DEF End
<1> QED
  BY OneStream, <1>3, <1>4, <1>5, <1>6, <1>7, <1>8, <1>9, <1>10 DEF OwnStep, Pushes

LEMMA AppendFacts ==
    ASSUME NEW seq \in Seq(Nat), NEW n \in Nat, Below(seq, n)
    PROVE  /\ n \in Range(Append(seq, n)) /\ Range(seq) \subseteq Range(Append(seq, n))
           /\ Below(Append(seq, n), n + 1)
           /\ Increasing(seq) => Increasing(Append(seq, n))
<1>1. /\ Append(seq, n) \in Seq(Nat) /\ Len(Append(seq, n)) = Len(seq) + 1
      /\ Append(seq, n)[Len(seq) + 1] = n
      /\ \A i \in 1 .. Len(seq) : Append(seq, n)[i] = seq[i]
      /\ DOMAIN seq = 1 .. Len(seq) /\ Len(seq) \in Nat
      /\ DOMAIN Append(seq, n) = 1 .. Len(seq) + 1
      /\ \A i \in DOMAIN seq : seq[i] \in Nat
  OBVIOUS
<1>2. n \in Range(Append(seq, n)) /\ Range(seq) \subseteq Range(Append(seq, n))
  BY <1>1 DEF Range
<1>3. Below(Append(seq, n), n + 1)
  BY <1>1 DEF Below
<1>4. ASSUME Increasing(seq)
      PROVE  Increasing(Append(seq, n))
  BY <1>1, <1>4 DEF Increasing, Below
<1> QED
  BY <1>2, <1>3, <1>4

LEMMA AnsweredStep ==
    ASSUME TypeOK, [Next]_vars, NEW s \in Streams, PushControl(s), Answered(s), Appended(s)
    PROVE  Answered(s)'
<1> USE Destinations DEF Answered, AtDest, Passed, HandedOver, MesosTakes, logs
<1>1. dests' = dests
  BY OneStream
<1>2. /\ at[s] \in Nat /\ chunk[s] \in Nat /\ carried[s] \in Nat
      /\ call \in [Callers -> {"idle", "waiting", "done", "late", "skipped"}] /\ s \in Callers
      /\ {at, chunk, carried} \subseteq [Streams -> Nat]
      /\ {queued, mesos} \subseteq [Streams -> Seq(Nat)]
      /\ refused \in [Streams -> SUBSET Nat]
      /\ retch \in [Streams -> {"empty", "true", "false"}] /\ success \in [Streams -> BOOLEAN]
  BY DEF TypeOK, CallTypes, ChunkTypes, Callers
<1>3. ASSUME SameStream(s)
      PROVE  Answered(s)'
  BY <1>1, <1>3 DEF SameStream
<1>4. ASSUME Returns(s) \/ Deadline(s), UNCHANGED multiVars
      PROVE  Answered(s)'
  BY <1>1, <1>4 DEF Returns, Deadline, multiVars
<1>5. ASSUME CheckBucket(s) \/ LookUp(s) \/ Create(s) \/ Store(s), UNCHANGED multiVars
      PROVE  Answered(s)'
  <2>1. UNCHANGED <<chunk, queued, refused, mesos, at, success>>
    BY <1>5 DEF CheckBucket, LookUp, Create, Store, PushUnchanged, BodyUnchanged, multiVars
  <2>2. retch' = retch \/ retch'[s] = "false"
    BY <1>2, <1>5 DEF CheckBucket, LookUp, Create, Store, Answer
  <2> QED
    BY <1>1, <2>1, <2>2
<1>6. ASSUME AppendLog(s), UNCHANGED multiVars
      PROVE  Answered(s)'
  <2>1. UNCHANGED <<chunk, mesos, at, success>>
    BY <1>6 DEF AppendLog, PushUnchanged, BodyUnchanged, multiVars
  <2>2. HandedOver(s, carried[s])' /\ \A n \in Nat : HandedOver(s, n) => HandedOver(s, n)'
    <3>1. CASE queued' = [queued EXCEPT ![s] = Append(@, carried[s])] /\ UNCHANGED refused
      <4>1. queued'[s] = Append(queued[s], carried[s])
        BY <1>2, <3>1
      <4>2. carried[s] \in Range(queued'[s]) /\ Range(queued[s]) \subseteq Range(queued'[s])
        <5>1. Below(queued[s], carried[s])
          BY <1>2, <1>6 DEF Appended, Pushing, AppendLog, Goto
        <5> QED
          BY <1>2, <4>1, <5>1, AppendFacts
      <4>3. carried' = carried
        BY <1>6 DEF AppendLog, PushUnchanged, BodyUnchanged
      <4> QED
        BY <3>1, <4>2, <4>3
    <3>2. CASE /\ refused' = [refused EXCEPT ![s] = @ \union {carried[s]}]
               /\ UNCHANGED queued
      <4>1. carried' = carried
        BY <1>6 DEF AppendLog, PushUnchanged, BodyUnchanged
      <4>2. refused'[s] = refused[s] \union {carried[s]} /\ queued' = queued
        BY <1>2, <3>2
      <4> QED
        BY <4>1, <4>2
    <3> QED
      BY <1>6, <3>1, <3>2 DEF AppendLog
  <2>3. HandedOver(s, chunk[s]) => HandedOver(s, chunk[s])'
    BY <1>2, <2>1, <2>2
  <2>4. retch'[s] = "true" => HandedOver(s, chunk[s])'
    <3>1. retch' = retch \/ carried[s] = chunk[s]
      BY <1>6 DEF AppendLog, Answer, Heard, PushControl
    <3>2. carried' = carried
      BY <1>6 DEF AppendLog, PushUnchanged, BodyUnchanged
    <3> QED
      BY <2>1, <2>2, <2>3, <3>1, <3>2
  <2> QED
    BY <1>1, <2>1, <2>3, <2>4
<1>7. ASSUME Begin(s)
      PROVE  Answered(s)'
  <2>1. retch'[s] = "empty"
    BY <1>2, <1>7 DEF Begin, PushControl
  <2>2. at'[s] = 1
    BY <1>2, <1>7 DEF Begin
  <2> QED
    BY <1>1, <2>1, <2>2
<1>8. ASSUME PushMesos(s)
      PROVE  Answered(s)'
  <2>1. UNCHANGED <<chunk, retch, queued, refused>> /\ at'[s] = at[s] + 1
    BY <1>2, <1>8 DEF PushMesos, Proceed, PushUnchangedToo, StoreUnchanged
  <2>2. MesosTakes(s) => chunk[s] \in Range(mesos'[s])
    <3>1. Ahead(s, "mesos")
      BY <1>2, <1>8 DEF PushMesos, Ahead
    <3>2. Below(mesos[s], chunk[s])
      BY <3>1 DEF Appended
    <3>3. MesosTakes(s) => mesos'[s] = Append(mesos[s], chunk[s])
      BY <1>2, <1>8 DEF PushMesos
    <3> QED
      BY <1>2, <3>2, <3>3, AppendFacts
  <2>3. success[s] /\ dests[at[s]] = "mesos"
    BY <1>2, <1>8 DEF PushMesos, PushControl
  <2> QED
    BY <1>1, <1>2, <2>1, <2>2, <2>3
<1>9. ASSUME PushStore(s)
      PROVE  Answered(s)'
  BY <1>1, <1>9 DEF PushStore, PushUnchangedToo, StoreUnchanged
<1>10. ASSUME StorePushed(s)
      PROVE  Answered(s)'
  <2>1. /\ UNCHANGED <<chunk, queued, refused, mesos>> /\ retch'[s] = "empty"
        /\ success'[s] => at'[s] = at[s] + 1 /\ retch[s] = "true"
    BY <1>2, <1>10 DEF StorePushed, Proceed, PushUnchangedToo, StoreUnchanged
  <2>2. success[s] /\ dests[at[s]] = "store"
    BY <1>2, <1>10 DEF StorePushed, PushControl
  <2> QED
    BY <1>1, <1>2, <2>1, <2>2
<1>11. ASSUME End(s)
      PROVE  Answered(s)'
  <2>1. at'[s] = 0 /\ UNCHANGED <<chunk, retch, queued, refused>>
    BY <1>2, <1>11 DEF End, PushUnchangedToo, StoreUnchanged
  <2> QED
    BY <1>1, <2>1
<1> QED
  BY OneStream, <1>3, <1>4, <1>5, <1>6, <1>7, <1>8, <1>9, <1>10, <1>11
     DEF OwnStep, StreamBody, Pushes

LEMMA AppendedStep ==
    ASSUME TypeOK, CallControl, [Next]_vars, NEW s \in Streams, PushControl(s), Appended(s)
    PROVE  Appended(s)'
<1> USE Destinations DEF AtDest, Ahead, Appended, logs
<1>1. dests' = dests
  BY OneStream
<1>2. /\ at[s] \in Nat /\ chunk[s] \in Nat /\ carried[s] \in Nat
      /\ body \in [Callers -> {"none", "newBucket", "check", "lookUp", "create", "store",
                               "append", "collect", "wait", "flush", "close", "done"}]
      /\ s \in Callers
      /\ {at, chunk, carried} \subseteq [Streams -> Nat]
      /\ {queued, mesos} \subseteq [Streams -> Seq(Nat)]
  BY DEF TypeOK, CallTypes, ChunkTypes, Callers
<1>3. \A seq : \A m, n \in Nat : m <= n /\ Below(seq, m) => Below(seq, n)
  BY DEF Below
<1>4. ASSUME SameStream(s)
      PROVE  Appended(s)'
  BY <1>1, <1>4 DEF SameStream
<1>5. ASSUME Returns(s) \/ Deadline(s), UNCHANGED multiVars
      PROVE  Appended(s)'
  BY <1>1, <1>5 DEF Returns, Deadline, multiVars
<1>6. ASSUME CheckBucket(s) \/ LookUp(s) \/ Create(s) \/ Store(s), UNCHANGED multiVars
      PROVE  Appended(s)'
  <2>1. UNCHANGED <<chunk, carried, queued, mesos, at>>
    BY <1>6 DEF CheckBucket, LookUp, Create, Store, PushUnchanged, BodyUnchanged, multiVars
  <2>2. body[s] \in Pushing
    BY <1>6 DEF CheckBucket, LookUp, Create, Store, Goto, Pushing
  <2> QED
    BY <1>1, <1>2, <1>3, <2>1, <2>2
<1>7. ASSUME AppendLog(s), UNCHANGED multiVars
      PROVE  Appended(s)'
  <2>1. /\ UNCHANGED <<chunk, carried, mesos, at>>
        /\ queued'[s] = Append(queued[s], carried[s]) \/ queued'[s] = queued[s]
    BY <1>2, <1>7 DEF AppendLog, PushUnchanged, BodyUnchanged, multiVars
  <2>2. body[s] \in Pushing /\ body'[s] \notin Pushing
    BY <1>2, <1>7 DEF AppendLog, Goto, Pushing
  <2>3. Below(queued[s], carried[s])
    BY <2>2
  <2>4. Below(queued'[s], carried[s] + 1)
    <3>1. Below(queued[s], carried[s] + 1)
      BY <1>2, <1>3, <2>3
    <3>2. Below(Append(queued[s], carried[s]), carried[s] + 1)
      BY <1>2, <2>3, AppendFacts
    <3> QED
      BY <2>1, <3>1, <3>2
  <2> QED
    BY <1>1, <2>1, <2>2, <2>4
<1>8. ASSUME Begin(s)
      PROVE  Appended(s)'
  <2>1. /\ UNCHANGED <<carried, body, queued, mesos>> /\ at[s] = 0
        /\ chunk'[s] = chunk[s] + 1
    BY <1>2, <1>8 DEF Begin, PushUnchangedToo, StoreUnchanged
  <2>2. Below(mesos[s], chunk[s] + 1)
    BY <2>1
  <2> QED
    BY <1>1, <1>2, <1>3, <2>1, <2>2
<1>9. ASSUME PushMesos(s)
      PROVE  Appended(s)'
  <2>1. /\ UNCHANGED <<carried, chunk, body, queued>> /\ at'[s] = at[s] + 1
        /\ mesos'[s] = Append(mesos[s], chunk[s]) \/ mesos'[s] = mesos[s]
    BY <1>2, <1>9 DEF PushMesos, Proceed, PushUnchangedToo, StoreUnchanged
  <2>2. at[s] \in DOMAIN dests /\ dests[at[s]] = "mesos"
    BY <1>9 DEF PushMesos
  <2>3. Ahead(s, "mesos") /\ ~Ahead(s, "mesos")'
    BY <1>1, <1>2, <2>1, <2>2
  <2>4. Below(mesos[s], chunk[s])
    BY <2>3
  <2>5. Below(mesos'[s], chunk[s] + 1)
    <3>1. Below(mesos[s], chunk[s] + 1)
      BY <1>2, <1>3, <2>4
    <3>2. Below(Append(mesos[s], chunk[s]), chunk[s] + 1)
      BY <1>2, <2>4, AppendFacts
    <3> QED
      BY <2>1, <3>1, <3>2
  <2> QED
    BY <1>1, <2>1, <2>3, <2>5
<1>10. ASSUME PushStore(s)
      PROVE  Appended(s)'
  <2>1. UNCHANGED <<at, chunk, queued, mesos>>
    BY <1>10 DEF PushStore, PushUnchangedToo, StoreUnchanged
  <2>2. CASE disabled
    BY <1>1, <1>10, <2>1, <2>2 DEF PushStore, Call
  <2>3. CASE ~disabled
    <3>1. carried'[s] = chunk[s]
      BY <1>2, <1>10, <2>3 DEF PushStore
    <3>2. carried[s] < chunk[s]
      BY <1>2, <1>10 DEF PushStore, Call, PushControl
    <3>3. body[s] \notin Pushing
      BY <1>2, <1>10, <2>3 DEF PushStore, Call, CallControl, Pushing
    <3>4. Below(queued[s], carried[s] + 1)
      BY <3>3
    <3>5. Below(queued[s], chunk[s]) /\ Below(queued[s], chunk[s] + 1)
      BY <1>2, <1>3, <3>2, <3>4
    <3> QED
      BY <1>1, <2>1, <3>1, <3>5
  <2> QED
    BY <2>2, <2>3
<1>11. ASSUME StorePushed(s) \/ End(s)
      PROVE  Appended(s)'
  <2>1. UNCHANGED <<carried, chunk, body, queued, mesos>>
    BY <1>11 DEF StorePushed, End, PushUnchangedToo, StoreUnchanged
  <2>2. (at'[s] = at[s] + 1 /\ at[s] > 0) \/ at'[s] = Len(dests) + 1 \/ at'[s] = 0
    BY <1>2, <1>11 DEF StorePushed, End, Proceed
  <2>3. Ahead(s, "mesos")' => Ahead(s, "mesos")
    BY <1>1, <1>2, <2>2
  <2> QED
    BY <1>1, <1>2, <1>3, <2>1, <2>3
<1> QED
  BY OneStream, <1>4, <1>5, <1>6, <1>7, <1>8, <1>9, <1>10, <1>11
     DEF OwnStep, StreamBody, Pushes

LEMMA AcksAreTrueStep ==
    ASSUME TypeOK, [Next]_vars, AcksAreTrue,
           \A s \in Streams : PushControl(s) /\ Answered(s) /\ Appended(s)
    PROVE  AcksAreTrue'
<1> USE DEF logs
<1> SUFFICES ASSUME NEW s \in Streams
             PROVE  /\ \A n \in acked'[s] : HandedOver(s, n)'
                    /\ "mesos" \in Range(dests) /\ MesosTakes(s) =>
                           acked'[s] \subseteq Range(mesos'[s])
                    /\ Increasing(queued'[s]) /\ Increasing(mesos'[s])
  BY OneStream DEF AcksAreTrue, MesosTakes, HandedOver
<1>1. /\ \A n \in acked[s] : HandedOver(s, n)
      /\ "mesos" \in Range(dests) /\ MesosTakes(s) => acked[s] \subseteq Range(mesos[s])
      /\ Increasing(queued[s]) /\ Increasing(mesos[s])
      /\ PushControl(s) /\ Answered(s) /\ Appended(s)
  BY DEF AcksAreTrue
<1>2. /\ at[s] \in Nat /\ chunk[s] \in Nat /\ carried[s] \in Nat
      /\ {queued, mesos} \subseteq [Streams -> Seq(Nat)]
      /\ queued[s] \in Seq(Nat) /\ mesos[s] \in Seq(Nat)
      /\ {acked, refused} \subseteq [Streams -> SUBSET Nat]
  BY DEF TypeOK, ChunkTypes
<1>3. CASE AppendLog(s) /\ UNCHANGED multiVars
  <2>1. /\ queued'[s] = Append(queued[s], carried[s]) \/ queued'[s] = queued[s]
        /\ refused[s] \subseteq refused'[s]
        /\ acked'[s] = acked[s] /\ mesos'[s] = mesos[s]
    BY <1>2, <1>3 DEF AppendLog, multiVars
  <2>2. Below(queued[s], carried[s])
    BY <1>1, <1>3 DEF Appended, AppendLog, Goto, Pushing
  <2>3. Range(queued[s]) \subseteq Range(queued'[s]) /\ Increasing(queued'[s])
    BY <1>1, <1>2, <2>1, <2>2, AppendFacts
  <2> QED
    BY <1>1, <2>1, <2>3 DEF HandedOver
<1>4. CASE PushMesos(s)
  <2>1. /\ mesos'[s] = Append(mesos[s], chunk[s]) \/ mesos'[s] = mesos[s]
        /\ acked'[s] = acked[s] /\ queued'[s] = queued[s] /\ refused'[s] = refused[s]
    BY <1>2, <1>4 DEF PushMesos, PushUnchangedToo, StoreUnchanged
  <2>2. Below(mesos[s], chunk[s])
    BY <1>1, <1>2, <1>4, Destinations DEF Appended, PushMesos, AtDest, Ahead
  <2>3. Range(mesos[s]) \subseteq Range(mesos'[s]) /\ Increasing(mesos'[s])
    BY <1>1, <1>2, <2>1, <2>2, AppendFacts
  <2> QED
    BY <1>1, <2>1, <2>3 DEF HandedOver
<1>5. CASE End(s)
  <2>1. /\ queued'[s] = queued[s] /\ refused'[s] = refused[s] /\ mesos'[s] = mesos[s]
        /\ at[s] = Len(dests) + 1
    BY <1>5 DEF End, PushUnchangedToo, StoreUnchanged
  <2>2. acked'[s] = acked[s] \/ (success[s] /\ acked'[s] = acked[s] \union {chunk[s]})
    <3>1. CASE success[s]
      BY <1>2, <1>5, <3>1 DEF End
    <3>2. CASE ~success[s]
      BY <1>5, <3>2 DEF End
    <3> QED
      BY <3>1, <3>2
  <2>3. Passed(s, "store") /\ ("mesos" \in Range(dests) => Passed(s, "mesos"))
    BY <2>1, Destinations DEF Passed, Range
  <2>4. success[s] => HandedOver(s, chunk[s])
    BY <1>1, <2>3 DEF Answered
  <2>5. \A n : HandedOver(s, n) => n \in Range(queued'[s]) \/ n \in refused'[s]
    BY <2>1 DEF HandedOver
  <2>6. \A n \in acked'[s] : n \in Range(queued'[s]) \/ n \in refused'[s]
    BY <1>1, <2>2, <2>4, <2>5
  <2>7. "mesos" \in Range(dests) /\ MesosTakes(s) => acked'[s] \subseteq Range(mesos'[s])
    BY <1>1, <2>1, <2>2, <2>3 DEF Answered
  <2> QED
    BY <1>1, <2>1, <2>6, <2>7 DEF HandedOver
<1>6. CASE /\ acked'[s] = acked[s] /\ mesos'[s] = mesos[s]
           /\ queued'[s] = queued[s] /\ refused'[s] = refused[s]
  BY <1>1, <1>6 DEF HandedOver
<1>7. CASE \/ SameStream(s)
           \/ (Returns(s) \/ Deadline(s)) /\ UNCHANGED multiVars
           \/ (CheckBucket(s) \/ LookUp(s) \/ Create(s) \/ Store(s)) /\ UNCHANGED multiVars
           \/ Begin(s) \/ PushStore(s) \/ StorePushed(s)
  BY <1>6, <1>7 DEF SameStream, Returns, Deadline, CheckBucket, LookUp, Create, Store, Begin,
                    PushStore, StorePushed, PushUnchangedToo, StoreUnchanged, multiVars
<1> QED
  BY OneStream, <1>3, <1>4, <1>5, <1>7 DEF OwnStep, StreamBody, Pushes

LEMMA BoundsStep ==
    ASSUME TypeOK, [Next]_vars,
           \A s \in Streams : PushControl(s) /\ Appended(s)
    PROVE  Bounds'
<1> SUFFICES ASSUME NEW s \in Streams
             PROVE  /\ chunk'[s] <= MaxChunks[s] /\ carried'[s] <= chunk'[s]
                    /\ flushed'[s] <= chunk'[s] /\ at'[s] <= Len(dests) + 1
                    /\ \A n \in acked'[s] : 0 < n /\ n <= chunk'[s]
  BY OneStream DEF Bounds
<1> USE Destinations, ArtifactStoreAssumption DEF logs, flushes
<1>1. /\ chunk[s] <= MaxChunks[s] /\ carried[s] <= chunk[s] /\ flushed[s] <= chunk[s]
      /\ at[s] <= Len(dests) + 1 /\ \A n \in acked[s] : 0 < n /\ n <= chunk[s]
      /\ at[s] \in Nat /\ chunk[s] \in Nat /\ carried[s] \in Nat /\ flushed[s] \in Nat
      /\ acked[s] \subseteq Nat /\ MaxChunks[s] \in Nat
      /\ {at, chunk, carried} \subseteq [Streams -> Nat]
      /\ acked \in [Streams -> SUBSET Nat]
      /\ queued[s] \in Seq(Nat)
  BY DEF TypeOK, ChunkTypes, Bounds
<1>2. flushed'[s] \in {flushed[s], Len(queued[s]), 0}
  <2> DEFINE Moved == flushed' = flushed
  <2>1. CASE Flush
    BY <2>1 DEF Flush
  <2>2. ASSUME NewBucket \/ Collect \/ WaitUploads \/ CloseBucket \/ MapRace
             \/ \E a \in Artifacts : Upload(a)
        PROVE  Moved
    BY <2>2 DEF NewBucket, Collect, WaitUploads, CloseBucket, Upload, MapRace
  <2>3. ASSUME NEW c \in Callers, Returns(c) \/ Deadline(c)
        PROVE  Moved
    BY <2>3 DEF Returns, Deadline
  <2>4. ASSUME NEW u \in Streams, StreamBody(u)
        PROVE  Moved
    BY <2>4 DEF StreamBody, CheckBucket, LookUp, Create, Store, AppendLog, PushUnchanged
  <2>5. ASSUME NEW u \in Streams, Pushes(u)
        PROVE  Moved
    BY <2>5 DEF Pushes, Begin, PushMesos, PushStore, StorePushed, End, PushUnchangedToo,
                StoreUnchanged
  <2>6. ASSUME Publish \/ PublishEnds \/ InitStore \/ InitEnds \/ Shutdown \/ ShutdownEnds
        PROVE  Moved
    BY <2>6 DEF Publish, PublishEnds, InitStore, InitEnds, Shutdown, ShutdownEnds, MainUnchanged
  <2>7. ASSUME UNCHANGED vars
        PROVE  Moved
    BY <2>7 DEF vars, storeVars
  <2> HIDE DEF Moved
  <2>8. Flush \/ Moved
    BY <2>2, <2>3, <2>4, <2>5, <2>6, <2>7
       DEF Next, CallerStep, PushLogChunk, Pushes, Timed, Body, StreamBody, Terminated
  <2> QED
    BY <2>1, <2>8 DEF Moved
<1>3. Len(queued[s]) <= chunk[s] /\ Len(queued[s]) \in Nat
  <2>1. Len(queued[s]) < carried[s] + 1
    <3>1. CASE body[s] \in Pushing
      BY <1>1, <3>1 DEF Appended, Below
    <3>2. CASE body[s] \notin Pushing
      BY <3>2 DEF Appended, Below
    <3> QED
      BY <3>1, <3>2
  <2> QED
    BY <1>1, <2>1
<1>4. flushed'[s] \in Nat /\ flushed'[s] <= chunk[s]
  BY <1>1, <1>2, <1>3
<1>5. CASE SameStream(s)
  BY <1>1, <1>4, <1>5 DEF SameStream
<1>6. CASE (Returns(s) \/ Deadline(s) \/ StreamBody(s)) /\ UNCHANGED multiVars
  BY <1>1, <1>4, <1>6 DEF Returns, Deadline, StreamBody, CheckBucket, LookUp, Create, Store,
     AppendLog, PushUnchanged, BodyUnchanged, multiVars
<1>7. CASE Begin(s)
  BY <1>1, <1>4, <1>7 DEF Begin
<1>8. CASE PushMesos(s) \/ StorePushed(s)
  <2>1. UNCHANGED <<chunk, carried, acked>> /\ at[s] \in DOMAIN dests
    BY <1>8 DEF PushMesos, StorePushed, AtDest
  <2>2. at'[s] = at[s] + 1 \/ at'[s] = Len(dests) + 1
    BY <1>1, <1>8 DEF PushMesos, StorePushed, Proceed
  <2> QED
    BY <1>1, <1>4, <2>1, <2>2
<1>9. CASE PushStore(s)
  BY <1>1, <1>4, <1>9 DEF PushStore
<1>10. CASE End(s)
  <2>1. UNCHANGED <<chunk, carried>> /\ at'[s] = 0
    BY <1>1, <1>10 DEF End
  <2>2. acked'[s] \subseteq acked[s] \union {chunk[s]}
    <3>1. CASE success[s]
      BY <1>1, <1>10, <3>1 DEF End
    <3>2. CASE ~success[s]
      BY <1>10, <3>2 DEF End
    <3> QED
      BY <3>1, <3>2
  <2>3. chunk[s] > 0
    BY <1>1, <1>10 DEF End, PushControl
  <2>4. \A n \in acked'[s] : 0 < n /\ n <= chunk[s]
    <3>1. \A n \in acked[s] : 0 < n /\ n <= chunk[s]
      BY <1>1
    <3>2. 0 < chunk[s] /\ chunk[s] <= chunk[s]
      BY <1>1, <2>3
    <3> QED
      BY <2>2, <3>1, <3>2
  <2>5. at'[s] <= Len(dests) + 1
    BY <2>1
  <2> QED
    BY <1>1, <1>4, <2>1, <2>4, <2>5
<1> QED
  BY OneStream, <1>5, <1>6, <1>7, <1>8, <1>9, <1>10 DEF OwnStep, Pushes

-----------------------------------------------------------------------------
(* Shutdown *)

LEMMA ClosingStep ==
    ASSUME TypeOK, CallControl, BodyOf, Closing, ClosedIsComplete, [Next]_vars,
           \A s \in Streams : PushControl(s)
    PROVE  Closing' /\ ClosedIsComplete'
<1> USE ArtifactStoreAssumption DEF Closing, ClosedIsComplete, Callers, logs, flushes
<1> DEFINE Goal == Closing' /\ ClosedIsComplete'
<1>1. /\ body \in [Callers -> {"none", "newBucket", "check", "lookUp", "create", "store",
                               "append", "collect", "wait", "flush", "close", "done"}]
      /\ at \in [Streams -> Nat] /\ queued \in [Streams -> Seq(Nat)]
      /\ stored \subseteq Streams
      /\ call \in [Callers -> {"idle", "waiting", "done", "late", "skipped"}]
  BY DEF TypeOK, CallTypes, ChunkTypes
<1>2. ASSUME NEW c \in Callers, Returns(c) \/ Deadline(c), UNCHANGED multiVars
      PROVE  Goal
  BY <1>2 DEF Returns, Deadline, multiVars
<1>3. ASSUME NewBucket, UNCHANGED multiVars
      PROVE  Goal
  BY <1>1, <1>3 DEF NewBucket, Goto, BodyUnchanged, multiVars
<1>4. ASSUME Collect \/ WaitUploads, UNCHANGED multiVars
      PROVE  Goal
  BY <1>1, <1>4 DEF Collect, WaitUploads, Goto, BodyUnchanged, multiVars
<1>5. ASSUME Flush, UNCHANGED multiVars
      PROVE  Goal
  <2>1. UNCHANGED <<bucket, stored, queued, main, at>>
    BY <1>5 DEF Flush, multiVars
  <2>2. \A s \in Streams : body'[s] = body[s]
    BY <1>1, <1>5 DEF Flush, Goto
  <2>3. \A s \in Streams : s \notin stored => Len(queued[s]) = 0
    BY <1>1
  <2>4. bucket # "none" =>
            \A s \in Streams : s \notin unflushed' => flushed'[s] = Len(queued[s])
    BY <1>5, <2>3 DEF Flush
  <2>5. body["main"] = "flush" /\ body'["main"] \in {"done", "close"}
        /\ (body'["main"] = "close" => bucket # "none")
    BY <1>1, <1>5 DEF Flush, Goto
  <2> QED
    BY <2>1, <2>2, <2>4, <2>5
<1>6. ASSUME CloseBucket, UNCHANGED multiVars
      PROVE  Goal
  BY <1>1, <1>6 DEF CloseBucket, Goto, BodyUnchanged, multiVars
<1>7. ASSUME NEW t \in Streams, StreamBody(t), UNCHANGED multiVars
      PROVE  Goal
  <2>1. body[t] \in Pushing
    BY <1>7 DEF StreamBody, CheckBucket, LookUp, Create, Store, AppendLog, Goto, Pushing
  <2>2. body["main"] \notin {"flush", "close"} /\ bucket # "closed"
    BY <2>1
  <2>3. bucket' = bucket /\ body'["main"] = body["main"] /\ UNCHANGED <<main, at, flushes>>
    BY <1>1, <1>7 DEF StreamBody, CheckBucket, LookUp, Create, Store, AppendLog, PushUnchanged,
                      Goto, multiVars
  <2>4. \A s \in Streams : body'[s] = "append" \/ queued'[s] # <<>> => s \in stored'
    <3>1. \A s \in Streams : s # t => queued'[s] = queued[s] /\ body'[s] = body[s]
      BY <1>1, <1>7 DEF StreamBody, CheckBucket, LookUp, Create, Store, AppendLog, Goto
    <3>2. stored \subseteq stored'
      BY <1>7 DEF StreamBody, CheckBucket, LookUp, Create, Store, AppendLog
    <3>3. body'[t] = "append" \/ queued'[t] # <<>> => t \in stored'
      BY <1>1, <1>7 DEF StreamBody, CheckBucket, LookUp, Create, Store, AppendLog, Goto
    <3> QED
      BY <3>1, <3>2, <3>3
  <2> QED
    BY <2>2, <2>3, <2>4
<1>8. ASSUME (\E a \in Artifacts : Upload(a)) \/ MapRace, UNCHANGED multiVars
      PROVE  Goal
  BY <1>8 DEF Upload, MapRace, BodyUnchanged, multiVars
<1>9. ASSUME NEW t \in Streams, Pushes(t)
      PROVE  Goal
  <2>1. UNCHANGED <<main, bucket, stored, queued, flushes>>
    BY <1>9 DEF Pushes, Begin, PushMesos, PushStore, StorePushed, End, PushUnchangedToo,
                StoreUnchanged
  <2>2. main = "running"
    <3>1. main # "running" => at[t] = 0
      BY DEF TypeOK, CallTypes
    <3>2. CASE Begin(t)
      BY <3>2 DEF Begin
    <3>3. CASE PushMesos(t) \/ PushStore(t) \/ StorePushed(t) \/ End(t)
      <4>1. at[t] \in DOMAIN dests \/ at[t] = Len(dests) + 1
        BY <3>3 DEF PushMesos, PushStore, StorePushed, End, AtDest
      <4> QED
        BY <3>1, <4>1, Destinations
    <3> QED
      BY <1>9, <3>2, <3>3 DEF Pushes
  <2>3. body'["main"] = body["main"] /\ \A s \in Streams : body'[s] = "append" => body[s] = "append"
    BY <1>1, <1>9 DEF Pushes, Begin, PushMesos, PushStore, StorePushed, End, Call
  <2> QED
    BY <2>1, <2>2, <2>3
<1>10. ASSUME Publish \/ PublishEnds
       PROVE  Goal
  <2>1. UNCHANGED <<main, at, bucket, stored, queued, flushes>>
    BY <1>10 DEF Publish, PublishEnds, MainUnchanged
  <2>2. body'["main"] = body["main"] /\ \A s \in Streams : body'[s] = body[s]
    BY <1>1, <1>10 DEF Publish, PublishEnds, Call
  <2> QED
    BY <2>1, <2>2
<1>11. ASSUME InitStore
       PROVE  Goal
  <2>1. UNCHANGED <<at, bucket, stored, queued, flushes>> /\ main = "start" /\ main' = "init"
    BY <1>11 DEF InitStore, MainStep, MainUnchanged
  <2>2. body'["main"] \in {body["main"], "newBucket"} /\ \A s \in Streams : body'[s] = body[s]
    BY <1>1, <1>11 DEF InitStore, Call
  <2> QED
    BY <2>1, <2>2
<1>12. ASSUME Shutdown
       PROVE  Goal
  <2>1. /\ UNCHANGED <<at, bucket, stored, queued, flushes>> /\ \A s \in Streams : at[s] = 0
        /\ main = "running" /\ main' = "shutdown"
    BY <1>12 DEF Shutdown, MainStep, MainUnchanged
  <2>2. \A s \in Streams : body'[s] = body[s]
    BY <1>1, <1>12 DEF Shutdown, Call
  <2>3. \/ disabled /\ body' = body
        \/ ~disabled /\ body'["main"] = "flush"
    BY <1>1, <1>12 DEF Shutdown, Call
  <2>4. ~disabled => \A s \in Streams : body[s] \notin Pushing
    <3>1. \A s \in Streams : call[s] = "idle"
      BY <2>1, Destinations DEF PushControl, AtDest
    <3> QED
      BY <3>1 DEF CallControl, Pushing
  <2> QED
    BY <2>1, <2>2, <2>3, <2>4
<1>13. ASSUME InitEnds \/ ShutdownEnds
       PROVE  Goal
  <2>1. UNCHANGED <<at, bucket, stored, queued, flushes, body>>
    BY <1>13 DEF InitEnds, ShutdownEnds, MainUnchanged
  <2>2. (main = "init" /\ main' = "running") \/ (main = "shutdown" /\ main' = "down")
    <3>1. CASE InitEnds
      BY <3>1 DEF InitEnds, MainStep
    <3>2. CASE ShutdownEnds
      BY <3>2 DEF ShutdownEnds, MainStep
    <3> QED
      BY <1>13, <3>1, <3>2
  <2> QED
    BY <2>1, <2>2
<1>14. ASSUME UNCHANGED vars
       PROVE  Goal
  BY <1>14 DEF vars, storeVars, multiVars
<1> HIDE DEF Goal
<1>15. Goal
  BY <1>2, <1>3, <1>4, <1>5, <1>6, <1>7, <1>8, <1>9, <1>10, <1>11, <1>12, <1>13, <1>14
     DEF Next, CallerStep, PushLogChunk, Pushes, Timed, Body, StreamBody, Terminated
<1> QED
  BY <1>15 DEF Goal

-----------------------------------------------------------------------------
(* The theorems *)

LEMMA Initially ==
    ASSUME Init
    PROVE  IInv
<1> USE ArtifactStoreAssumption, MultiReporterAssumption DEF Init, StoreInit
<1>1. CallTypes /\ ChunkTypes
  <2>1. CallTypes
    <3>1. disabled \in BOOLEAN /\ crashed \in BOOLEAN /\ firstError \in BOOLEAN
      OBVIOUS
    <3>2. deadlines \in [Callers -> 0..1]
      OBVIOUS
    <3>3. /\ call \in [Callers -> {"idle", "waiting", "done", "late", "skipped"}]
          /\ body \in [Callers -> {"none", "newBucket", "check", "lookUp", "create", "store",
                                   "append", "collect", "wait", "flush", "close", "done"}]
      OBVIOUS
    <3>4. /\ retch \in [Streams -> {"empty", "true", "false"}]
          /\ upload \in [Artifacts -> {"none", "begun", "settled", "failed"}]
      OBVIOUS
    <3>5. /\ bucket \in {"none", "open", "closed"} /\ stored \subseteq Streams
          /\ main \in {"start", "init", "running", "shutdown", "down"} /\ dests \in Orders
      OBVIOUS
    <3> QED
      BY <3>1, <3>2, <3>3, <3>4, <3>5 DEF CallTypes
  <2>2. {queued, mesos} \subseteq [Streams -> Seq(Nat)]
    OBVIOUS
  <2>3. {chunk, carried, flushed, at} \subseteq [Streams -> Nat]
    OBVIOUS
  <2>4. success \in [Streams -> BOOLEAN] /\ {acked, refused} \subseteq [Streams -> SUBSET Nat]
    OBVIOUS
  <2> QED
    BY <2>1, <2>2, <2>3, <2>4 DEF ChunkTypes
<1>2. Bounds
  <2>1. Len(dests) \in Nat
    OBVIOUS
  <2> QED
    BY <2>1 DEF Bounds
<1>3. CallControl /\ BodyOf
  BY DEF CallControl, BodyOf, Callers
<1>4. ASSUME NEW s \in Streams
      PROVE  PushControl(s) /\ Answered(s) /\ Appended(s)
  <2>1. at[s] = 0 /\ s \in Callers
    BY DEF Callers
  <2>2. ~Passed(s, "store") /\ ~Passed(s, "mesos")
    BY <2>1 DEF Passed
  <2> QED
    BY <2>1, <2>2 DEF PushControl, Answered, Appended, Below, Ahead, Pushing
<1>5. Closing /\ Uploading
  BY DEF Closing, Uploading, Callers
<1>6. AcksAreTrue /\ ClosedIsComplete
  BY DEF AcksAreTrue, ClosedIsComplete, Increasing
<1> QED
  BY <1>1, <1>2, <1>3, <1>4, <1>5, <1>6 DEF IInv, TypeOK

LEMMA Inductive == IInv /\ [Next]_vars => IInv'
<1> SUFFICES ASSUME IInv, [Next]_vars
             PROVE  IInv'
  OBVIOUS
<1> USE DEF IInv
<1>1. CallTypes' /\ ChunkTypes' /\ Bounds'
  BY CallTypesStep, ChunkTypesStep, BoundsStep
<1>2. CallControl' /\ BodyOf' /\ Uploading'
  BY CallControlStep, UploadingStep
<1>3. \A s \in Streams : PushControl(s)' /\ Answered(s)' /\ Appended(s)'
  BY PushControlStep, AnsweredStep, AppendedStep
<1>4. Closing' /\ ClosedIsComplete' /\ AcksAreTrue'
  BY ClosingStep, AcksAreTrueStep
<1> QED
  BY <1>1, <1>2, <1>3, <1>4 DEF TypeOK

THEOREM Invariant == Spec => []IInv
BY Initially, Inductive, PTL DEF Spec

\* Whatever the destinations, the logs and the artifacts, the variables keep
\* their types and bounds, and no caller waits for the deadline of
\* runWithDeadline more than once.
THEOREM MultiTypeCorrect == Spec => []TypeOK
<1>1. IInv => TypeOK
  BY DEF IInv
<1> QED
  BY <1>1, Invariant, PTL

\* A chunk PushLogChunk has agreed to has been handed to every destination that
\* takes it, and none has queued a chunk twice or out of order.
THEOREM AcknowledgedIsHandedOver == Spec => []AcksAreTrue
<1>1. IInv => AcksAreTrue
  BY DEF IInv
<1> QED
  BY <1>1, Invariant, PTL

\* Shutdown closes the bucket only after it has flushed every log, or has failed
\* to, and when nothing will be queued any more.
THEOREM ClosedBucketIsComplete == Spec => []ClosedIsComplete
<1>1. IInv => ClosedIsComplete
  BY DEF IInv
<1> QED
  BY <1>1, Invariant, PTL

\* When PublishArtifacts has come back in time without an error, every artifact
\* has been sent or is empty, or there was nothing to collect and nothing was sent;
\* and an error it returns is one of its own.
THEOREM PublishIsHonest == Spec => []PublishIsTruthful
<1>1. IInv => PublishIsTruthful
  <2> SUFFICES ASSUME IInv
               PROVE  PublishIsTruthful
    OBVIOUS
  <2>1. PublishError => collected = "failed" \/ \E a \in Artifacts : upload[a] = "failed"
    BY DEF PublishError, IInv, Uploading
  <2>2. ASSUME call["runner"] = "done", ~DiscardErrors, ~PublishError
        PROVE  \/ collected = "found" /\ \A a \in Artifacts : upload[a] = "settled"
               \/ collected = "none" /\ \A a \in Artifacts : upload[a] = "none"
    <3>1. ~firstError
      BY <2>2 DEF PublishError, Over
    <3>2. body["runner"] = "done"
      BY <2>2 DEF IInv, CallControl, Callers
    <3>3. collected # "failed"
      BY <2>2, <3>1 DEF IInv, Uploading
    <3>4. \A a \in Artifacts : /\ upload[a] \notin {"begun", "failed"}
                               /\ upload[a] = "none" <=> collected # "found"
      BY <2>2, <3>1, <3>2 DEF IInv, Uploading
    <3> QED
      BY <3>3, <3>4 DEF IInv, TypeOK, CallTypes
  <2> QED
    BY <2>1, <2>2 DEF PublishIsTruthful
<1> QED
  BY <1>1, Invariant, PTL

=============================================================================
