----------------------- MODULE DefaultReporter_proofs -----------------------
(***************************************************************************)
(* Theorems about the default reporter, for any number of goroutines that  *)
(* report, any capacity of its channel and any number of tries.             *)
(***************************************************************************)
EXTENDS DefaultReporter, SequenceTheorems, TLAPS

LEMMA CallersAreTwo ==
    /\ "transport" \in Callers /\ Main \in Callers /\ Main # "transport"
    /\ \A s \in Callers : s # "transport" => s = Main
BY ReporterAssumption DEF Callers

\* The next report of a goroutine is a payload that has not been made.
LEMMA NextReportIsNew ==
    ASSUME TypeOK, NEW g \in Goroutines, MayReport(g)
    PROVE  /\ NextReport(g) \in Payload
           /\ ~Made(NextReport(g))
<1>1. count[g] \in Nat /\ count[g] + 1 \in 1..MaxReports
  BY ReporterAssumption DEF TypeOK, MayReport
<1>2. NextReport(g) = <<g, count[g] + 1>>
  BY DEF NextReport
<1>3. NextReport(g)[1] = g /\ NextReport(g)[2] = count[g] + 1
  BY <1>2
<1> QED
  BY <1>1, <1>2, <1>3 DEF Payload, Made

\* Making it makes nothing else.
LEMMA MadeAfterReport ==
    ASSUME TypeOK, NEW g \in Goroutines, MayReport(g),
           count' = [count EXCEPT ![g] = @ + 1]
    PROVE  /\ NextReport(g) \in Payload /\ ~Made(NextReport(g))
           /\ \A p \in Payload : Made(p)' <=> Made(p) \/ p = NextReport(g)
<1>1. NextReport(g) \in Payload /\ ~Made(NextReport(g))
  BY NextReportIsNew
<1>2. ASSUME NEW p \in Payload
      PROVE  Made(p)' <=> Made(p) \/ p = NextReport(g)
  <2>1. p[1] \in Goroutines /\ p[2] \in Nat /\ p = <<p[1], p[2]>>
    BY ReporterAssumption DEF Payload
  <2>2. count[p[1]] \in Nat /\ count[g] \in Nat
    BY <2>1, ReporterAssumption DEF TypeOK
  <2>3. CASE p[1] = g
    <3>1. count'[p[1]] = count[g] + 1
      BY <2>3 DEF TypeOK
    <3>2. p[2] <= count[g] + 1 <=> p[2] <= count[g] \/ p[2] = count[g] + 1
      BY <2>1, <2>2
    <3>3. p = NextReport(g) <=> p[2] = count[g] + 1
      BY <2>1, <2>3 DEF NextReport
    <3> QED
      BY <3>1, <3>2, <3>3, <2>3 DEF Made
  <2>4. CASE p[1] # g
    <3>1. count'[p[1]] = count[p[1]]
      BY <2>1, <2>4 DEF TypeOK
    <3>2. p # NextReport(g)
      BY <2>1, <2>4 DEF NextReport
    <3> QED
      BY <3>1, <3>2 DEF Made
  <2> QED
    BY <2>3, <2>4
<1> QED
  BY <1>1, <1>2

\* The lengths and elements of the two sequences.
LEMMA SequencesOfPayloads ==
    ASSUME TypeOK
    PROVE  /\ Len(accepted) \in Nat /\ Len(queue) \in Nat
           /\ \A i \in 1..Len(accepted) : accepted[i] \in Payload
           /\ \A i \in 1..Len(queue) : queue[i] \in Payload
           /\ queue = <<>> <=> Len(queue) = 0
           /\ accepted = <<>> <=> Len(accepted) = 0
BY EmptySeq, LenProperties, ElementOfSeq DEF TypeOK

\* What Send does to the sequences.
LEMMA SendAppends ==
    ASSUME TypeOK, NEW g \in Goroutines, Send(g)
    PROVE  /\ NextReport(g) \in Payload
           /\ Len(accepted') = Len(accepted) + 1 /\ Len(queue') = Len(queue) + 1
           /\ \A i \in 1..Len(accepted) : accepted'[i] = accepted[i]
           /\ accepted'[Len(accepted) + 1] = NextReport(g)
           /\ \A i \in 1..Len(queue) : queue'[i] = queue[i]
           /\ queue'[Len(queue) + 1] = NextReport(g)
<1>1. NextReport(g) \in Payload
  BY NextReportIsNew DEF Send
<1> QED
  BY <1>1, AppendProperties DEF Send, TypeOK

\* What Receive does to the buffer.
LEMMA ReceiveTakesHead ==
    ASSUME TypeOK, Receive
    PROVE  /\ Len(queue) > 0 /\ Len(queue') = Len(queue) - 1
           /\ queue' \in Seq(Payload)
           /\ \A i \in 1..Len(queue') : queue'[i] = queue[i + 1]
           /\ rp'["transport"] = queue[1] /\ queue[1] \in Payload
<1>1. queue \in Seq(Payload) /\ queue # <<>>
  BY DEF TypeOK, Receive
<1>2. Len(queue) > 0 /\ Head(queue) = queue[1] /\ 1 \in 1..Len(queue)
  BY <1>1, SequencesOfPayloads
<1>3. /\ queue' \in Seq(Payload) /\ Len(queue') = Len(queue) - 1
      /\ \A i \in 1..Len(queue') : queue'[i] = queue[i + 1]
  BY <1>1, HeadTailProperties DEF Receive
<1>4. rp'["transport"] = queue[1]
  BY <1>2, CallersAreTwo DEF Receive, Begin, TypeOK
<1> QED
  BY <1>2, <1>3, <1>4, SequencesOfPayloads

-----------------------------------------------------------------------------
(* The types. *)

LEMMA TypesInitially == Init => TypeOK
<1> SUFFICES ASSUME Init
             PROVE  TypeOK
  OBVIOUS
<1>1. <<>> \in Seq(Payload)
  BY EmptySeq
<1>2. count \in [Goroutines -> 0..MaxReports]
  BY ReporterAssumption DEF Init
<1>3. server \in [Callers -> Seq(Payload)]
  BY <1>1 DEF Init
<1>4. queue \in Seq(Payload) /\ accepted \in Seq(Payload)
  BY <1>1 DEF Init
<1>5. rp \in [Callers -> Payload \cup {NoPayload}] /\ tryCnt \in [Callers -> Nat \ {0}]
  BY DEF Init
<1>6. posts \in [Payload -> Nat] /\ result \in [Payload -> {"none", "nil", "error"}]
  BY DEF Init
<1> QED
  BY <1>2, <1>3, <1>4, <1>5, <1>6 DEF Init, TypeOK

LEMMA PostTypes ==
    ASSUME TypeOK, NEW s \in Callers, rp[s] \in Payload,
           NEW reached \in BOOLEAN, HttpPost(s, reached)
    PROVE  /\ server' \in [Callers -> Seq(Payload)]
           /\ posts' \in [Payload -> Nat]
<1>1. Append(server[s], rp[s]) \in Seq(Payload)
  BY AppendProperties DEF TypeOK
<1>2. server' \in [Callers -> Seq(Payload)]
  BY <1>1 DEF TypeOK, HttpPost
<1>3. posts' \in [Payload -> Nat]
  BY DEF TypeOK, HttpPost
<1> QED
  BY <1>2, <1>3

LEMMA ReturnTypes ==
    ASSUME TypeOK, NEW s \in Callers, rp[s] \in Payload,
           NEW r \in {"nil", "error"}, Return(s, r)
    PROVE  /\ at' \in [Callers -> {"idle", "post", "sleep"}]
           /\ result' \in [Payload -> {"none", "nil", "error"}]
           /\ rp' = rp /\ tryCnt' = tryCnt
BY DEF TypeOK, Return

LEMMA BeginTypes ==
    ASSUME TypeOK, NEW s \in Callers, NEW p \in Payload, Begin(s, p)
    PROVE  /\ at' \in [Callers -> {"idle", "post", "sleep"}]
           /\ rp' \in [Callers -> Payload \cup {NoPayload}]
           /\ tryCnt' \in [Callers -> Nat \ {0}]
BY DEF TypeOK, Begin

LEMMA TypesStep ==
    ASSUME TypeOK, Counting, [Next]_vars
    PROVE  TypeOK'
<1>1. ASSUME NEW g \in Goroutines, Send(g)
      PROVE  TypeOK'
  <2>1. NextReport(g) \in Payload
    BY <1>1, SendAppends
  <2>2. queue' \in Seq(Payload) /\ accepted' \in Seq(Payload)
    BY <1>1, <2>1, AppendProperties DEF Send, TypeOK
  <2>3. count' \in [Goroutines -> 0..MaxReports]
    BY <1>1, ReporterAssumption DEF Send, MayReport, TypeOK
  <2> QED
    BY <1>1, <2>2, <2>3 DEF TypeOK, Send, sendVars, ctlVars
<1>2. ASSUME NEW g \in Goroutines, SendOnClosed(g)
      PROVE  TypeOK'
  BY <1>2 DEF TypeOK, SendOnClosed, chanVars, sendVars
<1>3. CASE PushSnapshotImageStatus
  <2>1. NextReport(Main) \in Payload
    BY <1>3, NextReportIsNew, ReporterAssumption DEF PushSnapshotImageStatus
  <2>2. count' \in [Goroutines -> 0..MaxReports]
    BY <1>3, ReporterAssumption DEF PushSnapshotImageStatus, MayReport, TypeOK
  <2>3. /\ at' \in [Callers -> {"idle", "post", "sleep"}]
        /\ rp' \in [Callers -> Payload \cup {NoPayload}]
        /\ tryCnt' \in [Callers -> Nat \ {0}]
    BY <1>3, <2>1, BeginTypes, CallersAreTwo DEF PushSnapshotImageStatus
  <2> QED
    BY <1>3, <2>2, <2>3 DEF TypeOK, PushSnapshotImageStatus, ctlVars
<1>4. ASSUME NEW s \in Callers, PostSucceeds(s)
      PROVE  TypeOK'
  <2>1. rp[s] \in Payload
    BY <1>4 DEF PostSucceeds, Counting
  <2>2. server' \in [Callers -> Seq(Payload)] /\ posts' \in [Payload -> Nat]
    BY <1>4, <2>1, PostTypes DEF PostSucceeds
  <2>3. /\ at' \in [Callers -> {"idle", "post", "sleep"}]
        /\ result' \in [Payload -> {"none", "nil", "error"}]
        /\ rp' = rp /\ tryCnt' = tryCnt
    BY <1>4, <2>1, ReturnTypes DEF PostSucceeds
  <2> QED
    BY <1>4, <2>2, <2>3 DEF TypeOK, PostSucceeds, chanVars, ctlVars
<1>5. ASSUME NEW s \in Callers, PostFails(s)
      PROVE  TypeOK'
  <2>1. rp[s] \in Payload
    BY <1>5 DEF PostFails, Counting
  <2>2. server' \in [Callers -> Seq(Payload)] /\ posts' \in [Payload -> Nat]
    BY <1>5, <2>1, PostTypes DEF PostFails
  <2>3. /\ at' \in [Callers -> {"idle", "post", "sleep"}]
        /\ result' \in [Payload -> {"none", "nil", "error"}]
        /\ rp' = rp /\ tryCnt' = tryCnt
    <3>1. CASE tryCnt[s] = numPublishRetries
      BY <1>5, <2>1, <3>1, ReturnTypes DEF PostFails
    <3>2. CASE tryCnt[s] # numPublishRetries
      BY <1>5, <3>2 DEF PostFails, TypeOK
    <3> QED
      BY <3>1, <3>2
  <2> QED
    BY <1>5, <2>2, <2>3 DEF TypeOK, PostFails, chanVars, ctlVars
<1>6. ASSUME NEW s \in Callers, Wake(s)
      PROVE  TypeOK'
  BY <1>6 DEF TypeOK, Wake, chanVars, ctlVars
<1>7. ASSUME NEW s \in Callers, NoTries(s)
      PROVE  TypeOK'
  <2>1. rp[s] \in Payload
    BY <1>7 DEF NoTries, Counting
  <2>3. /\ at' \in [Callers -> {"idle", "post", "sleep"}]
        /\ result' \in [Payload -> {"none", "nil", "error"}]
        /\ rp' = rp /\ tryCnt' = tryCnt
    BY <1>7, <2>1, ReturnTypes DEF NoTries
  <2> QED
    BY <1>7, <2>3 DEF TypeOK, NoTries, chanVars, ctlVars
<1>8. CASE Receive
  <2>1. queue' \in Seq(Payload) /\ Head(queue) = queue[1] /\ queue[1] \in Payload
    BY <1>8, ReceiveTakesHead DEF TypeOK
  <2>3. /\ at' \in [Callers -> {"idle", "post", "sleep"}]
        /\ rp' \in [Callers -> Payload \cup {NoPayload}]
        /\ tryCnt' \in [Callers -> Nat \ {0}]
    BY <1>8, <2>1, BeginTypes, CallersAreTwo DEF Receive
  <2> QED
    BY <1>8, <2>1, <2>3 DEF TypeOK, Receive, ctlVars
<1>9. CASE RangeEnds \/ CloseChannel \/ ShutdownSignal
  BY <1>9 DEF TypeOK, RangeEnds, CloseChannel, ShutdownSignal, chanVars, sendVars
<1>10. CASE UNCHANGED vars
  BY <1>10 DEF TypeOK, vars, chanVars, sendVars, ctlVars
<1> QED
  BY <1>1, <1>2, <1>3, <1>4, <1>5, <1>6, <1>7, <1>8, <1>9, <1>10
     DEF Next, SendPayload, Terminated

-----------------------------------------------------------------------------
(* The place of every payload. *)

\* Calls to SendPayload disturb only the payload and the place of their caller.
LEMMA SendPayloadIsLocal ==
    ASSUME TypeOK, Counting, NEW s \in Callers, SendPayload(s)
    PROVE  /\ UNCHANGED <<chanVars, ctlVars, rp, numPublishRetries>>
           /\ at[s] # "idle" /\ rp[s] \in Payload
           /\ \A t \in Callers : t # s => at'[t] = at[t] /\ tryCnt'[t] = tryCnt[t]
           /\ \A p \in Payload : p # rp[s] => posts'[p] = posts[p] /\ result'[p] = result[p]
           /\ \/ at'[s] = "idle" /\ result'[rp[s]] \in {"nil", "error"}
              \/ at'[s] # "idle" /\ result' = result
<1>0. at[s] # "idle" /\ rp[s] \in Payload
  BY DEF SendPayload, PostSucceeds, PostFails, Wake, NoTries, Counting
<1>1. CASE PostSucceeds(s)
  BY <1>0, <1>1 DEF PostSucceeds, HttpPost, Return, TypeOK
<1>2. CASE PostFails(s)
  <2>1. CASE tryCnt[s] = numPublishRetries
    BY <1>0, <1>2, <2>1 DEF PostFails, HttpPost, Return, TypeOK
  <2>2. CASE tryCnt[s] # numPublishRetries
    BY <1>0, <1>2, <2>2 DEF PostFails, HttpPost, TypeOK
  <2> QED
    BY <2>1, <2>2
<1>3. CASE Wake(s)
  BY <1>0, <1>3 DEF Wake, TypeOK
<1>4. CASE NoTries(s)
  BY <1>0, <1>4 DEF NoTries, Return, TypeOK
<1> QED
  BY <1>1, <1>2, <1>3, <1>4 DEF SendPayload

LEMMA WindowStep ==
    ASSUME TypeOK, Window, Control, Counting, [Next]_vars
    PROVE  Window'
<1>0. /\ Len(accepted) \in Nat /\ Len(queue) \in Nat
      /\ queue = <<>> <=> Len(queue) = 0
  BY SequencesOfPayloads
<1> USE DEF Window, Taken, Busy
<1>1. ASSUME NEW g \in Goroutines, Send(g)
      PROVE  Window'
  <2>1. /\ Len(accepted') = Len(accepted) + 1 /\ Len(queue') = Len(queue) + 1
        /\ \A i \in 1..Len(accepted) : accepted'[i] = accepted[i]
        /\ accepted'[Len(accepted) + 1] = NextReport(g)
        /\ \A i \in 1..Len(queue) : queue'[i] = queue[i]
        /\ queue'[Len(queue) + 1] = NextReport(g)
    BY <1>1, SendAppends
  <2>2. Taken' = Taken /\ Len(queue') <= Len(accepted')
    BY <1>0, <2>1
  <2>3. ASSUME NEW i \in 1..Len(queue')
        PROVE  queue'[i] = accepted'[Taken + i]
    <3>1. CASE i = Len(queue) + 1
      <4>1. Taken + i = Len(accepted) + 1
        BY <1>0, <3>1
      <4> QED
        BY <2>1, <3>1, <4>1
    <3>2. CASE i # Len(queue) + 1
      <4>1. i \in 1..Len(queue) /\ Taken + i \in 1..Len(accepted)
        BY <1>0, <2>1, <3>2
      <4> QED
        BY <2>1, <4>1
    <3> QED
      BY <3>1, <3>2
  <2>4. Busy => Taken > 0 /\ accepted'[Taken] = accepted[Taken]
    BY <1>0, <2>1
  <2>5. at' = at /\ rp' = rp
    BY <1>1 DEF Send, sendVars
  <2> QED
    BY <2>2, <2>3, <2>4, <2>5
<1>2. ASSUME NEW s \in Callers, SendPayload(s)
      PROVE  Window'
  <2>1. UNCHANGED <<queue, accepted, rp>> /\ (Busy' => Busy)
    BY <1>2, SendPayloadIsLocal, CallersAreTwo DEF chanVars
  <2> QED
    BY <2>1
<1>3. CASE PushSnapshotImageStatus
  <2>1. UNCHANGED <<queue, accepted>> /\ at'["transport"] = at["transport"]
        /\ rp'["transport"] = rp["transport"]
    BY <1>3, CallersAreTwo DEF PushSnapshotImageStatus, Begin, TypeOK
  <2> QED
    BY <2>1
<1>4. CASE Receive
  <2>1. /\ Len(queue) > 0 /\ Len(queue') = Len(queue) - 1
        /\ \A i \in 1..Len(queue') : queue'[i] = queue[i + 1]
        /\ rp'["transport"] = queue[1] /\ accepted' = accepted
    BY <1>4, ReceiveTakesHead DEF Receive
  <2>2. Taken' = Taken + 1 /\ Len(queue') <= Len(accepted') /\ Taken' > 0
    BY <1>0, <2>1
  <2>3. rp'["transport"] = accepted'[Taken']
    BY <1>0, <2>1, <2>2
  <2>4. ASSUME NEW i \in 1..Len(queue')
        PROVE  queue'[i] = accepted'[Taken' + i]
    <3>1. i + 1 \in 1..Len(queue) /\ Taken + (i + 1) = Taken' + i
      BY <1>0, <2>1, <2>2
    <3>2. queue'[i] = accepted[Taken + (i + 1)]
      BY <2>1, <3>1
    <3> QED
      BY <2>1, <3>1, <3>2
  <2> QED
    BY <2>2, <2>3, <2>4
<1>5. CASE (\E g \in Goroutines : SendOnClosed(g)) \/ RangeEnds \/ CloseChannel
             \/ ShutdownSignal \/ UNCHANGED vars
  <2>1. UNCHANGED <<queue, accepted, at, rp>>
    BY <1>5 DEF SendOnClosed, RangeEnds, CloseChannel, ShutdownSignal, vars, chanVars, sendVars
  <2> QED
    BY <2>1
<1> QED
  BY <1>1, <1>2, <1>3, <1>4, <1>5 DEF Next, Terminated

LEMMA ControlStep ==
    ASSUME TypeOK, Control, Counting, [Next]_vars
    PROVE  Control'
<1> USE DEF Control, Busy
<1>1. ASSUME NEW g \in Goroutines, Send(g)
      PROVE  Control'
  <2>1. loop = "range"
    BY <1>1 DEF Send, TypeOK
  <2> QED
    BY <1>1, <2>1 DEF Send, sendVars, ctlVars
<1>2. ASSUME NEW s \in Callers, SendPayload(s)
      PROVE  Control'
  <2>1. UNCHANGED <<queue, open, loop, main>> /\ (Busy' => Busy)
    BY <1>2, SendPayloadIsLocal, CallersAreTwo DEF chanVars, ctlVars
  <2> QED
    BY <2>1
<1>3. CASE PushSnapshotImageStatus
  <2>1. UNCHANGED <<queue, open, loop, main>> /\ at'["transport"] = at["transport"]
    BY <1>3, CallersAreTwo DEF PushSnapshotImageStatus, Begin, TypeOK, ctlVars
  <2> QED
    BY <2>1
<1>4. CASE Receive
  BY <1>4 DEF Receive, ctlVars
<1>5. CASE RangeEnds \/ CloseChannel \/ ShutdownSignal
  BY <1>5 DEF RangeEnds, CloseChannel, ShutdownSignal, chanVars, sendVars
<1>6. CASE (\E g \in Goroutines : SendOnClosed(g)) \/ UNCHANGED vars
  BY <1>6 DEF SendOnClosed, vars, chanVars, sendVars, ctlVars
<1> QED
  BY <1>1, <1>2, <1>3, <1>4, <1>5, <1>6 DEF Next, Terminated

\* What Window says of positions: the buffer is the end of accepted, and the
\* transport sends what stands right before it.
LEMMA Positions ==
    ASSUME TypeOK, Window
    PROVE  /\ Taken \in 0..Len(accepted) /\ Retired \in 0..Taken
           /\ Len(accepted) \in Nat
           /\ Busy => Taken \in 1..Len(accepted) /\ Retired = Taken - 1
                      /\ rp["transport"] = accepted[Taken]
           /\ ~Busy => Retired = Taken
           /\ \A i \in 1..Len(accepted) : accepted[i] \in Payload
<1>1. /\ Len(accepted) \in Nat /\ Len(queue) \in Nat
      /\ \A i \in 1..Len(accepted) : accepted[i] \in Payload
  BY SequencesOfPayloads
<1>2. Taken \in 0..Len(accepted)
  BY <1>1 DEF Window, Taken
<1>3. CASE Busy
  BY <1>1, <1>2, <1>3 DEF Window, Retired
<1>4. CASE ~Busy
  BY <1>1, <1>2, <1>4 DEF Retired
<1> QED
  BY <1>1, <1>2, <1>3, <1>4

LEMMA PlacesAfterSend ==
    ASSUME TypeOK, Window, Counting, Places, NEW g \in Goroutines, Send(g)
    PROVE  Places'
<1> DEFINE new == NextReport(g)
<1>1. /\ Len(accepted') = Len(accepted) + 1 /\ Len(queue') = Len(queue) + 1
      /\ \A i \in 1..Len(accepted) : accepted'[i] = accepted[i]
      /\ accepted'[Len(accepted) + 1] = new
  BY SendAppends
<1>2. /\ new \in Payload /\ ~Made(new)
      /\ \A p \in Payload : Made(p)' <=> Made(p) \/ p = new
  BY MadeAfterReport DEF Send
<1>3. UNCHANGED <<at, rp, tryCnt, posts, result>>
  BY DEF Send, sendVars
<1>4. /\ Taken \in 0..Len(accepted) /\ Retired \in 0..Taken /\ Len(accepted) \in Nat
      /\ \A i \in 1..Len(accepted) : accepted[i] \in Payload
  BY Positions
<1>5. Taken' = Taken /\ Retired' = Retired
  BY <1>1, <1>3, <1>4, SequencesOfPayloads DEF Taken, Retired, Busy
<1>6. \A i \in 1..Len(accepted) : accepted[i] # new
  BY <1>2 DEF Places
<1>7. \A i \in 1..Len(accepted') : i \in 1..Len(accepted) \/ i = Len(accepted) + 1
  BY <1>1, <1>4
<1> HIDE DEF new
<1>8. \A p \in Payload : ~Made(p)' => Untouched(p)'
  BY <1>2, <1>3 DEF Places, Untouched
<1>9. \A i \in 1..Len(accepted') : Made(accepted[i])'
  BY <1>1, <1>2, <1>4, <1>7 DEF Places
<1>10. \A i, j \in 1..Len(accepted') : accepted'[i] = accepted'[j] => i = j
  BY <1>1, <1>6, <1>7 DEF Places
<1>11. at'[Main] # "idle" => /\ Made(rp[Main])'
                             /\ \A i \in 1..Len(accepted') : accepted'[i] # rp'[Main]
  <2> SUFFICES ASSUME at[Main] # "idle"
               PROVE  /\ Made(rp[Main])'
                      /\ \A i \in 1..Len(accepted') : accepted'[i] # rp[Main]
    BY <1>3
  <2>1. /\ rp[Main] \in Payload /\ Made(rp[Main])
        /\ \A i \in 1..Len(accepted) : accepted[i] # rp[Main]
    BY CallersAreTwo DEF Places, Counting
  <2>2. Made(rp[Main])'
    BY <1>2, <1>3, <2>1
  <2>3. rp[Main] # new
    BY <1>2, <2>1
  <2> QED
    BY <1>1, <1>7, <2>1, <2>2, <2>3
<1>12. \A i \in 1..Retired' : result'[accepted'[i]] # "none"
  BY <1>1, <1>3, <1>4, <1>5 DEF Places
<1>13. \A i \in (Taken' + 1)..Len(accepted') : Untouched(accepted[i])'
  <2> SUFFICES ASSUME NEW i \in (Taken' + 1)..Len(accepted')
               PROVE  Untouched(accepted[i])'
    OBVIOUS
  <2>1. CASE i = Len(accepted) + 1
    BY <1>1, <1>2, <1>3, <2>1 DEF Places, Untouched
  <2>2. CASE i # Len(accepted) + 1
    <3>1. i \in (Taken + 1)..Len(accepted) /\ i \in 1..Len(accepted)
      BY <1>1, <1>4, <1>5, <2>2
    <3> QED
      BY <1>1, <1>3, <3>1 DEF Places, Untouched
  <2> QED
    BY <2>1, <2>2
<1> QED
  BY <1>8, <1>9, <1>10, <1>11, <1>12, <1>13 DEF Places

LEMMA PlacesAfterSendPayload ==
    ASSUME TypeOK, Window, Counting, Places, NEW s \in Callers, SendPayload(s)
    PROVE  Places'
<1>1. /\ UNCHANGED <<queue, accepted, count, rp>>
      /\ at[s] # "idle" /\ rp[s] \in Payload
      /\ \A t \in Callers : t # s => at'[t] = at[t]
      /\ \A p \in Payload : p # rp[s] => posts'[p] = posts[p] /\ result'[p] = result[p]
      /\ \/ at'[s] = "idle" /\ result'[rp[s]] \in {"nil", "error"}
         \/ at'[s] # "idle" /\ result' = result
  BY SendPayloadIsLocal DEF chanVars
<1>2. /\ Taken \in 0..Len(accepted) /\ Retired \in 0..Taken /\ Len(accepted) \in Nat
      /\ Busy => Taken \in 1..Len(accepted) /\ Retired = Taken - 1
                 /\ rp["transport"] = accepted[Taken]
      /\ ~Busy => Retired = Taken
      /\ \A i \in 1..Len(accepted) : accepted[i] \in Payload
  BY Positions
<1>3. Taken' = Taken
  BY <1>1 DEF Taken
<1>4. Made(rp[s])
  <2>1. CASE s = "transport"
    BY <1>1, <1>2, <2>1 DEF Places, Busy
  <2>2. CASE s = Main
    BY <1>1, <2>2 DEF Places
  <2> QED
    BY <2>1, <2>2, CallersAreTwo
<1>5. \A p \in Payload : Made(p)' <=> Made(p)
  BY <1>1 DEF Made
<1>6. \A p \in Payload : ~Made(p)' => Untouched(p)'
  BY <1>1, <1>4, <1>5 DEF Places, Untouched
<1>7. \A i \in 1..Len(accepted') : Made(accepted[i])'
  BY <1>1, <1>2, <1>5 DEF Places
<1>8. at'[Main] # "idle" => /\ Made(rp[Main])'
                            /\ \A i \in 1..Len(accepted') : accepted'[i] # rp'[Main]
  BY <1>1, CallersAreTwo DEF Places, Made
<1>9. \A i \in (Taken' + 1)..Len(accepted') : Untouched(accepted[i])'
  <2> SUFFICES ASSUME NEW i \in (Taken + 1)..Len(accepted)
               PROVE  Untouched(accepted[i])'
    BY <1>1, <1>3
  <2>1. i \in 1..Len(accepted) /\ i # Taken /\ Untouched(accepted[i])
    BY <1>2 DEF Places
  <2>2. accepted[i] # rp[s]
    <3>1. CASE s = "transport"
      BY <1>1, <1>2, <2>1, <3>1 DEF Places, Busy
    <3>2. CASE s = Main
      BY <1>1, <2>1, <3>2 DEF Places
    <3> QED
      BY <3>1, <3>2, CallersAreTwo
  <2> QED
    BY <1>1, <1>2, <2>1, <2>2 DEF Untouched
<1>10. \A i \in 1..Retired' : result'[accepted'[i]] # "none"
  <2>1. ASSUME NEW i \in 1..Retired
        PROVE  result'[accepted[i]] # "none"
    <3>1. i \in 1..Len(accepted) /\ accepted[i] \in Payload /\ result[accepted[i]] # "none"
      BY <1>2 DEF Places
    <3>2. CASE accepted[i] = rp[s]
      BY <1>1, <3>1, <3>2
    <3>3. CASE accepted[i] # rp[s]
      BY <1>1, <3>1, <3>3
    <3> QED
      BY <3>2, <3>3
  <2>2. CASE s = "transport" /\ at'[s] = "idle"
    <3>1. Busy /\ ~Busy' /\ Retired' = Taken
      BY <1>1, <1>2, <1>3, <2>2 DEF Retired, Busy
    <3>2. result'[accepted[Taken]] # "none"
      BY <1>1, <1>2, <2>2, <3>1
    <3>3. \A i \in 1..Taken : i \in 1..Retired \/ i = Taken
      BY <1>2, <3>1
    <3> QED
      BY <1>1, <2>1, <3>1, <3>2, <3>3
  <2>3. CASE ~(s = "transport" /\ at'[s] = "idle")
    <3>1. Busy' <=> Busy
      BY <1>1, <2>3, CallersAreTwo DEF Busy
    <3>2. Retired' = Retired
      BY <1>3, <3>1 DEF Retired
    <3> QED
      BY <1>1, <2>1, <3>2
  <2> QED
    BY <2>2, <2>3
<1> QED
  BY <1>1, <1>6, <1>7, <1>8, <1>9, <1>10 DEF Places

LEMMA PlacesAfterPush ==
    ASSUME TypeOK, Window, Counting, Places, PushSnapshotImageStatus
    PROVE  Places'
<1> DEFINE new == NextReport(Main)
<1>1. /\ new \in Payload /\ ~Made(new)
      /\ \A p \in Payload : Made(p)' <=> Made(p) \/ p = new
  BY MadeAfterReport, ReporterAssumption DEF PushSnapshotImageStatus
<1>2. /\ UNCHANGED <<queue, accepted, posts, result>>
      /\ at'["transport"] = at["transport"] /\ rp'[Main] = new
  BY CallersAreTwo DEF PushSnapshotImageStatus, Begin, TypeOK
<1>3. Taken' = Taken /\ Retired' = Retired
  BY <1>2 DEF Taken, Retired, Busy
<1>4. \A i \in 1..Len(accepted) : accepted[i] \in Payload
  BY Positions
<1> HIDE DEF new
<1>5. \A p \in Payload : ~Made(p)' => Untouched(p)'
  BY <1>1, <1>2 DEF Places, Untouched
<1>6. \A i \in 1..Len(accepted') : Made(accepted[i])'
  BY <1>1, <1>2, <1>4 DEF Places
<1>7. Made(rp[Main])'
  BY <1>1, <1>2 DEF Made
<1>8. \A i \in 1..Len(accepted') : accepted'[i] # rp'[Main]
  BY <1>1, <1>2 DEF Places
<1> QED
  BY <1>2, <1>3, <1>5, <1>6, <1>7, <1>8 DEF Places, Untouched

LEMMA PlacesAfterReceive ==
    ASSUME TypeOK, Window, Counting, Places, Receive
    PROVE  Places'
<1>1. /\ UNCHANGED <<accepted, count, posts, result>>
      /\ at'[Main] = at[Main] /\ rp'[Main] = rp[Main] /\ at'["transport"] = "post"
  BY CallersAreTwo DEF Receive, Begin, TypeOK
<1>2. Len(queue') = Len(queue) - 1 /\ Len(queue) \in Nat /\ Len(queue) > 0
  BY ReceiveTakesHead, SequencesOfPayloads
<1>3. Taken \in 0..Len(accepted) /\ Len(accepted) \in Nat /\ Retired = Taken
  BY Positions DEF Receive, Busy
<1>4. Taken' = Taken + 1 /\ Retired' = Taken
  BY <1>1, <1>2, <1>3 DEF Taken, Retired, Busy
<1>5. \A i \in (Taken' + 1)..Len(accepted') : i \in (Taken + 1)..Len(accepted)
  BY <1>1, <1>3, <1>4
<1> QED
  BY <1>1, <1>3, <1>4, <1>5 DEF Places, Untouched, Made

LEMMA PlacesStep ==
    ASSUME TypeOK, Window, Counting, Places, [Next]_vars
    PROVE  Places'
<1>1. CASE (\E g \in Goroutines : SendOnClosed(g)) \/ RangeEnds \/ CloseChannel
             \/ ShutdownSignal \/ UNCHANGED vars
  <2>1. UNCHANGED <<queue, accepted, count, at, rp, posts, result>>
    BY <1>1 DEF SendOnClosed, RangeEnds, CloseChannel, ShutdownSignal, vars, chanVars, sendVars
  <2>2. Taken' = Taken /\ Retired' = Retired
    BY <2>1 DEF Taken, Retired, Busy
  <2> QED
    BY <2>1, <2>2 DEF Places, Untouched, Made
<1> QED
  BY <1>1, PlacesAfterSend, PlacesAfterSendPayload, PlacesAfterPush, PlacesAfterReceive
     DEF Next, Terminated

-----------------------------------------------------------------------------
(* The counter of the retry loop, and what SendPayload returns. *)

\* The payload of one caller is not that of the other.
LEMMA CallersDiffer ==
    ASSUME TypeOK, Window, Places, NEW s \in Callers, NEW t \in Callers, s # t,
           at[s] # "idle", at[t] # "idle"
    PROVE  rp[s] # rp[t]
<1>1. Busy /\ at[Main] # "idle"
  BY CallersAreTwo DEF Busy
<1>2. rp["transport"] # rp[Main]
  BY <1>1, Positions DEF Places
<1> QED
  BY <1>2, CallersAreTwo

\* A call that begins has posted nothing.
LEMMA CountingAfterBegin ==
    ASSUME TypeOK, Counting, NEW s \in Callers, NEW p \in Payload,
           Begin(s, p), Untouched(p), UNCHANGED <<posts, result, numPublishRetries>>
    PROVE  Counting'
<1>1. at'[s] = "post" /\ rp'[s] = p /\ tryCnt'[s] = 1
  BY DEF Begin, TypeOK
<1>2. \A t \in Callers : t # s => at'[t] = at[t] /\ rp'[t] = rp[t] /\ tryCnt'[t] = tryCnt[t]
  BY DEF Begin, TypeOK
<1> QED
  BY <1>1, <1>2 DEF Counting, Untouched

LEMMA CountingAfterSendPayload ==
    ASSUME TypeOK, Window, Counting, Places, NEW s \in Callers, SendPayload(s)
    PROVE  Counting'
<1>1. /\ UNCHANGED <<rp, numPublishRetries>>
      /\ at[s] # "idle" /\ rp[s] \in Payload
      /\ \A t \in Callers : t # s => at'[t] = at[t] /\ tryCnt'[t] = tryCnt[t]
      /\ \A p \in Payload : p # rp[s] => posts'[p] = posts[p] /\ result'[p] = result[p]
      /\ \/ at'[s] = "idle" /\ result'[rp[s]] \in {"nil", "error"}
         \/ at'[s] # "idle" /\ result' = result
  BY SendPayloadIsLocal
<1>2. numPublishRetries \in Nat /\ tryCnt[s] \in Nat
  BY ReporterAssumption DEF TypeOK
<1>3. /\ at[s] = "post" => posts[rp[s]] = tryCnt[s] - 1
      /\ at[s] = "sleep" => posts[rp[s]] = tryCnt[s] /\ tryCnt[s] < numPublishRetries
      /\ result[rp[s]] = "none"
  BY <1>1 DEF Counting
<1>4. ASSUME at'[s] # "idle"
      PROVE  /\ at'[s] = "post" => /\ posts'[rp[s]] = tryCnt'[s] - 1
                                   /\ tryCnt'[s] = 1 \/ tryCnt'[s] <= numPublishRetries
             /\ at'[s] = "sleep" => /\ posts'[rp[s]] = tryCnt'[s]
                                    /\ tryCnt'[s] < numPublishRetries
             /\ result'[rp[s]] = "none"
  <2>1. ~PostSucceeds(s) /\ ~NoTries(s)
    BY <1>4 DEF PostSucceeds, NoTries, Return, TypeOK
  <2>2. CASE PostFails(s)
    <3>1. tryCnt[s] # numPublishRetries
      BY <1>4, <2>2 DEF PostFails, Return, TypeOK
    <3>2. at'[s] = "sleep" /\ posts'[rp[s]] = posts[rp[s]] + 1 /\ tryCnt' = tryCnt
      BY <1>1, <2>2, <3>1 DEF PostFails, HttpPost, TypeOK
    <3>3. at[s] = "post" /\ tryCnt[s] <= numPublishRetries
      BY <2>2 DEF PostFails
    <3> QED
      BY <1>1, <1>2, <1>3, <1>4, <3>1, <3>2, <3>3
  <2>3. CASE Wake(s)
    <3>1. at[s] = "sleep" /\ at'[s] = "post" /\ tryCnt'[s] = tryCnt[s] + 1 /\ posts' = posts
      BY <2>3 DEF Wake, TypeOK
    <3> QED
      BY <1>1, <1>2, <1>3, <1>4, <3>1
  <2> QED
    BY <2>1, <2>2, <2>3 DEF SendPayload
<1>5. ASSUME NEW t \in Callers, t # s, at'[t] # "idle"
      PROVE  /\ rp[t] \in Payload /\ rp[t] # rp[s] /\ at[t] # "idle"
             /\ at'[t] = at[t] /\ tryCnt'[t] = tryCnt[t]
             /\ posts'[rp[t]] = posts[rp[t]] /\ result'[rp[t]] = result[rp[t]]
  <2>1. at[t] # "idle" /\ rp[t] \in Payload
    BY <1>1, <1>5 DEF Counting
  <2> QED
    BY <1>1, <1>5, <2>1, CallersDiffer
<1>6. ASSUME NEW t \in Callers, at'[t] # "idle"
      PROVE  /\ rp'[t] \in Payload /\ result'[rp'[t]] = "none"
             /\ at'[t] = "post" => /\ posts'[rp'[t]] = tryCnt'[t] - 1
                                   /\ tryCnt'[t] = 1 \/ tryCnt'[t] <= numPublishRetries'
             /\ at'[t] = "sleep" => /\ posts'[rp'[t]] = tryCnt'[t]
                                    /\ tryCnt'[t] < numPublishRetries'
  <2>1. CASE t = s
    BY <1>1, <1>4, <1>6, <2>1
  <2>2. CASE t # s
    BY <1>1, <1>5, <1>6, <2>2 DEF Counting
  <2> QED
    BY <2>1, <2>2
<1> QED
  BY <1>6 DEF Counting

LEMMA CountingStep ==
    ASSUME TypeOK, Window, Counting, Places, [Next]_vars
    PROVE  Counting'
<1>1. CASE PushSnapshotImageStatus
  <2>1. NextReport(Main) \in Payload /\ Untouched(NextReport(Main))
    BY <1>1, NextReportIsNew, ReporterAssumption DEF PushSnapshotImageStatus, Places
  <2> QED
    BY <1>1, <2>1, CountingAfterBegin, CallersAreTwo DEF PushSnapshotImageStatus
<1>2. CASE Receive
  <2>1. Len(queue) > 0 /\ queue[1] \in Payload /\ Head(queue) = queue[1]
    BY <1>2, ReceiveTakesHead DEF TypeOK
  <2>2. queue[1] = accepted[Taken + 1] /\ Taken + 1 \in (Taken + 1)..Len(accepted)
    BY <2>1, Positions, SequencesOfPayloads DEF Window, Taken
  <2>3. Untouched(Head(queue))
    BY <2>1, <2>2 DEF Places
  <2> QED
    BY <1>2, <2>1, <2>3, CountingAfterBegin, CallersAreTwo DEF Receive
<1>3. CASE (\E g \in Goroutines : Send(g) \/ SendOnClosed(g)) \/ RangeEnds \/ CloseChannel
             \/ ShutdownSignal \/ UNCHANGED vars
  <2>1. UNCHANGED <<at, rp, tryCnt, posts, result, numPublishRetries>>
    BY <1>3 DEF Send, SendOnClosed, RangeEnds, CloseChannel, ShutdownSignal, vars, sendVars
  <2> QED
    BY <2>1 DEF Counting
<1> QED
  BY <1>1, <1>2, <1>3, CountingAfterSendPayload DEF Next, Terminated

LEMMA JustifiedStep ==
    ASSUME TypeOK, Window, Counting, Places, ResultIsJustified, [Next]_vars
    PROVE  ResultIsJustified'
<1>1. ASSUME NEW s \in Callers, SendPayload(s), NEW p \in Payload
      PROVE  /\ posts'[p] <= numPublishRetries
             /\ result'[p] = "error" => posts'[p] = numPublishRetries
             /\ result'[p] = "nil" /\ numPublishRetries > 0 =>
                    \E t \in Callers : \E i \in DOMAIN server'[t] : server'[t][i] = p
  <2>1. /\ at[s] # "idle" /\ rp[s] \in Payload
        /\ p # rp[s] => posts'[p] = posts[p] /\ result'[p] = result[p]
    BY <1>1, SendPayloadIsLocal
  <2>2. /\ at[s] = "post" => /\ posts[rp[s]] = tryCnt[s] - 1
                             /\ tryCnt[s] = 1 \/ tryCnt[s] <= numPublishRetries
        /\ result[rp[s]] = "none"
    BY <2>1 DEF Counting
  <2>3. numPublishRetries \in Nat /\ tryCnt[s] \in Nat \ {0} /\ posts[rp[s]] \in Nat
    BY <2>1, ReporterAssumption DEF TypeOK
  <2>4. \A t \in Callers : \A i \in DOMAIN server[t] :
            i \in DOMAIN server'[t] /\ server'[t][i] = server[t][i]
    <3>1. CASE UNCHANGED server
      BY <3>1
    <3>2. CASE server' = [server EXCEPT ![s] = Append(@, rp[s])]
      <4>1. server[s] \in Seq(Payload)
        BY DEF TypeOK
      <4>2. /\ Len(Append(server[s], rp[s])) = Len(server[s]) + 1
            /\ Append(server[s], rp[s]) \in Seq(Payload)
            /\ \A i \in 1..Len(server[s]) : Append(server[s], rp[s])[i] = server[s][i]
            /\ DOMAIN server[s] = 1..Len(server[s]) /\ Len(server[s]) \in Nat
        BY <2>1, <4>1, AppendProperties, LenProperties
      <4>3. DOMAIN Append(server[s], rp[s]) = 1..(Len(server[s]) + 1)
        BY <4>2, LenProperties
      <4>4. \A i \in DOMAIN server[s] : i \in DOMAIN Append(server[s], rp[s])
                                        /\ Append(server[s], rp[s])[i] = server[s][i]
        BY <4>2, <4>3
      <4>5. server'[s] = Append(server[s], rp[s])
            /\ \A t \in Callers : t # s => server'[t] = server[t]
        BY <3>2 DEF TypeOK
      <4> QED
        BY <4>4, <4>5
    <3> QED
      BY <1>1, <3>1, <3>2 DEF SendPayload, PostSucceeds, PostFails, Wake, NoTries, HttpPost
  <2>5. CASE p # rp[s]
    BY <2>1, <2>3, <2>4, <2>5 DEF ResultIsJustified
  <2>6. CASE p = rp[s]
    <3>1. CASE PostSucceeds(s)
      <4>1. /\ at[s] = "post" /\ tryCnt[s] <= numPublishRetries
            /\ posts'[rp[s]] = posts[rp[s]] + 1 /\ result'[rp[s]] = "nil"
            /\ server'[s] = Append(server[s], rp[s])
        BY <2>1, <3>1 DEF PostSucceeds, HttpPost, Return, TypeOK
      <4>2. server[s] \in Seq(Payload)
        BY DEF TypeOK
      <4>3. server'[s] \in Seq(Payload) /\ Len(server'[s]) = Len(server[s]) + 1
            /\ server'[s][Len(server[s]) + 1] = rp[s] /\ Len(server[s]) \in Nat
        BY <2>1, <4>1, <4>2, AppendProperties, LenProperties
      <4>4. Len(server[s]) + 1 \in DOMAIN server'[s]
        BY <4>3, LenProperties
      <4>5. posts'[p] <= numPublishRetries
        BY <2>2, <2>3, <2>6, <4>1
      <4> QED
        BY <2>6, <4>1, <4>3, <4>4, <4>5
    <3>2. CASE PostFails(s)
      <4>1. /\ at[s] = "post" /\ tryCnt[s] <= numPublishRetries
            /\ posts'[rp[s]] = posts[rp[s]] + 1
        BY <2>1, <3>2 DEF PostFails, HttpPost, TypeOK
      <4>2. posts'[p] = tryCnt[s]
        BY <2>2, <2>3, <2>6, <4>1
      <4>3. \/ tryCnt[s] = numPublishRetries /\ result'[rp[s]] = "error"
            \/ result'[rp[s]] = "none"
        BY <2>1, <2>2, <3>2 DEF PostFails, Return, TypeOK
      <4> QED
        BY <2>3, <2>6, <4>1, <4>2, <4>3
    <3>3. CASE Wake(s)
      BY <2>6, <3>3 DEF Wake, ResultIsJustified
    <3>4. CASE NoTries(s)
      <4>1. at[s] = "post" /\ tryCnt[s] > numPublishRetries /\ posts' = posts
            /\ result'[rp[s]] = "nil"
        BY <2>1, <3>4 DEF NoTries, Return, TypeOK
      <4>2. numPublishRetries = 0
        BY <2>2, <2>3, <4>1
      <4>3. posts'[p] <= numPublishRetries
        BY <2>6, <4>1 DEF ResultIsJustified
      <4> QED
        BY <2>6, <4>1, <4>2, <4>3
    <3> QED
      BY <1>1, <3>1, <3>2, <3>3, <3>4 DEF SendPayload
  <2> QED
    BY <2>5, <2>6
<1>2. CASE \E s \in Callers : SendPayload(s)
  <2>1. numPublishRetries' = numPublishRetries
    BY <1>2, SendPayloadIsLocal
  <2> QED
    BY <1>1, <1>2, <2>1 DEF ResultIsJustified
<1>3. CASE ~\E s \in Callers : SendPayload(s)
  <2>1. UNCHANGED <<server, posts, result, numPublishRetries>>
    BY <1>3 DEF Next, Send, SendOnClosed, PushSnapshotImageStatus, Receive, RangeEnds,
       CloseChannel, ShutdownSignal, Terminated, vars, sendVars
  <2> QED
    BY <2>1 DEF ResultIsJustified
<1> QED
  BY <1>2, <1>3

-----------------------------------------------------------------------------
(* The theorems. *)

LEMMA IInvInitially == Init => IInv
<1> SUFFICES ASSUME Init
             PROVE  IInv
  OBVIOUS
<1>1. TypeOK
  BY TypesInitially
<1>2. Len(queue) = 0 /\ Len(accepted) = 0 /\ ~Busy /\ at[Main] = "idle"
  BY <1>1, SequencesOfPayloads, CallersAreTwo DEF Init, Busy
<1>3. Taken = 0 /\ Retired = 0
  <2>1. Taken = 0
    BY <1>2 DEF Taken
  <2>2. Retired = Taken - 0
    BY <1>2 DEF Retired
  <2> QED
    BY <2>1, <2>2
<1>4. Window
  BY <1>2, <1>3 DEF Window
<1>5. Control
  BY DEF Init, Control
<1>6. \A p \in Payload : Untouched(p)
  BY DEF Init, Untouched
<1>7. Places
  BY <1>2, <1>3, <1>6 DEF Places
<1>8. Counting
  BY DEF Init, Counting
<1>9. ResultIsJustified
  BY ReporterAssumption DEF Init, ResultIsJustified
<1> QED
  BY <1>1, <1>4, <1>5, <1>7, <1>8, <1>9 DEF IInv

\* The inductive invariant of the default reporter.
THEOREM ReporterInvariant == Spec => []IInv
<1>1. IInv /\ [Next]_vars => IInv'
  BY TypesStep, WindowStep, ControlStep, PlacesStep, CountingStep, JustifiedStep DEF IInv
<1> QED
  BY <1>1, IInvInitially, PTL DEF Spec

\* An error is returned only after exactly numPublishRetries posts, and nil only
\* for a payload that the server has applied, if any try is allowed at all.
THEOREM ResultsAreJustified == Spec => []ResultIsJustified
<1>1. IInv => ResultIsJustified
  BY DEF IInv
<1> QED
  BY <1>1, ReporterInvariant, PTL

\* When Shutdown has returned, every report accepted before it was settled by
\* SendPayload, the buffer is empty and the transport is through.
THEOREM ShutdownHasDrained == Spec => []ShutdownDrains
<1>1. IInv => ShutdownDrains
  <2> SUFFICES ASSUME IInv, main = "down"
               PROVE  /\ \A i \in DOMAIN accepted : result[accepted[i]] # "none"
                      /\ queue = <<>> /\ loop = "done"
    BY DEF ShutdownDrains
  <2>1. queue = <<>> /\ loop = "done" /\ ~Busy
    BY DEF IInv, Control
  <2>2. Retired = Len(accepted) /\ DOMAIN accepted = 1..Len(accepted)
    BY <2>1, Positions, SequencesOfPayloads, LenProperties DEF IInv, Taken, TypeOK
  <2> QED
    BY <2>1, <2>2 DEF IInv, Places
<1> QED
  BY <1>1, ReporterInvariant, PTL

-----------------------------------------------------------------------------
(* The reporter implements the abstract queue. *)

LEMMA RetiredStays ==
    ASSUME UNCHANGED <<queue, accepted>>, at'["transport"] = at["transport"]
    PROVE  Retired' = Retired
BY DEF Retired, Taken, Busy

\* A call of the transport applies, retires, or does both.
LEMMA TransportImplements ==
    ASSUME TypeOK, Window, Counting, SendPayload("transport")
    PROVE  [Abstract!QNext]_(Abstract!qvars)
<1>1. /\ UNCHANGED <<queue, accepted, open, loop>>
      /\ at["transport"] # "idle" /\ rp["transport"] \in Payload
  BY SendPayloadIsLocal, CallersAreTwo DEF chanVars, ctlVars
<1>2. /\ Len(accepted) \in Nat /\ Taken \in 1..Len(accepted) /\ Retired = Taken - 1
      /\ rp["transport"] = accepted[Taken]
  BY <1>1, Positions DEF Busy
<1>3. Retired < Len(accepted) /\ accepted[Retired + 1] = rp["transport"]
  BY <1>2
<1>4. at'["transport"] # "idle" => Retired' = Retired
  BY <1>1 DEF Retired, Taken, Busy
<1>5. at'["transport"] = "idle" => Retired' = Retired + 1
  <2> SUFFICES ASSUME at'["transport"] = "idle"
               PROVE  Retired' = Retired + 1
    OBVIOUS
  <2>1. Taken' = Taken /\ ~Busy'
    BY <1>1 DEF Taken, Busy
  <2>2. Retired' = Taken
    BY <2>1, <1>2 DEF Retired
  <2> QED
    BY <1>2, <2>2
<1>6. \/ server' = server
      \/ server'["transport"] = Append(server["transport"], rp["transport"])
  BY CallersAreTwo
     DEF SendPayload, PostSucceeds, PostFails, Wake, NoTries, HttpPost, TypeOK
<1>7. CASE server' = server /\ at'["transport"] # "idle"
  BY <1>1, <1>4, <1>7 DEF Abstract!qvars
<1>8. CASE server' = server /\ at'["transport"] = "idle"
  <2>1. Abstract!Retire
    BY <1>1, <1>3, <1>5, <1>8 DEF Abstract!Retire
  <2> QED
    BY <2>1 DEF Abstract!QNext
<1>9. CASE server'["transport"] = Append(server["transport"], rp["transport"])
             /\ at'["transport"] # "idle"
  <2>1. Abstract!Apply
    BY <1>1, <1>3, <1>4, <1>9 DEF Abstract!Apply
  <2> QED
    BY <2>1 DEF Abstract!QNext
<1>10. CASE server'["transport"] = Append(server["transport"], rp["transport"])
              /\ at'["transport"] = "idle"
  <2>1. Abstract!ApplyAndRetire
    BY <1>1, <1>3, <1>5, <1>10 DEF Abstract!ApplyAndRetire
  <2> QED
    BY <2>1 DEF Abstract!QNext
<1> QED
  BY <1>6, <1>7, <1>8, <1>9, <1>10

\* Every step of the reporter is a step of the abstract queue or leaves it alone.
LEMMA ReporterRefinementStep ==
    ASSUME IInv, [Next]_vars
    PROVE  [Abstract!QNext]_(Abstract!qvars)
<1>0. /\ TypeOK /\ Window /\ Control /\ Counting
      /\ Len(accepted) \in Nat /\ Len(queue) \in Nat
      /\ queue = <<>> <=> Len(queue) = 0
  BY SequencesOfPayloads DEF IInv
<1>1. ASSUME NEW g \in Goroutines, Send(g)
      PROVE  [Abstract!QNext]_(Abstract!qvars)
  <2>1. /\ NextReport(g) \in Payload /\ open /\ UNCHANGED <<open, at, server, loop>>
        /\ accepted' = Append(accepted, NextReport(g))
        /\ Len(accepted') = Len(accepted) + 1 /\ Len(queue') = Len(queue) + 1
    BY <1>0, <1>1, SendAppends DEF Send, sendVars, ctlVars
  <2>2. Taken' = Taken /\ Retired' = Retired
    BY <1>0, <2>1 DEF Taken, Retired, Busy
  <2>3. Len(accepted) - Retired <= MaxPending
    <3>1. Len(accepted) - Retired = Len(queue) + (IF Busy THEN 1 ELSE 0)
      BY <1>0 DEF Retired, Taken
    <3>2. CASE Len(queue) < MaxPending
      BY <1>0, <3>1, <3>2, ReporterAssumption
    <3>3. CASE queue = <<>> /\ ~Busy
      BY <1>0, <3>1, <3>3, ReporterAssumption
    <3> QED
      BY <1>1, <3>2, <3>3 DEF Send, Room, Busy
  <2>4. Abstract!Accept(NextReport(g))
    BY <2>1, <2>2, <2>3 DEF Abstract!Accept, Abstract!Outstanding
  <2> QED
    BY <2>1, <2>4 DEF Abstract!QNext
<1>2. ASSUME NEW s \in Callers, SendPayload(s)
      PROVE  [Abstract!QNext]_(Abstract!qvars)
  <2>1. CASE s = "transport"
    BY <1>0, <1>2, <2>1, TransportImplements
  <2>2. CASE s = Main
    <3>1. /\ UNCHANGED <<queue, accepted, open, loop>>
          /\ at'["transport"] = at["transport"]
      BY <1>0, <1>2, <2>2, SendPayloadIsLocal, CallersAreTwo DEF chanVars, ctlVars
    <3>2. server'["transport"] = server["transport"]
      BY <1>0, <1>2, <2>2, CallersAreTwo
         DEF SendPayload, PostSucceeds, PostFails, Wake, NoTries, HttpPost, TypeOK
    <3> QED
      BY <3>1, <3>2, RetiredStays DEF Abstract!qvars
  <2> QED
    BY <2>1, <2>2, CallersAreTwo
<1>3. CASE Receive
  <2>1. /\ UNCHANGED <<accepted, open, server, loop>> /\ ~Busy /\ Busy'
        /\ Len(queue') = Len(queue) - 1
    BY <1>0, <1>3, ReceiveTakesHead, CallersAreTwo
       DEF Receive, Begin, Busy, ctlVars, TypeOK
  <2>2. Retired' = Retired
    BY <1>0, <2>1 DEF Retired, Taken
  <2> QED
    BY <2>1, <2>2 DEF Abstract!qvars
<1>4. CASE CloseChannel
  <2>1. open /\ ~open' /\ UNCHANGED <<accepted, queue, at, server, loop>>
    BY <1>0, <1>4 DEF CloseChannel, Control, sendVars
  <2>2. Abstract!Close
    BY <1>4, <2>1, RetiredStays DEF Abstract!Close, CloseChannel
  <2> QED
    BY <2>2 DEF Abstract!QNext
<1>5. CASE ShutdownSignal
  <2>1. /\ loop = "signal" /\ loop' = "done" /\ ~open
        /\ UNCHANGED <<accepted, queue, at, open, server>>
    BY <1>0, <1>5 DEF ShutdownSignal, Control, chanVars, sendVars
  <2>2. Retired = Len(accepted)
    BY <1>0, <2>1 DEF Control, Retired, Taken
  <2>3. Abstract!Stop
    BY <2>1, <2>2, RetiredStays DEF Abstract!Stop
  <2> QED
    BY <2>3 DEF Abstract!QNext
<1>6. CASE RangeEnds
  <2>1. loop = "range" /\ loop' = "signal" /\ UNCHANGED <<accepted, queue, at, open, server>>
    BY <1>6 DEF RangeEnds, chanVars, sendVars
  <2> QED
    BY <2>1, RetiredStays DEF Abstract!qvars
<1>7. CASE PushSnapshotImageStatus
  <2>1. /\ UNCHANGED <<accepted, queue, open, server, loop>>
        /\ at'["transport"] = at["transport"]
    BY <1>0, <1>7, CallersAreTwo DEF PushSnapshotImageStatus, Begin, ctlVars, TypeOK
  <2> QED
    BY <2>1, RetiredStays DEF Abstract!qvars
<1>8. CASE (\E g \in Goroutines : SendOnClosed(g)) \/ UNCHANGED vars
  <2>1. UNCHANGED <<accepted, queue, at, open, server, loop>>
    BY <1>8 DEF SendOnClosed, vars, chanVars, sendVars, ctlVars
  <2> QED
    BY <2>1, RetiredStays DEF Abstract!qvars
<1> QED
  BY <1>1, <1>2, <1>3, <1>4, <1>5, <1>6, <1>7, <1>8 DEF Next, Terminated

\* The channel, the transport goroutine and Shutdown implement the abstract
\* report queue: order, the bound on what is outstanding, nothing accepted after
\* Close and a drained stop, for any capacity and number of tries.
THEOREM ReporterImplementsQueue == Spec => ImplementsReportQueue
<1>1. Init => Abstract!QInit
  <2> SUFFICES ASSUME Init
               PROVE  Abstract!QInit
    OBVIOUS
  <2>1. Len(queue) = 0 /\ Len(accepted) = 0 /\ ~Busy
    BY TypesInitially, SequencesOfPayloads, CallersAreTwo DEF Init, Busy
  <2>2. Retired = 0
    BY <2>1, IInvInitially, Positions DEF IInv, Taken
  <2>3. server["transport"] = <<>>
    BY CallersAreTwo DEF Init
  <2> QED
    BY <2>2, <2>3 DEF Init, Abstract!QInit
<1>2. IInv /\ [Next]_vars => [Abstract!QNext]_(Abstract!qvars)
  BY ReporterRefinementStep
<1> QED
  BY <1>1, <1>2, ReporterInvariant, PTL DEF Spec, ImplementsReportQueue, Abstract!QSpec

-----------------------------------------------------------------------------
(* What holds of the report queue, here with what the reporter maps to its *)
(* variables, and so of the reporter.                                       *)

\* Types of the abstract queue, for every payload set and capacity.
THEOREM QTypeCorrect == Abstract!QSpec => []Abstract!QTypeOK
<1>1. Abstract!QInit => Abstract!QTypeOK
  <2> SUFFICES ASSUME Abstract!QInit
               PROVE  Abstract!QTypeOK
    OBVIOUS
  <2>1. accepted \in Seq(Payload) /\ server["transport"] \in Seq(Payload) /\ Len(accepted) = 0
    BY EmptySeq DEF Abstract!QInit
  <2>2. Retired \in 0..Len(accepted)
    BY <2>1 DEF Abstract!QInit
  <2>3. (~open) \in BOOLEAN /\ (loop = "done") \in BOOLEAN
    BY DEF Abstract!QInit
  <2> QED
    BY <2>1, <2>2, <2>3 DEF Abstract!QTypeOK
<1>2. Abstract!QTypeOK /\ [Abstract!QNext]_(Abstract!qvars) => (Abstract!QTypeOK)'
  <2> SUFFICES ASSUME Abstract!QTypeOK, [Abstract!QNext]_(Abstract!qvars)
               PROVE  (Abstract!QTypeOK)'
    OBVIOUS
  <2> USE DEF Abstract!QTypeOK
  <2>1. ASSUME NEW p \in Payload, Abstract!Accept(p)
        PROVE  (Abstract!QTypeOK)'
    BY <2>1 DEF Abstract!Accept
  <2>2. CASE Abstract!Apply
    BY <2>2 DEF Abstract!Apply
  <2>3. CASE Abstract!Retire
    BY <2>3 DEF Abstract!Retire
  <2>4. CASE Abstract!ApplyAndRetire
    BY <2>4 DEF Abstract!ApplyAndRetire
  <2>5. CASE Abstract!Close
    BY <2>5 DEF Abstract!Close
  <2>6. CASE Abstract!Stop
    BY <2>6 DEF Abstract!Stop
  <2>7. CASE UNCHANGED Abstract!qvars
    BY <2>7 DEF Abstract!qvars
  <2> QED
    BY <2>1, <2>2, <2>3, <2>4, <2>5, <2>6, <2>7 DEF Abstract!QNext
<1> QED
  BY <1>1, <1>2, PTL DEF Abstract!QSpec

\* A queue stops only when it is closed and owes nothing, and stays so: what is
\* closed accepts nothing more.
THEOREM StoppedQueueIsDrained == Abstract!QSpec => []Abstract!StoppedMeansDrained
<1>1. Abstract!QInit => Abstract!StoppedMeansDrained
  BY DEF Abstract!QInit, Abstract!StoppedMeansDrained
<1>2. Abstract!QTypeOK /\ Abstract!StoppedMeansDrained /\ [Abstract!QNext]_(Abstract!qvars) => (Abstract!StoppedMeansDrained)'
  <2> SUFFICES ASSUME Abstract!QTypeOK, Abstract!StoppedMeansDrained, [Abstract!QNext]_(Abstract!qvars)
               PROVE  (Abstract!StoppedMeansDrained)'
    OBVIOUS
  <2> USE DEF Abstract!StoppedMeansDrained
  <2>1. ASSUME NEW p \in Payload, Abstract!Accept(p)
        PROVE  (Abstract!StoppedMeansDrained)'
    BY <2>1 DEF Abstract!Accept
  <2>2. CASE Abstract!Apply \/ Abstract!Close \/ Abstract!Stop \/ UNCHANGED Abstract!qvars
    BY <2>2 DEF Abstract!Apply, Abstract!Close, Abstract!Stop, Abstract!qvars
  <2>3. CASE Abstract!Retire \/ Abstract!ApplyAndRetire
    <3>1. loop # "done" /\ (loop' = "done" <=> loop = "done")
      BY <2>3 DEF Abstract!Retire, Abstract!ApplyAndRetire, Abstract!QTypeOK
    <3> QED
      BY <3>1
  <2> QED
    BY <2>1, <2>2, <2>3 DEF Abstract!QNext
<1> QED
  BY <1>1, <1>2, QTypeCorrect, PTL DEF Abstract!QSpec

-----------------------------------------------------------------------------
\* Appending the payload whose turn it is keeps the server's log in order.
LEMMA ApplyKeepsOrder ==
    ASSUME Abstract!QTypeOK, Abstract!InOrder, Retired < Len(accepted),
           server'["transport"] = Append(server["transport"], accepted[Retired + 1]),
           accepted' = accepted, Retired' \in {Retired, Retired + 1}
    PROVE  (Abstract!InOrder)'
<1> SUFFICES ASSUME NEW i \in DOMAIN server'["transport"], NEW j \in DOMAIN server'["transport"], i <= j
             PROVE  \E k, l \in DOMAIN accepted' :
                       /\ k <= l /\ l <= Retired' + 1
                       /\ server'["transport"][i] = accepted'[k]
                       /\ server'["transport"][j] = accepted'[l]
  BY DEF Abstract!InOrder
<1> USE DEF Abstract!QTypeOK
<1>1. /\ Len(server'["transport"]) = Len(server["transport"]) + 1
      /\ \A n \in 1..Len(server["transport"]) : server'["transport"][n] = server["transport"][n]
      /\ server'["transport"][Len(server["transport"]) + 1] = accepted[Retired + 1]
      /\ Retired + 1 \in DOMAIN accepted
      /\ DOMAIN accepted = 1..Len(accepted) /\ DOMAIN server["transport"] = 1..Len(server["transport"])
      /\ DOMAIN server'["transport"] = 1..(Len(server["transport"]) + 1)
      /\ Len(server["transport"]) \in Nat /\ Retired \in Nat
  <2>1. Retired + 1 \in 1..Len(accepted) /\ DOMAIN accepted = 1..Len(accepted)
    BY LenProperties
  <2>2. accepted[Retired + 1] \in Payload
    BY <2>1, ElementOfSeq
  <2> QED
    BY <2>1, <2>2, AppendProperties, LenProperties
<1>2. CASE j \in DOMAIN server["transport"]
  <2>1. i \in DOMAIN server["transport"]
    BY <1>1, <1>2
  <2>2. PICK k, l \in DOMAIN accepted :
           /\ k <= l /\ l <= Retired + 1
           /\ server["transport"][i] = accepted[k] /\ server["transport"][j] = accepted[l]
    BY <1>2, <2>1 DEF Abstract!InOrder
  <2> QED
    BY <1>1, <1>2, <2>1, <2>2
<1>3. CASE j = Len(server["transport"]) + 1 /\ i \in DOMAIN server["transport"]
  <2>1. PICK k, l \in DOMAIN accepted :
           /\ k <= l /\ l <= Retired + 1
           /\ server["transport"][i] = accepted[k] /\ server["transport"][i] = accepted[l]
    <3>1. i <= i /\ i \in DOMAIN server["transport"]
      BY <1>1, <1>3
    <3> QED
      BY <3>1 DEF Abstract!InOrder
  <2> QED
    BY <1>1, <1>3, <2>1
<1>4. CASE j = Len(server["transport"]) + 1 /\ i = j
  BY <1>1, <1>4
<1> QED
  BY <1>1, <1>2, <1>3, <1>4

\* The server applies payloads in the order in which they were accepted, with
\* repetitions and omissions, for every capacity and any number of payloads.
THEOREM AppliedInOrder == Abstract!QSpec => []Abstract!InOrder
<1>1. Abstract!QInit => Abstract!InOrder
  BY DEF Abstract!QInit, Abstract!InOrder
<1>2. Abstract!QTypeOK /\ Abstract!InOrder /\ [Abstract!QNext]_(Abstract!qvars) => (Abstract!InOrder)'
  <2> SUFFICES ASSUME Abstract!QTypeOK, Abstract!InOrder, [Abstract!QNext]_(Abstract!qvars)
               PROVE  (Abstract!InOrder)'
    OBVIOUS
  <2>1. ASSUME NEW p \in Payload, Abstract!Accept(p)
        PROVE  (Abstract!InOrder)'
    <3>1. /\ server'["transport"] = server["transport"] /\ Retired' = Retired
          /\ DOMAIN accepted \subseteq DOMAIN accepted'
          /\ \A n \in DOMAIN accepted : accepted'[n] = accepted[n]
      BY <2>1 DEF Abstract!Accept, Abstract!QTypeOK
    <3> QED
      BY <3>1 DEF Abstract!InOrder
  <2>2. CASE Abstract!Apply
    BY <2>2, ApplyKeepsOrder DEF Abstract!Apply
  <2>3. CASE Abstract!Retire
    <3>1. /\ server'["transport"] = server["transport"] /\ accepted' = accepted
          /\ Retired' = Retired + 1 /\ Retired \in Nat
          /\ DOMAIN accepted = 1..Len(accepted)
      BY <2>3 DEF Abstract!Retire, Abstract!QTypeOK
    <3>2. \A l \in DOMAIN accepted : l <= Retired + 1 => l <= Retired' + 1
      BY <3>1
    <3> QED
      BY <3>1, <3>2 DEF Abstract!InOrder
  <2>4. CASE Abstract!ApplyAndRetire
    BY <2>4, ApplyKeepsOrder DEF Abstract!ApplyAndRetire
  <2>5. CASE Abstract!Close \/ Abstract!Stop \/ UNCHANGED Abstract!qvars
    BY <2>5 DEF Abstract!Close, Abstract!Stop, Abstract!qvars, Abstract!InOrder
  <2> QED
    BY <2>1, <2>2, <2>3, <2>4, <2>5 DEF Abstract!QNext
<1> QED
  BY <1>1, <1>2, QTypeCorrect, PTL DEF Abstract!QSpec

\* Whatever the transport has posted so far entered PublishChannel in that order,
\* and none before its turn.
THEOREM TransportKeepsOrder == Spec => []Abstract!InOrder
  BY ReporterImplementsQueue, AppliedInOrder DEF ImplementsReportQueue

\* When the transport has said that it is finished, the channel is closed and
\* nothing that it accepted is left.
THEOREM TransportStopsDrained == Spec => []Abstract!StoppedMeansDrained
  BY ReporterImplementsQueue, StoppedQueueIsDrained DEF ImplementsReportQueue

-----------------------------------------------------------------------------
(* The order of the reports, and what Shutdown waits for. *)

\* A goroutine's next report comes after all that it has made.
LEMMA OwnOrderStep ==
    ASSUME TypeOK, Places, OwnOrder, [Next]_vars
    PROVE  OwnOrder'
<1>1. CASE accepted' = accepted
  BY <1>1 DEF OwnOrder
<1>2. ASSUME NEW g \in Goroutines, Send(g)
      PROVE  OwnOrder'
  <2>1. /\ Len(accepted') = Len(accepted) + 1 /\ Len(accepted) \in Nat
        /\ \A i \in 1..Len(accepted) : accepted'[i] = accepted[i] /\ accepted[i] \in Payload
        /\ accepted'[Len(accepted) + 1] = NextReport(g)
    BY <1>2, SendAppends, SequencesOfPayloads
  <2>2. NextReport(g)[1] = g /\ NextReport(g)[2] = count[g] + 1 /\ count[g] \in Nat
    BY ReporterAssumption DEF NextReport, TypeOK
  <2>3. ASSUME NEW i \in 1..Len(accepted), accepted[i][1] = g
        PROVE  accepted[i][2] < count[g] + 1
    <3>1. accepted[i][2] \in Nat /\ accepted[i][2] <= count[g]
      BY <2>1, <2>3 DEF Places, Made, Payload
    <3> QED
      BY <2>2, <3>1
  <2>4. ASSUME NEW i \in 1..Len(accepted'), NEW j \in 1..Len(accepted'), i < j,
               accepted'[i][1] = accepted'[j][1]
        PROVE  accepted'[i][2] < accepted'[j][2]
    <3>1. i \in 1..Len(accepted) /\ (j \in 1..Len(accepted) \/ j = Len(accepted) + 1)
      BY <2>1, <2>4
    <3>2. CASE j \in 1..Len(accepted)
      BY <2>1, <2>4, <3>1, <3>2 DEF OwnOrder
    <3>3. CASE j = Len(accepted) + 1
      BY <2>1, <2>2, <2>3, <2>4, <3>1, <3>3
    <3> QED
      BY <3>1, <3>2, <3>3
  <2> QED
    BY <2>4 DEF OwnOrder
<1>3. CASE UNCHANGED vars \/ (\E g \in Goroutines : SendOnClosed(g)) \/ PushSnapshotImageStatus
           \/ (\E s \in Callers : SendPayload(s)) \/ Receive \/ RangeEnds \/ CloseChannel
           \/ ShutdownSignal \/ Terminated
  <2>1. accepted' = accepted
    BY <1>3 DEF vars, chanVars, SendOnClosed, PushSnapshotImageStatus, SendPayload, PostSucceeds,
                PostFails, Wake, NoTries, Receive, RangeEnds, CloseChannel, ShutdownSignal,
                Terminated
  <2> QED
    BY <1>1, <2>1
<1> QED
  BY <1>2, <1>3 DEF Next

\* The reports of one goroutine are accepted in order, whatever the others do.
LEMMA OwnOrderHolds == Spec => []OwnOrder
<1>1. Init => OwnOrder
  <2> SUFFICES ASSUME Init PROVE OwnOrder
    OBVIOUS
  <2>1. Len(accepted) = 0
    BY TypesInitially, SequencesOfPayloads DEF Init
  <2> QED
    BY <2>1 DEF OwnOrder
<1>2. IInv /\ OwnOrder /\ [Next]_vars => OwnOrder'
  BY OwnOrderStep DEF IInv
<1> QED
  BY <1>1, <1>2, ReporterInvariant, PTL DEF Spec

\* The transport posts the reports of PublishChannel in the order of the channel,
\* and those of one goroutine in the order in which it made them, however often
\* SendPayload repeats a post and however many reports it gives up.
THEOREM ServerSeesOrder == Spec => []PostsFollowReports
<1> DEFINE log == server["transport"]
<1>1. ASSUME IInv, OwnOrder, Abstract!InOrder, NEW i \in DOMAIN log, NEW j \in DOMAIN log, i <= j
      PROVE  /\ \A k, l \in DOMAIN accepted : log[i] = accepted[k] /\ log[j] = accepted[l] => k <= l
             /\ log[i][1] = log[j][1] => log[i][2] <= log[j][2]
  <2>1. /\ DOMAIN accepted = 1..Len(accepted) /\ Len(accepted) \in Nat
        /\ \A k \in 1..Len(accepted) : accepted[k] \in Payload
    BY <1>1, SequencesOfPayloads DEF IInv, TypeOK
  <2>2. PICK k \in DOMAIN accepted, l \in DOMAIN accepted :
           k <= l /\ log[i] = accepted[k] /\ log[j] = accepted[l]
    BY <1>1 DEF Abstract!InOrder
  <2>3. \A m, n \in 1..Len(accepted) : accepted[m] = accepted[n] => m = n
    BY <1>1 DEF IInv, Places
  <2>4. ASSUME NEW m \in DOMAIN accepted, NEW n \in DOMAIN accepted,
               log[i] = accepted[m], log[j] = accepted[n]
        PROVE  m <= n
    <3>1. m = k /\ n = l
      BY <2>1, <2>2, <2>3, <2>4
    <3> QED
      BY <2>2, <3>1
  <2>5. log[i][1] = log[j][1] => log[i][2] <= log[j][2]
    <3>1. CASE k = l
      <4>1. log[i][2] = log[j][2] /\ accepted[k][2] \in Nat
        BY <2>1, <2>2, <3>1 DEF Payload
      <4> QED
        BY <2>2, <4>1
    <3>2. CASE k < l
      <4>1. accepted[k][1] = accepted[l][1] => accepted[k][2] < accepted[l][2]
        BY <1>1, <2>1, <3>2 DEF OwnOrder
      <4>2. accepted[k][2] \in Nat /\ accepted[l][2] \in Nat
        BY <2>1 DEF Payload
      <4> QED
        BY <2>2, <4>1, <4>2
    <3> QED
      BY <2>1, <2>2, <3>1, <3>2
  <2> QED
    BY <2>4, <2>5
<1>2. IInv /\ OwnOrder /\ Abstract!InOrder => PostsFollowReports
  BY <1>1 DEF PostsFollowReports
<1> QED
  BY <1>2, ReporterInvariant, OwnOrderHolds, TransportKeepsOrder, PTL

\* Once Shutdown has begun, Main sends nothing more.
LEMMA ClosingHolds == Spec => []Closing
<1>1. Init => Closing
  BY DEF Init, Closing
<1>2. IInv /\ Closing /\ [Next]_vars => Closing'
  <2> SUFFICES ASSUME IInv, Closing, [Next]_vars PROVE Closing'
    OBVIOUS
  <2>1. CASE CloseChannel
    BY <2>1 DEF CloseChannel, Closing, sendVars
  <2>2. ASSUME NEW s \in Callers, SendPayload(s) PROVE Closing'
    <3>1. /\ UNCHANGED <<open, main>> /\ at[s] # "idle"
          /\ \A t \in Callers : t # s => at'[t] = at[t]
      BY <2>2, SendPayloadIsLocal DEF IInv, chanVars, ctlVars
    <3> QED
      BY <3>1, CallersAreTwo DEF Closing
  <2>3. CASE Receive
    BY <2>3, CallersAreTwo DEF Receive, Begin, Closing, IInv, TypeOK, ctlVars
  <2>4. CASE PushSnapshotImageStatus
    BY <2>4, CallersAreTwo DEF PushSnapshotImageStatus, MayReport, Closing, ctlVars
  <2>5. CASE (\E g \in Goroutines : Send(g) \/ SendOnClosed(g)) \/ UNCHANGED vars
             \/ RangeEnds \/ Terminated
    BY <2>5 DEF Send, SendOnClosed, RangeEnds, Terminated, Closing, vars, chanVars, sendVars, ctlVars
  <2>6. CASE ShutdownSignal
    <3>1. UNCHANGED <<open, at>> /\ main = "draining"
      BY <2>6 DEF ShutdownSignal, chanVars, sendVars
    <3> QED
      BY <3>1 DEF Closing
  <2> QED
    BY <2>1, <2>2, <2>3, <2>4, <2>5, <2>6 DEF Next
<1> QED
  BY <1>1, <1>2, ReporterInvariant, PTL DEF Spec

\* What is left of a call of SendPayload is a bounded number of steps.
LEMMA StepsAreSteps ==
    ASSUME TypeOK, Counting, NEW s \in Callers
    PROVE  StepsOf(s) \in 0..(2 * numPublishRetries + 1)
<1>1. numPublishRetries \in Nat /\ tryCnt[s] \in Nat \ {0} /\ at[s] \in {"idle", "post", "sleep"}
  BY ReporterAssumption DEF TypeOK
<1>2. CASE at[s] = "idle"
  BY <1>1, <1>2 DEF StepsOf
<1>3. CASE at[s] = "post"
  <2>1. tryCnt[s] <= numPublishRetries + 1
    BY <1>1, <1>3 DEF Counting
  <2> QED
    BY <1>1, <1>3, <2>1 DEF StepsOf
<1>4. CASE at[s] = "sleep"
  <2>1. tryCnt[s] < numPublishRetries
    BY <1>4 DEF Counting
  <2> QED
    BY <1>1, <1>4, <2>1 DEF StepsOf
<1> QED
  BY <1>1, <1>2, <1>3, <1>4

\* A turn of its loop, or its end, is one of them.
LEMMA SendPayloadSteps ==
    ASSUME TypeOK, Counting, NEW s \in Callers, SendPayload(s)
    PROVE  StepsOf(s)' < StepsOf(s)
<1>1. /\ numPublishRetries \in Nat /\ tryCnt[s] \in Nat \ {0} /\ numPublishRetries' = numPublishRetries
      /\ at \in [Callers -> {"idle", "post", "sleep"}] /\ tryCnt \in [Callers -> Nat \ {0}]
  BY ReporterAssumption DEF TypeOK, SendPayload, PostSucceeds, PostFails, Wake, NoTries
<1>2. at[s] = "post" => tryCnt[s] <= numPublishRetries + 1
  BY <1>1 DEF Counting
<1>3. CASE at[s] = "post" /\ at'[s] = "idle"
  BY <1>1, <1>2, <1>3 DEF StepsOf
<1>4. CASE at[s] = "post" /\ at'[s] = "sleep" /\ tryCnt' = tryCnt
  BY <1>1, <1>2, <1>4 DEF StepsOf
<1>5. CASE at[s] = "sleep" /\ at'[s] = "post" /\ tryCnt'[s] = tryCnt[s] + 1
  BY <1>1, <1>5 DEF StepsOf
<1>6. \/ at[s] = "post" /\ at'[s] = "idle"
      \/ at[s] = "post" /\ at'[s] = "sleep" /\ tryCnt' = tryCnt
      \/ at[s] = "sleep" /\ at'[s] = "post" /\ tryCnt'[s] = tryCnt[s] + 1
  BY <1>1 DEF SendPayload, PostSucceeds, PostFails, Wake, NoTries, Return
<1> QED
  BY <1>3, <1>4, <1>5, <1>6

\* After Shutdown has closed the channel, every step of any goroutine brings its
\* return nearer, unless it is a report to the closed channel, which ends the
\* process: Shutdown waits for a bounded number of steps, whatever the server
\* does and whatever the capacity and the number of tries.
THEOREM ShutdownIsBounded == Spec => [](Owed \in Nat) /\ ShutdownNears
<1> DEFINE R == numPublishRetries
           LoopSteps == IF loop = "range" THEN 2 ELSE IF loop = "signal" THEN 1 ELSE 0
<1>1. ASSUME IInv, Closing, [Next]_vars, main = "draining", ~(UNCHANGED vars)
      PROVE  Owed' < Owed \/ panicked'
  <2>1. /\ TypeOK /\ Counting /\ Control /\ Len(queue) \in Nat /\ R \in Nat
        /\ ~open /\ at[Main] = "idle"
    BY <1>1, SequencesOfPayloads, ReporterAssumption DEF IInv, TypeOK, Closing
  <2>2. StepsOf("transport") \in Nat /\ LoopSteps \in Nat
    BY <2>1, StepsAreSteps, CallersAreTwo
  <2>3. Owed = (2 * R + 2) * Len(queue) + StepsOf("transport") + LoopSteps
    BY DEF Owed
  <2>4. (Owed)' = (2 * R' + 2) * Len(queue') + StepsOf("transport")' + LoopSteps'
    BY DEF Owed
  <2> DEFINE N == (2 * R + 2) * Len(queue)
  <2>5. N \in Nat
    BY <2>1
  <2>6. CASE SendPayload("transport")
    <3>1. R' = R /\ queue' = queue /\ LoopSteps' = LoopSteps
      BY <2>6 DEF SendPayload, PostSucceeds, PostFails, Wake, NoTries, chanVars, ctlVars
    <3>2. StepsOf("transport")' < StepsOf("transport")
      BY <2>1, <2>6, CallersAreTwo, SendPayloadSteps
    <3>3. StepsOf("transport")' \in Int
      <4>1. TypeOK'
        BY <1>1, <2>1, TypesStep
      <4>2. numPublishRetries' \in Nat /\ tryCnt'["transport"] \in Nat
        BY <4>1, CallersAreTwo, ReporterAssumption DEF TypeOK
      <4> QED
        BY <4>2 DEF StepsOf
    <3>4. (Owed)' = N + StepsOf("transport")' + LoopSteps
      BY <2>4, <3>1
    <3> QED
      BY <2>2, <2>3, <2>5, <3>2, <3>3, <3>4
  <2>7. CASE Receive
    <3>1. /\ R' = R /\ LoopSteps' = LoopSteps /\ Len(queue') = Len(queue) - 1
          /\ StepsOf("transport") = 0
      BY <2>1, <2>7, ReceiveTakesHead DEF Receive, StepsOf, ctlVars
    <3>2. StepsOf("transport")' = 2 * R + 1
      <4>1. at'["transport"] = "post" /\ tryCnt'["transport"] = 1
        BY <2>1, <2>7, CallersAreTwo DEF Receive, Begin, TypeOK
      <4> QED
        BY <2>1, <3>1, <4>1 DEF StepsOf
    <3>3. (2 * R + 2) * (Len(queue) - 1) = N - (2 * R + 2)
      BY <2>1
    <3> HIDE DEF N
    <3>4. (Owed)' = N - (2 * R + 2) + (2 * R + 1) + LoopSteps
      BY <2>4, <3>1, <3>2, <3>3
    <3> QED
      BY <2>1, <2>2, <2>3, <2>5, <3>1, <3>4 DEF N
  <2>8. CASE RangeEnds \/ ShutdownSignal
    <3>1. R' = R /\ queue' = queue /\ at' = at /\ tryCnt' = tryCnt /\ LoopSteps' < LoopSteps
      BY <2>8 DEF RangeEnds, ShutdownSignal, chanVars, sendVars
    <3>2. StepsOf("transport")' = StepsOf("transport")
      BY <3>1 DEF StepsOf
    <3>3. (Owed)' = N + StepsOf("transport") + LoopSteps'
      BY <2>4, <3>1, <3>2
    <3> QED
      BY <2>2, <2>3, <2>5, <3>1, <3>3
  <2>9. CASE \E g \in Goroutines : SendOnClosed(g)
    BY <2>9 DEF SendOnClosed
  <2>10. ~(\E g \in Goroutines : Send(g)) /\ ~PushSnapshotImageStatus /\ ~CloseChannel /\ ~Terminated
    BY <1>1, <2>1 DEF Send, PushSnapshotImageStatus, MayReport, CloseChannel, Terminated
  <2>11. ~SendPayload(Main)
    BY <2>1 DEF SendPayload, PostSucceeds, PostFails, Wake, NoTries
  <2> QED
    BY <1>1, <2>6, <2>7, <2>8, <2>9, <2>10, <2>11, CallersAreTwo DEF Next
<1>2. IInv /\ Closing /\ [Next]_vars => [main = "draining" => Owed' < Owed \/ panicked']_vars
  BY <1>1
<1>3. IInv => Owed \in Nat
  <2> SUFFICES ASSUME IInv PROVE Owed \in Nat
    OBVIOUS
  <2>1. Len(queue) \in Nat /\ R \in Nat /\ LoopSteps \in Nat
    BY SequencesOfPayloads, ReporterAssumption DEF IInv, TypeOK
  <2>2. StepsOf("transport") \in Nat
    BY <2>1, StepsAreSteps, CallersAreTwo DEF IInv
  <2>3. (2 * R + 2) * Len(queue) \in Nat
    BY <2>1
  <2> QED
    BY <2>1, <2>2, <2>3 DEF Owed
<1> QED
  BY <1>2, <1>3, ReporterInvariant, ClosingHolds, PTL DEF Spec, ShutdownNears

=============================================================================
