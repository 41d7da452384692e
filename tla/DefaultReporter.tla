-------------------------- MODULE DefaultReporter --------------------------
(***************************************************************************)
(* client/reporter/defaultreporter.go: PublishChannel, the goroutine        *)
(* transportSend that drains it, SendPayload with its retries (called by    *)
(* that goroutine, and directly by the goroutine that pushes the snapshot   *)
(* status), and Shutdown.  The server and the network are external: a post  *)
(* may be applied and acknowledged, applied with its answer lost or not     *)
(* 2xx, or not applied at all.                                              *)
(***************************************************************************)
EXTENDS Naturals, Sequences, FiniteSets

CONSTANTS Goroutines,         \* goroutines that report
          Main,               \* the one that calls Shutdown
          MaxPending,         \* max_pending_reports
          PublishRetries,     \* values of num_publish_retries considered
          MaxReports          \* bound: reports made by each goroutine

ASSUME ReporterAssumption == /\ Main \in Goroutines
                             /\ "transport" \notin Goroutines
                             /\ MaxPending \in Nat
                             /\ PublishRetries \subseteq Nat
                             /\ MaxReports \in Nat

\* The n-th report of goroutine g.
Payload == Goroutines \X (1..MaxReports)

\* The goroutines that run SendPayload.
Callers == {"transport", Main}

VARIABLES numPublishRetries,  \* set by the flag before anything runs
          queue,     \* buffer of PublishChannel
          open,      \* PublishChannel is not closed
          count,     \* number of reports each goroutine has made
          at,        \* where each caller is in SendPayload
          rp,        \* the payload each caller is sending
          tryCnt,    \* its loop counter
          loop,      \* state of transportSend: "range", "signal" or "done"
          main,      \* state of Main: "up", "draining" or "down"
          panicked,  \* a send on a closed channel has ended the process
          \* history
          accepted,  \* payloads that entered PublishChannel, in order
          server,    \* what the server applied, per caller
          posts,     \* number of posts of each payload
          result     \* what SendPayload returned for each payload

chanVars == <<queue, open, count, accepted>>
sendVars == <<at, rp, tryCnt, server, posts, result>>
ctlVars == <<loop, main, panicked>>
vars == <<chanVars, sendVars, ctlVars, numPublishRetries>>

NoPayload == <<>>

Init == /\ numPublishRetries \in PublishRetries
        /\ queue = <<>>
        /\ open = TRUE
        /\ count = [g \in Goroutines |-> 0]
        /\ at = [s \in Callers |-> "idle"]
        /\ rp = [s \in Callers |-> NoPayload]
        /\ tryCnt = [s \in Callers |-> 1]
        /\ loop = "range"
        /\ main = "up"
        /\ panicked = FALSE
        /\ accepted = <<>>
        /\ server = [s \in Callers |-> <<>>]
        /\ posts = [p \in Payload |-> 0]
        /\ result = [p \in Payload |-> "none"]

\* A goroutine can report, and the payload it reports next.  Main reports
\* only while it is neither inside SendPayload nor shutting down.
MayReport(g) == /\ ~panicked
                /\ count[g] < MaxReports
                /\ g = Main => main = "up" /\ at[Main] = "idle"

NextReport(g) == <<g, count[g] + 1>>

\* Mutant: one report more than the buffer holds.
Room_OneMore == \/ Len(queue) <= MaxPending
                \/ queue = <<>> /\ loop = "range" /\ at["transport"] = "idle"

\* A send finds room in the buffer, or hands over to the waiting receiver.
Room == \/ Len(queue) < MaxPending
        \/ queue = <<>> /\ loop = "range" /\ at["transport"] = "idle"

\* PublishChannel <- payload
Send(g) ==
    /\ MayReport(g) /\ open /\ Room
    /\ queue' = Append(queue, NextReport(g))
    /\ accepted' = Append(accepted, NextReport(g))
    /\ count' = [count EXCEPT ![g] = @ + 1]
    /\ UNCHANGED <<open, sendVars, ctlVars, numPublishRetries>>

\* PublishChannel <- payload on a closed channel panics.
SendOnClosed(g) ==
    /\ MayReport(g) /\ ~open
    /\ panicked' = TRUE
    /\ UNCHANGED <<chanVars, sendVars, loop, main, numPublishRetries>>

-----------------------------------------------------------------------------
(* SendPayload *)

Begin(s, p) == /\ at' = [at EXCEPT ![s] = "post"]
               /\ rp' = [rp EXCEPT ![s] = p]
               /\ tryCnt' = [tryCnt EXCEPT ![s] = 1]

Return(s, r) == /\ at' = [at EXCEPT ![s] = "idle"]
                /\ result' = [result EXCEPT ![rp[s]] = r]
                /\ UNCHANGED <<rp, tryCnt>>

\* httpPost: the server applies the payload or not.
HttpPost(s, reached) ==
    /\ server' = IF reached THEN [server EXCEPT ![s] = Append(@, rp[s])] ELSE server
    /\ posts' = [posts EXCEPT ![rp[s]] = @ + 1]

\* PushSnapshotImageStatus posts from the goroutine of its caller.
PushSnapshotImageStatus ==
    /\ MayReport(Main)
    /\ Begin(Main, NextReport(Main))
    /\ count' = [count EXCEPT ![Main] = @ + 1]
    /\ UNCHANGED <<queue, open, accepted, server, posts, result, ctlVars, numPublishRetries>>

\* One turn of the retry loop that gets a 2xx answer.
PostSucceeds(s) ==
    /\ ~panicked /\ at[s] = "post" /\ tryCnt[s] <= numPublishRetries
    /\ HttpPost(s, TRUE)
    /\ Return(s, "nil")
    /\ UNCHANGED <<chanVars, ctlVars, numPublishRetries>>

\* Mutant: the last try is not made.
PostFails_GivesUpEarly(s) ==
    /\ ~panicked /\ at[s] = "post" /\ tryCnt[s] <= numPublishRetries
    /\ \E reached \in BOOLEAN : HttpPost(s, reached)
    /\ IF tryCnt[s] + 1 >= numPublishRetries
       THEN Return(s, "error")
       ELSE /\ at' = [at EXCEPT ![s] = "sleep"]
            /\ UNCHANGED <<rp, tryCnt, result>>
    /\ UNCHANGED <<chanVars, ctlVars, numPublishRetries>>

\* One turn that fails: the last one returns an error, others sleep first.
PostFails(s) ==
    /\ ~panicked /\ at[s] = "post" /\ tryCnt[s] <= numPublishRetries
    /\ \E reached \in BOOLEAN : HttpPost(s, reached)
    /\ IF tryCnt[s] = numPublishRetries
       THEN Return(s, "error")
       ELSE /\ at' = [at EXCEPT ![s] = "sleep"]
            /\ UNCHANGED <<rp, tryCnt, result>>
    /\ UNCHANGED <<chanVars, ctlVars, numPublishRetries>>

\* Mutant: the loop starts again after each pause.
Wake_StartsOver(s) ==
    /\ ~panicked /\ at[s] = "sleep"
    /\ at' = [at EXCEPT ![s] = "post"]
    /\ tryCnt' = [tryCnt EXCEPT ![s] = 1]
    /\ UNCHANGED <<chanVars, rp, server, posts, result, ctlVars, numPublishRetries>>

Wake(s) ==
    /\ ~panicked /\ at[s] = "sleep"
    /\ at' = [at EXCEPT ![s] = "post"]
    /\ tryCnt' = [tryCnt EXCEPT ![s] = @ + 1]
    /\ UNCHANGED <<chanVars, rp, server, posts, result, ctlVars, numPublishRetries>>

\* The loop condition is false from the start when no try is allowed.
NoTries(s) ==
    /\ ~panicked /\ at[s] = "post" /\ tryCnt[s] > numPublishRetries
    /\ Return(s, "nil")
    /\ UNCHANGED <<chanVars, server, posts, ctlVars, numPublishRetries>>

SendPayload(s) == PostSucceeds(s) \/ PostFails(s) \/ Wake(s) \/ NoTries(s)

-----------------------------------------------------------------------------
(* transportSend and Shutdown *)

\* for rp := range r.PublishChannel
Receive ==
    /\ ~panicked /\ loop = "range" /\ at["transport"] = "idle" /\ queue # <<>>
    /\ Begin("transport", Head(queue))
    /\ queue' = Tail(queue)
    /\ UNCHANGED <<open, count, accepted, server, posts, result, ctlVars, numPublishRetries>>

\* Mutant: the transport stops as soon as the channel is closed.
RangeEnds_Early ==
    /\ ~panicked /\ loop = "range" /\ at["transport"] = "idle" /\ ~open
    /\ loop' = "signal"
    /\ UNCHANGED <<chanVars, sendVars, main, panicked, numPublishRetries>>

\* The range ends when the channel is closed and empty.
RangeEnds ==
    /\ ~panicked /\ loop = "range" /\ at["transport"] = "idle"
    /\ queue = <<>> /\ ~open
    /\ loop' = "signal"
    /\ UNCHANGED <<chanVars, sendVars, main, panicked, numPublishRetries>>

\* Mutant: Shutdown waits without closing the channel.
CloseChannel_Forgotten ==
    /\ ~panicked /\ main = "up" /\ at[Main] = "idle"
    /\ main' = "draining"
    /\ UNCHANGED <<chanVars, sendVars, loop, panicked, numPublishRetries>>

CloseChannel ==
    /\ ~panicked /\ main = "up" /\ at[Main] = "idle"
    /\ open' = FALSE
    /\ main' = "draining"
    /\ UNCHANGED <<queue, count, accepted, sendVars, loop, panicked, numPublishRetries>>

\* shutdownChannel is unbuffered: its two ends meet.
ShutdownSignal ==
    /\ ~panicked /\ loop = "signal" /\ main = "draining"
    /\ loop' = "done"
    /\ main' = "down"
    /\ UNCHANGED <<chanVars, sendVars, panicked, numPublishRetries>>

\* The process has panicked, or Shutdown has returned and it may exit.
Terminated == (panicked \/ main = "down") /\ UNCHANGED vars

Next == \/ \E g \in Goroutines : Send(g) \/ SendOnClosed(g)
        \/ PushSnapshotImageStatus
        \/ \E s \in Callers : SendPayload(s)
        \/ Receive
        \/ RangeEnds
        \/ CloseChannel
        \/ ShutdownSignal
        \/ Terminated

\* The scheduler runs every goroutine that can go on, and a post returns.
Fairness == /\ WF_vars(Receive)
            /\ WF_vars(RangeEnds)
            /\ WF_vars(ShutdownSignal)
            /\ \A s \in Callers : WF_vars(SendPayload(s))

Spec == Init /\ [][Next]_vars /\ Fairness

-----------------------------------------------------------------------------
\* What SendPayload returns is justified by what happened on the network: an
\* error only after exactly numPublishRetries posts, and nil only for a payload
\* that the server has applied (whenever at least one try is allowed).
ResultIsJustified ==
    \A p \in Payload :
        /\ posts[p] <= numPublishRetries
        /\ result[p] = "error" => posts[p] = numPublishRetries
        /\ result[p] = "nil" /\ numPublishRetries > 0 =>
               \E s \in Callers : \E i \in DOMAIN server[s] : server[s][i] = p

\* Shutdown returns only when every report accepted before it has been settled
\* by SendPayload, one way or the other, and the transport is through.
ShutdownDrains ==
    main = "down" => /\ \A i \in DOMAIN accepted : result[accepted[i]] # "none"
                     /\ queue = <<>> /\ loop = "done"

\* Shutdown returns, unless another goroutine reports to the closed channel.
ShutdownReturns == main = "draining" ~> (main = "down" \/ panicked)

\* The comment on numPublishRetries: "we retry a payload until we give up and
\* panic".  Giving up on a queued report would have to end in a panic.
GivingUpPanics ==
    [][\A i \in DOMAIN accepted :
          result[accepted[i]] = "none" /\ result'[accepted[i]] = "error"
              => panicked']_vars

-----------------------------------------------------------------------------
(* The detailed reporter implements the abstract queue. *)

Busy == at["transport"] # "idle"

\* Positions of accepted up to Taken have left the buffer, the last of them is
\* still being sent if the transport is busy.
Taken == Len(accepted) - Len(queue)

Retired == Taken - (IF Busy THEN 1 ELSE 0)

Abstract == INSTANCE ReportQueue WITH
    retired <- Retired,
    applied <- server["transport"],
    closed  <- ~open,
    stopped <- loop = "done"

\* The channel, the transport and Shutdown behave as the abstract queue.
ImplementsReportQueue == Abstract!QSpec

\* Whatever SendPayload repeats or gives up, the reports of PublishChannel reach
\* the server in the order of the channel, and so those of one goroutine in the
\* order in which it made them.
PostsFollowReports ==
    LET log == server["transport"] IN
    \A i, j \in DOMAIN log : i <= j =>
        /\ \A k, l \in DOMAIN accepted : log[i] = accepted[k] /\ log[j] = accepted[l] => k <= l
        /\ log[i][1] = log[j][1] => log[i][2] <= log[j][2]

\* What Shutdown waits for: at most as many steps as this, of the transport and
\* of its own.
StepsOf(s) == IF at[s] = "idle" THEN 0
              ELSE 2 * (numPublishRetries + 1 - tryCnt[s]) + (IF at[s] = "post" THEN 1 ELSE 0)

Owed == (2 * numPublishRetries + 2) * Len(queue) + StepsOf("transport")
        + (IF loop = "range" THEN 2 ELSE IF loop = "signal" THEN 1 ELSE 0)

\* Once Shutdown has closed the channel, every step of whatever goroutine brings
\* its return nearer, or is a report to the closed channel.
ShutdownNears == [][main = "draining" => Owed' < Owed \/ panicked']_vars

-----------------------------------------------------------------------------
(* The inductive invariant, with the types as its first part. *)

TypeOK == /\ numPublishRetries \in PublishRetries
          /\ queue \in Seq(Payload) /\ accepted \in Seq(Payload)
          /\ open \in BOOLEAN /\ panicked \in BOOLEAN
          /\ count \in [Goroutines -> 0..MaxReports]
          /\ at \in [Callers -> {"idle", "post", "sleep"}]
          /\ rp \in [Callers -> Payload \cup {NoPayload}]
          /\ tryCnt \in [Callers -> Nat \ {0}]
          /\ loop \in {"range", "signal", "done"}
          /\ main \in {"up", "draining", "down"}
          /\ server \in [Callers -> Seq(Payload)]
          /\ posts \in [Payload -> Nat]
          /\ result \in [Payload -> {"none", "nil", "error"}]

\* The buffer and the payload being sent are the end of what was accepted.
Window == /\ Len(queue) <= Len(accepted)
          /\ \A i \in 1..Len(queue) : queue[i] = accepted[Taken + i]
          /\ Busy => Taken > 0 /\ rp["transport"] = accepted[Taken]

\* The transport leaves its range only when it is drained for good.
Control == /\ loop # "range" => ~Busy /\ queue = <<>> /\ ~open
           /\ main = "up" => open
           /\ main = "down" => loop = "done"

Made(p) == p[2] <= count[p[1]]

Untouched(p) == posts[p] = 0 /\ result[p] = "none"

\* A payload is in one place at a time: not made yet, with Main, in the buffer,
\* with the transport, or settled.
Places == /\ \A p \in Payload : ~Made(p) => Untouched(p)
          /\ \A i \in 1..Len(accepted) : Made(accepted[i])
          /\ \A i, j \in 1..Len(accepted) : accepted[i] = accepted[j] => i = j
          /\ at[Main] # "idle" => /\ Made(rp[Main])
                                  /\ \A i \in 1..Len(accepted) : accepted[i] # rp[Main]
          /\ \A i \in 1..Retired : result[accepted[i]] # "none"
          /\ \A i \in (Taken + 1)..Len(accepted) : Untouched(accepted[i])

\* The loop counter of a running SendPayload counts its posts, and only a
\* reporter without tries enters the loop beyond its end.
Counting ==
    \A s \in Callers : at[s] # "idle" =>
        /\ rp[s] \in Payload /\ result[rp[s]] = "none"
        /\ at[s] = "post" => /\ posts[rp[s]] = tryCnt[s] - 1
                             /\ tryCnt[s] = 1 \/ tryCnt[s] <= numPublishRetries
        /\ at[s] = "sleep" => /\ posts[rp[s]] = tryCnt[s]
                              /\ tryCnt[s] < numPublishRetries

\* A goroutine's reports are accepted in the order in which it makes them.
OwnOrder ==
    \A i, j \in 1..Len(accepted) :
        i < j /\ accepted[i][1] = accepted[j][1] => accepted[i][2] < accepted[j][2]

\* Main is not sending once it has closed the channel.
Closing == main # "up" => ~open /\ at[Main] = "idle"

IInv == TypeOK /\ Window /\ Control /\ Places /\ Counting /\ ResultIsJustified

=============================================================================
