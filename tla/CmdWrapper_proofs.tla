------------------------- MODULE CmdWrapper_proofs -------------------------
(***************************************************************************)
(* Theorems about the command wrappers, for any amount of output and any   *)
(* flush threshold.                                                        *)
(***************************************************************************)
EXTENDS CmdWrapper, SequenceTheorems, TLAPS


\* What Run returns has the type of its results.
LEMMA ReturnType ==
    ASSUME NEW err \in BOOLEAN, NEW success \in BOOLEAN, NEW output \in Nat,
           Return(err, success, output)
    PROVE  result' \in [err : BOOLEAN, success : BOOLEAN, output : Nat, returned : BOOLEAN]
BY DEF Return

LEMMA RunTypesStep ==
    ASSUME RunTypes, StreamTypes, [Next]_vars
    PROVE  RunTypes'
<1> USE DEF RunTypes
<1>1. ASSUME WriteOutput \/ Fork \/ Exit \/ Release
      PROVE  RunTypes'
  <2>1. UNCHANGED <<wrapper, capture, pc, timedOut, result, closing, writer>>
    BY <1>1 DEF WriteOutput, Fork, Exit, Release, ProcUnchanged, runVars
  <2>2. proc' \in {"none", "running", "ok", "failed", "broken"}
    BY <1>1 DEF WriteOutput, Fork, Exit, Release
  <2>3. child' \in BOOLEAN
    BY <1>1 DEF WriteOutput, Fork, Exit, Release
  <2> QED
    BY <2>1, <2>2, <2>3
<1>2. ASSUME ScanStep \/ Deliver \/ Tick \/ Flush \/ CloseLog
      PROVE  RunTypes'
  BY <1>2 DEF ScanStep, Fill, TakeLine, TakeRest, Deliver, Tick, Flush, CloseLog, ScanUnchanged,
              StreamUnchanged, runVars, procVars
<1>3. ASSUME PipeFails \/ StartFails
      PROVE  RunTypes'
  <2>1. UNCHANGED <<wrapper, capture, timedOut, closing, proc, child>>
        /\ pc' = "returned" /\ writer' \in BOOLEAN
    BY <1>3 DEF PipeFails, StartFails, Return, RunUnchanged
  <2>2. Return(TRUE, FALSE, 0)
    BY <1>3 DEF PipeFails, StartFails
  <2> QED
    BY <2>1, <2>2, ReturnType
<1>4. ASSUME MakePipe \/ Start
      PROVE  RunTypes'
  BY <1>4 DEF MakePipe, Start, Goto, RunUnchanged
<1>5. ASSUME Wait \/ CloseWriter \/ Closed \/ CloseTimesOut \/ Drained \/ DrainTimesOut
      PROVE  RunTypes'
  <2>1. UNCHANGED <<wrapper, capture, result, proc, child>>
    BY <1>5 DEF Wait, CloseWriter, Closed, CloseTimesOut, Drained, DrainTimesOut, RunUnchanged
  <2>2. /\ pc' \in {"begin", "start", "wait", "close", "drain", "report", "returned"}
        /\ closing' \in {"off", "close", "send", "done"}
    BY <1>5 DEF Wait, CloseWriter, Closed, CloseTimesOut, Drained, DrainTimesOut, Goto
  <2>3. timedOut' \in BOOLEAN /\ writer' \in BOOLEAN
    BY <1>5 DEF Wait, CloseWriter, Closed, CloseTimesOut, Drained, DrainTimesOut
  <2> QED
    BY <2>1, <2>2, <2>3
<1>6. ASSUME Report
      PROVE  RunTypes'
  <2>1. UNCHANGED <<wrapper, capture, timedOut, writer, closing, proc, child>> /\ pc' = "returned"
    BY <1>6 DEF Report, Return, RunUnchanged
  <2>2. Captured \subseteq Nat
    BY DEF Captured, StreamTypes
  <2>3. PICK n \in Captured : Return(TRUE, FALSE, 0) \/ Return(FALSE, proc = "ok", n)
    BY <1>6 DEF Report
  <2>4. n \in Nat /\ (proc = "ok") \in BOOLEAN
    BY <2>2
  <2> QED
    BY <2>1, <2>3, <2>4, ReturnType
<1>7. ASSUME UNCHANGED vars
      PROVE  RunTypes'
  BY <1>7 DEF vars, runVars, procVars
<1> QED
  BY <1>1, <1>2, <1>3, <1>4, <1>5, <1>6, <1>7 DEF Next, RunStep, Terminated

\* Cutting a sequence in two loses nothing.
LEMMA Cut ==
    ASSUME NEW seq \in Seq(Nat), NEW n \in 1 .. Len(seq)
    PROVE  /\ SubSeq(seq, 1, n) \in Seq(Nat) /\ SubSeq(seq, n + 1, Len(seq)) \in Seq(Nat)
           /\ SubSeq(seq, 1, n) \o SubSeq(seq, n + 1, Len(seq)) = seq
           /\ Len(SubSeq(seq, n + 1, Len(seq))) = Len(seq) - n
<1>1. /\ 1 \in 1 .. Len(seq) + 1 /\ n \in 0 .. Len(seq) /\ Len(seq) \in n .. Len(seq)
      /\ Len(seq) \in Nat /\ n + 1 \in Int /\ n \in Int
  OBVIOUS
<1>2. SubSeq(seq, 1, n) \o SubSeq(seq, n + 1, Len(seq)) = SubSeq(seq, 1, Len(seq))
  BY <1>1, ConcatAdjacentSubSeq
<1>3. SubSeq(seq, 1, Len(seq)) = seq
  BY SubSeqFull
<1>4. \A i \in 1 .. Len(seq) : seq[i] \in Nat
  OBVIOUS
<1>5. SubSeq(seq, 1, n) \in Seq(Nat)
  BY <1>1, <1>4, SubSeqProperties
<1>6. SubSeq(seq, n + 1, Len(seq)) \in Seq(Nat)
  BY <1>1, <1>4, SubSeqProperties
<1>7. Len(SubSeq(seq, n + 1, Len(seq))) = Len(seq) - n
  BY <1>1
<1> QED
  BY <1>2, <1>3, <1>5, <1>6, <1>7

LEMMA Joined ==
    ASSUME NEW s \in Seq(Nat), NEW t \in Seq(Nat)
    PROVE  s \o t \in Seq(Nat)
BY ConcatProperties

LEMMA StreamTypesStep ==
    ASSUME RunTypes, StreamTypes, [Next]_vars
    PROVE  StreamTypes'
<1> USE DEF StreamTypes
<1>1. ASSUME WriteOutput
      PROVE  StreamTypes'
  <2>1. UNCHANGED <<rbuf, offer, payload, logged, scan, stream, logOpen>>
    BY <1>1 DEF WriteOutput, ProcUnchanged, scanVars, streamVars
  <2>2. PICK newline \in BOOLEAN : out' = Append(out, newline)
    BY <1>1 DEF WriteOutput
  <2>3. out' \in Seq(BOOLEAN) /\ Len(out') = Len(out) + 1 /\ Len(out) \in Nat
    BY <2>2
  <2>4. pipe' \in Seq(Nat) /\ Len(pipe') = Len(pipe) + 1 /\ Len(pipe) \in Nat
    BY <1>1, <2>3 DEF WriteOutput
  <2> QED
    BY <2>1, <2>3, <2>4
<1>2. ASSUME Fork \/ Exit \/ Release \/ CloseLog
      PROVE  StreamTypes'
  BY <1>2 DEF Fork, Exit, Release, CloseLog, ProcUnchanged, scanVars, streamVars, procVars
<1>3. ASSUME Fill
      PROVE  StreamTypes'
  <2>1. UNCHANGED <<out, offer, payload, logged, scan, stream, logOpen>>
    BY <1>3 DEF Fill, ScanUnchanged, procVars, streamVars
  <2>2. PICK n \in 1 .. Len(pipe) : /\ rbuf' = rbuf \o SubSeq(pipe, 1, n)
                                    /\ pipe' = SubSeq(pipe, n + 1, Len(pipe))
    BY <1>3 DEF Fill
  <2>3. rbuf' \in Seq(Nat) /\ pipe' \in Seq(Nat) /\ Len(pipe') = Len(pipe) - n
    BY <2>2, Cut, Joined
  <2>4. Len(pipe) \in Nat /\ Len(out) \in Nat
    OBVIOUS
  <2> QED
    BY <2>1, <2>3, <2>4
<1>4. ASSUME TakeLine
      PROVE  StreamTypes'
  <2>1. UNCHANGED <<out, pipe, payload, logged, stream, logOpen>> /\ scan' = "line"
    BY <1>4 DEF TakeLine, ScanUnchanged, procVars, streamVars
  <2>2. PICK n \in DOMAIN rbuf : /\ offer' = SubSeq(rbuf, 1, n)
                                 /\ rbuf' = SubSeq(rbuf, n + 1, Len(rbuf))
    BY <1>4 DEF TakeLine, Newlines
  <2>3. rbuf' \in Seq(Nat) /\ offer' \in Seq(Nat)
    BY <2>2, Cut
  <2> QED
    BY <2>1, <2>3
<1>5. ASSUME TakeRest
      PROVE  StreamTypes'
  BY <1>5 DEF TakeRest, ScanUnchanged, procVars, streamVars
<1>6. ASSUME Deliver
      PROVE  StreamTypes'
  <2>1. UNCHANGED <<out, pipe, rbuf, logged, logOpen>>
    BY <1>6 DEF Deliver, StreamUnchanged, procVars
  <2>2. payload' \in Seq(Nat) /\ offer' = <<>>
    BY <1>6, Joined DEF Deliver
  <2>3. scan' \in {"reading", "done", "failed"} /\ stream' \in {"collect", "flush"}
    BY <1>6 DEF Deliver
  <2> QED
    BY <2>1, <2>2, <2>3
<1>7. ASSUME Tick
      PROVE  StreamTypes'
  BY <1>7 DEF Tick, StreamUnchanged, procVars
<1>8. ASSUME Flush
      PROVE  StreamTypes'
  <2>1. UNCHANGED <<out, pipe, rbuf, offer, scan, logOpen>> /\ stream' \in {"done", "collect"}
    BY <1>8 DEF Flush, StreamUnchanged, procVars
  <2>2. logged' \in Seq(Nat) /\ payload' = <<>>
    BY <1>8, Joined DEF Flush
  <2> QED
    BY <2>1, <2>2
<1>9. ASSUME RunStep \/ CloseWriter
      PROVE  StreamTypes'
  <2>1. UNCHANGED <<out, pipe, rbuf, offer, payload, logged, logOpen>>
    BY <1>9 DEF RunStep, PipeFails, MakePipe, Start, StartFails, Wait, CloseWriter, Closed,
                CloseTimesOut, Drained, DrainTimesOut, Report, RunUnchanged
  <2>2. UNCHANGED <<scan, stream>> \/ (scan' = "reading" /\ stream' = "collect")
    BY <1>9 DEF RunStep, PipeFails, MakePipe, Start, StartFails, Wait, CloseWriter, Closed,
                CloseTimesOut, Drained, DrainTimesOut, Report
  <2> QED
    BY <2>1, <2>2
<1>10. ASSUME UNCHANGED vars
       PROVE  StreamTypes'
  BY <1>10 DEF vars, procVars, scanVars, streamVars
<1> QED
  BY <1>1, <1>2, <1>3, <1>4, <1>5, <1>6, <1>7, <1>8, <1>9, <1>10
     DEF Next, ScanStep, Terminated

LEMMA RunControlStep ==
    ASSUME RunTypes, StreamTypes, StreamControl, RunControl, [Next]_vars
    PROVE  RunControl'
<1> USE DEF RunTypes, StreamTypes, RunControl, Exited
<1>1. ASSUME WriteOutput
      PROVE  RunControl'
  BY <1>1 DEF WriteOutput, ProcUnchanged, runVars, scanVars, streamVars
<1>2. ASSUME Fork
      PROVE  RunControl'
  BY <1>2 DEF Fork, ProcUnchanged, runVars, scanVars, streamVars
<1>3. ASSUME Exit \/ Release \/ CloseLog
      PROVE  RunControl'
  BY <1>3 DEF Exit, Release, CloseLog, ProcUnchanged, runVars, scanVars, streamVars, procVars
<1>4. ASSUME ScanStep
      PROVE  RunControl'
  <2>1. UNCHANGED <<wrapper, capture, runVars, procVars, stream>>
    BY <1>4 DEF ScanStep, Fill, TakeLine, TakeRest, ScanUnchanged, streamVars
  <2>2. scan # "off"
    BY <1>4 DEF ScanStep, Fill, TakeLine, TakeRest
  <2>3. pipe = <<>> => pipe' = <<>>
    BY <1>4 DEF ScanStep, Fill, TakeLine, TakeRest
  <2> QED
    BY <2>1, <2>2, <2>3 DEF runVars, procVars
<1>5. ASSUME Deliver \/ Tick \/ Flush
      PROVE  RunControl'
  <2>1. UNCHANGED <<wrapper, capture, runVars, procVars, pipe>>
    BY <1>5 DEF Deliver, Tick, Flush, StreamUnchanged
  <2>2. stream # "done" /\ (scan = "off" => scan' = "off") /\ (scan' # "off" => scan # "off")
    BY <1>5 DEF Deliver, Tick, Flush
  <2> QED
    BY <2>1, <2>2 DEF runVars, procVars
<1>6. ASSUME PipeFails \/ StartFails
      PROVE  RunControl'
  BY <1>6 DEF PipeFails, StartFails, Return, RunUnchanged
<1>7. ASSUME MakePipe \/ Start
      PROVE  RunControl'
  BY <1>7 DEF MakePipe, Start, Goto, RunUnchanged
<1>8. ASSUME Wait \/ CloseWriter \/ Closed \/ CloseTimesOut
      PROVE  RunControl'
  BY <1>8 DEF Wait, CloseWriter, Closed, CloseTimesOut, Goto, RunUnchanged
<1>9. ASSUME Drained \/ DrainTimesOut
      PROVE  RunControl'
  BY <1>9 DEF Drained, DrainTimesOut, Goto, RunUnchanged
<1>10. ASSUME Report
       PROVE  RunControl'
  BY <1>10 DEF Report, Return, RunUnchanged
<1>11. ASSUME UNCHANGED vars
       PROVE  RunControl'
  BY <1>11 DEF vars, runVars, procVars, scanVars, streamVars
<1> QED
  BY <1>1, <1>2, <1>3, <1>4, <1>5, <1>6, <1>7, <1>8, <1>9, <1>10, <1>11
     DEF Next, RunStep, Terminated

\* When the end of the output has been seen, nobody can write any more.
LEMMA NobodyWrites ==
    ASSUME RunTypes, RunControl, AtEOF, scan # "off"
    PROVE  proc # "running" /\ ~child /\ pc # "start"
BY DEF RunTypes, RunControl, AtEOF, Exited

LEMMA StreamControlStep ==
    ASSUME RunTypes, StreamTypes, StreamControl, RunControl, [Next]_vars
    PROVE  StreamControl'
<1> USE DEF RunTypes, StreamTypes, StreamControl, Finished
<1>1. ASSUME WriteOutput \/ Fork
      PROVE  StreamControl'
  <2>1. scan \notin {"eof", "done"}
    BY <1>1, NobodyWrites DEF WriteOutput, Fork
  <2> QED
    BY <1>1, <2>1 DEF WriteOutput, Fork, ProcUnchanged, runVars, scanVars, streamVars
<1>2. ASSUME Exit \/ Release
      PROVE  StreamControl'
  <2>1. UNCHANGED <<wrapper, writer, scan, rbuf, offer, stream, payload, pipe>>
    BY <1>2 DEF Exit, Release, ProcUnchanged, runVars, scanVars, streamVars
  <2>2. AtEOF => AtEOF'
    BY <1>2 DEF Exit, Release, ProcUnchanged, runVars, AtEOF
  <2> QED
    BY <2>1, <2>2
<1>3. ASSUME CloseLog
      PROVE  StreamControl'
  BY <1>3 DEF CloseLog, runVars, scanVars, streamVars, procVars, AtEOF
<1>4. ASSUME Fill \/ TakeLine
      PROVE  StreamControl'
  BY <1>4 DEF Fill, TakeLine, ScanUnchanged, streamVars
<1>5. ASSUME TakeRest
      PROVE  StreamControl'
  BY <1>5 DEF TakeRest, ScanUnchanged, runVars, procVars, streamVars, AtEOF
<1>6. ASSUME Deliver
      PROVE  StreamControl'
  <2>1. UNCHANGED <<wrapper, writer, proc, child, pipe, rbuf>> /\ AtEOF' = AtEOF
    BY <1>6 DEF Deliver, StreamUnchanged, runVars, procVars, AtEOF
  <2>2. offer' = <<>>
    BY <1>6 DEF Deliver
  <2>3. \/ scan = "line" /\ scan' = "reading" /\ stream' \in {"collect", "flush"}
        \/ scan = "eof" /\ scan' = "done" /\ stream' = "flush"
        \/ scan = "error" /\ scan' = "failed" /\ stream' = "flush"
    BY <1>6 DEF Deliver
  <2> QED
    BY <2>1, <2>2, <2>3
<1>7. ASSUME Tick \/ Flush
      PROVE  StreamControl'
  BY <1>7 DEF Tick, Flush, StreamUnchanged, runVars, procVars, AtEOF
<1>8. ASSUME PipeFails \/ MakePipe \/ Start \/ StartFails
      PROVE  StreamControl'
  <2>1. UNCHANGED <<wrapper, child, pipe, rbuf, offer, payload>>
    BY <1>8 DEF PipeFails, MakePipe, Start, StartFails, RunUnchanged
  <2>2. \/ scan' = "reading" /\ stream' = "collect" /\ scan = "off"
        \/ UNCHANGED <<scan, stream>> /\ scan \notin {"eof", "done"}
    <3>1. pc = "begin" => scan = "off"
      BY DEF RunControl
    <3>2. pc = "start" => scan \notin {"eof", "done"} /\ (wrapper = "basic" => scan = "off")
      BY DEF RunControl, AtEOF
    <3> QED
      BY <1>8, <3>1, <3>2 DEF PipeFails, MakePipe, Start, StartFails, Goto
  <2> QED
    BY <2>1, <2>2
<1>9. ASSUME Wait \/ CloseWriter \/ Closed \/ CloseTimesOut \/ Drained \/ DrainTimesOut \/ Report
      PROVE  StreamControl'
  <2>1. UNCHANGED <<wrapper, proc, child, pipe, rbuf, offer, payload, scan, stream>>
    BY <1>9 DEF Wait, CloseWriter, Closed, CloseTimesOut, Drained, DrainTimesOut, Report, RunUnchanged
  <2>2. writer' = writer \/ ~writer'
    BY <1>9 DEF Wait, CloseWriter, Closed, CloseTimesOut, Drained, DrainTimesOut, Report
  <2> QED
    BY <2>1, <2>2 DEF AtEOF
<1>10. ASSUME UNCHANGED vars
       PROVE  StreamControl'
  BY <1>10 DEF vars, runVars, procVars, scanVars, streamVars, AtEOF
<1> QED
  BY <1>1, <1>2, <1>3, <1>4, <1>5, <1>6, <1>7, <1>8, <1>9, <1>10
     DEF Next, RunStep, ScanStep, Terminated

-----------------------------------------------------------------------------
(* What is written is what is read *)

LEMMA StreamJoined ==
    ASSUME NEW l \in Seq(Nat), NEW p \in Seq(Nat), NEW o \in Seq(Nat), NEW r \in Seq(Nat),
           NEW q \in Seq(Nat)
    PROVE  /\ l \o p \in Seq(Nat) /\ l \o p \o o \in Seq(Nat) /\ l \o p \o o \o r \in Seq(Nat)
           /\ l \o p \o o \o r \o q \in Seq(Nat)
<1>1. l \o p \in Seq(Nat)
  BY Joined
<1>2. (l \o p) \o o \in Seq(Nat)
  BY <1>1, Joined
<1>3. ((l \o p) \o o) \o r \in Seq(Nat)
  BY <1>2, Joined
<1>4. (((l \o p) \o o) \o r) \o q \in Seq(Nat)
  BY <1>3, Joined
<1> QED
  BY <1>1, <1>2, <1>3, <1>4

\* Concatenation, for proofs that only need its laws.
Cat(s, t) == s \o t

LEMMA CatLaws ==
    /\ \A s, t \in Seq(Nat) : Cat(s, t) \in Seq(Nat)
    /\ \A s, t, u \in Seq(Nat) : Cat(Cat(s, t), u) = Cat(s, Cat(t, u))
    /\ \A s \in Seq(Nat) : Cat(s, <<>>) = s /\ Cat(<<>>, s) = s
    /\ <<>> \in Seq(Nat)
<1>1. ASSUME NEW s \in Seq(Nat), NEW t \in Seq(Nat)
      PROVE  Cat(s, t) \in Seq(Nat)
  BY Joined DEF Cat
<1>2. ASSUME NEW s \in Seq(Nat), NEW t \in Seq(Nat), NEW u \in Seq(Nat)
      PROVE  Cat(Cat(s, t), u) = Cat(s, Cat(t, u))
  BY DEF Cat
<1>3. ASSUME NEW s \in Seq(Nat)
      PROVE  Cat(s, <<>>) = s /\ Cat(<<>>, s) = s
  BY ConcatEmptySeq DEF Cat
<1>4. <<>> \in Seq(Nat)
  OBVIOUS
<1> QED
  BY <1>1, <1>2, <1>3, <1>4

LEMMA CutRejoined ==
    ASSUME NEW seq \in Seq(Nat), NEW n \in 1 .. Len(seq)
    PROVE  Cat(SubSeq(seq, 1, n), SubSeq(seq, n + 1, Len(seq))) = seq
BY Cut DEF Cat

LEMMA StreamIs ==
    ASSUME NEW l, NEW p, NEW o, NEW r, NEW q
    PROVE  l \o p \o o \o r \o q = Cat(Cat(Cat(Cat(l, p), o), r), q)
BY DEF Cat

LEMMA StreamKept ==
    ASSUME RunTypes, StreamTypes, StreamControl, logOpen,
           ScanStep \/ Deliver \/ Tick \/ Flush
    PROVE  Stream' = Stream
<1>1. /\ Stream = Cat(Cat(Cat(Cat(logged, payload), offer), rbuf), pipe)
      /\ Stream' = Cat(Cat(Cat(Cat(logged', payload'), offer'), rbuf'), pipe')
  BY StreamIs DEF Stream
<1>2. /\ logged \in Seq(Nat) /\ payload \in Seq(Nat) /\ offer \in Seq(Nat)
      /\ rbuf \in Seq(Nat) /\ pipe \in Seq(Nat)
  BY DEF StreamTypes
<1>3. CASE Fill
  <2>1. UNCHANGED <<logged, payload, offer>>
    BY <1>3 DEF Fill, ScanUnchanged, streamVars
  <2>2. PICK n \in 1 .. Len(pipe) : /\ rbuf' = rbuf \o SubSeq(pipe, 1, n)
                                    /\ pipe' = SubSeq(pipe, n + 1, Len(pipe))
    BY <1>3 DEF Fill
  <2> DEFINE cut == SubSeq(pipe, 1, n)
  <2>3. cut \in Seq(Nat) /\ pipe' \in Seq(Nat)
    BY <1>2, <2>2, Cut
  <2>4. rbuf' = Cat(rbuf, cut)
    BY <2>2 DEF Cat
  <2>5. pipe = Cat(cut, pipe')
    <3>1. Cat(SubSeq(pipe, 1, n), SubSeq(pipe, n + 1, Len(pipe))) = pipe
      BY <1>2, CutRejoined
    <3>2. pipe' = SubSeq(pipe, n + 1, Len(pipe))
      BY <2>2
    <3> QED
      BY <3>1, <3>2, Zenon
  <2> HIDE DEF cut
  <2> DEFINE before == Cat(Cat(logged, payload), offer)
  <2>6. before \in Seq(Nat)
    BY <1>2, CatLaws
  <2>7. Stream = Cat(Cat(before, rbuf), pipe) /\ Stream' = Cat(Cat(before, rbuf'), pipe')
    BY <1>1, <2>1
  <2> HIDE DEF before
  <2>8. Cat(before, rbuf') = Cat(Cat(before, rbuf), cut)
    BY <1>2, <2>3, <2>4, <2>6, CatLaws
  <2>9. Cat(before, rbuf) \in Seq(Nat)
    BY <1>2, <2>6, CatLaws
  <2> QED
    BY <2>3, <2>5, <2>7, <2>8, <2>9, CatLaws
<1>4. CASE TakeLine
  <2>1. UNCHANGED <<logged, payload, pipe>> /\ offer = <<>>
    BY <1>4 DEF TakeLine, ScanUnchanged, streamVars, StreamControl
  <2>2. PICK n \in DOMAIN rbuf : /\ offer' = SubSeq(rbuf, 1, n)
                                 /\ rbuf' = SubSeq(rbuf, n + 1, Len(rbuf))
    BY <1>4 DEF TakeLine, Newlines
  <2>3. n \in 1 .. Len(rbuf)
    BY <1>2
  <2>4. offer' \in Seq(Nat) /\ rbuf' \in Seq(Nat)
    BY <1>2, <2>2, <2>3, Cut
  <2>5. rbuf = Cat(offer', rbuf')
    <3>1. Cat(SubSeq(rbuf, 1, n), SubSeq(rbuf, n + 1, Len(rbuf))) = rbuf
      BY <1>2, <2>3, CutRejoined
    <3> QED
      BY <2>2, <3>1, Zenon
  <2> DEFINE before == Cat(logged, payload)
  <2>6. before \in Seq(Nat)
    BY <1>2, CatLaws
  <2>7. Cat(before, rbuf) = Cat(Cat(before, offer'), rbuf')
    BY <2>4, <2>5, <2>6, CatLaws
  <2>8. Cat(before, offer) = before
    BY <2>1, <2>6, CatLaws
  <2> QED
    BY <1>1, <2>1, <2>7, <2>8
<1>5. CASE TakeRest
  <2>1. UNCHANGED <<logged, payload, pipe>> /\ offer = <<>> /\ offer' = rbuf /\ rbuf' = <<>>
    BY <1>5 DEF TakeRest, ScanUnchanged, streamVars, StreamControl
  <2> QED
    BY <1>1, <1>2, <2>1, CatLaws
<1>6. CASE Deliver
  <2>1. UNCHANGED <<logged, rbuf, pipe>> /\ payload' = Cat(payload, offer) /\ offer' = <<>>
    BY <1>6 DEF Deliver, StreamUnchanged, Cat
  <2> QED
    BY <1>1, <1>2, <2>1, CatLaws
<1>7. CASE Tick
  BY <1>7 DEF Tick, StreamUnchanged, Stream
<1>8. CASE Flush
  <2>1. UNCHANGED <<offer, rbuf, pipe>> /\ logged' = Cat(logged, payload) /\ payload' = <<>>
    BY <1>8 DEF Flush, StreamUnchanged, Cat
  <2> QED
    BY <1>1, <1>2, <2>1, CatLaws
<1> QED
  BY <1>3, <1>4, <1>5, <1>6, <1>7, <1>8 DEF ScanStep

LEMMA NothingLostStep ==
    ASSUME RunTypes, StreamTypes, StreamControl, NothingLost, [Next]_vars
    PROVE  NothingLost'
<1> SUFFICES ASSUME logOpen'
             PROVE  Stream' = [i \in 1 .. Len(out') |-> i]
  BY DEF NothingLost
<1>1. logOpen
  BY DEF Next, RunStep, ScanStep, WriteOutput, Fork, Exit, Release, CloseLog, Fill, TakeLine,
         TakeRest, Deliver, Tick, Flush, PipeFails, MakePipe, Start, StartFails, Wait, CloseWriter,
         Closed, CloseTimesOut, Drained, DrainTimesOut, Report, Terminated, ProcUnchanged,
         ScanUnchanged, StreamUnchanged, RunUnchanged, vars
<1>2. Stream = [i \in 1 .. Len(out) |-> i]
  BY <1>1 DEF NothingLost
<1>3. CASE WriteOutput
  <2> DEFINE before == logged \o payload \o offer \o rbuf
  <2>1. UNCHANGED <<logged, payload, offer, rbuf>> /\ pipe' = Append(pipe, Len(out) + 1)
        /\ Len(out') = Len(out) + 1 /\ Len(out) \in Nat
    BY <1>3 DEF WriteOutput, ProcUnchanged, scanVars, streamVars, StreamTypes
  <2>2. before \in Seq(Nat) /\ pipe \in Seq(Nat) /\ Stream = before \o pipe
    BY StreamJoined DEF StreamTypes, Stream
  <2>3. Stream' = before \o Append(pipe, Len(out) + 1)
    BY <2>1 DEF Stream
  <2> HIDE DEF before
  <2>4. before \o Append(pipe, Len(out) + 1) = Append(Stream, Len(out) + 1)
    BY <2>1, <2>2
  <2>5. Append([i \in 1 .. Len(out) |-> i], Len(out) + 1) = [i \in 1 .. Len(out) + 1 |-> i]
    BY <2>1
  <2> QED
    BY <1>2, <2>1, <2>3, <2>4, <2>5
<1>4. CASE ScanStep \/ Deliver \/ Tick \/ Flush
  <2>1. out' = out
    BY <1>4 DEF ScanStep, Fill, TakeLine, TakeRest, Deliver, Tick, Flush, ScanUnchanged,
                StreamUnchanged, procVars
  <2> QED
    BY <1>1, <1>2, <1>4, <2>1, StreamKept
<1>5. ASSUME UNCHANGED <<logged, payload, offer, rbuf, pipe, out>>
      PROVE  Stream' = [i \in 1 .. Len(out') |-> i]
  BY <1>2, <1>5 DEF Stream
<1>6. ASSUME Fork \/ Exit \/ Release \/ CloseLog
      PROVE  UNCHANGED <<logged, payload, offer, rbuf, pipe, out>>
  BY <1>6 DEF Fork, Exit, Release, CloseLog, ProcUnchanged, procVars, scanVars, streamVars
<1>7. ASSUME RunStep \/ CloseWriter
      PROVE  UNCHANGED <<logged, payload, offer, rbuf, pipe, out>>
  BY <1>7 DEF RunStep, PipeFails, MakePipe, Start, StartFails, Wait, CloseWriter, Closed,
              CloseTimesOut, Drained, DrainTimesOut, Report, RunUnchanged
<1>8. ASSUME UNCHANGED vars
      PROVE  UNCHANGED <<logged, payload, offer, rbuf, pipe, out>>
  BY <1>8 DEF vars, procVars, scanVars, streamVars
<1> QED
  BY <1>3, <1>4, <1>5, <1>6, <1>7, <1>8 DEF Next, Terminated

-----------------------------------------------------------------------------
(* The result *)

LEMMA ReturnedStep ==
    ASSUME RunTypes, StreamTypes, StreamControl, RunControl, Returned, [Next]_vars
    PROVE  Returned'
<1> USE DEF RunTypes, StreamTypes, RunControl, Returned, Exited
<1>1. ASSUME WriteOutput
      PROVE  Returned'
  <2>1. UNCHANGED <<capture, closing, timedOut, result, scan, stream, proc>>
    BY <1>1 DEF WriteOutput, ProcUnchanged, runVars, scanVars, streamVars
  <2>2. scan = "done" => FALSE
    BY <1>1, NobodyWrites DEF WriteOutput, StreamControl
  <2>3. stream = "done" /\ scan # "failed" => scan = "done"
    BY DEF StreamControl, Finished
  <2> QED
    BY <2>1, <2>2, <2>3
<1>2. ASSUME Fork \/ Exit \/ Release \/ CloseLog
      PROVE  Returned'
  <2>1. UNCHANGED <<capture, closing, timedOut, result, scan, stream, out>>
    BY <1>2 DEF Fork, Exit, Release, CloseLog, ProcUnchanged, runVars, scanVars, streamVars, procVars
  <2>2. proc' = proc \/ proc = "running"
    BY <1>2 DEF Fork, Exit, Release, CloseLog, procVars
  <2> QED
    BY <2>1, <2>2
<1>3. ASSUME ScanStep \/ Deliver \/ Tick \/ Flush
      PROVE  Returned'
  <2>1. UNCHANGED <<capture, closing, timedOut, result, out, proc>>
    BY <1>3 DEF ScanStep, Fill, TakeLine, TakeRest, Deliver, Tick, Flush, ScanUnchanged,
                StreamUnchanged, procVars, runVars
  <2>2. stream = "done" => UNCHANGED <<stream, scan>>
    BY <1>3 DEF ScanStep, Fill, TakeLine, TakeRest, Deliver, Tick, Flush, StreamControl, Finished
  <2>3. scan = "failed" => scan' = "failed"
    BY <1>3 DEF ScanStep, Fill, TakeLine, TakeRest, Deliver, Tick, Flush
  <2> QED
    BY <2>1, <2>2, <2>3
<1>4. ASSUME PipeFails \/ StartFails
      PROVE  Returned'
  BY <1>4 DEF PipeFails, StartFails, Return
<1>5. ASSUME MakePipe \/ Start \/ Wait \/ Closed \/ CloseTimesOut \/ Drained \/ DrainTimesOut
      PROVE  Returned'
  BY <1>5 DEF MakePipe, Start, Wait, Closed, CloseTimesOut, Drained, DrainTimesOut, Goto
<1>6. ASSUME CloseWriter
      PROVE  Returned'
  BY <1>6 DEF CloseWriter, RunUnchanged
<1>7. ASSUME Report
      PROVE  Returned'
  <2>1. UNCHANGED <<capture, closing, timedOut, scan, stream, proc, out>> /\ pc = "report"
    BY <1>7 DEF Report, RunUnchanged
  <2>2. PICK n \in Captured : Return(TRUE, FALSE, 0) \/ Return(FALSE, proc = "ok", n)
    BY <1>7 DEF Report
  <2>3. CASE Return(TRUE, FALSE, 0)
    BY <2>3 DEF Return
  <2>4. CASE Return(FALSE, proc = "ok", n)
    <3>1. result'.output = n /\ (result'.success <=> proc = "ok")
      BY <2>4 DEF Return
    <3>2. closing # "off" /\ (timedOut \/ stream = "done")
      BY <2>1
    <3>3. ASSUME capture, ~timedOut, scan # "failed"
          PROVE  n = Len(out)
      <4>1. pipe = <<>>
        BY <3>2, <3>3 DEF StreamControl, Finished, AtEOF
      <4>2. n = Len(out) - Len(pipe)
        BY <2>2, <3>3 DEF Captured
      <4> QED
        BY <4>1, <4>2
    <3> QED
      BY <2>1, <3>1, <3>2, <3>3
  <2> QED
    BY <2>2, <2>3, <2>4
<1>8. ASSUME UNCHANGED vars
      PROVE  Returned'
  BY <1>8 DEF vars, runVars, procVars, scanVars, streamVars
<1> QED
  BY <1>1, <1>2, <1>3, <1>4, <1>5, <1>6, <1>7, <1>8 DEF Next, RunStep, Terminated

-----------------------------------------------------------------------------
(* The theorems *)

LEMMA Initially ==
    ASSUME Init
    PROVE  IInv
<1> USE DEF Init
<1>1. RunTypes
  BY DEF RunTypes, NoResult
<1>2. StreamTypes
  BY DEF StreamTypes
<1>3. StreamControl /\ RunControl /\ Returned
  BY DEF StreamControl, RunControl, Returned, NoResult, Finished, Exited
<1>4. NothingLost
  <2>1. \A s \in Seq(Nat) : <<>> \o s = s
    BY ConcatEmptySeq
  <2>2. <<>> \in Seq(Nat) /\ Len(out) = 0
    OBVIOUS
  <2>3. Stream = <<>>
    BY <2>1, <2>2 DEF Stream
  <2>4. <<>> = [i \in 1 .. 0 |-> i]
    OBVIOUS
  <2> QED
    BY <2>2, <2>3, <2>4 DEF NothingLost
<1> QED
  BY <1>1, <1>2, <1>3, <1>4 DEF IInv

LEMMA Invariant == Spec => []IInv
<1>1. Init => IInv
  BY Initially
<1>2. IInv /\ [Next]_vars => IInv'
  BY RunTypesStep, StreamTypesStep, StreamControlStep, RunControlStep, NothingLostStep, ReturnedStep
     DEF IInv
<1> QED
  BY <1>1, <1>2, PTL DEF Spec

\* While the log is open, the output is in the log or on its way there, in
\* order, each piece once, wherever WriteStream cuts it.
THEOREM OutputIsKept == Spec => []NothingLost
<1>1. IInv => NothingLost
  BY DEF IInv
<1> QED
  BY <1>1, Invariant, PTL

\* A result that Run returns stands for a finished command, and, unless Run
\* gave up on the stream, for a log and a captured output that are complete.
THEOREM ResultStandsForAll == Spec => []ResultIsWhole
<1>1. IInv => ResultIsWhole
  <2> SUFFICES ASSUME IInv, result.returned, ~result.err
               PROVE  /\ result.success <=> proc = "ok"
                      /\ ~timedOut /\ scan # "failed" =>
                            /\ logOpen => Len(logged) = Len(out)
                            /\ capture => result.output = Len(out)
    BY DEF ResultIsWhole
  <2> USE DEF IInv
  <2>1. result.success <=> proc = "ok"
    BY DEF Returned
  <2>2. ASSUME ~timedOut, scan # "failed", logOpen
        PROVE  Len(logged) = Len(out)
    <3>1. stream = "done" /\ scan = "done"
      BY <2>2 DEF Returned, StreamControl, Finished
    <3>2. payload = <<>> /\ offer = <<>> /\ rbuf = <<>> /\ pipe = <<>>
      BY <3>1 DEF StreamControl, AtEOF
    <3>3. Stream = logged
      <4>1. \A s \in Seq(Nat) : s \o <<>> = s
        BY ConcatEmptySeq
      <4> QED
        BY <3>2, <4>1 DEF Stream, StreamTypes
    <3>4. logged = [i \in 1 .. Len(out) |-> i]
      BY <2>2, <3>3 DEF NothingLost
    <3> QED
      BY <3>4 DEF StreamTypes
  <2>3. ASSUME ~timedOut, scan # "failed", capture
        PROVE  result.output = Len(out)
    BY <2>3 DEF Returned
  <2> QED
    BY <2>1, <2>2, <2>3
<1> QED
  BY <1>1, Invariant, PTL

=============================================================================
