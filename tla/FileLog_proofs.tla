--------------------------- MODULE FileLog_proofs ---------------------------
(***************************************************************************)
(* Theorems about the file log, for any number of callers, any chunk size  *)
(* and any amount of output.                                               *)
(***************************************************************************)
EXTENDS FileLog, SequenceTheorems, TLAPS

LEMMA MinOfTwo ==
    ASSUME NEW m \in Nat, NEW n \in Nat
    PROVE  Min({m, n}) = IF m <= n THEN m ELSE n
<1>1. CASE m <= n
  <2>1. \A x \in {m, n} : (\A y \in {m, n} : x <= y) <=> x = m
    BY <1>1
  <2> QED
    BY <1>1, <2>1 DEF Min
<1>2. CASE ~(m <= n)
  <2>1. \A x \in {m, n} : (\A y \in {m, n} : x <= y) <=> x = n
    BY <1>2
  <2> QED
    BY <1>2, <2>1 DEF Min
<1> QED
  BY <1>1, <1>2

LEMMA TypesInitially ==
    ASSUME Init
    PROVE  TypeOK /\ Rounds
<1> USE FileLogAssumption DEF Init
<1>1. running \in BOOLEAN /\ complete \in BOOLEAN /\ reporting \in BOOLEAN
      /\ refused \in BOOLEAN /\ readError \in BOOLEAN
  OBVIOUS
<1>2. caller \in [Callers -> {"idle", "signal", "waiting"}]
  OBVIOUS
<1>3. TypeOK
  BY <1>1, <1>2 DEF TypeOK
<1>4. Rounds
  BY DEF Rounds
<1> QED
  BY <1>3, <1>4

LEMMA TypesStep ==
    ASSUME TypeOK, Rounds, [Next]_vars
    PROVE  TypeOK' /\ Rounds'
<1> USE FileLogAssumption DEF TypeOK, Rounds
<1> DEFINE Goal == TypeOK' /\ Rounds'
<1>1. ASSUME Write
      PROVE  Goal
  BY <1>1 DEF Write, tailVars, callVars
<1>2. ASSUME Flush
      PROVE  Goal
  BY <1>2 DEF Flush, TailUnchanged, callVars
<1>3. ASSUME Read
      PROVE  Goal
  <2>1. read' = IF written <= read + ChunkSize THEN written ELSE read + ChunkSize
    BY <1>3, MinOfTwo DEF Read
  <2> QED
    BY <1>3, <2>1 DEF Read, TailUnchanged, callVars
<1>4. ASSUME ReadEOF \/ ReadFails
      PROVE  Goal
  <2>1. UNCHANGED <<written, read, sent, running, pushed, refused, callVars>>
        /\ tail = "read" /\ readError' \in BOOLEAN
    BY <1>4 DEF ReadEOF, ReadFails, TailUnchanged
  <2>2. \/ read > sent /\ tail' = "pushRest" /\ complete' = complete
        \/ ~(read > sent) /\ tail' = "wait" /\ complete' = complete
        \/ ~(read > sent) /\ tail' = "done" /\ complete' = TRUE
    BY <1>4 DEF ReadEOF, ReadFails, ReadStops, EndRound, Return
  <2>3. complete' \in BOOLEAN /\ (tail' = "done" => complete')
    BY <2>1, <2>2
  <2>4. TypeOK'
    BY <2>1, <2>2, <2>3 DEF callVars
  <2>5. Rounds'
    BY <2>1, <2>2, <2>3 DEF callVars
  <2> QED
    BY <2>4, <2>5
<1>5. ASSUME PushAccepted
      PROVE  Goal
  <2>1. [from |-> sent, to |-> read] \in [from : Nat, to : Nat]
    OBVIOUS
  <2>2. pushed' \in Seq([from : Nat, to : Nat])
    BY <1>5, <2>1 DEF PushAccepted
  <2>3. UNCHANGED <<written, read, running, refused, readError, callVars>>
        /\ tail \in {"pushFull", "pushRest"} /\ sent' = read
    BY <1>5 DEF PushAccepted, TailUnchanged
  <2>4. \/ tail' \in {"read", "wait"} /\ complete' = complete
        \/ tail' = "done" /\ complete' = TRUE
    BY <1>5 DEF PushAccepted, EndRound, Return
  <2>5. complete' \in BOOLEAN /\ (tail' = "done" => complete')
    BY <2>2, <2>3, <2>4
  <2>6. TypeOK'
    BY <2>2, <2>3, <2>4, <2>5 DEF callVars
  <2>7. Rounds'
    BY <2>2, <2>3, <2>4, <2>5 DEF callVars
  <2> QED
    BY <2>6, <2>7
<1>6. ASSUME PushRefused
      PROVE  Goal
  BY <1>6 DEF PushRefused, Return, TailUnchanged, callVars
<1>7. ASSUME NEW c \in Callers, StartReporting(c)
      PROVE  Goal
  BY <1>7 DEF StartReporting
<1>8. ASSUME NEW c \in Callers, ShutdownBegins(c)
      PROVE  Goal
  <2>1. UNCHANGED <<written, read, sent, tail, running, pushed, refused, readError, reporting>>
        /\ caller[c] = "idle" /\ lock = NoCaller
    BY <1>8 DEF ShutdownBegins
  <2>2. CASE reporting
    <3>1. /\ lock' = c /\ caller' = [caller EXCEPT ![c] = "signal"]
          /\ owed' \in {owed, written} /\ complete' = complete
      BY <1>8, <2>2 DEF ShutdownBegins
    <3> QED
      BY <2>1, <2>2, <3>1
  <2>3. CASE ~reporting
    <3>1. complete' = TRUE /\ UNCHANGED <<lock, caller, owed>>
      BY <1>8, <2>3 DEF ShutdownBegins
    <3> QED
      BY <2>1, <2>3, <3>1
  <2> QED
    BY <2>2, <2>3
<1>9. ASSUME NEW c \in Callers, ShutdownSignal(c)
      PROVE  Goal
  <2>1. UNCHANGED <<written, read, sent, pushed, refused, readError, reporting, lock, owed>>
        /\ caller[c] = "signal" /\ caller' = [caller EXCEPT ![c] = "waiting"]
    BY <1>9 DEF ShutdownSignal
  <2>2. \/ tail = "wait" /\ tail' = "read" /\ running' = FALSE /\ complete' = complete
        \/ tail = "refused" /\ tail' = "done" /\ complete' = TRUE /\ running' = running
    BY <1>9 DEF ShutdownSignal, Return
  <2>3. reporting
    BY <2>2
  <2>4. complete' \in BOOLEAN /\ (tail' = "done" => complete')
    BY <2>1, <2>2, <2>3
  <2>5. running' \in BOOLEAN /\ caller' \in [Callers -> {"idle", "signal", "waiting"}]
    BY <2>1, <2>2
  <2>6. TypeOK'
    <3>1. tail' = "read" => read - sent < ChunkSize
      BY <2>2
    <3> QED
      BY <2>1, <2>2, <2>4, <2>5, <3>1
  <2>7. Rounds'
    BY <2>1, <2>2, <2>3, <2>4
  <2> QED
    BY <2>6, <2>7
<1>10. ASSUME NEW c \in Callers, ShutdownReturns(c)
      PROVE  Goal
  BY <1>10 DEF ShutdownReturns, tailVars
<1>11. ASSUME UNCHANGED vars
      PROVE  Goal
  BY <1>11 DEF vars, tailVars, callVars
<1> HIDE DEF Goal
<1>12. Goal
  BY <1>1, <1>2, <1>3, <1>4, <1>5, <1>6, <1>7, <1>8, <1>9, <1>10, <1>11 DEF Next, TailStep
<1> QED
  BY <1>12 DEF Goal

LEMMA PrefixStep ==
    ASSUME TypeOK, Rounds, PushedIsPrefix, [Next]_vars
    PROVE  PushedIsPrefix'
<1>1. CASE UNCHANGED <<sent, pushed>>
  BY <1>1 DEF PushedIsPrefix
<1>2. CASE PushAccepted
  <2> DEFINE new == [from |-> sent, to |-> read]
  <2>1. pushed' = Append(pushed, new) /\ sent' = read /\ sent < read
    BY <1>2 DEF PushAccepted, Rounds
  <2>2. /\ pushed \in Seq([from : Nat, to : Nat]) /\ new \in [from : Nat, to : Nat]
        /\ sent \in Nat /\ read \in Nat
    BY DEF TypeOK
  <2> HIDE DEF new
  <2>3. /\ Len(pushed) \in Nat /\ DOMAIN pushed = 1 .. Len(pushed)
        /\ Len(pushed') = Len(pushed) + 1 /\ DOMAIN pushed' = 1 .. Len(pushed) + 1
        /\ pushed'[Len(pushed) + 1] = new
        /\ \A k \in 1 .. Len(pushed) : pushed'[k] = pushed[k]
        /\ pushed' # <<>>
    BY <2>1, <2>2
  <2>4. new.from = sent /\ new.to = read
    BY DEF new
  <2>5. ASSUME NEW k \in DOMAIN pushed'
        PROVE  /\ pushed'[k].from < pushed'[k].to
               /\ pushed'[k].from = IF k = 1 THEN 0 ELSE pushed'[k - 1].to
    <3>1. CASE k \in DOMAIN pushed
      BY <2>3, <3>1 DEF PushedIsPrefix
    <3>2. CASE k = Len(pushed) + 1
      <4>1. pushed'[k].from = sent /\ pushed'[k].to = read
        BY <2>3, <2>4, <3>2
      <4>2. CASE pushed = <<>>
        BY <2>1, <3>2, <4>1, <4>2 DEF PushedIsPrefix
      <4>3. CASE pushed # <<>>
        <5>1. k # 1 /\ k - 1 = Len(pushed) /\ Len(pushed) \in 1 .. Len(pushed)
          BY <2>2, <2>3, <3>2, <4>3
        <5> QED
          BY <2>1, <2>3, <4>1, <4>3, <5>1 DEF PushedIsPrefix
      <4> QED
        BY <4>2, <4>3
    <3> QED
      BY <2>3, <3>1, <3>2
  <2> QED
    BY <2>1, <2>3, <2>4, <2>5 DEF PushedIsPrefix
<1>3. PushAccepted \/ UNCHANGED <<sent, pushed>>
  BY DEF Next, TailStep, Write, Flush, Read, ReadEOF, ReadFails, PushRefused, StartReporting,
         ShutdownBegins, ShutdownSignal, ShutdownReturns, vars, tailVars
<1> QED
  BY <1>1, <1>2, <1>3

LEMMA LastRoundStep ==
    ASSUME TypeOK, Rounds, LastRound, ShutdownDelivers, [Next]_vars
    PROVE  LastRound' /\ ShutdownDelivers'
<1> USE FileLogAssumption DEF TypeOK, Rounds, LastRound, ShutdownDelivers
<1> DEFINE Goal == LastRound' /\ ShutdownDelivers'
<1>1. ASSUME Write \/ Flush \/ Read
      PROVE  Goal
  BY <1>1 DEF Write, Flush, Read, TailUnchanged, callVars, tailVars
<1>2. ASSUME ReadEOF
      PROVE  Goal
  <2>1. UNCHANGED <<written, read, sent, running, refused, readError, lock, owed>> /\ read = written
    BY <1>2 DEF ReadEOF, TailUnchanged, callVars
  <2>2. \/ tail' \in {"wait", "pushRest"} /\ complete' = complete
        \/ read = sent /\ tail' = "done" /\ complete' = TRUE
    BY <1>2 DEF ReadEOF, ReadStops, EndRound, Return
  <2> QED
    BY <2>1, <2>2
<1>3. ASSUME ReadFails
      PROVE  Goal
  <2>1. UNCHANGED <<running, lock>> /\ readError'
    BY <1>3 DEF ReadFails, TailUnchanged, callVars
  <2>2. complete' = complete \/ complete' = TRUE
    BY <1>3 DEF ReadFails, ReadStops, EndRound, Return
  <2> QED
    BY <2>1, <2>2
<1>4. ASSUME PushAccepted
      PROVE  Goal
  <2>1. /\ UNCHANGED <<read, running, refused, readError, lock, owed>> /\ sent' = read
        /\ tail \in {"pushFull", "pushRest"}
    BY <1>4 DEF PushAccepted, TailUnchanged, callVars
  <2>2. \/ tail' \in {"read", "wait"} /\ complete' = complete
        \/ tail = "pushRest" /\ ~running /\ tail' = "done" /\ complete' = TRUE
    BY <1>4 DEF PushAccepted, EndRound, Return
  <2> QED
    BY <2>1, <2>2
<1>5. ASSUME PushRefused
      PROVE  Goal
  <2>1. UNCHANGED <<running, lock>> /\ refused' /\ tail' # "pushRest"
    BY <1>5 DEF PushRefused, TailUnchanged, callVars, Return
  <2>2. complete' = complete \/ complete' = TRUE
    BY <1>5 DEF PushRefused, Return
  <2> QED
    BY <2>1, <2>2
<1>6. ASSUME NEW c \in Callers, StartReporting(c)
      PROVE  Goal
  BY <1>6 DEF StartReporting
<1>7. ASSUME NEW c \in Callers, ShutdownBegins(c)
      PROVE  Goal
  <2>1. UNCHANGED <<read, sent, tail, running, refused, readError>> /\ lock = NoCaller
    BY <1>7 DEF ShutdownBegins
  <2>2. CASE reporting
    <3>1. lock' = c /\ complete' = complete /\ owed' = IF complete THEN owed ELSE written
      BY <1>7, <2>2 DEF ShutdownBegins
    <3>2. CASE complete
      BY <2>1, <3>1, <3>2
    <3>3. CASE ~complete
      BY <2>1, <3>1, <3>3
    <3> QED
      BY <3>2, <3>3
  <2>3. CASE ~reporting
    <3>1. complete' = TRUE /\ UNCHANGED <<lock, owed>>
      BY <1>7, <2>3 DEF ShutdownBegins
    <3> QED
      BY <2>1, <2>3, <3>1
  <2> QED
    BY <2>2, <2>3
<1>8. ASSUME NEW c \in Callers, ShutdownSignal(c)
      PROVE  Goal
  <2>1. UNCHANGED <<sent, refused, readError, lock, owed>> /\ lock = c
    BY <1>8 DEF ShutdownSignal
  <2>2. \/ tail = "wait" /\ tail' = "read" /\ complete' = complete
        \/ tail = "refused" /\ tail' = "done" /\ complete' = TRUE
    BY <1>8 DEF ShutdownSignal, Return
  <2> QED
    BY <2>1, <2>2
<1>9. ASSUME NEW c \in Callers, ShutdownReturns(c)
      PROVE  Goal
  BY <1>9 DEF ShutdownReturns, tailVars
<1>10. ASSUME UNCHANGED vars
      PROVE  Goal
  BY <1>10 DEF vars, tailVars, callVars
<1> HIDE DEF Goal
<1>11. Goal
  BY <1>1, <1>2, <1>3, <1>4, <1>5, <1>6, <1>7, <1>8, <1>9, <1>10 DEF Next, TailStep
<1> QED
  BY <1>11 DEF Goal

-----------------------------------------------------------------------------
(* The theorems *)

IInv == TypeOK /\ Rounds /\ LastRound /\ PushedIsPrefix /\ ShutdownDelivers

LEMMA Invariant == Spec => []IInv
<1>1. Init => IInv
  <2> SUFFICES ASSUME Init
               PROVE  IInv
    OBVIOUS
  <2>1. TypeOK /\ Rounds
    BY TypesInitially
  <2>2. LastRound /\ PushedIsPrefix /\ ShutdownDelivers
    BY DEF Init, LastRound, PushedIsPrefix, ShutdownDelivers
  <2> QED
    BY <2>1, <2>2 DEF IInv
<1>2. IInv /\ [Next]_vars => IInv'
  BY TypesStep, PrefixStep, LastRoundStep DEF IInv
<1> QED
  BY <1>1, <1>2, PTL DEF Spec

\* The variables keep their types, and "send" holds less than two chunks.
THEOREM FileLogTypeCorrect == Spec => []TypeOK
<1>1. IInv => TypeOK
  BY DEF IInv
<1> QED
  BY <1>1, Invariant, PTL

\* What the reporter has accepted is the beginning of the file, without gaps
\* or repetitions, in chunks that are not empty.
THEOREM ReporterGetsPrefix == Spec => []PushedIsPrefix
<1>1. IInv => PushedIsPrefix
  BY DEF IInv
<1> QED
  BY <1>1, Invariant, PTL

\* After Shutdown the reporter has all that was in the file when Shutdown
\* began, unless it refused a chunk or a read failed.
THEOREM LastRoundDelivers == Spec => []ShutdownDelivers
<1>1. IInv => ShutdownDelivers
  BY DEF IInv
<1> QED
  BY <1>1, Invariant, PTL

=============================================================================
