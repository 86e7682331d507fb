------------------------ MODULE AtLeastOnceLog_proofs ------------------------
(***************************************************************************)
(* Proofs about AtLeastOnceLog, for every number of messages: the log has   *)
(* no gap and holds everything that is settled.                             *)
(***************************************************************************)
EXTENDS AtLeastOnceLog, SequenceTheorems, TLAPS

\* The types of the state, and that only accepted messages are settled.
LogTypeOK ==
  /\ accepted \in 0..MessageCount
  /\ settled \in 0..accepted
  /\ log \in Seq(1..MessageCount)
  /\ shut \in BOOLEAN

LogInv == LogTypeOK /\ LogHasNoGap /\ SettledInLog

-----------------------------------------------------------------------------

\* A delivered run consists of messages, numbered consecutively.
LEMMA RunType ==
  ASSUME NEW n \in 0..(MessageCount - settled), settled \in Nat
  PROVE  /\ Run(n) \in Seq(1..MessageCount)
         /\ Len(Run(n)) = n
         /\ \A j \in 1..n : Run(n)[j] = settled + j
BY LogAssumption DEF Run

\* Where the elements of a log with a run appended come from.
LEMMA RunAppended ==
  ASSUME LogTypeOK, NEW n \in 0..(MessageCount - settled)
  PROVE  /\ log \o Run(n) \in Seq(1..MessageCount)
         /\ Len(log \o Run(n)) = Len(log) + n
         /\ \A p \in 1..Len(log) : (log \o Run(n))[p] = log[p]
         /\ \A j \in 1..n : (log \o Run(n))[Len(log) + j] = settled + j
<1>1. settled \in Nat
  BY LogAssumption DEF LogTypeOK
<1>2. /\ Run(n) \in Seq(1..MessageCount)
      /\ Len(Run(n)) = n
      /\ \A j \in 1..n : Run(n)[j] = settled + j
  BY <1>1, RunType
<1>3. log \in Seq(1..MessageCount)
  BY DEF LogTypeOK
<1>4. /\ Len(log \o Run(n)) = Len(log) + Len(Run(n))
      /\ \A p \in 1..(Len(log) + Len(Run(n))) :
           (log \o Run(n))[p] = IF p <= Len(log) THEN log[p] ELSE Run(n)[p - Len(log)]
  BY <1>2, <1>3, ConcatProperties
<1>5. log \o Run(n) \in Seq(1..MessageCount)
  BY <1>2, <1>3, ConcatProperties
<1>6. Len(log) \in Nat /\ n \in Nat
  BY <1>1, <1>3, LogAssumption
<1>7. ASSUME NEW j \in 1..n
      PROVE  (log \o Run(n))[Len(log) + j] = settled + j
  <2>1. Len(log) + j \in 1..(Len(log) + Len(Run(n))) /\ ~(Len(log) + j <= Len(log))
        /\ (Len(log) + j) - Len(log) = j
    BY <1>2, <1>6
  <2> QED
    BY <1>2, <1>4, <2>1
<1> QED
  BY <1>2, <1>4, <1>5, <1>6, <1>7

\* Appending a run that starts behind the settled messages makes no gap, and
\* settling the run afterwards settles only messages of the log.
LEMMA DeliverKeepsLog ==
  ASSUME LogInv, NEW n \in 1..(accepted - settled), Deliver(n)
  PROVE  LogInv'
<1> USE LogAssumption
<1>1. n \in 0..(MessageCount - settled) /\ settled \in Nat /\ n \in Nat
  BY DEF LogInv, LogTypeOK
<1>2. /\ log' \in Seq(1..MessageCount)
      /\ Len(log') = Len(log) + n
      /\ \A p \in 1..Len(log) : log'[p] = log[p]
      /\ \A j \in 1..n : log'[Len(log) + j] = settled + j
  BY <1>1, RunAppended DEF Deliver, LogInv
<1>3. LogTypeOK'
  BY <1>1, <1>2 DEF LogInv, LogTypeOK, Deliver
<1>4. Len(log) \in Nat
  BY DEF LogInv, LogTypeOK
<1>5. ASSUME NEW m \in 1..settled
      PROVE  \E p \in 1..Len(log) : log'[p] = m
  BY <1>2, <1>5 DEF LogInv, SettledInLog
<1>6. ASSUME NEW j \in 1..n, NEW m \in 1..(settled + j - 1)
      PROVE  \E q \in 1..(Len(log) + j - 1) : log'[q] = m
  <2>1. CASE m <= settled
    <3>1. PICK p \in 1..Len(log) : log'[p] = m
      BY <1>1, <1>5, <2>1
    <3> QED
      BY <1>1, <1>4, <3>1
  <2>2. CASE m > settled
    <3>1. m - settled \in 1..n /\ Len(log) + (m - settled) \in 1..(Len(log) + j - 1)
      BY <1>1, <1>4, <2>2
    <3>2. log'[Len(log) + (m - settled)] = settled + (m - settled)
      BY <1>2, <3>1
    <3> QED
      BY <1>1, <3>1, <3>2
  <2> QED
    BY <1>1, <2>1, <2>2
<1>7. LogHasNoGap'
  <2> SUFFICES ASSUME NEW p \in 1..Len(log'), NEW m \in 1..(log'[p] - 1)
               PROVE  \E q \in 1..(p - 1) : log'[q] = m
    BY DEF LogHasNoGap
  <2>1. CASE p \in 1..Len(log)
    <3>1. log'[p] = log[p]
      BY <1>2, <2>1
    <3>2. PICK q \in 1..(p - 1) : log[q] = m
      BY <2>1, <3>1 DEF LogInv, LogHasNoGap
    <3>3. q \in 1..Len(log)
      BY <1>4, <2>1
    <3> QED
      BY <1>2, <3>2, <3>3
  <2>2. CASE p \notin 1..Len(log)
    <3>1. p - Len(log) \in 1..n
      BY <1>1, <1>2, <1>4, <2>2
    <3>2. log'[Len(log) + (p - Len(log))] = settled + (p - Len(log))
      BY <1>2, <3>1
    <3>3. log'[p] = settled + (p - Len(log))
      BY <1>4, <3>1, <3>2
    <3>4. m \in 1..(settled + (p - Len(log)) - 1)
      BY <1>1, <1>4, <3>1, <3>3
    <3>5. PICK q \in 1..(Len(log) + (p - Len(log)) - 1) : log'[q] = m
      BY <1>6, <3>1, <3>4
    <3> QED
      BY <1>4, <3>5
  <2> QED
    BY <2>1, <2>2
<1>8. SettledInLog'
  <2> SUFFICES ASSUME NEW m \in 1..settled'
               PROVE  \E p \in 1..Len(log') : log'[p] = m
    BY DEF SettledInLog
  <2>1. m \in 1..(settled + n)
    BY <1>1 DEF Deliver
  <2>2. CASE m <= settled
    BY <1>1, <1>2, <1>4, <1>5, <2>1, <2>2
  <2>3. CASE m > settled
    <3>1. m - settled \in 1..n
      BY <1>1, <2>1, <2>3
    <3>2. log'[Len(log) + (m - settled)] = settled + (m - settled)
      BY <1>2, <3>1
    <3>3. Len(log) + (m - settled) \in 1..Len(log')
      BY <1>1, <1>2, <1>4, <3>1
    <3> QED
      BY <1>1, <2>1, <3>2, <3>3
  <2> QED
    BY <1>1, <2>1, <2>2, <2>3
<1> QED
  BY <1>3, <1>7, <1>8 DEF LogInv

\* The inductive invariant of the abstract log.
THEOREM LogInvariant == Spec => []LogInv
<1>1. Init => LogInv
  <2> SUFFICES ASSUME Init PROVE LogInv
    OBVIOUS
  <2>1. LogTypeOK
    <3>1. shut \in BOOLEAN
      BY DEF Init
    <3>2. log \in Seq(1..MessageCount)
      BY EmptySeq DEF Init
    <3>3. accepted \in 0..MessageCount /\ settled \in 0..accepted
      BY LogAssumption DEF Init
    <3> QED
      BY <3>1, <3>2, <3>3 DEF LogTypeOK
  <2>2. 1..Len(log) = {} /\ 1..settled = {}
    BY EmptySeq DEF Init
  <2> QED
    BY <2>1, <2>2 DEF LogInv, LogHasNoGap, SettledInLog
<1>2. LogInv /\ [Next]_logVars => LogInv'
  <2> SUFFICES ASSUME LogInv, [Next]_logVars PROVE LogInv'
    OBVIOUS
  <2>1. CASE Accept
    BY <2>1, LogAssumption DEF Accept, LogInv, LogTypeOK, LogHasNoGap, SettledInLog
  <2>2. CASE \E n \in 1..(accepted - settled) : Deliver(n)
    BY <2>2, DeliverKeepsLog
  <2>3. CASE Shut
    BY <2>3 DEF Shut, LogInv, LogTypeOK, LogHasNoGap, SettledInLog
  <2>4. CASE UNCHANGED logVars
    BY <2>4 DEF logVars, LogInv, LogTypeOK, LogHasNoGap, SettledInLog
  <2> QED
    BY <2>1, <2>2, <2>3, <2>4 DEF Next
<1> QED
  BY <1>1, <1>2, PTL DEF Spec

\* A message of the log is preceded by every message before it.
THEOREM LogNoGap == Spec => []LogHasNoGap
<1>1. LogInv => LogHasNoGap
  BY DEF LogInv
<1> QED
  BY <1>1, LogInvariant, PTL

\* A settled message is in the log.
THEOREM LogSettled == Spec => []SettledInLog
<1>1. LogInv => SettledInLog
  BY DEF LogInv
<1> QED
  BY <1>1, LogInvariant, PTL
=============================================================================
