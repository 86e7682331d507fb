-------------------------- MODULE StatGauge_proofs --------------------------
(***************************************************************************)
(* Proofs about StatGauge, for any number of gauges and any amounts.        *)
(***************************************************************************)
EXTENDS StatGauge, TLAPS

\* The order in which a report visits the gauges.
LEMMA GaugeOrder ==
  ASSUME NEW g \in Gauge
  PROVE  /\ g < Gauges => g + 1 \in Gauge
         /\ ~(g < Gauges) => \A h \in Gauge : h < g \/ h = g
BY GaugeAssumption DEF GaugeAssumption, Gauge

LEMMA InvInit == Init => Inv
<1> SUFFICES ASSUME Init PROVE Inv
  OBVIOUS
<1> USE GaugeAssumption DEF GaugeAssumption, Init, Gauge, Reporter
<1>1. TypeOK
  <2>1. killed \in BOOLEAN
    OBVIOUS
  <2>2. running \in [Gauge -> BOOLEAN]
    BY Zenon
  <2>3. /\ count \in [Gauge -> Int] /\ counted \in [Gauge -> Nat]
        /\ reported \in [Gauge -> Int] /\ val \in [Reporter -> Int]
        /\ pc \in [Reporter -> {"idle", "get", "subtract", "write"}]
        /\ gauge \in [Reporter -> Gauge] /\ lock \in Reporter \cup {"free"}
        /\ jvm \in {"up", "hook", "reported", "halted"}
        /\ main \in {"start", "join", "dead"}
    OBVIOUS
  <2> QED
    BY <2>1, <2>2, <2>3 DEF TypeOK
<1>2. Conserved
  BY DEF Conserved, Taken
<1>3. LockInv /\ HookInv
  BY DEF LockInv, HookInv
<1> QED
  BY <1>1, <1>2, <1>3 DEF Inv

LEMMA TypeStep ==
  ASSUME TypeOK, Next
  PROVE  TypeOK'
<1> USE DEF TypeOK, counterVars, reporterVars, jvmVars
<1>1. ASSUME NEW g \in Gauge, NEW n \in Batch, Count(g, n) PROVE TypeOK'
  <2>1. n \in Nat /\ count[g] + n \in Int /\ counted[g] + n \in Nat
    BY GaugeAssumption DEF GaugeAssumption
  <2> QED
    BY <1>1, <2>1 DEF Count
<1>2. ASSUME NEW g \in Gauge, ThreadEnds(g) PROVE TypeOK'
  BY <1>2 DEF ThreadEnds
<1>3. ASSUME NEW r \in Reporter, Report(r) PROVE TypeOK'
  BY <1>3, GaugeAssumption DEF Report, Gauge, GaugeAssumption
<1>4. ASSUME NEW r \in Reporter, Get(r) PROVE TypeOK'
  BY <1>4 DEF Get
<1>5. ASSUME NEW r \in Reporter, Subtract(r) PROVE TypeOK'
  <2>1. count[gauge[r]] - val[r] \in Int
    OBVIOUS
  <2> QED
    BY <1>5, <2>1 DEF Subtract
<1>6. ASSUME NEW r \in Reporter, Write(r) PROVE TypeOK'
  <2>1. reported[gauge[r]] + val[r] \in Int
    OBVIOUS
  <2>2. gauge[r] < Gauges => gauge[r] + 1 \in Gauge
    <3>1. gauge[r] \in Gauge
      OBVIOUS
    <3> QED
      BY <3>1, GaugeOrder
  <2>3. reported' \in [Gauge -> Int]
    BY <1>6, <2>1 DEF Write
  <2>4. CASE gauge[r] < Gauges
    BY <1>6, <2>2, <2>3, <2>4 DEF Write
  <2>5. CASE ~(gauge[r] < Gauges)
    BY <1>6, <2>3, <2>5 DEF Write
  <2> QED
    BY <2>4, <2>5
<1>7. CASE RegisterHook \/ MainDies \/ ShutDown \/ Halt \/ Halted
  BY <1>7 DEF RegisterHook, MainDies, ShutDown, Halt, Halted, vars
<1> QED
  BY <1>1, <1>2, <1>3, <1>4, <1>5, <1>6, <1>7 DEF Next

LEMMA ConservedStep ==
  ASSUME Inv, Next
  PROVE  Conserved'
<1> USE DEF Inv, TypeOK, Conserved, Taken, Reporter, counterVars, reporterVars, jvmVars
<1>1. ASSUME NEW g \in Gauge, NEW n \in Batch, Count(g, n) PROVE Conserved'
  <2> SUFFICES ASSUME NEW h \in Gauge
               PROVE  counted'[h] = count'[h] + Taken("csv", h)' + Taken("hook", h)'
                                      + reported'[h]
    BY DEF Conserved
  <2>1. n \in Nat
    BY GaugeAssumption DEF GaugeAssumption
  <2>2. counted[h] = count[h] + Taken("csv", h) + Taken("hook", h) + reported[h]
    OBVIOUS
  <2>3. CASE h = g
    BY <1>1, <2>1, <2>2, <2>3 DEF Count
  <2>4. CASE h # g
    BY <1>1, <2>2, <2>4 DEF Count
  <2> QED
    BY <2>3, <2>4
<1>2. ASSUME NEW g \in Gauge, ThreadEnds(g) PROVE Conserved'
  BY <1>2 DEF ThreadEnds
<1>3. ASSUME NEW r \in Reporter, Report(r) PROVE Conserved'
  BY <1>3 DEF Report
<1>4. ASSUME NEW r \in Reporter, Get(r) PROVE Conserved'
  BY <1>4 DEF Get
<1>5. ASSUME NEW r \in Reporter, Subtract(r) PROVE Conserved'
  BY <1>5 DEF Subtract
<1>6. ASSUME NEW r \in Reporter, Write(r) PROVE Conserved'
  <2> SUFFICES ASSUME NEW h \in Gauge
               PROVE  counted'[h] = count'[h] + Taken("csv", h)' + Taken("hook", h)'
                                      + reported'[h]
    BY DEF Conserved
  <2>1. counted[h] = count[h] + Taken("csv", h) + Taken("hook", h) + reported[h]
    OBVIOUS
  <2>2. pc[r] = "write" /\ pc'[r] # "write" /\ UNCHANGED <<counted, count, val>>
    BY <1>6 DEF Write
  <2>3. \A q \in Reporter \ {r} : pc'[q] = pc[q] /\ gauge'[q] = gauge[q]
    BY <1>6 DEF Write
  <2>4. CASE h = gauge[r]
    BY <1>6, <2>1, <2>2, <2>3, <2>4 DEF Write
  <2>5. CASE h # gauge[r]
    BY <1>6, <2>1, <2>2, <2>3, <2>5 DEF Write
  <2> QED
    BY <2>4, <2>5
<1>7. CASE RegisterHook \/ MainDies \/ ShutDown \/ Halt \/ Halted
  BY <1>7 DEF RegisterHook, MainDies, ShutDown, Halt, Halted, vars
<1> QED
  BY <1>1, <1>2, <1>3, <1>4, <1>5, <1>6, <1>7 DEF Next

LEMMA LockStep ==
  ASSUME Inv, Next
  PROVE  LockInv'
<1> USE DEF Inv, TypeOK, LockInv, Reporter, counterVars, reporterVars, jvmVars
<1>1. ASSUME NEW g \in Gauge, NEW n \in Batch, Count(g, n) PROVE LockInv'
  <2>1. n \in Nat
    BY GaugeAssumption DEF GaugeAssumption
  <2>2. \A h \in Gauge : count'[h] \in Int /\ count'[h] >= count[h]
    BY <1>1, <2>1 DEF Count
  <2> QED
    BY <1>1, <2>2 DEF Count
<1>2. ASSUME NEW g \in Gauge, ThreadEnds(g) PROVE LockInv'
  BY <1>2 DEF ThreadEnds
<1>3. ASSUME NEW r \in Reporter, Report(r) PROVE LockInv'
  BY <1>3 DEF Report
<1>4. ASSUME NEW r \in Reporter, Get(r) PROVE LockInv'
  BY <1>4 DEF Get
<1>5. ASSUME NEW r \in Reporter, Subtract(r) PROVE LockInv'
  BY <1>5 DEF Subtract
<1>6. ASSUME NEW r \in Reporter, Write(r) PROVE LockInv'
  BY <1>6 DEF Write
<1>7. CASE RegisterHook \/ MainDies \/ ShutDown \/ Halt \/ Halted
  BY <1>7 DEF RegisterHook, MainDies, ShutDown, Halt, Halted, vars
<1> QED
  BY <1>1, <1>2, <1>3, <1>4, <1>5, <1>6, <1>7 DEF Next

LEMMA HookStep ==
  ASSUME Inv, Next
  PROVE  HookInv'
<1> USE DEF Inv, TypeOK, LockInv, HookInv, Taken, AllEnded, Gauge, Reporter, counterVars,
            reporterVars, jvmVars
<1>1. ASSUME NEW g \in Gauge, NEW n \in Batch, Count(g, n) PROVE HookInv'
  BY <1>1 DEF Count
<1>2. ASSUME NEW g \in Gauge, ThreadEnds(g) PROVE HookInv'
  BY <1>2 DEF ThreadEnds
<1>3. ASSUME NEW r \in Reporter, Report(r) PROVE HookInv'
  BY <1>3 DEF Report
<1>4. ASSUME NEW r \in Reporter, Get(r) PROVE HookInv'
  BY <1>4 DEF Get
<1>5. ASSUME NEW r \in Reporter, Subtract(r) PROVE HookInv'
  BY <1>5 DEF Subtract
<1>6. ASSUME NEW r \in Reporter, Write(r) PROVE HookInv'
  <2>1. gauge[r] \in Gauge /\ count' = count /\ val' = val /\ running' = running
    BY <1>6 DEF Write
  <2>2. \A q \in Reporter \ {r} : pc[q] = "idle"
    BY <1>6 DEF Write
  <2>3. CASE r = "csv"
    BY <1>6, <2>1, <2>2, <2>3 DEF Write
  <2>4. CASE r = "hook"
    <3>1. CASE gauge[r] < Gauges
      BY <1>6, <2>1, <2>2, <2>4, <3>1 DEF Write
    <3>2. CASE ~(gauge[r] < Gauges)
      <4>1. \A h \in Gauge : h < gauge[r] \/ h = gauge[r]
        BY <2>1, <3>2, GaugeOrder
      <4>2. pc'["hook"] = "idle" /\ pc'["csv"] = "idle" /\ jvm' = "reported" /\ jvm = "hook"
        BY <1>6, <2>2, <2>4, <3>2 DEF Write
      <4>3. main = "join" /\ ~killed => AllEnded /\ \A h \in Gauge : count[h] = 0
        BY <1>6, <2>4, <4>1, <4>2 DEF Write
      <4>4. killed' = killed /\ main' = main /\ main = "join"
        BY <1>6, <2>4, <3>2, <4>2 DEF Write
      <4> QED
        BY <2>1, <4>2, <4>3, <4>4
    <3> QED
      BY <3>1, <3>2
  <2> QED
    BY <2>3, <2>4
<1>7. CASE RegisterHook \/ MainDies \/ ShutDown \/ Halt \/ Halted
  BY <1>7 DEF RegisterHook, MainDies, ShutDown, Halt, Halted, vars
<1> QED
  BY <1>1, <1>2, <1>3, <1>4, <1>5, <1>6, <1>7 DEF Next

-----------------------------------------------------------------------------

\* Inv is an inductive invariant.
THEOREM GaugeInvariant == Spec => []Inv
<1>1. Inv /\ UNCHANGED vars => Inv'
  <2> SUFFICES ASSUME Inv, UNCHANGED vars PROVE Inv'
    OBVIOUS
  <2> USE DEF Inv, vars, counterVars, reporterVars, jvmVars
  <2>1. TypeOK' /\ Conserved'
    BY DEF TypeOK, Conserved, Taken
  <2>2. LockInv' /\ HookInv'
    BY DEF LockInv, HookInv, AllEnded, Taken
  <2> QED
    BY <2>1, <2>2
<1>2. Inv /\ [Next]_vars => Inv'
  BY <1>1, TypeStep, ConservedStep, LockStep, HookStep DEF Inv
<1> QED
  BY <1>2, InvInit, PTL DEF Spec

\* The values of the counters, the reporters' locals and the JVM's state; a gauge
\* index never leaves the registered gauges.
THEOREM GaugeTypeOK == Spec => []TypeOK
<1>1. Inv => TypeOK
  BY DEF Inv
<1> QED
  BY <1>1, GaugeInvariant, PTL

\* Counter, reporters and file together hold every count, always.
THEOREM GaugeConserved == Spec => []Conserved
<1>1. Inv => Conserved
  BY DEF Inv
<1> QED
  BY <1>1, GaugeInvariant, PTL

\* The file never claims more than was counted.
THEOREM GaugeNeverOverReported == Spec => []NeverOverReported
<1>1. Inv => NeverOverReported
  <2> SUFFICES ASSUME Inv, NEW g \in Gauge PROVE reported[g] <= counted[g]
    BY DEF NeverOverReported
  <2>1. /\ counted[g] = count[g] + Taken("csv", g) + Taken("hook", g) + reported[g]
        /\ count[g] \in Int /\ reported[g] \in Int /\ count[g] >= 0
    BY DEF Inv, TypeOK, Conserved, LockInv
  <2>2. \A r \in Reporter : Taken(r, g) \in Int /\ Taken(r, g) >= 0
    BY DEF Inv, TypeOK, LockInv, Taken
  <2> QED
    BY <2>1, <2>2 DEF Reporter
<1> QED
  BY <1>1, GaugeInvariant, PTL

\* A test whose main has registered the hook and that ends by itself leaves a complete
\* file.
THEOREM GaugeCompleteReport == Spec => []CompleteReport
<1>1. Inv => CompleteReport
  <2> SUFFICES ASSUME Inv, main = "join", jvm \in {"reported", "halted"}, ~killed
               PROVE  reported = counted
    BY DEF CompleteReport
  <2>1. pc["hook"] = "idle"
    BY DEF Inv, HookInv
  <2>2. \A g \in Gauge : count[g] = 0 /\ Taken("csv", g) = 0 /\ Taken("hook", g) = 0
    BY <2>1 DEF Inv, HookInv, Taken
  <2>3. \A g \in Gauge : reported[g] = counted[g]
    BY <2>2 DEF Inv, TypeOK, Conserved
  <2> QED
    BY <2>3 DEF Inv, TypeOK
<1> QED
  BY <1>1, GaugeInvariant, PTL
=============================================================================
