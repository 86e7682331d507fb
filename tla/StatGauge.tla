----------------------------- MODULE StatGauge -----------------------------
(***************************************************************************)
(* How the messages counted by the test's threads reach the CSV statistics. *)
(*                                                                         *)
(* Each publisher or consumer thread adds to a counter of its own           *)
(* (PublisherThread.sentCount, ConsumerThread.receivedCount).  The counter  *)
(* is drained by a gauge whose getValue() is two atomic operations, a get   *)
(* and an addAndGet of the negated value.  Two threads evaluate the gauges: *)
(* the scheduler of Main.csvGaugeReporter, at every interval, and the       *)
(* shutdown hook, once.  CsvReporter.report() of the metrics library is     *)
(* synchronized and visits the gauges one after the other (external).  Main  *)
(* registers the hook behind the start of all threads; when preparing one of *)
(* them throws, main is dead and there is no hook.                          *)
(***************************************************************************)
EXTENDS Integers

CONSTANTS
  Gauges,      \* how many gauges are registered, one per test thread
  MaxCount,    \* bound: what one thread counts before it ends
  Batch        \* the amounts a thread adds: 1, or a transaction batch

ASSUME GaugeAssumption ==
  /\ Gauges \in Nat \ {0}
  /\ MaxCount \in Nat
  /\ Batch \subseteq Nat

VARIABLES
  count,      \* gauge -> the AtomicInteger behind it
  counted,    \* gauge -> everything its thread ever counted (the meter's count)
  reported,   \* gauge -> the sum of its rows in the CSV file
  running,    \* gauge -> its thread still runs
  pc,         \* reporter -> "idle", "get", "subtract", "write"
  gauge,      \* reporter -> the gauge it visits
  val,        \* reporter -> the local of getValue()
  lock,       \* the reporter that is inside report(), or "free"
  jvm,        \* "up", "hook", "reported" (hook's report is done), "halted"
  killed,     \* history: a signal ended the test
  main        \* "start", "join" (the hook is registered), or "dead"

counterVars  == <<count, counted, running>>
reporterVars == <<pc, gauge, val, lock>>
jvmVars      == <<jvm, killed, main>>
vars         == <<counterVars, reporterVars, reported, jvmVars>>

Reporter == {"csv", "hook"}
Gauge    == 1..Gauges

Init ==
  /\ count = [g \in Gauge |-> 0]
  /\ counted = [g \in Gauge |-> 0]
  /\ reported = [g \in Gauge |-> 0]
  /\ running = [g \in Gauge |-> TRUE]
  /\ pc = [r \in Reporter |-> "idle"]
  /\ gauge = [r \in Reporter |-> 1]
  /\ val = [r \in Reporter |-> 0]
  /\ lock = "free"
  /\ jvm = "up"
  /\ killed = FALSE
  /\ main = "start"

-----------------------------------------------------------------------------

\* sentCount.incrementAndGet() or addAndGet(batch), and the meter's mark().
Count(g, n) ==
  /\ running[g]
  /\ jvm # "halted"
  /\ counted[g] + n <= MaxCount
  /\ count' = [count EXCEPT ![g] = @ + n]
  /\ counted' = [counted EXCEPT ![g] = @ + n]
  /\ UNCHANGED <<running, reporterVars, reported, jvmVars>>

ThreadEnds(g) ==
  /\ running[g]
  /\ jvm # "halted"
  /\ running' = [running EXCEPT ![g] = FALSE]
  /\ UNCHANGED <<count, counted, reporterVars, reported, jvmVars>>

\* Variant: report() without the lock.
ReportUnlocked(r) ==
  /\ r = "csv" => jvm # "halted"
  /\ r = "hook" => jvm = "hook"
  /\ pc[r] = "idle"
  /\ lock' = r
  /\ pc' = [pc EXCEPT ![r] = "get"]
  /\ gauge' = [gauge EXCEPT ![r] = 1]
  /\ UNCHANGED <<counterVars, val, reported, jvmVars>>

\* report() is called by the scheduler, or by the hook once, and takes the lock.
Report(r) ==
  /\ r = "csv" => jvm # "halted"
  /\ r = "hook" => jvm = "hook"
  /\ pc[r] = "idle"
  /\ lock = "free"
  /\ lock' = r
  /\ pc' = [pc EXCEPT ![r] = "get"]
  /\ gauge' = [gauge EXCEPT ![r] = 1]
  /\ UNCHANGED <<counterVars, val, reported, jvmVars>>

\* int val = sentCount.get();
Get(r) ==
  /\ jvm # "halted"
  /\ pc[r] = "get"
  /\ val' = [val EXCEPT ![r] = count[gauge[r]]]
  /\ pc' = [pc EXCEPT ![r] = "subtract"]
  /\ UNCHANGED <<counterVars, gauge, lock, reported, jvmVars>>

\* Variant: the counter is set to 0 instead.
SetZero(r) ==
  /\ jvm # "halted"
  /\ pc[r] = "subtract"
  /\ count' = [count EXCEPT ![gauge[r]] = 0]
  /\ pc' = [pc EXCEPT ![r] = "write"]
  /\ UNCHANGED <<counted, running, gauge, val, lock, reported, jvmVars>>

\* sentCount.addAndGet(-val);
Subtract(r) ==
  /\ jvm # "halted"
  /\ pc[r] = "subtract"
  /\ count' = [count EXCEPT ![gauge[r]] = @ - val[r]]
  /\ pc' = [pc EXCEPT ![r] = "write"]
  /\ UNCHANGED <<counted, running, gauge, val, lock, reported, jvmVars>>

\* Variant: the loop over the gauges runs one too far.
WriteOneTooFar(r) ==
  /\ jvm # "halted"
  /\ pc[r] = "write"
  /\ reported' = [reported EXCEPT ![gauge[r]] = @ + val[r]]
  /\ pc' = [pc EXCEPT ![r] = "get"]
  /\ gauge' = [gauge EXCEPT ![r] = @ + 1]
  /\ UNCHANGED <<counterVars, val, lock, jvmVars>>

\* return val; the reporter appends the row and visits the next gauge.
Write(r) ==
  /\ jvm # "halted"
  /\ pc[r] = "write"
  /\ reported' = [reported EXCEPT ![gauge[r]] = @ + val[r]]
  /\ IF gauge[r] < Gauges
       THEN /\ pc' = [pc EXCEPT ![r] = "get"]
            /\ gauge' = [gauge EXCEPT ![r] = @ + 1]
            /\ UNCHANGED <<lock, jvm>>
       ELSE /\ pc' = [pc EXCEPT ![r] = "idle"]
            /\ lock' = "free"
            /\ jvm' = IF r = "hook" THEN "reported" ELSE jvm
            /\ UNCHANGED gauge
  /\ UNCHANGED <<counterVars, val, killed, main>>

\* All threads are started and main goes on to join them.  (A thread has its gauge here
\* from the beginning; one that main never gets to is one that ends without a count.)
RegisterHook ==
  /\ main = "start"
  /\ jvm = "up"
  /\ main' = "join"
  /\ UNCHANGED <<counterVars, reporterVars, reported, jvm, killed>>

\* An exception while a thread is prepared leaves main.
MainDies ==
  /\ main = "start"
  /\ jvm = "up"
  /\ main' = "dead"
  /\ UNCHANGED <<counterVars, reporterVars, reported, jvm, killed>>

\* Variant: the counting threads are daemons and main joins one of them only.
SomeEnded == \E g \in Gauge : ~running[g]

\* The join loop of main is through and, since counting threads are no daemons,
\* so are the handler threads main does not know of.
AllEnded == \A g \in Gauge : ~running[g]

\* The last non-daemon thread, main among them, has ended, or a signal arrives: the JVM
\* starts the shutdown hook, or halts when there is none.
ShutDown ==
  /\ jvm = "up"
  /\ jvm' = IF main = "join" THEN "hook" ELSE "halted"
  /\ \/ main # "start" /\ AllEnded /\ UNCHANGED killed
     \/ killed' = TRUE
  /\ UNCHANGED <<counterVars, reporterVars, reported, main>>

\* The JVM halts when the hook has ended, wherever the other threads are.
Halt ==
  /\ jvm = "reported"
  /\ jvm' = "halted"
  /\ UNCHANGED <<counterVars, reporterVars, reported, killed, main>>

Halted == jvm = "halted" /\ UNCHANGED vars

Next ==
  \/ \E g \in Gauge : ThreadEnds(g) \/ \E n \in Batch : Count(g, n)
  \/ \E r \in Reporter : Report(r) \/ Get(r) \/ Subtract(r) \/ Write(r)
  \/ RegisterHook \/ MainDies
  \/ ShutDown
  \/ Halt
  \/ Halted

Spec == Init /\ [][Next]_vars

-----------------------------------------------------------------------------

TypeOK ==
  /\ count \in [Gauge -> Int]
  /\ counted \in [Gauge -> Nat]
  /\ reported \in [Gauge -> Int]
  /\ running \in [Gauge -> BOOLEAN]
  /\ pc \in [Reporter -> {"idle", "get", "subtract", "write"}]
  /\ gauge \in [Reporter -> Gauge]
  /\ val \in [Reporter -> Int]
  /\ lock \in Reporter \cup {"free"}
  /\ jvm \in {"up", "hook", "reported", "halted"}
  /\ killed \in BOOLEAN
  /\ main \in {"start", "join", "dead"}

\* What reporter r has taken from gauge g and not yet written.
Taken(r, g) == IF pc[r] = "write" /\ gauge[r] = g THEN val[r] ELSE 0

\* No count is lost between the get and the subtraction of getValue(), however
\* many a thread adds in between: what was counted is in the counter, in a
\* reporter's hands or in the file.
Conserved ==
  \A g \in Gauge :
    counted[g] = count[g] + Taken("csv", g) + Taken("hook", g) + reported[g]

\* The file never claims more messages than were counted, although the hook and
\* the scheduler may both want to drain the same gauge at the same time.
NeverOverReported == \A g \in Gauge : reported[g] <= counted[g]

\* A test whose main has registered the hook, and that ends by itself, has reported
\* everything in the end: the hook's report comes behind the last count, and behind a
\* report in progress.  A killed test may lose what its threads counted behind the
\* hook's report, and one whose main died has no final report at all.
CompleteReport ==
  main = "join" /\ jvm \in {"reported", "halted"} /\ ~killed => reported = counted

-----------------------------------------------------------------------------
(* The inductive invariant *)

\* Only the holder of the lock is inside report(), and what it is about to
\* subtract is still in the counter.
LockInv ==
  /\ \A r \in Reporter : pc[r] # "idle" <=> lock = r
  /\ \A g \in Gauge : count[g] >= 0 /\ reported[g] >= 0
  /\ \A r \in Reporter : val[r] >= 0
  /\ \A r \in Reporter : pc[r] = "subtract" => val[r] <= count[gauge[r]]

\* Behind the last count, the hook leaves every gauge it has visited empty.
HookInv ==
  /\ pc["hook"] # "idle" => jvm = "hook"
  /\ jvm \in {"hook", "reported"} => main = "join"
  /\ main = "join" /\ ~killed /\ jvm # "up" =>
       /\ AllEnded
       /\ pc["hook"] = "subtract" => val["hook"] = count[gauge["hook"]]
       /\ pc["hook"] = "write" => count[gauge["hook"]] = 0
       /\ \A g \in Gauge :
            \/ pc["hook"] # "idle" /\ g < gauge["hook"]
            \/ jvm \in {"reported", "halted"}
            => count[g] = 0 /\ Taken("csv", g) = 0

Inv == TypeOK /\ Conserved /\ LockInv /\ HookInv

=============================================================================
