# Verification of andes-test-client

andes-test-client is a load generator for a JMS broker. It reads a YAML description of
a test, starts one thread per publisher and per subscriber, waits until they are done
and writes statistics as CSV files, which a page shows as charts. This directory holds
TLA+ models of the client's threads and of the charts, the TLC configurations that
check them on small instances, and the TLAPS proofs that hold for every instance. Java
paths below are relative to `src/main/java/org/atc/`; numbers without a path are lines of
`src/main/resources/logs/metrics/dygraph-combined-dev.js`.

To repeat the checks: `tlc -config <run>.cfg <module>` for each run of the table in
section 3, `tlapm <module>` for each `*_proofs` module.

## 1. Inventory

| Component | State | Operations | Talks to |
|---|---|---|---|
| Transactional publisher: `PublisherThread.transactionalPublish`, `DisruptorBasedPublisher`, `TxPublishHandler`, `PublishEvent` | ring of reused events and its sequences, loop counter, list of the current batch, sent counter | publish, closePublisher, shutdown; onEvent, resend | a second thread through the ring; the JMS session |
| JMS publishers: `AMQPQueueSender`, `AMQPTopicPublisher` | connection, session, sender | init, send, commit, rollback, close | the broker |
| Non-transactional publisher: `PublisherThread.publish` | loop counter | send, close | the JMS session |
| Consumers: `ConsumerThread`, `AMQPQueueReceiver`, `AMQPTopicSubscriber`, `AMQPDurableTopicSubscriber` | connection, session, consumer, loop counter | subscribe, receive, unsubscribe, close | the broker |
| Statistics: gauges in `PublisherThread` and `ConsumerThread`, reporters in `Main` | atomic counters, CSV rows | count, getValue, report | every thread, the periodic reporter, the shutdown hook |
| Test run: `Main` | thread list | start, join, shutdown hook | everything |
| Configuration: `config/*` | lists of configurations | copies for `parallelThreads`, `%d`, global defaults | read by all |
| Results chart: `results-viewer.html` and its library, one object per selected file | raw and rolled data, date and value window, points, highlight, drag context, listeners | loading, rolling, highlighting, zoom, pan, pinch, reset | the file by an asynchronous request; mouse, fingers, roller |
| Results chart, from samples to the picture | none: functions of the file and the options | parse, roll, cut to a window, stack, lay out, plot, tick | the chart |
| Message conversion: `MessageUtils`, `ATCMessage` | none | to and from a JMS text message | publishers, consumers |

What is hard, and what makes each part correct:

* **Transactional publisher.** Two threads share a ring whose slots are reused;
  any JMS call may throw, may have taken effect although it threw, and is retried
  by a recursion; a timeout races the draining of the ring. It is correct when no
  event is overwritten or seen twice, the destination gets every message in
  order without a gap, retries duplicate whole batches at most, the statistics
  count only what is committed, and both threads come to an end.
* **JMS publishers.** `close` is three or four calls of which any may fail.
* **Statistics.** `getValue` is a get and a subtraction, not one operation; the
  hook and the periodic reporter drain the same gauges. Correct when no count is
  lost or reported twice, and the file is complete when a test ends by itself.
* **Consumers and the plain publisher.** Every error path skips `close`; null and
  non-text messages; three acknowledgement modes; a transacted receiver never commits; an
  `int` counts up to a `long`. Correct when what is counted has been sent or settled,
  and the normal end comes behind exactly `messageCount` messages.
* **Configuration.** A list that grows while it is walked, `%d` that a copy must find
  before its original loses it. Correct when the result is the list a direct definition gives
  and names stay distinct.
* **Test run.** Start order, a join barrier that can wait for ever, a hook that is
  registered late. Correct when no subscription misses a message, nothing leaves the queue
  without an acknowledgement, and a balanced test ends.
* **Chart, state.** Handlers come in any order, before the file has arrived and in the middle
  of a drag; one that throws leaves half of its changes. Correct when the picture is
  always that of the state, the highlight that of the picture, and gestures end.
* **Chart, picture.** Ten stages of index and gap handling between a row and its pixels, most
  with a fast way and a slow one, or four variants by kind of file. Correct when the
  stages agree with each other and with the samples.

`PROJECT.json` lists the hazards at their lines, with the properties that cover them.

## 2. Modules

```
EventRing   TxSession           Broker                ChartData
      \     /                     |                   /       \
     TxPublish                ClientThread          Chart     ChartDraw  ChartAxes  ChartOptions
         | implements          /       \              |           \         |        /
   AtLeastOnceLog       PlainPublish  Consume      ChartTouch          ChartPipeline
                              |         |
 TxPublish --implements-> BatchPublish  |          StatGauge      ConfigExpansion
 (TxPublishInTest)             \       /
                                TestRun

MC<module>         constants for TLC
<module>_proofs    theorems about <module>; Chart_proofs is about ChartTouch and ChartPipeline
SumLemmas          what TestRun_proofs, ChartData_proofs and ConfigExpansion_proofs share
```

A line is EXTENDS (downwards), but for "implements". `TestRun` is the composition of the
client's threads, the broker and `main`; `TxPublishInTest` extends `TxPublish` with the
refinement mapping to `BatchPublish`.

### EventRing and TxPublish

| Model | Code |
|---|---|
| `ring`, `NoEvent`, `ClearSlot` | the `PublishEvent` objects, `PublishEvent.clear` |
| `claimed`, `cursor` | the producer's `nextValue` and the published cursor of the single-producer sequencer |
| `sequence`, `nextSequence`, `available` | `BatchEventProcessor`: the released sequence that gates the producer, the one it works on, the end of its current run of events |
| `pub`, `i` | where `transactionalPublish` (and the methods it calls) is; its loop counter |
| `proc`, `k` | where the handler thread is; the next call of a resend loop or of `close` |
| `messagesList`, `sentCount` | the fields of `TxPublishHandler`; `sentCount` as if no gauge had drained it |
| `alerted` | `disruptor.halt()` and `executorPool.shutdown()` have happened |
| `ClaimSlot`, `SetMessage`, `PublishMessage` | `DisruptorBasedPublisher.publish`, three steps another thread can interleave with |
| `ClaimSlot`, `SetClosePub`, `PublishClosePub` | `closePublisher`, which leaves the slot's old message in place |
| `ShutdownDrained`, `ShutdownTimesOut`, `AwaitTermination` | `shutdown`, with its two timeouts |
| `AddAndSend`, `SeeClose`, `CommitBatch`, `BatchNotFull`, `CloseObject`, `ClearEvent` | `TxPublishHandler.onEvent`, one step per JMS call |
| `ResendRollback`, `ResendNext`, `ResendCommit` | `resend`; its recursion is the way back to `"resend"` |
| `WaitFor`, `Advance`, `Exit` | `BatchEventProcessor.run` of Disruptor 3.3.2 (external) |

The publisher parks, sleeps and limits its rate only in places where waiting is
already possible, so these are not steps. A commit and the counting that follows it
in the same thread are one step: the only other reader of the counter is a gauge,
whose interleaving is `StatGauge`'s subject.

### TxSession

`tx` is the open transaction, `queue` what is committed to the destination,
`closed` the JMS objects that are closed, `faults` how many faults the broker has
shown. The wrappers turn a `JMSException` into an `ATCException` and keep no
state, so each operation has two outcomes, `Send`/`SendThrows` and so on. The
faults (`FaultyCalls`): a failing `send`, `commit`, `rollback` or `close`, each with
or without its effect on the transaction; a commit that is applied and whose
reply is lost (`lostReply`); a connection that drops in a call (`drop`). A call on
a closed object always throws and needs no fault. Both close orders are
instances of `CloseOrder`; only the topic publisher stops its connection first.

### AtLeastOnceLog

Accepts messages in order; `Deliver` appends the next run of accepted messages,
and either settles it or leaves it to be delivered again; the log may be shut at any
time. The refinement maps `accepted` to `i - 1`, `settled` to `sentCount`, `log` to
`queue` and `shut` to "the session is closed".

### StatGauge

`count` is the `AtomicInteger` behind a gauge, `counted` all its thread ever added,
`reported` the sum of the gauge's CSV rows. `Get`, `Subtract` and `Write` are the
steps of `getValue` and its caller; `Report` takes the monitor of the metrics
library's synchronized `report()`. `main` registers the hook behind all thread starts
(`RegisterHook`) or dies before (`MainDies`). `ShutDown` comes when `main` and all counting
threads have ended, or at any time by a signal, which `killed` remembers; it starts the
hook if there is one, and halts the JVM otherwise.

### Broker, ClientThread, PlainPublish, BatchPublish, Consume, TestRun

| Model | Code |
|---|---|
| `stored`, `unacked`, `settled`, `subscribed` (Broker) | external: messages that wait at the queue or a subscription, that are delivered, that are acknowledged; the subscriptions there are |
| `Arrive`, `Take`, `Settle`, `EndSession`, `RemoveSubscription` | external: the broker's side of send, receive, acknowledge, close and unsubscribe |
| `state`, `i`, `hand` | where a thread's `run()` is, its `int` loop counter, the message it received last |
| `counted` | its counter, as if no gauge had drained it |
| `toClose`, `CloseCalls`, `CloseNext` | the calls of the five `close()` methods, each a step that may throw |
| `Next32` | `i++` with the width `IntMax` |
| `SendNext`, `CountSent`, `PublisherLoopEnds` | `PublisherThread.publish` |
| `handler` | where the handler thread of a transactional publisher is; its list is what lies between `counted` and `i`, and `toClose` is empty behind a dropped connection |
| `SendToBatch`, `CommitBatch`, `SeeClose`, `CloseObject`, `Resend` (BatchPublish) | `TxPublishHandler.onEvent` and `resend`: a list reaches the destination and is counted, or a call throws and the list, as long as it is then, is repeated |
| `ShutdownDrained`, `ShutdownTimesOut` | the two ways out of `DisruptorBasedPublisher.shutdown` |
| `Receive`, `ReceiveFails`, `Acknowledge`, `CountReceived`, `ConsumerLoopEnds`, `Unsubscribe` | `ConsumerThread.run` with the receiver its configuration chooses |
| `StartThread`, `StartFails`, `RegisterHook`, `JoinThread` | `Main.main`; `mainAt` counts the threads it has started, then those it has joined |
| `LastThreadEnds`, `Signal`, `HookRuns`, `Halt` | the JVM's way down; `jvm = "reported"` stands for "all threads interrupted" |

An interrupt reaches a thread in `receive()` or in the delay between messages.
`main` joins the publisher thread of a transactional publisher and knows nothing of its handler
thread, but the JVM waits for that too (`LastThreadEnds`).

`BatchPublish` is `TxPublish` without the ring and without the single calls of a rollback, a
list's sends and a commit: what is left is which lists arrive, when they are counted, which
JMS objects are open and when each thread ends. A `resend` commits whatever the list holds, so
the bounds of batches move, and the tail may come with it, behind a failed send in the tail or a
failed `close` before the session is closed. `ImplementsBatchPublish` in `tx_safety` checks that every
step of the ring and the session is one of `BatchPublish` or changes nothing a test sees. The
publisher thread's own loop is not a variable here: it only bounds how early a shutdown can
expire, when at most `RingSize` events are not handled.

### ConfigExpansion

One list of the file and what `ConfigReader` makes of it: `SetDefaults` per entry
(`addGlobalConfigurationsIfAbsent`), then from the last entry of the file to the first
`AddCopy` per further thread and `NumberOriginal`. Strings are kept by their structure: an
id is a word and the numbers copies have added to it, a name is a word with a number, with
`%d` or with neither. A subscription id is optional, as for publishers.

### Chart and ChartTouch

| Model | Code |
|---|---|
| `made`, `file`, `requests` | objects the page has constructed, and the `XMLHttpRequest`s not answered yet; the answer to an older object's changes nothing on the page |
| `rawData`, `rollPeriod`, `rolled` | `rawData_`, `rollPeriod_`, `rolledSeries_` |
| `dateWindow`, `valueWindow`, `zoomedX`, `zoomedY`, `yRange`, `points` | `dateWindow_`, `axes_[0].valueWindow`, the zoom flags, `computedValueRange`, `layout_.points` |
| `lastRow`, `selPoint`, `legend` | `lastRow_`, `selPoints_`, the legend's text |
| `context`, `listeners`, `touch` | the interaction context, the listeners a press installs on the document, what `startTouch` notes |
| `threw` | history: a handler threw |
| `SelectFile`, `Answer`, `AnswerEmpty`, `AnswerFails` | the page's `onchange`; `start_`'s `onreadystatechange` with a file, an empty text (status 0), an error |
| `AdjustRoll` | the roller's `onchange` |
| `MouseMove`, `MouseDown`, `MouseUp`, `DblClick` | `mousemove_` and the handlers of `defaultModel`, with `startZoom`, `movePan`, `endZoom` and the rest |
| `TouchStart`, `TouchMove`, `TouchEnd` | `startTouch`, `moveTouch`, `endTouch` |

JavaScript handlers are atomic, so each is one action: with everything it calls, down to
`drawGraph_`. An exception is a branch of its action that makes the changes before the throw
and sets `threw`. Coordinates are integers and a division cuts off; `MinWidth` and its
like keep windows where the cut matters to no property. Zooms are not animated, as is the library's default and the page leaves it.

### ChartData, ChartDraw, ChartAxes, ChartOptions, ChartPipeline

These are operators, one or a few for a function of the library.
`ChartData`: parsing, the five data handlers' extraction, rolling and extremes, `gatherDatasets_`,
the range of an axis. `ChartDraw`: stacking, the layout's points with their error bars, hit tests, the line,
error and fill plotters with the path compression. `ChartAxes`: plot area, linear
and logarithmic ticks, ticks of a second axis, labels, grid. `ChartOptions`: series
and axis assignment, and how an option is looked up. `ChartPipeline` composes them: `lines` is a
file that the reporter appends to (`FileGrows`), and every other variable is one stage of
drawing it, for each user's options and window.

## 3. Runs

| Run | Instance | Properties | Result |
|---|---|---|---|
| `tx_safety` | ring 2, 5 messages, batch 2, 3 faults of any kind, timeouts, topic close order | `TypeOK`, `NoStaleEvent`, `NoOverwrite`, `NoGap`, `CountedIsCommitted`, `LossBounded`, `ExactlyOnce`, `WholeBatches`, `ImplementsLog`, `ImplementsBatchPublish` | hold, 13 794 states |
| `tx_liveness` | ring 2, 4 messages, batch 2, 2 faults of send, commit, rollback, lost reply; no timeouts; fair | `PublisherEnds`, `DisruptorStops`, `LessThanBatchLeft` | hold, 2 287 states |
| `gauge` | 2 gauges, up to 3 counts each in ones and twos, signals, a main that dies | `TypeOK`, `Conserved`, `NeverOverReported`, `CompleteReport` | hold, 69 968 states |
| `test_run` | six tests of up to three threads and a handler thread, two faults, expiring shutdowns, signals, a foreign message, a ring of 2, a largest `int` of 4; fair | `TypeOK`, `NothingMissed`, `QueueConserved`, `CountsAreTrue`, `NormalEndIsComplete`, `StarvedNeverDone`, `BarrierEnds` | hold, 297 412 states |
| `config` | all lists of up to two entries over a few names, 0 to 3 threads each | `MatchesReference`, `DistinctNames` | hold, 99 768 states |
| `chart` | 2 charts, 2 files, 4 places, roll periods 1, 2 and 2.5; mouse, or up to 3 moves of two fingers | `TypeOK`, `DrawnIsCurrent`, `HighlightIsCurrent`, `NoOrphanDrag`, `ZoomNarrows`, `DragKeepsSize`, `ZoomsOut` | hold, 293 084 states |
| `chart_data` | all files of up to 3 of 17 lines, 4 users, 3 windows | `RollsAgree`, `WindowFramed`, `LineFollowsSamples`, `BandUnderMouse`, `FillKeepsShape`, `AxisReadable` | hold, 5 220 states |
| `log` | 3 messages, log up to 6 entries | `LogHasNoGap` | hold, 728 states |
| `tx_tail_lost` | 3 messages, batch 2, no fault; fair | `EventuallyPublished` | violated |
| `tx_shutdown_timeout` | 3 messages, no fault, timeouts; fair | `DisruptorStops` | violated |
| `tx_close_fails` | 3 messages, one failing close; fair | `DisruptorStops` | violated |
| `test_start_fails` | two receivers and a publisher, one failing call | `ReportAtExit` | violated |

What the properties say that is not in their names: `ExactlyOnce` holds as long as no commit
threw although it was applied (`doubt`). `CompleteReport` is about tests whose `main` has
registered the hook and that no signal ended: one whose `main` died has no final report
(`test_start_fails`). `NothingMissed`, `QueueConserved` and `CountsAreTrue` hold with every fault.
`LessThanBatchLeft` is all that can be said of what a transactional publisher leaves behind. It is
not `MessageCount % BatchSize` messages: with 4 in batches of 2 and a first send that fails, the
commits are [1] and [2, 3], and 4 stays; with 3 the same fault leaves nothing.
`NormalEndIsComplete` says the same within a test, of the handler thread: the publisher thread itself may end
with any number left when its shutdown expires, but the handler goes on, and no JVM goes down
by itself before it is through. Of plain publishers and consumers it asks for exactly `messageCount`.
`BarrierEnds` and `StarvedNeverDone` are two sides of one thing: a test in which each consumer
can get what it waits for whatever the others get (`Balanced`) ends if nothing fails, and one in which somebody
must go without (`Starved`) does not end by itself. What arrives at most (`Arrives`) depends on faults: the full
batches of a transactional publisher as long as there is none, everything as soon as a `resend` may have
committed the tail, and more only when a commit threw behind its effect and its list was repeated (`Repeated`).
The two are not each other's negation: what a
transacted receiver has counted goes back to the queue when it closes, and a second receiver may
count it again, so that two of them can wait for more than arrives and still both end. Of a
queue's consumers `Starved` therefore adds up only those that acknowledge.
`DrawnIsCurrent` compares the picture with one drawn from the state anew. In `chart_data`
each property compares two ways the code computes one thing: a running sum with a
fresh one, a path with its compression, a hit test with what was drawn. Two limits: of `RollsAgree`, the part
about bars and fractions compares two uses of one running sum, and it is the comparison with the window's own samples
that would find it wrong; and no sample of the instance lies at the canvas coordinate 0, nor does a property
ask for `newYs` by itself, so these two oddities (below) are in the model without being judged.

What the four violations show:

* `tx_tail_lost`: messages behind the last full batch are sent and never committed.
  `close()` on the transacted session rolls them back. A `transactionBatchSize` that
  does not divide `messageCount` loses the remainder, and the sample `client.yaml` has
  such a pair: 51250 messages in batches of 20250. 0, the value when nothing is
  configured, loses everything. `LossBounded` gives the exact bound while the handler works and
  `LessThanBatchLeft` the one in the end, and in
  `test_run` a consumer that waits for the tail keeps `main` waiting unless a retry brings it.
* `tx_shutdown_timeout`: `disruptor.shutdown(10, SECONDS)` throws with a backlog left;
  the halt and the executor's shutdown are skipped and the handler thread, which is
  no daemon, waits for ever after it has worked the backlog off.
* `tx_close_fails`: a failing `close()` is answered by `resend()`. If the session
  was closed before the failure, the rollback throws each time and `resend` calls itself
  once per second. In Java each call takes a stack frame, so after hours a
  `StackOverflowError` ends what the model continues for ever.
* `test_start_fails`: the hook that makes the final report is registered at `Main.java:148`,
  behind all the loops that start threads. An exception in one of them (a subscription that is
  refused at 103, 112 or 121, a publisher's connection at 133 or 142) ends `main`; the threads already started run
  on, and the JVM exits behind them without a report.

Behaviours of the charts that the models contain. They contradict no property, nor a statement
of the repository about its charts, but a reader should know them:

* A period of 2.5 makes `rollingAverage` read the index 0.5 at the third row (11576). The
  exception leaves new axes and no series, and nothing can be drawn until the period is
  changed.
* A file with a header and no rows: `resetZoom` throws (3678) behind resetting the flags. A request that
  fails with status 0 loads an empty text (5420), with the same effect.
* Before the file has arrived, or without axes, `startPan`, `endZoom` and `startTouch` throw half way: a
  pan can outlive its button (hence `~threw` in `NoOrphanDrag`), listeners stay on the
  document, and fingers go on with the context of the touch before.
* `!prevCanvasX` (1319) takes a sample at canvas coordinate 0 for one without predecessor;
  one `NaN` stays in the running sums of a fraction for good (11685); a step plot's error band
  takes only `null` for a gap (1601); `newYs` and `point` of the fill plotter (1847, 1871) outlive their series.
* The lossy path compression drops moves inside a pixel column; hence
  `FillKeepsShape` asks for the extent of each column, not for the same lines.
* A pinch whose first finger is on the left zooms in x only, however steep it is (7525), and
  its centre is taken on the page instead of on the canvas (7492). A swipe fixes the y range.
* A series that shares, in the old style of options, the axis of a series without one is drawn on the
  first axis, and no axis lists it.

**Bounds.** A ring of two slots and five messages make the ring full, wrap it
twice and make CLOSE_PUB reuse a slot; five messages in batches of two are two full
batches and a tail. Three faults allow one in a send, one in the retry and one in the
retry of the retry, or a failing close with a failing rollback behind it.
The message count matters only against the batch size: five leave a tail of one, the most that
batches of two can leave, and `tx_liveness` has four, which leave one only when a retry has shifted the
batches. Larger rings and batches of 0, 1 and 3 are left to the theorems. Two gauges are the least for which a
reporter can be between gauges; three counts let a thread count before, between and after
the two steps of `getValue`. `MaxLog` cuts off only longer sequences of repeated
deliveries.
In `test_run` two receivers compete for two messages, or two subscriptions get copies of one
topic; faults may hit any call of any thread. Two are needed for a transactional publisher, whose handler
goes on behind a failure and can fail again in the retry; the error paths of the other threads go on to no second call.
Three messages in batches of two have a tail that a retry can bring, one message without a batch size has nothing else. `IntMax` 4 stands for
2^31 - 1: a `messageCount` of 4 makes the loop endless, and `MaxCounted` stops it behind two messages too many. Two
entries with up to three threads are the least lists in which copies of one entry come
behind those of another and an entry has two copies.
In `chart` two objects are the least for a late answer. The four places are the edge and the middle of the
plot area, one below it and one beyond the margin within which a drag is cut to the plot area; the
files have a blank, a comment line and rows out of order. `MinWidth`, `MinHeight`, `MaxWidth`, `MaxShift`, `MaxRise` and
`MaxMoves` bound how far zooms, pinches and pans go on from there: each still combines several gestures.
Three lines are enough for a sample between two gaps, a gap between two samples, a whole
roll window with a sample on its way out, and an unsorted file.

**Fairness.** `TxPublish!FairSpec` assumes weak fairness of each of the two threads: the JVM
schedules both, nothing disables a thread that is not waiting for the other, and each
JMS call returns or throws (`Main` sets `qpid.flow_control_wait_failure` so that a
send blocked by flow control fails in the end). Retries end because the number of
faults is bounded by `MaxFaults`; with a broker that fails for ever no publisher could
make progress. `TestRun!FairSpec` assumes it of the fault-free steps of each thread, of
`main`, and of the JVM's way down, for the same reasons. No fairness is assumed of faults, timeouts or signals.

**Variants.** Definitions with a comment "Variant:" are plausible bugs of the operator
they stand next to (a missing rollback, an early claim, an unlocked report). Each
property of a passing run fails when one of them takes the operator's place;
`PROJECT.json` pairs them under `mutants`.

## 4. Proofs

`TxPublish_proofs` proves, for every `RingSize > 0`, `MessageCount`, `BatchSize`,
`MayTimeOut`, set of faults, `MaxFaults` and both close orders (the modules' named
assumptions and nothing else):

* `TxPublishInvariant`: `Spec => []Inv`. `Inv` is inductive and has six parts:
  `TypeOK`; `SequencesInv` (how each thread's position agrees with the sequences, and
  that the producer is at most a ring ahead of the released slots); `SlotsInv` (what each
  of the `RingSize` sequences from `nextSequence` on finds in its slot, which describes
  every slot exactly once and is what makes a write of one slot harmless for the others);
  `ListInv` (the list is the run of messages between the counted and the handled ones);
  `TransactionInv` (the open transaction is the list, or during a retry the part sent
  so far); `CallInv` (the range of `k`). None of the safety properties is
  inductive alone: `NoStaleEvent` needs the distance of the two threads, `WholeBatches`
  needs the transaction's contents, which need the ring's.
* `TxPublishTypeOK`, `TxPublishNoStaleEvent`, `TxPublishLossBounded`, `TxPublishNoOverwrite`,
  `TxPublishWholeBatches` follow from `Inv`.
* `TxPublishImplementsLog`: each step is a step or a stutter of `AtLeastOnceLog`.
  `TxPublishNoGap` and `TxPublishCountedIsCommitted` are then the log's own
  theorems (`AtLeastOnceLog_proofs`), carried over by the refinement.
* `TxPublishExactlyOnce`: until a commit is in doubt, the destination holds exactly what is
  counted, each message once and in order.

`StatGauge_proofs` proves `GaugeInvariant` for any number of gauges, bound on the counts
and amounts. `LockInv` says that only the holder of the monitor is between the
steps of `getValue` and that what it is about to subtract is still in the counter;
`HookInv` says that there is a hook only where `main` registered it, and that behind the last count it
leaves each gauge it has passed empty.
`GaugeTypeOK`, `GaugeConserved`, `GaugeNeverOverReported` and `GaugeCompleteReport` follow; the last one
assumes, as its property does, that the hook is registered and no signal came.

`TestRun_proofs` proves, for every set of tests (any numbers of publishers and receivers, counts and
batch sizes), `IntMax > 0`, `RingSize > 0`, number of faults and `MaxCounted`. `ClientAssumption` asks besides that the
count of a transacted publisher is below `IntMax`: its loop's overflow is not modelled.
`Invariant`: `Spec => []IInv`, whose parts are

* `MainInv`, `NewInv`: who is started, and that there is no message before the last consumer is.
  `NothingMissed` is inductive with these and `SubscriptionInv`, and not without them;
* `PlaceInv`, `SubscriptionInv`: where a thread can be by its kind, and what of the broker is then its own;
* `LoopInv`: `i` against `counted` of a plain publisher or a consumer. A loop whose `count` is not below `IntMax` has no
  end, which is all that can be said of its counter;
* `BatchInv`: the list of a transactional publisher, `counted` to `i - 1`. It is shorter than a batch but for
  the commit of a full one and its retries, wherever it begins; behind CLOSE_PUB everything has been handled; and without
  faults `counted` is a multiple of the batch size. From the first two follows that less than a batch is left, from
  the third that the tail then is;
* `ExitInv`: the JVM goes down without a signal only behind `main` and behind every handler thread;
* `SentInv`, `BalanceInv`, `CountInv`: sums over all threads. What a transactional publisher has counted it has
  sent at least once, and exactly once without faults. What is stored, in hand and settled is what
  was sent, for the client's own messages, and at most one more with the foreign one; what a
  consumer counts it has acknowledged or, transacted, holds. `StarvedNeverDone` adds these up over
  the receivers that acknowledge, against `Arrives`.

`TypeCorrect`, `TopicComplete`, `QueueComplete`, `CountersTrue`, `EndsComplete` and `NeverDone` are the six
invariants of the run `test_run`. The sums are `SumFunctionOnSet` of the community modules:
`SumLemmas` proves what it gives when an element is added, removed or changed.

`ConfigExpansion_proofs` is about lists of any length and any `MaxThreads`. `ListAsWalked` says what the list
is at each step: the file's entries, those behind `pos` numbered; the copies of these, the last
entry's first; the first `copied` copies of the entry at `pos`. `WalkIsExpansion` (`MatchesReference`) is
its last case. `EntriesAreThreads` is a second invariant, from which names follow
more easily than from the list: some injective function leads from the places of the list to entries and
numbers of threads, and where `pos` and `copied` have come to bounds its values. `NamesApart`
(`DistinctNames`) follows because a copied id can be taken apart again.

`ChartData_proofs` holds the lemmas about the operators, and `Chart_proofs` the theorems about `ChartTouch`'s
specification: for any files, `Positions`, `Rolls`, numbers of charts and bounds. `ChartAssumption` says
that a line of two fields begins with a number, and that `null` and `NaN` are none of the arrays and
objects they are compared with.

* `ChartInvariant`: `IInv` has a part each for the data, the view, the picture, the drag and the fingers.
  `PictureInv` needs that nothing is drawn before a file is there; `GestureInv` counts the listeners against
  the button, which `NoOrphanDrag` alone cannot, and allows for handlers that threw; `TouchInv` keeps
  from a pinch a division by zero.
* The proofs go by kinds of steps (`Fresh`, `Loads`, `Rerolls`, `Redraws`, `Looks`, `BlindPan`): one lemma says
  that every handler is one of them, and `PictureCurrent` (`DrawnIsCurrent`) and `HighlightCurrent` are proved of
  the kinds. `ChartTypes` and `DragEnds` follow from `IInv`.
* `ZoomShowsPart` (`ZoomNarrows`): the conversions from pixels to values never leave the range shown,
  cut quotients included. `ZoomOutShowsAll` (`ZoomsOut`).
* `DragMovesOnly` (`DragKeepsSize`) needs a second invariant, `SizeInv`: what a pan or a swipe has noted of the
  size at its start is the size still shown.

The same modules prove four properties of `ChartPipeline`, for files of any length and users with any options. `PipelineAssumption` says
that a line of at least two fields begins with a number and has three, that windows go upwards and that no pair of
coordinates is `null`; `WidthsAssumption`, that the widths of lines and borders are natural numbers.
`PipelineInv` says that `rows` are the parsed `lines` and `gathered` what is gathered from them; the rest
are facts about the operators: parsed rows are typed and sorted by their x, and so is every series.

* `WindowsAreFramed` (`WindowFramed`): between the last row left of a window with a value and the first right
  of it nothing is left out, and the padded range holds the extremes. The proof needs that the rows are sorted,
  which is why `ParseCSV` sorts them.
* `RollsAllAgree` (`RollsAgree`): the series that the four file formats give are written in closed form
  (`SeriesOfKinds`), so that the averages of the fresh sums are compared row by row. The running sums of
  `RollFraction` are shown to be fresh sums by induction over the samples, as long as none was `NaN`.
* `FillsKeepShape` (`FillKeepsShape`) has two halves. About any path: `LosslessThins` goes through the two filters
  of `compressActions` and shows that each `lineTo` stays with the place it comes from; `FastPathReaches`
  follows the proxy from action to action, and what it has sent or keeps back always reaches as far, column by
  column, as what it got. About the picture: `StagesInv` adds the later stages to `PipelineInv`, and `FillsArePaths`
  says that the plotter's paths consist of numbers. That needs the rows sorted once more: `FilledIn` divides by a
  distance of two samples, which is positive only because it is asked for the first point at an x.
* `LinesFollowSamples` (`LineFollowsSamples`): `LineDrawn` and `BandsDrawn` go along the samples and say exactly which segments
  and quadrilaterals there are, those from each sample to the next one that is drawn. Both plotters pass over the
  same stretches because a point without a y has no bar either, although the error plotter of a step plot
  does not stop at a gap. The proof showed what the property has to ask for: a line that has a width, and
  samples that do not share a half pixel of the canvas. Different x values are not enough.

**Induction.** The provers cannot instantiate the library's induction over a predicate. The proofs use one over
a set instead (`SetInduction` in `SumLemmas`, from the well-foundedness of `<`): the set of the n for which a
statement holds. What `CHOOSE`-defined recursive functions of the community modules compute (sums,
`FoldLeft`, `FlattenSeq`) is proved this way.

**Only model-checked.** The liveness properties `PublisherEnds`, `DisruptorStops`, `LessThanBatchLeft` and
`BarrierEnds`: no prover at hand reasons about `ENABLED` and fairness. `ImplementsBatchPublish`, the refinement from
`TxPublish` to the publisher of the whole test, for the instance of `tx_safety`. Of `chart_data`, `BandUnderMouse`,
which speaks of values that are not negative, as the instance's are, and needs a proof of how the search
interpolates; and `AxisReadable`, whose products and quotients of a label's place are beyond the provers. The four runs that find a violation.

## 5. Not modelled

* Within the transactional publisher: exceptions other than `ATCException`; the stack
  that the recursion of `resend` uses; interrupts; `createTextMessage` failing (no
  implementation throws); the width of the `int` loop counter, which `PlainPublish` has. Within `TestRun`
  the ring, and which of a retry's calls has thrown (`BatchPublish`).
* Rate limiting, delays, meters, histograms, logging and the console, SLF4J and JMX
  reporters: they change no state the properties see.
* Disruptor, the JMS client, the broker and the metrics library are external: modelled
  as far as this code depends on them.
* Message conversion: a data holder; that it answers null for a message without text is part of
  `Consume`.
* Charts: the range selector, annotations, dates and the date axis, number formats, colours, visibility,
  Wilson intervals, smoothing, animation, resizing and `updateOptions`, logarithmic
  axes in the state machine. The page turns none of them on. What is wrong
  with a pinch (7492, 7525) is in the model and no property says so.
* Build files and sample configurations.

## 6. Plan

1. Done: all modules; the proofs of `TxPublish`, `AtLeastOnceLog`, `StatGauge`, `TestRun`, `ConfigExpansion`,
   `Chart` with `ChartTouch`, and of four properties of `ChartPipeline`.
2. A proof of `ImplementsBatchPublish`, from the invariant of `TxPublish_proofs`, whose `ListInv` says what the mapping needs.
3. The geometry of a stacked graph in `BandUnderMouse`, from `StackSetsType` and a lemma about how the sets add up.
4. The range selector, if the page comes to use it.
