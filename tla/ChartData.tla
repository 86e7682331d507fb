------------------------------- MODULE ChartData -------------------------------
(***************************************************************************)
(* What dygraph-combined-dev.js, the chart of results-viewer.html, makes   *)
(* of a CSV file of samples: parsing, series extraction, the rolling       *)
(* average, the part of a series one window shows and the range of the y   *)
(* axis.  Pure operators.  A row of the file is <<x, cell, ...>>, a sample *)
(* of a series <<x, y>> or <<x, y, extra>>.  Indexes start at 1: the code's idx *)
(* is one less.  Values are integers chosen so that the divisions below    *)
(* are exact; a quotient the code keeps for later (a fraction, a standard  *)
(* deviation) is kept as the pair that defines it.                         *)
(***************************************************************************)
EXTENDS Integers, Sequences, FiniteSets, SequencesExt

CONSTANTS Null, NaN,       \* null and NaN
          Junk             \* a field that is not a number

ASSUME ValuesAssumption ==
  /\ Null \notin Int /\ NaN \notin Int /\ Null # NaN
  /\ Junk \notin Int \cup {NaN}

(* y === null || isNaN(y) *)
Missing(y) == y \in {Null, NaN}

(* v <= 0, and v in a sum: null counts as 0. *)
NonPositive(v) == v = Null \/ (v # NaN /\ v <= 0)
AsNumber(v) == IF v = Null THEN 0 ELSE v

Min2(a, b) == IF a < b THEN a ELSE b
Max2(a, b) == IF a > b THEN a ELSE b

(* The sum of all the values of a function. *)
Total(f) == SumFunctionOnSet(f, DOMAIN f)

-----------------------------------------------------------------------------
(* Parsing *)

(* parseFloat_: a blank field is null, "nan" is NaN, junk is null. *)
ParseFloat(field) == IF field = Junk THEN Null ELSE field

(* A field of parseCSV_ by the kind of chart.  A fraction is "num/den" or
   anything else, a custom bar is "low;center;high" or blank. *)
ParseFields(kind, field) ==
  CASE kind = "plain" -> ParseFloat(field)
    [] kind = "fractions" -> IF Len(field) = 2
                             THEN <<ParseFloat(field[1]), ParseFloat(field[2])>>
                             ELSE <<0, 0>>
    [] kind = "errorBars" -> <<ParseFloat(field[1]), ParseFloat(field[2])>>
    [] kind = "customBars" -> IF field = <<>> THEN <<Null, Null, Null>>
                              ELSE [i \in 1..3 |-> ParseFloat(field[i])]

(* ret.sort(function(a,b) { return a[0] - b[0]; }): rows of one x keep
   their order. *)
InsertRow(rows, row) ==
  LET k == Cardinality({i \in DOMAIN rows : rows[i][1] <= row[1]})
  IN  InsertAt(rows, k + 1, row)
SortRows(rows) == FoldLeft(InsertRow, <<>>, rows)

(* parseCSV_ behind the header: lines without two fields are skipped, and
   the rows are sorted only if one of them is out of order. *)
ParseLine(kind, line) ==
  [j \in DOMAIN line |-> IF j = 1 THEN line[1] ELSE ParseFields(kind, line[j])]
AddLine(kind, ret, line) ==
  IF Len(line) >= 2 THEN Append(ret, ParseLine(kind, line)) ELSE ret

AllLines(kind, lines) == FoldLeft(LAMBDA ret, line : AddLine(kind, ret, line), <<>>, lines)

ParseCSV(kind, lines) ==
  LET ret == AllLines(kind, lines)
      outOfOrder == \E i \in 2..Len(ret) : ret[i][1] < ret[i - 1][1]
  IN  IF outOfOrder THEN SortRows(ret) ELSE ret

-----------------------------------------------------------------------------
(* The data handlers *)

(* The column of a series, as the rows of a file that holds nothing else. *)
ColumnOf(rawData, i) == [j \in DOMAIN rawData |-> <<rawData[j][1], rawData[j][i + 1]>>]

Extract(rawData, sample(_)) ==
  [j \in DOMAIN rawData |-> <<rawData[j][1]>> \o sample(rawData[j][2])]

ExtractDefault(rawData, logscale) ==
  Extract(rawData, LAMBDA y : IF logscale /\ NonPositive(y) THEN <<Null>> ELSE <<y>>)

ExtractCustom(rawData, logscale) ==
  Extract(rawData, LAMBDA p :
    LET dropped == logscale /\ \E i \in 1..3 : NonPositive(p[i])
    IN  IF dropped THEN <<Null, <<Null, Null>>>>
        ELSE IF Missing(p[2]) THEN <<p[2], <<p[2], p[2]>>>>
        ELSE <<p[2], <<p[1], p[3]>>>>)

(* The deviation is carried along as the third extra, for the rolling. *)
ExtractError(rawData, logscale, sigma) ==
  Extract(rawData, LAMBDA p :
    LET half == sigma * AsNumber(p[2])
        dropped == logscale /\ (NonPositive(p[1]) \/ (p[1] # NaN /\ p[1] - half <= 0))
    IN  IF dropped THEN <<Null, <<Null, Null, Null>>>>
        ELSE IF Missing(p[1]) THEN <<p[1], <<p[1], p[1], p[1]>>>>
        ELSE <<p[1], <<p[1] - half, p[1] + half, p[2]>>>>)

(* The ratio of a fraction: 0 where there is no denominator. *)
Ratio(num, den) == IF den \in {0, Null, NaN} THEN <<0, 1>> ELSE <<num, den>>

ExtractFraction(rawData, logscale) ==
  Extract(rawData, LAMBDA p :
    LET dropped == logscale /\ \E i \in 1..2 : NonPositive(p[i])
    IN  IF dropped THEN <<Null, <<Null, Null>>>>
        ELSE IF Missing(p[1]) THEN <<p[1], p>>
        ELSE <<Ratio(p[1], p[2]), p>>)

(* FractionsBarsHandler: the bars of a fraction follow from it, and the
   fraction itself is carried along behind them. *)
ExtractFractionsBars(rawData, logscale) ==
  Extract(rawData, LAMBDA p :
    LET dropped == logscale /\ \E i \in 1..2 : NonPositive(p[i])
    IN  IF dropped THEN <<Null, <<Null, Null, Null, Null>>>>
        ELSE IF Missing(p[1]) THEN <<p[1], <<p[1], p[1], p[1], p[2]>>>>
        ELSE LET r == Ratio(p[1], p[2]) IN <<r, <<r, r, p[1], p[2]>>>>)

\* Variant: one sample too many.
RollWindowTooLong(rollPeriod, i) == Max2(1, i - rollPeriod)..i

(* The samples a rolling average of rollPeriod samples takes at sample i. *)
RollWindow(rollPeriod, i) == Max2(1, i - rollPeriod + 1)..i

(* DefaultHandler.rollingAverage: every window is summed afresh. *)
RollDefault(series, rollPeriod) ==
  LET n == Min2(rollPeriod, Len(series))
      at(i) == LET ok == {j \in RollWindow(n, i) : ~Missing(series[j][2])}
                   sum == Total([j \in ok |-> series[j][2]])
               IN  IF ok = {} THEN Null ELSE sum \div Cardinality(ok)
  IN  IF n = 1 THEN series
      ELSE [i \in DOMAIN series |-> <<series[i][1], at(i)>>]

(* CustomBarsHandler.rollingAverage: running sums, the sample that leaves
   the window is subtracted. *)
RollCustom(series, rollPeriod) ==
  LET n == Min2(rollPeriod, Len(series))
      add(acc, s, sign) == IF Missing(s[2]) THEN acc
                           ELSE [low |-> acc.low + sign * AsNumber(s[3][1]),
                                 mid |-> acc.mid + sign * s[2],
                                 high |-> acc.high + sign * AsNumber(s[3][2]),
                                 count |-> acc.count + sign]
      sums[i \in 0..Len(series)] ==
        IF i = 0 THEN [low |-> 0, mid |-> 0, high |-> 0, count |-> 0]
        ELSE LET entered == add(sums[i - 1], series[i], 1)
             IN  IF i > n THEN add(entered, series[i - n], -1) ELSE entered
      at(x, a) == IF a.count = 0 THEN <<x, Null, <<Null, Null>>>>
                  ELSE <<x, a.mid \div a.count,
                         <<a.low \div a.count, a.high \div a.count>>>>
  IN  [i \in DOMAIN series |-> at(series[i][1], sums[i])]

(* ErrorBarsHandler.rollingAverage: the band is value -+ sigma*sqrt(variance)/n,
   kept as <<variance, n>>. *)
RollError(series, rollPeriod) ==
  LET n == Min2(rollPeriod, Len(series))
      at(i) == LET ok == {j \in RollWindow(n, i) : ~Missing(series[j][2])}
                   v  == IF n = 1 THEN series[i][2] ELSE Null
               IN  IF ok = {} THEN <<series[i][1], v, <<v, v>>>>
                   ELSE <<series[i][1],
                          Total([j \in ok |-> series[j][2]]) \div Cardinality(ok),
                          <<Total([j \in ok |-> AsNumber(series[j][3][3]) ^ 2]),
                            Cardinality(ok)>>>>
  IN  [i \in DOMAIN series |-> at(i)]

(* Running sums of numerators and denominators, at the places k and k + 1 of
   the extras; null counts as 0, and NaN stays in the sum for good. *)
RunningFraction(series, rollPeriod, k) ==
  LET n == Min2(rollPeriod, Len(series))
      plus(a, b, sign) == IF NaN \in {a, b} THEN NaN ELSE a + sign * AsNumber(b)
      both(acc, s, sign) ==
        <<plus(acc[1], s[3][k], sign), plus(acc[2], s[3][k + 1], sign)>>
      sums[i \in 0..Len(series)] ==
        IF i = 0 THEN <<0, 0>>
        ELSE LET entered == both(sums[i - 1], series[i], 1)
             IN  IF i > n THEN both(entered, series[i - n], -1) ELSE entered
  IN  [i \in DOMAIN series |->
         <<series[i][1], Ratio(sums[i][1], sums[i][2])>>]

(* rollingAverage of DefaultFractionHandler and of FractionsBarsHandler. *)
RollFraction(series, rollPeriod) == RunningFraction(series, rollPeriod, 1)
RollFractionsBars(series, rollPeriod) == RunningFraction(series, rollPeriod, 3)

-----------------------------------------------------------------------------
(* The part of a series that one window shows *)

\* Variant: the window is not extended to the left.
NeighbourBeforeNone(series, i) == i

(* The nearest index on the side of i that holds no null, the end of the
   series if there is none, i itself if it is the end. *)
NeighbourBefore(series, i) ==
  LET ok == {j \in 1..(i - 1) : series[j][2] # Null}
  IN  IF ok = {} THEN 1 ELSE Max(ok)

NeighbourBehind(series, i) ==
  LET ok == {j \in (i + 1)..Len(series) : series[j][2] # Null}
  IN  IF ok = {} THEN Len(series) ELSE Min(ok)

(* boundaryIds_ of gatherDatasets_.  Without a sample at or behind low the
   first index is 1, without one at or before high the last is the end. *)
BoundaryIds(series, dateWindow) ==
  LET n == Len(series)
      above == {i \in 1..n : series[i][1] >= dateWindow[1]}
      below == {i \in 1..n : series[i][1] <= dateWindow[2]}
      firstIdx == IF above = {} THEN 1 ELSE Min(above)
      lastIdx  == IF below = {} THEN n ELSE Max(below)
  IN  IF dateWindow = Null THEN <<1, n>>
      ELSE <<NeighbourBefore(series, firstIdx), NeighbourBehind(series, lastIdx)>>

(* seriesToPoints of the samples between the boundary ids. *)
SeriesToPoints(series, boundaryIds) ==
  [k \in 1..(boundaryIds[2] - boundaryIds[1] + 1) |->
     LET i == boundaryIds[1] + k - 1
     IN  [xval |-> series[i][1], yval |-> series[i][2], idx |-> i]]

(* getExtremeYValues of the default handler, and of the ones with bars:
   a bar that does not reach its centre is taken to. *)
ExtremesDefault(series) ==
  LET ys == {series[i][2] : i \in {j \in DOMAIN series : ~Missing(series[j][2])}}
  IN  IF ys = {} THEN <<Null, Null>> ELSE <<Min(ys), Max(ys)>>

ExtremesBars(series) ==
  LET ok == {j \in DOMAIN series : ~Missing(series[j][2])}
      lows  == {Min2(series[j][3][1], series[j][2]) : j \in ok}
      highs == {Max2(series[j][3][2], series[j][2]) : j \in ok}
  IN  IF ok = {} THEN <<Null, Null>> ELSE <<Min(lows), Max(highs)>>

(* gatherDatasets_ for one visible series that is not stacked. *)
GatherDatasets(series, dateWindow) ==
  LET ids == BoundaryIds(series, dateWindow)
  IN  [boundaryIds |-> ids,
       points   |-> SeriesToPoints(series, ids),
       extremes |-> ExtremesDefault(SubSeq(series, ids[1], ids[2]))]

-----------------------------------------------------------------------------
(* The range of the y axis: computeYAxisRanges_ for one axis with linear
   scale and the default padding of 10 %, from the extremes of its series. *)

ExtremeRange(extremes, includeZero, avoidMinZero) ==
  LET lows  == {e[1] : e \in extremes} \ {Null}
      highs == {e[2] : e \in extremes} \ {Null}
      least == IF lows = {} THEN 0 ELSE Min(lows)
      most  == IF highs = {} THEN 1 ELSE Max(highs)
      minY  == IF includeZero /\ lows # {} THEN Min2(least, 0) ELSE least
      top   == IF includeZero /\ highs # {} THEN Max2(most, 0) ELSE most
      span  == IF top # minY THEN top - minY
               ELSE IF top # 0 THEN Max2(top, -top) ELSE 1
      maxY  == IF top = minY /\ top = 0 THEN 1 ELSE top
      low   == 10 * minY - span
      high  == 10 * maxY + span
  IN  \* in tenths of a unit
      IF avoidMinZero THEN <<low, high>>
      ELSE <<IF low < 0 /\ minY >= 0 THEN 0 ELSE low,
             IF high > 0 /\ maxY <= 0 THEN 0 ELSE high>>

(* axis.computedValueRange: a zoom in y (valueWindow) goes before the option
   valueRange, of which either end may be left open. *)
ComputedValueRange(extremeRange, valueWindow, valueRange) ==
  IF valueWindow # Null THEN valueWindow
  ELSE IF valueRange # Null
       THEN [e \in 1..2 |-> IF Missing(valueRange[e]) THEN extremeRange[e] ELSE valueRange[e]]
       ELSE extremeRange
=============================================================================
