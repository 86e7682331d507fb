------------------------------- MODULE ChartDraw -------------------------------
(***************************************************************************)
(* How dygraph-combined-dev.js draws the points of its series: stacking,   *)
(* the three plotters (fills, error bands, lines), the compression of a    *)
(* path with several points in one pixel column, and the search for the    *)
(* band under the mouse.  Pure operators.                                  *)
(*                                                                         *)
(* A drawn point is [xval, yval, idx, x, y, low, high, stacked]: x counts  *)
(* half pixels, the ys count upwards from the bottom of the plot area, NaN *)
(* where there is nothing.  A path is a sequence of <<"M" or "L", x, y>>,  *)
(* moveTo and lineTo; the canvas ignores one with NaN.                     *)
(***************************************************************************)
EXTENDS ChartData

MoveTo(x, y) == IF y = NaN THEN <<>> ELSE <<<<"M", x, y>>>>
LineTo(x, y) == IF y = NaN THEN <<>> ELSE <<<<"L", x, y>>>>

(* The elements of s at the indexes S. *)
Chosen(s, S) == [k \in 1..Cardinality(S) |->
                   s[CHOOSE i \in S : Cardinality({j \in S : j <= i}) = k]]

-----------------------------------------------------------------------------
(* Stacking *)

(* The value a point without one is stacked with: fillMethod is "all",
   "inside" or "none". *)
FilledIn(points, k, fillMethod) ==
  LET valued == {j \in DOMAIN points : ~Missing(points[j].yval)}
      prev == points[Max({j \in valued : j < k})]
      next == points[Min({j \in valued : j > k})]
      hasPrev == \E j \in valued : j < k
      hasNext == \E j \in valued : j > k
  IN  CASE k \in valued -> points[k].yval
        [] k \notin valued /\ fillMethod # "none" /\ hasPrev /\ hasNext ->
             prev.yval + ((next.yval - prev.yval) * (points[k].xval - prev.xval))
                           \div (next.xval - prev.xval)
        [] k \notin valued /\ fillMethod = "all" /\ hasPrev /\ ~hasNext -> prev.yval
        [] k \notin valued /\ fillMethod = "all" /\ ~hasPrev /\ hasNext -> next.yval
        [] OTHER -> 0

SumAt(cumulative, xval) == IF xval \in DOMAIN cumulative THEN cumulative[xval] ELSE 0

\* Variant: every series stands on the x axis.
StackOnFloor(points, cumulative, fillMethod) ==
  [k \in DOMAIN points |-> FilledIn(points, k, fillMethod)]

(* stackPoints_: yval_stacked of every point; of several points at one x
   only the first is added. *)
StackPoints(points, cumulative, fillMethod) ==
  [k \in DOMAIN points |->
     SumAt(cumulative, points[k].xval)
     + FilledIn(points, Min({j \in 1..k : points[j].xval = points[k].xval}), fillMethod)]

(* The extremes of the series grow with it; null counts as 0. *)
StackedExtremes(extremes, stacked) ==
  LET low == AsNumber(extremes[1])
      high == AsNumber(extremes[2])
  IN  <<IF \E v \in ToSet(stacked) : v < low THEN Min(ToSet(stacked)) ELSE extremes[1],
        IF \E v \in ToSet(stacked) : v > high THEN Max(ToSet(stacked)) ELSE extremes[2]>>

(* cumulativeYval behind it. *)
CumulativeBehind(points, cumulative, fillMethod) ==
  LET stacked == StackPoints(points, cumulative, fillMethod)
      xvals   == {points[k].xval : k \in DOMAIN points}
  IN  [x \in DOMAIN cumulative \cup xvals |->
         IF x \in xvals THEN stacked[Min({k \in DOMAIN points : points[k].xval = x})]
         ELSE cumulative[x]]

(* gatherDatasets_ stacks the last series first. *)
StackSets(sets, fillMethod) ==
  LET below[s \in 1..(Len(sets) + 1)] ==
        IF s > Len(sets) THEN <<>>
        ELSE CumulativeBehind(sets[s], below[s + 1], fillMethod)
  IN  [s \in DOMAIN sets |-> StackPoints(sets[s], below[s + 1], fillMethod)]

-----------------------------------------------------------------------------
(* Points on the canvas *)

(* _evaluateLineCharts, onLineEvaluated and _updatePoints: null becomes NaN
   unless the line is to be connected over it.  stacked is empty if the
   graph is not; bars holds the bounds of the bars, or is empty.  The x axis
   has unit units to the half pixel, the y axis one unit to the pixel. *)
EvaluateLine(points, stacked, bars, connect, origin, unit) ==
  LET height(v) == IF Missing(v) THEN NaN ELSE v
      point(k) ==
        LET p == points[k]
            sum == IF stacked = <<>> THEN NaN ELSE stacked[k]
            bar == IF bars = <<>> THEN <<NaN, NaN>> ELSE bars[k]
        IN  [xval |-> p.xval, idx |-> p.idx, x |-> origin + p.xval \div unit,
             yval |-> IF p.yval = Null /\ ~connect THEN NaN ELSE p.yval,
             y    |-> height(IF Missing(p.yval) \/ stacked = <<>> THEN p.yval ELSE sum),
             low  |-> height(bar[1]), high |-> height(bar[2]),
             stacked |-> height(sum)]
  IN  [k \in DOMAIN points |-> point(k)]

(* The predicate that skips empty points, if the line is to be connected. *)
Passes(p, connect) == connect => p.yval # Null

(* The points an iterator with this predicate yields. *)
Iterated(points, connect) ==
  Chosen(points, {k \in DOMAIN points : Passes(points[k], connect)})

-----------------------------------------------------------------------------
(* Lines *)

(* _drawSeries: the path, and the points that get a dot because no line
   reaches them (pointsOnLine).  prev is the sample before, Null behind a gap.
   !prevCanvasX holds for a predecessor at the canvas coordinate 0, too. *)
Isolated(kept, k, prev, o) ==
  LET noPrev == prev = Null \/ prev[1] = 0
      nextMissing == k = Len(kept) \/ kept[k + 1].y = NaN
  IN  /\ o.drawGapPoints \/ noPrev
      /\ \/ noPrev /\ nextMissing
         \/ o.drawGapPoints /\ ((k > 1 /\ noPrev) \/ (k < Len(kept) /\ nextMissing))

Stroke(p, prev, strokeWidth, o) ==
  LET corner == MoveTo(prev[1], prev[2]) \o LineTo(p.x, prev[2])
  IN  IF p.y = NaN THEN IF o.stepPlot /\ prev # Null THEN corner ELSE <<>>
      ELSE IF prev = Null THEN MoveTo(p.x, p.y)
      ELSE IF strokeWidth = 0 THEN <<>>
      ELSE (IF o.stepPlot THEN corner ELSE <<>>) \o LineTo(p.x, p.y)

DrawPoint(acc, k, kept, strokeWidth, o) ==
  LET p == kept[k]
  IN  [prev |-> IF p.y = NaN THEN Null ELSE <<p.x, p.y>>,
       path |-> acc.path \o Stroke(p, acc.prev, strokeWidth, o),
       dots |-> IF p.y # NaN /\ (o.drawPoints \/ Isolated(kept, k, acc.prev, o))
                THEN acc.dots \cup {p.idx} ELSE acc.dots]

DrawSeries(kept, strokeWidth, o) ==
  FoldLeft(LAMBDA acc, k : DrawPoint(acc, k, kept, strokeWidth, o),
           [prev |-> Null, path |-> <<>>, dots |-> {}], [k \in DOMAIN kept |-> k])

DrawStyledLine(points, strokeWidth, o) ==
  LET drawn == DrawSeries(Iterated(points, o.connect), strokeWidth, o)
  IN  [width |-> strokeWidth, path |-> drawn.path, dots |-> drawn.dots]

(* _linePlotter: a line with a border is drawn twice, the border first. *)
LinePlotter(points, o) ==
  (IF o.strokeBorderWidth # 0 /\ o.strokeWidth # 0
   THEN <<DrawStyledLine(points, o.strokeWidth + 2 * o.strokeBorderWidth, o)>> ELSE <<>>)
  \o <<DrawStyledLine(points, o.strokeWidth, o)>>

(* One quadrilateral <<x1, low1, high1, x2, low2, high2>> between neighbours.
   The test that would end a step plot's band at a gap never holds: only
   null passes it, and y is a number or NaN. *)
BandPoint(acc, p, o) ==
  LET orY(bound) == IF bound = NaN THEN p.y ELSE bound
      new == <<p.x, orY(p.low), orY(p.high)>>
      to  == IF o.stepPlot /\ acc.prev # Null THEN <<p.x, acc.prev[2], acc.prev[3]>> ELSE new
  IN  IF ~o.stepPlot /\ p.y = NaN THEN [acc EXCEPT !.prev = Null]
      ELSE [prev |-> new,
            quads |-> IF acc.prev = Null THEN acc.quads ELSE Append(acc.quads, acc.prev \o to)]

Bands(kept, o) ==
  FoldLeft(LAMBDA acc, p : BandPoint(acc, p, o), [prev |-> Null, quads |-> <<>>], kept).quads

\* Variant: bands are drawn over gaps.
ErrorPlotterOverGaps(points, o) == Bands(SelectSeq(points, LAMBDA p : p.y # NaN), o)

(* _errorPlotter. *)
ErrorPlotter(points, o) == Bands(Iterated(points, o.connect), o)

-----------------------------------------------------------------------------
(* Fills *)

(* A moveTo to where the path is already goes, and of several in a row only
   the last stays. *)
WithoutMoves(actions) ==
  Chosen(actions, {i \in DOMAIN actions :
    ~(i > 1 /\ actions[i][1] = "M" /\ Tail(actions[i]) = Tail(actions[i - 1]))})
LastMoves(actions) ==
  Chosen(actions, {i \in DOMAIN actions :
    ~(i < Len(actions) /\ actions[i][1] = "M" /\ actions[i + 1][1] = "M")})

Extremals(actions, lines) ==
  Chosen(actions, {i \in DOMAIN actions : i = 1 /\ i \notin lines}
    \cup {Min({i \in lines : \A j \in lines : actions[i][3] <= actions[j][3]}),
          Min({i \in lines : \A j \in lines : actions[i][3] >= actions[j][3]})})

\* Variant: the first two actions of a column stay.
CompressActionsToFirst(actions, losslessOnly) ==
  IF losslessOnly THEN actions ELSE SubSeq(actions, 1, Min2(2, Len(actions)))

(* compressActions of one pixel column: moveTos that change nothing go, and
   of the lineTos only the lowest and the highest stay unless the path ends
   here. *)
CompressActions(actions, losslessOnly) ==
  LET compressed(single) ==
        IF losslessOnly \/ Len(single) <= 2 THEN single
        ELSE Extremals(single, {i \in DOMAIN single : single[i][1] = "L"})
  IN  IF Len(actions) <= 1 THEN actions ELSE compressed(LastMoves(WithoutMoves(actions)))

Column(x) == (x + 1) \div 2

(* _fastCanvasProxy: an action in another column flushes the pending ones,
   the fill() behind the path flushes the last. *)
AddAction(acc, action) ==
  IF acc.pending = <<>> \/ Column(action[2]) = Column(acc.pending[1][2])
  THEN [sent |-> acc.sent, pending |-> Append(acc.pending, action)]
  ELSE [sent |-> acc.sent \o CompressActions(acc.pending, FALSE), pending |-> <<action>>]

FastPath(path) ==
  LET filled(end) == end.sent \o CompressActions(end.pending, TRUE)
  IN  filled(FoldLeft(AddAction, [sent |-> <<>>, pending |-> <<>>], path))

(* traceBackPath: down to the baseline, and back along the set below. *)
TraceBack(path, x, y, pathBack) ==
  LET way  == <<<<x, y>>>> \o Reverse(pathBack)
      seen == Chosen(way, {k \in DOMAIN way : way[k][2] # NaN})
  IN  path \o [k \in DOMAIN seen |-> <<"L", seen[k][1], seen[k][2]>>]

With(f, x, y) == [z \in DOMAIN f \cup {x} |-> IF z = x THEN y ELSE f[z]]

(* The inner loop of _fillPlotter for one set keeps the path, the way back,
   canvas x and data x of the last sample, its tops and bottoms newYs and
   prevYs, and the baseline.  That is, by x, a number, or a pair behind a step
   plot: <<number, first, second>>, NaN where the code reads one as the other.
   A gap ends the area. *)
FillGap(acc, p) ==
  [path |-> IF acc.prev = Null THEN acc.path
            ELSE TraceBack(acc.path, acc.prev, acc.prevYs[2], acc.back),
   back |-> <<>>, prev |-> Null, lastX |-> acc.lastX,
   newYs |-> acc.newYs, prevYs |-> acc.prevYs,
   baseline |-> IF p.stacked = NaN THEN acc.baseline
                ELSE With(acc.baseline, p.x, <<p.stacked, NaN, NaN>>)]

FillSample(acc, p, axisY, stepBelow, o) ==
  LET known == p.x \in DOMAIN acc.baseline
      bottom == IF o.stacked /\ known THEN acc.baseline[p.x][IF stepBelow THEN 2 ELSE 1] ELSE axisY
      top == IF ~o.stacked /\ p.y = NaN THEN 0 ELSE p.y
      previous == IF acc.prevYs[1] = Null THEN axisY ELSE acc.prevYs[1]
      corner == IF stepBelow /\ known THEN acc.baseline[p.x][3] ELSE bottom
  IN  [path |-> acc.path \o
         (IF acc.prev = Null THEN MoveTo(p.x, bottom) \o LineTo(p.x, top)
          ELSE (IF o.stepPlot THEN LineTo(p.x, acc.prevYs[1]) ELSE <<>>) \o LineTo(p.x, top)),
       back |-> IF acc.prev = Null \/ ~o.stacked THEN acc.back
                ELSE acc.back \o <<<<acc.prev, acc.prevYs[2]>>, <<p.x, corner>>>>,
       prev |-> p.x, lastX |-> p.xval,
       newYs |-> <<top, bottom>>, prevYs |-> <<top, bottom>>,
       baseline |-> IF ~o.stacked THEN acc.baseline
                    ELSE With(acc.baseline, p.x, IF o.stepPlot THEN <<NaN, p.y, previous>>
                                                 ELSE <<p.y, NaN, NaN>>)]

FillPoint(acc, p, axisY, stepBelow, o) ==
  IF p.y = NaN /\ ~o.stepPlot THEN FillGap(acc, p)
  ELSE IF o.stacked /\ acc.lastX = p.xval THEN acc
  ELSE FillSample(acc, p, axisY, stepBelow, o)

(* under is what the sets filled before left behind: the baseline, whether the
   last was a step plot, and its newYs and point, which no set resets. *)
FillSet(points, axisY, under, o) ==
  LET kept == Iterated(points, o.connect)
      start == [path |-> <<>>, back |-> <<>>, prev |-> Null, lastX |-> Null,
                newYs |-> under.newYs, prevYs |-> <<Null, Null>>,
                baseline |-> under.baseline]
      fill(acc, p) == FillPoint(acc, p, axisY, under.stepPlot, o)
      point == IF kept = <<>> THEN under.point ELSE kept[Len(kept)].x
      closed(end) ==
        [path |-> IF end.newYs = Null THEN end.path
                  ELSE TraceBack(end.path, point, end.newYs[2], end.back),
         baseline |-> end.baseline, newYs |-> end.newYs, point |-> point,
         stepPlot |-> o.stepPlot]
  IN  closed(FoldLeft(fill, start, kept))

(* _fillPlotter: the path of every set, the last set first; a set with many
   points goes through the proxy. *)
FillPlotter(sets, axisY, width, opts) ==
  LET filled(s, done, paths) ==
        [under |-> done,
         paths |-> [paths EXCEPT ![s] = IF Len(sets[s]) > 2 * width THEN FastPath(done.path)
                                        ELSE done.path]]
      paint(s, acc) ==
        IF ~opts[s].fillGraph THEN acc
        ELSE filled(s, FillSet(sets[s], axisY, acc.under, opts[s]), acc.paths)
      start == [under |-> [path |-> <<>>, baseline |-> <<>>, newYs |-> Null, point |-> Null,
                           stepPlot |-> FALSE],
                paths |-> [s \in DOMAIN sets |-> <<>>]]
  IN  FoldRight(paint, [s \in DOMAIN sets |-> s], start).paths

(* _renderLineChart with the default plotters: fills lie under the bands,
   and the bands under the lines. *)
RenderLineChart(sets, axisY, width, hasBars, opts) ==
  LET drawn(fills, s) ==
        [fill |-> fills[s],
         bands |-> IF hasBars THEN ErrorPlotter(sets[s], opts[s]) ELSE <<>>,
         lines |-> LinePlotter(sets[s], opts[s])]
      all(fills) == [s \in DOMAIN sets |-> drawn(fills, s)]
  IN  all(FillPlotter(sets, axisY, width, opts))

-----------------------------------------------------------------------------
(* What the mouse points at *)

IsValidPoint(p) == p.yval # Null /\ p.y # NaN

(* findClosestRow over all sets, the first of the nearest. *)
ClosestRow(sets, domX) ==
  LET all == FlattenSeq(sets)
      usable == {k \in DOMAIN all : all[k].yval # Null}
      dist(k) == IF all[k].x < domX THEN domX - all[k].x ELSE all[k].x - domX
      nearest == {k \in usable : \A j \in usable : dist(k) <= dist(j)}
  IN  IF nearest = {} THEN -1 ELSE all[Min(nearest)].idx

(* findClosestPoint: the last set is searched first, and only a nearer
   point replaces one: Null or <<set, row>>. *)
FindClosestPoint(sets, domX, domY) ==
  LET at == {a \in UNION {{s} \X DOMAIN sets[s] : s \in DOMAIN sets} :
               IsValidPoint(sets[a[1]][a[2]])}
      dist(a) == LET p == sets[a[1]][a[2]]
                 IN  (p.x - domX) * (p.x - domX) + (p.y - domY) * (p.y - domY)
      nearest == {a \in at : \A b \in at : dist(a) <= dist(b)}
      last == {a \in nearest : \A b \in nearest : a[1] > b[1] \/ (a[1] = b[1] /\ a[2] <= b[2])}
  IN  IF at = {} THEN Null
      ELSE LET a == CHOOSE a \in last : TRUE IN <<a[1], sets[a[1]][a[2]].idx>>

(* findStackedPoint: the line of every set at domX, interpolated towards a
   valid neighbour; of the sets whose line is above the mouse the last one,
   the first set where there is none.  lefts are the first row of each set,
   by getLeftBoundary_. *)
FindStackedPoint(sets, lefts, domX, domY) ==
  LET row == ClosestRow(sets, domX)
      rowIdx(s) == row - lefts[s] + 1
      seen == {s \in DOMAIN sets : /\ rowIdx(s) \in DOMAIN sets[s]
                                   /\ IsValidPoint(sets[s][rowIdx(s)])}
      towards(p, q) == IF ~IsValidPoint(q) \/ q.x = p.x THEN p.y
                       ELSE p.y + ((domX - p.x) * (q.y - p.y)) \div (q.x - p.x)
      lineAt(s) == LET k == rowIdx(s)
                       p == sets[s][k]
                   IN  IF domX > p.x /\ k < Len(sets[s]) THEN towards(p, sets[s][k + 1])
                       ELSE IF domX < p.x /\ k > 1 THEN towards(p, sets[s][k - 1])
                       ELSE p.y
      hit == {s \in seen : s = 1 \/ lineAt(s) > domY}
  IN  [row |-> row, set |-> IF hit = {} THEN Null ELSE Max(hit)]
=============================================================================
