----------------------------- MODULE ChartPipeline -----------------------------
(***************************************************************************)
(* From the lines of a file to the picture.  The file of a chart with two  *)
(* series grows by one line at a time, as the reporter writes it, and is   *)
(* loaded anew; the properties follow its samples through every stage that *)
(* ChartData, ChartOptions, ChartDraw and ChartAxes define, for all the    *)
(* settings in the constants.                                              *)
(***************************************************************************)
EXTENDS ChartDraw, ChartAxes, ChartOptions

CONSTANTS Lines, MaxLines,    \* what a line may be; bound: lines of the file
          Windows,            \* date windows
          Users               \* options a user may have set

(* A line that is a row of these files begins with a number and has a field
   for each series; windows go upwards; a coordinate pair is not null. *)
ASSUME PipelineAssumption ==
  /\ \A line \in Lines :
       /\ line \in Seq(Int \cup {Null, NaN, Junk})
       /\ Len(line) >= 2 => line[1] \in Int /\ Len(line) = 3
  /\ MaxLines \in Nat
  /\ \A window \in Windows : window \in Int \X Int /\ window[1] <= window[2]
  /\ Null \notin Windows \cup Seq(Int \cup {NaN})

VARIABLES lines,
          rows,       \* rawData_, the rows of the file
          gathered,   \* gatherDatasets_ by window and series
          stacks,     \* stacked values by window and series
          sets,       \* points on the canvas by user and window
          drawing     \* what is drawn, by user and window

pipelineVars == <<lines, rows, gathered, stacks, sets, drawing>>

labels == <<"A", "B">>
Shown == Windows \cup {Null}
Views == Users \X Shown

-----------------------------------------------------------------------------
(* The stages for these files *)

Series(raw, s) == ExtractDefault(ColumnOf(raw, s), FALSE)

(* The same samples as they would stand in a file of another kind. *)
Cell(kind, y) ==
  CASE kind = "customBars" -> IF y = Null THEN <<>> ELSE IF y = NaN THEN <<NaN, NaN, NaN>>
                              ELSE <<y - 3, y, y + 6>>
    [] kind = "errorBars"  -> <<y, 1>>
    [] kind = "fractions"  -> <<y, 18>>
OfKind(kind) ==
  ParseCSV(kind, [i \in DOMAIN lines |->
                    IF Len(lines[i]) < 2 THEN lines[i]
                    ELSE <<lines[i][1], Cell(kind, ParseFloat(lines[i][2]))>>])

(* DEFAULT_ATTRS, as far as the plotters read it. *)
Defaults == [global |-> [stepPlot |-> FALSE, connectSeparatedPoints |-> FALSE,
                         drawGapEdgePoints |-> FALSE, drawPoints |-> FALSE,
                         strokeWidth |-> 1, strokeBorderWidth |-> 0,
                         fillGraph |-> FALSE, stackedGraph |-> FALSE],
             axes |-> [x |-> NoOptions, y |-> NoOptions, y2 |-> NoOptions]]

OptionsOf(parsed, user, s) ==
  LET get(name) == GetForSeries(parsed, user, Defaults, Null, name, s)
      stacked == get("stackedGraph")
  IN  [stepPlot |-> get("stepPlot"), connect |-> get("connectSeparatedPoints"),
       drawGapPoints |-> get("drawGapEdgePoints"), drawPoints |-> get("drawPoints"),
       strokeWidth |-> get("strokeWidth"),
       strokeBorderWidth |-> get("strokeBorderWidth"), stacked |-> stacked,
       fillGraph |-> get("fillGraph") \/ stacked]

(* The options of every user, by series. *)
Options ==
  LET of(parsed, user) == [s \in DOMAIN labels |-> OptionsOf(parsed, user, labels[s])]
  IN  [user \in Users |-> of(ReparseSeries(user, labels), user)]

(* Widths count pixels. *)
ASSUME WidthsAssumption ==
  \A user \in Users, s \in DOMAIN labels :
    {Options[user][s].strokeWidth, Options[user][s].strokeBorderWidth} \subseteq Nat

(* drawGraph_ for every view.  The sample y has the error bar y - 1 to y + 1;
   the x axis has ten units to the half pixel. *)
Gather(raw) ==
  [w \in Shown |-> [s \in DOMAIN labels |-> GatherDatasets(Series(raw, s), w)]]

Stack(data) == [w \in Shown |-> StackSets([s \in DOMAIN labels |-> data[w][s].points], "all")]

Bars(points) == [k \in DOMAIN points |-> IF Missing(points[k].yval) THEN <<NaN, NaN>>
                                         ELSE <<points[k].yval - 1, points[k].yval + 1>>]

Canvas(points, stacked, o) ==
  EvaluateLine(points, IF o.stacked THEN stacked ELSE <<>>, Bars(points), o.connect, 20, 10)

CanvasSets(data, stacked) ==
  [v \in Views |-> [s \in DOMAIN labels |->
     Canvas(data[v[2]][s].points, stacked[v[2]][s], Options[v[1]][s])]]

Rendered(points) ==
  [v \in Views |-> RenderLineChart(points[v], 0, 100, TRUE, Options[v[1]])]

(* The chart of a file without a row. *)
PipelineInit ==
  /\ lines = <<>>
  /\ rows = <<>>
  /\ gathered = Gather(rows)
  /\ stacks = Stack(gathered)
  /\ sets = CanvasSets(gathered, stacks)
  /\ drawing = Rendered(sets)

(* loadedEvent_ of the file that has grown by a line. *)
FileGrows(line) ==
  /\ Len(lines) < MaxLines
  /\ lines' = Append(lines, line)
  /\ rows' = ParseCSV("plain", lines')
  /\ gathered' = Gather(rows')
  /\ stacks' = Stack(gathered')
  /\ sets' = CanvasSets(gathered', stacks')
  /\ drawing' = Rendered(sets')

PipelineNext == \E line \in Lines : FileGrows(line)

PipelineSpec == PipelineInit /\ [][PipelineNext]_pipelineVars

Lefts(window) == [s \in DOMAIN labels |-> gathered[window][s].boundaryIds[1]]

-----------------------------------------------------------------------------
(* Properties *)

(* The four ways to roll agree.  The averages of bars and errors are those
   of the plain handler, the bars are averages themselves, and the running
   sums hold exactly the samples of the window although they are kept by
   adding and subtracting: no sample is counted behind the window, twice, or
   not at all.  (NaN stays in the sums of a fraction for good.) *)
Valued(series, S) == {j \in S : ~Missing(series[j][2])}

RollsAgree ==
  \A period \in 1..MaxLines :
    LET series == Series(rows, 1)
        plain  == RollDefault(series, period)
        custom == RollCustom(ExtractCustom(OfKind("customBars"), FALSE), period)
        error  == RollError(ExtractError(OfKind("errorBars"), FALSE, 2), period)
        raw    == ExtractFraction(OfKind("fractions"), FALSE)
        ratio  == RollFraction(raw, period)
        bars   == RollFractionsBars(ExtractFractionsBars(OfKind("fractions"), FALSE), period)
    IN  bars = ratio /\ \A i \in DOMAIN series :
          LET W == RollWindow(Min2(period, Len(series)), i)
              ok == Valued(series, W)
          IN  /\ ok # {} => /\ custom[i][2] = plain[i][2]
                            /\ error[i][2] = plain[i][2]
                            /\ error[i][3][2] = Cardinality(ok)
                            /\ custom[i][3][1] =
                                 Total([j \in ok |-> series[j][2] - 3]) \div Cardinality(ok)
              /\ ok = {} => custom[i][2] = Null /\ Missing(plain[i][2]) /\ Missing(error[i][2])
              /\ (\A j \in 1..i : series[j][2] # NaN) =>
                   ratio[i][2] = Ratio(Total([j \in W |-> AsNumber(series[j][2])]),
                                       18 * Cardinality(W))

(* A window shows all of its samples and, on either side, the nearest one
   that is not null, so that the line is drawn up to the border; nothing
   behind these but null, and every value shown lies in the y range. *)
WindowFramed ==
  \A window \in Windows, s \in DOMAIN labels :
    LET series == Series(rows, s)
        ids == gathered[window][s].boundaryIds
        drawn == ids[1]..ids[2]
        inside == {i \in DOMAIN series : window[1] <= series[i][1] /\ series[i][1] <= window[2]}
        before == {i \in DOMAIN series : series[i][1] < window[1] /\ series[i][2] # Null}
        behind == {i \in DOMAIN series : series[i][1] > window[2] /\ series[i][2] # Null}
        range == ExtremeRange({gathered[window][s].extremes}, FALSE, FALSE)
    IN  series # <<>> =>
          /\ drawn \subseteq DOMAIN series
          /\ inside \subseteq drawn
          /\ before # {} => Max(before) \in drawn
          /\ behind # {} => Min(behind) \in drawn
          /\ inside # {} => Cardinality(before \cap drawn) <= 1
                            /\ Cardinality(behind \cap drawn) <= 1
          /\ \A i \in Valued(series, drawn) :
               range[1] <= 10 * series[i][2] /\ 10 * series[i][2] <= range[2]

(* Every sample with a value is on the line or has a dot, neighbours with
   values are joined, no line crosses a gap that is not to be connected, the
   error band covers just the stretches the line does, and a border runs
   along the whole line.  Stretches can be told apart where no two samples
   share a half pixel; a line without a width is not drawn. *)
Segments(path) ==
  {<<Tail(path[i - 1]), Tail(path[i])>> : i \in {j \in 2..Len(path) : path[j][1] = "L"}}
Stretches(path) ==
  {<<seg[1][1], seg[2][1]>> : seg \in {t \in Segments(path) : t[1][1] < t[2][1]}}

LineFollowsSamples ==
  \A v \in Views, s \in DOMAIN labels :
    LET o == Options[v[1]][s]
        points == sets[v][s]
        kept == Iterated(points, o.connect)
        strokes == drawing[v][s].lines
        line == strokes[Len(strokes)]
        stretches == Stretches(line.path)
        bands == {<<q[1], q[4]>> : q \in {b \in ToSet(drawing[v][s].bands) :
                                            b[1] < b[4] /\ b[2] # NaN /\ b[5] # NaN}}
        touched == UNION {{seg[1], seg[2]} : seg \in Segments(line.path)}
        apart == \A k \in 2..Len(points) : points[k - 1].x < points[k].x
    IN  o.strokeWidth # 0 =>
        /\ \A k \in DOMAIN kept : kept[k].y # NaN =>
             \/ kept[k].idx \in line.dots
             \/ <<kept[k].x, kept[k].y>> \in touched
        /\ apart => \A k \in 2..Len(kept) :
             (kept[k - 1].y # NaN /\ (kept[k].y # NaN \/ o.stepPlot))
               <=> <<kept[k - 1].x, kept[k].x>> \in stretches
        /\ apart => bands = stretches
        /\ \A i \in DOMAIN strokes : strokes[i].path = line.path
                                    /\ strokes[i].width >= line.width

(* In a stacked graph a band is as thick as the value it stands for, from
   the top of the band below it to its own line, the range of the y axis
   holds it, and a mouse inside a band finds that series and no other; on a
   point it finds a point that is drawn there. *)
BandUnderMouse ==
  \A v \in Views :
    LET opts == Options[v[1]]
        drawn == drawing[v]
        range == ExtremeRange({StackedExtremes(gathered[v[2]][s].extremes, stacks[v[2]][s]) :
                                 s \in DOMAIN labels}, FALSE, FALSE)
        rising == \A s \in DOMAIN sets[v] : \A k \in 2..Len(sets[v][s]) :
                    sets[v][s][k - 1].xval < sets[v][s][k].xval
    IN  (\A s \in DOMAIN labels : opts[s].stacked /\ ~opts[s].stepPlot) /\ rising =>
          \A s \in DOMAIN sets[v] : \A k \in DOMAIN sets[v][s] :
            LET p == sets[v][s][k]
                value == Series(rows, s)[p.idx][2]
                ys == {a[3] : a \in {b \in ToSet(drawn[s].fill) : b[2] = p.x}}
                found(y) == FindStackedPoint(sets[v], Lefts(v[2]), p.x, y)
                closest == FindClosestPoint(sets[v], p.x, p.y)
            IN  p.y # NaN =>
                  /\ {p.y - value, p.y} \subseteq ys
                  /\ Max(ys) = p.y /\ Min(ys) \in {p.y - value, 0}
                  /\ range[1] <= 10 * p.y /\ 10 * p.y <= range[2]
                  /\ value > 0 => found(p.y - 1) = [row |-> p.idx, set |-> s]
                  /\ \E q \in ToSet(sets[v][closest[1]]) :
                       q.idx = closest[2] /\ q.x = p.x /\ q.y = p.y

(* The compression of a fill with many points does not change its shape:
   lossless, its lines are the same; otherwise every pixel column reaches as
   far up and down as before. *)
ColumnExtent(path, c) ==
  LET ys == {a[3] : a \in {b \in ToSet(path) : b[1] = "L" /\ Column(b[2]) = c}}
  IN  IF ys = {} THEN <<>> ELSE <<Min(ys), Max(ys)>>

FillKeepsShape ==
  \A v \in Views, s \in DOMAIN labels :
    LET path == drawing[v][s].fill
        fast == FastPath(path)
    IN  /\ Segments(CompressActions(path, TRUE)) = Segments(path)
        /\ \A c \in {Column(a[2]) : a \in ToSet(path)} :
             ColumnExtent(fast, c) = ColumnExtent(path, c)

(* The ticks of both axes enclose the range, no more of them than have room,
   and evenly; an axis that follows another has its ticks at the same places,
   but for the rounding; logarithmic ticks have labels only where there is
   room; grid lines stay in the plot area, and the labels and the areas around
   the plot stay inside the canvas.  x counts tenths here, as y does; a file
   without rows is looked at in y only. *)
TicksFit(ticks, range, shown, pixels, pixelsPerLabel) ==
  LET n == Len(ticks) - 1
  IN  /\ ticks[1] <= range[1] /\ ticks[n + 1] >= range[2]
      /\ pixelsPerLabel * n < pixels
      /\ \A i \in 2..n : ticks[i + 1] - ticks[i] = ticks[2] - ticks[1]
      /\ {t \in ToSet(ticks) : range[1] < t /\ t < range[2]} \subseteq ToSet(shown)

AxisReadable ==
  \A s \in DOMAIN labels, width \in {300, 500}, pixelsPerLabel \in {30, 70}, kmg2 \in BOOLEAN :
    LET o == [title |-> kmg2, titleHeight |-> 28, xlabel |-> FALSE, xLabelHeight |-> 18,
              ylabel |-> TRUE, y2label |-> TRUE, numAxes |-> IF kmg2 THEN 2 ELSE 1, rightGap |-> 5,
              axisLabelWidth |-> 60, axisTickSize |-> 3, axisLabelFontSize |-> 14,
              drawX |-> TRUE, drawY |-> TRUE, drawY2 |-> TRUE]
        canvas == [w |-> width, h |-> 320]
        layout == ComputePlotArea(canvas.w, canvas.h, o)
        area == layout.area
        parts == Append(layout.taken, area)
        range == ExtremeRange({ExtremesDefault(Series(rows, s))}, FALSE, FALSE)
        ticks == LinearTicks(range[1], range[2], area.h, pixelsPerLabel, kmg2)
        shown == ShownYTicks(ticks, range)
        xRange == IF rows = <<>> THEN <<0, 0>>
                  ELSE <<10 * rows[1][1], 10 * rows[Len(rows)][1]>>
        xTicks == AddXTicks(xRange, area, pixelsPerLabel, kmg2)
        shownX == ShownXTicks(xTicks, xRange)
        other == ExtremeRange({ExtremesDefault(Series(rows, 3 - s))}, FALSE, FALSE)
        aligned == AlignedTicks(ticks, range, other)
        powers == [i \in 1..11 |-> 2 ^ (i - 1)]
        octave == [v \in ToSet(powers) |-> 25 * (CHOOSE i \in 1..11 : powers[i] = v)]
        logTicks == LogTicks(Max2(range[1], 1), range[2], area.h, pixelsPerLabel, powers, octave)
        labelled == {t \in ToSet(logTicks) : t.label}
        boxes == ToSet(YLabels(shown, range, area, canvas, o))
                 \cup ToSet(XLabels(shownX, xRange, area, canvas, o))
        gridLines == GridLines(shownX, shown, xRange, range, area)
    IN  /\ TicksFit(ticks, range, shown, area.h, pixelsPerLabel)
        /\ xTicks # <<>> => TicksFit(xTicks, xRange, shownX, area.w, pixelsPerLabel)
        /\ \A i \in DOMAIN ticks :
             Magnitude(YPixel(aligned[i], other, area) - YPixel(ticks[i], range, area))
               * (other[2] - other[1]) <= area.h + other[2] - other[1]
        /\ \A t, u \in labelled :
             t # u => Magnitude(octave[t.v] - octave[u.v]) >= pixelsPerLabel
        /\ \A line \in gridLines, e \in 1..2 :
             /\ area.x <= line[e][1] /\ line[e][1] <= area.x + area.w
             /\ area.y <= line[e][2] /\ line[e][2] <= area.y + area.h
        /\ \A b \in boxes \cup ToSet(parts) :
             b.x >= 0 /\ b.y >= 0 /\ b.x + b.w <= canvas.w /\ b.y + b.h <= canvas.h
        /\ \A i, j \in DOMAIN parts : i # j =>
             LET p == parts[i] q == parts[j]
             IN  \/ p.x + p.w <= q.x \/ q.x + q.w <= p.x
                 \/ p.y + p.h <= q.y \/ q.y + q.h <= p.y
=============================================================================
