--------------------------------- MODULE Chart ---------------------------------
(***************************************************************************)
(* One chart of results-viewer.html: the page constructs a Dygraph for     *)
(* every file that is selected, the object loads its file by an            *)
(* asynchronous request, draws it, and answers the mouse and the roller.   *)
(*                                                                         *)
(* Handlers run one at a time, in any order the browser may call them; one *)
(* that throws an exception keeps the changes it made up to there, which   *)
(* `threw' records.  The variables are those of the object the page shows  *)
(* last; an older object is in no document any more, and all that is left  *)
(* of it is its request in `requests'.                                     *)
(*                                                                         *)
(* Pixels and data are integers, and a conversion between them cuts off    *)
(* the fraction.  A y range counts tenths of the unit of the file.         *)
(***************************************************************************)
EXTENDS ChartData

CONSTANTS Files, Content,      \* the files and their lines behind the header
          Positions,           \* where the mouse may be, <<x, y>> from the canvas
          Rolls,               \* whole averaging periods typed into the roller
          Fraction,            \* a period of 2.5
          MaxCharts,           \* bound: files selected in a run
          MinWidth, MinHeight, \* bound: narrowest window a zoom may select
          MaxShift, MaxRise    \* bounds: how far a pan may leave the data

(* A line of a file that has two fields begins with a number.  null is no
   array and no object, and NaN no array. *)
ASSUME ChartAssumption ==
  /\ Content \in [Files -> Seq(Seq(Int \cup {Null, NaN, Junk}))]
  /\ \A f \in Files : \A n \in DOMAIN Content[f] :
       Len(Content[f][n]) >= 2 => Content[f][n][1] \in Int
  /\ Positions \subseteq Int \X Int
  /\ Rolls \subseteq Nat \ {0} /\ Fraction \notin Int
  /\ MaxCharts \in Nat /\ MinWidth \in Nat /\ MinHeight \in Nat
  /\ Null \notin Files \cup (Int \X Int) \cup Seq(Seq(Int \cup {Null, NaN}))
                 \cup [xval : Int, yval : Int \cup {Null, NaN}, idx : Int]
  /\ NaN \notin Seq(Int \X (Int \cup {Null, NaN}))

VARIABLES made,        \* number of charts constructed
          file,        \* file_ of the last one
          requests,    \* the charts whose request is not answered yet
          rawData, rollPeriod,
          rolled,      \* rolledSeries_, NaN where it holds no series
          dateWindow, valueWindow, zoomedX, zoomedY,
          yRange,      \* computedValueRange of the axis, Null if it has none
          points,      \* layout_.points, with the x range they were drawn for
          lastRow, selPoint, legend,
          context,     \* the drag context
          listeners,   \* installed pairs of document listeners
          mouse, at,   \* "idle", "down", or "up" right behind a release; where
          threw

data == <<rawData, rollPeriod, rolled>>
view == <<dateWindow, valueWindow, zoomedX, zoomedY>>
picture == <<yRange, points>>
selection == <<lastRow, selPoint, legend>>
gesture == <<context, listeners, mouse, at>>
vars == <<made, file, requests, data, view, picture, selection, gesture, threw>>

(* The canvas and the plot area on it, in pixels. *)
canvas == [w |-> 100, h |-> 50]
area == [x |-> 10, y |-> 0, w |-> 80, h |-> 40]
DRAG_EDGE_MARGIN == 100

-----------------------------------------------------------------------------
(* Coordinates *)

Abs(n) == IF n < 0 THEN -n ELSE n
Quotient(a, b) == IF a < 0 THEN -((-a) \div b) ELSE a \div b

XAxisExtremes(raw) == IF raw = <<>> THEN <<0, 1>> ELSE <<raw[1][1], raw[Len(raw)][1]>>
XAxisRange(raw, window) == IF window # Null THEN window ELSE XAxisExtremes(raw)

ToDataX(px, range) == range[1] + Quotient((px - area.x) * (range[2] - range[1]), area.w)
ToDataY(py, range) ==
  range[1] + Quotient((area.y + area.h - py) * (range[2] - range[1]), area.h)

(* _evaluateLimits, calcXNormal_ and _updatePoints: a range without width
   has the scale 1. *)
CanvasX(xval, range) ==
  IF range[1] = range[2] THEN area.x + (xval - range[1]) * area.w
  ELSE area.x + Quotient((xval - range[1]) * area.w, range[2] - range[1])

-----------------------------------------------------------------------------
(* Drawing *)

(* What predraw_ keeps in rolledSeries_. *)
Rolled(raw, period) ==
  IF period = Fraction
  THEN RollDefault(ExtractDefault(raw, FALSE), Len(raw))
  ELSE IF period > 1 THEN RollDefault(ExtractDefault(raw, FALSE), period)
       ELSE ExtractDefault(raw, FALSE)

(* A period of 2.5 makes rollingAverage read the index 0.5 at the third row;
   the period is cut down to the length of a shorter series. *)
RollThrows(raw, period) == period = Fraction /\ Len(raw) >= 3

Gathered(series, window) ==
  IF series = NaN THEN [points |-> <<>>, extremes |-> <<Null, Null>>]
  ELSE GatherDatasets(series, window)

\* Variant: what was highlighted stays.
DrawGraphKeepsHighlight(raw, series, window, yWindow) ==
  LET gathered == Gathered(series, window)
  IN  /\ points' = [drawn |-> gathered.points, range |-> XAxisRange(raw, window)]
      /\ yRange' = ComputedValueRange(
                     ExtremeRange({gathered.extremes}, FALSE, FALSE), yWindow, Null)
      /\ UNCHANGED <<lastRow, legend>>

(* The legend plugin, when a point is deselected and behind every drawing. *)
Deselect == legend' = Null

(* drawGraph_ with the renderGraph_ at its end. *)
DrawGraph(raw, series, window, yWindow) ==
  LET gathered == Gathered(series, window)
  IN  /\ points' = [drawn |-> gathered.points, range |-> XAxisRange(raw, window)]
      /\ yRange' = ComputedValueRange(
                     ExtremeRange({gathered.extremes}, FALSE, FALSE), yWindow, Null)
      /\ lastRow' = -1
      /\ Deselect

(* predraw_: an exception in the rolling leaves fresh axes without a range
   and no series, but the points and the picture of the last drawing. *)
Predraw(raw, period) ==
  IF RollThrows(raw, period)
  THEN /\ rolled' = NaN
       /\ yRange' = Null
       /\ threw' = TRUE
       /\ UNCHANGED <<points, lastRow, legend>>
  ELSE /\ rolled' = Rolled(raw, period)
       /\ DrawGraph(raw, rolled', dateWindow, valueWindow)
       /\ UNCHANGED threw

-----------------------------------------------------------------------------
(* The life of a chart *)

NoContext == [isZooming |-> FALSE, isPanning |-> FALSE, is2DPan |-> FALSE,
              start |-> Null,
              moved |-> FALSE,        \* dragEndX is not null
              dragDirection |-> Null,
              cancelNextDblclick |-> FALSE,
              initialLeftmostDate |-> 0, dateRange |-> 0,
              initialTopValue |-> 0, dragValueRange |-> 0]

NoPoints == [drawn |-> <<>>, range |-> <<0, 1>>]

Init ==
  /\ made = 0 /\ file = Null /\ requests = {}
  /\ rawData = Null /\ rollPeriod = 1 /\ rolled = NaN
  /\ dateWindow = Null /\ valueWindow = Null /\ zoomedX = FALSE /\ zoomedY = FALSE
  /\ yRange = Null /\ points = NoPoints
  /\ lastRow = -1 /\ selPoint = Null /\ legend = Null
  /\ context = NoContext /\ listeners = 0 /\ mouse = "idle" /\ at \in Positions
  /\ threw = FALSE

(* handleFileSelect constructs a new Dygraph in the same div, and __init__
   ends with the request of start_. *)
SelectFile(f) ==
  /\ made < MaxCharts /\ mouse # "down"
  /\ made' = made + 1
  /\ file' = f
  /\ requests' = requests \cup {made + 1}
  /\ rawData' = Null /\ rollPeriod' = 1 /\ rolled' = NaN
  /\ dateWindow' = Null /\ valueWindow' = Null /\ zoomedX' = FALSE /\ zoomedY' = FALSE
  /\ yRange' = Null /\ points' = NoPoints
  /\ lastRow' = -1 /\ selPoint' = Null /\ legend' = Null
  /\ context' = NoContext /\ listeners' = 0 /\ mouse' = "idle" /\ UNCHANGED at
  /\ threw' = FALSE

(* loadedEvent_ of the chart that made the request; what an older one makes
   of its file is seen by nobody. *)
LoadedEvent(chart, lines) ==
  IF chart = made
  THEN /\ rawData' = ParseCSV("plain", lines)
       /\ Predraw(rawData', rollPeriod)
       /\ UNCHANGED <<rollPeriod, view, selPoint, gesture>>
  ELSE UNCHANGED <<data, view, picture, selection, gesture, threw>>

(* onreadystatechange: status 200 loads the file. *)
Answer(chart) ==
  /\ requests' = requests \ {chart}
  /\ LoadedEvent(chart, Content[file])
  /\ UNCHANGED <<made, file>>

(* Status 0 is taken for a file too: a request that failed without a status
   loads the empty text. *)
AnswerEmpty(chart) ==
  /\ requests' = requests \ {chart}
  /\ LoadedEvent(chart, <<>>)
  /\ UNCHANGED <<made, file>>

(* Any other status loads nothing. *)
AnswerFails(chart) ==
  /\ requests' = requests \ {chart}
  /\ UNCHANGED <<made, file, data, view, picture, selection, gesture, threw>>

(* adjustRoll, from the roller that the first predraw_ makes. *)
AdjustRoll(period) ==
  /\ rawData # Null /\ mouse # "down"
  /\ rollPeriod' = period
  /\ Predraw(rawData, period)
  /\ UNCHANGED <<made, file, requests, rawData, view, selPoint, gesture>>

-----------------------------------------------------------------------------
(* The selection *)

(* findClosestRow: the first of the drawn points nearest to the pixel.  The
   layout has turned null into NaN, which counts as a valid point here. *)
FindClosestRow(px) ==
  LET dist(k) == Abs(CanvasX(points.drawn[k].xval, points.range) - px)
      nearest == {k \in DOMAIN points.drawn : \A j \in DOMAIN points.drawn : dist(k) <= dist(j)}
  IN  IF nearest = {} THEN -1 ELSE points.drawn[Min(nearest)].idx

PointOf(row) ==
  LET k == {j \in DOMAIN points.drawn : points.drawn[j].idx = row}
  IN  IF k = {} THEN Null ELSE points.drawn[Min(k)]

(* updateSelection_ makes the legend plugin write the point, and draws the
   circle around it. *)
UpdateSelection(point) == legend' = point

(* setSelection: the legend is written only if the row changes. *)
SetSelection(row) ==
  /\ lastRow' = row
  /\ selPoint' = PointOf(row)
  /\ IF row # lastRow THEN UpdateSelection(PointOf(row)) ELSE UNCHANGED legend

(* mouseMove_, without the option highlightSeriesOpts. *)
Hover(p) == SetSelection(FindClosestRow(p[1]))

ClearSelection == lastRow' = -1 /\ selPoint' = Null /\ Deselect

OnCanvas(p) == p[1] <= canvas.w

(* What the canvas makes of a mousemove: mouseMove_ on it, mouseOut_ where
   the mouse has left it. *)
Select(p) == IF OnCanvas(p) THEN Hover(p) ELSE ClearSelection

-----------------------------------------------------------------------------
(* The drag context *)

HasPlotter == rawData # Null

(* The region from the press to p. *)
RegionWidth(p)  == Abs(p[1] - context.start[1])
RegionHeight(p) == Abs(p[2] - context.start[2])

\* Variant: the pan shows the width of the whole file.
StartPanOverAll(ctx) ==
  LET range == XAxisExtremes(rawData)
      panning == [ctx EXCEPT !.isPanning = TRUE]
      inX == [panning EXCEPT !.initialLeftmostDate = range[1],
                             !.dateRange = range[2] - range[1]]
  IN  IF ~HasPlotter THEN panning
      ELSE IF yRange = Null THEN inX
      ELSE [inX EXCEPT !.initialTopValue = yRange[2],
                       !.dragValueRange = yRange[2] - yRange[1],
                       !.is2DPan = valueWindow # Null]

(* startPan: without a plotter (to ask for the extremes, or for the width of
   the plot area) or a range of the axis it throws an exception behind the
   assignments it has made. *)
StartPan(ctx) ==
  LET xRange == XAxisRange(rawData, dateWindow)
      panning == [ctx EXCEPT !.isPanning = TRUE]
      dated == [panning EXCEPT !.initialLeftmostDate = xRange[1],
                               !.dateRange = xRange[2] - xRange[1]]
      inX == [dated EXCEPT !.is2DPan = FALSE]
  IN  IF ~HasPlotter /\ dateWindow = Null THEN panning
      ELSE IF ~HasPlotter THEN dated
      ELSE IF yRange = Null THEN inX
      ELSE [inX EXCEPT !.initialTopValue = yRange[2],
                       !.dragValueRange = yRange[2] - yRange[1],
                       !.is2DPan = valueWindow # Null]

(* mousedown of the interaction model: initializeMouseDown, then the start
   of a pan or of a zoom, then the listeners on the document. *)
MouseDown(shift) ==
  LET pressed == [context EXCEPT !.start = at, !.cancelNextDblclick = FALSE]
      fails == shift /\ (~HasPlotter \/ yRange = Null)
  IN  /\ made > 0 /\ mouse # "down" /\ OnCanvas(at)
      /\ mouse' = "down"
      /\ context' = IF shift THEN StartPan(pressed) ELSE [pressed EXCEPT !.isZooming = TRUE]
      /\ listeners' = IF fails THEN listeners ELSE listeners + 1
      /\ threw' = (threw \/ fails)
      /\ UNCHANGED <<made, file, requests, data, view, picture, selection, at>>

(* drawZoomRect_ asks the layout for the plot area, which the first
   predraw_ computes. *)
DrawZoomRectThrows == ~HasPlotter

(* The mousemove listener while zooming: moveZoom near the chart; far off
   the drag is suspended. *)
MoveZoom(p) ==
  /\ Select(p)
  /\ IF p[1] - canvas.w < DRAG_EDGE_MARGIN
     THEN /\ context' = [context EXCEPT !.moved = TRUE,
                           !.dragDirection = IF 2 * RegionWidth(p) < RegionHeight(p)
                                             THEN "vertical" ELSE "horizontal"]
          /\ threw' = (threw \/ DrawZoomRectThrows)
     ELSE /\ context' = [context EXCEPT !.moved = FALSE]
          /\ UNCHANGED threw
  /\ UNCHANGED <<data, view, picture, listeners>>

(* The same while panning, movePan: the window follows the mouse, in y too
   if y was zoomed, and the picture is drawn anew. *)
MovePan(p) ==
  LET dx == p[1] - context.start[1]
      dy == p[2] - context.start[2]
      minDate == context.initialLeftmostDate
                 - Quotient(dx * context.dateRange, area.w - 1)
      maxValue == context.initialTopValue
                  + Quotient(dy * context.dragValueRange, area.h - 1)
  IN  /\ Abs(minDate) <= MaxShift /\ Abs(maxValue) <= MaxRise
      /\ dateWindow' = <<minDate, minDate + context.dateRange>>
      /\ valueWindow' = IF context.is2DPan
                        THEN <<maxValue - context.dragValueRange, maxValue>>
                        ELSE valueWindow
      /\ context' = [context EXCEPT !.moved = TRUE]
      /\ selPoint' = IF OnCanvas(p) THEN PointOf(FindClosestRow(p[1])) ELSE Null
      /\ IF HasPlotter
         THEN /\ DrawGraph(rawData, rolled, dateWindow', valueWindow')
              /\ UNCHANGED threw
         ELSE threw' = TRUE /\ UNCHANGED <<picture, lastRow, legend>>
      /\ UNCHANGED <<data, zoomedX, zoomedY, listeners>>

(* A mousemove: the canvas sees it first, then the listeners of the document
   if there are any. *)
MouseMove(p) ==
  /\ made > 0 /\ p # at
  /\ at' = p
  /\ mouse' = IF mouse = "up" THEN "idle" ELSE mouse
  /\ UNCHANGED <<made, file, requests>>
  /\ \/ listeners > 0 /\ context.isZooming /\ MoveZoom(p)
     \/ listeners > 0 /\ ~context.isZooming /\ context.isPanning /\ MovePan(p)
     \/ /\ listeners = 0 \/ (~context.isZooming /\ ~context.isPanning)
        /\ Select(p)
        /\ UNCHANGED <<data, view, picture, context, listeners, threw>>

-----------------------------------------------------------------------------
(* The end of a drag *)

\* Variant: a pan is not ended.
DestroyedButPan(ctx) == [ctx EXCEPT !.isZooming = FALSE, !.start = Null]

(* context.destroy() behind the release.  What startPan noted is of no use
   any more. *)
Destroyed(ctx) ==
  [ctx EXCEPT !.isZooming = FALSE, !.isPanning = FALSE,
              !.start = IF ctx.isZooming \/ ctx.isPanning THEN Null ELSE @,
              !.is2DPan = FALSE, !.initialLeftmostDate = 0, !.dateRange = 0,
              !.initialTopValue = 0, !.dragValueRange = 0]

\* Variant: the listeners stay installed.
ReleasedWithListeners ==
  /\ context' = Destroyed(context)
  /\ UNCHANGED <<listeners, data, view, picture, selection, threw>>

(* maybeTreatMouseOpAsClick only notes where the mouse is: the page has no
   callback for clicks. *)
TreatedAsClick(ctx) ==
  IF ctx.isZooming \/ ctx.isPanning THEN [ctx EXCEPT !.moved = TRUE] ELSE ctx

(* A release that zooms nothing: the listener of mouseup removes both and
   destroys the context. *)
Released ==
  /\ context' = Destroyed(TreatedAsClick(context))
  /\ listeners' = 0
  /\ UNCHANGED <<data, view, picture, selection, threw>>

(* The region of endZoom, cut down to the plot area. *)
Left   == Max2(Min2(context.start[1], at[1]), area.x)
Right  == Min2(Max2(context.start[1], at[1]), area.x + area.w)
Top    == Max2(Min2(context.start[2], at[2]), area.y)

\* Variant: the region may reach below the plot area.
BottomUncut == Max2(context.start[2], at[2])
Bottom == Min2(Max2(context.start[2], at[2]), area.y + area.h)

DragsX == RegionWidth(at) >= 10 /\ context.dragDirection = "horizontal"
DragsY == ~DragsX /\ RegionHeight(at) >= 10 /\ context.dragDirection = "vertical"
ZoomsX == DragsX /\ Left < Right
ZoomsY == DragsY /\ Top < Bottom

\* Variant: the picture is drawn for the window before.
DoZoomXDrawsBefore ==
  LET range == XAxisRange(rawData, dateWindow)
      window == <<ToDataX(Left, range), ToDataX(Right, range)>>
  IN  /\ window[2] - window[1] >= MinWidth
      /\ zoomedX' = TRUE
      /\ dateWindow' = window
      /\ DrawGraph(rawData, rolled, dateWindow, valueWindow)
      /\ UNCHANGED <<valueWindow, zoomedY>>

(* doAnimatedZoom with its one step: the chart is not animated. *)
DoAnimatedZoom(window, yWindow) ==
  /\ dateWindow' = window
  /\ valueWindow' = yWindow
  /\ DrawGraph(rawData, rolled, window, yWindow)

(* doZoomX_ and doZoomXDates_. *)
DoZoomX ==
  LET range == XAxisRange(rawData, dateWindow)
      window == <<ToDataX(Left, range), ToDataX(Right, range)>>
  IN  /\ window[2] - window[1] >= MinWidth
      /\ zoomedX' = TRUE
      /\ DoAnimatedZoom(window, valueWindow)
      /\ UNCHANGED zoomedY

(* doZoomY_: pixels count downwards, values upwards. *)
DoZoomY ==
  LET window == <<ToDataY(Bottom, yRange), ToDataY(Top, yRange)>>
  IN  /\ window[2] - window[1] >= MinHeight
      /\ zoomedY' = TRUE
      /\ DoAnimatedZoom(dateWindow, window)
      /\ UNCHANGED zoomedX

EndZoom ==
  /\ context' = Destroyed([context EXCEPT !.isZooming = FALSE, !.start = Null,
                                          !.cancelNextDblclick = @ \/ DragsX \/ DragsY])
  /\ listeners' = 0
  /\ UNCHANGED <<data, selPoint, threw>>
  /\ \/ ZoomsX /\ DoZoomX
     \/ ZoomsY /\ DoZoomY
     \/ ~ZoomsX /\ ~ZoomsY /\ UNCHANGED <<view, picture, lastRow, legend>>

(* endZoom needs the plot area, and for y the range of the axis: where one
   is missing its exception keeps the listeners installed.  A second pair
   finds no zoom any more, removes itself and destroys the context. *)
EndZoomThrows == ~HasPlotter \/ (ZoomsY /\ yRange = Null)

EndZoomFails ==
  /\ threw' = TRUE
  /\ context' = LET ctx == [context EXCEPT !.isZooming = FALSE]
                IN  IF listeners > 1 THEN Destroyed(ctx) ELSE ctx
  /\ listeners' = 1
  /\ UNCHANGED <<data, view, picture, selection>>

(* mouseup on the document, the end of the drag or, where an exception left
   the listeners installed, of a click elsewhere. *)
MouseUp ==
  /\ mouse = "down" \/ listeners > 0
  /\ mouse' = IF mouse = "down" THEN "up" ELSE mouse
  /\ UNCHANGED <<made, file, requests, at>>
  /\ \/ /\ listeners = 0
        /\ UNCHANGED <<data, view, picture, selection, context, listeners, threw>>
     \/ /\ listeners > 0 /\ context.isZooming /\ context.moved
        /\ IF EndZoomThrows THEN EndZoomFails ELSE EndZoom
     \/ /\ listeners > 0 /\ ~(context.isZooming /\ context.moved)
        /\ Released

\* Variant: the zoom in y stays.
ResetZoomOfX ==
  IF ~HasPlotter THEN threw' = TRUE /\ UNCHANGED <<view, picture, selection>>
  ELSE /\ dateWindow' = Null /\ zoomedX' = FALSE /\ selPoint' = Null
       /\ DrawGraph(rawData, rolled, Null, valueWindow)
       /\ UNCHANGED <<valueWindow, zoomedY, threw>>

(* resetZoom.  With the empty series of a file without rows it throws an
   exception behind the flags. *)
ResetZoom ==
  LET dirty == dateWindow # Null \/ valueWindow # Null
  IN  IF ~HasPlotter
      THEN threw' = TRUE /\ UNCHANGED <<view, picture, selection>>
      ELSE IF ~dirty
      THEN ClearSelection /\ UNCHANGED <<view, picture, threw>>
      ELSE /\ zoomedX' = FALSE /\ zoomedY' = FALSE
           /\ selPoint' = Null
           /\ IF rawData = <<>>
              THEN /\ lastRow' = -1 /\ Deselect
                   /\ threw' = TRUE
                   /\ UNCHANGED <<dateWindow, valueWindow, picture>>
              ELSE /\ dateWindow' = Null /\ valueWindow' = Null
                   /\ DrawGraph(rawData, rolled, Null, Null)
                   /\ UNCHANGED threw

(* dblclick, right behind a release: a zoom that just ended cancels it.
   With a modifier key nothing more happens than that. *)
DblClick ==
  /\ mouse = "up"
  /\ mouse' = "idle"
  /\ UNCHANGED <<made, file, requests, data, listeners, at>>
  /\ IF context.cancelNextDblclick
     THEN /\ context' = [context EXCEPT !.cancelNextDblclick = FALSE]
          /\ UNCHANGED <<view, picture, selection, threw>>
     ELSE ResetZoom /\ UNCHANGED context

Requested == \E c \in requests : Answer(c) \/ AnswerEmpty(c) \/ AnswerFails(c)
Rolling == \E period \in Rolls \cup {Fraction} : AdjustRoll(period)
Mouse == \/ \E p \in Positions : MouseMove(p)
         \/ \E shift \in BOOLEAN : MouseDown(shift)
         \/ MouseUp \/ DblClick

-----------------------------------------------------------------------------
(* Properties *)

(* Types of the chart's state. *)
TypeOK ==
  /\ made \in 0..MaxCharts /\ file \in Files \cup {Null}
  /\ requests \subseteq 1..MaxCharts
  /\ rollPeriod \in Rolls \cup {1, Fraction}
  /\ dateWindow = Null \/ dateWindow \in Int \X Int
  /\ valueWindow = Null \/ valueWindow \in Int \X Int
  /\ zoomedX \in BOOLEAN /\ zoomedY \in BOOLEAN
  /\ yRange = Null \/ yRange \in Int \X Int
  /\ lastRow \in Int
  /\ context.isZooming \in BOOLEAN /\ context.isPanning \in BOOLEAN
  /\ context.start \in Positions \cup {Null} /\ context.moved \in BOOLEAN
  /\ context.dragDirection \in {Null, "horizontal", "vertical"}
  /\ context.cancelNextDblclick \in BOOLEAN
  /\ listeners \in 0..2 /\ mouse \in {"idle", "down", "up"}
  /\ at \in Positions /\ threw \in BOOLEAN

(* Whatever the handlers do to the window, the zoom in y and the averaging
   period, they leave behind the picture of exactly that state. *)
DrawnIsCurrent ==
  HasPlotter /\ rolled # NaN =>
    LET shown == GatherDatasets(Rolled(rawData, rollPeriod), dateWindow)
    IN  /\ points = [drawn |-> shown.points, range |-> XAxisRange(rawData, dateWindow)]
        /\ yRange = IF valueWindow # Null THEN valueWindow
                    ELSE ExtremeRange({shown.extremes}, FALSE, FALSE)

(* The legend shows a sample only while that sample is highlighted, and then
   with the value it is drawn with. *)
HighlightIsCurrent ==
  IF lastRow = -1 THEN legend = Null
  ELSE legend = PointOf(lastRow) /\ selPoint = legend /\ legend # Null

(* Unless a handler failed, nothing of a drag outlives the release of the
   button: a later move can neither pan nor zoom. *)
NoOrphanDrag ==
  ~threw /\ mouse # "down" => ~context.isZooming /\ ~context.isPanning /\ listeners = 0

(* "click and drag to zoom": a zoom shows a part of what was shown. *)
Within(a, b) == a[1] >= b[1] /\ a[2] <= b[2]
ZoomNarrows ==
  [][context.isZooming /\ made' = made /\ rawData' = rawData =>
       /\ dateWindow' # dateWindow => Within(dateWindow', XAxisRange(rawData, dateWindow))
       /\ valueWindow' # valueWindow => Within(valueWindow', yRange)]_vars
=============================================================================
