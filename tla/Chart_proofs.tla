---------------------------- MODULE Chart_proofs ----------------------------
(***************************************************************************)
(* The chart under a mouse or under fingers, for files of any length, any  *)
(* positions and any number of charts: what TouchSpec keeps true.  Behind  *)
(* it the stages from a file to the picture: what PipelineSpec keeps true. *)
(***************************************************************************)
EXTENDS ChartTouch, ChartPipeline, ChartData_proofs

-----------------------------------------------------------------------------
(* What a step does to the picture *)

Fresh == \E f \in Files : SelectFile(f)

\* The file of this chart arrives.
Loads ==
  /\ made \in requests /\ requests' = requests \ {made}
  /\ \E text \in {Content[file], << >>} : rawData' = ParseCSV("plain", text)
  /\ Predraw(rawData', rollPeriod)
  /\ UNCHANGED <<made, file, rollPeriod, view, selPoint, gesture>>

Rerolls == \E period \in Rolls \cup {Fraction} : AdjustRoll(period)

\* The point that is circled: none, the same, or a drawn one.
Circles == selPoint' \in {Null, selPoint} \/ \E row : selPoint' = PointOf(row)

\* The window or the zoom in y changes, and the picture with them.
Redraws ==
  /\ HasPlotter /\ Circles
  /\ DrawGraph(rawData, rolled, dateWindow', valueWindow')
  /\ UNCHANGED <<made, file, requests, data>>

\* The picture stays; what is highlighted on it may change.
Looks ==
  /\ UNCHANGED <<made, file, data, dateWindow, valueWindow, picture>>
  /\ requests' \subseteq requests
  /\ \/ UNCHANGED selection
     \/ \E row : SetSelection(row) /\ \E p \in Positions : row = FindClosestRow(p[1])
     \/ lastRow' = -1 /\ selPoint' = Null /\ legend' = Null

\* Nothing is drawn before the file is there.
BlindPan ==
  /\ ~HasPlotter /\ Circles
  /\ UNCHANGED <<made, file, requests, data, picture, lastRow, legend>>

\* An answer of the server.
LEMMA RequestedKind ==
  ASSUME Requested
  PROVE  Loads \/ Looks
<1>1. PICK c \in requests : Answer(c) \/ AnswerEmpty(c) \/ AnswerFails(c)
  BY DEF Requested
<1>2. CASE c = made /\ (Answer(c) \/ AnswerEmpty(c))
  BY <1>1, <1>2 DEF Answer, AnswerEmpty, LoadedEvent, Loads
<1>3. CASE ~(c = made /\ (Answer(c) \/ AnswerEmpty(c)))
  BY <1>1, <1>3 DEF Answer, AnswerEmpty, AnswerFails, LoadedEvent, Looks, data, view, picture, selection, gesture
<1> QED
  BY <1>2, <1>3

\* What a move of the mouse selects.
LEMMA SelectKind ==
  ASSUME NEW p \in Positions, Select(p), UNCHANGED <<made, file, requests, data, dateWindow, valueWindow, picture>>
  PROVE  Looks
BY DEF Select, Hover, ClearSelection, Deselect, Looks, data, view, picture, selection

\* A zoom out.
LEMMA ResetKind ==
  ASSUME ResetZoom, UNCHANGED <<made, file, requests, data>>
  PROVE  Redraws \/ Looks
<1>1. CASE ~HasPlotter \/ ~(dateWindow # Null \/ valueWindow # Null)
  BY <1>1 DEF ResetZoom, ClearSelection, Deselect, Looks, view, picture, selection
<1>2. CASE HasPlotter /\ (dateWindow # Null \/ valueWindow # Null) /\ rawData = << >>
  BY <1>2 DEF ResetZoom, Deselect, Looks, picture
<1>3. CASE HasPlotter /\ (dateWindow # Null \/ valueWindow # Null) /\ rawData # << >>
  BY <1>3 DEF ResetZoom, Redraws, Circles
<1> QED
  BY <1>1, <1>2, <1>3

\* A move of the mouse.
LEMMA MouseMoveKind ==
  ASSUME NEW p \in Positions, MouseMove(p)
  PROVE  Redraws \/ Looks \/ BlindPan
<1>1. CASE MoveZoom(p)
  BY <1>1, SelectKind DEF MouseMove, MoveZoom, view
<1>2. CASE MovePan(p)
  BY <1>2 DEF MouseMove, MovePan, Redraws, BlindPan, Circles, picture
<1>3. CASE Select(p) /\ UNCHANGED <<data, view, picture, context, listeners, threw>>
  BY <1>3, SelectKind DEF MouseMove, view
<1> QED
  BY <1>1, <1>2, <1>3 DEF MouseMove

\* A release of the button.
LEMMA MouseUpKind ==
  ASSUME MouseUp
  PROVE  Redraws \/ Looks
<1>1. CASE HasPlotter /\ EndZoom /\ (ZoomsX \/ ZoomsY)
  BY <1>1 DEF MouseUp, EndZoom, DoZoomX, DoZoomY, DoAnimatedZoom, Redraws, Circles, ZoomsX, ZoomsY, DragsY
<1>2. CASE EndZoom /\ ~ZoomsX /\ ~ZoomsY
  BY <1>2 DEF MouseUp, EndZoom, Looks, view, picture, selection
<1>3. CASE ~HasPlotter \/ ~EndZoom
  BY <1>3 DEF MouseUp, EndZoomThrows, EndZoomFails, Released, Looks, view, picture, selection
<1> QED
  BY <1>1, <1>2, <1>3

\* An event of the touch screen.
LEMMA TouchKind ==
  ASSUME Len(touch.initial) # 0 => HasPlotter,
         (\E p \in Positions : TouchStart(p)) \/ TouchEnd
         \/ \E i \in DOMAIN fingers, p \in Positions : TouchMove(i, p)
  PROVE  Redraws \/ Looks
<1>1. CASE \E p \in Positions : TouchStart(p)
  BY <1>1 DEF TouchStart, Looks, view, picture, selection
<1>2. CASE TouchEnd
  <2>1. CASE DoubleTap
    BY <1>2, <2>1, ResetKind DEF TouchEnd, DoubleTap
  <2>2. CASE ~DoubleTap
    BY <1>2, <2>2 DEF TouchEnd, LiftOne, Tap, Looks, view, picture, selection
  <2> QED
    BY <2>1, <2>2
<1>3. CASE \E i \in DOMAIN fingers, p \in Positions : TouchMove(i, p)
  <2>1. PICK i \in DOMAIN fingers, p \in Positions : TouchMove(i, p)
    BY <1>3
  <2>2. CASE MoveTouchThrows(fingers')
    BY <2>1, <2>2 DEF TouchMove, MoveTouch, Looks, view, picture, selection
  <2>3. CASE ~MoveTouchThrows(fingers')
    BY <2>1, <2>3 DEF TouchMove, MoveTouch, MoveTouchThrows, Redraws, Circles
  <2> QED
    BY <2>2, <2>3
<1> QED
  BY <1>1, <1>2, <1>3

\* Every step is of one of these kinds.
LEMMA StepKind ==
  ASSUME Len(touch.initial) # 0 => HasPlotter, [TouchNext]_tvars
  PROVE  Fresh \/ Loads \/ Rerolls \/ Redraws \/ Looks \/ BlindPan
<1>1. CASE Requested
  BY <1>1, RequestedKind
<1>2. CASE Rolling
  BY <1>2 DEF Rolling, Rerolls
<1>3. CASE Mouse
  <2>1. CASE \E shift \in BOOLEAN : MouseDown(shift)
    BY <2>1 DEF MouseDown, Looks, view
  <2>2. CASE DblClick
    <3>1. CASE ResetZoom
      BY <2>2, <3>1, ResetKind DEF DblClick
    <3>2. CASE ~ResetZoom
      BY <2>2, <3>2 DEF DblClick, Looks, view
    <3> QED
      BY <3>1, <3>2
  <2> QED
    BY <1>3, <2>1, <2>2, MouseMoveKind, MouseUpKind DEF Mouse
<1>4. CASE (\E p \in Positions : TouchStart(p)) \/ TouchEnd
           \/ \E i \in DOMAIN fingers, p \in Positions : TouchMove(i, p)
  BY <1>4, TouchKind
<1>5. CASE UNCHANGED tvars
  BY <1>5 DEF tvars, vars, Looks, view
<1>6. CASE \E f \in Files : SelectFile(f)
  BY <1>6 DEF Fresh
<1> QED
  BY <1>1, <1>2, <1>3, <1>4, <1>5, <1>6 DEF TouchNext

-----------------------------------------------------------------------------
(* The inductive invariant *)

\* Ranges on the data go upwards.
Ranges  == {w \in Int \X Int : w[1] <= w[2]}
Contexts == [isZooming : BOOLEAN, isPanning : BOOLEAN, is2DPan : BOOLEAN,
            start : Positions \cup {Null}, moved : BOOLEAN,
            dragDirection : {Null, "horizontal", "vertical"},
            cancelNextDblclick : BOOLEAN,
            initialLeftmostDate : Int, dateRange : Nat,
            initialTopValue : Int, dragValueRange : Nat]
Touches  == [initial : Seq(Positions), centre : Int \X Int, centreData : Int \X Int,
            directions : SUBSET {"x", "y"}, range : (Int \X Int) \X (Int \X Int),
            tapped : Positions \cup {Null}]

DataInv ==
  /\ made \in 0..MaxCharts /\ requests \subseteq 1..made
  /\ file \in Files \cup {Null} /\ (made > 0 => file \in Files)
  /\ rawData = Null \/ (rawData \in Seq(Row) /\ Sorted(rawData))
  /\ rollPeriod \in Rolls \cup {1, Fraction}
  /\ rolled = NaN \/ rolled \in Seq(Sample)

ViewInv ==
  /\ dateWindow \in Ranges \cup {Null} /\ valueWindow \in Ranges \cup {Null}
  /\ zoomedX \in BOOLEAN /\ zoomedY \in BOOLEAN

\* Before the file is there, nothing is drawn or highlighted.
PictureInv ==
  /\ yRange \in Ranges \cup {Null}
  /\ points \in [drawn : Seq(Point), range : Int \X Int]
  /\ lastRow \in Int /\ selPoint \in Point \cup {Null} /\ legend \in Point \cup {Null}
  /\ ~HasPlotter => /\ rolled = NaN /\ yRange = Null
                    /\ points = NoPoints /\ lastRow = -1

\* A drag has begun somewhere and, unless a handler failed, has the only pair
\* of listeners, which no release leaves installed.
GestureInv ==
  /\ context \in Contexts
  /\ listeners \in 0..2 /\ mouse \in {"idle", "down", "up"} /\ at \in Positions
  /\ threw \in BOOLEAN
  /\ mouse # "down" => listeners <= 1
  /\ context.isZooming => mouse = "down" /\ listeners > 0
  /\ context.isZooming \/ context.isPanning => context.start # Null
  /\ ~threw => IF mouse = "down" THEN listeners = 1
               ELSE listeners = 0 /\ ~context.isZooming /\ ~context.isPanning

\* A pinch zooms in directions in which its fingers are apart.
TouchInv ==
  /\ device \in {"mouse", "touch"}
  /\ fingers \in Seq(Positions) /\ Len(fingers) <= 2
  /\ touch \in Touches /\ Len(touch.initial) <= 2
  /\ Len(touch.initial) = 2 =>
       /\ "x" \in touch.directions => touch.initial[1][1] # touch.initial[2][1]
       /\ "y" \in touch.directions => touch.initial[1][2] # touch.initial[2][2]
  /\ Len(touch.initial) # 0 => HasPlotter
  /\ device = "touch" => mouse = "idle"
  /\ device = "mouse" => fingers = << >>

IInv == DataInv /\ ViewInv /\ PictureInv /\ GestureInv /\ TouchInv

-----------------------------------------------------------------------------
(* Coordinates and drawings of typed data *)

\* A quotient that is cut off is an integer, not negative if the dividend is not.
LEMMA QuotientType ==
  ASSUME NEW a \in Int, NEW b \in Int, b > 0
  PROVE  Quotient(a, b) \in Int /\ (a >= 0 => Quotient(a, b) >= 0)
BY DEF Quotient

\* A part of a width is between 0 and the width.
LEMMA PartOfWidth ==
  ASSUME NEW size \in Nat \ {0}, NEW k \in 0..size, NEW w \in Nat
  PROVE  Quotient(k * w, size) \in 0..w
<1>1. k * w \in Int /\ 0 <= k * w
  OBVIOUS
<1>2. k * w <= size * w
  OBVIOUS
<1> DEFINE z == k * w
           q == z \div size
<1>3. q \in Int /\ z \in Int /\ 0 <= z /\ z <= size * w /\ q * size <= z /\ z < (q + 1) * size /\ Quotient(z, size) = q
  <2> HIDE DEF z
  <2> QED
    BY <1>1, <1>2 DEF Quotient, z
<1> HIDE DEF q, z
<1>4. 0 <= q
  <2> SUFFICES ASSUME q < 0 PROVE FALSE
    BY <1>3
  <2>1. q + 1 <= 0 /\ q + 1 \in Int
    BY <1>3
  <2>2. (q + 1) * size <= 0
    BY <2>1
  <2> QED
    BY <1>3, <2>2
<1>5. q <= w
  <2> SUFFICES ASSUME w < q PROVE FALSE
    BY <1>3
  <2>1. w + 1 <= q
    BY <1>3
  <2>2. (w + 1) * size <= q * size
    BY <1>3, <2>1
  <2>3. (w + 1) * size = size * w + size
    OBVIOUS
  <2> QED
    BY <1>3, <2>2, <2>3
<1> QED
  BY <1>3, <1>4, <1>5 DEF z

\* The x range of a drawing is a window.
LEMMA XAxisRangeType ==
  ASSUME NEW raw \in Seq(Row), Sorted(raw), NEW window \in Ranges \cup {Null}
  PROVE  XAxisRange(raw, window) \in Ranges
<1>1. CASE window # Null
  BY <1>1 DEF XAxisRange
<1>2. CASE raw = << >> /\ window = Null
  BY <1>2 DEF XAxisRange, XAxisExtremes, Ranges
<1>3. CASE raw # << >> /\ window = Null
  <2>1. Len(raw) \in Nat /\ Len(raw) # 0 /\ \A j \in 1..Len(raw) : raw[j] \in Row
    BY <1>3, LenProperties, ElementOfSeq, EmptySeq
  <2>2. 1 \in 1..Len(raw) /\ Len(raw) \in 1..Len(raw) /\ 1 <= Len(raw)
    BY <2>1
  <2>3. raw[1][1] \in Int /\ raw[Len(raw)][1] \in Int /\ raw[1][1] <= raw[Len(raw)][1]
    BY <2>1, <2>2 DEF Row, Sorted
  <2> QED
    BY <1>3, <2>3 DEF XAxisRange, XAxisExtremes, Ranges
<1> QED
  BY <1>1, <1>2, <1>3

\* What predraw_ keeps is a series as long as the file.
LEMMA RolledType ==
  ASSUME NEW raw \in Seq(Row), NEW period \in Rolls \cup {1, Fraction}
  PROVE  /\ Rolled(raw, period) \in Seq(Sample) /\ Len(Rolled(raw, period)) = Len(raw)
         /\ Rolled(raw, period) # NaN
<1> DEFINE series == ExtractDefault(raw, FALSE)
<1>1. series \in Seq(Sample) /\ Len(series) = Len(raw) /\ Len(raw) \in Nat
  BY ExtractDefaultType, LenProperties
<1>2. period = Fraction \/ period \in Nat
  BY ChartAssumption
<1> HIDE DEF series
<1>3. Rolled(raw, period) = IF period = Fraction THEN RollDefault(series, Len(raw))
                            ELSE IF period > 1 THEN RollDefault(series, period) ELSE series
  BY DEF Rolled, series
<1>4. /\ RollDefault(series, Len(raw)) \in Seq(Sample) /\ Len(RollDefault(series, Len(raw))) = Len(raw)
      /\ period \in Nat => RollDefault(series, period) \in Seq(Sample) /\ Len(RollDefault(series, period)) = Len(raw)
  BY <1>1, RollDefaultType
<1>5. Rolled(raw, period) \in Seq(Sample) /\ Len(Rolled(raw, period)) = Len(raw)
  BY <1>1, <1>2, <1>3, <1>4
<1>6. NaN \notin Seq(Sample)
  BY ChartAssumption DEF Sample, Value
<1> QED
  BY <1>5, <1>6

\* What drawGraph_ takes from the series it has.
LEMMA GatheredType ==
  ASSUME NEW series \in Seq(Sample) \cup {NaN}, NEW window \in Ranges \cup {Null}
  PROVE  /\ Gathered(series, window).points \in Seq(Point)
         /\ series # NaN /\ window = Null => Len(Gathered(series, window).points) = Len(series)
         /\ \E low, high \in Int :
              /\ low <= high
              /\ ExtremeRange({Gathered(series, window).extremes}, FALSE, FALSE) = <<low, high>>
<1> DEFINE g == Gathered(series, window)
<1>1. /\ g.points \in Seq(Point)
      /\ series # NaN /\ window = Null => Len(g.points) = Len(series)
      /\ \/ g.extremes = <<Null, Null>>
         \/ \E low, high \in Int : low <= high /\ g.extremes = <<low, high>>
  <2>1. CASE series = NaN
    BY <2>1, EmptySeq DEF Gathered
  <2>2. CASE series # NaN
    <3>1. g = GatherDatasets(series, window) /\ series \in Seq(Sample) /\ window \in Int \X Int \cup {Null}
      BY <2>2 DEF Gathered, Ranges
    <3> HIDE DEF g
    <3>2. LET d == GatherDatasets(series, window)
          IN  /\ d.points \in Seq(Point)
              /\ window = Null => Len(d.points) = Len(series)
              /\ \/ d.extremes = <<Null, Null>>
                 \/ \E low, high \in Int : low <= high /\ d.extremes = <<low, high>>
      BY <3>1, GatherDatasetsType
    <3> QED
      BY <3>1, <3>2
  <2> QED
    BY <2>1, <2>2
<1> HIDE DEF g
<1>2. \E low, high \in Int : low <= high /\ ExtremeRange({g.extremes}, FALSE, FALSE) = <<low, high>>
  BY <1>1, ExtremeRangeType
<1> QED
  BY <1>1, <1>2 DEF g

\* What drawGraph_ leaves behind.
LEMMA DrawGraphType ==
  ASSUME NEW raw \in Seq(Row), Sorted(raw), NEW series \in Seq(Sample) \cup {NaN},
         NEW window \in Ranges \cup {Null}, NEW yWindow \in Ranges \cup {Null},
         DrawGraph(raw, series, window, yWindow)
  PROVE  /\ points' \in [drawn : Seq(Point), range : Int \X Int]
         /\ yRange' \in Ranges /\ lastRow' = -1 /\ legend' = Null
<1> DEFINE g == Gathered(series, window)
           e == ExtremeRange({g.extremes}, FALSE, FALSE)
<1>1. g.points \in Seq(Point) /\ \E low, high \in Int : low <= high /\ e = <<low, high>>
  BY GatheredType
<1>2. XAxisRange(raw, window) \in Ranges
  BY XAxisRangeType
<1>3. /\ points' = [drawn |-> g.points, range |-> XAxisRange(raw, window)]
      /\ yRange' = IF yWindow # Null THEN yWindow ELSE e
      /\ lastRow' = -1 /\ legend' = Null
  BY DEF DrawGraph, ComputedValueRange, Deselect
<1> HIDE DEF g, e
<1>4. e \in Ranges
  BY <1>1 DEF Ranges
<1>5. points' \in [drawn : Seq(Point), range : Int \X Int]
  BY <1>1, <1>2, <1>3 DEF Ranges
<1> QED
  BY <1>3, <1>4, <1>5

\* The row under the mouse is one that is drawn.
LEMMA NearestRow ==
  ASSUME points.drawn \in Seq(Point), NEW px
  PROVE  \/ FindClosestRow(px) = -1
         \/ \E k \in DOMAIN points.drawn : FindClosestRow(px) = points.drawn[k].idx
<1> DEFINE n == Len(points.drawn)
           nearest == {k \in DOMAIN points.drawn : \A j \in DOMAIN points.drawn :
                         Abs(CanvasX(points.drawn[k].xval, points.range) - px)
                         <= Abs(CanvasX(points.drawn[j].xval, points.range) - px)}
<1>1. n \in Int /\ DOMAIN points.drawn = 1..n
  BY LenProperties
<1>2. FindClosestRow(px) = IF nearest = {} THEN -1 ELSE points.drawn[Min(nearest)].idx
  BY DEF FindClosestRow
<1>3. nearest \in SUBSET (1..n)
  BY <1>1
<1> HIDE DEF nearest, n
<1>4. nearest # {} => Min(nearest) \in DOMAIN points.drawn
  BY <1>1, <1>3, IndexMinMax, Zenon
<1> QED
  BY <1>2, <1>4

\* The point of a row is one that is drawn, if there is one.
LEMMA DrawnPoint ==
  ASSUME points.drawn \in Seq(Point), NEW row
  PROVE  \/ PointOf(row) = Null /\ \A j \in DOMAIN points.drawn : points.drawn[j].idx # row
         \/ PointOf(row) \in Point /\ PointOf(row).idx = row
<1> DEFINE n == Len(points.drawn)
           k == {j \in DOMAIN points.drawn : points.drawn[j].idx = row}
<1>1. n \in Int /\ DOMAIN points.drawn = 1..n /\ \A j \in 1..n : points.drawn[j] \in Point
  BY LenProperties, ElementOfSeq
<1>2. PointOf(row) = IF k = {} THEN Null ELSE points.drawn[Min(k)]
  BY DEF PointOf
<1>3. k \in SUBSET (1..n)
  BY <1>1
<1>4. k # {} => Min(k) \in k
  <2> HIDE DEF k, n
  <2> QED
    BY <1>1, <1>3, IndexMinMax, Zenon
<1>5. CASE k = {}
  BY <1>2, <1>5
<1>6. CASE k # {}
  BY <1>1, <1>2, <1>4, <1>6
<1> QED
  BY <1>5, <1>6

-----------------------------------------------------------------------------
(* Ranges *)

\* A pixel of the plot area is in the x range it shows.
LEMMA PixelInRange ==
  ASSUME NEW range \in Ranges, NEW px \in Int, area.x <= px, px <= area.x + area.w
  PROVE  ToDataX(px, range) \in Int /\ range[1] <= ToDataX(px, range) /\ ToDataX(px, range) <= range[2]
<1> DEFINE w == range[2] - range[1]
           k == px - area.x
<1>1. w \in Nat /\ k \in 0..80 /\ range[1] \in Int /\ range[2] \in Int
  BY DEF Ranges, area
<1>2. ToDataX(px, range) = range[1] + Quotient(k * w, 80)
  BY DEF ToDataX, area
<1>3. range[2] = range[1] + w
  BY <1>1
<1> HIDE DEF k, w
<1>4. Quotient(k * w, 80) \in 0..w
  BY <1>1, PartOfWidth, 80 \in Nat \ {0}
<1> QED
  BY <1>1, <1>2, <1>3, <1>4

\* And in the y range.
LEMMA PixelInYRange ==
  ASSUME NEW range \in Ranges, NEW py \in Int, area.y <= py, py <= area.y + area.h
  PROVE  ToDataY(py, range) \in Int /\ range[1] <= ToDataY(py, range) /\ ToDataY(py, range) <= range[2]
<1> DEFINE w == range[2] - range[1]
           k == area.y + area.h - py
<1>1. w \in Nat /\ k \in 0..40 /\ range[1] \in Int /\ range[2] \in Int
  BY DEF Ranges, area
<1>2. ToDataY(py, range) = range[1] + Quotient(k * w, 40)
  BY DEF ToDataY, area
<1>3. range[2] = range[1] + w
  BY <1>1
<1> HIDE DEF k, w
<1>4. Quotient(k * w, 40) \in 0..w
  BY <1>1, PartOfWidth, 40 \in Nat \ {0}
<1> QED
  BY <1>1, <1>2, <1>3, <1>4

\* A zoom shows a part of what was shown.
LEMMA ZoomStep ==
  ASSUME IInv, MouseUp, EndZoom
  PROVE  /\ dateWindow' \in Ranges \cup {Null} /\ valueWindow' \in Ranges \cup {Null}
         /\ zoomedX' \in BOOLEAN /\ zoomedY' \in BOOLEAN
         /\ dateWindow' # dateWindow => Within(dateWindow', XAxisRange(rawData, dateWindow))
         /\ valueWindow' # valueWindow => Within(valueWindow', yRange)
<1> USE DEF IInv
<1>1. (context.isZooming /\ ~EndZoomThrows) \/ UNCHANGED view
  BY DEF MouseUp, EndZoom, EndZoomFails, Released, view
<1>2. CASE UNCHANGED view
  BY <1>2 DEF ViewInv, view
<1>3. CASE context.isZooming /\ ~EndZoomThrows
  <2>1. /\ context.start[1] \in Int /\ context.start[2] \in Int
        /\ at[1] \in Int /\ at[2] \in Int
    BY <1>3, ChartAssumption DEF GestureInv, Contexts
  <2>2. CASE ZoomsX /\ DoZoomX
    <3> DEFINE range == XAxisRange(rawData, dateWindow)
               l == ToDataX(Left, range)
               r == ToDataX(Right, range)
    <3>1. range \in Ranges
      BY <1>3, XAxisRangeType DEF EndZoomThrows, DataInv, ViewInv, HasPlotter
    <3> HIDE DEF range
    <3>2. /\ Left \in Int /\ area.x <= Left /\ Left <= area.x + area.w
          /\ Right \in Int /\ area.x <= Right /\ Right <= area.x + area.w
      BY <2>1, <2>2 DEF ZoomsX, Left, Right, Max2, Min2, area
    <3>3. l \in Int /\ r \in Int /\ range[1] <= l /\ r <= range[2]
      BY <3>1, <3>2, PixelInRange
    <3>4. /\ dateWindow' = <<l, r>> /\ r - l >= MinWidth /\ zoomedX' = TRUE
          /\ UNCHANGED <<valueWindow, zoomedY>>
      BY <2>2 DEF DoZoomX, DoAnimatedZoom, range
    <3> HIDE DEF l, r
    <3>5. dateWindow' \in Ranges
      BY <3>3, <3>4, ChartAssumption DEF Ranges
    <3>6. Within(dateWindow', range)
      BY <3>3, <3>4 DEF Within
    <3> QED
      BY <3>4, <3>5, <3>6 DEF ViewInv, range
  <2>3. CASE ZoomsY /\ DoZoomY
    <3> DEFINE l == ToDataY(Bottom, yRange)
               r == ToDataY(Top, yRange)
    <3>1. yRange \in Ranges
      BY <1>3, <2>3 DEF EndZoomThrows, PictureInv
    <3>2. /\ Top \in Int /\ area.y <= Top /\ Top <= area.y + area.h
          /\ Bottom \in Int /\ area.y <= Bottom /\ Bottom <= area.y + area.h
      BY <2>1, <2>3 DEF ZoomsY, Top, Bottom, Max2, Min2, area
    <3>3. l \in Int /\ r \in Int /\ yRange[1] <= l /\ r <= yRange[2]
      BY <3>1, <3>2, PixelInYRange
    <3>4. /\ valueWindow' = <<l, r>> /\ r - l >= MinHeight /\ zoomedY' = TRUE
          /\ UNCHANGED <<dateWindow, zoomedX>>
      BY <2>3 DEF DoZoomY, DoAnimatedZoom
    <3> HIDE DEF l, r
    <3>5. valueWindow' \in Ranges
      BY <3>3, <3>4, ChartAssumption DEF Ranges
    <3>6. Within(valueWindow', yRange)
      BY <3>3, <3>4 DEF Within
    <3> QED
      BY <3>4, <3>5, <3>6 DEF ViewInv
  <2>4. CASE ~(ZoomsX /\ DoZoomX) /\ ~(ZoomsY /\ DoZoomY)
    <3>1. UNCHANGED view
      BY <2>4 DEF EndZoom
    <3> QED
      BY <1>2, <3>1
  <2> QED
    BY <2>2, <2>3, <2>4
<1> QED
  BY <1>1, <1>2, <1>3

\* A pan shows a window of the size it began with.
LEMMA PanStep ==
  ASSUME IInv, NEW p \in Positions, MovePan(p), context.isPanning
  PROVE  /\ dateWindow' \in Ranges /\ valueWindow' \in Ranges \cup {Null}
         /\ zoomedX' \in BOOLEAN /\ zoomedY' \in BOOLEAN
         /\ dateWindow'[2] - dateWindow'[1] = context.dateRange
         /\ context.is2DPan => /\ valueWindow' \in Ranges
                               /\ valueWindow'[2] - valueWindow'[1] = context.dragValueRange
         /\ ~context.is2DPan => valueWindow' = valueWindow
<1> USE DEF IInv
<1>1. /\ context.start[1] \in Int /\ context.start[2] \in Int /\ p[1] \in Int /\ p[2] \in Int
      /\ context.dateRange \in Nat /\ context.dragValueRange \in Nat
      /\ context.initialLeftmostDate \in Int /\ context.initialTopValue \in Int
  BY ChartAssumption DEF GestureInv, Contexts
<1> DEFINE dx == p[1] - context.start[1]
           dy == p[2] - context.start[2]
           minDate == context.initialLeftmostDate - Quotient(dx * context.dateRange, 79)
           maxValue == context.initialTopValue + Quotient(dy * context.dragValueRange, 39)
<1>2. minDate \in Int /\ maxValue \in Int
  <2>1. dx * context.dateRange \in Int /\ dy * context.dragValueRange \in Int
    BY <1>1
  <2>2. Quotient(dx * context.dateRange, 79) \in Int /\ Quotient(dy * context.dragValueRange, 39) \in Int
    <3> HIDE DEF dx, dy
    <3> QED
      BY <2>1, QuotientType, 79 \in Int, 39 \in Int, 79 > 0, 39 > 0
  <2> HIDE DEF dx, dy
  <2> QED
    BY <1>1, <2>2
<1>3. /\ dateWindow' = <<minDate, minDate + context.dateRange>>
      /\ valueWindow' = IF context.is2DPan THEN <<maxValue - context.dragValueRange, maxValue>>
                        ELSE valueWindow
      /\ UNCHANGED <<zoomedX, zoomedY>>
  <2>1. area.w - 1 = 79 /\ area.h - 1 = 39
    BY DEF area
  <2> QED
    BY <2>1 DEF MovePan
<1> HIDE DEF minDate, maxValue
<1>4. dateWindow' \in Ranges /\ dateWindow'[2] - dateWindow'[1] = context.dateRange
  BY <1>1, <1>2, <1>3 DEF Ranges
<1>5. context.is2DPan => valueWindow' \in Ranges /\ valueWindow'[2] - valueWindow'[1] = context.dragValueRange
  BY <1>1, <1>2, <1>3 DEF Ranges
<1> QED
  BY <1>3, <1>4, <1>5 DEF ViewInv

\* Distances of fingers that are apart make a factor that can be divided by.
LEMMA ScaleType ==
  ASSUME NEW n \in Int, NEW d \in Int, d # 0
  PROVE  /\ Scale(n, d)[1] \in Int /\ Scale(n, d)[1] > 0
         /\ Scale(n, d)[2] \in Int
BY DEF Scale, Abs

\* Fingers move a window somewhere, and one finger keeps its size.
LEMMA MovedType ==
  ASSUME NEW e \in {1, 2}, NEW ps \in Seq(Positions), Len(ps) \in {1, 2},
         NEW size \in Nat \ {0}, touch \in Touches,
         Len(ps) = 2 => touch.initial[2][e] \in Int /\ touch.initial[1][e] \in Int
                        /\ touch.initial[1][e] # touch.initial[2][e]
  PROVE  /\ Moved(e, ps, size) \in Int \X Int
         /\ Len(ps) = 1 => Moved(e, ps, size)[2] - Moved(e, ps, size)[1]
                             = touch.range[e][2] - touch.range[e][1]
<1> DEFINE range == touch.range[e]
           width == IF e = 1 THEN range[2] - range[1] ELSE range[1] - range[2]
           swipe == Quotient((Centre(ps)[e] - touch.centre[e]) * width, 2 * size)
           scale == IF Len(ps) = 1 THEN <<1, 1>>
                    ELSE Scale(ps[2][e] - ps[1][e], touch.initial[2][e] - touch.initial[1][e])
           data2(r) == 2 * r - touch.centreData[e]
           end(r) == Quotient(touch.centreData[e] - 2 * swipe
                              + Quotient((2 * r - touch.centreData[e]) * scale[2], scale[1]), 2)
<1>1. /\ range[1] \in Int /\ range[2] \in Int /\ touch.centre[e] \in Int /\ touch.centreData[e] \in Int
  BY DEF Touches
<1>2. ps[1][e] \in Int /\ ps[Min2(2, Len(ps))][e] \in Int /\ (Len(ps) = 2 => ps[2][e] \in Int)
  <2>1. \A i \in 1..Len(ps) : ps[i] \in Int \X Int
    BY ElementOfSeq, ChartAssumption
  <2>2. 1 \in 1..Len(ps) /\ Min2(2, Len(ps)) \in 1..Len(ps) /\ (Len(ps) = 2 => 2 \in 1..Len(ps))
    <3>1. \A x \in {1, 2} : 1 \in 1..x /\ Min2(2, x) \in 1..x /\ (x = 2 => 2 \in 1..x)
      BY DEF Min2
    <3> QED
      BY <3>1, Zenon
  <2> QED
    BY <2>1, <2>2
<1>3. swipe \in Int
  <2>1. Centre(ps)[e] \in Int
    BY <1>2 DEF Centre, Twice
  <2>2. (Centre(ps)[e] - touch.centre[e]) * width \in Int
    <3>1. Centre(ps)[e] - touch.centre[e] \in Int /\ width \in Int
      BY <1>1, <2>1, SMTT(30)
    <3>2. \A x, y \in Int : x * y \in Int
      OBVIOUS
    <3> HIDE DEF width
    <3> QED
      BY <3>1, <3>2
  <2>3. 2 * size \in Int /\ 2 * size > 0
    OBVIOUS
  <2> HIDE DEF width
  <2> QED
    BY <2>2, <2>3, QuotientType
<1>4. scale[1] \in Int /\ scale[1] > 0 /\ scale[2] \in Int
  <2>1. CASE Len(ps) = 1
    BY <2>1
  <2>2. CASE Len(ps) = 2
    <3>1. ps[2][e] - ps[1][e] \in Int /\ touch.initial[2][e] - touch.initial[1][e] \in Int
          /\ touch.initial[2][e] - touch.initial[1][e] # 0
      BY <1>2, <2>2
    <3> QED
      BY <2>2, <3>1, ScaleType
  <2> QED
    BY <2>1, <2>2
<1>5. Moved(e, ps, size) = <<end(range[1]), end(range[2])>>
  BY DEF Moved
<1> HIDE DEF range, swipe, scale
<1>6. ASSUME NEW r \in Int PROVE end(r) \in Int /\ (Len(ps) = 1 => end(r) = r - swipe)
  <2> DEFINE z == (2 * r - touch.centreData[e]) * scale[2]
             q == Quotient(z, scale[1])
  <2>1. z \in Int
    BY <1>1, <1>4
  <2>2. q \in Int
    <3> HIDE DEF z
    <3> QED
      BY <1>4, <2>1, QuotientType
  <2>3. end(r) = Quotient(touch.centreData[e] - 2 * swipe + q, 2)
    OBVIOUS
  <2>4. Len(ps) = 1 => q = 2 * r - touch.centreData[e]
    <3> SUFFICES ASSUME Len(ps) = 1 PROVE q = 2 * r - touch.centreData[e]
      OBVIOUS
    <3>1. scale[1] = 1 /\ scale[2] = 1
      BY DEF scale
    <3>2. z = 2 * r - touch.centreData[e]
      BY <1>1, <3>1
    <3> HIDE DEF z
    <3>3. Quotient(z, 1) = z
      BY <2>1 DEF Quotient
    <3> QED
      BY <3>1, <3>2, <3>3
  <2> HIDE DEF q
  <2>5. touch.centreData[e] - 2 * swipe + q \in Int
    BY <1>1, <1>3, <2>2
  <2>6. end(r) \in Int
    BY <2>3, <2>5, QuotientType, 2 \in Int, 2 > 0
  <2>7. Len(ps) = 1 => end(r) = r - swipe
    <3> SUFFICES ASSUME Len(ps) = 1 PROVE Quotient(touch.centreData[e] - 2 * swipe + q, 2) = r - swipe
      BY <2>3
    <3>1. touch.centreData[e] - 2 * swipe + q = 2 * (r - swipe) /\ r - swipe \in Int
      BY <1>1, <1>3, <2>4
    <3>2. \A x \in Int : Quotient(2 * x, 2) = x
      BY DEF Quotient
    <3> QED
      BY <3>1, <3>2
  <2> QED
    BY <2>6, <2>7
<1> HIDE DEF end
<1>7. end(range[1]) \in Int /\ end(range[2]) \in Int
  BY <1>1, <1>6 DEF range
<1>8. Len(ps) = 1 => end(range[2]) - end(range[1]) = range[2] - range[1]
  <2> SUFFICES ASSUME Len(ps) = 1 PROVE end(range[2]) - end(range[1]) = range[2] - range[1]
    OBVIOUS
  <2>1. end(range[1]) = range[1] - swipe /\ end(range[2]) = range[2] - swipe
    BY <1>1, <1>6 DEF range
  <2>2. range[1] \in Int /\ range[2] \in Int
    BY <1>1 DEF range
  <2> QED
    BY <1>3, <2>1, <2>2
<1>9. Moved(e, ps, size) \in Int \X Int
  BY <1>5, <1>7
<1> QED
  BY <1>5, <1>8, <1>9 DEF range

\* What the moves of fingers make of the windows.
LEMMA TouchMoveStep ==
  ASSUME IInv, NEW i \in DOMAIN fingers, NEW p \in Positions, TouchMove(i, p)
  PROVE  /\ dateWindow' \in Ranges \cup {Null} /\ valueWindow' \in Ranges \cup {Null}
         /\ UNCHANGED <<zoomedX, zoomedY>>
         /\ fingers' \in Seq(Positions) /\ Len(fingers') = Len(fingers)
         /\ Len(fingers) = 1 /\ ~MoveTouchThrows(fingers') /\ touch.directions = {"x", "y"} =>
              /\ dateWindow' \in Ranges /\ valueWindow' \in Ranges
              /\ dateWindow'[2] - dateWindow'[1] = touch.range[1][2] - touch.range[1][1]
              /\ valueWindow'[2] - valueWindow'[1] = touch.range[2][2] - touch.range[2][1]
<1> USE DEF IInv
<1> DEFINE ps == fingers'
<1>1. Len(fingers) \in Nat /\ DOMAIN fingers = 1..Len(fingers) /\ Len(fingers) \in {1, 2}
  <2>1. Len(fingers) \in Nat /\ DOMAIN fingers = 1..Len(fingers) /\ Len(fingers) <= 2
    BY LenProperties DEF TouchInv
  <2>2. i \in 1..Len(fingers)
    BY <2>1
  <2> QED
    BY <2>1, <2>2
<1>2. ps \in Seq(Positions) /\ Len(ps) = Len(fingers)
  <2>1. fingers' = [fingers EXCEPT ![i] = p] /\ fingers \in Seq(Positions) /\ i \in 1..Len(fingers)
    BY <1>1 DEF TouchMove, TouchInv
  <2> QED
    BY <2>1, ExceptSeq
<1>3. CASE MoveTouchThrows(ps)
  BY <1>2, <1>3 DEF TouchMove, MoveTouch, ViewInv, view
<1>4. CASE ~MoveTouchThrows(ps)
  <2> HIDE DEF ps
  <2>1. /\ dateWindow' = IF "x" \in touch.directions THEN Moved(1, ps, 80) ELSE dateWindow
        /\ valueWindow' = IF "y" \in touch.directions THEN Moved(2, ps, 40) ELSE valueWindow
        /\ "x" \in touch.directions => dateWindow'[2] - dateWindow'[1] \in MinWidth..MaxWidth
        /\ "y" \in touch.directions => valueWindow'[2] - valueWindow'[1] >= MinHeight
        /\ UNCHANGED <<zoomedX, zoomedY>>
    BY <1>4 DEF TouchMove, MoveTouch, area, ps
  <2>2. Len(ps) \in {1, 2} /\ touch \in Touches /\ touch.initial \in Seq(Positions)
        /\ (Len(ps) = 2 => Len(touch.initial) = 2)
    <3>1. Len(ps) \in {1, 2} /\ touch \in Touches /\ touch.initial \in Seq(Positions) /\ Len(touch.initial) <= 2
      BY <1>1, <1>2 DEF TouchInv, Touches
    <3>2. Len(touch.initial) \in Nat /\ ~(Len(ps) > Len(touch.initial))
      BY <1>4, <3>1, LenProperties DEF MoveTouchThrows
    <3>3. \A a, b \in Nat : b <= 2 /\ ~(a > b) /\ a = 2 => b = 2
      OBVIOUS
    <3>4. Len(ps) \in Nat
      BY <3>1
    <3> QED
      BY <3>1, <3>2, <3>3, <3>4
  <2>3. Len(ps) = 2 => /\ touch.initial[1] \in Int \X Int /\ touch.initial[2] \in Int \X Int
    BY <2>2, ElementOfSeq, ChartAssumption
  <2>4. "x" \in touch.directions =>
          /\ Moved(1, ps, 80) \in Int \X Int
          /\ Len(ps) = 1 => Moved(1, ps, 80)[2] - Moved(1, ps, 80)[1] = touch.range[1][2] - touch.range[1][1]
    <3> SUFFICES ASSUME "x" \in touch.directions
                 PROVE  /\ Moved(1, ps, 80) \in Int \X Int
                        /\ Len(ps) = 1 => Moved(1, ps, 80)[2] - Moved(1, ps, 80)[1]
                                            = touch.range[1][2] - touch.range[1][1]
      OBVIOUS
    <3>1. Len(ps) = 2 => touch.initial[2][1] \in Int /\ touch.initial[1][1] \in Int
                         /\ touch.initial[1][1] # touch.initial[2][1]
      BY <2>2, <2>3 DEF TouchInv
    <3> QED
      BY <1>2, <2>2, <3>1, MovedType, 1 \in {1, 2}, 80 \in Nat \ {0}
  <2>5. "y" \in touch.directions =>
          /\ Moved(2, ps, 40) \in Int \X Int
          /\ Len(ps) = 1 => Moved(2, ps, 40)[2] - Moved(2, ps, 40)[1] = touch.range[2][2] - touch.range[2][1]
    <3> SUFFICES ASSUME "y" \in touch.directions
                 PROVE  /\ Moved(2, ps, 40) \in Int \X Int
                        /\ Len(ps) = 1 => Moved(2, ps, 40)[2] - Moved(2, ps, 40)[1]
                                            = touch.range[2][2] - touch.range[2][1]
      OBVIOUS
    <3>1. Len(ps) = 2 => touch.initial[2][2] \in Int /\ touch.initial[1][2] \in Int
                         /\ touch.initial[1][2] # touch.initial[2][2]
      BY <2>2, <2>3 DEF TouchInv
    <3> QED
      BY <1>2, <2>2, <3>1, MovedType, 2 \in {1, 2}, 40 \in Nat \ {0}
  <2>6. dateWindow' \in Ranges \cup {Null} /\ ("x" \in touch.directions => dateWindow' \in Ranges)
    BY <2>1, <2>4, ChartAssumption, TouchAssumption DEF Ranges, ViewInv
  <2>7. valueWindow' \in Ranges \cup {Null} /\ ("y" \in touch.directions => valueWindow' \in Ranges)
    BY <2>1, <2>5, ChartAssumption DEF Ranges, ViewInv
  <2> QED
    BY <1>2, <2>1, <2>4, <2>5, <2>6, <2>7 DEF ps
<1> QED
  BY <1>3, <1>4

\* Zooming out leaves no window, or the one that was there.
LEMMA ResetStep ==
  ASSUME ViewInv, ResetZoom
  PROVE  ViewInv'
BY DEF ResetZoom, ViewInv, view

-----------------------------------------------------------------------------
(* Every step keeps the invariant *)

\* The windows go upwards.
LEMMA ViewStep ==
  ASSUME IInv, [TouchNext]_tvars
  PROVE  ViewInv'
<1> USE DEF IInv
<1>1. CASE \E f \in Files : SelectFile(f)
  BY <1>1 DEF SelectFile, ViewInv
<1>2. CASE Requested
  BY <1>2 DEF Requested, Answer, AnswerEmpty, AnswerFails, LoadedEvent, ViewInv, view
<1>3. CASE Rolling
  BY <1>3 DEF Rolling, AdjustRoll, ViewInv, view
<1>4. CASE Mouse
  <2>1. CASE \E p \in Positions : MouseMove(p)
    <3>1. PICK p \in Positions : MouseMove(p)
      BY <2>1
    <3>2. CASE context.isPanning /\ MovePan(p)
      BY <3>2, PanStep DEF ViewInv
    <3>3. CASE ~(context.isPanning /\ MovePan(p))
      BY <3>1, <3>3 DEF MouseMove, MoveZoom, ViewInv, view
    <3> QED
      BY <3>2, <3>3
  <2>2. CASE \E shift \in BOOLEAN : MouseDown(shift)
    BY <2>2 DEF MouseDown, ViewInv, view
  <2>3. CASE MouseUp
    <3>1. CASE EndZoom
      BY <2>3, <3>1, ZoomStep DEF ViewInv
    <3>2. CASE ~EndZoom
      BY <2>3, <3>2 DEF MouseUp, EndZoomFails, Released, ViewInv, view
    <3> QED
      BY <3>1, <3>2
  <2>4. CASE DblClick
    BY <2>4, ResetStep DEF DblClick, ViewInv, view
  <2> QED
    BY <1>4, <2>1, <2>2, <2>3, <2>4 DEF Mouse
<1>5. CASE \E p \in Positions : TouchStart(p)
  BY <1>5 DEF TouchStart, ViewInv, view
<1>6. CASE TouchEnd
  BY <1>6, ResetStep DEF TouchEnd, LiftOne, DoubleTap, Tap, ViewInv, view
<1>7. CASE \E i \in DOMAIN fingers, p \in Positions : TouchMove(i, p)
  BY <1>7, TouchMoveStep DEF ViewInv
<1>8. CASE UNCHANGED tvars
  BY <1>8 DEF tvars, vars, ViewInv, view
<1> QED
  BY <1>1, <1>2, <1>3, <1>4, <1>5, <1>6, <1>7, <1>8 DEF TouchNext

\* A file becomes sorted rows, and its series is as long.
LEMMA LoadedRows ==
  ASSUME IInv, Loads
  PROVE  rawData' \in Seq(Row) /\ Sorted(rawData') /\ rawData' # Null
<1> USE DEF IInv
<1>1. PICK text \in {Content[file], << >>} : rawData' = ParseCSV("plain", text)
  BY DEF Loads
<1>2. text \in Seq(Line)
  <2>1. CASE text = << >>
    BY <2>1, EmptySeq
  <2>2. CASE text = Content[file]
    <3>1. file \in Files
      <4>1. made \in 1..made
        BY DEF Loads, DataInv
      <4> QED
        BY <4>1 DEF DataInv
    <3>2. Content[file] \in Seq(Seq(Value \cup {Junk}))
      <4>1. Value \cup {Junk} = Int \cup {Null, NaN, Junk}
        BY DEF Value
      <4> QED
        BY <3>1, <4>1, ChartAssumption
    <3>3. \A n \in DOMAIN Content[file] : Len(Content[file][n]) >= 2 => Content[file][n][1] \in Int
      BY <3>1, ChartAssumption
    <3> DEFINE c == Content[file]
               l == Len(c)
    <3>4. l \in Nat /\ DOMAIN c = 1..l /\ c = [n \in 1..l |-> c[n]] /\ \A n \in 1..l : c[n] \in Seq(Value \cup {Junk})
      BY <3>2, LenProperties, ElementOfSeq
    <3>5. \A n \in 1..l : c[n] \in Line
      BY <3>3, <3>4 DEF Line
    <3> HIDE DEF c, l
    <3>6. [n \in 1..l |-> c[n]] \in Seq(Line)
      BY <3>4, <3>5
    <3> QED
      BY <2>2, <3>4, <3>6 DEF c
  <2> QED
    BY <2>1, <2>2
<1>3. rawData' \in Seq(Row) /\ Sorted(rawData')
  BY <1>1, <1>2, ParseCSVType
<1>4. \A r \in Seq(Row) : r # Null
  <2> SUFFICES ASSUME NEW r \in Seq(Row) PROVE r \in Seq(Seq(Value))
    BY ChartAssumption DEF Value
  <2> DEFINE l == Len(r)
  <2>1. l \in Nat /\ r = [n \in 1..l |-> r[n]] /\ \A n \in 1..l : r[n] \in Row
    BY LenProperties, ElementOfSeq
  <2>2. \A n \in 1..l : r[n] \in Seq(Value)
    BY <2>1 DEF Row
  <2> HIDE DEF l
  <2>3. [n \in 1..l |-> r[n]] \in Seq(Seq(Value))
    BY <2>1, <2>2
  <2> QED
    BY <2>1, <2>3
<1> QED
  BY <1>3, <1>4

\* The data of the chart.
LEMMA DataStep ==
  ASSUME IInv, [TouchNext]_tvars
  PROVE  DataInv'
<1> USE DEF IInv
<1>1. CASE Fresh
  BY <1>1, ChartAssumption DEF Fresh, SelectFile, DataInv
<1>2. CASE Loads
  <2>1. rawData' \in Seq(Row) /\ Sorted(rawData')
    BY <1>2, LoadedRows
  <2>2. rollPeriod \in Rolls \cup {1, Fraction}
    BY DEF DataInv
  <2>3. rolled' = NaN \/ rolled' \in Seq(Sample)
    <3>1. rolled' = NaN \/ rolled' = Rolled(rawData', rollPeriod)
      BY <1>2 DEF Loads, Predraw
    <3>2. \A raw \in Seq(Row) : Rolled(raw, rollPeriod) \in Seq(Sample)
      BY <2>2, RolledType
    <3> QED
      BY <2>1, <3>1, <3>2
  <2>4. made' = made /\ file' = file /\ requests' \subseteq requests /\ rollPeriod' = rollPeriod
    BY <1>2 DEF Loads
  <2> QED
    BY <2>1, <2>3, <2>4 DEF DataInv
<1>3. CASE Rerolls
  <2>1. PICK period \in Rolls \cup {Fraction} : AdjustRoll(period)
    BY <1>3 DEF Rerolls
  <2>2. rawData \in Seq(Row) /\ Sorted(rawData) /\ rawData' = rawData /\ rollPeriod' = period
    BY <2>1 DEF AdjustRoll, DataInv
  <2>3. rolled' = NaN \/ rolled' = Rolled(rawData, period)
    BY <2>1 DEF AdjustRoll, Predraw
  <2>4. Rolled(rawData, period) \in Seq(Sample)
    BY <2>2, RolledType
  <2>5. UNCHANGED <<made, file, requests>>
    BY <2>1 DEF AdjustRoll
  <2> QED
    BY <2>2, <2>3, <2>4, <2>5 DEF DataInv
<1>4. CASE Redraws \/ Looks \/ BlindPan
  <2>1. UNCHANGED <<made, file, rawData, rollPeriod, rolled>> /\ requests' \subseteq requests
    BY <1>4 DEF Redraws, Looks, BlindPan, data
  <2> QED
    BY <2>1 DEF DataInv
<1>5. Len(touch.initial) # 0 => HasPlotter
  BY DEF TouchInv
<1> QED
  BY <1>1, <1>2, <1>3, <1>4, <1>5, StepKind

\* A point that is circled is one of those that were drawn.
LEMMA CirclesType ==
  ASSUME IInv, Circles
  PROVE  selPoint' \in Point \cup {Null}
<1>1. points.drawn \in Seq(Point) /\ selPoint \in Point \cup {Null}
  BY DEF IInv, PictureInv
<1>2. \A row : PointOf(row) \in Point \cup {Null}
  BY <1>1, DrawnPoint
<1> QED
  BY <1>1, <1>2 DEF Circles

\* The picture.
LEMMA PictureStep ==
  ASSUME IInv, [TouchNext]_tvars
  PROVE  PictureInv'
<1> USE DEF IInv
<1>1. DataInv' /\ ViewInv'
  BY DataStep, ViewStep
<1>2. CASE Fresh
  <2>1. NoPoints \in [drawn : Seq(Point), range : Int \X Int]
    BY EmptySeq DEF NoPoints
  <2> QED
    BY <1>2, <2>1 DEF Fresh, SelectFile, PictureInv, HasPlotter
<1>3. ASSUME NEW raw \in Seq(Row), Sorted(raw), NEW period \in Rolls \cup {1, Fraction}, raw # Null,
             Predraw(raw, period), rawData' = raw, UNCHANGED <<view, selPoint>>
      PROVE  PictureInv'
  <2>1. CASE RollThrows(raw, period)
    <3>1. yRange' = Null /\ UNCHANGED <<points, lastRow, legend, selPoint>>
      BY <1>3, <2>1 DEF Predraw
    <3> QED
      BY <1>3, <3>1 DEF PictureInv, HasPlotter
  <2>2. CASE ~RollThrows(raw, period)
    <3>1. DrawGraph(raw, Rolled(raw, period), dateWindow, valueWindow) /\ UNCHANGED selPoint
      BY <1>3, <2>2 DEF Predraw
    <3>2. Rolled(raw, period) \in Seq(Sample) \cup {NaN}
      BY <1>3, RolledType
    <3>3. dateWindow \in Ranges \cup {Null} /\ valueWindow \in Ranges \cup {Null}
      BY DEF ViewInv
    <3>4. /\ points' \in [drawn : Seq(Point), range : Int \X Int]
          /\ yRange' \in Ranges /\ lastRow' = -1 /\ legend' = Null
      BY <1>3, <3>1, <3>2, <3>3, DrawGraphType
    <3> QED
      BY <1>3, <3>1, <3>4 DEF PictureInv, HasPlotter
  <2> QED
    BY <2>1, <2>2
<1>4. CASE Loads
  <2>1. rawData' \in Seq(Row) /\ Sorted(rawData') /\ rawData' # Null
    BY <1>4, LoadedRows
  <2>2. rollPeriod \in Rolls \cup {1, Fraction}
    BY DEF DataInv
  <2>3. Predraw(rawData', rollPeriod) /\ UNCHANGED <<view, selPoint>>
    BY <1>4 DEF Loads
  <2> QED
    BY <1>3, <2>1, <2>2, <2>3
<1>5. CASE Rerolls
  <2>1. PICK period \in Rolls \cup {Fraction} : AdjustRoll(period)
    BY <1>5 DEF Rerolls
  <2>2. rawData \in Seq(Row) /\ Sorted(rawData) /\ rawData' = rawData /\ rawData # Null
    BY <2>1 DEF AdjustRoll, DataInv
  <2>3. Predraw(rawData, period) /\ UNCHANGED <<view, selPoint>>
    BY <2>1 DEF AdjustRoll
  <2> QED
    BY <1>3, <2>2, <2>3
<1>6. CASE Redraws
  <2>1. rawData \in Seq(Row) /\ Sorted(rawData) /\ rolled \in Seq(Sample) \cup {NaN} /\ rawData # Null
    BY <1>6 DEF Redraws, DataInv, HasPlotter
  <2>2. dateWindow' \in Ranges \cup {Null} /\ valueWindow' \in Ranges \cup {Null}
    BY <1>1 DEF ViewInv
  <2>3. DrawGraph(rawData, rolled, dateWindow', valueWindow') /\ rawData' = rawData
    BY <1>6 DEF Redraws, data
  <2>4. selPoint' \in Point \cup {Null}
    BY <1>6, CirclesType DEF Redraws
  <2> DEFINE dw == dateWindow'
             vw == valueWindow'
  <2>5. DrawGraph(rawData, rolled, dw, vw) /\ dw \in Ranges \cup {Null} /\ vw \in Ranges \cup {Null}
    BY <2>2, <2>3
  <2> HIDE DEF dw, vw
  <2>6. /\ points' \in [drawn : Seq(Point), range : Int \X Int]
        /\ yRange' \in Ranges /\ lastRow' = -1 /\ legend' = Null
    BY <2>1, <2>5, DrawGraphType
  <2> QED
    BY <2>1, <2>3, <2>4, <2>6 DEF PictureInv, HasPlotter
<1>7. CASE Looks
  <2>1. UNCHANGED <<rawData, rolled, yRange, points>>
    BY <1>7 DEF Looks, data, picture
  <2>2. points.drawn \in Seq(Point)
    BY DEF PictureInv
  <2>3. CASE UNCHANGED selection
    BY <2>1, <2>3 DEF selection, PictureInv, HasPlotter
  <2>4. CASE lastRow' = -1 /\ selPoint' = Null /\ legend' = Null
    BY <2>1, <2>4 DEF PictureInv, HasPlotter
  <2>5. CASE \E row : SetSelection(row) /\ \E p \in Positions : row = FindClosestRow(p[1])
    <3>1. PICK row : SetSelection(row) /\ \E p \in Positions : row = FindClosestRow(p[1])
      BY <2>5
    <3>2. row = -1 \/ \E k \in DOMAIN points.drawn : row = points.drawn[k].idx
      BY <2>2, <3>1, NearestRow
    <3>3. row \in Int
      <4>1. DOMAIN points.drawn = 1..Len(points.drawn) /\ \A k \in 1..Len(points.drawn) : points.drawn[k] \in Point
        BY <2>2, ElementOfSeq, LenProperties
      <4>2. \A k \in DOMAIN points.drawn : points.drawn[k].idx \in Int
        BY <4>1 DEF Point
      <4> QED
        BY <3>2, <4>2
    <3>4. PointOf(row) \in Point \cup {Null}
      BY <2>2, DrawnPoint
    <3>5. lastRow' = row /\ selPoint' = PointOf(row) /\ legend' \in {legend, PointOf(row)}
      BY <3>1 DEF SetSelection, UpdateSelection
    <3>6. ~HasPlotter => row = -1
      <4>1. ~HasPlotter => points.drawn = << >>
        BY DEF PictureInv, NoPoints
      <4> QED
        BY <3>2, <4>1
    <3> QED
      BY <2>1, <3>3, <3>4, <3>5, <3>6 DEF PictureInv, HasPlotter
  <2> QED
    BY <1>7, <2>3, <2>4, <2>5 DEF Looks
<1>8. CASE BlindPan
  <2>1. selPoint' \in Point \cup {Null}
    BY <1>8, CirclesType DEF BlindPan
  <2>2. UNCHANGED <<rawData, rolled, yRange, points, lastRow, legend>>
    BY <1>8 DEF BlindPan, data, picture
  <2> QED
    BY <2>1, <2>2 DEF PictureInv, HasPlotter
<1>9. Len(touch.initial) # 0 => HasPlotter
  BY DEF TouchInv
<1> QED
  BY <1>2, <1>4, <1>5, <1>6, <1>7, <1>8, <1>9, StepKind

\* What startPan notes.
LEMMA StartPanType ==
  ASSUME IInv, NEW ctx \in Contexts
  PROVE  /\ StartPan(ctx) \in Contexts
         /\ StartPan(ctx).isPanning /\ StartPan(ctx).isZooming = ctx.isZooming
         /\ StartPan(ctx).start = ctx.start
<1> USE DEF IInv
<1> DEFINE xRange == XAxisRange(rawData, dateWindow)
           panning == [ctx EXCEPT !.isPanning = TRUE]
           dated == [panning EXCEPT !.initialLeftmostDate = xRange[1],
                                    !.dateRange = xRange[2] - xRange[1]]
           inX == [dated EXCEPT !.is2DPan = FALSE]
           inY == [inX EXCEPT !.initialTopValue = yRange[2],
                              !.dragValueRange = yRange[2] - yRange[1],
                              !.is2DPan = valueWindow # Null]
<1>1. StartPan(ctx) = IF ~HasPlotter /\ dateWindow = Null THEN panning
                      ELSE IF ~HasPlotter THEN dated ELSE IF yRange = Null THEN inX ELSE inY
  BY DEF StartPan
<1>2. HasPlotter \/ dateWindow # Null => xRange[1] \in Int /\ xRange[2] - xRange[1] \in Nat
  <2>1. HasPlotter => xRange \in Ranges
    BY XAxisRangeType DEF DataInv, ViewInv, HasPlotter
  <2>2. dateWindow # Null => xRange \in Ranges
    BY DEF ViewInv, XAxisRange
  <2> HIDE DEF xRange
  <2> QED
    BY <2>1, <2>2 DEF Ranges
<1>3. yRange # Null => yRange[2] \in Int /\ yRange[2] - yRange[1] \in Nat
  BY DEF PictureInv, Ranges
<1> HIDE DEF xRange
<1>4. panning \in Contexts /\ panning.isPanning /\ panning.isZooming = ctx.isZooming /\ panning.start = ctx.start
  BY DEF Contexts
<1>5. HasPlotter \/ dateWindow # Null =>
        dated \in Contexts /\ dated.isPanning /\ dated.isZooming = ctx.isZooming /\ dated.start = ctx.start
  <2> HIDE DEF panning
  <2> QED
    BY <1>2, <1>4 DEF Contexts
<1>6. HasPlotter =>
        inX \in Contexts /\ inX.isPanning /\ inX.isZooming = ctx.isZooming /\ inX.start = ctx.start
  <2> HIDE DEF dated
  <2> QED
    BY <1>5 DEF Contexts
<1>7. HasPlotter /\ yRange # Null =>
        inY \in Contexts /\ inY.isPanning /\ inY.isZooming = ctx.isZooming /\ inY.start = ctx.start
  <2> HIDE DEF inX
  <2> QED
    BY <1>3, <1>6 DEF Contexts
<1> HIDE DEF panning, dated, inX, inY
<1> QED
  BY <1>1, <1>4, <1>5, <1>6, <1>7

\* The context behind a release.
LEMMA DestroyedType ==
  ASSUME NEW ctx \in Contexts
  PROVE  /\ Destroyed(ctx) \in Contexts
         /\ ~Destroyed(ctx).isZooming /\ ~Destroyed(ctx).isPanning
<1> DEFINE st == IF ctx.isZooming \/ ctx.isPanning THEN Null ELSE ctx.start
<1>1. st \in Positions \cup {Null}
  BY DEF Contexts
<1>2. Destroyed(ctx) =
        [ctx EXCEPT !.isZooming = FALSE, !.isPanning = FALSE, !.start = st,
                    !.is2DPan = FALSE, !.initialLeftmostDate = 0, !.dateRange = 0,
                    !.initialTopValue = 0, !.dragValueRange = 0]
  BY DEF Destroyed, Contexts
<1> HIDE DEF st
<1>3. Destroyed(ctx) \in Contexts
  <2>1. Destroyed(ctx) =
          [isZooming |-> FALSE, isPanning |-> FALSE, is2DPan |-> FALSE, start |-> st, moved |-> ctx.moved,
           dragDirection |-> ctx.dragDirection, cancelNextDblclick |-> ctx.cancelNextDblclick,
           initialLeftmostDate |-> 0, dateRange |-> 0, initialTopValue |-> 0, dragValueRange |-> 0]
    BY <1>2 DEF Contexts
  <2>2. /\ ctx.moved \in BOOLEAN /\ ctx.dragDirection \in {Null, "horizontal", "vertical"}
        /\ ctx.cancelNextDblclick \in BOOLEAN
    BY DEF Contexts
  <2> QED
    BY <1>1, <2>1, <2>2 DEF Contexts
<1>4. Destroyed(ctx).isZooming = FALSE /\ Destroyed(ctx).isPanning = FALSE
  BY <1>2 DEF Contexts
<1> QED
  BY <1>3, <1>4

\* The gesture.
LEMMA GestureStep ==
  ASSUME IInv, [TouchNext]_tvars
  PROVE  GestureInv'
<1> USE DEF IInv
<1>1. CASE \E f \in Files : SelectFile(f)
  <2>1. NoContext \in Contexts /\ ~NoContext.isZooming /\ ~NoContext.isPanning
    BY DEF NoContext, Contexts
  <2>2. /\ context' = NoContext /\ listeners' = 0 /\ mouse' = "idle" /\ at' = at
        /\ threw' = FALSE
    BY <1>1 DEF SelectFile
  <2>3. context' \in Contexts /\ ~context'.isZooming /\ ~context'.isPanning
    BY <2>1, <2>2
  <2>4. listeners' \in 0..2 /\ listeners' <= 1 /\ listeners' = 0
    BY <2>2
  <2>5. threw' \in BOOLEAN
    BY <2>2
  <2>6. at' \in Positions
    BY <2>2 DEF GestureInv
  <2>7. mouse' # "down" /\ mouse' \in {"idle", "down", "up"}
    BY <2>2
  <2> QED
    BY <2>3, <2>4, <2>5, <2>6, <2>7 DEF GestureInv
<1>2. ASSUME UNCHANGED gesture, threw' = threw \/ threw' = TRUE
      PROVE  GestureInv'
  BY <1>2 DEF gesture, GestureInv
<1>3. CASE Requested
  BY <1>2, <1>3 DEF Requested, Answer, AnswerEmpty, AnswerFails, LoadedEvent, Predraw
<1>4. CASE Rolling
  BY <1>2, <1>4 DEF Rolling, AdjustRoll, Predraw
<1>5. CASE \E p \in Positions : MouseMove(p)
  <2>1. PICK p \in Positions : MouseMove(p)
    BY <1>5
  <2>2. /\ context' \in Contexts /\ context'.isZooming = context.isZooming
        /\ context'.isPanning = context.isPanning /\ context'.start = context.start
        /\ listeners' = listeners
    <3>1. CASE MoveZoom(p)
      <4>1. \E m \in BOOLEAN, d \in {Null, "horizontal", "vertical"} :
              context' = [context EXCEPT !.moved = m, !.dragDirection = d]
        <5> DEFINE d == IF 2 * RegionWidth(p) < RegionHeight(p) THEN "vertical" ELSE "horizontal"
        <5>1. d \in {Null, "horizontal", "vertical"} /\ context.dragDirection \in {Null, "horizontal", "vertical"}
          BY DEF GestureInv, Contexts
        <5>2. \/ context' = [context EXCEPT !.moved = TRUE, !.dragDirection = d]
              \/ context' = [context EXCEPT !.moved = FALSE]
          BY <3>1 DEF MoveZoom
        <5>3. [context EXCEPT !.moved = FALSE]
                = [context EXCEPT !.moved = FALSE, !.dragDirection = context.dragDirection]
          BY DEF GestureInv, Contexts
        <5> HIDE DEF d
        <5> QED
          BY <5>1, <5>2, <5>3
      <4>2. listeners' = listeners
        BY <3>1 DEF MoveZoom
      <4> QED
        BY <4>1, <4>2 DEF GestureInv, Contexts
    <3>2. CASE MovePan(p)
      BY <3>2 DEF MovePan, GestureInv, Contexts
    <3>3. CASE UNCHANGED <<context, listeners>>
      BY <3>3 DEF GestureInv
    <3> QED
      BY <2>1, <3>1, <3>2, <3>3 DEF MouseMove
  <2>3. /\ mouse' = IF mouse = "up" THEN "idle" ELSE mouse
        /\ at' = p
    BY <2>1 DEF MouseMove
  <2>4. threw' = threw \/ (threw' \in BOOLEAN /\ (threw => threw'))
    BY <2>1 DEF MouseMove, MoveZoom, MovePan, GestureInv
  <2> QED
    BY <2>2, <2>3, <2>4 DEF GestureInv
<1>6. CASE \E shift \in BOOLEAN : MouseDown(shift)
  <2>1. PICK shift \in BOOLEAN : MouseDown(shift)
    BY <1>6
  <2> DEFINE pressed == [context EXCEPT !.start = at, !.cancelNextDblclick = FALSE]
             fails == shift /\ (~HasPlotter \/ yRange = Null)
  <2>2. pressed \in Contexts /\ pressed.start = at /\ pressed.isZooming = context.isZooming
    BY DEF GestureInv, Contexts
  <2>3. /\ mouse # "down" /\ mouse' = "down" /\ at' = at
        /\ context' = IF shift THEN StartPan(pressed) ELSE [pressed EXCEPT !.isZooming = TRUE]
        /\ listeners' = IF fails THEN listeners ELSE listeners + 1
        /\ threw' = (threw \/ fails)
    BY <2>1 DEF MouseDown
  <2>4. at # Null /\ ~context.isZooming
    BY <2>3, ChartAssumption DEF GestureInv
  <2> HIDE DEF pressed
  <2>5. StartPan(pressed) \in Contexts /\ StartPan(pressed).isZooming = pressed.isZooming
        /\ StartPan(pressed).start = pressed.start
    BY <2>2, StartPanType
  <2>6. context' \in Contexts /\ context'.start = at /\ (context'.isZooming => ~shift)
    <3>1. CASE shift
      BY <2>2, <2>3, <2>4, <2>5, <3>1
    <3>2. CASE ~shift
      BY <2>2, <2>3, <3>2 DEF Contexts
    <3> QED
      BY <3>1, <3>2
  <2>7. listeners \in {0, 1} /\ (~threw => listeners = 0)
    BY <2>3 DEF GestureInv
  <2>8. fails \in BOOLEAN /\ (~shift => ~fails)
    BY DEF PictureInv
  <2> HIDE DEF fails
  <2>9. listeners' \in 0..2 /\ (~fails => listeners' > 0) /\ (~threw /\ ~fails => listeners' = 1)
    BY <2>3, <2>7, <2>8
  <2> QED
    BY <2>3, <2>4, <2>6, <2>8, <2>9 DEF GestureInv
<1>7. CASE MouseUp
  <2>1. mouse' # "down" /\ mouse' \in {"idle", "down", "up"} /\ at' = at
    BY <1>7 DEF MouseUp, GestureInv
  <2>2. CASE listeners = 0 /\ UNCHANGED <<context, listeners, threw>>
    <3>1. ~context.isZooming /\ (~threw => ~context.isPanning)
      BY <1>7, <2>2 DEF GestureInv, MouseUp
    <3> QED
      BY <2>1, <2>2, <3>1 DEF GestureInv
  <2>3. CASE EndZoomFails
    <3> DEFINE ctx == [context EXCEPT !.isZooming = FALSE]
    <3>1. ctx \in Contexts /\ ~ctx.isZooming /\ (ctx.isPanning => ctx.start # Null)
      BY DEF GestureInv, Contexts
    <3> HIDE DEF ctx
    <3>2. threw' = TRUE /\ listeners' = 1 /\ context' \in {ctx, Destroyed(ctx)}
      BY <2>3 DEF EndZoomFails, ctx
    <3>3. context' \in Contexts /\ ~context'.isZooming /\ (context'.isPanning => context'.start # Null)
      BY <3>1, <3>2, DestroyedType
    <3> QED
      BY <2>1, <3>2, <3>3 DEF GestureInv
  <2>4. CASE EndZoom \/ Released
    <3>1. \E ctx \in Contexts : context' = Destroyed(ctx)
      <4>1. CASE EndZoom
        <5> DEFINE c == context.cancelNextDblclick \/ DragsX \/ DragsY
        <5>1. c \in BOOLEAN
          BY DEF GestureInv, Contexts, DragsX, DragsY
        <5> HIDE DEF c
        <5>2. [context EXCEPT !.isZooming = FALSE, !.start = Null, !.cancelNextDblclick = c] \in Contexts
          BY <5>1 DEF GestureInv, Contexts
        <5>3. context' = Destroyed([context EXCEPT !.isZooming = FALSE, !.start = Null, !.cancelNextDblclick = c])
          BY <4>1 DEF EndZoom, c
        <5> QED
          BY <5>2, <5>3
      <4>2. CASE Released
        <5>1. TreatedAsClick(context) \in Contexts
          BY DEF TreatedAsClick, GestureInv, Contexts
        <5> QED
          BY <4>2, <5>1 DEF Released
      <4> QED
        BY <2>4, <4>1, <4>2
    <3>2. context' \in Contexts /\ ~context'.isZooming /\ ~context'.isPanning
      BY <3>1, DestroyedType
    <3>3. listeners' = 0 /\ threw' = threw
      BY <2>4 DEF EndZoom, Released
    <3> QED
      BY <2>1, <3>2, <3>3 DEF GestureInv
  <2> QED
    BY <1>7, <2>2, <2>3, <2>4 DEF MouseUp
<1>8. CASE DblClick
  <2>1. /\ mouse = "up" /\ mouse' = "idle" /\ UNCHANGED <<listeners, at>>
        /\ context' = [context EXCEPT !.cancelNextDblclick = FALSE] \/ context' = context
        /\ threw' \in BOOLEAN /\ (threw => threw')
    BY <1>8 DEF DblClick, ResetZoom, GestureInv
  <2>2. /\ context' \in Contexts /\ context'.isZooming = context.isZooming
        /\ context'.isPanning = context.isPanning /\ context'.start = context.start
    BY <2>1 DEF GestureInv, Contexts
  <2> QED
    BY <2>1, <2>2 DEF GestureInv
<1>9. CASE (\E p \in Positions : TouchStart(p)) \/ TouchEnd
  <2>1. UNCHANGED gesture /\ threw' \in BOOLEAN /\ (threw => threw')
    BY <1>9 DEF TouchStart, TouchEnd, LiftOne, DoubleTap, Tap, StartTouch, ResetZoom, GestureInv
  <2> QED
    BY <2>1 DEF gesture, GestureInv
<1>10. CASE \E i \in DOMAIN fingers, p \in Positions : TouchMove(i, p)
  BY <1>2, <1>10 DEF TouchMove, MoveTouch
<1>11. CASE UNCHANGED tvars
  BY <1>2, <1>11 DEF tvars, vars
<1> QED
  BY <1>1, <1>3, <1>4, <1>5, <1>6, <1>7, <1>8, <1>9, <1>10, <1>11 DEF TouchNext, Mouse

\* Places on the page have places in the data.
LEMMA ToDataType ==
  ASSUME IInv, HasPlotter, yRange # Null, NEW p \in Positions
  PROVE  ToData(p) \in Int \X Int
<1> USE DEF IInv
<1> DEFINE shown == XAxisRange(rawData, dateWindow)
<1>1. shown \in Ranges /\ yRange \in Ranges
  BY XAxisRangeType DEF DataInv, ViewInv, PictureInv, HasPlotter
<1>2. p[1] \in Int /\ p[2] \in Int
  BY ChartAssumption
<1> HIDE DEF shown
<1> DEFINE a == ((p[1] + page[1]) - area.x) * (shown[2] - shown[1])
           b == (area.y + area.h - (p[2] + page[2])) * (yRange[2] - yRange[1])
<1>3. a \in Int /\ b \in Int
  BY <1>1, <1>2 DEF Ranges, area, page
<1>4. ToData(p) = <<shown[1] + Quotient(a, 80), yRange[1] + Quotient(b, 40)>>
  <2>1. area.w = 80 /\ area.h = 40
    BY DEF area
  <2>2. ToDataX(p[1] + page[1], shown) = shown[1] + Quotient(a, 80)
    <3>1. ToDataX(p[1] + page[1], shown) = shown[1] + Quotient(a, area.w)
      BY DEF ToDataX
    <3> QED
      BY <2>1, <3>1, Zenon
  <2>3. ToDataY(p[2] + page[2], yRange) = yRange[1] + Quotient(b, 40)
    <3>1. ToDataY(p[2] + page[2], yRange) = yRange[1] + Quotient(b, area.h)
      BY DEF ToDataY
    <3> QED
      BY <2>1, <3>1, Zenon
  <2> QED
    BY <2>2, <2>3, Zenon DEF ToData, shown
<1> HIDE DEF a, b
<1>5. Quotient(a, 80) \in Int /\ Quotient(b, 40) \in Int
  BY <1>3, QuotientType, 80 \in Int, 40 \in Int, 80 > 0, 40 > 0
<1> QED
  BY <1>1, <1>4, <1>5 DEF Ranges

\* The centre of one or two places.
LEMMA CentreType ==
  ASSUME NEW n \in {1, 2}, NEW qs \in [1..n -> Int \X Int]
  PROVE  Centre(qs) \in Int \X Int
<1>1. Len(qs) = n
  OBVIOUS
<1>2. 1 \in 1..n /\ Min2(2, n) \in 1..n
  BY DEF Min2
<1>3. qs[1] \in Int \X Int /\ qs[Min2(2, n)] \in Int \X Int
  BY <1>2
<1> QED
  BY <1>1, <1>3 DEF Centre, Twice

\* What startTouch notes.
LEMMA StartTouchType ==
  ASSUME IInv, NEW ps \in Seq(Positions), Len(ps) \in {1, 2}, StartTouch(ps)
  PROVE  /\ touch' \in Touches /\ Len(touch'.initial) <= 2
         /\ Len(touch'.initial) = 2 =>
              /\ "x" \in touch'.directions => touch'.initial[1][1] # touch'.initial[2][1]
              /\ "y" \in touch'.directions => touch'.initial[1][2] # touch'.initial[2][2]
         /\ Len(touch'.initial) # 0 => HasPlotter
<1> USE DEF IInv
<1> DEFINE tapped == IF Len(ps) > 1 THEN Null ELSE touch.tapped
<1>1. tapped \in Positions \cup {Null}
  BY DEF TouchInv, Touches
<1>2. touch' = IF StartTouchThrows THEN [touch EXCEPT !.tapped = tapped]
               ELSE [initial |-> ps, centre |-> Centre(ps),
                     centreData |-> Centre([i \in DOMAIN ps |-> ToData(ps[i])]),
                     directions |-> Directions(ps),
                     range |-> <<XAxisRange(rawData, dateWindow), yRange>>,
                     tapped |-> tapped]
  BY DEF StartTouch
<1> HIDE DEF tapped
<1>3. CASE StartTouchThrows
  <2>1. touch' \in Touches /\ touch'.initial = touch.initial /\ touch'.directions = touch.directions
    BY <1>1, <1>2, <1>3 DEF TouchInv, Touches
  <2> QED
    BY <2>1 DEF TouchInv
<1>4. CASE ~StartTouchThrows
  <2> DEFINE n == Len(ps)
             c == Centre(ps)
             cd == Centre([i \in DOMAIN ps |-> ToData(ps[i])])
             r == <<XAxisRange(rawData, dateWindow), yRange>>
  <2>1. HasPlotter /\ yRange # Null
    BY <1>4 DEF StartTouchThrows
  <2>2. n \in {1, 2} /\ DOMAIN ps = 1..n /\ ps \in [1..n -> Int \X Int] /\ \A i \in 1..n : ps[i] \in Positions
    <3>1. DOMAIN ps = 1..n /\ \A i \in 1..n : ps[i] \in Positions
      BY LenProperties, ElementOfSeq
    <3>2. ps = [i \in 1..n |-> ps[i]] /\ \A i \in 1..n : ps[i] \in Int \X Int
      BY <3>1, LenProperties, ChartAssumption
    <3> HIDE DEF n
    <3>3. ps \in [1..n -> Int \X Int]
      BY <3>2
    <3> QED
      BY <3>1, <3>3 DEF n
  <2> HIDE DEF n
  <2>3. c \in Int \X Int
    BY <2>2, CentreType
  <2>4. cd \in Int \X Int
    <3> DEFINE qs == [i \in 1..n |-> ToData(ps[i])]
    <3>1. qs \in [1..n -> Int \X Int]
      <4>1. \A i \in 1..n : ToData(ps[i]) \in Int \X Int
        BY <2>1, <2>2, ToDataType
      <4> QED
        BY <4>1
    <3> HIDE DEF qs
    <3>2. Centre(qs) \in Int \X Int
      BY <2>2, <3>1, CentreType
    <3> QED
      BY <2>2, <3>2 DEF qs
  <2>5. r \in (Int \X Int) \X (Int \X Int)
    <3>1. XAxisRange(rawData, dateWindow) \in Ranges /\ yRange \in Ranges
      BY <2>1, XAxisRangeType DEF DataInv, ViewInv, PictureInv, HasPlotter
    <3> QED
      BY <3>1 DEF Ranges
  <2>6. Directions(ps) \in SUBSET {"x", "y"}
    BY DEF Directions
  <2>7. touch' = [initial |-> ps, centre |-> c, centreData |-> cd,
                  directions |-> Directions(ps), range |-> r, tapped |-> tapped]
    BY <1>2, <1>4
  <2> HIDE DEF c, cd, r
  <2>8. touch' \in Touches /\ touch'.initial = ps /\ touch'.directions = Directions(ps)
    BY <1>1, <2>3, <2>4, <2>5, <2>6, <2>7 DEF Touches
  <2>9. n = 2 => /\ "x" \in Directions(ps) => ps[1][1] # ps[2][1]
                 /\ "y" \in Directions(ps) => ps[1][2] # ps[2][2]
    <3> SUFFICES ASSUME n = 2
                 PROVE  /\ "x" \in Directions(ps) => ps[1][1] # ps[2][1]
                        /\ "y" \in Directions(ps) => ps[1][2] # ps[2][2]
      OBVIOUS
    <3>1. /\ ps[1][1] \in Int /\ ps[2][1] \in Int
          /\ ps[1][2] \in Int /\ ps[2][2] \in Int
      BY <2>2
    <3> DEFINE right == ps[1][1] - ps[2][1]
               high  == Abs(ps[1][2] - ps[2][2])
    <3>2. Directions(ps) = IF right < 0 THEN {"x"}
                           ELSE {d \in {"x", "y"} : IF d = "x" THEN 5 * high < 12 * right
                                                               ELSE 12 * high > 5 * right}
      BY DEF Directions, n
    <3>3. right \in Int /\ high \in Int /\ high >= 0
          /\ (ps[1][1] = ps[2][1] => right = 0) /\ (ps[1][2] = ps[2][2] => high = 0)
      BY <3>1, SMTT(30) DEF Abs
    <3> HIDE DEF right, high
    <3>4. "x" \in Directions(ps) => right # 0
      BY <3>2, <3>3
    <3>5. "y" \in Directions(ps) => high # 0
      BY <3>2, <3>3
    <3> QED
      BY <3>3, <3>4, <3>5
  <2> QED
    BY <2>1, <2>2, <2>8, <2>9 DEF n
<1> QED
  BY <1>3, <1>4

\* One of two fingers is left.
LEMMA RemoveOne ==
  ASSUME NEW S, NEW s \in Seq(S), Len(s) = 2, NEW i \in DOMAIN s
  PROVE  RemoveAt(s, i) \in Seq(S) /\ Len(RemoveAt(s, i)) = 1
<1>1. DOMAIN s = 1..2 /\ \A j \in 1..2 : s[j] \in S
  BY LenProperties, ElementOfSeq
<1>2. i \in {1, 2}
  BY <1>1
<1> DEFINE a == SubSeq(s, 1, i - 1)
           b == SubSeq(s, i + 1, 2)
<1>3. a \in Seq(S) /\ Len(a) = i - 1
  <2>1. i - 1 \in Int /\ 1 \in Int /\ \A j \in 1..(i - 1) : s[j] \in S
    BY <1>1, <1>2
  <2>2. a \in Seq(S) /\ Len(a) = IF 1 <= i - 1 THEN (i - 1) - 1 + 1 ELSE 0
    BY <2>1, SubSeqProperties
  <2> QED
    BY <1>2, <2>2
<1>4. b \in Seq(S) /\ Len(b) = 2 - i
  <2>1. i + 1 \in Int /\ 2 \in Int /\ \A j \in (i + 1)..2 : s[j] \in S
    BY <1>1, <1>2
  <2>2. b \in Seq(S) /\ Len(b) = IF i + 1 <= 2 THEN 2 - (i + 1) + 1 ELSE 0
    BY <2>1, SubSeqProperties
  <2> QED
    BY <1>2, <2>2
<1>5. RemoveAt(s, i) = a \o b
  BY DEF RemoveAt
<1> HIDE DEF a, b
<1>6. a \o b \in Seq(S) /\ Len(a \o b) = Len(a) + Len(b)
  BY <1>3, <1>4, ConcatProperties
<1> QED
  BY <1>2, <1>3, <1>4, <1>5, <1>6

\* The fingers and what was noted of them.
LEMMA TouchStep ==
  ASSUME IInv, [TouchNext]_tvars
  PROVE  TouchInv'
<1> USE DEF IInv
<1>1. CASE \E f \in Files : SelectFile(f) /\ fingers = << >> /\ touch' = NoTouch /\ UNCHANGED <<device, fingers>>
  <2>1. NoTouch \in Touches /\ Len(NoTouch.initial) = 0
    <3>1. << >> \in Seq(Positions) /\ Len(<< >>) = 0
      BY EmptySeq
    <3> QED
      BY <3>1 DEF NoTouch, Touches
  <2>2. touch' \in Touches /\ Len(touch'.initial) = 0
    BY <1>1, <2>1
  <2>3. mouse' = "idle"
    BY <1>1 DEF SelectFile
  <2> HIDE DEF NoTouch
  <2> QED
    BY <1>1, <2>2, <2>3 DEF TouchInv
<1>2. ASSUME UNCHANGED <<device, fingers, touch>>, HasPlotter => HasPlotter',
             device = "touch" => mouse' = mouse
      PROVE  TouchInv'
  BY <1>2 DEF TouchInv
<1>3. CASE Requested /\ UNCHANGED <<device, fingers, touch, moves>>
  <2>1. rawData' = rawData \/ rawData' # Null
    <3>1. Loads => rawData' # Null
      BY LoadedRows
    <3>2. Looks => rawData' = rawData
      BY DEF Looks, data
    <3> QED
      BY <1>3, <3>1, <3>2, RequestedKind
  <2>2. mouse' = mouse
    BY <1>3 DEF Requested, Answer, AnswerEmpty, AnswerFails, LoadedEvent, gesture
  <2> QED
    BY <1>2, <1>3, <2>1, <2>2 DEF HasPlotter
<1>4. CASE Rolling /\ UNCHANGED <<device, fingers, touch, moves>>
  BY <1>2, <1>4 DEF Rolling, AdjustRoll, HasPlotter, gesture
<1>5. CASE device = "mouse" /\ Mouse /\ UNCHANGED <<device, fingers, touch, moves>>
  <2>1. rawData' = rawData
    BY <1>5 DEF Mouse, MouseMove, MoveZoom, MovePan, MouseDown, MouseUp, EndZoom, EndZoomFails, Released, DblClick, data
  <2> QED
    BY <1>2, <1>5, <2>1 DEF HasPlotter
<1>6. CASE device = "touch" /\ UNCHANGED device /\ \E p \in Positions : TouchStart(p)
  <2>1. PICK p \in Positions : TouchStart(p)
    BY <1>6
  <2>2. fingers' \in Seq(Positions) /\ Len(fingers') \in {1, 2}
    <3>1. fingers' = Append(fingers, p) /\ fingers \in Seq(Positions) /\ Len(fingers) < 2
      BY <2>1 DEF TouchStart, TouchInv
    <3>2. Len(fingers) \in Nat
      BY <3>1, LenProperties
    <3>3. Len(fingers') = Len(fingers) + 1 /\ fingers' \in Seq(Positions)
      BY <3>1, AppendProperties
    <3> QED
      BY <3>1, <3>2, <3>3
  <2>3. /\ touch' \in Touches /\ Len(touch'.initial) <= 2
        /\ Len(touch'.initial) = 2 =>
             /\ "x" \in touch'.directions => touch'.initial[1][1] # touch'.initial[2][1]
             /\ "y" \in touch'.directions => touch'.initial[1][2] # touch'.initial[2][2]
        /\ Len(touch'.initial) # 0 => HasPlotter
    BY <2>1, <2>2, StartTouchType DEF TouchStart
  <2>4. mouse' = mouse /\ rawData' = rawData
    BY <2>1 DEF TouchStart, gesture, data
  <2>5. Len(fingers') <= 2 /\ mouse' = "idle" /\ device' = "touch"
    <3>1. \A x \in {1, 2} : x <= 2
      OBVIOUS
    <3> QED
      BY <1>6, <2>2, <2>4, <3>1 DEF TouchInv
  <2> QED
    BY <2>2, <2>3, <2>4, <2>5 DEF TouchInv, HasPlotter
<1>7. CASE device = "touch" /\ UNCHANGED device /\ TouchEnd
  <2>1. mouse' = mouse /\ rawData' = rawData
    BY <1>7 DEF TouchEnd, gesture, data
  <2>2. CASE \E i \in DOMAIN fingers : LiftOne(i)
    <3>1. PICK i \in DOMAIN fingers : LiftOne(i)
      BY <2>2
    <3>2. fingers' \in Seq(Positions) /\ Len(fingers') = 1
      BY <3>1, RemoveOne DEF LiftOne, TouchInv
    <3>3. /\ touch' \in Touches /\ Len(touch'.initial) <= 2
          /\ Len(touch'.initial) = 2 =>
               /\ "x" \in touch'.directions => touch'.initial[1][1] # touch'.initial[2][1]
               /\ "y" \in touch'.directions => touch'.initial[1][2] # touch'.initial[2][2]
          /\ Len(touch'.initial) # 0 => HasPlotter
      BY <3>1, <3>2, StartTouchType DEF LiftOne
    <3> QED
      BY <1>7, <2>1, <3>2, <3>3 DEF TouchInv, HasPlotter
  <2>3. CASE DoubleTap
    <3>1. fingers' = << >> /\ touch' = touch /\ << >> \in Seq(Positions) /\ Len(<< >>) = 0
      BY <2>3, EmptySeq DEF DoubleTap
    <3> QED
      BY <1>7, <2>1, <3>1 DEF TouchInv, HasPlotter
  <2>4. CASE Tap
    <3>1. fingers' = << >> /\ << >> \in Seq(Positions) /\ Len(<< >>) = 0
          /\ touch' = [touch EXCEPT !.tapped = fingers[1]]
      BY <2>4, EmptySeq DEF Tap
    <3>2. fingers[1] \in Positions
      BY <2>4, ElementOfSeq DEF Tap, TouchInv
    <3>3. touch' \in Touches /\ touch'.initial = touch.initial /\ touch'.directions = touch.directions
      BY <3>1, <3>2 DEF TouchInv, Touches
    <3> QED
      BY <1>7, <2>1, <3>1, <3>3 DEF TouchInv, HasPlotter
  <2> QED
    BY <1>7, <2>2, <2>3, <2>4 DEF TouchEnd
<1>8. CASE device = "touch" /\ UNCHANGED device /\ \E i \in DOMAIN fingers, p \in Positions : TouchMove(i, p)
  <2>1. PICK i \in DOMAIN fingers, p \in Positions : TouchMove(i, p)
    BY <1>8
  <2>2. fingers' \in Seq(Positions) /\ Len(fingers') = Len(fingers)
    BY <2>1, TouchMoveStep
  <2>3. touch' = [touch EXCEPT !.tapped = Null] /\ mouse' = mouse /\ rawData' = rawData
    BY <2>1 DEF TouchMove, gesture, data
  <2>4. touch' \in Touches /\ touch'.initial = touch.initial /\ touch'.directions = touch.directions
    BY <2>3 DEF TouchInv, Touches
  <2> QED
    BY <1>8, <2>2, <2>3, <2>4 DEF TouchInv, HasPlotter
<1>9. CASE UNCHANGED tvars
  BY <1>2, <1>9 DEF tvars, vars, HasPlotter, data, gesture
<1> QED
  BY <1>1, <1>3, <1>4, <1>5, <1>6, <1>7, <1>8, <1>9 DEF TouchNext

-----------------------------------------------------------------------------
(* The invariant, and what it says *)

\* A page on which no file is selected yet.
LEMMA InitStep == TouchInit => IInv
<1> SUFFICES ASSUME TouchInit PROVE IInv
  OBVIOUS
<1>1. DataInv
  BY ChartAssumption DEF TouchInit, Init, DataInv
<1>2. ViewInv
  BY DEF TouchInit, Init, ViewInv
<1>3. PictureInv
  <2>1. NoPoints \in [drawn : Seq(Point), range : Int \X Int]
    BY EmptySeq DEF NoPoints
  <2> QED
    BY <2>1 DEF TouchInit, Init, PictureInv, HasPlotter
<1>4. GestureInv
  <2>1. NoContext \in Contexts /\ ~NoContext.isZooming /\ ~NoContext.isPanning
    BY DEF NoContext, Contexts
  <2>2. context = NoContext /\ listeners = 0 /\ mouse = "idle" /\ at \in Positions /\ threw = FALSE
    BY DEF TouchInit, Init
  <2> HIDE DEF NoContext
  <2>3. /\ context \in Contexts /\ ~context.isZooming /\ ~context.isPanning
        /\ threw \in BOOLEAN
    BY <2>1, <2>2, Zenon
  <2>4. listeners \in 0..2 /\ listeners <= 1
    BY <2>2
  <2> QED
    BY <2>2, <2>3, <2>4 DEF GestureInv
<1>5. TouchInv
  <2>1. << >> \in Seq(Positions) /\ Len(<< >>) = 0
    BY EmptySeq
  <2>2. NoTouch \in Touches /\ Len(NoTouch.initial) = 0
    BY <2>1 DEF NoTouch, Touches
  <2> HIDE DEF NoTouch
  <2> QED
    BY <2>1, <2>2 DEF TouchInit, Init, TouchInv
<1> QED
  BY <1>1, <1>2, <1>3, <1>4, <1>5 DEF IInv

\* No sequence of selections, answers, drags and touches leads out of IInv.
THEOREM ChartInvariant == TouchSpec => []IInv
<1>1. TouchInit => IInv
  BY InitStep
<1>2. IInv /\ [TouchNext]_tvars => IInv'
  BY DataStep, ViewStep, PictureStep, GestureStep, TouchStep DEF IInv
<1> QED
  BY <1>1, <1>2, PTL DEF TouchSpec

\* The state of the chart has its types.
THEOREM ChartTypes == TouchSpec => []TypeOK
<1>1. IInv => TypeOK
  <2> SUFFICES ASSUME IInv PROVE TypeOK
    OBVIOUS
  <2>1. requests \subseteq 1..MaxCharts
    BY ChartAssumption DEF IInv, DataInv
  <2>2. \A w \in Ranges : w \in Int \X Int
    BY DEF Ranges
  <2>3. /\ context.isZooming \in BOOLEAN /\ context.isPanning \in BOOLEAN
        /\ context.start \in Positions \cup {Null} /\ context.moved \in BOOLEAN
        /\ context.dragDirection \in {Null, "horizontal", "vertical"}
        /\ context.cancelNextDblclick \in BOOLEAN
    BY DEF IInv, GestureInv, Contexts
  <2> QED
    BY <2>1, <2>2, <2>3 DEF IInv, DataInv, ViewInv, PictureInv, GestureInv, TypeOK
<1> QED
  BY <1>1, ChartInvariant, PTL

\* Unless a handler failed, the release of the button ends every drag.
THEOREM DragEnds == TouchSpec => []NoOrphanDrag
<1>1. IInv => NoOrphanDrag
  BY DEF IInv, GestureInv, NoOrphanDrag
<1> QED
  BY <1>1, ChartInvariant, PTL

-----------------------------------------------------------------------------
(* The picture is that of the state *)

\* The series that was averaged last, unless the averaging failed.
SeriesIsCurrent == HasPlotter /\ rolled # NaN => rolled = Rolled(rawData, rollPeriod)

\* Every step leaves behind the picture of the state it leaves behind.
LEMMA DrawnStep ==
  ASSUME IInv, SeriesIsCurrent, DrawnIsCurrent, [TouchNext]_tvars
  PROVE  SeriesIsCurrent' /\ DrawnIsCurrent'
<1> USE DEF SeriesIsCurrent, DrawnIsCurrent
<1>1. CASE Fresh
  BY <1>1 DEF Fresh, SelectFile, HasPlotter
<1>2. CASE Loads
  BY <1>2 DEF Loads, Predraw, DrawGraph, Gathered, ComputedValueRange, HasPlotter, view
<1>3. CASE Rerolls
  BY <1>3 DEF Rerolls, AdjustRoll, Predraw, DrawGraph, Gathered, ComputedValueRange, HasPlotter, view
<1>4. CASE Redraws
  BY <1>4 DEF Redraws, DrawGraph, Gathered, ComputedValueRange, HasPlotter, data
<1>5. CASE Looks
  BY <1>5 DEF Looks, HasPlotter, data, picture
<1>6. CASE BlindPan
  BY <1>6 DEF BlindPan, HasPlotter, data, picture
<1> QED
  BY <1>1, <1>2, <1>3, <1>4, <1>5, <1>6, StepKind DEF IInv, TouchInv

\* Whatever the user does and whenever the file arrives, the points and the
\* range of the axis are those of the current window, zoom and averaging period.
THEOREM PictureCurrent == TouchSpec => [](SeriesIsCurrent /\ DrawnIsCurrent)
<1>1. TouchInit => SeriesIsCurrent /\ DrawnIsCurrent
  BY DEF TouchInit, Init, SeriesIsCurrent, DrawnIsCurrent, HasPlotter
<1>2. IInv /\ SeriesIsCurrent /\ DrawnIsCurrent /\ [TouchNext]_tvars => SeriesIsCurrent' /\ DrawnIsCurrent'
  BY DrawnStep
<1> QED
  BY <1>1, <1>2, ChartInvariant, PTL DEF TouchSpec

-----------------------------------------------------------------------------
(* The highlight *)

\* A row that a handler highlights is drawn.
LEMMA DrawnRow ==
  ASSUME PictureInv, NEW row, row = -1 \/ \E k \in DOMAIN points.drawn : row = points.drawn[k].idx
  PROVE  row = -1 <=> PointOf(row) = Null
<1>1. points.drawn \in Seq(Point)
  BY DEF PictureInv
<1>2. DOMAIN points.drawn = 1..Len(points.drawn) /\ \A j \in 1..Len(points.drawn) : points.drawn[j] \in Point
  BY <1>1, LenProperties, ElementOfSeq
<1>3. \A pt \in Point : pt.idx # -1 /\ pt # Null
  BY ChartAssumption DEF Point, Value
<1>4. \/ PointOf(row) = Null /\ \A j \in DOMAIN points.drawn : points.drawn[j].idx # row
      \/ PointOf(row) \in Point /\ PointOf(row).idx = row
  BY <1>1, DrawnPoint
<1> QED
  BY <1>2, <1>3, <1>4

\* No step leaves a legend or a circle behind that shows another point.
LEMMA HighlightStep ==
  ASSUME IInv, HighlightIsCurrent, [TouchNext]_tvars
  PROVE  HighlightIsCurrent'
<1> USE DEF IInv, HighlightIsCurrent
<1>1. CASE lastRow' = -1 /\ legend' = Null
  BY <1>1
<1>2. CASE Fresh
  BY <1>1, <1>2 DEF Fresh, SelectFile
<1>3. CASE points' = points /\ UNCHANGED <<lastRow, legend, selPoint>>
  BY <1>3, Zenon DEF PointOf
<1>4. CASE Loads \/ Rerolls
  <2>1. UNCHANGED <<points, lastRow, legend>> \/ (lastRow' = -1 /\ legend' = Null)
    BY <1>4 DEF Loads, Rerolls, AdjustRoll, Predraw, DrawGraph, Deselect
  <2>2. selPoint' = selPoint
    BY <1>4 DEF Loads, Rerolls, AdjustRoll
  <2> QED
    BY <1>1, <1>3, <2>1, <2>2
<1>5. CASE Redraws
  BY <1>1, <1>5 DEF Redraws, DrawGraph, Deselect
<1>6. CASE BlindPan
  BY <1>1, <1>6 DEF BlindPan, PictureInv
<1>7. CASE Looks
  <2>1. points' = points
    BY <1>7 DEF Looks, picture
  <2>2. CASE UNCHANGED selection
    BY <1>3, <2>1, <2>2 DEF selection
  <2>3. CASE \E row : SetSelection(row) /\ \E p \in Positions : row = FindClosestRow(p[1])
    <3>1. PICK row : SetSelection(row) /\ \E p \in Positions : row = FindClosestRow(p[1])
      BY <2>3
    <3>2. row = -1 <=> PointOf(row) = Null
      <4>1. row = -1 \/ \E k \in DOMAIN points.drawn : row = points.drawn[k].idx
        BY <3>1, NearestRow DEF PictureInv
      <4> QED
        BY <4>1, DrawnRow
    <3>3. lastRow' = row /\ selPoint' = PointOf(row) /\ legend' = PointOf(row)
      BY <3>1, <3>2 DEF SetSelection, UpdateSelection
    <3> DEFINE pt == PointOf(row)
    <3>4. PointOf(lastRow)' = pt
      BY <2>1, <3>3, Zenon DEF PointOf
    <3> HIDE DEF pt
    <3> QED
      BY <3>2, <3>3, <3>4 DEF pt
  <2> QED
    BY <1>1, <1>7, <2>2, <2>3 DEF Looks
<1> QED
  BY <1>2, <1>4, <1>5, <1>6, <1>7, StepKind DEF TouchInv

\* The legend and the circle show one and the same drawn sample, or none.
THEOREM HighlightCurrent == TouchSpec => []HighlightIsCurrent
<1>1. TouchInit => HighlightIsCurrent
  BY DEF TouchInit, Init, HighlightIsCurrent
<1>2. IInv /\ HighlightIsCurrent /\ [TouchNext]_tvars => HighlightIsCurrent'
  BY HighlightStep
<1> QED
  BY <1>1, <1>2, ChartInvariant, PTL DEF TouchSpec

-----------------------------------------------------------------------------
(* A zoom *)

\* While the button is down, only moves and the release change the window.
LEMMA ZoomingStep ==
  ASSUME IInv, context.isZooming, made' = made, rawData' = rawData, [TouchNext]_tvars
  PROVE  /\ dateWindow' # dateWindow => Within(dateWindow', XAxisRange(rawData, dateWindow))
         /\ valueWindow' # valueWindow => Within(valueWindow', yRange)
<1>1. mouse = "down" /\ device = "mouse" /\ listeners > 0
  BY DEF IInv, GestureInv, TouchInv
<1>2. CASE MouseUp /\ EndZoom
  BY <1>2, ZoomStep
<1>3. CASE dateWindow' = dateWindow /\ valueWindow' = valueWindow
  BY <1>3
<1>4. CASE \E f \in Files : SelectFile(f)
  BY <1>1, <1>4 DEF SelectFile
<1>5. CASE Requested
  BY <1>3, <1>5 DEF Requested, Answer, AnswerEmpty, AnswerFails, LoadedEvent, view
<1>6. CASE Rolling
  BY <1>3, <1>6 DEF Rolling, AdjustRoll, view
<1>7. CASE Mouse
  <2>1. CASE \E p \in Positions : MouseMove(p)
    BY <1>1, <1>3, <2>1 DEF MouseMove, MoveZoom, view
  <2>2. CASE \E shift \in BOOLEAN : MouseDown(shift)
    BY <1>1, <2>2 DEF MouseDown
  <2>3. CASE MouseUp /\ ~EndZoom
    BY <1>3, <2>3 DEF MouseUp, EndZoomFails, Released, view
  <2>4. CASE DblClick
    BY <1>1, <2>4 DEF DblClick
  <2> QED
    BY <1>2, <1>7, <2>1, <2>2, <2>3, <2>4 DEF Mouse
<1>8. CASE UNCHANGED tvars
  BY <1>3, <1>8 DEF tvars, vars, view
<1> QED
  BY <1>1, <1>4, <1>5, <1>6, <1>7, <1>8 DEF TouchNext

\* "click and drag to zoom" shows a part of what was shown.
THEOREM ZoomShowsPart == TouchSpec => ZoomNarrows
<1>1. IInv /\ [TouchNext]_tvars =>
        [context.isZooming /\ made' = made /\ rawData' = rawData =>
           /\ dateWindow' # dateWindow => Within(dateWindow', XAxisRange(rawData, dateWindow))
           /\ valueWindow' # valueWindow => Within(valueWindow', yRange)]_vars
  BY ZoomingStep
<1> QED
  BY <1>1, ChartInvariant, PTL DEF TouchSpec, ZoomNarrows

-----------------------------------------------------------------------------
(* The size of what is shown *)

Width(w) == w[2] - w[1]

\* A chart loads one file.
LoadedInv == HasPlotter => made \notin requests

\* Unless the averaging failed, there is something to show.
SoundInv == HasPlotter /\ ~threw => rolled # NaN /\ yRange # Null

\* A pan remembers the size that is shown.
PanInv ==
  ~threw /\ context.isPanning =>
    /\ HasPlotter /\ ~context.isZooming
    /\ context.dateRange = Width(XAxisRange(rawData, dateWindow))
    /\ context.is2DPan = (valueWindow # Null)
    /\ context.is2DPan => context.dragValueRange = Width(yRange)

\* So does a swipe.
SwipeInv ==
  device = "touch" /\ ~threw /\ Len(fingers) = 1 =>
    /\ Len(touch.initial) = 1 /\ touch.directions = {"x", "y"}
    /\ Width(touch.range[1]) = Width(XAxisRange(rawData, dateWindow))
    /\ Width(touch.range[2]) = Width(yRange)

SizeInv == LoadedInv /\ SoundInv /\ PanInv /\ SwipeInv

\* Only a new chart forgets that a handler failed.
LEMMA ThrewStays ==
  ASSUME IInv, [TouchNext]_tvars
  PROVE  Fresh \/ (threw => threw')
<1>1. CASE Fresh
  BY <1>1
<1>2. CASE Requested
  BY <1>2 DEF Requested, Answer, AnswerEmpty, AnswerFails, LoadedEvent, Predraw
<1>3. CASE Rolling
  BY <1>3 DEF Rolling, AdjustRoll, Predraw
<1>4. CASE Mouse
  BY <1>4 DEF Mouse, MouseMove, MoveZoom, MovePan, MouseDown, MouseUp, EndZoomFails, EndZoom, Released,
              DblClick, ResetZoom
<1>5. CASE (\E p \in Positions : TouchStart(p)) \/ TouchEnd
           \/ \E i \in DOMAIN fingers, p \in Positions : TouchMove(i, p)
  BY <1>5 DEF TouchStart, TouchEnd, LiftOne, DoubleTap, Tap, StartTouch, ResetZoom, TouchMove, MoveTouch
<1>6. CASE UNCHANGED tvars
  BY <1>6 DEF tvars, vars
<1> QED
  BY <1>1, <1>2, <1>3, <1>4, <1>5, <1>6 DEF TouchNext, Fresh

\* A file arrives once, and an averaging that does not fail gives a range.
LEMMA SoundStep ==
  ASSUME IInv, LoadedInv, SoundInv, [TouchNext]_tvars
  PROVE  LoadedInv' /\ SoundInv'
<1> USE DEF LoadedInv, SoundInv
<1>1. DataInv /\ ViewInv /\ PictureInv /\ DataInv' /\ ViewInv'
  BY DataStep, ViewStep DEF IInv
<1>2. \A w \in Ranges : w # Null
  BY ChartAssumption DEF Ranges
<1>3. CASE Fresh
  BY <1>3 DEF Fresh, SelectFile, HasPlotter
<1>4. CASE Loads
  <2>1. made' = made /\ made \notin requests'
    BY <1>4 DEF Loads
  <2>2. Predraw(rawData', rollPeriod) /\ rawData' # Null /\ UNCHANGED <<dateWindow, valueWindow>>
    BY <1>4, LoadedRows DEF Loads, view
  <2>3. rawData' \in Seq(Row) /\ Sorted(rawData')
    BY <1>4, LoadedRows
  <2>4. ~threw' => rolled' # NaN /\ yRange' # Null
    <3> SUFFICES ASSUME ~threw' PROVE rolled' # NaN /\ yRange' # Null
      OBVIOUS
    <3>1. rolled' = Rolled(rawData', rollPeriod) /\ DrawGraph(rawData', rolled', dateWindow, valueWindow)
      BY <2>2 DEF Predraw
    <3> DEFINE raw == rawData'
               series == rolled'
    <3>2. raw \in Seq(Row) /\ Sorted(raw) /\ rollPeriod \in Rolls \cup {1, Fraction}
      BY <1>1, <2>3 DEF DataInv
    <3>3. dateWindow \in Ranges \cup {Null} /\ valueWindow \in Ranges \cup {Null}
      BY <1>1 DEF ViewInv
    <3>4. series = Rolled(raw, rollPeriod) /\ DrawGraph(raw, series, dateWindow, valueWindow)
      BY <3>1
    <3> HIDE DEF raw, series
    <3>5. series \in Seq(Sample) /\ series # NaN
      BY <3>2, <3>4, RolledType
    <3>6. yRange' \in Ranges
      BY <3>2, <3>3, <3>4, <3>5, DrawGraphType
    <3> QED
      BY <1>2, <3>5, <3>6 DEF series
  <2> QED
    BY <2>1, <2>4
<1>5. CASE Rerolls
  <2>1. PICK period \in Rolls \cup {Fraction} : AdjustRoll(period)
    BY <1>5 DEF Rerolls
  <2>2. UNCHANGED <<made, requests, rawData>> /\ rawData # Null /\ Predraw(rawData, period)
    BY <2>1 DEF AdjustRoll
  <2>3. ~threw' => rolled' # NaN /\ yRange' # Null
    <3> SUFFICES ASSUME ~threw' PROVE rolled' # NaN /\ yRange' # Null
      OBVIOUS
    <3>1. rolled' = Rolled(rawData, period) /\ DrawGraph(rawData, rolled', dateWindow, valueWindow)
      BY <2>2 DEF Predraw
    <3> DEFINE series == rolled'
    <3>2. rawData \in Seq(Row) /\ Sorted(rawData) /\ period \in Rolls \cup {1, Fraction}
      BY <1>1, <2>2 DEF DataInv
    <3>3. dateWindow \in Ranges \cup {Null} /\ valueWindow \in Ranges \cup {Null}
      BY <1>1 DEF ViewInv
    <3>4. series = Rolled(rawData, period) /\ DrawGraph(rawData, series, dateWindow, valueWindow)
      BY <3>1
    <3> HIDE DEF series
    <3>5. series \in Seq(Sample) /\ series # NaN
      BY <3>2, <3>4, RolledType
    <3>6. yRange' \in Ranges
      BY <3>2, <3>3, <3>4, <3>5, DrawGraphType
    <3> QED
      BY <1>2, <3>5, <3>6 DEF series
  <2> QED
    BY <2>2, <2>3 DEF HasPlotter
<1>6. CASE Redraws
  <2>1. UNCHANGED <<made, requests, rawData, rolled>> /\ HasPlotter
    BY <1>6 DEF Redraws, data
  <2>2. yRange' \in Ranges
    <3> DEFINE window == dateWindow'
               yWindow == valueWindow'
    <3>1. window \in Ranges \cup {Null} /\ yWindow \in Ranges \cup {Null}
      BY <1>1 DEF ViewInv
    <3>2. DrawGraph(rawData, rolled, window, yWindow)
      BY <1>6 DEF Redraws
    <3>3. rawData \in Seq(Row) /\ Sorted(rawData) /\ rolled \in Seq(Sample) \cup {NaN}
      BY <1>1, <2>1 DEF DataInv, HasPlotter
    <3> HIDE DEF window, yWindow
    <3> QED
      BY <3>1, <3>2, <3>3, DrawGraphType
  <2>3. threw => threw'
    BY <2>1, ThrewStays, <1>1, <1>3 DEF Fresh, SelectFile, HasPlotter
  <2> QED
    BY <1>2, <2>1, <2>2, <2>3 DEF HasPlotter
<1>7. CASE Looks \/ BlindPan
  <2>1. UNCHANGED <<made, rawData, rolled, yRange>> /\ requests' \subseteq requests
    BY <1>7 DEF Looks, BlindPan, data, picture
  <2>2. HasPlotter /\ threw => threw'
    BY <2>1, ThrewStays DEF Fresh, SelectFile, HasPlotter
  <2> QED
    BY <2>1, <2>2 DEF HasPlotter
<1> QED
  BY <1>3, <1>4, <1>5, <1>6, <1>7, StepKind DEF IInv, TouchInv

\* What a press of the button with the shift key notes.
LEMMA PanStarts ==
  ASSUME IInv, HasPlotter, yRange # Null, NEW ctx \in Contexts
  PROVE  /\ StartPan(ctx).isZooming = ctx.isZooming
         /\ StartPan(ctx).dateRange = Width(XAxisRange(rawData, dateWindow))
         /\ StartPan(ctx).is2DPan = (valueWindow # Null)
         /\ StartPan(ctx).dragValueRange = Width(yRange)
<1> DEFINE x == XAxisRange(rawData, dateWindow)
<1>1. StartPan(ctx) = [ctx EXCEPT !.isPanning = TRUE, !.initialLeftmostDate = x[1],
                                  !.dateRange = x[2] - x[1], !.is2DPan = valueWindow # Null,
                                  !.initialTopValue = yRange[2],
                                  !.dragValueRange = yRange[2] - yRange[1]]
  BY DEF StartPan, Contexts
<1> HIDE DEF x
<1>2. /\ StartPan(ctx).isZooming = ctx.isZooming
      /\ StartPan(ctx).dateRange = x[2] - x[1]
      /\ StartPan(ctx).is2DPan = (valueWindow # Null)
      /\ StartPan(ctx).dragValueRange = yRange[2] - yRange[1]
  BY <1>1 DEF Contexts
<1> QED
  BY <1>2 DEF x, Width

\* A pan keeps the size it has noted.
LEMMA PanningStep ==
  ASSUME IInv, SizeInv, [TouchNext]_tvars
  PROVE  PanInv'
<1> USE DEF IInv, SizeInv
<1>1. CASE ~threw /\ UNCHANGED <<rawData, dateWindow, valueWindow, yRange>>
           /\ context'.isPanning = context.isPanning /\ context'.isZooming = context.isZooming
           /\ context'.dateRange = context.dateRange /\ context'.is2DPan = context.is2DPan
           /\ context'.dragValueRange = context.dragValueRange
  BY <1>1 DEF PanInv, HasPlotter
<1>2. CASE threw' \/ ~context'.isPanning
  BY <1>2 DEF PanInv
<1>3. CASE Fresh
  BY <1>2, <1>3 DEF Fresh, SelectFile, NoContext
<1>4. CASE ~Fresh /\ threw
  BY <1>2, <1>4, ThrewStays
<1>5. ASSUME ~threw, mouse # "down" PROVE ~context.isPanning
  BY <1>5 DEF GestureInv
<1>6. CASE ~threw /\ context' = context /\ mouse # "down"
  BY <1>2, <1>5, <1>6
<1>7. CASE ~threw /\ Requested
  <2>1. context' = context
    BY <1>7 DEF Requested, Answer, AnswerEmpty, AnswerFails, LoadedEvent, gesture
  <2>2. CASE context.isPanning
    <3>1. HasPlotter /\ made \notin requests
      BY <1>7, <2>2 DEF PanInv, LoadedInv
    <3>2. UNCHANGED <<rawData, dateWindow, valueWindow, yRange>>
      BY <1>7, <3>1 DEF Requested, Answer, AnswerEmpty, AnswerFails, LoadedEvent, data, view, picture
    <3> QED
      BY <1>1, <1>7, <2>1, <3>2
  <2> QED
    BY <1>2, <2>1, <2>2
<1>8. CASE ~threw /\ Rolling
  BY <1>6, <1>8 DEF Rolling, AdjustRoll, gesture
<1>9. CASE ~threw /\ \E p \in Positions : MouseMove(p)
  <2>1. PICK p \in Positions : MouseMove(p)
    BY <1>9
  <2>2. CASE MoveZoom(p)
    <3>1. UNCHANGED <<rawData, dateWindow, valueWindow, yRange>>
      BY <2>2 DEF MoveZoom, data, view, picture
    <3>2. /\ context'.isPanning = context.isPanning /\ context'.isZooming = context.isZooming
          /\ context'.dateRange = context.dateRange /\ context'.is2DPan = context.is2DPan
          /\ context'.dragValueRange = context.dragValueRange
      BY <2>2 DEF MoveZoom, GestureInv, Contexts
    <3> QED
      BY <1>1, <1>9, <3>1, <3>2
  <2>3. CASE context.isPanning /\ MovePan(p)
    <3>1. PanInv /\ HasPlotter /\ ~context.isZooming /\ context.is2DPan = (valueWindow # Null)
      BY <1>9, <2>3 DEF PanInv
    <3>2. /\ dateWindow' \in Ranges /\ valueWindow' \in Ranges \cup {Null}
          /\ Width(dateWindow') = context.dateRange
          /\ context.is2DPan => valueWindow' \in Ranges /\ Width(valueWindow') = context.dragValueRange
          /\ ~context.is2DPan => valueWindow' = valueWindow
      BY <2>3, PanStep DEF Width
    <3>3. context.is2DPan => valueWindow' # Null
      BY <3>2, ChartAssumption DEF Ranges
    <3>4. context' = [context EXCEPT !.moved = TRUE] /\ rawData' = rawData
          /\ DrawGraph(rawData, rolled, dateWindow', valueWindow')
      BY <2>3, <3>1 DEF MovePan, data
    <3>5. dateWindow' # Null
      BY <3>2, ChartAssumption DEF Ranges
    <3>6. XAxisRange(rawData, dateWindow)' = dateWindow'
      BY <3>5 DEF XAxisRange
    <3>7. valueWindow' # Null => yRange' = valueWindow'
      BY <3>4 DEF DrawGraph, ComputedValueRange
    <3>8. /\ context'.isZooming = context.isZooming
          /\ context'.dateRange = context.dateRange /\ context'.is2DPan = context.is2DPan
          /\ context'.dragValueRange = context.dragValueRange
      BY <3>4 DEF GestureInv, Contexts
    <3>9. HasPlotter'
      BY <3>1, <3>4 DEF HasPlotter
    <3>10. Width(XAxisRange(rawData, dateWindow))' = context'.dateRange
      BY <3>2, <3>6, <3>8 DEF Width
    <3>11. context'.is2DPan = (valueWindow' # Null)
      BY <3>1, <3>2, <3>3, <3>8
    <3>12. context'.is2DPan => context'.dragValueRange = Width(yRange)'
      BY <3>2, <3>3, <3>7, <3>8 DEF Width
    <3> QED
      BY <3>1, <3>8, <3>9, <3>10, <3>11, <3>12 DEF PanInv
  <2>4. CASE UNCHANGED <<data, view, picture, context>>
    BY <1>1, <1>9, <2>4 DEF data, view, picture
  <2> QED
    BY <2>1, <2>2, <2>3, <2>4 DEF MouseMove
<1>10. CASE ~threw /\ \E shift \in BOOLEAN : MouseDown(shift)
  <2>1. PICK shift \in BOOLEAN : MouseDown(shift)
    BY <1>10
  <2> DEFINE pressed == [context EXCEPT !.start = at, !.cancelNextDblclick = FALSE]
  <2>2. /\ pressed \in Contexts /\ pressed.isZooming = context.isZooming
        /\ pressed.isPanning = context.isPanning
    BY DEF GestureInv, Contexts
  <2>3. ~context.isPanning /\ ~context.isZooming
    BY <1>10, <2>1 DEF MouseDown, GestureInv
  <2>4. context' = IF shift THEN StartPan(pressed) ELSE [pressed EXCEPT !.isZooming = TRUE]
    BY <2>1 DEF MouseDown
  <2>5. UNCHANGED <<rawData, dateWindow, valueWindow, yRange>>
    BY <2>1 DEF MouseDown, data, view, picture
  <2> HIDE DEF pressed
  <2>6. CASE shift /\ HasPlotter /\ yRange # Null
    <3>1. /\ context'.isZooming = pressed.isZooming
          /\ context'.dateRange = Width(XAxisRange(rawData, dateWindow))
          /\ context'.is2DPan = (valueWindow # Null)
          /\ context'.dragValueRange = Width(yRange)
      BY <2>2, <2>4, <2>6, PanStarts
    <3>2. ~context'.isZooming
      BY <2>2, <2>3, <3>1
    <3> QED
      BY <2>5, <2>6, <3>1, <3>2 DEF PanInv, HasPlotter
  <2>7. CASE shift /\ ~(HasPlotter /\ yRange # Null)
    BY <1>2, <2>1, <2>7 DEF MouseDown
  <2>8. CASE ~shift
    BY <1>2, <2>2, <2>3, <2>4, <2>8 DEF Contexts
  <2> QED
    BY <2>6, <2>7, <2>8
<1>11. CASE ~threw /\ MouseUp
  <2>1. CASE listeners = 0 /\ context' = context
    <3>1. mouse # "down"
      BY <1>11, <2>1 DEF GestureInv
    <3> QED
      BY <1>6, <1>11, <2>1, <3>1
  <2>2. CASE EndZoomFails
    BY <1>2, <2>2 DEF EndZoomFails
  <2>3. CASE EndZoom
    <3> DEFINE c == context.cancelNextDblclick \/ DragsX \/ DragsY
               ctx == [context EXCEPT !.isZooming = FALSE, !.start = Null, !.cancelNextDblclick = c]
    <3>1. c \in BOOLEAN
      BY DEF GestureInv, Contexts, DragsX, DragsY
    <3>2. context' = Destroyed(ctx)
      BY <2>3 DEF EndZoom
    <3> HIDE DEF c
    <3>3. ctx \in Contexts
      BY <3>1 DEF GestureInv, Contexts
    <3> HIDE DEF ctx
    <3>4. ~context'.isPanning
      BY <3>2, <3>3, DestroyedType
    <3> QED
      BY <1>2, <3>4
  <2>4. CASE Released
    <3> DEFINE ctx == TreatedAsClick(context)
    <3>1. ctx \in Contexts
      BY DEF TreatedAsClick, GestureInv, Contexts
    <3>2. context' = Destroyed(ctx)
      BY <2>4 DEF Released
    <3> HIDE DEF ctx
    <3>3. ~context'.isPanning
      BY <3>1, <3>2, DestroyedType
    <3> QED
      BY <1>2, <3>3
  <2> QED
    BY <1>11, <2>1, <2>2, <2>3, <2>4 DEF MouseUp
<1>12. CASE ~threw /\ DblClick
  <2>1. mouse # "down"
    BY <1>12 DEF DblClick
  <2>2. context'.isPanning = context.isPanning
    BY <1>12 DEF DblClick, GestureInv, Contexts
  <2> QED
    BY <1>2, <1>5, <1>12, <2>1, <2>2
<1>13. CASE ~threw /\ device = "touch" /\ context' = context
  <2>1. mouse # "down"
    BY <1>13 DEF TouchInv
  <2> QED
    BY <1>6, <1>13, <2>1
<1>14. CASE ~threw /\ UNCHANGED tvars
  BY <1>1, <1>14 DEF tvars, vars, data, view, picture, gesture
<1>15. (\E p \in Positions : TouchStart(p)) \/ TouchEnd
       \/ (\E i \in DOMAIN fingers, p \in Positions : TouchMove(i, p)) => context' = context
  BY DEF TouchStart, TouchEnd, TouchMove, gesture
<1> QED
  BY <1>3, <1>4, <1>7, <1>8, <1>9, <1>10, <1>11, <1>12, <1>13, <1>14, <1>15 DEF TouchNext, Mouse, Fresh

\* One finger that stays or comes notes what is shown.
LEMMA SwipeStarts ==
  ASSUME IInv, NEW ps \in Seq(Positions), Len(ps) = 1, StartTouch(ps), ~threw',
         UNCHANGED <<rawData, dateWindow, yRange>>
  PROVE  /\ Len(touch'.initial) = 1 /\ touch'.directions = {"x", "y"}
         /\ Width(touch'.range[1]) = Width(XAxisRange(rawData, dateWindow))'
         /\ Width(touch'.range[2]) = Width(yRange)'
<1> DEFINE x == XAxisRange(rawData, dateWindow)
<1>1. /\ touch'.initial = ps /\ touch'.directions = Directions(ps)
      /\ touch'.range = <<x, yRange>>
  BY DEF StartTouch
<1>2. XAxisRange(rawData, dateWindow)' = x
  BY DEF XAxisRange, XAxisExtremes
<1>3. Directions(ps) = {"x", "y"}
  BY DEF Directions
<1> HIDE DEF x
<1> QED
  BY <1>1, <1>2, <1>3 DEF Width

\* A swipe keeps the size it has noted.
LEMMA SwipingStep ==
  ASSUME IInv, SizeInv, [TouchNext]_tvars
  PROVE  SwipeInv'
<1> USE DEF IInv, SizeInv
<1>1. ASSUME UNCHANGED <<device, fingers, touch>>, threw => threw',
             device = "touch" /\ ~threw /\ Len(fingers) = 1 => UNCHANGED <<rawData, dateWindow, yRange>>
      PROVE  SwipeInv'
  <2> SUFFICES ASSUME device = "touch", ~threw, Len(fingers) = 1, UNCHANGED <<rawData, dateWindow, yRange>>
               PROVE  SwipeInv'
    BY <1>1 DEF SwipeInv
  <2>1. XAxisRange(rawData, dateWindow)' = XAxisRange(rawData, dateWindow)
    BY DEF XAxisRange, XAxisExtremes
  <2> QED
    BY <1>1, <2>1 DEF SwipeInv, Width
<1>2. ASSUME Len(fingers') # 1 PROVE SwipeInv'
  BY <1>2 DEF SwipeInv
<1>3. Len(<< >>) = 0
  OBVIOUS
<1>4. CASE fingers = << >> /\ UNCHANGED fingers
  BY <1>2, <1>3, <1>4
<1>5. ASSUME UNCHANGED <<device, fingers, touch>>, Requested PROVE SwipeInv'
  <2>1. threw => threw'
    BY <1>5 DEF Requested, Answer, AnswerEmpty, AnswerFails, LoadedEvent, Predraw
  <2>2. ASSUME device = "touch", ~threw, Len(fingers) = 1
        PROVE  UNCHANGED <<rawData, dateWindow, yRange>>
    <3>1. HasPlotter /\ made \notin requests
      BY <2>2 DEF SwipeInv, TouchInv, LoadedInv
    <3> QED
      BY <1>5, <3>1 DEF Requested, Answer, AnswerEmpty, AnswerFails, LoadedEvent, data, view, picture
  <2> QED
    BY <1>1, <1>5, <2>1, <2>2
<1>6. CASE device = "mouse" /\ UNCHANGED device
  BY <1>6 DEF SwipeInv
<1>7. CASE \E p \in Positions : TouchStart(p)
  <2>1. PICK p \in Positions : TouchStart(p)
    BY <1>7
  <2> SUFFICES ASSUME Len(fingers') = 1, ~threw'
               PROVE  SwipeInv'
    BY DEF SwipeInv
  <2> DEFINE ps == fingers'
  <2>2. ps \in Seq(Positions) /\ Len(ps) = 1 /\ StartTouch(ps)
    <3>1. fingers' = Append(fingers, p) /\ fingers \in Seq(Positions)
      BY <2>1 DEF TouchStart, TouchInv
    <3> QED
      BY <2>1, <3>1, AppendProperties DEF TouchStart
  <2>3. UNCHANGED <<rawData, dateWindow, yRange>>
    BY <2>1 DEF TouchStart, data, view, picture
  <2> HIDE DEF ps
  <2> QED
    BY <2>2, <2>3, SwipeStarts DEF SwipeInv, Width
<1>8. CASE TouchEnd
  <2>1. CASE DoubleTap \/ Tap
    BY <1>2, <1>3, <2>1 DEF DoubleTap, Tap
  <2>2. CASE \E i \in DOMAIN fingers : LiftOne(i)
    <3>1. PICK i \in DOMAIN fingers : LiftOne(i)
      BY <2>2
    <3> SUFFICES ASSUME ~threw'
                 PROVE  SwipeInv'
      BY DEF SwipeInv
    <3> DEFINE ps == fingers'
    <3>2. ps \in Seq(Positions) /\ Len(ps) = 1 /\ StartTouch(ps)
      BY <3>1, RemoveOne DEF LiftOne, TouchInv
    <3>3. UNCHANGED <<rawData, dateWindow, yRange>>
      BY <1>8, <3>1 DEF TouchEnd, LiftOne, data, view, picture
    <3> HIDE DEF ps
    <3> QED
      BY <3>2, <3>3, SwipeStarts DEF SwipeInv, Width
  <2> QED
    BY <1>8, <2>1, <2>2 DEF TouchEnd
<1>9. CASE device' = device /\ \E i \in DOMAIN fingers, p \in Positions : TouchMove(i, p)
  <2>1. PICK i \in DOMAIN fingers, p \in Positions : TouchMove(i, p)
    BY <1>9
  <2>2. Len(fingers') = Len(fingers) /\ rawData' = rawData /\ touch' = [touch EXCEPT !.tapped = Null]
    BY <2>1, TouchMoveStep DEF TouchMove, data
  <2>3. touch'.initial = touch.initial /\ touch'.directions = touch.directions /\ touch'.range = touch.range
    BY <2>2 DEF TouchInv, Touches
  <2> SUFFICES ASSUME device = "touch", Len(fingers) = 1, ~threw'
               PROVE  SwipeInv'
    BY <1>9, <2>2 DEF SwipeInv
  <2>4. ~MoveTouchThrows(fingers') /\ ~threw
    BY <2>1 DEF TouchMove, MoveTouch
  <2>5. Len(touch.initial) = 1 /\ touch.directions = {"x", "y"}
    BY <2>4 DEF SwipeInv
  <2>6. /\ dateWindow' \in Ranges /\ valueWindow' \in Ranges
        /\ Width(dateWindow') = Width(touch.range[1]) /\ Width(valueWindow') = Width(touch.range[2])
    BY <2>1, <2>4, <2>5, TouchMoveStep DEF Width
  <2>7. dateWindow' # Null /\ valueWindow' # Null
    BY <2>6, ChartAssumption DEF Ranges
  <2>8. yRange' = valueWindow' /\ XAxisRange(rawData, dateWindow)' = dateWindow'
    BY <2>1, <2>4, <2>7 DEF TouchMove, MoveTouch, DrawGraph, ComputedValueRange, XAxisRange
  <2> QED
    BY <2>3, <2>5, <2>6, <2>8 DEF SwipeInv, Width
<1>10. CASE UNCHANGED tvars
  BY <1>1, <1>10 DEF tvars, vars, data, view, picture
<1> QED
  BY <1>4, <1>5, <1>6, <1>7, <1>8, <1>9, <1>10 DEF TouchNext

\* The size of what is shown is remembered as long as a drag lasts.
LEMMA SizeStep ==
  ASSUME IInv, SizeInv, [TouchNext]_tvars
  PROVE  SizeInv'
BY SoundStep, PanningStep, SwipingStep DEF SizeInv

\* The invariant of the sizes.
THEOREM SizeInvariant == TouchSpec => []SizeInv
<1>1. TouchInit => SizeInv
  <2> SUFFICES ASSUME TouchInit PROVE SizeInv
    OBVIOUS
  <2>1. ~HasPlotter /\ context = NoContext /\ fingers = << >>
    BY DEF TouchInit, Init, HasPlotter
  <2>2. ~context.isPanning
    BY <2>1 DEF NoContext
  <2>3. Len(fingers) # 1
    BY <2>1
  <2> QED
    BY <2>1, <2>2, <2>3 DEF SizeInv, LoadedInv, SoundInv, PanInv, SwipeInv
<1>2. IInv /\ SizeInv /\ [TouchNext]_tvars => SizeInv'
  BY SizeStep
<1> QED
  BY <1>1, <1>2, ChartInvariant, PTL DEF TouchSpec

\* A change of the window during a drag.
LEMMA DragStep ==
  ASSUME IInv, SizeInv, [TouchNext]_tvars, ~threw, Drags, made' = made, view' # view
  PROVE  LET before == XAxisRange(rawData, dateWindow)
         IN  /\ dateWindow'[2] - dateWindow'[1] = before[2] - before[1]
             /\ IF device = "mouse" /\ valueWindow = Null THEN valueWindow' = Null
                ELSE valueWindow'[2] - valueWindow'[1] = yRange[2] - yRange[1]
<1> USE DEF IInv, SizeInv
<1> DEFINE Kept == /\ Width(dateWindow') = Width(XAxisRange(rawData, dateWindow))
                   /\ IF device = "mouse" /\ valueWindow = Null THEN valueWindow' = Null
                      ELSE Width(valueWindow') = Width(yRange)
<1> SUFFICES Kept
  BY DEF Width
<1> HIDE DEF Kept
<1>1. ~Fresh
  <2>1. made + 1 # made
    BY DEF DataInv
  <2> QED
    BY <2>1 DEF Fresh, SelectFile
<1>2. ~Requested /\ ~Rolling /\ ~UNCHANGED tvars
  BY DEF Requested, Answer, AnswerEmpty, AnswerFails, LoadedEvent, Rolling, AdjustRoll, tvars, vars
<1>3. CASE Mouse /\ device = "mouse"
  <2>1. Len(fingers) = 0
    BY <1>3 DEF TouchInv
  <2>2. context.isPanning
    BY <2>1 DEF Drags
  <2>3. mouse = "down" /\ ~context.isZooming
    BY <2>2 DEF GestureInv, PanInv
  <2>4. PICK p \in Positions : MouseMove(p)
    BY <1>3, <2>3 DEF Mouse, MouseDown, DblClick, MouseUp, Released
  <2>5. MovePan(p)
    BY <2>3, <2>4 DEF MouseMove
  <2>6. /\ Width(dateWindow') = context.dateRange
        /\ context.is2DPan => Width(valueWindow') = context.dragValueRange
        /\ ~context.is2DPan => valueWindow' = valueWindow
    BY <2>2, <2>5, PanStep DEF Width
  <2>7. /\ context.dateRange = Width(XAxisRange(rawData, dateWindow))
        /\ context.is2DPan = (valueWindow # Null)
        /\ context.is2DPan => context.dragValueRange = Width(yRange)
    BY <2>2 DEF PanInv
  <2> QED
    BY <1>3, <2>6, <2>7 DEF Kept
<1>4. CASE device = "touch" /\ ((\E p \in Positions : TouchStart(p)) \/ TouchEnd
                                \/ \E i \in DOMAIN fingers, p \in Positions : TouchMove(i, p))
  <2>1. ~context.isPanning
    BY <1>4 DEF TouchInv, GestureInv
  <2>2. Len(fingers) = 1 /\ fingers' # << >>
    BY <2>1 DEF Drags
  <2>3. ~TouchEnd
    BY <2>2 DEF TouchEnd, LiftOne, DoubleTap, Tap
  <2>4. PICK i \in DOMAIN fingers, p \in Positions : TouchMove(i, p)
    BY <1>4, <2>3 DEF TouchStart
  <2>5. ~MoveTouchThrows(fingers')
    BY <2>4 DEF TouchMove, MoveTouch
  <2>6. /\ touch.directions = {"x", "y"}
        /\ Width(touch.range[1]) = Width(XAxisRange(rawData, dateWindow))
        /\ Width(touch.range[2]) = Width(yRange)
    BY <1>4, <2>2 DEF SwipeInv
  <2>7. Width(dateWindow') = Width(touch.range[1]) /\ Width(valueWindow') = Width(touch.range[2])
    BY <2>2, <2>4, <2>5, <2>6, TouchMoveStep DEF Width
  <2> QED
    BY <1>4, <2>6, <2>7 DEF Kept
<1> QED
  BY <1>1, <1>2, <1>3, <1>4 DEF TouchNext, Fresh

\* "shift-drag to pan", and a swipe: what is shown moves and keeps its size.
THEOREM DragMovesOnly == TouchSpec => DragKeepsSize
<1>1. IInv /\ SizeInv /\ [TouchNext]_tvars =>
        [~threw /\ Drags /\ made' = made /\ view' # view =>
           LET before == XAxisRange(rawData, dateWindow)
           IN  /\ dateWindow'[2] - dateWindow'[1] = before[2] - before[1]
               /\ IF device = "mouse" /\ valueWindow = Null THEN valueWindow' = Null
                  ELSE valueWindow'[2] - valueWindow'[1] = yRange[2] - yRange[1]]_tvars
  BY DragStep
<1> QED
  BY <1>1, ChartInvariant, SizeInvariant, PTL DEF TouchSpec, DragKeepsSize

-----------------------------------------------------------------------------
(* The zoom out *)

\* A zoom out shows every row.
LEMMA ZoomOutStep ==
  ASSUME IInv, SeriesIsCurrent, DrawnIsCurrent, ResetZoom, rawData \notin {Null, << >>}
  PROVE  /\ dateWindow' = Null /\ valueWindow' = Null
         /\ rolled # NaN => Len(points'.drawn) = Len(rawData)
<1>1. HasPlotter /\ rawData # << >> /\ rawData \in Seq(Row) /\ rollPeriod \in Rolls \cup {1, Fraction}
  BY DEF IInv, DataInv, HasPlotter
<1>2. dateWindow' = Null /\ valueWindow' = Null
  BY <1>1 DEF ResetZoom, view
<1> DEFINE series == Rolled(rawData, rollPeriod)
<1>3. series \in Seq(Sample) /\ Len(series) = Len(rawData) /\ series # NaN
  BY <1>1, RolledType
<1>4. rolled # NaN => rolled = series
  BY <1>1 DEF SeriesIsCurrent
<1>5. rolled # NaN => points'.drawn = Gathered(series, Null).points
  <2> SUFFICES ASSUME rolled # NaN PROVE points'.drawn = Gathered(series, Null).points
    OBVIOUS
  <2>1. CASE dateWindow # Null \/ valueWindow # Null
    <3>1. DrawGraph(rawData, rolled, Null, Null)
      BY <1>1, <2>1 DEF ResetZoom
    <3> HIDE DEF series
    <3> QED
      BY <1>4, <3>1 DEF DrawGraph
  <2>2. CASE dateWindow = Null /\ valueWindow = Null
    <3>1. points' = points
      BY <1>1, <2>2 DEF ResetZoom, picture
    <3>2. points.drawn = GatherDatasets(series, Null).points
      BY <1>1, <2>2 DEF DrawnIsCurrent
    <3>3. Gathered(series, Null) = GatherDatasets(series, Null)
      BY <1>3 DEF Gathered
    <3> QED
      BY <3>1, <3>2, <3>3
  <2> QED
    BY <2>1, <2>2
<1> HIDE DEF series
<1>6. Len(Gathered(series, Null).points) = Len(series)
  BY <1>3, GatheredType
<1> QED
  BY <1>2, <1>3, <1>5, <1>6

\* "double-click to zoom out", and a double tap: every row is drawn again.
THEOREM ZoomOutShowsAll == TouchSpec => ZoomsOut
<1>1. IInv /\ SeriesIsCurrent /\ DrawnIsCurrent /\ [TouchNext]_tvars =>
        [((DblClick /\ ~context.cancelNextDblclick) \/ DoubleTap) /\ rawData \notin {Null, << >>} =>
           /\ dateWindow' = Null /\ valueWindow' = Null
           /\ rolled # NaN => Len(points'.drawn) = Len(rawData)]_tvars
  <2> SUFFICES ASSUME IInv, SeriesIsCurrent, DrawnIsCurrent, [TouchNext]_tvars,
                      (DblClick /\ ~context.cancelNextDblclick) \/ DoubleTap,
                      rawData \notin {Null, << >>}
               PROVE  /\ dateWindow' = Null /\ valueWindow' = Null
                      /\ rolled # NaN => Len(points'.drawn) = Len(rawData)
    OBVIOUS
  <2>1. ResetZoom
    BY DEF DblClick, DoubleTap
  <2> QED
    BY <2>1, ZoomOutStep
<1> QED
  BY <1>1, ChartInvariant, PictureCurrent, PTL DEF TouchSpec, ZoomsOut

-----------------------------------------------------------------------------
(* From the lines of a file to what a window shows *)

\* The lines of the pipeline are those of a file with two series.
LEMMA LinesPlain == Lines \subseteq PlainLine
<1> SUFFICES ASSUME NEW l \in Lines PROVE l \in PlainLine
  OBVIOUS
<1>1. l \in Seq(Int \cup {Null, NaN, Junk}) /\ (Len(l) >= 2 => l[1] \in Int /\ Len(l) = 3)
  BY PipelineAssumption
<1>2. Int \cup {Null, NaN, Junk} = Value \cup {Junk}
  BY DEF Value
<1> QED
  BY <1>1, <1>2 DEF PlainLine, Line

\* The rows are those of the lines read so far, and what is gathered is theirs.
PipelineInv ==
  /\ lines \in Seq(Lines)
  /\ rows = ParseCSV("plain", lines)
  /\ gathered = Gather(rows)

\* A file without a line has no row.
LEMMA NoLines == ParseCSV("plain", << >>) = << >>
<1> DEFINE L == {}
           X == {<< >>}
           ret == AllLines("plain", << >>)
<1>1. << >> \in Seq(L) /\ << >> \in X
  OBVIOUS
<1>2. \A r \in X : \A l \in L : AddLine("plain", r, l) \in X
  OBVIOUS
<1> HIDE DEF X, L, ret
<1>3. ret \in X
  BY <1>1, <1>2, AddLines DEF ret
<1>4. ret = << >> /\ Len(ret) = 0
  BY <1>3 DEF X
<1>5. ~\E i \in 2..Len(ret) : ret[i][1] < ret[i - 1][1]
  BY <1>4
<1>6. ParseCSV("plain", << >>) = ret
  BY <1>5 DEF ParseCSV, ret
<1> QED
  BY <1>4, <1>6

\* It holds in a chart of a file without a row, and whenever the file grows.
LEMMA PipelineInvariant == PipelineSpec => []PipelineInv
<1>1. PipelineInit => PipelineInv
  <2>1. << >> \in Seq(Lines)
    OBVIOUS
  <2> QED
    BY <2>1, NoLines DEF PipelineInit, PipelineInv
<1>2. PipelineInv /\ [PipelineNext]_pipelineVars => PipelineInv'
  <2>1. ASSUME PipelineInv, NEW line \in Lines, FileGrows(line) PROVE PipelineInv'
    <3>1. lines' \in Seq(Lines)
      BY <2>1, AppendProperties DEF PipelineInv, FileGrows
    <3> QED
      BY <2>1, <3>1 DEF PipelineInv, FileGrows
  <2>2. ASSUME PipelineInv, UNCHANGED pipelineVars PROVE PipelineInv'
    BY <2>2 DEF PipelineInv, pipelineVars
  <2> QED
    BY <2>1, <2>2 DEF PipelineNext
<1> QED
  BY <1>1, <1>2, PTL DEF PipelineSpec

\* What is in the range of a window of a series.
LEMMA WindowOfSeries ==
  ASSUME PipelineInv, NEW window \in Shown, NEW s \in DOMAIN labels
  PROVE  LET series == Series(rows, s)
         IN  /\ series \in Seq(Sample) /\ Sorted(series)
             /\ gathered[window][s] = GatherDatasets(series, window)
<1>1. DOMAIN labels = 1..2
  BY DEF labels
<1>2. lines \in Seq(PlainLine)
  <2>1. /\ Len(lines) \in Nat /\ lines = [i \in 1..Len(lines) |-> lines[i]]
        /\ \A i \in 1..Len(lines) : lines[i] \in Lines
    BY LenProperties, ElementOfSeq DEF PipelineInv
  <2> QED
    BY <2>1, LinesPlain
<1>3. rows \in Seq(PlainRow) /\ Sorted(rows)
  BY <1>2, PlainRows DEF PipelineInv
<1>4. Series(rows, s) = ExtractDefault(ColumnOf(rows, s), FALSE)
  BY DEF Series
<1>5. Series(rows, s) \in Seq(Sample) /\ Sorted(Series(rows, s))
  BY <1>1, <1>3, <1>4, PlainSeries
<1>6. gathered[window][s] = GatherDatasets(Series(rows, s), window)
  BY DEF PipelineInv, Gather
<1> QED
  BY <1>5, <1>6

\* A window shows all of its samples and, on either side, the nearest one that is
\* not null, nothing behind these but null, and every value shown lies in the
\* range of the y axis (boundaryIds_, gatherDatasets_, computeYAxisRanges_).
THEOREM WindowsAreFramed == PipelineSpec => []WindowFramed
<1>1. ASSUME PipelineInv PROVE WindowFramed
  <2> SUFFICES ASSUME NEW window \in Windows, NEW s \in DOMAIN labels
               PROVE  LET series == Series(rows, s)
                          ids == gathered[window][s].boundaryIds
                          drawn == ids[1]..ids[2]
                          inside == {i \in DOMAIN series : window[1] <= series[i][1] /\ series[i][1] <= window[2]}
                          before == {i \in DOMAIN series : series[i][1] < window[1] /\ series[i][2] # Null}
                          behind == {i \in DOMAIN series : series[i][1] > window[2] /\ series[i][2] # Null}
                          range == ExtremeRange({gathered[window][s].extremes}, FALSE, FALSE)
                      IN  series # <<>> =>
                            /\ drawn \subseteq DOMAIN series
                            /\ inside \subseteq drawn
                            /\ before # {} => Max(before) \in drawn
                            /\ behind # {} => Min(behind) \in drawn
                            /\ inside # {} => Cardinality(before \cap drawn) <= 1
                                              /\ Cardinality(behind \cap drawn) <= 1
                            /\ \A i \in Valued(series, drawn) :
                                 range[1] <= 10 * series[i][2] /\ 10 * series[i][2] <= range[2]
    BY DEF WindowFramed
  <2> DEFINE series == Series(rows, s)
             n == Len(series)
             ids == gathered[window][s].boundaryIds
             lo == BoundaryIds(series, window)[1]
             hi == BoundaryIds(series, window)[2]
             drawn == ids[1]..ids[2]
             inside == {i \in DOMAIN series : window[1] <= series[i][1] /\ series[i][1] <= window[2]}
             before == {i \in DOMAIN series : series[i][1] < window[1] /\ series[i][2] # Null}
             behind == {i \in DOMAIN series : series[i][1] > window[2] /\ series[i][2] # Null}
             range == ExtremeRange({gathered[window][s].extremes}, FALSE, FALSE)
  <2>1. /\ series \in Seq(Sample) /\ Sorted(series)
        /\ gathered[window][s] = GatherDatasets(series, window)
    <3>1. window \in Shown
      BY DEF Shown
    <3> QED
      BY <1>1, <3>1, WindowOfSeries
  <2>2. window \in Int \X Int /\ window[1] <= window[2] /\ window # Null
    BY PipelineAssumption
  <2>3. ids = BoundaryIds(series, window) /\ ids = <<lo, hi>>
    <3>1. ids = BoundaryIds(series, window)
      BY <2>1 DEF GatherDatasets
    <3>2. BoundaryIds(series, window) = <<lo, hi>>
      BY <2>2 DEF BoundaryIds
    <3> HIDE DEF series, lo, hi
    <3> QED
      BY <3>1, <3>2
  <2>4. DOMAIN series = 1..n /\ n \in Nat
    BY <2>1, LenProperties
  <2> SUFFICES ASSUME series # << >>
               PROVE  /\ drawn \subseteq DOMAIN series
                      /\ inside \subseteq drawn
                      /\ before # {} => Max(before) \in drawn
                      /\ behind # {} => Min(behind) \in drawn
                      /\ inside # {} => Cardinality(before \cap drawn) <= 1
                                        /\ Cardinality(behind \cap drawn) <= 1
                      /\ \A i \in Valued(series, drawn) :
                           range[1] <= 10 * series[i][2] /\ 10 * series[i][2] <= range[2]
    OBVIOUS
  <2> DEFINE inside1 == {i \in 1..n : window[1] <= series[i][1] /\ series[i][1] <= window[2]}
             before1 == {i \in 1..n : series[i][1] < window[1] /\ series[i][2] # Null}
             behind1 == {i \in 1..n : series[i][1] > window[2] /\ series[i][2] # Null}
  <2>5. inside = inside1 /\ before = before1 /\ behind = behind1 /\ drawn = lo..hi
    BY <2>3, <2>4
  <2>6. /\ lo \in 1..n /\ hi \in 1..n
        /\ inside1 \subseteq lo..hi
        /\ before1 # {} => Max(before1) \in lo..hi
        /\ behind1 # {} => Min(behind1) \in lo..hi
        /\ inside1 # {} => before1 \cap (lo..hi) \subseteq {lo} /\ behind1 \cap (lo..hi) \subseteq {hi}
    <3> HIDE DEF series
    <3> QED
      BY <2>1, <2>2, BoundaryIdsFrame
  <2>7. ASSUME NEW i \in lo..hi, ~Missing(series[i][2])
        PROVE  range[1] <= 10 * series[i][2] /\ 10 * series[i][2] <= range[2]
    <3> DEFINE r == ExtremeRange({GatherDatasets(series, window).extremes}, FALSE, FALSE)
    <3>1. range = r
      BY <2>1
    <3> HIDE DEF series, lo, hi
    <3>2. r[1] <= 10 * series[i][2] /\ 10 * series[i][2] <= r[2]
      BY <2>1, <2>3, <2>6, <2>7, ShownInRange
    <3> QED
      BY <3>1, <3>2
  <2> HIDE DEF series, n, lo, hi, drawn, inside, before, behind, range, inside1, before1, behind1
  <2>8. ASSUME NEW S, NEW e, S \subseteq {e} PROVE Cardinality(S) <= 1
    <3>1. IsFiniteSet({e}) /\ Cardinality({e}) = 1
      BY FS_Singleton
    <3> QED
      BY <2>8, <3>1, FS_Subset
  <2>9. \A i \in Valued(series, drawn) : i \in lo..hi /\ ~Missing(series[i][2])
    BY <2>5 DEF Valued
  <2>10. drawn \subseteq 1..n
    BY <2>4, <2>5, <2>6
  <2> QED
    BY <2>4, <2>5, <2>6, <2>7, <2>8, <2>9, <2>10
<1> QED
  BY <1>1, PipelineInvariant, PTL

-----------------------------------------------------------------------------
(* The four ways to roll *)

\* The file of another kind becomes the rows of the plain one with other cells.
LEMMA RowsOfKind ==
  ASSUME PipelineInv, NEW kind
  PROVE  /\ rows \in Seq(PlainRow)
         /\ OfKind(kind) = [j \in 1..Len(rows) |->
                              <<rows[j][1], ParseFields(kind, Cell(kind, rows[j][2]))>>]
<1> DEFINE form(l) == IF Len(l) < 2 THEN l ELSE <<l[1], Cell(kind, ParseFloat(l[2]))>>
           alt == [l \in PlainLine |-> form(l)]
           cell(r) == <<r[1], ParseFields(kind, Cell(kind, r[2]))>>
           S == {cell(r) : r \in PlainRow}
           h == [r \in PlainRow |-> cell(r)]
<1>1. lines \in Seq(PlainLine) /\ DOMAIN lines = 1..Len(lines)
      /\ \A i \in DOMAIN lines : lines[i] \in PlainLine
  <2>1. /\ Len(lines) \in Nat /\ lines = [i \in 1..Len(lines) |-> lines[i]]
        /\ DOMAIN lines = 1..Len(lines)
        /\ \A i \in 1..Len(lines) : lines[i] \in Lines
    BY LenProperties, ElementOfSeq DEF PipelineInv
  <2> QED
    BY <2>1, LinesPlain
<1>2. Retells(h, PlainRow, S)
  BY DEF Retells
<1>3. ASSUME NEW l \in PlainLine
      PROVE  /\ (Len(alt[l]) >= 2) = (Len(l) >= 2)
             /\ Len(l) >= 2 => /\ ParseLine("plain", l) \in PlainRow
                               /\ ParseLine(kind, alt[l]) = h[ParseLine("plain", l)]
  <2>1. alt[l] = form(l) /\ Len(l) \in Nat
    BY LenProperties DEF PlainLine, Line
  <2>2. CASE Len(l) < 2
    BY <2>1, <2>2
  <2>3. CASE ~(Len(l) < 2)
    <3>1. Len(l) >= 2
      BY <2>1, <2>3
    <3> DEFINE c == Cell(kind, ParseFloat(l[2]))
               p == ParseLine("plain", l)
    <3>2. p \in PlainRow /\ p[1] = l[1] /\ p[2] = ParseFloat(l[2])
      BY <3>1, PlainParse
    <3>3. alt[l] = <<l[1], c>>
      BY <2>1, <2>3
    <3> HIDE DEF c, p, alt
    <3>4. Len(alt[l]) = 2 /\ DOMAIN alt[l] = 1..2 /\ alt[l][1] = l[1] /\ alt[l][2] = c
      BY <3>3
    <3>5. ParseLine(kind, alt[l]) = <<l[1], ParseFields(kind, c)>>
      <4> DEFINE e(j) == IF j = 1 THEN alt[l][1] ELSE ParseFields(kind, alt[l][j])
      <4>1. ParseLine(kind, alt[l]) = [j \in 1..2 |-> e(j)]
        BY <3>4 DEF ParseLine
      <4>2. e(1) = l[1] /\ e(2) = ParseFields(kind, c)
        BY <3>4
      <4> HIDE DEF e
      <4> QED
        BY <4>1, <4>2
    <3>6. h[p] = cell(p)
      BY <3>2
    <3>7. cell(p) = <<l[1], ParseFields(kind, c)>>
      BY <3>2 DEF c
    <3> QED
      BY <3>1, <3>2, <3>4, <3>5, <3>6, <3>7 DEF p
  <2> QED
    BY <2>2, <2>3
<1>4. RetellsLines(alt, h, PlainLine, PlainRow, S, "plain", kind)
  BY <1>2, <1>3 DEF RetellsLines
<1>5. [i \in DOMAIN lines |-> form(lines[i])] = [i \in DOMAIN lines |-> alt[lines[i]]]
  BY <1>1
<1> HIDE DEF alt, h, S, form
<1>6. rows \in Seq(PlainRow)
  BY <1>1, <1>4, ParseCSVMap DEF PipelineInv
<1>7. ParseCSV(kind, [i \in DOMAIN lines |-> alt[lines[i]]]) = Mapped(h, ParseCSV("plain", lines))
  BY <1>1, <1>4, ParseCSVMap
<1>8. OfKind(kind) = Mapped(h, rows)
  BY <1>5, <1>7 DEF OfKind, form, PipelineInv
<1>9. Mapped(h, rows) = [j \in 1..Len(rows) |-> cell(rows[j])]
  <2>1. \A j \in 1..Len(rows) : rows[j] \in PlainRow
    BY <1>6, ElementOfSeq
  <2>2. \A r \in PlainRow : h[r] = cell(r)
    BY DEF h
  <2> HIDE DEF cell
  <2> QED
    BY <2>1, <2>2 DEF Mapped
<1> QED
  BY <1>6, <1>8, <1>9

\* What the handlers get from the cells of these files.
LEMMA CellSamples ==
  ASSUME NEW y \in Value
  PROVE  /\ ParseFields("customBars", Cell("customBars", y)) =
              IF y = Null THEN <<Null, Null, Null>>
              ELSE IF y = NaN THEN <<NaN, NaN, NaN>> ELSE <<y - 3, y, y + 6>>
         /\ ParseFields("errorBars", Cell("errorBars", y)) = <<y, 1>>
         /\ ParseFields("fractions", Cell("fractions", y)) = <<y, 18>>
<1>1. \A v : v # Junk => ParseFloat(v) = v
  BY DEF ParseFloat
<1>2. Junk \notin Int /\ Junk # NaN
  BY ValuesAssumption
<1>3. ParseFloat(y) = IF y = Junk THEN Null ELSE y
  BY DEF ParseFloat
<1>4. ParseFloat(y) = y
  BY <1>2, <1>3 DEF Value
<1>5. ParseFloat(1) = 1 /\ ParseFloat(18) = 18 /\ ParseFloat(NaN) = NaN
  BY <1>1, <1>2
<1>6. ParseFields("customBars", Cell("customBars", y)) =
              IF y = Null THEN <<Null, Null, Null>>
              ELSE IF y = NaN THEN <<NaN, NaN, NaN>> ELSE <<y - 3, y, y + 6>>
  <2>1. \A f : ParseFields("customBars", f) =
                 IF f = <<>> THEN <<Null, Null, Null>> ELSE [i \in 1..3 |-> ParseFloat(f[i])]
    BY DEF ParseFields
  <2>2. Cell("customBars", y) = IF y = Null THEN <<>> ELSE IF y = NaN THEN <<NaN, NaN, NaN>>
                                ELSE <<y - 3, y, y + 6>>
    BY DEF Cell
  <2>3. \A a, b, c : <<a, b, c>> # <<>>
    OBVIOUS
  <2>4. \A a, b, c : [i \in 1..3 |-> ParseFloat(<<a, b, c>>[i])] =
                       <<ParseFloat(a), ParseFloat(b), ParseFloat(c)>>
    OBVIOUS
  <2>5. CASE y = Null
    BY <2>1, <2>2, <2>5
  <2>6. CASE y # Null /\ y = NaN
    BY <1>5, <2>1, <2>2, <2>3, <2>4, <2>6
  <2>7. CASE y # Null /\ y # NaN
    <3>1. y \in Int
      BY <2>7 DEF Value
    <3>2. y - 3 \in Int /\ y + 6 \in Int
      BY <3>1
    <3>3. ParseFloat(y - 3) = y - 3 /\ ParseFloat(y + 6) = y + 6
      BY <1>1, <1>2, <3>2
    <3> QED
      BY <1>4, <2>1, <2>2, <2>3, <2>4, <2>7, <3>3
  <2> QED
    BY <2>5, <2>6, <2>7
<1>7. ParseFields("errorBars", Cell("errorBars", y)) = <<y, 1>>
  <2>1. \A f : ParseFields("errorBars", f) = <<ParseFloat(f[1]), ParseFloat(f[2])>>
    BY DEF ParseFields
  <2>2. Cell("errorBars", y) = <<y, 1>>
    BY DEF Cell
  <2> QED
    BY <1>4, <1>5, <2>1, <2>2
<1>8. ParseFields("fractions", Cell("fractions", y)) = <<y, 18>>
  <2>1. \A f : ParseFields("fractions", f) = IF Len(f) = 2 THEN <<ParseFloat(f[1]), ParseFloat(f[2])>>
                                             ELSE <<0, 0>>
    BY DEF ParseFields
  <2>2. Cell("fractions", y) = <<y, 18>>
    BY DEF Cell
  <2>3. Len(<<y, 18>>) = 2
    OBVIOUS
  <2> QED
    BY <1>4, <1>5, <2>1, <2>2, <2>3
<1> QED
  BY <1>6, <1>7, <1>8

\* The series of the four kinds: the same x, the same value or, for a fraction, the
\* value over 18, and the bars of each kind.
LEMMA SeriesOfKinds ==
  ASSUME PipelineInv
  PROVE  LET N == Len(rows)
             x(j) == rows[j][1]
             y(j) == rows[j][2]
             r(j) == <<y(j), 18>>
         IN  /\ N \in Nat /\ \A j \in 1..N : x(j) \in Int /\ y(j) \in Value
             /\ Series(rows, 1) = [j \in 1..N |-> <<x(j), y(j)>>]
             /\ ExtractCustom(OfKind("customBars"), FALSE) =
                  [j \in 1..N |-> <<x(j), y(j), IF Missing(y(j)) THEN <<y(j), y(j)>>
                                                ELSE <<y(j) - 3, y(j) + 6>>>>]
             /\ ExtractError(OfKind("errorBars"), FALSE, 2) =
                  [j \in 1..N |-> <<x(j), y(j), IF Missing(y(j)) THEN <<y(j), y(j), y(j)>>
                                                ELSE <<y(j) - 2, y(j) + 2, 1>>>>]
             /\ ExtractFraction(OfKind("fractions"), FALSE) =
                  [j \in 1..N |-> <<x(j), IF Missing(y(j)) THEN y(j) ELSE r(j), <<y(j), 18>>>>]
             /\ ExtractFractionsBars(OfKind("fractions"), FALSE) =
                  [j \in 1..N |-> <<x(j), IF Missing(y(j)) THEN y(j) ELSE r(j),
                                    IF Missing(y(j)) THEN <<y(j), y(j), y(j), 18>>
                                    ELSE <<r(j), r(j), y(j), 18>>>>]
<1> DEFINE N == Len(rows)
           x(j) == rows[j][1]
           y(j) == rows[j][2]
           r(j) == <<y(j), 18>>
           f(kind, j) == ParseFields(kind, Cell(kind, y(j)))
<1>1. rows \in Seq(PlainRow)
  BY RowsOfKind
<1>2. N \in Nat /\ \A j \in 1..N : x(j) \in Int /\ y(j) \in Value
  <2>1. N \in Nat /\ \A j \in 1..N : rows[j] \in PlainRow
    BY <1>1, LenProperties, ElementOfSeq
  <2> SUFFICES ASSUME NEW j \in 1..N PROVE x(j) \in Int /\ y(j) \in Value
    BY <2>1
  <2>2. rows[j] \in Seq(Value) /\ Len(rows[j]) = 3 /\ rows[j][1] \in Int
    BY <2>1 DEF PlainRow, Row
  <2>3. 2 \in 1..Len(rows[j])
    BY <2>2
  <2>4. rows[j][2] \in Value
    BY <2>2, <2>3, ElementOfSeq
  <2> QED
    BY <2>2, <2>4
<1>3. Series(rows, 1) = [j \in 1..N |-> <<x(j), y(j)>>]
  <2>1. 1 \in 1..2 /\ 1 + 1 = 2
    OBVIOUS
  <2> DEFINE series == ExtractDefault(ColumnOf(rows, 1), FALSE)
  <2>2. series \in Seq(Sample) /\ Len(series) = N /\ \A j \in 1..N : series[j] = <<rows[j][1], rows[j][1 + 1]>>
    BY <1>1, <2>1, PlainSeries
  <2> HIDE DEF series
  <2>3. series = [j \in 1..N |-> series[j]]
    BY <2>2, LenProperties
  <2>4. series = [j \in 1..N |-> <<x(j), y(j)>>]
    BY <2>1, <2>2, <2>3
  <2> QED
    BY <2>4 DEF Series, series
<1>4. \A kind : OfKind(kind) = [j \in 1..N |-> <<x(j), f(kind, j)>>]
  BY RowsOfKind
<1>5. ASSUME NEW j \in 1..N
      PROVE  /\ f("customBars", j) = IF y(j) = Null THEN <<Null, Null, Null>>
                                     ELSE IF y(j) = NaN THEN <<NaN, NaN, NaN>>
                                     ELSE <<y(j) - 3, y(j), y(j) + 6>>
             /\ f("errorBars", j) = <<y(j), 1>>
             /\ f("fractions", j) = <<y(j), 18>>
  BY <1>2, CellSamples
<1>6. \A v, a : <<v>> \o <<a>> = <<v, a>>
  BY Pair
<1>7. \A v, a, b : <<v>> \o <<a, b>> = <<v, a, b>>
  BY Triple
<1>8. Ratio(1, 18) = <<1, 18>> /\ \A v : Ratio(v, 18) = <<v, 18>>
  <2>1. 18 # Null /\ 18 # NaN /\ 18 # 0
    BY ValuesAssumption
  <2> QED
    BY <2>1 DEF Ratio
<1> HIDE DEF x, y, f, N
<1>9. ASSUME NEW kind
      PROVE  /\ DOMAIN OfKind(kind) = 1..N
             /\ \A j \in 1..N : OfKind(kind)[j][1] = x(j) /\ OfKind(kind)[j][2] = f(kind, j)
  BY <1>4
<1>10. ExtractCustom(OfKind("customBars"), FALSE) =
         [j \in 1..N |-> <<x(j), y(j), IF Missing(y(j)) THEN <<y(j), y(j)>>
                                       ELSE <<y(j) - 3, y(j) + 6>>>>]
  <2> DEFINE o == OfKind("customBars")
             a(j) == y(j)
             b(j) == IF Missing(y(j)) THEN <<y(j), y(j)>> ELSE <<y(j) - 3, y(j) + 6>>
             smp(p) == IF Missing(p[2]) THEN <<p[2], <<p[2], p[2]>>>> ELSE <<p[2], <<p[1], p[3]>>>>
  <2>1. ExtractCustom(o, FALSE) = [j \in DOMAIN o |-> <<o[j][1]>> \o smp(o[j][2])]
    BY Zenon DEF ExtractCustom, Extract
  <2>2. DOMAIN o = 1..N /\ \A j \in 1..N : o[j][1] = x(j) /\ o[j][2] = f("customBars", j)
    BY <1>9
  <2>3. ASSUME NEW j \in 1..N
        PROVE  smp(f("customBars", j)) = <<a(j), b(j)>>
    BY <1>5 DEF Missing
  <2> HIDE DEF o, smp, a, b
  <2>4. ASSUME NEW j \in 1..N PROVE <<o[j][1]>> \o smp(o[j][2]) = <<x(j), a(j), b(j)>>
    BY <1>7, <2>2, <2>3
  <2>5. ExtractCustom(o, FALSE) = [j \in 1..N |-> <<x(j), a(j), b(j)>>]
    BY <2>1, <2>2, <2>4
  <2> QED
    BY <2>5 DEF o, a, b
<1>11. ExtractError(OfKind("errorBars"), FALSE, 2) =
         [j \in 1..N |-> <<x(j), y(j), IF Missing(y(j)) THEN <<y(j), y(j), y(j)>>
                                       ELSE <<y(j) - 2, y(j) + 2, 1>>>>]
  <2> DEFINE o == OfKind("errorBars")
             half(p) == 2 * AsNumber(p[2])
             a(j) == y(j)
             b(j) == IF Missing(y(j)) THEN <<y(j), y(j), y(j)>> ELSE <<y(j) - 2, y(j) + 2, 1>>
             smp(p) == IF Missing(p[1]) THEN <<p[1], <<p[1], p[1], p[1]>>>>
                       ELSE <<p[1], <<p[1] - half(p), p[1] + half(p), p[2]>>>>
  <2>1. ExtractError(o, FALSE, 2) = [j \in DOMAIN o |-> <<o[j][1]>> \o smp(o[j][2])]
    BY Zenon DEF ExtractError, Extract
  <2>2. DOMAIN o = 1..N /\ \A j \in 1..N : o[j][1] = x(j) /\ o[j][2] = f("errorBars", j)
    BY <1>9
  <2>3. ASSUME NEW j \in 1..N
        PROVE  smp(f("errorBars", j)) = <<a(j), b(j)>>
    <3>1. AsNumber(1) = 1 /\ 2 * 1 = 2
      BY ValuesAssumption DEF AsNumber
    <3>2. f("errorBars", j) = <<y(j), 1>>
      BY <1>5
    <3> QED
      BY <3>1, <3>2
  <2> HIDE DEF o, smp, a, b
  <2>4. ASSUME NEW j \in 1..N PROVE <<o[j][1]>> \o smp(o[j][2]) = <<x(j), a(j), b(j)>>
    BY <1>7, <2>2, <2>3
  <2>5. ExtractError(o, FALSE, 2) = [j \in 1..N |-> <<x(j), a(j), b(j)>>]
    BY <2>1, <2>2, <2>4
  <2> QED
    BY <2>5 DEF o, a, b
<1>12. ExtractFraction(OfKind("fractions"), FALSE) =
         [j \in 1..N |-> <<x(j), IF Missing(y(j)) THEN y(j) ELSE r(j), <<y(j), 18>>>>]
  <2> DEFINE o == OfKind("fractions")
             a(j) == IF Missing(y(j)) THEN y(j) ELSE r(j)
             b(j) == <<y(j), 18>>
             smp(p) == IF Missing(p[1]) THEN <<p[1], p>> ELSE <<Ratio(p[1], p[2]), p>>
  <2>1. ExtractFraction(o, FALSE) = [j \in DOMAIN o |-> <<o[j][1]>> \o smp(o[j][2])]
    BY Zenon DEF ExtractFraction, Extract
  <2>2. DOMAIN o = 1..N /\ \A j \in 1..N : o[j][1] = x(j) /\ o[j][2] = f("fractions", j)
    BY <1>9
  <2>3. ASSUME NEW j \in 1..N
        PROVE  smp(f("fractions", j)) = <<a(j), b(j)>>
    BY <1>5, <1>8
  <2> HIDE DEF o, smp, a, b
  <2>4. ASSUME NEW j \in 1..N PROVE <<o[j][1]>> \o smp(o[j][2]) = <<x(j), a(j), b(j)>>
    BY <1>7, <2>2, <2>3
  <2>5. ExtractFraction(o, FALSE) = [j \in 1..N |-> <<x(j), a(j), b(j)>>]
    BY <2>1, <2>2, <2>4
  <2> QED
    BY <2>5 DEF o, a, b
<1>13. ExtractFractionsBars(OfKind("fractions"), FALSE) =
         [j \in 1..N |-> <<x(j), IF Missing(y(j)) THEN y(j) ELSE r(j),
                           IF Missing(y(j)) THEN <<y(j), y(j), y(j), 18>>
                           ELSE <<r(j), r(j), y(j), 18>>>>]
  <2> DEFINE o == OfKind("fractions")
             a(j) == IF Missing(y(j)) THEN y(j) ELSE r(j)
             b(j) == IF Missing(y(j)) THEN <<y(j), y(j), y(j), 18>> ELSE <<r(j), r(j), y(j), 18>>
             smp(p) == IF Missing(p[1]) THEN <<p[1], <<p[1], p[1], p[1], p[2]>>>>
                       ELSE <<Ratio(p[1], p[2]), <<Ratio(p[1], p[2]), Ratio(p[1], p[2]), p[1], p[2]>>>>
  <2>1. ExtractFractionsBars(o, FALSE) = [j \in DOMAIN o |-> <<o[j][1]>> \o smp(o[j][2])]
    BY Zenon DEF ExtractFractionsBars, Extract
  <2>2. DOMAIN o = 1..N /\ \A j \in 1..N : o[j][1] = x(j) /\ o[j][2] = f("fractions", j)
    BY <1>9
  <2>3. ASSUME NEW j \in 1..N
        PROVE  smp(f("fractions", j)) = <<a(j), b(j)>>
    BY <1>5, <1>8
  <2> HIDE DEF o, smp, a, b
  <2>4. ASSUME NEW j \in 1..N PROVE <<o[j][1]>> \o smp(o[j][2]) = <<x(j), a(j), b(j)>>
    BY <1>7, <2>2, <2>3
  <2>5. ExtractFractionsBars(o, FALSE) = [j \in 1..N |-> <<x(j), a(j), b(j)>>]
    BY <2>1, <2>2, <2>4
  <2> QED
    BY <2>5 DEF o, a, b
<1> QED
  BY <1>2, <1>3, <1>10, <1>11, <1>12, <1>13 DEF x, y, N

-----------------------------------------------------------------------------
(* The four ways to roll, sample by sample *)

\* A series of N samples at x with the values y.
Sampled(series, x, y, N) ==
  /\ Len(series) = N /\ DOMAIN series = 1..N
  /\ \A j \in 1..N : series[j][1] = x[j] /\ series[j][2] = y[j]

\* The indices among W where y has a value.
ValuedIn(W, y) == {j \in W : ~Missing(y[j])}

\* The average of the values there, and of what lies 3 below them.
Average(y, ok) == Total([j \in ok |-> y[j]]) \div Cardinality(ok)
AverageBelow(y, ok) == Total([j \in ok |-> y[j] - 3]) \div Cardinality(ok)

\* f is g where g is defined and zero elsewhere in W.
Padded(f, g, W, ok) ==
  /\ \A j \in W : f[j] \in Int
  /\ DOMAIN g = ok /\ \A j \in ok : g[j] = f[j]
  /\ \A j \in W : j \notin ok => f[j] = 0

\* The window of a sample is a finite, not empty set of samples; over one sample
\* it is that sample.
LEMMA WindowOfSample ==
  ASSUME NEW N \in Nat, NEW i \in 1..N, NEW period \in Nat, period >= 1,
         NEW n, n = Min2(period, N), NEW W, W = RollWindow(n, i)
  PROVE  /\ n \in Nat /\ n >= 1 /\ IsFiniteSet(W) /\ W \subseteq 1..i /\ W \subseteq 1..N
         /\ n = 1 => W = {i}
<1>1. n \in Nat /\ n >= 1 /\ i \in Nat /\ i >= 1
  BY DEF Min2
<1>2. n = 1 => W = {i}
  BY <1>1 DEF RollWindow, Max2
<1>3. IsFiniteSet(W) /\ W \subseteq 1..i
  BY <1>1, WindowSlides
<1>4. 1..i \subseteq 1..N
  OBVIOUS
<1> QED
  BY <1>1, <1>2, <1>3, <1>4

\* A padded sum is the total of what is there.
LEMMA PaddedTotal ==
  ASSUME NEW f, NEW g, NEW W, IsFiniteSet(W), NEW ok, ok \subseteq W, Padded(f, g, W, ok)
  PROVE  SumFunctionOnSet(f, W) = Total(g)
<1>1. /\ \A j \in W : f[j] \in Int
      /\ \A j \in W \ ok : f[j] = 0
      /\ DOMAIN g = ok /\ \A j \in ok : g[j] = f[j]
  BY DEF Padded
<1>2. ok \in SUBSET W
  OBVIOUS
<1> QED
  BY <1>1, <1>2, ValuedTotal

\* The same for a function that is one where there is a value.
LEMMA PaddedCount ==
  ASSUME NEW f, NEW W, IsFiniteSet(W), NEW ok, ok \subseteq W,
         Padded(f, [j \in ok |-> 1], W, ok)
  PROVE  SumFunctionOnSet(f, W) = Cardinality(ok)
<1>1. \A j \in ok : f[j] = 1
  BY DEF Padded
<1>2. \A j \in W \ ok : f[j] = 0
  BY DEF Padded
<1>3. ok \in SUBSET W
  OBVIOUS
<1> QED
  BY <1>1, <1>2, <1>3, ValuedCount

\* The average of one sample is that sample.
LEMMA AverageOfOne ==
  ASSUME NEW i, NEW v \in Int, NEW g, g = [j \in {i} |-> v]
  PROVE  Total(g) \div Cardinality({i}) = v
<1>1. DOMAIN g = {i} /\ \A j \in {i} : g[j] = v
  OBVIOUS
<1>2. IsFiniteSet({i}) /\ Cardinality({i}) = 1
  BY FS_Singleton
<1>3. SumFunctionOnSet(g, {i}) = v * Cardinality({i})
  BY <1>1, <1>2, SumConstant
<1>4. Total(g) = v * 1
  BY <1>1, <1>2, <1>3 DEF Total
<1>5. (v * 1) \div 1 = v
  OBVIOUS
<1> QED
  BY <1>2, <1>4, <1>5

\* The plain handler's average.
LEMMA PlainAt ==
  ASSUME NEW N \in Nat, NEW x, NEW y, NEW series, Sampled(series, x, y, N),
         NEW i \in 1..N, NEW period, NEW n, n = Min2(period, N),
         NEW W, W = RollWindow(n, i), W \subseteq 1..N, NEW ok, ok = ValuedIn(W, y)
  PROVE  RollDefault(series, period)[i][2] =
           IF n = 1 THEN y[i]
           ELSE IF ok = {} THEN Null ELSE Average(y, ok)
<1> DEFINE mean(k) == LET o == {j \in RollWindow(n, k) : ~Missing(series[j][2])}
                        t == Total([j \in o |-> series[j][2]])
                    IN  IF o = {} THEN Null ELSE t \div Cardinality(o)
           t == Total([j \in ok |-> y[j]])
<1>1. Len(series) = N /\ DOMAIN series = 1..N /\ series[i][2] = y[i]
      /\ \A j \in W : series[j][2] = y[j]
  BY DEF Sampled
<1>2. RollDefault(series, period) =
        IF n = 1 THEN series ELSE [k \in DOMAIN series |-> <<series[k][1], mean(k)>>]
  BY <1>1, Zenon DEF RollDefault
<1>3. {j \in RollWindow(n, i) : ~Missing(series[j][2])} = ok
  BY <1>1 DEF ValuedIn
<1>4. [j \in ok |-> series[j][2]] = [j \in ok |-> y[j]]
  BY <1>1 DEF ValuedIn
<1>5. mean(i) = IF ok = {} THEN Null ELSE t \div Cardinality(ok)
  BY <1>3, <1>4
<1> HIDE DEF mean, t
<1>6. n # 1 => RollDefault(series, period)[i][2] = mean(i)
  BY <1>1, <1>2
<1>7. n = 1 => RollDefault(series, period)[i][2] = y[i]
  BY <1>1, <1>2
<1> QED
  BY <1>5, <1>6, <1>7 DEF t, Average

\* The average of the handler of error bars, and how many samples it is of.
LEMMA ErrorAt ==
  ASSUME NEW N \in Nat, NEW x, NEW y, NEW series, Sampled(series, x, y, N),
         NEW i \in 1..N, NEW period, NEW n, n = Min2(period, N),
         NEW W, W = RollWindow(n, i), W \subseteq 1..N, NEW ok, ok = ValuedIn(W, y)
  PROVE  /\ ok = {} => RollError(series, period)[i][2] = IF n = 1 THEN y[i] ELSE Null
         /\ ok # {} => /\ RollError(series, period)[i][2] = Average(y, ok)
                       /\ RollError(series, period)[i][3][2] = Cardinality(ok)
<1> DEFINE o(k) == {j \in RollWindow(n, k) : ~Missing(series[j][2])}
           v(k) == IF n = 1 THEN series[k][2] ELSE Null
           mean(k) == IF o(k) = {} THEN <<series[k][1], v(k), <<v(k), v(k)>>>>
                    ELSE <<series[k][1], Total([j \in o(k) |-> series[j][2]]) \div Cardinality(o(k)),
                           <<Total([j \in o(k) |-> AsNumber(series[j][3][3]) ^ 2]),
                             Cardinality(o(k))>>>>
           t == Total([j \in ok |-> y[j]])
           var == Total([j \in o(i) |-> AsNumber(series[j][3][3]) ^ 2])
<1>1. Len(series) = N /\ DOMAIN series = 1..N /\ series[i][2] = y[i]
      /\ \A j \in W : series[j][2] = y[j]
  BY DEF Sampled
<1>2. RollError(series, period) = [k \in DOMAIN series |-> mean(k)]
  BY <1>1, Zenon DEF RollError
<1>3. o(i) = ok
  BY <1>1 DEF ValuedIn
<1>4. [j \in ok |-> series[j][2]] = [j \in ok |-> y[j]]
  BY <1>1 DEF ValuedIn
<1>5. Total([j \in o(i) |-> series[j][2]]) = t
  BY <1>3, <1>4
<1>6. RollError(series, period)[i] = mean(i)
  <2> HIDE DEF mean
  <2> QED
    BY <1>1, <1>2
<1>7. mean(i) = IF o(i) = {} THEN <<series[i][1], v(i), <<v(i), v(i)>>>>
              ELSE <<series[i][1], Total([j \in o(i) |-> series[j][2]]) \div Cardinality(o(i)),
                     <<var, Cardinality(o(i))>>>>
  BY DEF mean
<1> HIDE DEF mean, o, var
<1>8. v(i) = IF n = 1 THEN y[i] ELSE Null
  BY <1>1
<1> HIDE DEF v, t
<1>9. ok = {} => RollError(series, period)[i][2] = v(i)
  BY <1>3, <1>6, <1>7
<1>10. ok # {} => /\ RollError(series, period)[i][2] = t \div Cardinality(ok)
                  /\ RollError(series, period)[i][3][2] = Cardinality(ok)
  BY <1>3, <1>5, <1>6, <1>7
<1> QED
  BY <1>8, <1>9, <1>10 DEF t, Average

\* What the bars of each kind have to do with the values.
BarsAround(C, y, N) ==
  \A j \in 1..N : ~Missing(y[j]) => C[j][3][1] = y[j] - 3 /\ C[j][3][2] = y[j] + 6

\* The averages of the handler of custom bars.
LEMMA CustomAt ==
  ASSUME NEW N \in Nat, NEW x, NEW y \in [1..N -> Value], NEW C, Sampled(C, x, y, N),
         BarsAround(C, y, N),
         NEW i \in 1..N, NEW period \in Nat, period >= 1, NEW n, n = Min2(period, N),
         NEW W, W = RollWindow(n, i), IsFiniteSet(W), W \subseteq 1..N,
         NEW ok, ok = ValuedIn(W, y)
  PROVE  /\ RollCustom(C, period)[i][2] = IF ok = {} THEN Null ELSE Average(y, ok)
         /\ ok # {} => RollCustom(C, period)[i][3][1] = AverageBelow(y, ok)
<1> DEFINE mid == [j \in 1..N |-> IF Missing(y[j]) THEN 0 ELSE y[j]]
           low == [j \in 1..N |-> IF Missing(y[j]) THEN 0 ELSE y[j] - 3]
           high == [j \in 1..N |-> IF Missing(y[j]) THEN 0 ELSE y[j] + 6]
           one == [j \in 1..N |-> IF Missing(y[j]) THEN 0 ELSE 1]
           g == [j \in ok |-> y[j]]
           l == [j \in ok |-> y[j] - 3]
           s == SumFunctionOnSet(mid, W)
           sl == SumFunctionOnSet(low, W)
           sh == SumFunctionOnSet(high, W)
           c == SumFunctionOnSet(one, W)
<1>1. \A j \in 1..N : y[j] \in Value /\ (~Missing(y[j]) => y[j] \in Int)
  BY DEF Value, Missing
<1>2. ok \subseteq W /\ \A j \in W : j \in 1..N /\ (j \in ok <=> ~Missing(y[j]))
  BY DEF ValuedIn
<1>3. Len(C) = N /\ DOMAIN C = 1..N /\ \A j \in 1..N : C[j][2] = y[j]
  BY DEF Sampled
<1>4. BarsOf(C, low, mid, high, one)
  BY <1>1, <1>3 DEF BarsOf, BarsAround
<1>5. Padded(mid, g, W, ok)
  BY <1>1, <1>2 DEF Padded
<1>6. Padded(low, l, W, ok)
  BY <1>1, <1>2 DEF Padded
<1>7. Padded(one, [j \in ok |-> 1], W, ok)
  BY <1>1, <1>2 DEF Padded
<1> HIDE DEF mid, low, high, one, g, l
<1>8. s = Total(g)
  BY <1>2, <1>5, PaddedTotal
<1>9. sl = Total(l)
  BY <1>2, <1>6, PaddedTotal
<1>10. c = Cardinality(ok)
  BY <1>2, <1>7, PaddedCount
<1>11. Cardinality(ok) = 0 <=> ok = {}
  BY <1>2, FS_Subset, FS_EmptySet
<1>12. RollCustom(C, period)[i] =
         IF c = 0 THEN <<C[i][1], Null, <<Null, Null>>>>
         ELSE <<C[i][1], s \div c, <<sl \div c, sh \div c>>>>
  <2>1. W = RollWindow(Min2(period, N), i)
    OBVIOUS
  <2> QED
    BY <1>3, <1>4, <2>1, RollCustomAt
<1> HIDE DEF s, sl, sh, c
<1>13. ok = {} => RollCustom(C, period)[i][2] = Null
  BY <1>10, <1>11, <1>12
<1>14. ok # {} => /\ RollCustom(C, period)[i][2] = s \div c
                  /\ RollCustom(C, period)[i][3][1] = sl \div c
  BY <1>10, <1>11, <1>12
<1> QED
  BY <1>8, <1>9, <1>10, <1>13, <1>14 DEF g, l, Average, AverageBelow

\* A series of N fractions of y over 18 at x, at the places k and k + 1 of the extras.
Eighteenths(series, x, y, N, k) ==
  /\ Len(series) = N /\ DOMAIN series = 1..N
  /\ \A j \in 1..N : /\ series[j][1] = x[j]
                     /\ series[j][3][k] = y[j] /\ series[j][3][k + 1] = 18

\* The fraction a handler of fractions shows at sample i for the window W.
FractionOver(y, i, W) ==
  Ratio(IF \E j \in 1..i : y[j] = NaN THEN NaN ELSE Total([j \in W |-> AsNumber(y[j])]),
        18 * Cardinality(W))

\* Both handlers of fractions show that one.
LEMMA FractionAt ==
  ASSUME NEW N \in Nat, NEW x, NEW y \in [1..N -> Value], NEW series, NEW k,
         Eighteenths(series, x, y, N, k),
         NEW i \in 1..N, NEW period \in Nat, period >= 1,
         NEW W, W = RollWindow(Min2(period, N), i)
  PROVE  RunningFraction(series, period, k)[i] = <<x[i], FractionOver(y, i, W)>>
<1> DEFINE num == [j \in 1..N |-> IF Missing(y[j]) THEN 0 ELSE y[j]]
           den == [j \in 1..N |-> 18]
           g == [j \in W |-> AsNumber(y[j])]
           sn == SumFunctionOnSet(num, W)
           sd == SumFunctionOnSet(den, W)
           seen == \E j \in 1..i : y[j] = NaN
<1>1. IsFiniteSet(W) /\ W \subseteq 1..i
  <2> DEFINE n == Min2(period, N)
  <2> HIDE DEF n
  <2>1. n = Min2(period, N)
    BY DEF n
  <2>2. W = RollWindow(n, i)
    BY <2>1
  <2>3. IsFiniteSet(W)
    BY <2>1, <2>2, WindowOfSample
  <2>4. W \subseteq 1..i
    BY <2>1, <2>2, WindowOfSample
  <2> QED
    BY <2>3, <2>4
<1>2. Len(series) = N /\ DOMAIN series = 1..N
      /\ \A j \in 1..N : series[j][1] = x[j] /\ series[j][3][k] = y[j] /\ series[j][3][k + 1] = 18
  BY DEF Eighteenths
<1>3. \A j \in 1..N : y[j] \in Value /\ (~Missing(y[j]) => y[j] \in Int)
  BY DEF Value, Missing
<1>4. \A j \in 1..N : y[j] # NaN => AsNumber(y[j]) = num[j]
  BY <1>3 DEF AsNumber, Missing
<1>5. \A j \in 1..N : num[j] \in Int /\ den[j] = 18
  BY <1>3
<1>6. \A j \in W : j \in 1..i /\ j \in 1..N
  BY <1>1
<1>7. DOMAIN g = W /\ \A j \in W : g[j] = AsNumber(y[j])
  OBVIOUS
<1> HIDE DEF num, den, g
<1>8. FractionsOf(series, k, num, den)
  BY <1>2, <1>4, <1>5 DEF FractionsOf
<1>9. NaNSeen(series, k, i) <=> seen
  <2>1. \A j \in 1..i : series[j][3][k] = y[j]
    BY <1>2
  <2> QED
    BY <2>1 DEF NaNSeen
<1>10. RunningFraction(series, period, k)[i] =
        <<series[i][1], Ratio(IF NaNSeen(series, k, i) THEN NaN ELSE sn, sd)>>
  BY <1>2, <1>8, RunningFractionAt
<1>11. sd = 18 * Cardinality(W)
  <2>1. \A j \in W : den[j] = 18
    BY <1>5, <1>6
  <2>2. 18 \in Int
    OBVIOUS
  <2> QED
    BY <1>1, <2>1, <2>2, SumConstant
<1>12. ~seen => sn = Total(g)
  <2> SUFFICES ASSUME ~seen PROVE sn = Total(g)
    OBVIOUS
  <2>1. \A j \in W : num[j] \in Int /\ g[j] = num[j]
    BY <1>4, <1>5, <1>6, <1>7
  <2>2. SumFunctionOnSet(g, W) = sn
    BY <1>1, <2>1, SumSame
  <2> QED
    BY <1>7, <2>2 DEF Total
<1>13. series[i][1] = x[i]
  BY <1>2
<1> HIDE DEF sn, sd, seen
<1> QED
  BY <1>9, <1>10, <1>11, <1>12, <1>13 DEF FractionOver, g, seen

\* What RollsAgree says of a sample.
RollsAgreeAt(series, C, E, F, period, i) ==
  LET W == RollWindow(Min2(period, Len(series)), i)
      ok == Valued(series, W)
      plain == RollDefault(series, period)
      custom == RollCustom(C, period)
      error == RollError(E, period)
      ratio == RollFraction(F, period)
  IN  /\ ok # {} => /\ custom[i][2] = plain[i][2]
                    /\ error[i][2] = plain[i][2]
                    /\ error[i][3][2] = Cardinality(ok)
                    /\ custom[i][3][1] =
                         Total([j \in ok |-> series[j][2] - 3]) \div Cardinality(ok)
      /\ ok = {} => custom[i][2] = Null /\ Missing(plain[i][2]) /\ Missing(error[i][2])
      /\ (\A j \in 1..i : series[j][2] # NaN) =>
           ratio[i][2] = Ratio(Total([j \in W |-> AsNumber(series[j][2])]),
                               18 * Cardinality(W))

\* The four ways to roll agree on sample i of series that hold the same values.
LEMMA RollsAt ==
  ASSUME NEW N \in Nat, NEW x, NEW y \in [1..N -> Value],
         NEW series, Sampled(series, x, y, N),
         NEW C, Sampled(C, x, y, N), BarsAround(C, y, N),
         NEW E, Sampled(E, x, y, N), NEW F, Eighteenths(F, x, y, N, 1),
         NEW period \in Nat, period >= 1, NEW i \in 1..N
  PROVE  RollsAgreeAt(series, C, E, F, period, i)
<1> DEFINE n == Min2(period, Len(series))
           W == RollWindow(n, i)
           ok == Valued(series, W)
           plain == RollDefault(series, period)
           custom == RollCustom(C, period)
           error == RollError(E, period)
           ratio == RollFraction(F, period)
           average == Average(y, ok)
           lower == AverageBelow(y, ok)
<1>1. Len(series) = N /\ DOMAIN series = 1..N /\ \A j \in 1..N : series[j][2] = y[j]
  BY DEF Sampled
<1>2. n = Min2(period, N) /\ W = RollWindow(n, i)
  BY <1>1
<1> HIDE DEF n, W
<1>3. /\ n \in Nat /\ n >= 1 /\ IsFiniteSet(W) /\ W \subseteq 1..i /\ W \subseteq 1..N
      /\ n = 1 => W = {i}
  <2>1. n = Min2(period, N)
    BY <1>2
  <2>2. W = RollWindow(n, i)
    BY <1>2
  <2>3. n \in Nat /\ n >= 1
    BY <2>1, <2>2, WindowOfSample
  <2>4. IsFiniteSet(W)
    BY <2>1, <2>2, WindowOfSample
  <2>5. W \subseteq 1..i
    BY <2>1, <2>2, WindowOfSample
  <2>7. W \subseteq 1..N
    BY <2>1, <2>2, WindowOfSample
  <2>6. n = 1 => W = {i}
    BY <2>1, <2>2, WindowOfSample
  <2> QED
    BY <2>3, <2>4, <2>5, <2>6, <2>7
<1>4. ok = ValuedIn(W, y)
  BY <1>1, <1>3 DEF Valued, ValuedIn
<1>5. ok \subseteq W /\ \A j \in W : j \in ok <=> ~Missing(y[j])
  BY <1>4 DEF ValuedIn
<1>6. /\ [j \in ok |-> series[j][2] - 3] = [j \in ok |-> y[j] - 3]
      /\ [j \in W |-> AsNumber(series[j][2])] = [j \in W |-> AsNumber(y[j])]
  <2> HIDE DEF ok
  <2> QED
    BY <1>1, <1>3, <1>5
<1>7. (\A j \in 1..i : series[j][2] # NaN) => ~\E j \in 1..i : y[j] = NaN
  BY <1>1
<1> HIDE DEF ok
<1>8. plain[i][2] = IF n = 1 THEN y[i] ELSE IF ok = {} THEN Null ELSE average
  BY <1>2, <1>3, <1>4, PlainAt
<1>9. n = 1 /\ ok # {} => average = y[i]
  <2> SUFFICES ASSUME n = 1, ok # {} PROVE average = y[i]
    OBVIOUS
  <2>1. W = {i} /\ ok = {i}
    BY <1>3, <1>5
  <2>2. y[i] \in Int
    BY <1>5, <2>1 DEF Value, Missing
  <2>3. [j \in ok |-> y[j]] = [j \in {i} |-> y[i]]
    BY <2>1
  <2>4. Total([j \in {i} |-> y[i]]) \div Cardinality({i}) = y[i]
    BY <2>2, AverageOfOne
  <2> QED
    BY <2>1, <2>3, <2>4 DEF Average
<1>10. /\ ok = {} => error[i][2] = IF n = 1 THEN y[i] ELSE Null
       /\ ok # {} => error[i][2] = average /\ error[i][3][2] = Cardinality(ok)
  BY <1>2, <1>3, <1>4, ErrorAt
<1>11. /\ custom[i][2] = IF ok = {} THEN Null ELSE average
       /\ ok # {} => custom[i][3][1] = lower
  <2>1. custom[i][2] = IF ok = {} THEN Null ELSE average
    BY <1>2, <1>3, <1>4, CustomAt
  <2>2. ok # {} => custom[i][3][1] = lower
    BY <1>2, <1>3, <1>4, CustomAt
  <2> QED
    BY <2>1, <2>2
<1>12. ratio[i] = <<x[i], FractionOver(y, i, W)>>
  <2>1. W = RollWindow(Min2(period, N), i)
    BY <1>2
  <2>2. RunningFraction(F, period, 1)[i] = <<x[i], FractionOver(y, i, W)>>
    BY <2>1, FractionAt
  <2> QED
    BY <2>2 DEF RollFraction
<1>13. (\A j \in 1..i : series[j][2] # NaN) =>
         ratio[i][2] = Ratio(Total([j \in W |-> AsNumber(series[j][2])]), 18 * Cardinality(W))
  <2> HIDE DEF ratio
  <2> QED
    BY <1>6, <1>7, <1>12 DEF FractionOver
<1>14. lower = Total([j \in ok |-> series[j][2] - 3]) \div Cardinality(ok)
  BY <1>6 DEF AverageBelow
<1>15. ok = {} /\ n = 1 => Missing(y[i])
  BY <1>3, <1>5
<1>16. Missing(Null)
  BY DEF Missing
<1> HIDE DEF plain, custom, error, ratio, average, lower
<1>17. ok # {} => /\ custom[i][2] = plain[i][2] /\ error[i][2] = plain[i][2]
                  /\ error[i][3][2] = Cardinality(ok) /\ custom[i][3][1] = lower
  BY <1>8, <1>9, <1>10, <1>11
<1>18. ok = {} => custom[i][2] = Null /\ Missing(plain[i][2]) /\ Missing(error[i][2])
  BY <1>8, <1>10, <1>11, <1>15, <1>16
<1> QED
  BY <1>13, <1>14, <1>17, <1>18 DEF RollsAgreeAt, n, W, ok, plain, custom, error, ratio

\* The series of the four kinds, as the averages take them.
LEMMA KindsAgree ==
  ASSUME PipelineInv
  PROVE  \E x, y : LET N == Len(rows) IN
           /\ N \in Nat /\ y \in [1..N -> Value]
           /\ Sampled(Series(rows, 1), x, y, N)
           /\ Sampled(ExtractCustom(OfKind("customBars"), FALSE), x, y, N)
           /\ BarsAround(ExtractCustom(OfKind("customBars"), FALSE), y, N)
           /\ Sampled(ExtractError(OfKind("errorBars"), FALSE, 2), x, y, N)
           /\ Eighteenths(ExtractFraction(OfKind("fractions"), FALSE), x, y, N, 1)
           /\ Eighteenths(ExtractFractionsBars(OfKind("fractions"), FALSE), x, y, N, 3)
<1> DEFINE N == Len(rows)
           u(j) == rows[j][1]
           v(j) == rows[j][2]
           x == [j \in 1..N |-> u(j)]
           y == [j \in 1..N |-> v(j)]
           r(j) == <<v(j), 18>>
           S == Series(rows, 1)
           C == ExtractCustom(OfKind("customBars"), FALSE)
           E == ExtractError(OfKind("errorBars"), FALSE, 2)
           F == ExtractFraction(OfKind("fractions"), FALSE)
           B == ExtractFractionsBars(OfKind("fractions"), FALSE)
<1>1. /\ N \in Nat /\ \A j \in 1..N : u(j) \in Int /\ v(j) \in Value
      /\ S = [j \in 1..N |-> <<u(j), v(j)>>]
      /\ C = [j \in 1..N |-> <<u(j), v(j), IF Missing(v(j)) THEN <<v(j), v(j)>>
                                           ELSE <<v(j) - 3, v(j) + 6>>>>]
      /\ E = [j \in 1..N |-> <<u(j), v(j), IF Missing(v(j)) THEN <<v(j), v(j), v(j)>>
                                           ELSE <<v(j) - 2, v(j) + 2, 1>>>>]
      /\ F = [j \in 1..N |-> <<u(j), IF Missing(v(j)) THEN v(j) ELSE r(j), <<v(j), 18>>>>]
      /\ B = [j \in 1..N |-> <<u(j), IF Missing(v(j)) THEN v(j) ELSE r(j),
                               IF Missing(v(j)) THEN <<v(j), v(j), v(j), 18>>
                               ELSE <<r(j), r(j), v(j), 18>>>>]
  BY SeriesOfKinds
<1> HIDE DEF N, u, v, S, C, E, F, B
<1>2. y \in [1..N -> Value] /\ \A j \in 1..N : x[j] = u(j) /\ y[j] = v(j)
  BY <1>1
<1> HIDE DEF x, y, r
<1>3. Sampled(S, x, y, N)
  BY <1>1, <1>2 DEF Sampled
<1>4. Sampled(C, x, y, N)
  BY <1>1, <1>2 DEF Sampled
<1>5. BarsAround(C, y, N)
  BY <1>1, <1>2 DEF BarsAround
<1>6. Sampled(E, x, y, N)
  BY <1>1, <1>2 DEF Sampled
<1>7. Eighteenths(F, x, y, N, 1)
  BY <1>1, <1>2 DEF Eighteenths
<1>8. Eighteenths(B, x, y, N, 3)
  BY <1>1, <1>2 DEF Eighteenths
<1> QED
  BY <1>1, <1>2, <1>3, <1>4, <1>5, <1>6, <1>7, <1>8 DEF N, S, C, E, F, B

\* The two handlers of fractions show the same.
LEMMA FractionsAgree ==
  ASSUME NEW N \in Nat, NEW x, NEW y \in [1..N -> Value],
         NEW F, Eighteenths(F, x, y, N, 1), NEW B, Eighteenths(B, x, y, N, 3),
         NEW period \in Nat, period >= 1
  PROVE  RollFractionsBars(B, period) = RollFraction(F, period)
<1> DEFINE f == RunningFraction(F, period, 1)
           b == RunningFraction(B, period, 3)
           shown(s, k) == LET sums == CHOOSE sums : FractionSums(s, Min2(period, Len(s)), k, sums)
                          IN  [j \in DOMAIN s |-> <<s[j][1], Ratio(sums[j][1], sums[j][2])>>]
<1>1. f = shown(F, 1) /\ b = shown(B, 3)
  BY RunningFractionIs
<1>2. DOMAIN F = 1..N /\ DOMAIN B = 1..N
  BY DEF Eighteenths
<1>3. /\ f = [j \in 1..N |-> f[j]]
      /\ b = [j \in 1..N |-> b[j]]
  BY <1>1, <1>2
<1> HIDE DEF f, b
<1>4. ASSUME NEW i \in 1..N PROVE f[i] = b[i]
  <2> DEFINE W == RollWindow(Min2(period, N), i)
             w == FractionOver(y, i, W)
  <2> HIDE DEF W
  <2>1. N \in Nat /\ period \in Nat /\ period >= 1 /\ i \in 1..N
    OBVIOUS
  <2>2. y \in [1..N -> Value]
    OBVIOUS
  <2>3. PICK k : k = 1 /\ Eighteenths(F, x, y, N, k)
    OBVIOUS
  <2>4. Eighteenths(F, x, y, N, k)
    BY <2>3
  <2>5. Eighteenths(B, x, y, N, 3)
    OBVIOUS
  <2>6. W = RollWindow(Min2(period, N), i)
    BY DEF W
  <2>7. RunningFraction(F, period, k)[i] = <<x[i], w>>
    BY ONLY <2>1, <2>2, <2>4, <2>6, FractionAt
  <2>8. RunningFraction(B, period, 3)[i] = <<x[i], w>>
    BY ONLY <2>1, <2>2, <2>5, <2>6, FractionAt
  <2> QED
    BY <2>3, <2>7, <2>8 DEF f, b
<1>5. f = b
  BY <1>3, <1>4
<1> QED
  BY <1>5 DEF f, b, RollFraction, RollFractionsBars

\* The four ways to roll agree on every file, for every period: the running sums of
\* the code, which add the sample that enters the window and take away the one that
\* leaves it, hold exactly the samples of the window.
THEOREM RollsAllAgree == PipelineSpec => []RollsAgree
<1>1. PipelineInv => RollsAgree
  <2> SUFFICES ASSUME PipelineInv PROVE RollsAgree
    OBVIOUS
  <2> DEFINE N == Len(rows)
             S == Series(rows, 1)
             C == ExtractCustom(OfKind("customBars"), FALSE)
             E == ExtractError(OfKind("errorBars"), FALSE, 2)
             F == ExtractFraction(OfKind("fractions"), FALSE)
             B == ExtractFractionsBars(OfKind("fractions"), FALSE)
  <2>1. PICK x, y :
          /\ N \in Nat /\ y \in [1..N -> Value]
          /\ Sampled(S, x, y, N) /\ Sampled(C, x, y, N) /\ BarsAround(C, y, N)
          /\ Sampled(E, x, y, N) /\ Eighteenths(F, x, y, N, 1) /\ Eighteenths(B, x, y, N, 3)
    BY KindsAgree
  <2> HIDE DEF N, S, C, E, F, B
  <2>2. DOMAIN S = 1..N
    BY <2>1 DEF Sampled
  <2>3. ASSUME NEW period \in 1..MaxLines
        PROVE  period \in Nat /\ period >= 1
    BY PipelineAssumption
  <2>4. ASSUME NEW period \in 1..MaxLines
        PROVE  RollFractionsBars(B, period) = RollFraction(F, period)
    BY <2>1, <2>3, FractionsAgree
  <2> QED
    <3> SUFFICES ASSUME NEW period \in 1..MaxLines, NEW i \in 1..N
                 PROVE  RollsAgreeAt(S, C, E, F, period, i)
      BY <2>2, <2>4, Zenon DEF RollsAgree, RollsAgreeAt, S, C, E, F, B
    <3>1. period \in Nat /\ period >= 1
      BY <2>3
    <3> QED
      BY <2>1, <3>1, RollsAt
<1> QED
  BY <1>1, PipelineInvariant, PTL

-----------------------------------------------------------------------------
(* The elements of a sequence at chosen indexes *)

\* A set of indexes is a finite set of integers.
LEMMA IndexSet ==
  ASSUME NEW n \in Nat, NEW S \in SUBSET (1..n)
  PROVE  IsFiniteSet(S) /\ S \in SUBSET Int
<1>1. IsFiniteSet(1..n) /\ S \subseteq 1..n /\ 1..n \subseteq Int
  BY FS_Interval
<1> QED
  BY <1>1, FS_Subset

\* The place of i among the indexes.
RankIn(S, i) == Cardinality({j \in S : j <= i})

\* The indexes are numbered upwards.
LEMMA RanksRise ==
  ASSUME NEW n \in Nat, NEW S \in SUBSET (1..n), NEW i \in S
  PROVE  /\ RankIn(S, i) \in 1..Cardinality(S)
         /\ \A k \in S : k < i => RankIn(S, k) < RankIn(S, i)
<1> DEFINE P(k) == {j \in S : j <= k}
<1>1. IsFiniteSet(S) /\ S \in SUBSET Int
  BY IndexSet
<1>2. \A k : IsFiniteSet(P(k)) /\ Cardinality(P(k)) \in Nat /\ Cardinality(P(k)) <= Cardinality(S)
  <2>1. \A k : P(k) \subseteq S
    OBVIOUS
  <2> HIDE DEF P
  <2> QED
    BY <1>1, <2>1, FS_Subset, FS_CardinalityType
<1>3. Cardinality(P(i)) # 0
  <2>1. i \in P(i)
    BY <1>1
  <2> HIDE DEF P
  <2> QED
    BY <1>2, <2>1, FS_EmptySet
<1>4. ASSUME NEW k \in S, k < i PROVE Cardinality(P(k)) < Cardinality(P(i))
  <2>1. P(k) \subseteq P(i) /\ i \in P(i) /\ i \notin P(k)
    <3>1. i \in Int /\ k \in Int /\ \A j \in S : j \in Int
      BY <1>1
    <3>2. \A j \in S : j <= k => j <= i
      BY <1>4, <3>1
    <3>3. i <= i /\ ~(i <= k)
      BY <1>4, <3>1
    <3> QED
      BY <3>2, <3>3
  <2> HIDE DEF P
  <2>2. P(k) # P(i)
    BY <2>1
  <2>3. Cardinality(P(k)) <= Cardinality(P(i)) /\ Cardinality(P(k)) # Cardinality(P(i))
    BY <1>2, <2>1, <2>2, FS_Subset
  <2> QED
    BY <1>2, <2>3
<1>5. Cardinality(S) \in Nat
  BY <1>1, FS_CardinalityType
<1> HIDE DEF P
<1>6. Cardinality(P(i)) \in 1..Cardinality(S)
  BY <1>2, <1>3, <1>5
<1> QED
  BY <1>4, <1>6 DEF RankIn, P

\* Every number up to that of the indexes is one's.
LEMMA RanksFill ==
  ASSUME NEW n \in Nat, NEW S \in SUBSET (1..n)
  PROVE  \A k \in 1..Cardinality(S) : \E i \in S : RankIn(S, i) = k
<1> DEFINE r == [i \in S |-> RankIn(S, i)]
           m == Cardinality(S)
<1>1. IsFiniteSet(S) /\ S \in SUBSET Int /\ m \in Nat
  BY IndexSet, FS_CardinalityType
<1>2. \A i \in S : r[i] = RankIn(S, i) /\ r[i] \in 1..m
  BY RanksRise
<1>3. \A i, k \in S : k < i => r[k] < r[i]
  <2> SUFFICES ASSUME NEW i \in S, NEW k \in S, k < i PROVE r[k] < r[i]
    OBVIOUS
  <2>1. RankIn(S, k) < RankIn(S, i)
    BY RanksRise
  <2> QED
    BY <2>1
<1>4. DOMAIN r = S /\ r = [i \in S |-> r[i]]
  OBVIOUS
<1> HIDE DEF r, m
<1>5. r \in Injection(S, 1..m)
  <2>1. r \in [S -> 1..m]
    BY <1>2, <1>4
  <2>2. \A i, k \in S : r[i] = r[k] => i = k
    <3> SUFFICES ASSUME NEW i \in S, NEW k \in S, r[i] = r[k], i # k PROVE FALSE
      OBVIOUS
    <3>1. i < k \/ k < i
      BY <1>1
    <3>2. r[i] < r[k] \/ r[k] < r[i]
      BY <1>3, <3>1
    <3> QED
      BY <1>2, <3>2
  <2> QED
    BY <2>1, <2>2 DEF Injection, IsInjective
<1>6. IsFiniteSet(1..m) /\ Cardinality(1..m) = m
  BY <1>1, FS_Interval
<1>7. r \in Surjection(S, 1..m)
  BY <1>5, <1>6, FS_Injection DEF m
<1>8. \A k \in 1..m : \E i \in S : r[i] = k
  BY <1>7 DEF Surjection
<1> QED
  BY <1>2, <1>8 DEF m

\* e runs upwards through the indexes of S.
Enumerates(e, S) ==
  LET m == Cardinality(S)
  IN  /\ m \in Nat /\ e \in [1..m -> S]
      /\ \A i \in S : \E k \in 1..m : e[k] = i
      /\ \A i \in S : e[1] <= i
      /\ \A k \in 2..m : e[k - 1] < e[k] /\ \A i \in S : i <= e[k - 1] \/ e[k] <= i

\* What is chosen from a sequence, in its order.
LEMMA ChosenAre ==
  ASSUME NEW X, NEW s \in Seq(X), NEW S \in SUBSET (1..Len(s))
  PROVE  /\ Chosen(s, S) \in Seq(X) /\ Len(Chosen(s, S)) = Cardinality(S)
         /\ ToSet(Chosen(s, S)) = {s[i] : i \in S}
         /\ \E e : /\ Enumerates(e, S)
                   /\ \A k \in 1..Cardinality(S) : Chosen(s, S)[k] = s[e[k]]
<1> DEFINE m == Cardinality(S)
           c(k) == CHOOSE i \in S : RankIn(S, i) = k
           e == [k \in 1..m |-> c(k)]
           t == Chosen(s, S)
<1>1. Len(s) \in Nat /\ DOMAIN s = 1..Len(s) /\ \A i \in 1..Len(s) : s[i] \in X
  BY LenProperties, ElementOfSeq
<1>2. IsFiniteSet(S) /\ S \in SUBSET Int /\ m \in Nat
  BY <1>1, IndexSet, FS_CardinalityType
<1>3. t = [k \in 1..m |-> s[c(k)]]
  BY DEF Chosen, RankIn
<1>4. \A k \in 1..m : c(k) \in S /\ RankIn(S, c(k)) = k
  <2> SUFFICES ASSUME NEW k \in 1..m PROVE c(k) \in S /\ RankIn(S, c(k)) = k
    BY Zenon
  <2>1. \E i \in S : RankIn(S, i) = k
    BY <1>1, RanksFill
  <2> QED
    BY <2>1, Zenon
<1> HIDE DEF c
<1>5. e \in [1..m -> S] /\ \A k \in 1..m : e[k] = c(k)
  BY <1>4
<1>6. \A i \in S : RankIn(S, i) \in 1..m /\ \A k \in S : k < i => RankIn(S, k) < RankIn(S, i)
  BY <1>1, RanksRise
<1>7. \A k \in 1..m : e[k] \in S /\ RankIn(S, e[k]) = k
  BY <1>4, <1>5
<1>8. \A k \in 1..m : t[k] = s[e[k]]
  BY <1>3, <1>5
<1>9. DOMAIN t = 1..m
  BY <1>3
<1>10. t \in Seq(X) /\ Len(t) = m
  <2>1. \A k \in 1..m : t[k] \in X
    BY <1>1, <1>7, <1>8
  <2>2. t = [k \in 1..m |-> t[k]]
    BY <1>3
  <2> HIDE DEF t, m
  <2> QED
    BY <1>2, <2>1, <2>2
<1> HIDE DEF e, t, m
<1>11. \A i, k \in S : RankIn(S, i) = RankIn(S, k) => i = k
  <2> SUFFICES ASSUME NEW i \in S, NEW k \in S, RankIn(S, i) = RankIn(S, k), i # k PROVE FALSE
    OBVIOUS
  <2>1. i < k \/ k < i
    BY <1>2
  <2>2. RankIn(S, i) \in Int
    BY <1>2, <1>6
  <2> QED
    BY <1>6, <2>1, <2>2
<1>12. ASSUME NEW i \in S PROVE \E k \in 1..m : e[k] = i
  <2>1. RankIn(S, i) \in 1..m
    BY <1>6
  <2>2. e[RankIn(S, i)] \in S /\ RankIn(S, e[RankIn(S, i)]) = RankIn(S, i)
    BY <1>7, <2>1
  <2> QED
    BY <1>11, <2>1, <2>2
<1>13. ASSUME NEW k \in 2..m
       PROVE  e[k - 1] < e[k] /\ \A i \in S : i <= e[k - 1] \/ e[k] <= i
  <2>1. k \in 1..m /\ k - 1 \in 1..m /\ k \in Int
    BY <1>2
  <2>2. e[k] \in S /\ RankIn(S, e[k]) = k /\ e[k - 1] \in S /\ RankIn(S, e[k - 1]) = k - 1
    BY <1>7, <2>1
  <2>3. PICK a \in S, b \in S : a = e[k - 1] /\ b = e[k]
    BY <2>2
  <2>4. a \in Int /\ b \in Int /\ \A i \in S : i \in Int /\ RankIn(S, i) \in Int
    BY <1>2, <1>6
  <2>5. RankIn(S, a) = k - 1 /\ RankIn(S, b) = k
    BY <2>2, <2>3
  <2>6. a < b
    <3>1. a # b /\ ~(b < a)
      BY <1>6, <2>1, <2>5
    <3> QED
      BY <2>4, <3>1
  <2>7. ASSUME NEW i \in S PROVE i <= a \/ b <= i
    <3>1. ~(a < i /\ i < b)
      BY <1>6, <2>1, <2>4, <2>5
    <3> QED
      BY <2>4, <3>1
  <2> QED
    BY <2>3, <2>6, <2>7
<1>14. Enumerates(e, S)
  <2>2. ASSUME NEW i \in S PROVE e[1] <= i
    <3>1. RankIn(S, i) \in 1..m
      BY <1>6
    <3>2. 1 \in 1..m
      BY <1>2, <3>1
    <3>3. e[1] \in S /\ RankIn(S, e[1]) = 1
      BY <1>7, <3>2
    <3>4. PICK a \in S : a = e[1]
      BY <3>3
    <3>5. a \in Int /\ i \in Int /\ RankIn(S, i) \in Int /\ RankIn(S, i) >= 1
      BY <1>2, <3>1
    <3>6. ~(i < a)
      BY <1>6, <3>3, <3>4, <3>5
    <3> QED
      BY <3>4, <3>5, <3>6
  <2>1. /\ m \in Nat /\ e \in [1..m -> S]
        /\ \A i \in S : \E k \in 1..m : e[k] = i
        /\ \A i \in S : e[1] <= i
        /\ \A k \in 2..m : e[k - 1] < e[k] /\ \A i \in S : i <= e[k - 1] \/ e[k] <= i
    BY <1>2, <1>5, <1>12, <1>13, <2>2
  <2> QED
    BY <2>1, Zenon DEF Enumerates, m
<1>15. ToSet(t) = {s[i] : i \in S}
  <2>1. ToSet(t) = {t[k] : k \in 1..m}
    BY <1>9 DEF ToSet
  <2>2. ASSUME NEW v PROVE (\E k \in 1..m : v = t[k]) <=> \E i \in S : v = s[i]
    <3>1. ASSUME NEW k \in 1..m, v = t[k] PROVE \E i \in S : v = s[i]
      <4>1. e[k] \in S /\ v = s[e[k]]
        BY <1>7, <1>8, <3>1
      <4> QED
        BY <4>1
    <3>2. ASSUME NEW i \in S, v = s[i] PROVE \E k \in 1..m : v = t[k]
      <4>1. PICK k \in 1..m : e[k] = i
        BY <1>12
      <4>2. v = t[k]
        BY <1>8, <3>2, <4>1
      <4> QED
        BY <4>2
    <3> QED
      BY <3>1, <3>2
  <2> QED
    BY <2>1, <2>2
<1> QED
  BY <1>8, <1>10, <1>14, <1>15, Zenon DEF t, m

-----------------------------------------------------------------------------
(* What the compression of a path leaves *)

\* The lines among the actions of a path.
LinesOf(s) == {i \in 1..Len(s) : s[i][1] = "L"}

\* j is the last of the indexes S in front of i.
LastBefore(S, j, i) == j \in S /\ j < i /\ \A l \in S : l <= j \/ i <= l

\* A part of a path that has all of its lines, each behind an action with the place of
\* the one it was behind, has the same segments.
LEMMA SegmentsKept ==
  ASSUME NEW X, NEW s \in Seq(X), NEW S \in SUBSET (1..Len(s)), LinesOf(s) \subseteq S,
         \A i \in LinesOf(s), j \in S : LastBefore(S, j, i) => Tail(s[j]) = Tail(s[i - 1]),
         \A i \in LinesOf(s) : i >= 2 => \E j \in S : j < i
  PROVE  Segments(Chosen(s, S)) = Segments(s)
<1> DEFINE m == Cardinality(S)
           t == Chosen(s, S)
           n == Len(s)
           seg(p, i) == <<Tail(p[i - 1]), Tail(p[i])>>
<1>1. n \in Nat
  BY LenProperties
<1>2. PICK e : Enumerates(e, S) /\ \A k \in 1..m : t[k] = s[e[k]]
  BY ChosenAre
<1>3. Len(t) = m
  BY ChosenAre
<1>4. /\ m \in Nat /\ \A k \in 1..m : e[k] \in S
      /\ \A i \in S : \E k \in 1..m : e[k] = i
      /\ \A i \in S : e[1] <= i
      /\ \A k \in 2..m : e[k - 1] < e[k] /\ \A i \in S : i <= e[k - 1] \/ e[k] <= i
  BY <1>2, Zenon DEF Enumerates
<1>5. \A i \in S : i \in 1..n
  OBVIOUS
<1> HIDE DEF t, m, n
<1>6. ASSUME NEW k \in 2..m, t[k][1] = "L"
      PROVE  e[k] \in 2..n /\ s[e[k]][1] = "L" /\ seg(t, k) = seg(s, e[k])
  <2>1. k \in 1..m /\ k - 1 \in 1..m
    BY <1>4
  <2>2. PICK a \in S, b \in S : a = e[k - 1] /\ b = e[k]
    BY <1>4, <2>1
  <2>3. t[k] = s[b] /\ t[k - 1] = s[a]
    BY <1>2, <2>1, <2>2
  <2>4. a < b /\ \A l \in S : l <= a \/ b <= l
    BY <1>4, <2>2
  <2>5. b \in 2..n /\ s[b][1] = "L"
    BY <1>1, <1>5, <1>6, <2>3, <2>4
  <2>6. b \in LinesOf(s) /\ LastBefore(S, a, b)
    BY <1>1, <2>4, <2>5 DEF LinesOf, LastBefore, n
  <2>7. Tail(s[a]) = Tail(s[b - 1])
    BY <2>6
  <2> QED
    BY <2>2, <2>3, <2>5, <2>7
<1>7. ASSUME NEW i \in 2..n, s[i][1] = "L"
      PROVE  \E k \in 2..m : t[k][1] = "L" /\ seg(t, k) = seg(s, i)
  <2>1. i \in S /\ i \in Int /\ \E j \in S : j < i
    <3>1. i \in LinesOf(s) /\ i >= 2
      BY <1>1, <1>7 DEF LinesOf, n
    <3> QED
      BY <3>1
  <2>2. PICK k \in 1..m : e[k] = i
    BY <1>4, <2>1
  <2>3. k # 1
    <3> SUFFICES ASSUME k = 1 PROVE FALSE
      OBVIOUS
    <3>1. PICK j \in S : j < i
      BY <2>1
    <3>2. i <= j /\ j \in Int
      BY <1>1, <1>4, <1>5, <2>2
    <3> QED
      BY <2>1, <3>1, <3>2
  <2>4. k \in 2..m /\ t[k] = s[i]
    BY <1>2, <1>4, <2>2, <2>3
  <2>5. seg(t, k) = seg(s, e[k])
    <3> HIDE DEF seg
    <3> QED
      BY <1>6, <1>7, <2>4
  <2> QED
    BY <1>7, <2>2, <2>4, <2>5
<1>8. /\ Segments(t) = {seg(t, k) : k \in {j \in 2..m : t[j][1] = "L"}}
      /\ Segments(s) = {seg(s, i) : i \in {j \in 2..n : s[j][1] = "L"}}
  BY <1>3 DEF Segments, n
<1> HIDE DEF seg
<1>9. Segments(t) \subseteq Segments(s)
  BY <1>6, <1>8
<1>10. Segments(s) \subseteq Segments(t)
  <2> SUFFICES ASSUME NEW i \in 2..n, s[i][1] = "L" PROVE seg(s, i) \in Segments(t)
    BY <1>8
  <2>1. PICK k \in 2..m : t[k][1] = "L" /\ seg(t, k) = seg(s, i)
    BY <1>7
  <2> QED
    BY <1>8, <2>1
<1> QED
  BY <1>9, <1>10 DEF t

\* What is left of a path: its lines and some of its moves.
Thins(t, s, X) ==
  /\ t \in Seq(X) /\ ToSet(t) \subseteq ToSet(s)
  /\ \A a \in ToSet(s) : a[1] = "L" => a \in ToSet(t)
  /\ Segments(t) = Segments(s)

LEMMA ChosenThins ==
  ASSUME NEW X, NEW s \in Seq(X), NEW S \in SUBSET (1..Len(s)), LinesOf(s) \subseteq S,
         Segments(Chosen(s, S)) = Segments(s)
  PROVE  Thins(Chosen(s, S), s, X)
<1> DEFINE t == Chosen(s, S)
<1>1. DOMAIN s = 1..Len(s)
  BY LenProperties
<1>2. t \in Seq(X) /\ ToSet(t) = {s[i] : i \in S}
  BY ChosenAre
<1>3. ToSet(s) = {s[i] : i \in 1..Len(s)}
  BY <1>1 DEF ToSet
<1>4. ToSet(t) \subseteq ToSet(s)
  BY <1>2, <1>3
<1>5. \A a \in ToSet(s) : a[1] = "L" => a \in ToSet(t)
  BY <1>2, <1>3 DEF LinesOf
<1> QED
  BY <1>2, <1>4, <1>5, Zenon DEF Thins

\* Moves to the place where the path is do not matter.
LEMMA WithoutMovesThins ==
  ASSUME NEW X, NEW s \in Seq(X)
  PROVE  Thins(WithoutMoves(s), s, X)
<1> DEFINE n == Len(s)
           idle(i) == i > 1 /\ s[i][1] = "M" /\ Tail(s[i]) = Tail(s[i - 1])
           S == {i \in 1..n : ~idle(i)}
<1>1. n \in Nat /\ DOMAIN s = 1..n
  BY LenProperties
<1>2. WithoutMoves(s) = Chosen(s, S)
  BY <1>1 DEF WithoutMoves
<1>3. LinesOf(s) \subseteq S
  BY DEF LinesOf
<1>4. ASSUME NEW i \in LinesOf(s), i >= 2 PROVE \E j \in S : j < i
  <2>1. 1 \in S /\ 1 < i
    BY <1>1, <1>4 DEF LinesOf
  <2> QED
    BY <2>1
<1>5. ASSUME NEW i \in LinesOf(s), NEW j \in S, LastBefore(S, j, i)
      PROVE  Tail(s[j]) = Tail(s[i - 1])
  <2>1. i \in 1..n /\ j \in 1..n /\ j < i /\ \A l \in S : l <= j \/ i <= l
    BY <1>5 DEF LinesOf, LastBefore
  <2> DEFINE G == {d \in Nat : j + d < i => Tail(s[j + d]) = Tail(s[j])}
  <2>2. 0 \in G
    BY <2>1
  <2>3. ASSUME NEW d \in Nat, d \in G PROVE d + 1 \in G
    <3> SUFFICES ASSUME j + (d + 1) < i PROVE Tail(s[j + (d + 1)]) = Tail(s[j])
      OBVIOUS
    <3>1. PICK l \in 1..n : l = j + (d + 1)
      BY <1>1, <2>1
    <3>2. l - 1 = j + d /\ j + d < i /\ ~(l <= j) /\ ~(i <= l)
      BY <1>1, <2>1, <3>1
    <3>5. l \notin S
      <4> HIDE DEF S
      <4> QED
        BY <2>1, <3>2
    <3>3. Tail(s[l]) = Tail(s[l - 1])
      BY <3>5
    <3>4. Tail(s[j + d]) = Tail(s[j])
      BY <2>3, <3>2
    <3> QED
      BY <3>1, <3>2, <3>3, <3>4
  <2>4. PICK d \in Nat : d = (i - 1) - j
    BY <1>1, <2>1
  <2>5. d \in G
    <3> HIDE DEF G
    <3> QED
      BY <2>2, <2>3, SetInduction
  <2>6. j + d < i /\ j + d = i - 1
    BY <1>1, <2>1, <2>4
  <2> QED
    BY <2>5, <2>6
<1>6. S \in SUBSET (1..n)
  OBVIOUS
<1> HIDE DEF S
<1>7. Segments(Chosen(s, S)) = Segments(s)
  BY <1>3, <1>4, <1>5, <1>6, SegmentsKept
<1>8. Thins(Chosen(s, S), s, X)
  BY <1>3, <1>6, <1>7, ChosenThins
<1> QED
  BY <1>2, <1>8

\* No two moves in a row.
Apart(t) == \A k \in 2..Len(t) : ~(t[k - 1][1] = "M" /\ t[k][1] = "M")

\* A part without a move in front of a move, which has everything else, has no two
\* moves in a row.
LEMMA ChosenApart ==
  ASSUME NEW X, NEW s \in Seq(X), NEW S \in SUBSET (1..Len(s)),
         \A i \in S : i < Len(s) /\ s[i][1] = "M" => s[i + 1][1] # "M",
         \A i \in 1..Len(s) : s[i][1] # "M" => i \in S
  PROVE  Apart(Chosen(s, S))
<1> DEFINE t == Chosen(s, S)
           m == Cardinality(S)
           n == Len(s)
<1>1. n \in Nat
  BY LenProperties
<1>2. PICK e : Enumerates(e, S) /\ \A k \in 1..m : t[k] = s[e[k]]
  BY ChosenAre
<1>3. Len(t) = m
  BY ChosenAre
<1>4. /\ m \in Nat /\ \A k \in 1..m : e[k] \in S
      /\ \A k \in 2..m : e[k - 1] < e[k] /\ \A i \in S : i <= e[k - 1] \/ e[k] <= i
  BY <1>2, Zenon DEF Enumerates
<1>5. \A i \in S : i \in 1..n
  OBVIOUS
<1> HIDE DEF t, m, n
<1> SUFFICES ASSUME NEW k \in 2..m, t[k - 1][1] = "M", t[k][1] = "M" PROVE FALSE
  BY <1>3 DEF Apart, t
<1>6. k \in 1..m /\ k - 1 \in 1..m
  BY <1>4
<1>7. PICK a \in S, b \in S : a = e[k - 1] /\ b = e[k]
  BY <1>4, <1>6
<1>8. s[a][1] = "M" /\ s[b][1] = "M"
  BY <1>2, <1>6, <1>7
<1>9. a < b /\ \A i \in S : i <= a \/ b <= i
  BY <1>4, <1>7
<1>10. a \in 1..n /\ b \in 1..n /\ a < n
  BY <1>1, <1>5, <1>9
<1>11. a + 1 \in 1..n /\ s[a + 1][1] # "M"
  BY <1>1, <1>8, <1>10 DEF n
<1>12. a + 1 \in S
  BY <1>11 DEF n
<1>13. a + 1 = b
  BY <1>1, <1>9, <1>10, <1>12
<1> QED
  BY <1>8, <1>11, <1>13

\* Of moves in a row the last is enough.
LEMMA LastMovesThins ==
  ASSUME NEW X, NEW s \in Seq(X)
  PROVE  Thins(LastMoves(s), s, X) /\ Apart(LastMoves(s))
<1> DEFINE n == Len(s)
           before(i) == i < n /\ s[i][1] = "M" /\ s[i + 1][1] = "M"
           S == {i \in 1..n : ~before(i)}
<1>1. n \in Nat /\ DOMAIN s = 1..n
  BY LenProperties
<1>2. LastMoves(s) = Chosen(s, S)
  BY <1>1 DEF LastMoves
<1>3. LinesOf(s) \subseteq S
  BY DEF LinesOf
<1>4. ASSUME NEW i \in 2..n, s[i][1] # "M" PROVE i - 1 \in S
  BY <1>1, <1>4
<1>5. S \in SUBSET (1..n)
  OBVIOUS
<1>6. ASSUME NEW i \in LinesOf(s), i >= 2 PROVE \E j \in S : j < i
  <2>1. i \in 2..n /\ s[i][1] # "M" /\ i - 1 < i
    BY <1>1, <1>6 DEF LinesOf
  <2>2. i - 1 \in S
    BY <1>4, <2>1
  <2> QED
    BY <2>1, <2>2
<1>7. ASSUME NEW i \in LinesOf(s), NEW j \in S, LastBefore(S, j, i)
      PROVE  Tail(s[j]) = Tail(s[i - 1])
  <2>1. i \in 1..n /\ j \in 1..n /\ j < i /\ (\A l \in S : l <= j \/ i <= l) /\ s[i][1] # "M"
    BY <1>7 DEF LinesOf, LastBefore
  <2>2. i \in 2..n
    BY <1>1, <2>1
  <2>3. i - 1 \in S
    BY <1>4, <2>1, <2>2
  <2>4. i - 1 <= j
    BY <1>1, <2>1, <2>2, <2>3
  <2>5. i - 1 = j
    BY <1>1, <2>1, <2>4
  <2> QED
    BY <2>5
<1>8. Apart(Chosen(s, S))
  <2>1. \A i \in S : i < n /\ s[i][1] = "M" => s[i + 1][1] # "M"
    BY DEF S
  <2>2. \A i \in 1..n : s[i][1] # "M" => i \in S
    BY DEF S
  <2> QED
    BY <1>5, <2>1, <2>2, ChosenApart
<1> HIDE DEF S
<1>9. Segments(Chosen(s, S)) = Segments(s)
  BY <1>3, <1>5, <1>6, <1>7, SegmentsKept
<1>10. Thins(Chosen(s, S), s, X)
  BY <1>3, <1>5, <1>9, ChosenThins
<1> QED
  BY <1>2, <1>8, <1>10

\* compressActions that is to lose nothing.
LEMMA LosslessThins ==
  ASSUME NEW X, NEW s \in Seq(X)
  PROVE  Thins(CompressActions(s, TRUE), s, X)
<1>1. CASE Len(s) <= 1
  <2>1. CompressActions(s, TRUE) = s
    BY <1>1 DEF CompressActions
  <2> QED
    BY <2>1, Zenon DEF Thins
<1>2. CASE ~(Len(s) <= 1)
  <2> DEFINE w == WithoutMoves(s)
             t == LastMoves(w)
  <2>1. CompressActions(s, TRUE) = t
    BY <1>2 DEF CompressActions
  <2>2. Thins(w, s, X)
    BY WithoutMovesThins
  <2>3. w \in Seq(X)
    BY <2>2, Zenon DEF Thins
  <2> HIDE DEF w
  <2>4. Thins(t, w, X)
    BY <2>3, LastMovesThins
  <2> HIDE DEF t
  <2>5. Thins(t, s, X)
    BY <2>2, <2>4 DEF Thins
  <2> QED
    BY <2>1, <2>5
<1> QED
  BY <1>1, <1>2

-----------------------------------------------------------------------------
(* How far a path reaches in a column of pixels *)

\* What a path is made of.
Action == {"M", "L"} \X Int \X Int

IsLine(a) == a[1] = "L"
SameColumn(a, b) == Column(a[2]) = Column(b[2])

\* The actions V are some of U, and every line of U ends in a column between two of V.
Reaches(V, U) ==
  /\ V \subseteq U
  /\ \A a \in U : IsLine(a) =>
       /\ \E b \in V : IsLine(b) /\ SameColumn(b, a) /\ b[3] <= a[3]
       /\ \E b \in V : IsLine(b) /\ SameColumn(b, a) /\ a[3] <= b[3]

LEMMA ReachesUnion ==
  ASSUME NEW U, NEW V, NEW P, NEW Q, Reaches(V, U), Reaches(Q, P)
  PROVE  Reaches(V \cup Q, U \cup P)
<1> DEFINE low(W, a) == \E b \in W : IsLine(b) /\ SameColumn(b, a) /\ b[3] <= a[3]
           high(W, a) == \E b \in W : IsLine(b) /\ SameColumn(b, a) /\ a[3] <= b[3]
<1>1. /\ V \subseteq U /\ \A a \in U : IsLine(a) => low(V, a) /\ high(V, a)
      /\ Q \subseteq P /\ \A a \in P : IsLine(a) => low(Q, a) /\ high(Q, a)
  BY Zenon DEF Reaches
<1>2. \A W, Z, a : /\ low(W, a) => low(W \cup Z, a) /\ low(Z \cup W, a)
                   /\ high(W, a) => high(W \cup Z, a) /\ high(Z \cup W, a)
  BY Zenon
<1> HIDE DEF low, high
<1>3. V \cup Q \subseteq U \cup P /\ \A a \in U \cup P : IsLine(a) => low(V \cup Q, a) /\ high(V \cup Q, a)
  BY <1>1, <1>2
<1> QED
  BY <1>3, Zenon DEF Reaches, low, high

LEMMA ReachesTransitive ==
  ASSUME NEW U \in SUBSET Action, NEW V, NEW W, Reaches(V, U), Reaches(W, V)
  PROVE  Reaches(W, U)
<1>1. W \subseteq V /\ V \subseteq U
  BY Zenon DEF Reaches
<1>2. \A a \in U : a[3] \in Int
  BY DEF Action
<1> SUFFICES ASSUME NEW a \in U, IsLine(a)
             PROVE  /\ \E b \in W : IsLine(b) /\ SameColumn(b, a) /\ b[3] <= a[3]
                    /\ \E b \in W : IsLine(b) /\ SameColumn(b, a) /\ a[3] <= b[3]
  BY <1>1, Zenon DEF Reaches
<1>3. \E b \in W : IsLine(b) /\ SameColumn(b, a) /\ b[3] <= a[3]
  <2>1. PICK b \in V : IsLine(b) /\ SameColumn(b, a) /\ b[3] <= a[3]
    BY Zenon DEF Reaches
  <2>2. PICK c \in W : IsLine(c) /\ SameColumn(c, b) /\ c[3] <= b[3]
    BY <2>1, Zenon DEF Reaches
  <2>3. a[3] \in Int /\ b[3] \in Int /\ c[3] \in Int
    BY <1>1, <1>2
  <2>4. c[3] <= a[3]
    BY <2>1, <2>2, <2>3
  <2>5. SameColumn(c, a)
    BY <2>1, <2>2 DEF SameColumn
  <2> QED
    BY <2>2, <2>4, <2>5
<1>4. \E b \in W : IsLine(b) /\ SameColumn(b, a) /\ a[3] <= b[3]
  <2>1. PICK b \in V : IsLine(b) /\ SameColumn(b, a) /\ a[3] <= b[3]
    BY Zenon DEF Reaches
  <2>2. PICK c \in W : IsLine(c) /\ SameColumn(c, b) /\ b[3] <= c[3]
    BY <2>1, Zenon DEF Reaches
  <2>3. a[3] \in Int /\ b[3] \in Int /\ c[3] \in Int
    BY <1>1, <1>2
  <2>4. a[3] <= c[3]
    BY <2>1, <2>2, <2>3
  <2>5. SameColumn(c, a)
    BY <2>1, <2>2 DEF SameColumn
  <2> QED
    BY <2>2, <2>4, <2>5
<1> QED
  BY <1>3, <1>4

LEMMA ThinsReaches ==
  ASSUME NEW s \in Seq(Action), NEW t, Thins(t, s, Action)
  PROVE  Reaches(ToSet(t), ToSet(s))
<1>1. ToSet(t) \subseteq ToSet(s) /\ \A a \in ToSet(s) : IsLine(a) => a \in ToSet(t)
  BY Zenon DEF Thins, IsLine
<1>2. \A a \in ToSet(s) : a[3] \in Int
  BY DEF ToSet, Action
<1>3. \A a \in ToSet(s) : a[3] <= a[3] /\ SameColumn(a, a)
  BY <1>2 DEF SameColumn
<1> QED
  BY <1>1, <1>3, Zenon DEF Reaches

\* The heights at which lines of a path end in column c.
Heights(s, c) == {a[3] : a \in {b \in ToSet(s) : b[1] = "L" /\ Column(b[2]) = c}}

LEMMA HeightsFinite ==
  ASSUME NEW s \in Seq(Action), NEW c
  PROVE  Heights(s, c) \in SUBSET Int /\ IsFiniteSet(Heights(s, c))
<1> DEFINE n == Len(s)
           I == {i \in 1..n : s[i][1] = "L" /\ Column(s[i][2]) = c}
           f == [i \in I |-> s[i][3]]
           H == Heights(s, c)
<1>1. n \in Nat /\ DOMAIN s = 1..n
  BY LenProperties
<1>2. \A i \in 1..n : s[i][3] \in Int
  BY <1>1 DEF Action
<1>3. H = {s[i][3] : i \in I}
  BY <1>1 DEF Heights, ToSet
<1>4. IsFiniteSet(I)
  <2>1. IsFiniteSet(1..n)
    BY <1>1, FS_Interval
  <2> QED
    BY <2>1, FS_Subset
<1>5. f \in Surjection(I, H)
  <2>1. \A i \in I : f[i] = s[i][3] /\ f[i] \in H
    BY <1>3
  <2>2. \A h \in H : \E i \in I : f[i] = h
    BY <1>3
  <2>3. f \in [I -> H]
    BY <2>1
  <2> HIDE DEF f, I, H
  <2> QED
    BY <2>2, <2>3 DEF Surjection
<1>6. IsFiniteSet(H)
  <2> HIDE DEF f, I, H
  <2> QED
    BY <1>4, <1>5, FS_Surjection
<1> QED
  BY <1>2, <1>3, <1>6

\* Paths of which one reaches as far as the other have the same extents.
LEMMA ExtentKept ==
  ASSUME NEW s \in Seq(Action), NEW t \in Seq(Action), Reaches(ToSet(t), ToSet(s)), NEW c
  PROVE  ColumnExtent(t, c) = ColumnExtent(s, c)
<1> DEFINE A == Heights(s, c)
           B == Heights(t, c)
<1>1. /\ A \in SUBSET Int /\ IsFiniteSet(A)
      /\ B \in SUBSET Int /\ IsFiniteSet(B)
  BY HeightsFinite
<1>2. B \subseteq A
  BY DEF Heights, Reaches
<1>3. ASSUME NEW h \in A PROVE (\E l \in B : l <= h) /\ (\E l \in B : h <= l)
  <2>1. PICK a \in ToSet(s) : a[1] = "L" /\ Column(a[2]) = c /\ a[3] = h
    BY DEF Heights
  <2>2. PICK b \in ToSet(t) : IsLine(b) /\ SameColumn(b, a) /\ b[3] <= a[3]
    BY <2>1, Zenon DEF Reaches, IsLine
  <2>3. PICK d \in ToSet(t) : IsLine(d) /\ SameColumn(d, a) /\ a[3] <= d[3]
    BY <2>1, Zenon DEF Reaches, IsLine
  <2>4. b[3] \in B /\ d[3] \in B
    BY <2>1, <2>2, <2>3 DEF Heights, IsLine, SameColumn
  <2> QED
    BY <2>1, <2>2, <2>3, <2>4
<1>4. ColumnExtent(s, c) = IF A = {} THEN << >> ELSE <<Min(A), Max(A)>>
  BY DEF ColumnExtent, Heights
<1>5. ColumnExtent(t, c) = IF B = {} THEN << >> ELSE <<Min(B), Max(B)>>
  BY DEF ColumnExtent, Heights
<1> HIDE DEF A, B
<1>6. CASE A = {}
  BY <1>2, <1>4, <1>5, <1>6
<1>7. CASE A # {}
  <2>1. B # {}
    BY <1>3, <1>7
  <2>2. /\ Min(A) \in A /\ \A y \in A : Min(A) <= y
        /\ Max(A) \in A /\ \A y \in A : y <= Max(A)
    BY <1>1, <1>7, MinMax
  <2>3. /\ Min(B) \in B /\ \A y \in B : Min(B) <= y
        /\ Max(B) \in B /\ \A y \in B : y <= Max(B)
    BY <1>1, <2>1, MinMax
  <2>4. Min(A) \in Int /\ Max(A) \in Int /\ Min(B) \in Int /\ Max(B) \in Int
    BY <1>1, <2>2, <2>3
  <2>5. Min(A) <= Min(B) /\ Max(B) <= Max(A)
    BY <1>2, <2>2, <2>3
  <2>6. PICK l \in B : l <= Min(A)
    BY <1>3, <2>2
  <2>7. PICK h \in B : Max(A) <= h
    BY <1>3, <2>2
  <2>8. l \in Int /\ h \in Int /\ Min(B) <= l /\ h <= Max(B)
    BY <1>1, <2>3
  <2>9. Min(A) = Min(B) /\ Max(A) = Max(B)
    BY <2>4, <2>5, <2>6, <2>7, <2>8
  <2> QED
    BY <1>4, <1>5, <1>7, <2>1, <2>9
<1> QED
  BY <1>6, <1>7

\* Of a column the first action and its lowest and highest line are enough.
LEMMA ExtremalsReach ==
  ASSUME NEW s \in Seq(Action), NEW c, \A a \in ToSet(s) : Column(a[2]) = c,
         NEW i0 \in 1..Len(s), IsLine(s[i0]),
         NEW K, K = {i \in DOMAIN s : s[i][1] = "L"}
  PROVE  Extremals(s, K) \in Seq(Action) /\ Reaches(ToSet(Extremals(s, K)), ToSet(s))
<1> DEFINE n == Len(s)
           L == {i \in K : \A j \in K : s[i][3] <= s[j][3]}
           H == {i \in K : \A j \in K : s[i][3] >= s[j][3]}
           S == {i \in DOMAIN s : i = 1 /\ i \notin K} \cup {Min(L), Min(H)}
           t == Chosen(s, S)
<1>1. n \in Nat /\ n \in Int /\ DOMAIN s = 1..n
  BY LenProperties
<1>2. K \in SUBSET (1..n) /\ i0 \in K
  BY <1>1 DEF IsLine
<1>3. \A i \in 1..n : s[i] \in Action /\ s[i][3] \in Int
  BY <1>1 DEF Action
<1>4. /\ Heights(s, c) = {s[i][3] : i \in K}
      /\ Heights(s, c) \in SUBSET Int /\ IsFiniteSet(Heights(s, c))
  <2>1. Heights(s, c) = {s[i][3] : i \in K}
    BY <1>1 DEF Heights, ToSet
  <2> QED
    BY <2>1, HeightsFinite
<1> DEFINE Y == Heights(s, c)
<1> HIDE DEF Y
<1>5. /\ Min(Y) \in Y /\ \A y \in Y : Min(Y) <= y
      /\ Max(Y) \in Y /\ \A y \in Y : y <= Max(Y)
  <2>1. Y # {} /\ Y \in SUBSET Int /\ IsFiniteSet(Y)
    BY <1>2, <1>4 DEF Y
  <2> QED
    BY <2>1, MinMax
<1>6. L \in SUBSET (1..n) /\ L # {} /\ H \in SUBSET (1..n) /\ H # {}
  <2>1. PICK i \in K : s[i][3] = Min(Y)
    BY <1>4, <1>5 DEF Y
  <2>2. PICK j \in K : s[j][3] = Max(Y)
    BY <1>4, <1>5 DEF Y
  <2>3. \A k \in K : s[k][3] \in Y /\ s[k][3] \in Int
    BY <1>2, <1>3, <1>4 DEF Y
  <2>4. i \in L
    BY <1>5, <2>1, <2>3
  <2>5. j \in H
    BY <1>5, <2>2, <2>3
  <2> QED
    BY <1>2, <2>4, <2>5
<1>7. Min(L) \in L /\ Min(H) \in H
  <2> HIDE DEF L, H
  <2> QED
    BY <1>1, <1>6, IndexMinMax
<1>8. S \in SUBSET (1..n)
  BY <1>1, <1>6, <1>7
<1>9. Extremals(s, K) = t
  BY DEF Extremals
<1>10. PICK l \in K, h \in K : l \in S /\ h \in S /\ \A j \in K : s[l][3] <= s[j][3] /\ s[j][3] <= s[h][3]
  <2>1. PICK l \in K : l = Min(L)
    BY <1>7
  <2>2. PICK h \in K : h = Min(H)
    BY <1>7
  <2>3. \A j \in K : s[l][3] <= s[j][3]
    BY <1>7, <2>1
  <2>4. \A j \in K : s[h][3] >= s[j][3]
    BY <1>7, <2>2
  <2>5. \A j \in K : s[j][3] \in Int
    BY <1>2, <1>3
  <2>6. l \in S /\ h \in S
    BY <2>1, <2>2
  <2> QED
    BY <2>3, <2>4, <2>5, <2>6
<1> HIDE DEF S, L, H
<1>11. t \in Seq(Action) /\ ToSet(t) = {s[i] : i \in S}
  BY <1>8, ChosenAre
<1>12. ToSet(s) = {s[i] : i \in 1..n}
  BY <1>1 DEF ToSet
<1> HIDE DEF t, n
<1>13. ToSet(t) \subseteq ToSet(s)
  BY <1>8, <1>11, <1>12
<1>14. s[l] \in ToSet(t) /\ s[h] \in ToSet(t) /\ IsLine(s[l]) /\ IsLine(s[h])
  BY <1>10, <1>11 DEF IsLine
<1>15. ASSUME NEW a \in ToSet(s), IsLine(a)
       PROVE  /\ IsLine(s[l]) /\ SameColumn(s[l], a) /\ s[l][3] <= a[3]
              /\ IsLine(s[h]) /\ SameColumn(s[h], a) /\ a[3] <= s[h][3]
  <2>1. PICK j \in 1..n : s[j] = a
    BY <1>12
  <2>2. j \in K
    BY <1>1, <1>15, <2>1 DEF IsLine
  <2>3. s[l] \in ToSet(s) /\ s[h] \in ToSet(s)
    BY <1>13, <1>14
  <2>4. SameColumn(s[l], a) /\ SameColumn(s[h], a)
    BY <2>3 DEF SameColumn
  <2> QED
    BY <1>10, <1>14, <2>1, <2>2, <2>4
<1>16. Reaches(ToSet(t), ToSet(s))
  <2>1. \A a \in ToSet(s) : IsLine(a) =>
          /\ \E b \in ToSet(t) : IsLine(b) /\ SameColumn(b, a) /\ b[3] <= a[3]
          /\ \E b \in ToSet(t) : IsLine(b) /\ SameColumn(b, a) /\ a[3] <= b[3]
    BY <1>14, <1>15, Zenon
  <2> QED
    BY <1>13, <2>1, Zenon DEF Reaches
<1> QED
  BY <1>9, <1>11, <1>16

\* compressActions of one column.
LEMMA CompressReaches ==
  ASSUME NEW s \in Seq(Action), NEW c, \A a \in ToSet(s) : Column(a[2]) = c, NEW lossless \in BOOLEAN
  PROVE  /\ CompressActions(s, lossless) \in Seq(Action)
         /\ Reaches(ToSet(CompressActions(s, lossless)), ToSet(s))
<1> DEFINE r == CompressActions(s, lossless)
           w == WithoutMoves(s)
           t == LastMoves(w)
           K == {i \in DOMAIN t : t[i][1] = "L"}
<1>1. Len(s) \in Nat
  BY LenProperties
<1>2. ToSet(s) \in SUBSET Action
  BY DEF ToSet
<1>3. r = IF Len(s) <= 1 THEN s ELSE IF lossless \/ Len(t) <= 2 THEN t ELSE Extremals(t, K)
  BY DEF CompressActions
<1>4. Thins(w, s, Action)
  BY WithoutMovesThins
<1>5. w \in Seq(Action)
  BY <1>4, Zenon DEF Thins
<1>6. Thins(t, w, Action) /\ Apart(t)
  <2> HIDE DEF w
  <2> QED
    BY <1>5, LastMovesThins
<1>7. t \in Seq(Action) /\ ToSet(t) \subseteq ToSet(w) /\ ToSet(w) \subseteq ToSet(s)
  BY <1>4, <1>6, Zenon DEF Thins
<1>8. Reaches(ToSet(w), ToSet(s))
  BY <1>4, ThinsReaches
<1>9. Reaches(ToSet(t), ToSet(w))
  <2> HIDE DEF w
  <2> QED
    BY <1>5, <1>6, ThinsReaches
<1> HIDE DEF w, t, r
<1>10. Reaches(ToSet(t), ToSet(s))
  BY <1>2, <1>8, <1>9, ReachesTransitive
<1>11. CASE Len(s) <= 1
  <2>1. Thins(s, s, Action)
    BY Zenon DEF Thins
  <2>2. Reaches(ToSet(s), ToSet(s))
    BY <2>1, ThinsReaches
  <2> QED
    BY <1>3, <1>11, <2>2 DEF r
<1>12. CASE ~(Len(s) <= 1) /\ (lossless \/ Len(t) <= 2)
  BY <1>3, <1>7, <1>10, <1>12 DEF r
<1>13. CASE ~(Len(s) <= 1) /\ ~(lossless \/ Len(t) <= 2)
  <2>1. Len(t) \in Nat /\ Len(t) > 2 /\ DOMAIN t = 1..Len(t)
    BY <1>7, <1>13, LenProperties
  <2>2. PICK i \in 1..Len(t) : t[i][1] # "M"
    <3>1. 2 \in 2..Len(t) /\ 1 \in 1..Len(t) /\ 2 \in 1..Len(t) /\ 2 - 1 = 1
      BY <2>1
    <3>2. ~(t[1][1] = "M" /\ t[2][1] = "M")
      BY <1>6, <3>1 DEF Apart
    <3> QED
      BY <3>1, <3>2
  <2>3. t[i] \in Action /\ \A a \in ToSet(t) : Column(a[2]) = c
    BY <1>7, <2>1
  <2>4. IsLine(t[i])
    BY <2>2, <2>3 DEF Action, IsLine
  <2> DEFINE x == Extremals(t, K)
  <2>5. K = {j \in DOMAIN t : t[j][1] = "L"}
    OBVIOUS
  <2> HIDE DEF K
  <2>6. x \in Seq(Action) /\ Reaches(ToSet(x), ToSet(t))
    BY <1>7, <2>3, <2>4, <2>5, ExtremalsReach
  <2>7. r = x
    BY <1>3, <1>13
  <2> HIDE DEF x
  <2>8. Reaches(ToSet(x), ToSet(s))
    BY <1>2, <1>10, <2>6, ReachesTransitive
  <2> QED
    BY <2>6, <2>7, <2>8 DEF r
<1> QED
  BY <1>11, <1>12, <1>13

-----------------------------------------------------------------------------
(* Folds along a sequence *)

IsMaxFold(g, base, step, n) ==
  g = [s \in SUBSET (1..n) |-> IF s = {} THEN base ELSE step[<<g[s \ {Max(s)}], Max(s)>>]]

\* FoldExists for the greatest index first, as FoldLeft takes them.
LEMMA MaxFoldExists ==
  ASSUME NEW n \in Nat, NEW X, NEW base \in X, NEW step \in [X \X (1..n) -> X]
  PROVE  \E g \in [SUBSET (1..n) -> X] : IsMaxFold(g, base, step, n)
<1> DEFINE S == 1..n
           pick == [s \in SUBSET S |-> Max(s)]
<1>1. IsFiniteSet(S)
  BY FS_Interval
<1>2. \A s \in SUBSET S : pick[s] = Max(s) /\ (s # {} => Max(s) \in s)
  <2> SUFFICES ASSUME NEW s \in SUBSET (1..n), s # {} PROVE Max(s) \in s
    OBVIOUS
  <2> QED
    BY n \in Int, IndexMinMax, Zenon
<1>3. step \in [X \X S -> X]
  OBVIOUS
<1> HIDE DEF S, pick
<1>6. \A s \in SUBSET S : s # {} => pick[s] \in s
  BY <1>2
<1>4. PICK g \in [SUBSET S -> X] : IsFoldOf(g, base, step, pick, S)
  BY <1>1, <1>3, <1>6, FoldExists
<1>5. g = [s \in SUBSET S |-> IF s = {} THEN base ELSE step[<<g[s \ {Max(s)}], Max(s)>>]]
  <2>1. g = [s \in SUBSET S |-> IF s = {} THEN base ELSE step[<<g[s \ {pick[s]}], pick[s]>>]]
    BY <1>4 DEF IsFoldOf
  <2> QED
    BY <1>2, <2>1
<1> QED
  BY <1>5 DEF IsMaxFold, S

\* What a proxy has sent and keeps back after each action.
Buffer == [sent : Seq(Action), pending : Seq(Action)]
OneColumn(s) == \A a, b \in ToSet(s) : SameColumn(a, b)

NoActions == [sent |-> << >>, pending |-> << >>]

\* In one column they are all in that of the first.
LEMMA ColumnOfAll ==
  ASSUME NEW s \in Seq(Action), OneColumn(s)
  PROVE  \E c : \A a \in ToSet(s) : Column(a[2]) = c
<1>1. CASE ToSet(s) = {}
  BY <1>1
<1>2. CASE ToSet(s) # {}
  <2>1. PICK b \in ToSet(s) : TRUE
    BY <1>2
  <2>2. \A a \in ToSet(s) : Column(a[2]) = Column(b[2])
    BY DEF OneColumn, SameColumn
  <2> QED
    BY <2>2
<1> QED
  BY <1>1, <1>2

LEMMA ToSetConcat ==
  ASSUME NEW X, NEW s \in Seq(X), NEW t \in Seq(X)
  PROVE  s \o t \in Seq(X) /\ ToSet(s \o t) = ToSet(s) \cup ToSet(t)
<1> DEFINE r == s \o t
           m == Len(s)
           n == Len(t)
<1>1. m \in Nat /\ n \in Nat /\ DOMAIN s = 1..m /\ DOMAIN t = 1..n
  BY LenProperties
<1>2. /\ r \in Seq(X) /\ Len(r) = m + n
      /\ \A i \in 1..(m + n) : r[i] = IF i <= m THEN s[i] ELSE t[i - m]
  BY ConcatProperties
<1>3. DOMAIN r = 1..(m + n)
  BY <1>2, LenProperties
<1> HIDE DEF r, m, n
<1>4. ASSUME NEW i \in 1..(m + n) PROVE r[i] \in ToSet(s) \cup ToSet(t)
  <2>1. CASE i <= m
    <3>1. i \in 1..m /\ r[i] = s[i]
      BY <1>1, <1>2, <2>1
    <3> QED
      BY <1>1, <3>1 DEF ToSet
  <2>2. CASE ~(i <= m)
    <3>1. i - m \in 1..n /\ r[i] = t[i - m]
      BY <1>1, <1>2, <2>2
    <3> QED
      BY <1>1, <3>1 DEF ToSet
  <2> QED
    BY <2>1, <2>2
<1>5. ASSUME NEW i \in 1..m PROVE s[i] \in ToSet(r)
  <2>1. i \in 1..(m + n) /\ r[i] = s[i]
    BY <1>1, <1>2
  <2> QED
    BY <1>3, <2>1 DEF ToSet
<1>6. ASSUME NEW i \in 1..n PROVE t[i] \in ToSet(r)
  <2>1. PICK j \in 1..(m + n) : j = m + i
    BY <1>1
  <2>2. ~(j <= m) /\ j - m = i
    BY <1>1, <2>1
  <2>3. r[j] = t[i]
    BY <1>2, <2>2
  <2> QED
    BY <1>3, <2>3 DEF ToSet
<1>7. ToSet(r) \subseteq ToSet(s) \cup ToSet(t)
  BY <1>3, <1>4 DEF ToSet
<1>8. ToSet(s) \cup ToSet(t) \subseteq ToSet(r)
  BY <1>1, <1>5, <1>6 DEF ToSet
<1> QED
  BY <1>2, <1>7, <1>8 DEF r

LEMMA ToSetAppend ==
  ASSUME NEW X, NEW s \in Seq(X), NEW e \in X
  PROVE  Append(s, e) \in Seq(X) /\ ToSet(Append(s, e)) = ToSet(s) \cup {e}
<1>1. <<e>> \in Seq(X) /\ ToSet(<<e>>) = {e}
  BY DEF ToSet
<1> DEFINE r == <<e>>
<1>2. Append(s, e) = s \o r
  BY AppendIsConcat
<1> HIDE DEF r
<1>3. s \o r \in Seq(X) /\ ToSet(s \o r) = ToSet(s) \cup ToSet(r)
  BY <1>1, ToSetConcat DEF r
<1> QED
  BY <1>1, <1>2, <1>3 DEF r

\* An action is sent or kept back, and nothing that reaches further is lost.
LEMMA AddActionReaches ==
  ASSUME NEW acc \in Buffer, OneColumn(acc.pending), NEW a \in Action
  PROVE  /\ AddAction(acc, a) \in Buffer /\ OneColumn(AddAction(acc, a).pending)
         /\ Reaches(ToSet(AddAction(acc, a).sent) \cup ToSet(AddAction(acc, a).pending),
                    (ToSet(acc.sent) \cup ToSet(acc.pending)) \cup {a})
<1> DEFINE p == acc.pending
           r == CompressActions(p, FALSE)
           b == AddAction(acc, a)
           U == (ToSet(acc.sent) \cup ToSet(p)) \cup {a}
<1>1. acc.sent \in Seq(Action) /\ p \in Seq(Action)
  BY DEF Buffer
<1>2. ToSet(acc.sent) \subseteq Action /\ ToSet(p) \subseteq Action /\ U \subseteq Action
  BY <1>1 DEF ToSet
<1>3. \A W : W \subseteq Action => Reaches(W, W)
  <2>1. \A x \in Action : x[3] \in Int
    BY DEF Action
  <2>2. \A x \in Action : x[3] <= x[3] /\ SameColumn(x, x)
    BY <2>1 DEF SameColumn
  <2> QED
    BY <2>2, Zenon DEF Reaches
<1>4. CASE p = << >> \/ Column(a[2]) = Column(p[1][2])
  <2>1. b = [sent |-> acc.sent, pending |-> Append(p, a)]
    BY <1>4 DEF AddAction
  <2>2. b.sent = acc.sent /\ b.pending = Append(p, a)
    BY <2>1
  <2>3. Append(p, a) \in Seq(Action) /\ ToSet(Append(p, a)) = ToSet(p) \cup {a}
    BY <1>1, ToSetAppend
  <2>4. ToSet(b.sent) \cup ToSet(b.pending) = U
    BY <2>2, <2>3
  <2>5. \A x \in ToSet(p) : SameColumn(x, a) /\ SameColumn(a, x)
    <3>1. CASE p = << >>
      BY <3>1 DEF ToSet
    <3>2. CASE p # << >> /\ Column(a[2]) = Column(p[1][2])
      <4>1. p[1] \in ToSet(p)
        BY <1>1, <3>2 DEF ToSet
      <4> QED
        BY <3>2, <4>1 DEF OneColumn, SameColumn
    <3> QED
      BY <1>4, <3>1, <3>2
  <2>6. OneColumn(b.pending)
    BY <2>2, <2>3, <2>5 DEF OneColumn, SameColumn
  <2>7. b \in Buffer
    BY <1>1, <2>1, <2>3 DEF Buffer
  <2>8. Reaches(U, U)
    BY <1>2, <1>3
  <2> QED
    BY <2>4, <2>6, <2>7, <2>8
<1>5. CASE ~(p = << >> \/ Column(a[2]) = Column(p[1][2]))
  <2>1. b = [sent |-> acc.sent \o r, pending |-> <<a>>]
    BY <1>5 DEF AddAction
  <2> HIDE DEF b
  <2>2. b.sent = acc.sent \o r /\ b.pending = <<a>>
    <3> HIDE DEF r
    <3> QED
      BY <2>1
  <2>3. r \in Seq(Action) /\ Reaches(ToSet(r), ToSet(p))
    <3>1. PICK c : \A x \in ToSet(p) : Column(x[2]) = c
      BY <1>1, ColumnOfAll
    <3> HIDE DEF p
    <3> QED
      BY <1>1, <3>1, CompressReaches
  <2> HIDE DEF r, p
  <2>4. /\ acc.sent \o r \in Seq(Action)
        /\ ToSet(acc.sent \o r) = ToSet(acc.sent) \cup ToSet(r)
    BY <1>1, <2>3, ToSetConcat
  <2>5. <<a>> \in Seq(Action) /\ ToSet(<<a>>) = {a}
    BY DEF ToSet
  <2>6. Reaches(ToSet(acc.sent), ToSet(acc.sent)) /\ Reaches({a}, {a})
    BY <1>2, <1>3
  <2>7. Reaches(ToSet(acc.sent) \cup ToSet(r), ToSet(acc.sent) \cup ToSet(p))
    BY <2>3, <2>6, ReachesUnion
  <2>8. Reaches((ToSet(acc.sent) \cup ToSet(r)) \cup {a}, (ToSet(acc.sent) \cup ToSet(p)) \cup {a})
    BY <2>6, <2>7, ReachesUnion
  <2>9. OneColumn(b.pending)
    BY <2>2, <2>5 DEF OneColumn, SameColumn
  <2>10. b \in Buffer
    BY <2>1, <2>4, <2>5 DEF Buffer
  <2>11. ToSet(b.sent) \cup ToSet(b.pending) = (ToSet(acc.sent) \cup ToSet(r)) \cup {a}
    BY <2>2, <2>4, <2>5
  <2> QED
    BY <2>8, <2>9, <2>10, <2>11 DEF b, p
<1> QED
  BY <1>4, <1>5

\* The buffers there can be, and the one after each action of a path.
Kept == {acc \in Buffer : OneColumn(acc.pending)}

Buffers(path, g) ==
  /\ g \in [0..Len(path) -> Kept] /\ g[0] = NoActions
  /\ \A k \in 1..Len(path) : g[k] = AddAction(g[k - 1], path[k])

\* The fold of FastPath ends with the buffer after the last action.
LEMMA FastPathFold ==
  ASSUME NEW path \in Seq(Action)
  PROVE  \E g : /\ Buffers(path, g)
                /\ FastPath(path) =
                     g[Len(path)].sent \o CompressActions(g[Len(path)].pending, TRUE)
<1> DEFINE n == Len(path)
           IsFold(h) == h = [s \in SUBSET DOMAIN path |->
                               IF s = {} THEN NoActions
                               ELSE AddAction(h[s \ {Max(s)}], path[Max(s)])]
           f == CHOOSE h : IsFold(h)
           end == f[DOMAIN path]
<1>1. n \in Nat /\ n \in Int /\ DOMAIN path = 1..n /\ \A k \in 1..n : path[k] \in Action
  BY LenProperties, ElementOfSeq
<1>2. FastPath(path) = end.sent \o CompressActions(end.pending, TRUE)
  BY DEF FastPath, FoldLeft, MapThenFoldSet, NoActions
<1>3. NoActions \in Kept
  BY DEF NoActions, Kept, Buffer, OneColumn, ToSet
<1>4. \A acc \in Kept : \A a \in Action : AddAction(acc, a) \in Kept
  BY AddActionReaches DEF Kept
<1>5. \E h : IsFold(h)
  <2> DEFINE step == [p \in Kept \X (1..n) |-> AddAction(p[1], path[p[2]])]
  <2>1. step \in [Kept \X (1..n) -> Kept]
    BY <1>1, <1>4
  <2>2. PICK g \in [SUBSET (1..n) -> Kept] : IsMaxFold(g, NoActions, step, n)
    <3> HIDE DEF step, n
    <3> QED
      BY <1>1, <1>3, <2>1, MaxFoldExists
  <2>3. ASSUME NEW s \in SUBSET (1..n), s # {}
        PROVE  step[<<g[s \ {Max(s)}], Max(s)>>] = AddAction(g[s \ {Max(s)}], path[Max(s)])
    <3>1. Max(s) \in s
      BY <1>1, <2>3, IndexMinMax, Zenon
    <3>2. Max(s) \in 1..n /\ g[s \ {Max(s)}] \in Kept
      BY <3>1
    <3> QED
      BY <3>2
  <2>4. IsFold(g)
    <3> HIDE DEF step
    <3> QED
      BY <1>1, <2>2, <2>3 DEF IsMaxFold
  <2> QED
    BY <2>4
<1>6. IsFold(f)
  BY <1>5
<1> HIDE DEF f
<1>7. f[1..0] = NoActions
  BY <1>1, <1>6
<1>8. ASSUME NEW k \in 1..n PROVE f[1..k] = AddAction(f[1..(k - 1)], path[k])
  <2>1. /\ 1..k \in SUBSET (1..n) /\ 1..k # {}
        /\ Max(1..k) = k /\ (1..k) \ {Max(1..k)} = 1..(k - 1)
    BY <1>1, LastOf
  <2> QED
    BY <1>1, <1>6, <2>1
<1>9. ASSUME NEW m \in 0..n PROVE f[1..m] \in Kept
  <2>1. m \in Nat /\ m <= n
    BY <1>1
  <2>2. \A k \in 1..m : f[1..(k - 1)] \in Kept => f[1..k] \in Kept
    <3> TAKE k \in 1..m
    <3>1. k \in 1..n
      BY <1>1, <2>1
    <3> QED
      BY <1>1, <1>4, <1>8, <3>1
  <2> HIDE DEF n
  <2> QED
    BY <1>3, <1>7, <2>1, <2>2, PrefixInduction
<1> DEFINE g == [k \in 0..n |-> f[1..k]]
<1>10. g \in [0..n -> Kept] /\ g[0] = NoActions /\ g[n] = end
  BY <1>1, <1>7, <1>9
<1>11. ASSUME NEW k \in 1..n PROVE g[k] = AddAction(g[k - 1], path[k])
  <2>1. k \in 0..n /\ k - 1 \in 0..n
    BY <1>1
  <2> QED
    BY <1>8, <2>1
<1> HIDE DEF g, end
<1>12. Buffers(path, g)
  BY <1>10, <1>11 DEF Buffers
<1>13. FastPath(path) = g[n].sent \o CompressActions(g[n].pending, TRUE)
  BY <1>2, <1>10
<1> QED
  BY <1>12, <1>13

\* What the proxy sends reaches as far as what it got.
LEMMA FastPathReaches ==
  ASSUME NEW path \in Seq(Action)
  PROVE  FastPath(path) \in Seq(Action) /\ Reaches(ToSet(FastPath(path)), ToSet(path))
<1> DEFINE n == Len(path)
<1>1. PICK g : /\ Buffers(path, g)
               /\ FastPath(path) = g[n].sent \o CompressActions(g[n].pending, TRUE)
  BY FastPathFold
<1> DEFINE U(k) == {path[i] : i \in 1..k}
           V(k) == ToSet(g[k].sent) \cup ToSet(g[k].pending)
           G == {k \in Nat : k <= n => Reaches(V(k), U(k))}
<1>2. n \in Nat /\ DOMAIN path = 1..n /\ \A k \in 1..n : path[k] \in Action
  BY LenProperties, ElementOfSeq
<1>3. /\ \A k \in 0..n : g[k] \in Buffer /\ OneColumn(g[k].pending)
      /\ g[0] = NoActions
      /\ \A k \in 1..n : g[k] = AddAction(g[k - 1], path[k])
  BY <1>1 DEF Buffers, Kept
<1>4. \A k \in 0..n : U(k) \in SUBSET Action
  BY <1>2
<1> HIDE DEF n
<1>5. \A W : W \subseteq Action => Reaches(W, W)
  <2>1. \A x \in Action : x[3] \in Int
    BY DEF Action
  <2>2. \A x \in Action : x[3] <= x[3] /\ SameColumn(x, x)
    BY <2>1 DEF SameColumn
  <2> QED
    BY <2>2, Zenon DEF Reaches
<1>6. 0 \in G
  <2>1. U(0) = {} /\ V(0) = {}
    BY <1>3 DEF NoActions, ToSet
  <2>2. Reaches({}, {})
    BY <1>5
  <2> HIDE DEF U, V
  <2> QED
    BY <2>1, <2>2
<1>7. ASSUME NEW k \in Nat, k \in G PROVE k + 1 \in G
  <2> HIDE DEF U, V
  <2> SUFFICES ASSUME k + 1 <= n PROVE Reaches(V(k + 1), U(k + 1))
    OBVIOUS
  <2>1. k + 1 \in 1..n /\ (k + 1) - 1 = k /\ k \in 0..n /\ k + 1 \in 0..n /\ k <= n
    BY <1>2
  <2> DEFINE a == path[k + 1]
             acc == g[k]
  <2>2. a \in Action /\ acc \in Buffer /\ OneColumn(acc.pending) /\ g[k + 1] = AddAction(acc, a)
    BY <1>2, <1>3, <2>1
  <2>3. V(k) = ToSet(acc.sent) \cup ToSet(acc.pending)
    BY DEF V
  <2>4. V(k + 1) = ToSet(AddAction(acc, a).sent) \cup ToSet(AddAction(acc, a).pending)
    BY <2>2 DEF V
  <2>5. U(k + 1) = U(k) \cup {a}
    BY <2>1 DEF U
  <2> HIDE DEF a, acc
  <2>6. Reaches(V(k + 1), V(k) \cup {a})
    BY <2>2, <2>3, <2>4, AddActionReaches
  <2>7. Reaches(V(k), U(k)) /\ Reaches({a}, {a})
    BY <1>5, <1>7, <2>1, <2>2
  <2>8. Reaches(V(k) \cup {a}, U(k) \cup {a})
    BY <2>7, ReachesUnion
  <2>9. U(k) \cup {a} \in SUBSET Action
    BY <1>4, <2>1, <2>2
  <2>10. Reaches(V(k + 1), U(k) \cup {a})
    BY <2>6, <2>8, <2>9, ReachesTransitive
  <2> QED
    BY <2>5, <2>10
<1>8. Reaches(V(n), U(n))
  <2>1. n \in G
    <3> HIDE DEF G
    <3> QED
      BY <1>2, <1>6, <1>7, SetInduction
  <2> QED
    BY <1>2, <2>1
<1> DEFINE s == g[n].sent
           p == g[n].pending
           r == CompressActions(p, TRUE)
<1>9. s \in Seq(Action) /\ p \in Seq(Action) /\ OneColumn(p)
  <2>1. n \in 0..n
    BY <1>2
  <2> QED
    BY <1>3, <2>1 DEF Buffer
<1>10. r \in Seq(Action) /\ Reaches(ToSet(r), ToSet(p))
  <2> HIDE DEF p
  <2>1. PICK c : \A x \in ToSet(p) : Column(x[2]) = c
    BY <1>9, ColumnOfAll
  <2> QED
    BY <1>9, <2>1, CompressReaches
<1>11. V(n) = ToSet(s) \cup ToSet(p) /\ U(n) = ToSet(path) /\ U(n) \in SUBSET Action
  BY <1>2, <1>4 DEF ToSet
<1>12. FastPath(path) = s \o r
  BY <1>1
<1> HIDE DEF s, p, r, U, V
<1>13. s \o r \in Seq(Action) /\ ToSet(s \o r) = ToSet(s) \cup ToSet(r)
  BY <1>9, <1>10, ToSetConcat
<1>14. Reaches(ToSet(s), ToSet(s))
  <2>1. ToSet(s) \subseteq Action
    BY <1>9 DEF ToSet
  <2> QED
    BY <1>5, <2>1
<1>15. Reaches(ToSet(s) \cup ToSet(r), ToSet(s) \cup ToSet(p))
  BY <1>10, <1>14, ReachesUnion
<1>16. Reaches(ToSet(s) \cup ToSet(r), ToSet(path))
  BY <1>8, <1>11, <1>15, ReachesTransitive
<1> QED
  BY <1>12, <1>13, <1>16

-----------------------------------------------------------------------------
(* What a fill is made of *)

\* A canvas y coordinate, NaN where there is nothing; the ends of a step.
Level == Int \cup {NaN}
Spot  == Int \X Level
Ends  == Level \X Level

CanvasPoint == [xval : Int, idx : Int, x : Int, yval : Value,
                y : Level, low : Level, high : Level, stacked : Level]

\* What is known below an x.
Below == Level \X Level \X Level
Baselines == UNION {[D -> Below] : D \in SUBSET Int}

\* A step of a path is an action, or nothing.
LEMMA StepTypes ==
  ASSUME NEW x \in Int, NEW y \in Level
  PROVE  MoveTo(x, y) \in Seq(Action) /\ LineTo(x, y) \in Seq(Action)
<1>1. CASE y = NaN
  <2>1. MoveTo(x, y) = << >> /\ LineTo(x, y) = << >>
    BY <1>1 DEF MoveTo, LineTo
  <2> QED
    BY <2>1
<1>2. CASE y # NaN
  <2>1. <<"M", x, y>> \in Action /\ <<"L", x, y>> \in Action
    BY <1>2 DEF Action, Level
  <2>2. MoveTo(x, y) = <<<<"M", x, y>>>> /\ LineTo(x, y) = <<<<"L", x, y>>>>
    BY <1>2 DEF MoveTo, LineTo
  <2> QED
    BY <2>1, <2>2
<1> QED
  BY <1>1, <1>2

LEMMA WithType ==
  ASSUME NEW f \in Baselines, NEW x \in Int, NEW y \in Below
  PROVE  With(f, x, y) \in Baselines
<1>1. PICK D \in SUBSET Int : f \in [D -> Below]
  BY DEF Baselines
<1>2. With(f, x, y) \in [D \cup {x} -> Below]
  BY <1>1 DEF With
<1> QED
  BY <1>2 DEF Baselines

LEMMA BelowType ==
  ASSUME NEW f \in Baselines, NEW x \in DOMAIN f
  PROVE  f[x] \in Below
BY DEF Baselines

LEMMA NoBaseline == << >> \in Baselines
<1>1. << >> \in [{} -> Below]
  OBVIOUS
<1> QED
  BY <1>1 DEF Baselines

\* The way back along the set below is made of lines.
LEMMA TraceBackType ==
  ASSUME NEW path \in Seq(Action), NEW x \in Int, NEW y \in Level, NEW back \in Seq(Spot)
  PROVE  TraceBack(path, x, y, back) \in Seq(Action)
<1> DEFINE n == Len(back)
           rev == Reverse(back)
           first == <<<<x, y>>>>
           way == first \o rev
           S == {k \in DOMAIN way : way[k][2] # NaN}
           seen == Chosen(way, S)
           t == [k \in DOMAIN seen |-> <<"L", seen[k][1], seen[k][2]>>]
<1>1. rev \in Seq(Spot)
  <2>1. n \in Nat /\ \A i \in 1..n : back[i] \in Spot
    BY LenProperties, ElementOfSeq
  <2>2. rev = [i \in 1..n |-> back[(n - i) + 1]]
    BY DEF Reverse
  <2>3. \A i \in 1..n : (n - i) + 1 \in 1..n
    BY <2>1
  <2> HIDE DEF rev, n
  <2>4. rev \in [1..n -> Spot]
    BY <2>1, <2>2, <2>3
  <2> QED
    BY <2>1, <2>4
<1>2. first \in Seq(Spot)
  BY DEF Spot
<1> HIDE DEF first, rev
<1>3. way \in Seq(Spot)
  BY <1>1, <1>2, ConcatProperties
<1>4. DOMAIN way = 1..Len(way) /\ Len(way) \in Nat /\ S \in SUBSET (1..Len(way))
  BY <1>3, LenProperties
<1> HIDE DEF way
<1>5. \A i \in S : way[i] \in Spot /\ way[i][2] # NaN
  BY <1>3, <1>4
<1> HIDE DEF S
<1>6. seen \in Seq(Spot) /\ ToSet(seen) = {way[i] : i \in S}
  BY <1>3, <1>4, ChosenAre
<1> HIDE DEF seen
<1>7. DOMAIN seen = 1..Len(seen) /\ Len(seen) \in Nat
  BY <1>6, LenProperties
<1>8. ASSUME NEW k \in DOMAIN seen PROVE <<"L", seen[k][1], seen[k][2]>> \in Action
  <2>1. seen[k] \in {way[i] : i \in S}
    BY <1>6 DEF ToSet
  <2>2. seen[k] \in Spot /\ seen[k][2] # NaN
    BY <1>5, <2>1
  <2> QED
    BY <2>2 DEF Spot, Level, Action
<1>9. t \in Seq(Action)
  BY <1>7, <1>8
<1> HIDE DEF t
<1>10. path \o t \in Seq(Action)
  BY <1>9, ConcatProperties
<1>11. TraceBack(path, x, y, back) = path \o t
  BY DEF TraceBack, t, seen, S, way, first, rev
<1> QED
  BY <1>10, <1>11

\* Where the inner loop of the fill plotter can be.
FillAcc ==
  {a \in [path : Seq(Action), back : Seq(Spot), prev : Int \cup {Null}, lastX : Int \cup {Null},
          newYs : Ends \cup {Null}, prevYs : (Level \cup {Null}) \X (Level \cup {Null}),
          baseline : Baselines] : a.prev # Null => a.prevYs \in Ends}

LEMMA FillGapType ==
  ASSUME NEW acc \in FillAcc, NEW p \in CanvasPoint
  PROVE  FillGap(acc, p) \in FillAcc
<1> DEFINE path == IF acc.prev = Null THEN acc.path
                   ELSE TraceBack(acc.path, acc.prev, acc.prevYs[2], acc.back)
           baseline == IF p.stacked = NaN THEN acc.baseline
                       ELSE With(acc.baseline, p.x, <<p.stacked, NaN, NaN>>)
<1>1. /\ acc.path \in Seq(Action) /\ acc.back \in Seq(Spot) /\ acc.baseline \in Baselines
      /\ acc.prev \in Int \cup {Null} /\ acc.lastX \in Int \cup {Null}
      /\ acc.newYs \in Ends \cup {Null}
      /\ acc.prevYs \in (Level \cup {Null}) \X (Level \cup {Null})
      /\ acc.prev # Null => acc.prevYs \in Ends
  BY DEF FillAcc
<1>2. p.x \in Int /\ p.stacked \in Level
  BY DEF CanvasPoint
<1>3. path \in Seq(Action)
  <2>1. CASE acc.prev = Null
    BY <1>1, <2>1
  <2>2. CASE acc.prev # Null
    <3>1. acc.prev \in Int /\ acc.prevYs[2] \in Level
      BY <1>1, <2>2 DEF Ends
    <3>2. TraceBack(acc.path, acc.prev, acc.prevYs[2], acc.back) \in Seq(Action)
      BY <1>1, <3>1, TraceBackType
    <3> QED
      BY <2>2, <3>2
  <2> QED
    BY <2>1, <2>2
<1>4. baseline \in Baselines
  <2>1. CASE p.stacked = NaN
    BY <1>1, <2>1
  <2>2. CASE p.stacked # NaN
    <3>1. <<p.stacked, NaN, NaN>> \in Below
      BY <1>2 DEF Below, Level
    <3>2. With(acc.baseline, p.x, <<p.stacked, NaN, NaN>>) \in Baselines
      BY <1>1, <1>2, <3>1, WithType
    <3> QED
      BY <2>2, <3>2
  <2> QED
    BY <2>1, <2>2
<1>5. FillGap(acc, p) = [path |-> path, back |-> << >>, prev |-> Null, lastX |-> acc.lastX,
                         newYs |-> acc.newYs, prevYs |-> acc.prevYs, baseline |-> baseline]
  BY DEF FillGap
<1> HIDE DEF path, baseline
<1>6. << >> \in Seq(Spot)
  OBVIOUS
<1> QED
  BY <1>1, <1>3, <1>4, <1>5, <1>6 DEF FillAcc

LEMMA FillSampleType ==
  ASSUME NEW acc \in FillAcc, NEW p \in CanvasPoint, NEW axisY \in Int, NEW stepBelow, NEW o
  PROVE  FillSample(acc, p, axisY, stepBelow, o) \in FillAcc
<1> DEFINE known == p.x \in DOMAIN acc.baseline
           bottom == IF o.stacked /\ known
                     THEN acc.baseline[p.x][IF stepBelow THEN 2 ELSE 1] ELSE axisY
           top == IF ~o.stacked /\ p.y = NaN THEN 0 ELSE p.y
           previous == IF acc.prevYs[1] = Null THEN axisY ELSE acc.prevYs[1]
           corner == IF stepBelow /\ known THEN acc.baseline[p.x][3] ELSE bottom
           up == MoveTo(p.x, bottom) \o LineTo(p.x, top)
           step == LineTo(p.x, acc.prevYs[1])
           on == LineTo(p.x, top)
           path == acc.path \o (IF acc.prev = Null THEN up
                                ELSE (IF o.stepPlot THEN step ELSE << >>) \o on)
           way == <<<<acc.prev, acc.prevYs[2]>>, <<p.x, corner>>>>
           back == IF acc.prev = Null \/ ~o.stacked THEN acc.back ELSE acc.back \o way
           entry == IF o.stepPlot THEN <<NaN, p.y, previous>> ELSE <<p.y, NaN, NaN>>
           baseline == IF ~o.stacked THEN acc.baseline ELSE With(acc.baseline, p.x, entry)
<1>1. /\ acc.path \in Seq(Action) /\ acc.back \in Seq(Spot) /\ acc.baseline \in Baselines
      /\ acc.prev \in Int \cup {Null} /\ acc.newYs \in Ends \cup {Null}
      /\ acc.prevYs \in (Level \cup {Null}) \X (Level \cup {Null})
      /\ acc.prev # Null => acc.prevYs \in Ends
  BY DEF FillAcc
<1>2. p.x \in Int /\ p.xval \in Int /\ p.y \in Level /\ axisY \in Level /\ NaN \in Level
  BY DEF CanvasPoint, Level
<1>3. known => acc.baseline[p.x] \in Below
  BY <1>1, BelowType
<1>4. bottom \in Level /\ corner \in Level
  BY <1>2, <1>3 DEF Below
<1>5. top \in Level
  BY <1>2 DEF Level
<1>6. previous \in Level
  BY <1>1, <1>2 DEF Level
<1> HIDE DEF known, bottom, top, previous, corner
<1>7. up \in Seq(Action) /\ on \in Seq(Action)
  <2>1. MoveTo(p.x, bottom) \in Seq(Action)
    BY <1>2, <1>4, StepTypes
  <2>2. LineTo(p.x, top) \in Seq(Action)
    BY <1>2, <1>5, StepTypes
  <2> QED
    BY <2>1, <2>2, ConcatProperties
<1>8. acc.prev # Null => step \in Seq(Action)
  <2>1. acc.prev # Null => acc.prevYs[1] \in Level
    BY <1>1 DEF Ends
  <2> QED
    BY <1>2, <2>1, StepTypes
<1>9. path \in Seq(Action)
  <2> HIDE DEF up, step, on
  <2>1. CASE acc.prev = Null
    BY <1>1, <1>7, <2>1, ConcatProperties
  <2>2. CASE acc.prev # Null
    <3> DEFINE s == IF o.stepPlot THEN step ELSE << >>
    <3>1. << >> \in Seq(Action)
      OBVIOUS
    <3>2. s \in Seq(Action)
      BY <1>8, <2>2, <3>1
    <3> HIDE DEF s
    <3>3. s \o on \in Seq(Action)
      BY <1>7, <3>2, ConcatProperties
    <3>4. acc.path \o (s \o on) \in Seq(Action)
      BY <1>1, <3>3, ConcatProperties
    <3> QED
      BY <2>2, <3>4 DEF s
  <2> QED
    BY <2>1, <2>2
<1>10. back \in Seq(Spot)
  <2>1. CASE acc.prev = Null \/ ~o.stacked
    BY <1>1, <2>1
  <2>2. CASE ~(acc.prev = Null \/ ~o.stacked)
    <3>1. <<acc.prev, acc.prevYs[2]>> \in Spot /\ <<p.x, corner>> \in Spot
      BY <1>1, <1>2, <1>4, <2>2 DEF Ends, Spot
    <3>2. way \in Seq(Spot)
      BY <3>1
    <3> HIDE DEF way
    <3>3. acc.back \o way \in Seq(Spot)
      BY <1>1, <3>2, ConcatProperties
    <3> QED
      BY <2>2, <3>3
  <2> QED
    BY <2>1, <2>2
<1>11. baseline \in Baselines
  <2>1. entry \in Below
    BY <1>2, <1>6 DEF Below
  <2> HIDE DEF entry
  <2>2. With(acc.baseline, p.x, entry) \in Baselines
    BY <1>1, <1>2, <2>1, WithType
  <2> QED
    BY <1>1, <2>2
<1>12. FillSample(acc, p, axisY, stepBelow, o) =
         [path |-> path, back |-> back, prev |-> p.x, lastX |-> p.xval,
          newYs |-> <<top, bottom>>, prevYs |-> <<top, bottom>>, baseline |-> baseline]
  BY DEF FillSample, known, bottom, top, previous, corner
<1> HIDE DEF path, back, baseline
<1>13. <<top, bottom>> \in Ends /\ <<top, bottom>> \in (Level \cup {Null}) \X (Level \cup {Null})
  BY <1>4, <1>5 DEF Ends
<1> DEFINE ys == <<top, bottom>>
           r == [path |-> path, back |-> back, prev |-> p.x, lastX |-> p.xval,
                 newYs |-> ys, prevYs |-> ys, baseline |-> baseline]
<1>14. ys \in Ends /\ ys \in Ends \cup {Null} /\ ys \in (Level \cup {Null}) \X (Level \cup {Null})
  BY <1>13
<1> HIDE DEF ys
<1>15. p.x \in Int \cup {Null} /\ p.xval \in Int \cup {Null}
  BY <1>2
<1>16. r \in FillAcc
  BY <1>9, <1>10, <1>11, <1>14, <1>15 DEF FillAcc
<1> QED
  BY <1>12, <1>16 DEF ys

LEMMA FillPointType ==
  ASSUME NEW acc \in FillAcc, NEW p \in CanvasPoint, NEW axisY \in Int, NEW stepBelow, NEW o
  PROVE  FillPoint(acc, p, axisY, stepBelow, o) \in FillAcc
<1>1. FillGap(acc, p) \in FillAcc
  BY FillGapType
<1>2. FillSample(acc, p, axisY, stepBelow, o) \in FillAcc
  BY FillSampleType
<1> QED
  BY <1>1, <1>2 DEF FillPoint

\* What the sets filled before leave behind.
IsBehind(u) ==
  /\ u.path \in Seq(Action) /\ u.baseline \in Baselines /\ u.newYs \in Ends \cup {Null}
  /\ u.newYs # Null => u.point \in Int

\* Where the inner loop of the fill plotter ends.
Filled(sequence, axisY, stepBelow, o, start) ==
  FoldLeft(LAMBDA acc, p : FillPoint(acc, p, axisY, stepBelow, o), start, sequence)

\* It ends where it can be.
LEMMA FillSetFold ==
  ASSUME NEW sequence \in Seq(CanvasPoint), NEW axisY \in Int, NEW stepBelow, NEW o,
         NEW start \in FillAcc
  PROVE  /\ Filled(sequence, axisY, stepBelow, o, start) \in FillAcc
         /\ sequence = << >> => Filled(sequence, axisY, stepBelow, o, start) = start
<1> DEFINE n == Len(sequence)
           Fill(acc, k) == FillPoint(acc, sequence[k], axisY, stepBelow, o)
           IsFold(h) == h = [s \in SUBSET DOMAIN sequence |->
                               IF s = {} THEN start ELSE Fill(h[s \ {Max(s)}], Max(s))]
           f == CHOOSE h : IsFold(h)
<1>1. n \in Nat /\ n \in Int /\ DOMAIN sequence = 1..n /\ \A k \in 1..n : sequence[k] \in CanvasPoint
  BY LenProperties, ElementOfSeq
<1>2. Filled(sequence, axisY, stepBelow, o, start) = f[DOMAIN sequence]
  BY DEF Filled, FoldLeft, MapThenFoldSet
<1>3. \A acc \in FillAcc : \A k \in 1..n : Fill(acc, k) \in FillAcc
  BY <1>1, FillPointType
<1> HIDE DEF Fill
<1>4. \E h : IsFold(h)
  <2> DEFINE step == [q \in FillAcc \X (1..n) |-> Fill(q[1], q[2])]
  <2>1. step \in [FillAcc \X (1..n) -> FillAcc]
    BY <1>3
  <2>2. PICK g \in [SUBSET (1..n) -> FillAcc] : IsMaxFold(g, start, step, n)
    <3> HIDE DEF step, n
    <3> QED
      BY <1>1, <2>1, MaxFoldExists
  <2>3. ASSUME NEW s \in SUBSET (1..n), s # {}
        PROVE  step[<<g[s \ {Max(s)}], Max(s)>>] = Fill(g[s \ {Max(s)}], Max(s))
    <3>1. Max(s) \in s
      BY <1>1, <2>3, IndexMinMax, Zenon
    <3>2. Max(s) \in 1..n /\ g[s \ {Max(s)}] \in FillAcc
      BY <3>1
    <3> QED
      BY <3>2
  <2>4. IsFold(g)
    <3> HIDE DEF step
    <3> QED
      BY <1>1, <2>2, <2>3 DEF IsMaxFold
  <2> QED
    BY <2>4
<1>5. IsFold(f)
  BY <1>4
<1> HIDE DEF f
<1>6. f[1..0] = start
  BY <1>1, <1>5
<1>7. ASSUME NEW k \in 1..n PROVE f[1..k] = Fill(f[1..(k - 1)], k)
  <2>1. /\ 1..k \in SUBSET (1..n) /\ 1..k # {}
        /\ Max(1..k) = k /\ (1..k) \ {Max(1..k)} = 1..(k - 1)
    BY <1>1, LastOf
  <2> QED
    BY <1>1, <1>5, <2>1
<1>8. f[1..n] \in FillAcc
  <2>1. \A k \in 1..n : f[1..(k - 1)] \in FillAcc => f[1..k] \in FillAcc
    BY <1>3, <1>7
  <2> HIDE DEF n
  <2> QED
    BY <1>1, <1>6, <2>1, PrefixInduction
<1>9. sequence = << >> => n = 0
  OBVIOUS
<1> HIDE DEF n
<1> QED
  BY <1>1, <1>2, <1>6, <1>8, <1>9

\* The points a line is drawn along are points.
LEMMA IteratedType ==
  ASSUME NEW X, NEW s \in Seq(X), NEW connect
  PROVE  Iterated(s, connect) \in Seq(X)
<1> DEFINE S == {k \in DOMAIN s : Passes(s[k], connect)}
<1>1. S \in SUBSET (1..Len(s))
  BY LenProperties
<1> HIDE DEF S
<1>2. Chosen(s, S) \in Seq(X)
  BY <1>1, ChosenAre
<1> QED
  BY <1>2 DEF Iterated, S

LEMMA FillSetType ==
  ASSUME NEW s \in Seq(CanvasPoint), NEW axisY \in Int, NEW under, IsBehind(under), NEW o
  PROVE  IsBehind(FillSet(s, axisY, under, o))
<1> DEFINE kept == Iterated(s, o.connect)
           start == [path |-> << >>, back |-> << >>, prev |-> Null, lastX |-> Null,
                     newYs |-> under.newYs, prevYs |-> <<Null, Null>>,
                     baseline |-> under.baseline]
           end == Filled(kept, axisY, under.stepPlot, o, start)
           pointX == IF kept = << >> THEN under.point ELSE kept[Len(kept)].x
           path == IF end.newYs = Null THEN end.path
                   ELSE TraceBack(end.path, pointX, end.newYs[2], end.back)
<1>1. kept \in Seq(CanvasPoint)
  BY IteratedType
<1>2. start \in FillAcc /\ start.newYs = under.newYs
  <2>1. << >> \in Seq(Action) /\ << >> \in Seq(Spot) /\ Null \in Int \cup {Null}
    OBVIOUS
  <2>2. <<Null, Null>> \in (Level \cup {Null}) \X (Level \cup {Null})
    OBVIOUS
  <2>3. under.newYs \in Ends \cup {Null} /\ under.baseline \in Baselines
    BY DEF IsBehind
  <2> QED
    BY <2>1, <2>2, <2>3 DEF FillAcc
<1>3. FillSet(s, axisY, under, o) =
        [path |-> path, baseline |-> end.baseline, newYs |-> end.newYs, point |-> pointX,
         stepPlot |-> o.stepPlot]
  BY DEF FillSet, Filled
<1> HIDE DEF start, kept
<1>4. end \in FillAcc /\ (kept = << >> => end = start)
  BY <1>1, <1>2, FillSetFold
<1> HIDE DEF end
<1>5. end.newYs # Null => pointX \in Int
  <2>1. CASE kept = << >>
    BY <1>2, <1>4, <2>1 DEF IsBehind
  <2>2. CASE kept # << >>
    <3>1. kept[Len(kept)] \in CanvasPoint
      BY <1>1, <2>2
    <3> QED
      BY <2>2, <3>1 DEF CanvasPoint
  <2> QED
    BY <2>1, <2>2
<1> HIDE DEF pointX
<1>6. /\ end.path \in Seq(Action) /\ end.back \in Seq(Spot) /\ end.newYs \in Ends \cup {Null}
      /\ end.baseline \in Baselines
  BY <1>4 DEF FillAcc
<1>7. path \in Seq(Action)
  <2>1. CASE end.newYs = Null
    BY <1>6, <2>1
  <2>2. CASE end.newYs # Null
    <3>1. pointX \in Int /\ end.newYs[2] \in Level
      BY <1>5, <1>6, <2>2 DEF Ends
    <3>2. TraceBack(end.path, pointX, end.newYs[2], end.back) \in Seq(Action)
      BY <1>6, <3>1, TraceBackType
    <3> QED
      BY <2>2, <3>2
  <2> QED
    BY <2>1, <2>2
<1> HIDE DEF path
<1> QED
  BY <1>3, <1>5, <1>6, <1>7 DEF IsBehind

\* What the fill plotter has painted when it comes to a set.
Painting(acc) ==
  IsBehind(acc.under) /\ acc.paths \in [1..2 -> Seq(Action)]

Painted(pts, axisY, width, opts, s, acc) ==
  LET done == FillSet(pts[s], axisY, acc.under, opts[s])
  IN  IF ~opts[s].fillGraph THEN acc
      ELSE [under |-> done,
            paths |-> [acc.paths EXCEPT ![s] = IF Len(pts[s]) > 2 * width THEN FastPath(done.path)
                                               ELSE done.path]]

NothingPainted ==
  [under |-> [path |-> << >>, baseline |-> << >>, newYs |-> Null, point |-> Null, stepPlot |-> FALSE],
   paths |-> [s \in 1..2 |-> << >>]]

LEMMA PaintedType ==
  ASSUME NEW pts, NEW s \in 1..2, pts[s] \in Seq(CanvasPoint), NEW axisY \in Int, NEW width, NEW opts,
         NEW acc, Painting(acc)
  PROVE  Painting(Painted(pts, axisY, width, opts, s, acc))
<1> DEFINE done == FillSet(pts[s], axisY, acc.under, opts[s])
           path == IF Len(pts[s]) > 2 * width THEN FastPath(done.path) ELSE done.path
           r == [under |-> done, paths |-> [acc.paths EXCEPT ![s] = path]]
<1>1. IsBehind(done)
  <2>1. IsBehind(acc.under)
    BY DEF Painting
  <2> QED
    BY <2>1, FillSetType
<1>2. Painted(pts, axisY, width, opts, s, acc) = IF ~opts[s].fillGraph THEN acc ELSE r
  BY DEF Painted
<1> HIDE DEF done
<1>3. path \in Seq(Action)
  <2>1. done.path \in Seq(Action)
    BY <1>1 DEF IsBehind
  <2>2. FastPath(done.path) \in Seq(Action)
    BY <2>1, FastPathReaches
  <2> QED
    BY <2>1, <2>2
<1> HIDE DEF path
<1>4. Painting(r)
  <2>1. r.under = done /\ r.paths = [acc.paths EXCEPT ![s] = path]
    OBVIOUS
  <2>2. acc.paths \in [1..2 -> Seq(Action)]
    BY DEF Painting
  <2>3. r.paths \in [1..2 -> Seq(Action)]
    BY <1>3, <2>1, <2>2
  <2> QED
    BY <1>1, <2>1, <2>3 DEF Painting
<1> QED
  BY <1>2, <1>4

\* The last set is painted first, and nothing else is on the canvas.
LEMMA FillPlotterIs ==
  ASSUME NEW pts, DOMAIN pts = 1..2, NEW axisY, NEW width, NEW opts
  PROVE  FillPlotter(pts, axisY, width, opts) =
           Painted(pts, axisY, width, opts, 1,
                   Painted(pts, axisY, width, opts, 2, NothingPainted)).paths
<1> DEFINE Paint(s, acc) == Painted(pts, axisY, width, opts, s, acc)
           order == [s \in DOMAIN pts |-> s]
           IsFold(h) == h = [S \in SUBSET DOMAIN order |->
                               IF S = {} THEN NothingPainted
                               ELSE Paint(order[Min(S)], h[S \ {Min(S)}])]
           f == CHOOSE h : IsFold(h)
<1>1. FillPlotter(pts, axisY, width, opts) = f[DOMAIN order].paths
  BY DEF FillPlotter, FoldRight, MapThenFoldSet, Painted, NothingPainted
<1>2. DOMAIN order = {1, 2} /\ order[1] = 1 /\ order[2] = 2
  OBVIOUS
<1>3. Min({1}) = 1 /\ Min({2}) = 2 /\ Min({1, 2}) = 1
  <2>1. \A S \in {{1}, {2}, {1, 2}} : Min(S) \in S /\ \A y \in S : Min(S) <= y
    <3> SUFFICES ASSUME NEW S \in {{1}, {2}, {1, 2}}
                 PROVE  Min(S) \in S /\ \A y \in S : Min(S) <= y
      OBVIOUS
    <3>1. 2 \in Int /\ S \in SUBSET (1..2) /\ S # {}
      OBVIOUS
    <3> QED
      BY <3>1, IndexMinMax, Zenon
  <2> QED
    BY <2>1
<1> HIDE DEF Paint, order
<1>4. \E h : IsFold(h)
  <2> DEFINE h == [S \in SUBSET {1, 2} |->
                     IF S = {} THEN NothingPainted
                     ELSE IF S = {1} THEN Paint(1, NothingPainted)
                     ELSE IF S = {2} THEN Paint(2, NothingPainted)
                     ELSE Paint(1, Paint(2, NothingPainted))]
  <2>1. h[{}] = NothingPainted /\ h[{2}] = Paint(2, NothingPainted)
    OBVIOUS
  <2>2. \A S \in SUBSET {1, 2} : S = {} \/ S = {1} \/ S = {2} \/ S = {1, 2}
    OBVIOUS
  <2>3. ASSUME NEW S \in SUBSET {1, 2}
        PROVE  h[S] = IF S = {} THEN NothingPainted ELSE Paint(order[Min(S)], h[S \ {Min(S)}])
    <3>1. CASE S = {}
      BY <3>1
    <3>2. CASE S = {1}
      <4>1. S \ {Min(S)} = {} /\ order[Min(S)] = 1 /\ h[S] = Paint(1, NothingPainted)
        BY <1>2, <1>3, <3>2
      <4> HIDE DEF h
      <4> QED
        BY <2>1, <3>2, <4>1
    <3>3. CASE S = {2}
      <4>1. S \ {Min(S)} = {} /\ order[Min(S)] = 2
        BY <1>2, <1>3, <3>3
      <4> HIDE DEF h
      <4> QED
        BY <2>1, <3>3, <4>1
    <3>4. CASE S = {1, 2}
      <4>1. S \ {Min(S)} = {2} /\ order[Min(S)] = 1
        BY <1>2, <1>3, <3>4
      <4>2. h[S] = Paint(1, Paint(2, NothingPainted))
        BY <3>4
      <4> HIDE DEF h
      <4> QED
        BY <2>1, <3>4, <4>1, <4>2
    <3> QED
      BY <2>2, <3>1, <3>2, <3>3, <3>4
  <2>4. h = [S \in SUBSET {1, 2} |-> h[S]]
    OBVIOUS
  <2> HIDE DEF h
  <2>5. IsFold(h)
    BY <1>2, <2>3, <2>4
  <2> QED
    BY <2>5
<1>5. IsFold(f)
  BY <1>4
<1> HIDE DEF f
<1>6. f[{}] = NothingPainted
  BY <1>2, <1>5
<1>7. f[{2}] = Paint(2, NothingPainted)
  <2>1. {2} \ {Min({2})} = {} /\ order[Min({2})] = 2 /\ {2} \in SUBSET DOMAIN order
    BY <1>2, <1>3
  <2> QED
    BY <1>5, <1>6, <2>1
<1>8. f[{1, 2}] = Paint(1, Paint(2, NothingPainted))
  <2>1. {1, 2} \ {Min({1, 2})} = {2} /\ order[Min({1, 2})] = 1 /\ {1, 2} \in SUBSET DOMAIN order
    BY <1>2, <1>3
  <2> QED
    BY <1>5, <1>7, <2>1
<1> QED
  BY <1>1, <1>2, <1>8 DEF Paint

LEMMA FillPlotterType ==
  ASSUME NEW pts, DOMAIN pts = 1..2, pts[1] \in Seq(CanvasPoint), pts[2] \in Seq(CanvasPoint),
         NEW axisY \in Int, NEW width, NEW opts, NEW s \in 1..2
  PROVE  FillPlotter(pts, axisY, width, opts)[s] \in Seq(Action)
<1> DEFINE a == Painted(pts, axisY, width, opts, 2, NothingPainted)
           b == Painted(pts, axisY, width, opts, 1, a)
<1>1. Painting(NothingPainted)
  <2>1. << >> \in Seq(Action)
    OBVIOUS
  <2> QED
    BY <2>1, NoBaseline DEF Painting, NothingPainted, IsBehind
<1>2. Painting(a)
  <2>1. PICK k \in 1..2 : k = 2
    OBVIOUS
  <2>2. Painting(Painted(pts, axisY, width, opts, k, NothingPainted))
    BY <1>1, <2>1, PaintedType
  <2> QED
    BY <2>1, <2>2
<1> HIDE DEF a
<1>3. Painting(b)
  <2>1. PICK k \in 1..2 : k = 1
    OBVIOUS
  <2>2. Painting(Painted(pts, axisY, width, opts, k, a))
    BY <1>2, <2>1, PaintedType
  <2> QED
    BY <2>1, <2>2
<1> HIDE DEF b
<1>4. FillPlotter(pts, axisY, width, opts) = b.paths
  BY FillPlotterIs DEF a, b
<1> QED
  BY <1>3, <1>4 DEF Painting

-----------------------------------------------------------------------------
(* What series are stacked with *)

\* The points of a window go to the right.
Rising(pts) == pts \in Seq(Point) /\ \A i, j \in 1..Len(pts) : i <= j => pts[i].xval <= pts[j].xval

LEMMA PointsRise ==
  ASSUME NEW series \in Seq(Sample), Sorted(series), NEW window \in Int \X Int \cup {Null}
  PROVE  Rising(GatherDatasets(series, window).points)
<1> DEFINE pts == GatherDatasets(series, window).points
           n == Len(series)
<1>1. PICK a \in Nat \ {0}, b \in 0..Len(series) : BoundaryIds(series, window) = <<a, b>>
  BY BoundaryIdsType
<1>2. pts = SeriesToPoints(series, <<a, b>>)
  BY <1>1 DEF GatherDatasets
<1>3. n \in Nat /\ b <= n /\ b \in Int /\ a \in Int /\ a >= 1
  BY LenProperties
<1>4. pts \in Seq(Point)
  BY GatherDatasetsType
<1>5. pts = [k \in 1..(b - a + 1) |-> [xval |-> series[a + k - 1][1],
                                       yval |-> series[a + k - 1][2], idx |-> a + k - 1]]
  BY <1>2 DEF SeriesToPoints
<1>6. DOMAIN pts = 1..Len(pts)
  BY <1>4, LenProperties
<1>7. DOMAIN pts = 1..(b - a + 1) /\ \A k \in DOMAIN pts : pts[k].xval = series[a + k - 1][1]
  BY <1>5
<1> HIDE DEF pts, n
<1>8. ASSUME NEW i \in 1..Len(pts), NEW j \in 1..Len(pts), i <= j
      PROVE  pts[i].xval <= pts[j].xval
  <2>1. i \in Int /\ j \in Int /\ i >= 1 /\ j <= b - a + 1
    BY <1>3, <1>6, <1>7
  <2>2. a + i - 1 \in 1..n /\ a + j - 1 \in 1..n /\ a + i - 1 <= a + j - 1
    BY <1>3, <1>8, <2>1
  <2>3. series[a + i - 1][1] <= series[a + j - 1][1]
    BY <2>2 DEF Sorted, n
  <2> QED
    BY <1>6, <1>7, <2>3
<1> QED
  BY <1>4, <1>8 DEF Rising, pts

\* What a point is stacked with is a number: between two samples with values the
\* division is by how far they are apart.
LEMMA FilledInType ==
  ASSUME NEW pts, Rising(pts), NEW k \in 1..Len(pts),
         \A j \in 1..Len(pts) : j < k => pts[j].xval # pts[k].xval, NEW method
  PROVE  FilledIn(pts, k, method) \in Int
<1> DEFINE n == Len(pts)
           valued == {j \in DOMAIN pts : ~Missing(pts[j].yval)}
           before == {j \in valued : j < k}
           behind == {j \in valued : j > k}
           prev == pts[Max(before)]
           next == pts[Min(behind)]
           hasPrev == \E j \in valued : j < k
           hasNext == \E j \in valued : j > k
           between == prev.yval + ((next.yval - prev.yval) * (pts[k].xval - prev.xval))
                                    \div (next.xval - prev.xval)
<1>1. /\ n \in Nat /\ n \in Int /\ DOMAIN pts = 1..n
      /\ \A j \in 1..n : pts[j] \in Point
  BY LenProperties, ElementOfSeq DEF Rising
<1>2. \A i, j \in 1..n : i <= j => pts[i].xval <= pts[j].xval
  BY DEF Rising
<1>3. \A j \in 1..n : pts[j].xval \in Int
  BY <1>1 DEF Point
<1>4. \A j \in valued : j \in 1..n /\ pts[j].yval \in Int
  BY <1>1 DEF Point, Value, Missing
<1>5. \/ k \in valued /\ FilledIn(pts, k, method) = pts[k].yval
      \/ hasPrev /\ hasNext /\ FilledIn(pts, k, method) = between
      \/ hasPrev /\ FilledIn(pts, k, method) = prev.yval
      \/ hasNext /\ FilledIn(pts, k, method) = next.yval
      \/ FilledIn(pts, k, method) = 0
  BY Zenon DEF FilledIn
<1> HIDE DEF n
<1>6. before \in SUBSET (1..n) /\ behind \in SUBSET (1..n)
  BY <1>4
<1> HIDE DEF valued
<1>7. ASSUME hasPrev
      PROVE  Max(before) \in 1..n /\ Max(before) < k /\ prev.yval \in Int
  <2>1. before # {}
    BY <1>7
  <2> HIDE DEF before
  <2>2. Max(before) \in before
    BY <1>1, <1>6, <2>1, IndexMinMax, Zenon
  <2> QED
    BY <1>4, <2>2 DEF before
<1>8. ASSUME hasNext
      PROVE  Min(behind) \in 1..n /\ k < Min(behind) /\ next.yval \in Int
  <2>1. behind # {}
    BY <1>8
  <2> HIDE DEF behind
  <2>2. Min(behind) \in behind
    BY <1>1, <1>6, <2>1, IndexMinMax, Zenon
  <2> QED
    BY <1>4, <2>2 DEF behind
<1> HIDE DEF before, behind, hasPrev, hasNext
<1>9. ASSUME hasPrev, hasNext PROVE between \in Int
  <2> DEFINE p == Max(before)
             q == Min(behind)
  <2>1. p \in 1..n /\ q \in 1..n /\ p < k /\ k < q /\ k \in 1..n
    BY <1>7, <1>8, <1>9 DEF n
  <2>2. prev.yval \in Int /\ next.yval \in Int
    BY <1>7, <1>8, <1>9
  <2> HIDE DEF p, q
  <2>3. pts[p].xval \in Int /\ pts[q].xval \in Int /\ pts[k].xval \in Int
    BY <1>3, <2>1
  <2>4. pts[p].xval <= pts[k].xval /\ pts[k].xval <= pts[q].xval /\ pts[p].xval # pts[k].xval
    BY <1>1, <1>2, <2>1 DEF n
  <2>5. prev.xval = pts[p].xval /\ next.xval = pts[q].xval
    BY DEF p, q
  <2> DEFINE d == next.xval - prev.xval
             e == (next.yval - prev.yval) * (pts[k].xval - prev.xval)
  <2>6. d \in Int /\ d > 0
    BY <2>3, <2>4, <2>5
  <2>7. e \in Int
    BY <2>2, <2>3, <2>5
  <2> HIDE DEF d, e, prev, next
  <2>8. e \div d \in Int
    BY <2>6, <2>7
  <2>9. between = prev.yval + (e \div d)
    BY DEF d, e
  <2> HIDE DEF between
  <2> QED
    BY <2>2, <2>8, <2>9
<1> HIDE DEF prev, next, between
<1> QED
  BY <1>4, <1>5, <1>7, <1>8, <1>9

\* What lies below an x, if there is anything.
Sums(c) == \A x \in DOMAIN c : c[x] \in Int

LEMMA FirstAtX ==
  ASSUME NEW pts, Rising(pts), NEW k \in 1..Len(pts),
         NEW i, i = Min({j \in 1..k : pts[j].xval = pts[k].xval})
  PROVE  /\ i \in 1..Len(pts) /\ pts[i].xval = pts[k].xval
         /\ \A j \in 1..Len(pts) : j < i => pts[j].xval # pts[i].xval
<1> DEFINE n == Len(pts)
           S == {j \in 1..k : pts[j].xval = pts[k].xval}
<1>1. n \in Nat /\ n \in Int
  BY LenProperties DEF Rising
<1>2. S \in SUBSET (1..n) /\ k \in S
  BY <1>1
<1> HIDE DEF n
<1>3. i = Min(S)
  OBVIOUS
<1> HIDE DEF S
<1>4. Min(S) \in S /\ \A y \in S : Min(S) <= y
  BY <1>1, <1>2, IndexMinMax, Zenon
<1>5. i \in S /\ i \in 1..n /\ \A y \in S : i <= y
  BY <1>2, <1>3, <1>4
<1>6. pts[i].xval = pts[k].xval
  BY <1>5 DEF S
<1>7. ASSUME NEW j \in 1..n, j < i PROVE pts[j].xval # pts[i].xval
  <2>1. j \notin S /\ j \in 1..k
    BY <1>1, <1>2, <1>5, <1>7
  <2> QED
    BY <1>6, <2>1 DEF S
<1> QED
  BY <1>5, <1>6, <1>7 DEF n

LEMMA StackPointsType ==
  ASSUME NEW pts, Rising(pts), NEW c, Sums(c), NEW method
  PROVE  /\ DOMAIN StackPoints(pts, c, method) = 1..Len(pts)
         /\ \A k \in 1..Len(pts) : StackPoints(pts, c, method)[k] \in Int
<1> DEFINE n == Len(pts)
           first(k) == Min({j \in 1..k : pts[j].xval = pts[k].xval})
           st == StackPoints(pts, c, method)
<1>1. DOMAIN pts = 1..n
  BY LenProperties DEF Rising
<1>2. st = [k \in 1..n |-> SumAt(c, pts[k].xval) + FilledIn(pts, first(k), method)]
  BY <1>1 DEF StackPoints
<1> HIDE DEF st, n
<1>3. ASSUME NEW k \in 1..n PROVE st[k] \in Int
  <2>1. SumAt(c, pts[k].xval) \in Int
    BY DEF SumAt, Sums
  <2> DEFINE i == first(k)
  <2>2. /\ i \in 1..n
        /\ \A j \in 1..n : j < i => pts[j].xval # pts[i].xval
    BY FirstAtX DEF n
  <2> HIDE DEF i
  <2>3. FilledIn(pts, i, method) \in Int
    BY <2>2, FilledInType DEF n
  <2>4. st[k] = SumAt(c, pts[k].xval) + FilledIn(pts, i, method)
    BY <1>2 DEF i
  <2> QED
    BY <2>1, <2>3, <2>4
<1>4. DOMAIN st = 1..n
  BY <1>2
<1> QED
  BY <1>3, <1>4 DEF st, n

LEMMA CumulativeType ==
  ASSUME NEW pts, Rising(pts), NEW c, Sums(c), NEW method
  PROVE  Sums(CumulativeBehind(pts, c, method))
<1> DEFINE n == Len(pts)
           st == StackPoints(pts, c, method)
           xvals == {pts[k].xval : k \in DOMAIN pts}
           whereX(x) == {k \in DOMAIN pts : pts[k].xval = x}
           r == CumulativeBehind(pts, c, method)
<1>1. n \in Int /\ DOMAIN pts = 1..n
  BY LenProperties DEF Rising
<1>2. r = [x \in DOMAIN c \cup xvals |-> IF x \in xvals THEN st[Min(whereX(x))] ELSE c[x]]
  BY DEF CumulativeBehind
<1>3. \A k \in 1..n : st[k] \in Int
  BY StackPointsType
<1> HIDE DEF r, n, st
<1>4. ASSUME NEW x \in xvals PROVE st[Min(whereX(x))] \in Int
  <2>1. whereX(x) \in SUBSET (1..n) /\ whereX(x) # {}
    BY <1>1
  <2> HIDE DEF whereX
  <2>2. Min(whereX(x)) \in whereX(x)
    BY <1>1, <2>1, IndexMinMax, Zenon
  <2> QED
    BY <1>3, <2>1, <2>2
<1>5. DOMAIN r = DOMAIN c \cup xvals
  BY <1>2
<1> HIDE DEF xvals, whereX
<1>6. \A x \in DOMAIN r : r[x] \in Int
  BY <1>2, <1>4, <1>5 DEF Sums
<1> QED
  BY <1>6 DEF Sums, r

LEMMA StackSetsType ==
  ASSUME NEW two, two \in Seq(Seq(Point)), Len(two) = 2, Rising(two[1]), Rising(two[2]), NEW method,
         NEW s \in 1..2
  PROVE  /\ DOMAIN StackSets(two, method)[s] = 1..Len(two[s])
         /\ \A k \in 1..Len(two[s]) : StackSets(two, method)[s][k] \in Int
<1> DEFINE IsBelow(h) == h = [i \in 1..(Len(two) + 1) |->
                                IF i > Len(two) THEN << >> ELSE CumulativeBehind(two[i], h[i + 1], method)]
           b == CHOOSE h : IsBelow(h)
           top == << >>
           c2 == CumulativeBehind(two[2], top, method)
           c1 == CumulativeBehind(two[1], c2, method)
<1>1. StackSets(two, method) = [i \in DOMAIN two |-> StackPoints(two[i], b[i + 1], method)]
  BY Zenon DEF StackSets
<1>2. DOMAIN two = 1..2 /\ 1..(Len(two) + 1) = 1..3
  BY LenProperties
<1>3. Sums(top)
  BY DEF Sums
<1> HIDE DEF top
<1>4. Sums(c2)
  BY <1>3, CumulativeType
<1> HIDE DEF c1, c2
<1>5. \E h : IsBelow(h)
  <2> DEFINE h == [i \in 1..3 |-> IF i > 2 THEN top ELSE IF i = 2 THEN c2 ELSE c1]
  <2>1. h[1] = c1 /\ h[2] = c2 /\ h[3] = top
    OBVIOUS
  <2>2. ASSUME NEW i \in 1..3
        PROVE  h[i] = IF i > Len(two) THEN << >> ELSE CumulativeBehind(two[i], h[i + 1], method)
    <3>1. CASE i = 1
      <4> HIDE DEF h
      <4>1. i + 1 = 2 /\ ~(i > Len(two))
        BY <3>1
      <4> QED
        BY <2>1, <3>1, <4>1 DEF c1
    <3>2. CASE i = 2
      <4> HIDE DEF h
      <4>1. i + 1 = 3 /\ ~(i > Len(two))
        BY <3>2
      <4> QED
        BY <2>1, <3>2, <4>1 DEF c2
    <3>3. CASE i = 3
      <4> HIDE DEF h
      <4>1. i > Len(two)
        BY <3>3
      <4> QED
        BY <2>1, <3>3, <4>1 DEF top
    <3> QED
      BY <3>1, <3>2, <3>3
  <2>3. h = [i \in 1..3 |-> h[i]]
    OBVIOUS
  <2> HIDE DEF h
  <2>4. IsBelow(h)
    BY <1>2, <2>2, <2>3
  <2> QED
    BY <2>4
<1>6. IsBelow(b)
  BY <1>5
<1> HIDE DEF b
<1>7. b[3] = top
  BY <1>2, <1>6 DEF top
<1>8. b[2] = c2
  BY <1>2, <1>6, <1>7 DEF c2
<1>9. Sums(b[s + 1])
  <2>1. s = 1 \/ s = 2
    OBVIOUS
  <2>2. CASE s = 1
    BY <1>4, <1>8, <2>2
  <2>3. CASE s = 2
    BY <1>3, <1>7, <2>3
  <2> QED
    BY <2>1, <2>2, <2>3
<1>10. Rising(two[s])
  OBVIOUS
<1> DEFINE pts == two[s]
           c == b[s + 1]
<1>11. StackSets(two, method)[s] = StackPoints(pts, c, method)
  BY <1>1, <1>2
<1> HIDE DEF pts, c
<1>12. Rising(pts) /\ Sums(c)
  BY <1>9, <1>10 DEF pts, c
<1>13. /\ DOMAIN StackPoints(pts, c, method) = 1..Len(pts)
       /\ \A k \in 1..Len(pts) : StackPoints(pts, c, method)[k] \in Int
  BY <1>12, StackPointsType
<1> QED
  BY <1>11, <1>13 DEF pts

\* A point on the canvas.
LEMMA EvaluateLineType ==
  ASSUME NEW pts \in Seq(Point),
         NEW st, st = << >> \/ \A k \in 1..Len(pts) : st[k] \in Int,
         NEW bars, \A k \in 1..Len(pts) : bars[k] \in Value \X Value,
         NEW connect, NEW origin \in Int, NEW unit \in Nat \ {0}
  PROVE  EvaluateLine(pts, st, bars, connect, origin, unit) \in Seq(CanvasPoint)
<1> DEFINE n == Len(pts)
           height(v) == IF Missing(v) THEN NaN ELSE v
           sum(k) == IF st = << >> THEN NaN ELSE st[k]
           bar(k) == IF bars = << >> THEN <<NaN, NaN>> ELSE bars[k]
           pt(k) == [xval |-> pts[k].xval, idx |-> pts[k].idx, x |-> origin + pts[k].xval \div unit,
                     yval |-> IF pts[k].yval = Null /\ ~connect THEN NaN ELSE pts[k].yval,
                     y    |-> height(IF Missing(pts[k].yval) \/ st = << >> THEN pts[k].yval ELSE sum(k)),
                     low  |-> height(bar(k)[1]), high |-> height(bar(k)[2]),
                     stacked |-> height(sum(k))]
<1>1. n \in Nat /\ DOMAIN pts = 1..n /\ \A k \in 1..n : pts[k] \in Point
  BY LenProperties, ElementOfSeq
<1>2. EvaluateLine(pts, st, bars, connect, origin, unit) = [k \in 1..n |-> pt(k)]
  BY <1>1 DEF EvaluateLine
<1>3. \A v \in Value : height(v) \in Level
  BY DEF Value, Level, Missing
<1> HIDE DEF n
<1>4. ASSUME NEW k \in 1..n PROVE pt(k) \in CanvasPoint
  <2>1. pts[k].xval \in Int /\ pts[k].yval \in Value /\ pts[k].idx \in Int
    BY <1>1 DEF Point
  <2>2. sum(k) \in Value
    BY DEF Value, n
  <2>3. bar(k)[1] \in Value /\ bar(k)[2] \in Value
    <3>1. bars[k] \in Value \X Value
      BY DEF n
    <3>2. NaN \in Value
      BY DEF Value
    <3> QED
      BY <3>1, <3>2
  <2>4. origin + pts[k].xval \div unit \in Int
    <3> DEFINE q == pts[k].xval \div unit
    <3>1. q \in Int
      BY <2>1
    <3> HIDE DEF q
    <3>2. origin + q \in Int
      BY <3>1
    <3> QED
      BY <3>2 DEF q
  <2> DEFINE yv == IF pts[k].yval = Null /\ ~connect THEN NaN ELSE pts[k].yval
             x == origin + pts[k].xval \div unit
             y == height(IF Missing(pts[k].yval) \/ st = << >> THEN pts[k].yval ELSE sum(k))
             low == height(bar(k)[1])
             high == height(bar(k)[2])
             stack == height(sum(k))
  <2>5. yv \in Value
    BY <2>1 DEF Value
  <2> HIDE DEF sum, bar, height
  <2>6. y \in Level /\ low \in Level /\ high \in Level /\ stack \in Level
    BY <1>3, <2>1, <2>2, <2>3
  <2>7. pt(k) = [xval |-> pts[k].xval, idx |-> pts[k].idx, x |-> x, yval |-> yv, y |-> y,
                 low |-> low, high |-> high, stacked |-> stack]
    OBVIOUS
  <2> HIDE DEF pt, x, yv, y, low, high, stack
  <2>8. x \in Int
    BY <2>4 DEF x
  <2> QED
    BY <2>1, <2>5, <2>6, <2>7, <2>8 DEF CanvasPoint
<1> HIDE DEF pt
<1>5. [k \in 1..n |-> pt(k)] \in Seq(CanvasPoint)
  BY <1>1, <1>4
<1> QED
  BY <1>2, <1>5

-----------------------------------------------------------------------------
(* The picture of a file *)

\* Each stage shows what the one before it made of the rows.
StagesInv ==
  /\ PipelineInv
  /\ stacks = Stack(gathered)
  /\ sets = CanvasSets(gathered, stacks)
  /\ drawing = Rendered(sets)

LEMMA StagesInvariant == PipelineSpec => []StagesInv
<1>1. PipelineInit /\ PipelineInv => StagesInv
  BY DEF PipelineInit, StagesInv
<1>2. StagesInv /\ PipelineInv' /\ [PipelineNext]_pipelineVars => StagesInv'
  <2>1. ASSUME PipelineInv', NEW line \in Lines, FileGrows(line) PROVE StagesInv'
    BY <2>1 DEF StagesInv, FileGrows
  <2>2. ASSUME StagesInv, PipelineInv', UNCHANGED pipelineVars PROVE StagesInv'
    BY <2>2 DEF StagesInv, pipelineVars
  <2> QED
    BY <2>1, <2>2 DEF PipelineNext
<1> QED
  BY <1>1, <1>2, PipelineInvariant, PTL DEF PipelineSpec

\* What a window shows goes to the right.
LEMMA ShownRises ==
  ASSUME PipelineInv, NEW window \in Shown, NEW s \in DOMAIN labels
  PROVE  Rising(gathered[window][s].points)
<1> DEFINE series == Series(rows, s)
<1>1. /\ series \in Seq(Sample) /\ Sorted(series)
      /\ gathered[window][s] = GatherDatasets(series, window)
  BY WindowOfSeries
<1>2. window \in Int \X Int \cup {Null}
  BY PipelineAssumption DEF Shown
<1> HIDE DEF series
<1>3. Rising(GatherDatasets(series, window).points)
  BY <1>1, <1>2, PointsRise
<1> QED
  BY <1>1, <1>3

\* The stacked values of what a window shows are numbers.
LEMMA StacksType ==
  ASSUME StagesInv, NEW window \in Shown, NEW s \in DOMAIN labels
  PROVE  \A k \in 1..Len(gathered[window][s].points) : stacks[window][s][k] \in Int
<1> DEFINE pts(i) == gathered[window][i].points
           two == [i \in DOMAIN labels |-> pts(i)]
<1>1. DOMAIN labels = 1..2
  BY DEF labels
<1>2. PipelineInv
  BY DEF StagesInv
<1>3. ASSUME NEW i \in 1..2 PROVE Rising(pts(i)) /\ pts(i) \in Seq(Point)
  <2>1. Rising(pts(i))
    BY <1>1, <1>2, ShownRises
  <2> QED
    BY <2>1 DEF Rising
<1>4. stacks[window] = StackSets(two, "all")
  BY DEF StagesInv, Stack
<1> HIDE DEF pts
<1>5. two \in [1..2 -> Seq(Point)] /\ two[1] = pts(1) /\ two[2] = pts(2) /\ two[s] = pts(s)
  BY <1>1, <1>3
<1> HIDE DEF two
<1>6. two \in Seq(Seq(Point)) /\ Len(two) = 2
  <2> DEFINE X == Seq(Point)
  <2>1. two \in [1..2 -> X]
    BY <1>5
  <2> HIDE DEF X
  <2>2. PICK n \in Nat : n = 2
    OBVIOUS
  <2>3. two \in [1..n -> X]
    BY <2>1, <2>2
  <2>4. two \in Seq(X)
    BY ONLY <2>3
  <2>5. Len(two) = 2
    BY <2>2, <2>3, <2>4, LenProperties
  <2> QED
    BY <2>4, <2>5 DEF X
<1>7. Rising(two[1]) /\ Rising(two[2]) /\ s \in 1..2
  BY <1>1, <1>3, <1>5
<1>8. \A k \in 1..Len(two[s]) : StackSets(two, "all")[s][k] \in Int
  <2>1. PICK method : method = "all"
    OBVIOUS
  <2>2. \A k \in 1..Len(two[s]) : StackSets(two, method)[s][k] \in Int
    BY ONLY <1>6, <1>7, StackSetsType
  <2> QED
    BY <2>1, <2>2
<1> QED
  BY <1>4, <1>5, <1>8 DEF pts

\* The points on the canvas.
LEMMA SetsType ==
  ASSUME StagesInv, NEW v \in Views, NEW s \in DOMAIN labels
  PROVE  DOMAIN sets[v] = 1..2 /\ sets[v][s] \in Seq(CanvasPoint)
<1> DEFINE u == v[1]
           w == v[2]
           pts == gathered[w][s].points
           o == Options[u][s]
           st == IF o.stacked THEN stacks[w][s] ELSE << >>
           bars == Bars(pts)
<1>1. DOMAIN labels = 1..2 /\ w \in Shown /\ u \in Users
  BY DEF labels, Views
<1>2. sets[v] = [i \in DOMAIN labels |->
                   Canvas(gathered[w][i].points, stacks[w][i], Options[u][i])]
  BY DEF StagesInv, CanvasSets
<1>3. Rising(pts)
  BY <1>1, ShownRises DEF StagesInv
<1>4. \A k \in 1..Len(pts) : stacks[w][s][k] \in Int
  BY <1>1, StacksType
<1>5. sets[v][s] = EvaluateLine(pts, st, bars, o.connect, 20, 10)
  BY <1>2 DEF Canvas
<1> HIDE DEF pts, o
<1>6. pts \in Seq(Point) /\ DOMAIN pts = 1..Len(pts) /\ \A k \in 1..Len(pts) : pts[k] \in Point
  <2>1. pts \in Seq(Point)
    BY <1>3 DEF Rising
  <2> QED
    BY <2>1, LenProperties, ElementOfSeq
<1>7. \A k \in 1..Len(pts) : bars[k] \in Value \X Value
  <2> SUFFICES ASSUME NEW k \in 1..Len(pts) PROVE bars[k] \in Value \X Value
    OBVIOUS
  <2>1. bars[k] = IF Missing(pts[k].yval) THEN <<NaN, NaN>>
                  ELSE <<pts[k].yval - 1, pts[k].yval + 1>>
    BY <1>6 DEF Bars
  <2>2. pts[k].yval \in Value
    BY <1>6 DEF Point
  <2> HIDE DEF bars
  <2> QED
    BY <2>1, <2>2 DEF Value, Missing
<1>8. st = << >> \/ \A k \in 1..Len(pts) : st[k] \in Int
  BY <1>4
<1> HIDE DEF st, bars
<1>9. EvaluateLine(pts, st, bars, o.connect, 20, 10) \in Seq(CanvasPoint)
  <2>1. PICK origin \in Int, unit \in Nat \ {0} : origin = 20 /\ unit = 10
    OBVIOUS
  <2> DEFINE connect == o.connect
  <2> HIDE DEF connect
  <2>2. EvaluateLine(pts, st, bars, connect, origin, unit) \in Seq(CanvasPoint)
    BY <1>6, <1>7, <1>8, EvaluateLineType
  <2> QED
    BY <2>1, <2>2 DEF connect
<1> QED
  BY <1>1, <1>2, <1>5, <1>9

\* The fill of a series is a path.
LEMMA FillsArePaths ==
  ASSUME StagesInv, NEW v \in Views, NEW s \in DOMAIN labels
  PROVE  drawing[v][s].fill \in Seq(Action)
<1> DEFINE pts == sets[v]
           opts == Options[v[1]]
           fills == FillPlotter(pts, 0, 100, opts)
<1>1. DOMAIN labels = 1..2
  BY DEF labels
<1>2. DOMAIN pts = 1..2 /\ pts[1] \in Seq(CanvasPoint) /\ pts[2] \in Seq(CanvasPoint)
  BY <1>1, SetsType
<1>3. drawing[v] = RenderLineChart(pts, 0, 100, TRUE, opts)
  BY DEF StagesInv, Rendered
<1> HIDE DEF pts, opts
<1>4. drawing[v][s].fill = fills[s]
  BY <1>1, <1>2, <1>3 DEF RenderLineChart
<1>5. fills[s] \in Seq(Action)
  <2>1. PICK axisY \in Int, width \in Int : axisY = 0 /\ width = 100
    OBVIOUS
  <2>2. s \in 1..2
    BY <1>1
  <2>3. FillPlotter(pts, axisY, width, opts)[s] \in Seq(Action)
    BY <1>2, <2>2, FillPlotterType
  <2> QED
    BY <2>1, <2>3
<1> QED
  BY <1>4, <1>5

\* The compression of a fill keeps its shape in every picture: lossless, its lines
\* are the same; otherwise every pixel column reaches as far up and down as before
\* (compressActions and the proxy of _fastCanvasProxy, for every path the fill
\* plotter can draw).
THEOREM FillsKeepShape == PipelineSpec => []FillKeepsShape
<1>1. StagesInv => FillKeepsShape
  <2> SUFFICES ASSUME StagesInv, NEW v \in Views, NEW s \in DOMAIN labels
               PROVE  LET path == drawing[v][s].fill
                          fast == FastPath(path)
                      IN  /\ Segments(CompressActions(path, TRUE)) = Segments(path)
                          /\ \A c \in {Column(a[2]) : a \in ToSet(path)} :
                               ColumnExtent(fast, c) = ColumnExtent(path, c)
    BY DEF FillKeepsShape
  <2> DEFINE path == drawing[v][s].fill
             fast == FastPath(path)
  <2>1. path \in Seq(Action)
    BY FillsArePaths
  <2> HIDE DEF path
  <2>2. Segments(CompressActions(path, TRUE)) = Segments(path)
    BY <2>1, LosslessThins DEF Thins
  <2>3. fast \in Seq(Action) /\ Reaches(ToSet(fast), ToSet(path))
    BY <2>1, FastPathReaches
  <2> HIDE DEF fast
  <2>4. \A c : ColumnExtent(fast, c) = ColumnExtent(path, c)
    BY <2>1, <2>3, ExtentKept
  <2> QED
    BY <2>2, <2>4 DEF path, fast
<1> QED
  BY <1>1, StagesInvariant, PTL

-----------------------------------------------------------------------------
(* What a line is made of *)

\* An action goes to a place.
LEMMA TailOfAction ==
  ASSUME NEW c, NEW x, NEW y
  PROVE  Tail(<<c, x, y>>) = <<x, y>>
OBVIOUS

\* One more action is one more segment if it is a line and not the first.
LEMMA SegmentsAppend ==
  ASSUME NEW path \in Seq(Action), NEW a \in Action
  PROVE  /\ Append(path, a) \in Seq(Action)
         /\ Append(path, a) # << >> /\ Append(path, a)[Len(Append(path, a))] = a
         /\ Segments(Append(path, a)) =
              Segments(path) \cup (IF a[1] = "L" /\ path # << >>
                                   THEN {<<Tail(path[Len(path)]), Tail(a)>>} ELSE {})
<1> DEFINE n == Len(path)
           t == Append(path, a)
           seg(p, i) == <<Tail(p[i - 1]), Tail(p[i])>>
           new == IF a[1] = "L" /\ path # << >> THEN {<<Tail(path[n]), Tail(a)>>} ELSE {}
<1>1. n \in Nat /\ (path # << >> <=> n >= 1)
  BY LenProperties
<1>2. t \in Seq(Action) /\ t # << >> /\ Len(t) = n + 1 /\ t[n + 1] = a
      /\ \A i \in 1..n : t[i] = path[i]
  BY <1>1
<1>3. /\ Segments(t) = {seg(t, i) : i \in {j \in 2..(n + 1) : t[j][1] = "L"}}
      /\ Segments(path) = {seg(path, i) : i \in {j \in 2..n : path[j][1] = "L"}}
  BY <1>2 DEF Segments
<1> HIDE DEF n, t
<1>4. \A i \in 2..n : i \in 1..n /\ i - 1 \in 1..n
  BY <1>1
<1>5. \A i \in 2..n : t[i] = path[i] /\ seg(t, i) = seg(path, i)
  BY <1>2, <1>4
<1>6. ASSUME n >= 1 PROVE seg(t, n + 1) = <<Tail(path[n]), Tail(a)>>
  <2>1. n \in 1..n /\ (n + 1) - 1 = n
    BY <1>1, <1>6
  <2> QED
    BY <1>2, <2>1
<1> HIDE DEF seg
<1>7. Segments(t) = Segments(path) \cup new
  <2>1. CASE a[1] = "L" /\ n >= 1
    <3>1. {j \in 2..(n + 1) : t[j][1] = "L"} = {j \in 2..n : path[j][1] = "L"} \cup {n + 1}
      BY <1>1, <1>2, <1>5, <2>1
    <3> QED
      BY <1>1, <1>3, <1>5, <1>6, <2>1, <3>1
  <2>2. CASE ~(a[1] = "L" /\ n >= 1)
    <3>1. {j \in 2..(n + 1) : t[j][1] = "L"} = {j \in 2..n : path[j][1] = "L"}
      BY <1>1, <1>2, <1>5, <2>2
    <3> QED
      BY <1>1, <1>3, <1>5, <2>2, <3>1
  <2> QED
    BY <2>1, <2>2
<1> QED
  BY <1>2, <1>7 DEF t, n

\* Where a line is at a sample; Null behind a gap.
Place(p) == IF p.y = NaN THEN Null ELSE <<p.x, p.y>>
Places == Int \X Int \cup {Null}

LEMMA PlaceType ==
  ASSUME NEW p \in CanvasPoint
  PROVE  /\ Place(p) \in Places /\ (Place(p) = Null <=> p.y = NaN)
         /\ p.y # NaN => p.y \in Int
<1>1. p.x \in Int /\ p.y \in Level
  BY DEF CanvasPoint
<1>2. CASE p.y = NaN
  BY <1>2 DEF Place, Places
<1>3. CASE p.y # NaN
  <2>1. p.y \in Int
    BY <1>1, <1>3 DEF Level
  <2>2. <<p.x, p.y>> \in Int \X Int /\ <<p.x, p.y>> \in Seq(Int \cup {NaN})
    BY <1>1, <2>1
  <2>3. <<p.x, p.y>> # Null
    BY <2>2, PipelineAssumption
  <2> QED
    BY <1>3, <2>1, <2>2, <2>3 DEF Place, Places
<1> QED
  BY <1>2, <1>3

\* The segments from a place to the next sample: a step plot goes to the side first,
\* and does so in front of a gap, too.
SegmentsTo(prev, p, o) ==
  LET aside == <<p.x, prev[2]>>
  IN  IF prev = Null THEN {}
      ELSE IF o.stepPlot THEN {<<prev, aside>>} \cup (IF p.y = NaN THEN {} ELSE {<<aside, <<p.x, p.y>>>>})
      ELSE IF p.y = NaN THEN {} ELSE {<<prev, <<p.x, p.y>>>>}

\* A path that ends at a place, if the line is at one.
EndsAt(path, place) == place # Null => path # << >> /\ Tail(path[Len(path)]) = place

\* A stroke draws them and ends at the sample.
LEMMA StrokeSegments ==
  ASSUME NEW path \in Seq(Action), NEW prev \in Places, EndsAt(path, prev),
         NEW p \in CanvasPoint, NEW width, width # 0, NEW o
  PROVE  LET new == path \o Stroke(p, prev, width, o)
         IN  /\ new \in Seq(Action) /\ EndsAt(new, Place(p))
             /\ Segments(new) = Segments(path) \cup SegmentsTo(prev, p, o)
<1> DEFINE new == path \o Stroke(p, prev, width, o)
           onto == <<"M", p.x, p.y>>
           line == <<"L", p.x, p.y>>
           back == <<"M", prev[1], prev[2]>>
           side == <<"L", p.x, prev[2]>>
           there == <<p.x, p.y>>
           aside == <<p.x, prev[2]>>
           p1 == Append(path, back)
           p2 == Append(p1, side)
<1>1. p.x \in Int /\ p.y \in Level
  BY DEF CanvasPoint
<1>2. /\ Place(p) = Null <=> p.y = NaN
      /\ p.y # NaN => p.y \in Int /\ Place(p) = there
  BY PlaceType DEF Place
<1>3. prev # Null => prev \in Int \X Int /\ prev = <<prev[1], prev[2]>>
  BY DEF Places
<1>4. prev # Null => prev[2] # NaN
  BY <1>3, ValuesAssumption
<1>5. p.y # NaN => onto \in Action /\ line \in Action /\ onto[1] = "M" /\ line[1] = "L"
                   /\ Tail(onto) = there /\ Tail(line) = there
  BY <1>1, <1>2, TailOfAction DEF Action
<1>6. prev # Null => /\ back \in Action /\ side \in Action /\ back[1] = "M" /\ side[1] = "L"
                     /\ Tail(back) = prev /\ Tail(side) = aside
  BY <1>1, <1>3, TailOfAction DEF Action
<1>7. p.y # NaN => MoveTo(p.x, p.y) = <<onto>> /\ LineTo(p.x, p.y) = <<line>>
  BY DEF MoveTo, LineTo
<1>8. prev # Null => MoveTo(prev[1], prev[2]) = <<back>> /\ LineTo(p.x, prev[2]) = <<side>>
  BY <1>4 DEF MoveTo, LineTo
<1>9. /\ path \o << >> = path
      /\ p.y # NaN => path \o <<onto>> = Append(path, onto) /\ path \o <<line>> = Append(path, line)
  BY <1>5, AppendIsConcat
<1> HIDE DEF onto, line, back, side, there, aside
<1>10. ASSUME prev # Null
       PROVE  /\ p2 \in Seq(Action) /\ EndsAt(p2, aside) /\ path \o (<<back>> \o <<side>>) = p2
              /\ Segments(p2) = Segments(path) \cup {<<prev, aside>>}
              /\ p.y # NaN => path \o ((<<back>> \o <<side>>) \o <<line>>) = Append(p2, line)
  <2>1. /\ p1 \in Seq(Action) /\ p1 # << >> /\ p1[Len(p1)] = back
        /\ Segments(p1) = Segments(path)
    <3>1. back \in Action /\ back[1] # "L"
      BY <1>6, <1>10
    <3> QED
      BY <3>1, SegmentsAppend, Zenon DEF p1
  <2>2. path \o (<<back>> \o <<side>>) = p2
    BY <1>6, <1>10
  <2>3. p.y # NaN => path \o ((<<back>> \o <<side>>) \o <<line>>) = Append(p2, line)
    BY <1>5, <1>6, <1>10
  <2> HIDE DEF p1
  <2>4. /\ p2 \in Seq(Action) /\ p2 # << >> /\ p2[Len(p2)] = side
        /\ Segments(p2) = Segments(p1) \cup {<<Tail(p1[Len(p1)]), Tail(side)>>}
    BY <1>6, <1>10, <2>1, SegmentsAppend
  <2> HIDE DEF p2
  <2> QED
    BY <1>6, <1>10, <2>1, <2>2, <2>3, <2>4 DEF EndsAt
<1> HIDE DEF p1, p2
<1> SUFFICES /\ new \in Seq(Action) /\ EndsAt(new, Place(p))
             /\ Segments(new) = Segments(path) \cup SegmentsTo(prev, p, o)
  OBVIOUS
<1>11. CASE p.y = NaN /\ ~(o.stepPlot /\ prev # Null)
  <2>1. new = path
    BY <1>9, <1>11 DEF Stroke
  <2> QED
    BY <1>2, <1>11, <2>1 DEF EndsAt, SegmentsTo
<1>12. CASE p.y = NaN /\ o.stepPlot /\ prev # Null
  <2>1. new = p2
    BY <1>8, <1>10, <1>12 DEF Stroke
  <2> QED
    BY <1>2, <1>10, <1>12, <2>1 DEF EndsAt, SegmentsTo, aside
<1>13. CASE p.y # NaN /\ prev = Null
  <2>1. new = Append(path, onto)
    BY <1>7, <1>9, <1>13 DEF Stroke
  <2> QED
    BY <1>2, <1>5, <1>13, <2>1, SegmentsAppend DEF EndsAt, SegmentsTo
<1>14. CASE p.y # NaN /\ prev # Null /\ ~o.stepPlot
  <2>1. new = Append(path, line)
    <3>1. Stroke(p, prev, width, o) = << >> \o <<line>>
      BY <1>7, <1>14 DEF Stroke
    <3>2. << >> \o <<line>> = <<line>>
      OBVIOUS
    <3> QED
      BY <1>9, <1>14, <3>1, <3>2
  <2>2. Segments(new) = Segments(path) \cup {<<prev, there>>}
    BY <1>5, <1>14, <2>1, SegmentsAppend DEF EndsAt
  <2> QED
    BY <1>2, <1>5, <1>14, <2>1, <2>2, SegmentsAppend DEF EndsAt, SegmentsTo, there
<1>15. CASE p.y # NaN /\ prev # Null /\ o.stepPlot
  <2>1. new = Append(p2, line)
    BY <1>7, <1>8, <1>10, <1>15 DEF Stroke
  <2>2. Tail(p2[Len(p2)]) = aside /\ p2 # << >> /\ p2 \in Seq(Action)
    <3>1. aside # Null
      <4>1. aside \in Seq(Int \cup {NaN})
        BY <1>1, <1>3, <1>15 DEF aside
      <4> QED
        BY <4>1, PipelineAssumption
    <3> QED
      BY <1>10, <1>15, <3>1 DEF EndsAt
  <2>3. /\ new \in Seq(Action) /\ new # << >> /\ new[Len(new)] = line
        /\ Segments(new) = Segments(p2) \cup {<<aside, there>>}
    BY <1>5, <1>15, <2>1, <2>2, SegmentsAppend
  <2>4. SegmentsTo(prev, p, o) = {<<prev, aside>>} \cup {<<aside, there>>}
    BY <1>15 DEF SegmentsTo, aside, there
  <2>5. Segments(new) = Segments(path) \cup SegmentsTo(prev, p, o)
    BY <1>10, <1>15, <2>3, <2>4
  <2> HIDE DEF new
  <2> QED
    BY <1>2, <1>5, <1>15, <2>3, <2>5 DEF EndsAt
<1> HIDE DEF new
<1> QED
  BY <1>11, <1>12, <1>13, <1>14, <1>15

\* What has been drawn after some samples.
Drawing == {acc \in [prev : Places, path : Seq(Action), dots : SUBSET Int] :
              EndsAt(acc.path, acc.prev)}
Undrawn == [prev |-> Null, path |-> << >>, dots |-> {}]

\* A sample without a neighbour on either side.
Lonely(kept, k, prev) == prev = Null /\ (k = Len(kept) \/ kept[k + 1].y = NaN)

\* One more sample: its segments, and a dot if it is lonely.
Advances(acc, new, kept, k, o) ==
  /\ new \in Drawing /\ new.prev = Place(kept[k])
  /\ Segments(new.path) = Segments(acc.path) \cup SegmentsTo(acc.prev, kept[k], o)
  /\ acc.dots \subseteq new.dots
  /\ kept[k].y # NaN /\ Lonely(kept, k, acc.prev) => kept[k].idx \in new.dots

LEMMA DrawPointType ==
  ASSUME NEW kept \in Seq(CanvasPoint), NEW k \in 1..Len(kept), NEW acc \in Drawing,
         NEW width, width # 0, NEW o
  PROVE  Advances(acc, DrawPoint(acc, k, kept, width, o), kept, k, o)
<1> DEFINE p == kept[k]
           new == DrawPoint(acc, k, kept, width, o)
           path == acc.path \o Stroke(p, acc.prev, width, o)
           dots == IF p.y # NaN /\ (o.drawPoints \/ Isolated(kept, k, acc.prev, o))
                   THEN acc.dots \cup {p.idx} ELSE acc.dots
<1>1. p \in CanvasPoint
  BY LenProperties, ElementOfSeq
<1>2. new = [prev |-> Place(p), path |-> path, dots |-> dots]
  BY DEF DrawPoint, Place
<1>3. /\ acc.prev \in Places /\ acc.path \in Seq(Action) /\ acc.dots \in SUBSET Int
      /\ EndsAt(acc.path, acc.prev)
  BY DEF Drawing
<1>4. p.idx \in Int /\ Place(p) \in Places
  BY <1>1, PlaceType DEF CanvasPoint
<1>5. Lonely(kept, k, acc.prev) => Isolated(kept, k, acc.prev, o)
  BY Zenon DEF Lonely, Isolated
<1> HIDE DEF p
<1>6. /\ path \in Seq(Action) /\ EndsAt(path, Place(p))
      /\ Segments(path) = Segments(acc.path) \cup SegmentsTo(acc.prev, p, o)
  BY <1>1, <1>3, StrokeSegments
<1>7. dots \in SUBSET Int /\ acc.dots \subseteq dots
      /\ (p.y # NaN /\ Lonely(kept, k, acc.prev) => p.idx \in dots)
  BY <1>3, <1>4, <1>5
<1> HIDE DEF path, dots, new
<1>8. new \in Drawing /\ new.prev = Place(p) /\ new.path = path /\ new.dots = dots
  BY <1>2, <1>4, <1>6, <1>7 DEF Drawing
<1> QED
  BY <1>6, <1>7, <1>8 DEF Advances, new, p

\* What has been drawn after each sample.
Drawings(kept, width, o, g) ==
  /\ g \in [0..Len(kept) -> Drawing] /\ g[0] = Undrawn
  /\ \A k \in 1..Len(kept) : g[k] = DrawPoint(g[k - 1], k, kept, width, o)

LEMMA DrawSeriesFold ==
  ASSUME NEW kept \in Seq(CanvasPoint), NEW width, width # 0, NEW o
  PROVE  \E g : Drawings(kept, width, o, g) /\ DrawSeries(kept, width, o) = g[Len(kept)]
<1> DEFINE n == Len(kept)
           idxs == [k \in DOMAIN kept |-> k]
           Draw(acc, k) == DrawPoint(acc, k, kept, width, o)
           IsFold(h) == h = [s \in SUBSET DOMAIN idxs |->
                               IF s = {} THEN Undrawn ELSE Draw(h[s \ {Max(s)}], idxs[Max(s)])]
           f == CHOOSE h : IsFold(h)
<1>1. n \in Nat /\ n \in Int /\ DOMAIN kept = 1..n /\ DOMAIN idxs = 1..n /\ \A k \in 1..n : idxs[k] = k
  BY LenProperties
<1>2. DrawSeries(kept, width, o) = f[DOMAIN idxs]
  BY DEF DrawSeries, FoldLeft, MapThenFoldSet, Undrawn
<1>3. \A acc \in Drawing : \A k \in 1..n : Draw(acc, k) \in Drawing
  BY DrawPointType DEF Advances
<1>4. Undrawn \in Drawing
  BY DEF Undrawn, Drawing, Places, EndsAt
<1> HIDE DEF Draw, idxs
<1>5. \E h : IsFold(h)
  <2> DEFINE step == [q \in Drawing \X (1..n) |-> Draw(q[1], q[2])]
  <2>1. step \in [Drawing \X (1..n) -> Drawing]
    BY <1>3
  <2>2. PICK g \in [SUBSET (1..n) -> Drawing] : IsMaxFold(g, Undrawn, step, n)
    <3> HIDE DEF step, n
    <3> QED
      BY <1>1, <1>4, <2>1, MaxFoldExists
  <2>3. ASSUME NEW s \in SUBSET (1..n), s # {}
        PROVE  step[<<g[s \ {Max(s)}], Max(s)>>] = Draw(g[s \ {Max(s)}], idxs[Max(s)])
    <3>1. Max(s) \in s
      BY <1>1, <2>3, IndexMinMax, Zenon
    <3>2. Max(s) \in 1..n /\ g[s \ {Max(s)}] \in Drawing
      BY <3>1
    <3> QED
      BY <1>1, <3>2
  <2>4. IsFold(g)
    <3> HIDE DEF step
    <3> QED
      BY <1>1, <2>2, <2>3 DEF IsMaxFold
  <2> QED
    BY <2>4
<1>6. IsFold(f)
  BY <1>5
<1> HIDE DEF f
<1>7. f[1..0] = Undrawn
  BY <1>1, <1>6
<1>8. ASSUME NEW k \in 1..n PROVE f[1..k] = Draw(f[1..(k - 1)], k)
  <2>1. /\ 1..k \in SUBSET (1..n) /\ 1..k # {}
        /\ Max(1..k) = k /\ (1..k) \ {Max(1..k)} = 1..(k - 1)
    BY <1>1, LastOf
  <2>2. idxs[Max(1..k)] = k
    BY <1>1, <2>1
  <2>3. f[1..k] = Draw(f[(1..k) \ {Max(1..k)}], idxs[Max(1..k)])
    BY <1>1, <1>6, <2>1
  <2> QED
    BY <2>1, <2>2, <2>3
<1>9. ASSUME NEW m \in 0..n PROVE f[1..m] \in Drawing
  <2>1. m \in Nat /\ m <= n
    BY <1>1
  <2>2. \A k \in 1..m : f[1..(k - 1)] \in Drawing => f[1..k] \in Drawing
    <3> TAKE k \in 1..m
    <3>1. k \in 1..n
      BY <1>1, <2>1
    <3> QED
      BY <1>1, <1>3, <1>8, <3>1
  <2> HIDE DEF n
  <2> QED
    BY <1>4, <1>7, <2>1, <2>2, PrefixInduction
<1> DEFINE g == [k \in 0..n |-> f[1..k]]
<1>10. g \in [0..n -> Drawing] /\ g[0] = Undrawn /\ DrawSeries(kept, width, o) = g[n]
  BY <1>1, <1>2, <1>7, <1>9
<1>11. ASSUME NEW k \in 1..n PROVE g[k] = Draw(g[k - 1], k)
  <2>1. k \in 0..n /\ k - 1 \in 0..n
    BY <1>1
  <2> QED
    BY <1>8, <2>1
<1> HIDE DEF g
<1>12. Drawings(kept, width, o, g)
  BY <1>10, <1>11 DEF Drawings, Draw
<1> QED
  BY <1>10, <1>12

\* Where the line comes from at the kth sample.
Came(kept, k) == IF k = 1 THEN Null ELSE Place(kept[k - 1])

\* The whole line: all the segments between samples and no others, and a dot at each
\* sample that none of them reaches.
LEMMA LineDrawn ==
  ASSUME NEW kept \in Seq(CanvasPoint), NEW width, width # 0, NEW o
  PROVE  LET line == DrawSeries(kept, width, o)
         IN  /\ Segments(line.path) =
                  UNION {SegmentsTo(Came(kept, k), kept[k], o) : k \in 1..Len(kept)}
             /\ \A k \in 1..Len(kept) : kept[k].y # NaN /\ Lonely(kept, k, Came(kept, k))
                                          => kept[k].idx \in line.dots
<1> DEFINE n == Len(kept)
           To(k) == SegmentsTo(Came(kept, k), kept[k], o)
           dotted(k) == kept[k].y # NaN /\ Lonely(kept, k, Came(kept, k))
<1>1. PICK g : Drawings(kept, width, o, g) /\ DrawSeries(kept, width, o) = g[n]
  BY DrawSeriesFold
<1>2. n \in Nat
  BY LenProperties
<1>3. /\ \A k \in 0..n : g[k] \in Drawing
      /\ g[0] = Undrawn
      /\ \A k \in 1..n : g[k] = DrawPoint(g[k - 1], k, kept, width, o)
  BY <1>1 DEF Drawings
<1>4. ASSUME NEW k \in 1..n PROVE Advances(g[k - 1], g[k], kept, k, o)
  <2>1. g[k - 1] \in Drawing
    BY <1>2, <1>3
  <2>2. g[k] = DrawPoint(g[k - 1], k, kept, width, o)
    BY <1>3
  <2> QED
    BY <2>1, <2>2, DrawPointType
<1>5. \A k \in 1..n : g[k - 1].prev = Came(kept, k)
  <2> SUFFICES ASSUME NEW k \in 1..n PROVE g[k - 1].prev = Came(kept, k)
    OBVIOUS
  <2>1. CASE k = 1
    BY <1>3, <2>1 DEF Came, Undrawn
  <2>2. CASE k # 1
    <3>1. k - 1 \in 1..n
      BY <1>2, <2>2
    <3>2. Advances(g[(k - 1) - 1], g[k - 1], kept, k - 1, o)
      BY <1>4, <3>1
    <3> QED
      BY <2>2, <3>2 DEF Came, Advances
  <2> QED
    BY <2>1, <2>2
<1> DEFINE Good(k) == /\ Segments(g[k].path) = UNION {To(j) : j \in 1..k}
                      /\ \A j \in 1..k : dotted(j) => kept[j].idx \in g[k].dots
           G == {k \in Nat : k <= n => Good(k)}
<1>6. 0 \in G
  <2>1. Segments(<< >>) = {}
    BY DEF Segments
  <2>2. 1..0 = {}
    OBVIOUS
  <2> HIDE DEF To, dotted
  <2>3. Good(0)
    BY <1>3, <2>1, <2>2 DEF Undrawn
  <2> HIDE DEF Good
  <2> QED
    BY <2>3
<1>7. ASSUME NEW k \in Nat, k \in G PROVE k + 1 \in G
  <2> SUFFICES ASSUME k + 1 <= n PROVE Good(k + 1)
    OBVIOUS
  <2>1. k + 1 \in 1..n /\ (k + 1) - 1 = k /\ k <= n
    BY <1>2
  <2>2. Good(k)
    BY <1>7, <2>1
  <2>3. /\ Segments(g[k + 1].path) = Segments(g[k].path) \cup To(k + 1)
        /\ g[k].dots \subseteq g[k + 1].dots
        /\ dotted(k + 1) => kept[k + 1].idx \in g[k + 1].dots
    <3>1. Advances(g[k], g[k + 1], kept, k + 1, o)
      BY <1>4, <2>1
    <3>2. g[k].prev = Came(kept, k + 1)
      BY <1>5, <2>1
    <3> QED
      BY <3>1, <3>2 DEF Advances
  <2>4. 1..(k + 1) = (1..k) \cup {k + 1}
    OBVIOUS
  <2> HIDE DEF To, dotted
  <2>5. UNION {To(j) : j \in 1..(k + 1)} = (UNION {To(j) : j \in 1..k}) \cup To(k + 1)
    BY <2>4
  <2>6. Segments(g[k + 1].path) = UNION {To(j) : j \in 1..(k + 1)}
    BY <2>2, <2>3, <2>5
  <2>7. ASSUME NEW j \in 1..(k + 1), dotted(j) PROVE kept[j].idx \in g[k + 1].dots
    <3>1. CASE j \in 1..k
      BY <2>2, <2>3, <2>7, <3>1
    <3>2. CASE j = k + 1
      BY <2>3, <2>7, <3>2
    <3> QED
      BY <2>4, <3>1, <3>2
  <2> QED
    BY <2>6, <2>7
<1>8. Good(n)
  <2>1. n \in G
    <3> HIDE DEF G
    <3> QED
      BY <1>2, <1>6, <1>7, SetInduction
  <2> HIDE DEF Good
  <2> QED
    BY <1>2, <2>1
<1> QED
  BY <1>1, <1>8

\* Lines that have a width have the same path, whatever the width.
LEMMA PathOfWidths ==
  ASSUME NEW kept \in Seq(CanvasPoint), NEW w1, w1 # 0, NEW w2, w2 # 0, NEW o
  PROVE  DrawSeries(kept, w1, o) = DrawSeries(kept, w2, o)
<1> DEFINE n == Len(kept)
<1>1. PICK g : Drawings(kept, w1, o, g) /\ DrawSeries(kept, w1, o) = g[n]
  BY DrawSeriesFold
<1>2. PICK h : Drawings(kept, w2, o, h) /\ DrawSeries(kept, w2, o) = h[n]
  BY DrawSeriesFold
<1>3. n \in Nat
  BY LenProperties
<1>4. \A acc, k : DrawPoint(acc, k, kept, w1, o) = DrawPoint(acc, k, kept, w2, o)
  <2>1. \A p, prev : Stroke(p, prev, w1, o) = Stroke(p, prev, w2, o)
    BY Zenon DEF Stroke
  <2> QED
    BY <2>1, Zenon DEF DrawPoint
<1> DEFINE G == {k \in Nat : k <= n => g[k] = h[k]}
<1>5. g[0] = h[0] /\ \A k \in 1..n : /\ g[k] = DrawPoint(g[k - 1], k, kept, w1, o)
                                    /\ h[k] = DrawPoint(h[k - 1], k, kept, w2, o)
  BY <1>1, <1>2 DEF Drawings
<1>6. 0 \in G
  BY <1>5
<1>7. ASSUME NEW k \in Nat, k \in G PROVE k + 1 \in G
  <2>1. k + 1 <= n => k + 1 \in 1..n /\ (k + 1) - 1 = k /\ k <= n
    BY <1>3
  <2> QED
    BY <1>4, <1>5, <1>7, <2>1
<1>8. n \in G
  <2> HIDE DEF G
  <2> QED
    BY <1>3, <1>6, <1>7, SetInduction
<1> QED
  BY <1>1, <1>2, <1>3, <1>8

-----------------------------------------------------------------------------
(* What an error band is made of *)

\* Where a band is at a sample: Null behind a gap, but in a step plot.
Corner(p) == <<p.x, IF p.low = NaN THEN p.y ELSE p.low, IF p.high = NaN THEN p.y ELSE p.high>>
Edge(p, o) == IF ~o.stepPlot /\ p.y = NaN THEN Null ELSE Corner(p)
Edges == Int \X Level \X Level \cup {Null}
Quads == Seq(Int \cup {NaN})

LEMMA QuadOf ==
  ASSUME NEW z \in Int \X Level \X Level, NEW t \in Int \X Level \X Level
  PROVE  /\ z \in Quads /\ z \o t \in Quads
         /\ (z \o t)[1] = z[1] /\ (z \o t)[2] = z[2]
         /\ (z \o t)[4] = t[1] /\ (z \o t)[5] = t[2]
<1>1. PICK a \in Int, b \in Level, c \in Level : z = <<a, b, c>>
  OBVIOUS
<1>2. PICK d \in Int, e \in Level, f \in Level : t = <<d, e, f>>
  OBVIOUS
<1> DEFINE s1 == <<a, b, c>>
           s2 == <<d, e, f>>
<1>3. s1 \in Quads /\ s2 \in Quads /\ Len(s1) = 3 /\ Len(s2) = 3
  BY DEF Quads, Level
<1>4. s1 \o s2 \in Quads
  BY <1>3, ConcatProperties DEF Quads
<1>5. (s1 \o s2)[1] = a /\ (s1 \o s2)[2] = b /\ (s1 \o s2)[4] = d /\ (s1 \o s2)[5] = e
  BY <1>3, ConcatProperties DEF Quads
<1> QED
  BY <1>1, <1>2, <1>3, <1>4, <1>5

LEMMA EdgeType ==
  ASSUME NEW p \in CanvasPoint, NEW o
  PROVE  /\ Corner(p) \in Int \X Level \X Level /\ Corner(p) # Null
         /\ Edge(p, o) \in Edges /\ (Edge(p, o) = Null <=> ~o.stepPlot /\ p.y = NaN)
<1>1. p.x \in Int /\ p.y \in Level /\ p.low \in Level /\ p.high \in Level
  BY DEF CanvasPoint
<1>2. Corner(p) \in Int \X Level \X Level
  BY <1>1 DEF Corner
<1>3. Corner(p) # Null
  <2>1. Corner(p) \in Quads
    BY <1>2, QuadOf
  <2> QED
    BY <2>1, PipelineAssumption DEF Quads
<1> QED
  BY <1>2, <1>3, Zenon DEF Edge, Edges

\* The quadrilateral from an edge to the next sample.
BandTo(edge, p, o) ==
  IF edge = Null \/ (~o.stepPlot /\ p.y = NaN) THEN {}
  ELSE {edge \o (IF o.stepPlot THEN <<p.x, edge[2], edge[3]>> ELSE Corner(p))}

Banded == [prev : Edges, quads : Seq(Quads)]
Unbanded == [prev |-> Null, quads |-> << >>]

Widens(acc, new, p, o) ==
  /\ new \in Banded /\ new.prev = Edge(p, o)
  /\ ToSet(new.quads) = ToSet(acc.quads) \cup BandTo(acc.prev, p, o)

\* One more sample.
LEMMA BandPointType ==
  ASSUME NEW acc \in Banded, NEW p \in CanvasPoint, NEW o
  PROVE  Widens(acc, BandPoint(acc, p, o), p, o)
<1> DEFINE to == IF o.stepPlot /\ acc.prev # Null THEN <<p.x, acc.prev[2], acc.prev[3]>> ELSE Corner(p)
           quad == acc.prev \o to
           grown == [prev |-> Corner(p),
                     quads |-> IF acc.prev = Null THEN acc.quads ELSE Append(acc.quads, quad)]
           new == BandPoint(acc, p, o)
<1>1. new = IF ~o.stepPlot /\ p.y = NaN THEN [acc EXCEPT !.prev = Null] ELSE grown
  BY Zenon DEF BandPoint, Corner
<1>2. /\ acc.prev \in Edges /\ acc.quads \in Seq(Quads)
      /\ acc = [prev |-> acc.prev, quads |-> acc.quads]
  BY DEF Banded
<1>3. /\ Corner(p) \in Int \X Level \X Level
      /\ Edge(p, o) \in Edges /\ (Edge(p, o) = Null <=> ~o.stepPlot /\ p.y = NaN)
  BY EdgeType
<1>4. p.x \in Int
  BY DEF CanvasPoint
<1>5. ASSUME acc.prev # Null PROVE quad \in Quads
  <2>1. acc.prev \in Int \X Level \X Level
    BY <1>2, <1>5 DEF Edges
  <2>2. to \in Int \X Level \X Level
    BY <1>3, <1>4, <2>1
  <2> HIDE DEF to
  <2> QED
    BY <2>1, <2>2, QuadOf
<1> HIDE DEF quad, new
<1>6. acc.prev # Null => /\ Append(acc.quads, quad) \in Seq(Quads)
                         /\ ToSet(Append(acc.quads, quad)) = ToSet(acc.quads) \cup {quad}
  BY <1>2, <1>5, ToSetAppend
<1>7. CASE ~o.stepPlot /\ p.y = NaN
  <2>1. new = [prev |-> Null, quads |-> acc.quads]
    BY <1>1, <1>2, <1>7
  <2>2. BandTo(acc.prev, p, o) = {} /\ Edge(p, o) = Null
    BY <1>7 DEF BandTo, Edge
  <2>3. new \in Banded
    BY <1>2, <2>1 DEF Banded, Edges
  <2> QED
    BY <2>1, <2>2, <2>3 DEF Widens, new
<1>8. CASE ~(~o.stepPlot /\ p.y = NaN)
  <2>1. new = grown /\ Edge(p, o) = Corner(p)
    BY <1>1, <1>8, Zenon DEF Edge
  <2>2. BandTo(acc.prev, p, o) = IF acc.prev = Null THEN {} ELSE {quad}
    BY <1>8 DEF BandTo, quad
  <2>3. new \in Banded
    BY <1>2, <1>3, <1>6, <2>1 DEF Banded
  <2>4. ToSet(new.quads) = ToSet(acc.quads) \cup BandTo(acc.prev, p, o)
    BY <1>6, <2>1, <2>2
  <2> QED
    BY <2>1, <2>3, <2>4 DEF Widens, new
<1> QED
  BY <1>7, <1>8

\* The bands after each sample.
Bandings(kept, o, g) ==
  /\ g \in [0..Len(kept) -> Banded] /\ g[0] = Unbanded
  /\ \A k \in 1..Len(kept) : g[k] = BandPoint(g[k - 1], kept[k], o)

LEMMA BandsFold ==
  ASSUME NEW kept \in Seq(CanvasPoint), NEW o
  PROVE  \E g : Bandings(kept, o, g) /\ Bands(kept, o) = g[Len(kept)].quads
<1> DEFINE n == Len(kept)
           Band(acc, k) == BandPoint(acc, kept[k], o)
           IsFold(h) == h = [s \in SUBSET DOMAIN kept |->
                               IF s = {} THEN Unbanded ELSE Band(h[s \ {Max(s)}], Max(s))]
           f == CHOOSE h : IsFold(h)
<1>1. n \in Nat /\ n \in Int /\ DOMAIN kept = 1..n /\ \A k \in 1..n : kept[k] \in CanvasPoint
  BY LenProperties, ElementOfSeq
<1>2. Bands(kept, o) = f[DOMAIN kept].quads
  BY DEF Bands, FoldLeft, MapThenFoldSet, Unbanded
<1>3. \A acc \in Banded : \A k \in 1..n : Band(acc, k) \in Banded
  BY <1>1, BandPointType DEF Widens
<1>4. Unbanded \in Banded
  BY DEF Unbanded, Banded, Edges
<1> HIDE DEF Band
<1>5. \E h : IsFold(h)
  <2> DEFINE step == [q \in Banded \X (1..n) |-> Band(q[1], q[2])]
  <2>1. step \in [Banded \X (1..n) -> Banded]
    BY <1>3
  <2>2. PICK g \in [SUBSET (1..n) -> Banded] : IsMaxFold(g, Unbanded, step, n)
    <3> HIDE DEF step, n
    <3> QED
      BY <1>1, <1>4, <2>1, MaxFoldExists
  <2>3. ASSUME NEW s \in SUBSET (1..n), s # {}
        PROVE  step[<<g[s \ {Max(s)}], Max(s)>>] = Band(g[s \ {Max(s)}], Max(s))
    <3>1. Max(s) \in s
      BY <1>1, <2>3, IndexMinMax, Zenon
    <3>2. Max(s) \in 1..n /\ g[s \ {Max(s)}] \in Banded
      BY <3>1
    <3> QED
      BY <3>2
  <2>4. IsFold(g)
    <3> HIDE DEF step
    <3> QED
      BY <1>1, <2>2, <2>3 DEF IsMaxFold
  <2> QED
    BY <2>4
<1>6. IsFold(f)
  BY <1>5
<1> HIDE DEF f
<1>7. f[1..0] = Unbanded
  BY <1>1, <1>6
<1>8. ASSUME NEW k \in 1..n PROVE f[1..k] = Band(f[1..(k - 1)], k)
  <2>1. /\ 1..k \in SUBSET (1..n) /\ 1..k # {}
        /\ Max(1..k) = k /\ (1..k) \ {Max(1..k)} = 1..(k - 1)
    BY <1>1, LastOf
  <2> QED
    BY <1>1, <1>6, <2>1
<1>9. ASSUME NEW m \in 0..n PROVE f[1..m] \in Banded
  <2>1. m \in Nat /\ m <= n
    BY <1>1
  <2>2. \A k \in 1..m : f[1..(k - 1)] \in Banded => f[1..k] \in Banded
    <3> TAKE k \in 1..m
    <3>1. k \in 1..n
      BY <1>1, <2>1
    <3> QED
      BY <1>1, <1>3, <1>8, <3>1
  <2> HIDE DEF n
  <2> QED
    BY <1>4, <1>7, <2>1, <2>2, PrefixInduction
<1> DEFINE g == [k \in 0..n |-> f[1..k]]
<1>10. g \in [0..n -> Banded] /\ g[0] = Unbanded /\ Bands(kept, o) = g[n].quads
  BY <1>1, <1>2, <1>7, <1>9
<1>11. ASSUME NEW k \in 1..n PROVE g[k] = Band(g[k - 1], k)
  <2>1. k \in 0..n /\ k - 1 \in 0..n
    BY <1>1
  <2> QED
    BY <1>8, <2>1
<1> HIDE DEF g
<1>12. Bandings(kept, o, g)
  BY <1>10, <1>11 DEF Bandings, Band
<1> QED
  BY <1>10, <1>12

\* Where a band comes from at the kth sample.
EdgeBefore(kept, k, o) == IF k = 1 THEN Null ELSE Edge(kept[k - 1], o)

\* The whole band.
LEMMA BandsDrawn ==
  ASSUME NEW kept \in Seq(CanvasPoint), NEW o
  PROVE  ToSet(Bands(kept, o)) = UNION {BandTo(EdgeBefore(kept, k, o), kept[k], o) : k \in 1..Len(kept)}
<1> DEFINE n == Len(kept)
           To(k) == BandTo(EdgeBefore(kept, k, o), kept[k], o)
<1>1. PICK g : Bandings(kept, o, g) /\ Bands(kept, o) = g[n].quads
  BY BandsFold
<1>2. n \in Nat /\ \A k \in 1..n : kept[k] \in CanvasPoint
  BY LenProperties, ElementOfSeq
<1>3. /\ \A k \in 0..n : g[k] \in Banded
      /\ g[0] = Unbanded
      /\ \A k \in 1..n : g[k] = BandPoint(g[k - 1], kept[k], o)
  BY <1>1 DEF Bandings
<1>4. ASSUME NEW k \in 1..n PROVE Widens(g[k - 1], g[k], kept[k], o)
  <2>1. g[k - 1] \in Banded /\ kept[k] \in CanvasPoint
    BY <1>2, <1>3
  <2>2. g[k] = BandPoint(g[k - 1], kept[k], o)
    BY <1>3
  <2> QED
    BY <2>1, <2>2, BandPointType
<1>5. \A k \in 1..n : g[k - 1].prev = EdgeBefore(kept, k, o)
  <2> SUFFICES ASSUME NEW k \in 1..n PROVE g[k - 1].prev = EdgeBefore(kept, k, o)
    OBVIOUS
  <2>1. CASE k = 1
    BY <1>3, <2>1 DEF EdgeBefore, Unbanded
  <2>2. CASE k # 1
    <3>1. k - 1 \in 1..n
      BY <1>2, <2>2
    <3>2. Widens(g[(k - 1) - 1], g[k - 1], kept[k - 1], o)
      BY <1>4, <3>1
    <3> QED
      BY <2>2, <3>2 DEF EdgeBefore, Widens
  <2> QED
    BY <2>1, <2>2
<1> DEFINE Good(k) == ToSet(g[k].quads) = UNION {To(j) : j \in 1..k}
           G == {k \in Nat : k <= n => Good(k)}
<1>6. 0 \in G
  <2>1. ToSet(<< >>) = {} /\ 1..0 = {}
    BY DEF ToSet
  <2> HIDE DEF To
  <2>2. Good(0)
    BY <1>3, <2>1 DEF Unbanded
  <2> HIDE DEF Good
  <2> QED
    BY <2>2
<1>7. ASSUME NEW k \in Nat, k \in G PROVE k + 1 \in G
  <2> SUFFICES ASSUME k + 1 <= n PROVE Good(k + 1)
    OBVIOUS
  <2>1. k + 1 \in 1..n /\ (k + 1) - 1 = k /\ k <= n
    BY <1>2
  <2>2. Good(k)
    BY <1>7, <2>1
  <2>3. ToSet(g[k + 1].quads) = ToSet(g[k].quads) \cup To(k + 1)
    <3>1. Widens(g[k], g[k + 1], kept[k + 1], o)
      BY <1>4, <2>1
    <3>2. g[k].prev = EdgeBefore(kept, k + 1, o)
      BY <1>5, <2>1
    <3> QED
      BY <3>1, <3>2 DEF Widens
  <2>4. 1..(k + 1) = (1..k) \cup {k + 1}
    OBVIOUS
  <2> HIDE DEF To
  <2>5. UNION {To(j) : j \in 1..(k + 1)} = (UNION {To(j) : j \in 1..k}) \cup To(k + 1)
    BY <2>4
  <2> QED
    BY <2>2, <2>3, <2>5
<1>8. Good(n)
  <2>1. n \in G
    <3> HIDE DEF G
    <3> QED
      BY <1>2, <1>6, <1>7, SetInduction
  <2> HIDE DEF Good
  <2> QED
    BY <1>2, <2>1
<1> QED
  BY <1>1, <1>8

-----------------------------------------------------------------------------
(* Where line and band run *)

\* Samples that are apart on the canvas, and a stretch of a line between two of them.
XsRise(kept) == \A i, j \in 1..Len(kept) : i < j => kept[i].x < kept[j].x
Joined(kept, k, o) == kept[k - 1].y # NaN /\ (kept[k].y # NaN \/ o.stepPlot)
Joins(kept, o) ==
  {<<kept[k - 1].x, kept[k].x>> : k \in {j \in 2..Len(kept) : Joined(kept, j, o)}}

\* What goes to the right, of the segments to a sample and of the band to it.
RightOf(segments) == {<<seg[1][1], seg[2][1]>> : seg \in {t \in segments : t[1][1] < t[2][1]}}
WidthOf(quads) ==
  {<<q[1], q[4]>> : q \in {b \in quads : b[1] < b[4] /\ b[2] # NaN /\ b[5] # NaN}}

LEMMA SegmentsJoin ==
  ASSUME NEW kept \in Seq(CanvasPoint), XsRise(kept), NEW o, NEW k \in 1..Len(kept)
  PROVE  RightOf(SegmentsTo(Came(kept, k), kept[k], o)) =
           IF k >= 2 /\ Joined(kept, k, o) THEN {<<kept[k - 1].x, kept[k].x>>} ELSE {}
<1> DEFINE p == kept[k]
           q == kept[k - 1]
           n == Len(kept)
<1>1. n \in Nat /\ p \in CanvasPoint
  BY LenProperties, ElementOfSeq
<1>2. CASE k = 1
  BY <1>2 DEF Came, SegmentsTo, RightOf
<1>3. CASE k >= 2
  <2>1. k - 1 \in 1..n
    BY <1>1, <1>3
  <2>2. q \in CanvasPoint /\ q.x < p.x
    BY <1>1, <2>1, ElementOfSeq DEF XsRise
  <2>3. p.x \in Int /\ q.x \in Int
    BY <1>1, <2>2 DEF CanvasPoint
  <2>4. Came(kept, k) = Place(q) /\ (Joined(kept, k, o) <=> q.y # NaN /\ (p.y # NaN \/ o.stepPlot))
    BY <1>3 DEF Came, Joined
  <2>5. Place(q) = Null <=> q.y = NaN
    BY <2>2, PlaceType
  <2> HIDE DEF p, q
  <2>6. CASE q.y = NaN
    <3>1. SegmentsTo(Place(q), p, o) = {}
      BY <2>5, <2>6 DEF SegmentsTo
    <3> QED
      BY <2>4, <2>6, <3>1 DEF RightOf, p, q
  <2>7. CASE q.y # NaN
    <3> DEFINE here == <<q.x, q.y>>
               aside == <<p.x, q.y>>
               there == <<p.x, p.y>>
    <3>1. Place(q) = here /\ here[2] = q.y
      BY <2>7 DEF Place
    <3>2. here[1] = q.x /\ aside[1] = p.x /\ there[1] = p.x
      OBVIOUS
    <3>3. here # Null
      BY <2>5, <2>7, <3>1
    <3>4. SegmentsTo(here, p, o) =
            IF o.stepPlot THEN {<<here, aside>>} \cup (IF p.y = NaN THEN {} ELSE {<<aside, there>>})
            ELSE IF p.y = NaN THEN {} ELSE {<<here, there>>}
      BY <3>1, <3>3, Zenon DEF SegmentsTo
    <3> HIDE DEF here, aside, there
    <3>5. /\ RightOf({<<here, aside>>}) = {<<q.x, p.x>>}
          /\ RightOf({<<here, there>>}) = {<<q.x, p.x>>}
          /\ RightOf({<<here, aside>>} \cup {<<aside, there>>}) = {<<q.x, p.x>>}
          /\ RightOf({}) = {}
      <4>1. ASSUME NEW a, NEW b
            PROVE  RightOf({<<a, b>>}) = IF a[1] < b[1] THEN {<<a[1], b[1]>>} ELSE {}
        <5>1. PICK s : s = <<a, b>>
          OBVIOUS
        <5>2. s[1] = a /\ s[2] = b
          BY <5>1
        <5>3. RightOf({s}) = IF s[1][1] < s[2][1] THEN {<<s[1][1], s[2][1]>>} ELSE {}
          BY ONLY DEF RightOf
        <5> QED
          BY <5>1, <5>2, <5>3
      <4>2. q.x < p.x /\ ~(p.x < p.x)
        BY <2>2, <2>3 DEF p, q
      <4>3. \A A, B : RightOf(A \cup B) = RightOf(A) \cup RightOf(B)
        BY DEF RightOf
      <4>4. /\ RightOf({<<here, aside>>}) = {<<q.x, p.x>>}
            /\ RightOf({<<here, there>>}) = {<<q.x, p.x>>}
            /\ RightOf({<<aside, there>>}) = {}
        BY <3>2, <4>1, <4>2
      <4>5. RightOf({}) = {}
        BY DEF RightOf
      <4>6. RightOf({<<here, aside>>} \cup {<<aside, there>>}) = {<<q.x, p.x>>} \cup {}
        <5> DEFINE A == {<<here, aside>>}
                   B == {<<aside, there>>}
        <5>1. RightOf(A) = {<<q.x, p.x>>} /\ RightOf(B) = {}
          BY <4>4
        <5> HIDE DEF A, B
        <5>2. RightOf(A \cup B) = {<<q.x, p.x>>} \cup {}
          BY <4>3, <5>1
        <5> QED
          BY <5>2 DEF A, B
      <4>7. {<<q.x, p.x>>} \cup {} = {<<q.x, p.x>>}
        OBVIOUS
      <4> QED
        BY <4>4, <4>5, <4>6, <4>7
    <3>6. RightOf(SegmentsTo(here, p, o)) = IF p.y # NaN \/ o.stepPlot THEN {<<q.x, p.x>>} ELSE {}
      <4>1. CASE o.stepPlot /\ p.y = NaN
        <5>1. SegmentsTo(here, p, o) = {<<here, aside>>}
          BY <3>4, <4>1
        <5> QED
          BY <3>5, <4>1, <5>1
      <4>2. CASE o.stepPlot /\ p.y # NaN
        BY <3>4, <3>5, <4>2
      <4>3. CASE ~o.stepPlot
        BY <3>4, <3>5, <4>3
      <4> QED
        BY <4>1, <4>2, <4>3
    <3> QED
      BY <1>3, <2>4, <2>7, <3>1, <3>6 DEF p, q
  <2> QED
    BY <2>6, <2>7
<1>4. k = 1 \/ k >= 2
  BY <1>1
<1> QED
  BY <1>2, <1>3, <1>4

LEMMA BandsJoin ==
  ASSUME NEW kept \in Seq(CanvasPoint), XsRise(kept), NEW o, NEW k \in 1..Len(kept),
         \A j \in 1..Len(kept) : kept[j].y = NaN => kept[j].low = NaN
  PROVE  WidthOf(BandTo(EdgeBefore(kept, k, o), kept[k], o)) =
           IF k >= 2 /\ Joined(kept, k, o) THEN {<<kept[k - 1].x, kept[k].x>>} ELSE {}
<1> DEFINE p == kept[k]
           q == kept[k - 1]
           n == Len(kept)
<1>1. n \in Nat /\ p \in CanvasPoint
  BY LenProperties, ElementOfSeq
<1>2. CASE k = 1
  BY <1>2 DEF EdgeBefore, BandTo, WidthOf
<1>3. CASE k >= 2
  <2>1. k - 1 \in 1..n
    BY <1>1, <1>3
  <2>2. q \in CanvasPoint /\ q.x < p.x
    BY <1>1, <2>1, ElementOfSeq DEF XsRise
  <2>3. p.x \in Int /\ q.x \in Int
    BY <1>1, <2>2 DEF CanvasPoint
  <2>4. EdgeBefore(kept, k, o) = Edge(q, o) /\ (Joined(kept, k, o) <=> q.y # NaN /\ (p.y # NaN \/ o.stepPlot))
    BY <1>3 DEF EdgeBefore, Joined
  <2>5. q.y = NaN => q.low = NaN
    BY <2>1
  <2> DEFINE from == Corner(q)
             to == IF o.stepPlot THEN <<p.x, from[2], from[3]>> ELSE Corner(p)
             quad == from \o to
  <2> HIDE DEF p, q
  <2>6. /\ from \in Int \X Level \X Level /\ from # Null
        /\ (Edge(q, o) = Null <=> ~o.stepPlot /\ q.y = NaN)
        /\ Edge(q, o) # Null => Edge(q, o) = from
    BY <2>2, EdgeType, Zenon DEF Edge
  <2>7. Corner(p) \in Int \X Level \X Level
    BY <1>1, EdgeType DEF p
  <2>8. /\ from[1] = q.x /\ (from[2] = NaN <=> q.y = NaN)
        /\ Corner(p)[1] = p.x /\ (p.y # NaN => Corner(p)[2] # NaN)
    BY <2>5 DEF Corner
  <2> HIDE DEF from
  <2>9. /\ to \in Int \X Level \X Level /\ to[1] = p.x
        /\ o.stepPlot => to[2] = from[2]
        /\ ~o.stepPlot => to[2] = Corner(p)[2]
    BY <2>3, <2>6, <2>7, <2>8
  <2> HIDE DEF to
  <2>10. quad[1] = q.x /\ quad[2] = from[2] /\ quad[4] = p.x /\ quad[5] = to[2]
    BY <2>6, <2>8, <2>9, QuadOf
  <2> HIDE DEF quad
  <2>11. BandTo(Edge(q, o), p, o) =
           IF ~o.stepPlot /\ (q.y = NaN \/ p.y = NaN) THEN {} ELSE {quad}
    <3>1. CASE ~o.stepPlot /\ (q.y = NaN \/ p.y = NaN)
      BY <2>6, <3>1 DEF BandTo
    <3>2. CASE ~(~o.stepPlot /\ (q.y = NaN \/ p.y = NaN))
      BY <2>6, <3>2, Zenon DEF BandTo, quad, to
    <3> QED
      BY <3>1, <3>2
  <2>12. WidthOf({}) = {}
    BY DEF WidthOf
  <2>13. WidthOf({quad}) = IF from[2] # NaN /\ to[2] # NaN THEN {<<q.x, p.x>>} ELSE {}
    <3>1. q.x < p.x
      BY <2>2 DEF p, q
    <3> QED
      BY <2>10, <3>1 DEF WidthOf
  <2>14. WidthOf(BandTo(Edge(q, o), p, o)) =
           IF q.y # NaN /\ (p.y # NaN \/ o.stepPlot) THEN {<<q.x, p.x>>} ELSE {}
    <3>1. CASE o.stepPlot
      BY <2>8, <2>9, <2>11, <2>13, <3>1
    <3>2. CASE ~o.stepPlot
      BY <2>8, <2>9, <2>11, <2>12, <2>13, <3>2
    <3> QED
      BY <3>1, <3>2
  <2> QED
    BY <1>3, <2>4, <2>14 DEF p, q
<1>4. k = 1 \/ k >= 2
  BY <1>1
<1> QED
  BY <1>2, <1>3, <1>4

\* Where samples are apart, line and band cover the stretches that are joined.
LEMMA StretchesJoined ==
  ASSUME NEW kept \in Seq(CanvasPoint), XsRise(kept), NEW width, width # 0, NEW o,
         \A j \in 1..Len(kept) : kept[j].y = NaN => kept[j].low = NaN
  PROVE  /\ Stretches(DrawSeries(kept, width, o).path) = Joins(kept, o)
         /\ WidthOf(ToSet(Bands(kept, o))) = Joins(kept, o)
<1> DEFINE n == Len(kept)
           path == DrawSeries(kept, width, o).path
           Seg(k) == SegmentsTo(Came(kept, k), kept[k], o)
           Ban(k) == BandTo(EdgeBefore(kept, k, o), kept[k], o)
           Join(k) == IF k >= 2 /\ Joined(kept, k, o) THEN {<<kept[k - 1].x, kept[k].x>>} ELSE {}
<1>1. Segments(path) = UNION {Seg(k) : k \in 1..n}
  BY LineDrawn
<1>2. ToSet(Bands(kept, o)) = UNION {Ban(k) : k \in 1..n}
  BY BandsDrawn
<1>3. \A k \in 1..n : RightOf(Seg(k)) = Join(k)
  BY SegmentsJoin
<1>4. \A k \in 1..n : WidthOf(Ban(k)) = Join(k)
  BY BandsJoin
<1>5. Stretches(path) = RightOf(Segments(path))
  BY DEF Stretches, RightOf
<1>6. n \in Nat
  BY LenProperties
<1>7. Joins(kept, o) = UNION {Join(k) : k \in 1..n}
  <2>1. \A k \in 2..n : k \in 1..n /\ k >= 2
    BY <1>6
  <2>2. \A k \in 1..n : k >= 2 => k \in 2..n
    BY <1>6
  <2> QED
    BY <2>1, <2>2 DEF Joins
<1> HIDE DEF n, path, Seg, Ban, Join
<1>8. RightOf(UNION {Seg(k) : k \in 1..n}) = UNION {RightOf(Seg(k)) : k \in 1..n}
  BY DEF RightOf
<1>9. WidthOf(UNION {Ban(k) : k \in 1..n}) = UNION {WidthOf(Ban(k)) : k \in 1..n}
  BY DEF WidthOf
<1>10. UNION {RightOf(Seg(k)) : k \in 1..n} = UNION {Join(k) : k \in 1..n}
  BY <1>3
<1>11. UNION {WidthOf(Ban(k)) : k \in 1..n} = UNION {Join(k) : k \in 1..n}
  BY <1>4
<1> QED
  BY <1>1, <1>2, <1>5, <1>7, <1>8, <1>9, <1>10, <1>11 DEF path

\* Every sample with a value is on the line, or has a dot.
LEMMA SamplesReached ==
  ASSUME NEW kept \in Seq(CanvasPoint), NEW width, width # 0, NEW o, NEW k \in 1..Len(kept),
         kept[k].y # NaN
  PROVE  LET line == DrawSeries(kept, width, o)
         IN  \/ kept[k].idx \in line.dots
             \/ <<kept[k].x, kept[k].y>> \in UNION {{seg[1], seg[2]} : seg \in Segments(line.path)}
<1> DEFINE n == Len(kept)
           line == DrawSeries(kept, width, o)
           p == kept[k]
           there == <<p.x, p.y>>
           To(j) == SegmentsTo(Came(kept, j), kept[j], o)
           touched == UNION {{seg[1], seg[2]} : seg \in Segments(line.path)}
<1>1. n \in Nat /\ \A j \in 1..n : kept[j] \in CanvasPoint
  BY LenProperties, ElementOfSeq
<1>2. Segments(line.path) = UNION {To(j) : j \in 1..n}
  BY LineDrawn
<1>3. Lonely(kept, k, Came(kept, k)) => kept[k].idx \in line.dots
  BY LineDrawn
<1> HIDE DEF line
<1>4. ASSUME NEW j \in 1..n, NEW a, NEW b, <<a, b>> \in To(j) PROVE a \in touched /\ b \in touched
  <2>1. <<a, b>> \in Segments(line.path)
    BY <1>2, <1>4
  <2>2. <<a, b>>[1] = a /\ <<a, b>>[2] = b
    OBVIOUS
  <2> QED
    BY <2>1, <2>2
<1>5. Place(p) = there /\ Place(p) # Null
  BY <1>1, PlaceType DEF Place
<1> SUFFICES p.idx \in line.dots \/ there \in touched
  BY DEF line
<1>6. CASE Lonely(kept, k, Came(kept, k))
  BY <1>3, <1>6
<1>7. CASE Came(kept, k) # Null
  <2>1. \E a : <<a, there>> \in To(k)
    BY <1>7 DEF SegmentsTo
  <2> HIDE DEF touched, To, there
  <2>2. there \in touched
    BY <1>4, <2>1
  <2> QED
    BY <2>2
<1>8. CASE ~(k = n \/ kept[k + 1].y = NaN)
  <2>1. k + 1 \in 1..n /\ (k + 1) - 1 = k /\ k + 1 # 1
    BY <1>1, <1>8
  <2>2. Came(kept, k + 1) = there
    BY <1>5, <2>1 DEF Came
  <2>3. there # Null
    BY <1>5
  <2> DEFINE next == kept[k + 1]
  <2>4. next.y # NaN
    BY <1>8
  <2> HIDE DEF there, next
  <2>5. \E b : <<there, b>> \in SegmentsTo(there, next, o)
    BY <2>3, <2>4 DEF SegmentsTo
  <2>6. \E b : <<there, b>> \in To(k + 1)
    BY <2>2, <2>5 DEF next
  <2> HIDE DEF touched, To
  <2>7. there \in touched
    BY <1>4, <2>1, <2>6
  <2> QED
    BY <2>7
<1>9. Lonely(kept, k, Came(kept, k)) \/ Came(kept, k) # Null \/ ~(k = n \/ kept[k + 1].y = NaN)
  BY DEF Lonely
<1> QED
  BY <1>6, <1>7, <1>8, <1>9

\* A sample joined to the one before has a stretch of its own.
LEMMA JoinsOnce ==
  ASSUME NEW kept \in Seq(CanvasPoint), XsRise(kept), NEW o, NEW k \in 2..Len(kept)
  PROVE  Joined(kept, k, o) <=> <<kept[k - 1].x, kept[k].x>> \in Joins(kept, o)
<1> DEFINE n == Len(kept)
<1>1. n \in Nat /\ \A j \in 1..n : kept[j].x \in Int
  <2>1. n \in Nat /\ \A j \in 1..n : kept[j] \in CanvasPoint
    BY LenProperties, ElementOfSeq
  <2> QED
    BY <2>1 DEF CanvasPoint
<1>2. Joined(kept, k, o) => <<kept[k - 1].x, kept[k].x>> \in Joins(kept, o)
  BY DEF Joins
<1>3. ASSUME <<kept[k - 1].x, kept[k].x>> \in Joins(kept, o) PROVE Joined(kept, k, o)
  <2>1. PICK j \in 2..n : /\ Joined(kept, j, o)
                          /\ <<kept[k - 1].x, kept[k].x>> = <<kept[j - 1].x, kept[j].x>>
    BY <1>3 DEF Joins
  <2>2. kept[k].x = kept[j].x
    BY <2>1
  <2>3. j \in 1..n /\ k \in 1..n /\ j \in Int /\ k \in Int
    BY <1>1
  <2>4. ~(j < k) /\ ~(k < j)
    BY <1>1, <2>2, <2>3 DEF XsRise
  <2>5. j = k
    BY <2>3, <2>4
  <2> QED
    BY <2>1, <2>5
<1> QED
  BY <1>2, <1>3

\* Points that are apart from their neighbours are apart, and so are those of them that
\* the line is drawn along.
LEMMA IteratedRises ==
  ASSUME NEW pts \in Seq(CanvasPoint), NEW connect,
         \A k \in 2..Len(pts) : pts[k - 1].x < pts[k].x
  PROVE  XsRise(Iterated(pts, connect))
<1> DEFINE n == Len(pts)
           S == {k \in DOMAIN pts : Passes(pts[k], connect)}
           m == Cardinality(S)
           t == Chosen(pts, S)
<1>1. n \in Nat /\ DOMAIN pts = 1..n /\ \A j \in 1..n : pts[j].x \in Int
  <2>1. n \in Nat /\ DOMAIN pts = 1..n /\ \A j \in 1..n : pts[j] \in CanvasPoint
    BY LenProperties, ElementOfSeq
  <2> QED
    BY <2>1 DEF CanvasPoint
<1>2. S \in SUBSET (1..n)
  BY <1>1
<1> HIDE DEF S
<1>3. PICK e : Enumerates(e, S) /\ \A k \in 1..m : t[k] = pts[e[k]]
  BY <1>2, ChosenAre
<1>4. Len(t) = m
  BY <1>2, ChosenAre
<1>5. /\ m \in Nat /\ \A k \in 1..m : e[k] \in S
      /\ \A k \in 2..m : e[k - 1] < e[k]
  BY <1>3, Zenon DEF Enumerates
<1> DEFINE Before(f, j) == \A i \in 1..(j - 1) : f[i] < f[j]
<1>6. ASSUME NEW l \in Nat, NEW f, \A k \in 1..l : f[k] \in Int, \A k \in 2..l : f[k - 1] < f[k]
      PROVE  \A j \in 1..l : Before(f, j)
  <2> DEFINE G == {j \in Nat : j + 1 <= l => Before(f, j + 1)}
  <2>1. 0 \in G
    OBVIOUS
  <2>2. ASSUME NEW j \in Nat, j \in G PROVE j + 1 \in G
    <3> SUFFICES ASSUME (j + 1) + 1 <= l, NEW i \in 1..(j + 1) PROVE f[i] < f[(j + 1) + 1]
      OBVIOUS
    <3>1. f[j + 1] < f[(j + 1) + 1] /\ f[j + 1] \in Int /\ f[(j + 1) + 1] \in Int
      <4>1. (j + 1) + 1 \in 2..l /\ j + 1 \in 1..l /\ (j + 1) + 1 \in 1..l /\ ((j + 1) + 1) - 1 = j + 1
        OBVIOUS
      <4> QED
        BY <1>6, <4>1
    <3>2. CASE i = j + 1
      BY <3>1, <3>2
    <3>3. CASE i # j + 1
      <4>1. i \in 1..((j + 1) - 1) /\ i \in 1..l /\ j + 1 <= l
        BY <3>3
      <4>2. f[i] < f[j + 1] /\ f[i] \in Int
        BY <1>6, <2>2, <4>1
      <4> QED
        BY <3>1, <4>2
    <3> QED
      BY <3>2, <3>3
  <2>3. ASSUME NEW j \in 1..l PROVE Before(f, j)
    <3>1. j - 1 \in G
      <4> HIDE DEF G
      <4>1. j - 1 \in Nat
        OBVIOUS
      <4> QED
        BY <2>1, <2>2, <4>1, SetInduction
    <3>2. (j - 1) + 1 = j
      OBVIOUS
    <3> HIDE DEF Before
    <3> QED
      BY <3>1, <3>2
  <2> QED
    BY <2>3
<1>7. \A i, j \in 1..m : i < j => e[i] < e[j]
  <2>1. \A k \in 1..m : e[k] \in Int
    <3>1. \A i \in S : i \in Int
      BY <1>1, <1>2
    <3> QED
      BY <1>5, <3>1
  <2>2. \A j \in 1..m : Before(e, j)
    <3> HIDE DEF m, Before
    <3> QED
      BY <1>5, <1>6, <2>1
  <2>3. \A i, j \in 1..m : i < j => i \in 1..(j - 1)
    BY <1>5
  <2> QED
    BY <2>2, <2>3
<1>8. \A i, j \in 1..n : i < j => pts[i].x < pts[j].x
  <2> DEFINE xs == [k \in 1..n |-> pts[k].x]
  <2>1. \A k \in 1..n : xs[k] \in Int
    BY <1>1
  <2>2. \A k \in 2..n : xs[k - 1] < xs[k]
    <3> SUFFICES ASSUME NEW k \in 2..n PROVE xs[k - 1] < xs[k]
      OBVIOUS
    <3>1. k \in 1..n /\ k - 1 \in 1..n
      BY <1>1
    <3> QED
      BY <3>1
  <2>3. \A j \in 1..n : Before(xs, j)
    <3> HIDE DEF n, xs, Before
    <3> QED
      BY <1>1, <1>6, <2>1, <2>2
  <2>4. \A i, j \in 1..n : i < j => i \in 1..(j - 1)
    BY <1>1
  <2>5. \A i, j \in 1..n : i < j => xs[i] < xs[j]
    <3> HIDE DEF xs
    <3> QED
      BY <2>3, <2>4
  <2> QED
    BY <2>5
<1> HIDE DEF t, m
<1>9. ASSUME NEW i \in 1..m, NEW j \in 1..m, i < j PROVE t[i].x < t[j].x
  <2>1. e[i] \in 1..n /\ e[j] \in 1..n /\ e[i] < e[j]
    BY <1>2, <1>5, <1>7, <1>9
  <2>2. pts[e[i]].x < pts[e[j]].x
    BY <1>8, <2>1
  <2> QED
    BY <1>3, <2>2
<1>10. Iterated(pts, connect) = t
  BY DEF Iterated, t, S
<1> QED
  BY <1>4, <1>9, <1>10 DEF XsRise

\* A line with its width.
LEMMA StyledLine ==
  ASSUME NEW pts \in Seq(CanvasPoint), NEW width, width # 0, NEW o
  PROVE  LET line == DrawStyledLine(pts, width, o)
             drawn == DrawSeries(Iterated(pts, o.connect), width, o)
         IN  line.width = width /\ line.path = drawn.path /\ line.dots = drawn.dots
BY DEF DrawStyledLine

\* The strokes of a line: the last one is the line, a border in front of it has the
\* same path.
LEMMA StrokesOf ==
  ASSUME NEW pts \in Seq(CanvasPoint), NEW o,
         o.strokeWidth \in Nat, o.strokeBorderWidth \in Nat, o.strokeWidth # 0
  PROVE  LET strokes == LinePlotter(pts, o)
             line == strokes[Len(strokes)]
             drawn == DrawSeries(Iterated(pts, o.connect), o.strokeWidth, o)
         IN  /\ line.path = drawn.path /\ line.dots = drawn.dots
             /\ \A i \in DOMAIN strokes : strokes[i].path = line.path
                                         /\ strokes[i].width >= line.width
<1> DEFINE kept == Iterated(pts, o.connect)
           w == o.strokeWidth
           b == w + 2 * o.strokeBorderWidth
           border == DrawStyledLine(pts, b, o)
           inner == DrawStyledLine(pts, w, o)
           strokes == LinePlotter(pts, o)
<1>1. w \in Nat /\ w # 0 /\ b \in Nat /\ b # 0 /\ b >= w
  OBVIOUS
<1> HIDE DEF w, b
<1>2. /\ inner.width = w /\ inner.path = DrawSeries(kept, w, o).path
      /\ inner.dots = DrawSeries(kept, w, o).dots
  BY <1>1, StyledLine
<1>3. border.width = b /\ border.path = DrawSeries(kept, b, o).path
  BY <1>1, StyledLine
<1>4. DrawSeries(kept, b, o) = DrawSeries(kept, w, o)
  <2>1. kept \in Seq(CanvasPoint)
    BY IteratedType
  <2> HIDE DEF kept
  <2> QED
    BY <1>1, <2>1, PathOfWidths
<1>5. strokes = << >> \o <<inner>> \/ strokes = <<border>> \o <<inner>>
  BY <1>1, Zenon DEF LinePlotter, w, b
<1>6. strokes = <<inner>> \/ strokes = <<border, inner>>
  BY <1>5
<1> HIDE DEF border, inner, strokes
<1>7. strokes[Len(strokes)] = inner
  <2>1. CASE strokes = <<inner>>
    BY <2>1
  <2>2. CASE strokes = <<border, inner>>
    BY <2>2
  <2> QED
    BY <1>6, <2>1, <2>2
<1>8. \A i \in DOMAIN strokes : strokes[i] \in {border, inner}
  BY <1>6
<1>9. \A i \in DOMAIN strokes : strokes[i].path = inner.path /\ strokes[i].width >= inner.width
  BY <1>1, <1>2, <1>3, <1>4, <1>8
<1> HIDE DEF kept
<1>10. /\ strokes[Len(strokes)].path = DrawSeries(kept, w, o).path
       /\ strokes[Len(strokes)].dots = DrawSeries(kept, w, o).dots
       /\ \A i \in DOMAIN strokes : /\ strokes[i].path = strokes[Len(strokes)].path
                                    /\ strokes[i].width >= strokes[Len(strokes)].width
  BY <1>2, <1>7, <1>9
<1> QED
  BY <1>10 DEF strokes, kept, w

\* A point without a y has no bar.
Barless(p) == p.y = NaN => p.low = NaN

LEMMA BarsOfGaps ==
  ASSUME NEW pts \in Seq(Point),
         NEW st, st = << >> \/ \A k \in 1..Len(pts) : st[k] \in Int,
         NEW bars, \A k \in 1..Len(pts) : Missing(pts[k].yval) => bars[k] = <<NaN, NaN>>,
         NEW connect, NEW origin \in Int, NEW unit \in Nat \ {0}, NEW k \in 1..Len(pts)
  PROVE  Barless(EvaluateLine(pts, st, bars, connect, origin, unit)[k])
<1> DEFINE n == Len(pts)
           height(v) == IF Missing(v) THEN NaN ELSE v
           sum == IF st = << >> THEN NaN ELSE st[k]
           bar == IF bars = << >> THEN <<NaN, NaN>> ELSE bars[k]
           p == EvaluateLine(pts, st, bars, connect, origin, unit)[k]
           yval == pts[k].yval
<1>1. k \in DOMAIN pts /\ pts[k] \in Point
  BY LenProperties, ElementOfSeq
<1>2. /\ p.y = height(IF Missing(yval) \/ st = << >> THEN yval ELSE sum)
      /\ p.low = height(bar[1])
  BY <1>1 DEF EvaluateLine
<1>3. yval \in Value
  BY <1>1 DEF Point
<1> HIDE DEF p
<1>4. CASE Missing(yval)
  <2>1. bar[1] = NaN
    BY <1>4
  <2> QED
    BY <1>2, <2>1 DEF Missing, Barless, p
<1>5. CASE ~Missing(yval)
  <2>1. yval \in Int
    BY <1>3, <1>5 DEF Missing, Value
  <2>2. sum \in Int \/ st = << >>
    OBVIOUS
  <2>3. \A v \in Int : height(v) = v /\ v # NaN
    BY ValuesAssumption DEF Missing
  <2> HIDE DEF height, sum, yval
  <2>4. p.y # NaN
    BY <1>2, <1>5, <2>1, <2>2, <2>3
  <2> QED
    BY <2>4 DEF Barless, p
<1> QED
  BY <1>4, <1>5

\* No point of a picture without a y has a bar, and none that the line is drawn along.
LEMMA GapsHaveNoBar ==
  ASSUME StagesInv, NEW v \in Views, NEW s \in DOMAIN labels, NEW connect
  PROVE  LET kept == Iterated(sets[v][s], connect)
         IN  \A k \in 1..Len(kept) : kept[k].y = NaN => kept[k].low = NaN
<1> DEFINE u == v[1]
           w == v[2]
           pts == gathered[w][s].points
           o == Options[u][s]
           st == IF o.stacked THEN stacks[w][s] ELSE << >>
           bars == Bars(pts)
           onCanvas == sets[v][s]
<1>1. DOMAIN labels = 1..2 /\ w \in Shown /\ u \in Users
  BY DEF labels, Views
<1>2. sets[v] = [i \in DOMAIN labels |->
                   Canvas(gathered[w][i].points, stacks[w][i], Options[u][i])]
  BY DEF StagesInv, CanvasSets
<1>3. Rising(pts)
  BY <1>1, ShownRises DEF StagesInv
<1>4. \A k \in 1..Len(pts) : stacks[w][s][k] \in Int
  BY <1>1, StacksType
<1>5. onCanvas = EvaluateLine(pts, st, bars, o.connect, 20, 10)
  BY <1>2 DEF Canvas
<1>6. onCanvas \in Seq(CanvasPoint)
  BY SetsType
<1> HIDE DEF pts, o, onCanvas
<1>7. pts \in Seq(Point) /\ DOMAIN pts = 1..Len(pts)
  BY <1>3, LenProperties DEF Rising
<1>8. \A k \in 1..Len(pts) : Missing(pts[k].yval) => bars[k] = <<NaN, NaN>>
  BY <1>7 DEF Bars
<1>9. st = << >> \/ \A k \in 1..Len(pts) : st[k] \in Int
  BY <1>4
<1> HIDE DEF st, bars
<1>10. Len(onCanvas) = Len(pts) /\ DOMAIN onCanvas = 1..Len(pts)
  <2>1. DOMAIN onCanvas = DOMAIN pts
    BY <1>5 DEF EvaluateLine
  <2>2. DOMAIN onCanvas = 1..Len(onCanvas) /\ Len(onCanvas) \in Nat /\ Len(pts) \in Nat
    BY <1>6, <1>7, LenProperties
  <2>3. 1..Len(onCanvas) = 1..Len(pts)
    BY <1>7, <2>1, <2>2
  <2> QED
    BY <2>2, <2>3
<1>11. \A k \in 1..Len(pts) : onCanvas[k].y = NaN => onCanvas[k].low = NaN
  <2>1. PICK origin \in Int, unit \in Nat \ {0} : origin = 20 /\ unit = 10
    OBVIOUS
  <2> DEFINE c == o.connect
  <2> HIDE DEF c
  <2>2. onCanvas = EvaluateLine(pts, st, bars, c, origin, unit)
    BY <1>5, <2>1 DEF c
  <2>3. \A k \in 1..Len(pts) : Barless(onCanvas[k])
    BY <1>7, <1>8, <1>9, <2>2, BarsOfGaps
  <2> QED
    BY <2>3 DEF Barless
<1> DEFINE S == {k \in DOMAIN onCanvas : Passes(onCanvas[k], connect)}
           kept == Chosen(onCanvas, S)
<1>12. S \in SUBSET (1..Len(onCanvas))
  BY <1>10
<1> HIDE DEF S
<1>13. kept \in Seq(CanvasPoint) /\ ToSet(kept) = {onCanvas[i] : i \in S}
  BY <1>6, <1>12, ChosenAre
<1> HIDE DEF kept
<1>14. \A k \in 1..Len(kept) : kept[k] \in ToSet(kept)
  BY <1>13, LenProperties DEF ToSet
<1>15. \A k \in 1..Len(kept) : kept[k].y = NaN => kept[k].low = NaN
  <2> SUFFICES ASSUME NEW k \in 1..Len(kept), kept[k].y = NaN PROVE kept[k].low = NaN
    OBVIOUS
  <2>1. PICK i \in S : kept[k] = onCanvas[i]
    BY <1>13, <1>14
  <2>2. i \in 1..Len(pts)
    BY <1>10, <1>12
  <2> QED
    BY <1>11, <2>1, <2>2
<1>16. kept = Iterated(sets[v][s], connect)
  BY DEF Iterated, kept, S, onCanvas
<1> QED
  BY <1>15, <1>16

\* What is drawn of a series.
LEMMA DrawnSeries ==
  ASSUME StagesInv, NEW v \in Views, NEW s \in DOMAIN labels
  PROVE  /\ drawing[v][s].lines = LinePlotter(sets[v][s], Options[v[1]][s])
         /\ drawing[v][s].bands = Bands(Iterated(sets[v][s], Options[v[1]][s].connect), Options[v[1]][s])
<1> DEFINE pts == sets[v]
           opts == Options[v[1]]
<1>1. DOMAIN pts = 1..2 /\ DOMAIN labels = 1..2
  BY SetsType DEF labels
<1>2. drawing[v] = RenderLineChart(pts, 0, 100, TRUE, opts)
  BY DEF StagesInv, Rendered
<1> HIDE DEF pts, opts
<1>3. drawing[v][s].lines = LinePlotter(pts[s], opts[s])
      /\ drawing[v][s].bands = ErrorPlotter(pts[s], opts[s])
  BY <1>1, <1>2 DEF RenderLineChart
<1> QED
  BY <1>3 DEF ErrorPlotter, pts, opts

\* A line goes through its samples in every picture: each sample with a value is on it
\* or has a dot, neighbours with values are joined and no others, the error band covers
\* the same stretches, and a border the whole line (_drawSeries, _errorPlotter and
\* _linePlotter, for samples at any places and all options).
THEOREM LinesFollowSamples == PipelineSpec => []LineFollowsSamples
<1>1. StagesInv => LineFollowsSamples
  <2> SUFFICES ASSUME StagesInv, NEW v \in Views, NEW s \in DOMAIN labels,
                      Options[v[1]][s].strokeWidth # 0
               PROVE
    LET o == Options[v[1]][s]
        onCanvas == sets[v][s]
        kept == Iterated(onCanvas, o.connect)
        strokes == drawing[v][s].lines
        line == strokes[Len(strokes)]
        stretches == Stretches(line.path)
        bands == {<<q[1], q[4]>> : q \in {b \in ToSet(drawing[v][s].bands) :
                                            b[1] < b[4] /\ b[2] # NaN /\ b[5] # NaN}}
        touched == UNION {{seg[1], seg[2]} : seg \in Segments(line.path)}
        apart == \A k \in 2..Len(onCanvas) : onCanvas[k - 1].x < onCanvas[k].x
    IN  /\ \A k \in DOMAIN kept : kept[k].y # NaN =>
             \/ kept[k].idx \in line.dots
             \/ <<kept[k].x, kept[k].y>> \in touched
        /\ apart => \A k \in 2..Len(kept) :
             (kept[k - 1].y # NaN /\ (kept[k].y # NaN \/ o.stepPlot))
               <=> <<kept[k - 1].x, kept[k].x>> \in stretches
        /\ apart => bands = stretches
        /\ \A i \in DOMAIN strokes : strokes[i].path = line.path
                                    /\ strokes[i].width >= line.width
    BY Zenon DEF LineFollowsSamples
  <2> DEFINE o == Options[v[1]][s]
             onCanvas == sets[v][s]
             kept == Iterated(onCanvas, o.connect)
             strokes == drawing[v][s].lines
             line == strokes[Len(strokes)]
             stretches == Stretches(line.path)
             bands == WidthOf(ToSet(drawing[v][s].bands))
             touched == UNION {{seg[1], seg[2]} : seg \in Segments(line.path)}
             apart == \A k \in 2..Len(onCanvas) : onCanvas[k - 1].x < onCanvas[k].x
             width == o.strokeWidth
             drawn == DrawSeries(kept, width, o)
  <2>1. width \in Nat /\ o.strokeBorderWidth \in Nat /\ width # 0
    BY WidthsAssumption DEF Views
  <2>2. onCanvas \in Seq(CanvasPoint)
    BY SetsType
  <2>3. strokes = LinePlotter(onCanvas, o) /\ drawing[v][s].bands = Bands(kept, o)
    BY DrawnSeries
  <2>4. \A k \in 1..Len(kept) : kept[k].y = NaN => kept[k].low = NaN
    BY GapsHaveNoBar
  <2> HIDE DEF o, onCanvas
  <2>5. kept \in Seq(CanvasPoint)
    BY <2>2, IteratedType
  <2>6. apart => XsRise(kept)
    BY <2>2, IteratedRises
  <2>7. /\ line.path = drawn.path /\ line.dots = drawn.dots
        /\ \A i \in DOMAIN strokes : strokes[i].path = line.path
                                    /\ strokes[i].width >= line.width
    BY <2>1, <2>2, <2>3, StrokesOf
  <2> HIDE DEF kept, width, apart
  <2>8. ASSUME NEW k \in DOMAIN kept, kept[k].y # NaN
        PROVE  kept[k].idx \in line.dots \/ <<kept[k].x, kept[k].y>> \in touched
    <3>1. k \in 1..Len(kept)
      BY <2>5, LenProperties
    <3>2. \/ kept[k].idx \in drawn.dots
          \/ <<kept[k].x, kept[k].y>> \in UNION {{seg[1], seg[2]} : seg \in Segments(drawn.path)}
      BY <2>1, <2>5, <2>8, <3>1, SamplesReached
    <3> QED
      BY <2>7, <3>2
  <2>9. ASSUME apart PROVE stretches = Joins(kept, o) /\ bands = Joins(kept, o)
    <3>1. XsRise(kept)
      BY <2>6, <2>9
    <3>2. Stretches(drawn.path) = Joins(kept, o) /\ WidthOf(ToSet(Bands(kept, o))) = Joins(kept, o)
      BY <2>1, <2>4, <2>5, <3>1, StretchesJoined
    <3> QED
      BY <2>3, <2>7, <3>2
  <2>10. ASSUME apart, NEW k \in 2..Len(kept)
         PROVE  (kept[k - 1].y # NaN /\ (kept[k].y # NaN \/ o.stepPlot))
                  <=> <<kept[k - 1].x, kept[k].x>> \in stretches
    <3>1. XsRise(kept)
      BY <2>6, <2>10
    <3>2. Joined(kept, k, o) <=> <<kept[k - 1].x, kept[k].x>> \in Joins(kept, o)
      BY <2>5, <3>1, JoinsOnce
    <3> QED
      BY <2>9, <2>10, <3>2 DEF Joined
  <2>11. bands = {<<q[1], q[4]>> : q \in {b \in ToSet(drawing[v][s].bands) :
                                            b[1] < b[4] /\ b[2] # NaN /\ b[5] # NaN}}
    BY DEF WidthOf
  <2> HIDE DEF strokes, line, stretches, touched, bands, drawn
  <2>12. /\ \A k \in DOMAIN kept : kept[k].y # NaN =>
              kept[k].idx \in line.dots \/ <<kept[k].x, kept[k].y>> \in touched
         /\ apart => \A k \in 2..Len(kept) :
              (kept[k - 1].y # NaN /\ (kept[k].y # NaN \/ o.stepPlot))
                <=> <<kept[k - 1].x, kept[k].x>> \in stretches
         /\ apart => bands = stretches
         /\ \A i \in DOMAIN strokes : strokes[i].path = line.path
                                     /\ strokes[i].width >= line.width
    BY <2>7, <2>8, <2>9, <2>10
  <2> QED
    BY <2>11, <2>12, Zenon DEF strokes, line, stretches, touched, apart, kept, onCanvas, o
<1> QED
  BY <1>1, StagesInvariant, PTL

=============================================================================
