------------------------------- MODULE ChartAxes -------------------------------
(***************************************************************************)
(* The room around the plot area, the ticks of an axis and where their     *)
(* labels are put (dygraph-combined-dev.js: the layout, the tickers, the   *)
(* plugins axes, grid and chart_labels).  Pure operators.  Pixels are      *)
(* integers counted downwards as in the code, a range is <<a, b>>; a       *)
(* percentage is kept as the pixel it stands for.                          *)
(***************************************************************************)
EXTENDS Integers, Sequences, FiniteSets, SequencesExt

-----------------------------------------------------------------------------
(* The plot area *)

Rect(x, y, w, h) == [x |-> x, y |-> y, w |-> w, h |-> h]

(* reserveSpaceLeft, -Right, -Top and -Bottom: what is left of the area,
   and the rectangle that is taken. *)
Reserve(area, side, px) ==
  CASE side = "left"   -> [area |-> Rect(area.x + px, area.y, area.w - px, area.h),
                           taken |-> Rect(area.x, area.y, px, area.h)]
    [] side = "right"  -> [area |-> Rect(area.x, area.y, area.w - px, area.h),
                           taken |-> Rect(area.x + area.w - px, area.y, px, area.h)]
    [] side = "top"    -> [area |-> Rect(area.x, area.y + px, area.w, area.h - px),
                           taken |-> Rect(area.x, area.y, area.w, px)]
    [] side = "bottom" -> [area |-> Rect(area.x, area.y, area.w, area.h - px),
                           taken |-> Rect(area.x, area.y + area.h - px, area.w, px)]

(* chart_labels.layout: the title, the labels of x, y and y2. *)
LabelSpace(o) ==
  (IF o.title THEN <<<<"top", o.titleHeight>>>> ELSE <<>>)
  \o (IF o.xlabel THEN <<<<"bottom", o.xLabelHeight>>>> ELSE <<>>)
  \o (IF o.ylabel THEN <<<<"left", 0>>>> ELSE <<>>)
  \o (IF o.y2label /\ o.numAxes = 2 THEN <<<<"right", 0>>>> ELSE <<>>)

(* axes.layout. *)
AxisWidth(o) == o.axisLabelWidth + 2 * o.axisTickSize
AxisSpace(o) ==
  (IF o.drawY THEN <<<<"left", AxisWidth(o)>>>> ELSE <<>>)
  \o (IF o.drawX THEN <<<<"bottom", o.axisLabelFontSize + 2 * o.axisTickSize>>>> ELSE <<>>)
  \o (IF o.numAxes = 2 /\ o.drawY2 THEN <<<<"right", AxisWidth(o)>>>> ELSE <<>>)

(* computePlotArea: cascadeEvents_ calls the plugin registered last first. *)
ComputePlotArea(width, height, o) ==
  LET reserve(acc, r) == LET got == Reserve(acc.area, r[1], r[2])
                         IN  [area |-> got.area, taken |-> Append(acc.taken, got.taken)]
  IN  FoldLeft(reserve,
               [area |-> Rect(0, 0, width - o.rightGap, height), taken |-> <<>>],
               LabelSpace(o) \o AxisSpace(o))

-----------------------------------------------------------------------------
(* Ticks *)

Magnitude(n) == IF n < 0 THEN -n ELSE n

(* Math.pow(base, base_power) for units_per_tick = n / d, at least 1 here. *)
BaseScale(base, n, d) == Max({base ^ p : p \in {q \in 0..6 : base ^ q * d <= n}})

Mults(kmg2) == IF kmg2 THEN <<1, 2, 4, 8, 16, 32, 64, 128, 256>>
               ELSE <<1, 2, 5, 10, 20, 50, 100>>

\* Variant: the finest scale, whatever room there is.
LinearTicksFinest(a, b, pixels, pixelsPerLabel, kmg2) ==
  LET base == BaseScale(IF kmg2 THEN 16 ELSE 10, Magnitude(b - a), pixels \div pixelsPerLabel)
  IN  [i \in 1..((b - a) \div base + 2) |-> (a \div base + i - 1) * base]

(* The linear part of numericTicks: the finest scale of which the ticks are
   further apart than pixelsPerLabel, the coarsest if there is none.  A range
   without width has no ticks. *)
LinearTicks(a, b, pixels, pixelsPerLabel, kmg2) ==
  LET maxTicks == (pixels + pixelsPerLabel - 1) \div pixelsPerLabel
      mults == Mults(kmg2)
      base == BaseScale(IF kmg2 THEN 16 ELSE 10, Magnitude(b - a), maxTicks)
      scale(j) == base * mults[j]
      low(j)   == (a \div scale(j)) * scale(j)
      high(j)  == -((-b) \div scale(j)) * scale(j)
      nTicks(j) == Magnitude(high(j) - low(j)) \div scale(j)
      wide == {j \in DOMAIN mults : nTicks(j) = 0 \/ pixels > pixelsPerLabel * nTicks(j)}
      j == IF wide = {} THEN Len(mults) ELSE Min(wide)
      step == IF low(j) > high(j) THEN -scale(j) ELSE scale(j)
  IN  IF a = b THEN <<>>
      ELSE [i \in 1..(nTicks(j) + 1) |-> low(j) + (i - 1) * step]

(* addXTicks_ for a numeric x axis. *)
AddXTicks(range, area, pixelsPerLabel, kmg2) ==
  LinearTicks(range[1], range[2], area.w, pixelsPerLabel, kmg2)

(* binarySearch over arry, with indexes from 1 and 0 for none: the exact
   value, or with abs its neighbour above (1) or below (-1). *)
BinarySearch(val, arry, abs) ==
  LET search[lo \in 1..(Len(arry) + 1), hi \in 0..Len(arry)] ==
        LET mid == ((lo - 1) + (hi - 1)) \div 2 + 1
        IN  IF lo > hi THEN 0
            ELSE IF arry[mid] = val THEN mid
            ELSE IF arry[mid] > val
            THEN IF abs > 0 /\ mid > 1 /\ arry[mid - 1] < val THEN mid
                 ELSE search[lo, mid - 1]
            ELSE IF abs < 0 /\ mid < Len(arry) /\ arry[mid + 1] > val THEN mid
                 ELSE search[mid + 1, hi]
  IN  search[1, Len(arry)]

(* The logarithmic part: preferred values, with a label only where the last
   one is far enough; pixelOf is the logarithm's pixel.  Empty where there
   are too few, and then the linear ticks are taken. *)
LogTicks(a, b, pixels, pixelsPerLabel, preferred, pixelOf) ==
  LET found == <<BinarySearch(a, preferred, 1), BinarySearch(b, preferred, -1)>>
      minIdx == IF found[1] = 0 THEN 1 ELSE found[1]
      maxIdx == IF found[2] = 0 THEN Len(preferred) ELSE found[2]
      \* from the last to the first
      labelled[i \in minIdx..(maxIdx + 1)] ==
        IF i > maxIdx THEN {}
        ELSE LET later == labelled[i + 1]
             IN  IF \/ later = {}
                    \/ Magnitude(pixelOf[preferred[i]] - pixelOf[preferred[Min(later)]])
                         >= pixelsPerLabel
                 THEN later \cup {i} ELSE later
  IN  IF 4 * (maxIdx - minIdx) < pixels \div pixelsPerLabel THEN <<>>
      ELSE [k \in 1..(maxIdx - minIdx + 1) |->
              [v |-> preferred[minIdx + k - 1],
               label |-> (minIdx + k - 1) \in labelled[minIdx]]]

(* The ticks an axis that is not independent gets from the one that is: at
   the same places of its own range. *)
AlignedTicks(ticks, from, to) ==
  [i \in DOMAIN ticks |->
     to[1] + ((ticks[i] - from[1]) * (to[2] - to[1])) \div (from[2] - from[1])]

(* _evaluateLineTicks with toPercentXCoord and toPercentYCoord: the left
   edge and the bottom belong to the plot area, the right edge and the top
   do not. *)
ShownXTicks(ticks, range) == SelectSeq(ticks, LAMBDA v : v >= range[1] /\ v < range[2])
ShownYTicks(ticks, range) == SelectSeq(ticks, LAMBDA v : v >= range[1] /\ v < range[2])

XPixel(v, range, area) ==
  area.x + ((v - range[1]) * area.w) \div (range[2] - range[1])
YPixel(v, range, area) ==
  area.y + ((range[2] - v) * area.h) \div (range[2] - range[1])

-----------------------------------------------------------------------------
(* Labels and grid lines *)

(* axes.willDrawChart: a label at a border is moved into the canvas. *)
XLabelLeft(x, canvasWidth, width) ==
  LET left == x - width \div 2
      moved == IF left + width > canvasWidth THEN canvasWidth - width ELSE left
  IN  IF moved < 0 THEN 0 ELSE moved

YLabelTop(y, canvasHeight, fontSize) ==
  LET top == IF y - fontSize \div 2 < 0 THEN 0 ELSE y - fontSize \div 2
  IN  IF top + fontSize + 3 > canvasHeight THEN canvasHeight - fontSize ELSE top

XLabels(ticks, range, area, canvas, o) ==
  [i \in DOMAIN ticks |->
     Rect(XLabelLeft(XPixel(ticks[i], range, area), canvas.w, o.axisLabelWidth),
          area.y + area.h + o.axisTickSize, o.axisLabelWidth, o.axisLabelFontSize)]

(* The lowest label makes room for the first of the x axis, unless it
   already hangs at the bottom of the canvas. *)
LiftedTop(top, canvasHeight, fontSize) ==
  IF top + fontSize + 3 <= canvasHeight /\ top + 2 * fontSize > canvasHeight
  THEN top - fontSize \div 2 ELSE top

YLabels(ticks, range, area, canvas, o) ==
  LET top(i) == YLabelTop(YPixel(ticks[i], range, area), canvas.h, o.axisLabelFontSize)
  IN  [i \in DOMAIN ticks |->
         Rect(area.x - o.axisLabelWidth - o.axisTickSize,
              IF i = 1 THEN LiftedTop(top(i), canvas.h, o.axisLabelFontSize) ELSE top(i),
              o.axisLabelWidth, o.axisLabelFontSize)]

(* grid.willDrawChart: a line through the plot area at every tick shown. *)
GridLines(xticks, yticks, xrange, yrange, area) ==
  {<<<<XPixel(v, xrange, area), area.y + area.h>>, <<XPixel(v, xrange, area), area.y>>>> :
     v \in ToSet(xticks)}
  \cup {<<<<area.x, YPixel(v, yrange, area)>>, <<area.x + area.w, YPixel(v, yrange, area)>>>> :
     v \in ToSet(yticks)}
=============================================================================
