------------------------------ MODULE ChartTouch ------------------------------
(***************************************************************************)
(* The chart under a mouse or under fingers: a swipe of one finger moves   *)
(* the window, a pinch of two scales it, a double tap zooms out.           *)
(*                                                                         *)
(* The user has either a mouse or a touch screen.  Fingers are in the      *)
(* order of event.touches; the centre of a pinch counts half pixels and    *)
(* half units.                                                             *)
(***************************************************************************)
EXTENDS Chart

CONSTANTS MaxWidth,      \* bound: widest window a pinch may show
          MaxMoves       \* bound: moves of a finger on one chart

ASSUME TouchAssumption == MaxWidth \in Nat /\ MaxMoves \in Nat

VARIABLES device,        \* "mouse" or "touch"
          fingers,       \* where the fingers on the screen are
          touch,         \* what startTouch noted in the drag context
          moves

tvars == <<vars, device, fingers, touch, moves>>

NoTouch == [initial |-> <<>>, centre |-> <<0, 0>>, centreData |-> <<0, 0>>,
            directions |-> {}, range |-> <<<<0, 1>>, <<0, 1>>>>,
            tapped |-> Null]    \* where the first tap of a double tap was

-----------------------------------------------------------------------------
(* The context of a touch *)

(* Where the page shows the canvas.  A touch has its place on the page, which
   startTouch takes for a place on the canvas. *)
page == <<8, 10>>

ToData(p) == <<ToDataX(p[1] + page[1], XAxisRange(rawData, dateWindow)),
               ToDataY(p[2] + page[2], yRange)>>

Twice(ps, e) == ps[1][e] + ps[Min2(2, Len(ps))][e]
Centre(ps) == <<Twice(ps, 1), Twice(ps, 2)>>

(* Pinches near an axis zoom in that axis only.  The angle is that of the
   first finger seen from the centre, without its sign, in [0, 180]; 22.5
   and 67.5 degrees are taken for the slopes 5/12 and 12/5.  An angle beyond
   90, the first finger on the left, is turned into a negative one: always
   below 22.5. *)
Directions(ps) ==
  LET right == ps[1][1] - ps[2][1]
      high  == Abs(ps[1][2] - ps[2][2])
  IN  IF Len(ps) = 1 THEN {"x", "y"}
      ELSE IF right < 0 THEN {"x"}
      ELSE {d \in {"x", "y"} : IF d = "x" THEN 5 * high < 12 * right
                                          ELSE 12 * high > 5 * right}

(* startTouch: without a plotter or a range of the axis its conversion to
   data throws an exception, and the context stays as an older touch left
   it. *)
StartTouchThrows == ~HasPlotter \/ yRange = Null

StartTouch(ps) ==
  LET tapped == IF Len(ps) > 1 THEN Null ELSE touch.tapped
  IN  /\ touch' = IF StartTouchThrows THEN [touch EXCEPT !.tapped = tapped]
                  ELSE [initial |-> ps, centre |-> Centre(ps),
                        centreData |-> Centre([i \in DOMAIN ps |-> ToData(ps[i])]),
                        directions |-> Directions(ps),
                        range |-> <<XAxisRange(rawData, dateWindow), yRange>>,
                        tapped |-> tapped]
      /\ threw' = (threw \/ StartTouchThrows)

-----------------------------------------------------------------------------
(* The events *)

(* touchstart: one more finger. *)
TouchStart(p) ==
  /\ made > 0 /\ Len(fingers) < 2 /\ p \notin ToSet(fingers) /\ OnCanvas(p)
  /\ fingers' = Append(fingers, p)
  /\ StartTouch(fingers')
  /\ UNCHANGED <<made, file, requests, data, view, picture, selection, gesture, moves>>

(* The factor n/d, clipped to [1/8, 8]. *)
Scale(n, d) ==
  LET m == IF d < 0 THEN -n ELSE n
  IN  IF 8 * m < Abs(d) THEN <<1, 8>> ELSE IF m > 8 * Abs(d) THEN <<8, 1>> ELSE <<m, Abs(d)>>

(* The window in the direction e, moved as the centre is (a pixel in y is
   a step down) and scaled as the distance of the fingers is, round the
   centre. *)
Moved(e, ps, size) ==
  LET range == touch.range[e]
      width == IF e = 1 THEN range[2] - range[1] ELSE range[1] - range[2]
      swipe == Quotient((Centre(ps)[e] - touch.centre[e]) * width, 2 * size)
      scale == IF Len(ps) = 1 THEN <<1, 1>>
               ELSE Scale(ps[2][e] - ps[1][e], touch.initial[2][e] - touch.initial[1][e])
      end(r) == Quotient(touch.centreData[e] - 2 * swipe
                         + Quotient((2 * r - touch.centreData[e]) * scale[2], scale[1]), 2)
  IN  <<end(range[1]), end(range[2])>>

(* Without the context of a touch of as many fingers moveTouch throws an
   exception. *)
MoveTouchThrows(ps) == Len(touch.initial) = 0 \/ Len(ps) > Len(touch.initial)

MoveTouch(ps) ==
  IF MoveTouchThrows(ps)
  THEN threw' = TRUE /\ UNCHANGED <<view, picture, lastRow, legend>>
  ELSE /\ dateWindow' = IF "x" \in touch.directions THEN Moved(1, ps, area.w) ELSE dateWindow
       /\ valueWindow' = IF "y" \in touch.directions THEN Moved(2, ps, area.h) ELSE valueWindow
       /\ "x" \in touch.directions => /\ Abs(dateWindow'[1]) <= MaxShift
                                      /\ dateWindow'[2] - dateWindow'[1] \in MinWidth..MaxWidth
       /\ "y" \in touch.directions => /\ Abs(valueWindow'[2]) <= MaxRise
                                      /\ valueWindow'[2] - valueWindow'[1] >= MinHeight
       /\ DrawGraph(rawData, rolled, dateWindow', valueWindow')
       /\ UNCHANGED <<zoomedX, zoomedY, threw>>

(* touchmove of one of the fingers. *)
TouchMove(i, p) ==
  /\ moves < MaxMoves /\ moves' = moves + 1
  /\ p \notin ToSet(fingers)
  /\ fingers' = [fingers EXCEPT ![i] = p]
  /\ touch' = [touch EXCEPT !.tapped = Null]
  /\ MoveTouch(fingers')
  /\ UNCHANGED <<made, file, requests, data, selPoint, gesture>>

(* Two taps within 50 pixels. *)
Near(p, q) == Abs(p[1] - q[1]) < 50 /\ Abs(p[2] - q[2]) < 50

(* touchend of one finger: another that stays starts anew, the last one is
   a tap, and the second of two taps within 500 ms zooms out. *)
LiftOne(i) ==
  /\ Len(fingers) = 2
  /\ fingers' = RemoveAt(fingers, i)
  /\ StartTouch(fingers')
  /\ UNCHANGED <<view, picture, selection>>

DoubleTap ==
  /\ Len(fingers) = 1 /\ touch.tapped # Null /\ Near(touch.tapped, fingers[1])
  /\ fingers' = <<>>
  /\ ResetZoom
  /\ UNCHANGED touch

Tap ==
  /\ Len(fingers) = 1
  /\ fingers' = <<>>
  /\ touch' = [touch EXCEPT !.tapped = fingers[1]]
  /\ UNCHANGED <<view, picture, selection, threw>>

TouchEnd ==
  /\ (\E i \in DOMAIN fingers : LiftOne(i)) \/ DoubleTap \/ Tap
  /\ UNCHANGED <<made, file, requests, data, gesture, moves>>

-----------------------------------------------------------------------------
TouchInit ==
  /\ Init
  /\ device \in {"mouse", "touch"}
  /\ device = "touch" => at = CHOOSE p \in Positions : TRUE
  /\ fingers = <<>> /\ touch = NoTouch /\ moves = 0

TouchNext ==
  \/ /\ \E f \in Files : SelectFile(f)
     /\ fingers = <<>> /\ touch' = NoTouch /\ moves' = 0 /\ UNCHANGED <<device, fingers>>
  \/ Requested /\ UNCHANGED <<device, fingers, touch, moves>>
  \/ /\ Rolling
     /\ fingers = <<>> /\ UNCHANGED <<device, fingers, touch, moves>>
  \/ /\ device = "mouse"
     /\ Mouse
     /\ UNCHANGED <<device, fingers, touch, moves>>
  \/ /\ device = "touch"
     /\ (\E p \in Positions : TouchStart(p)) \/ TouchEnd
        \/ \E i \in DOMAIN fingers, p \in Positions : TouchMove(i, p)
     /\ UNCHANGED device

TouchSpec == TouchInit /\ [][TouchNext]_tvars

-----------------------------------------------------------------------------
(* Properties *)

(* "shift-drag to pan", and a swipe: the width and the height shown stay
   the same, and a chart under the mouse that was not zoomed in y goes on
   fitting its range to the data. *)
Drags == context.isPanning \/ (Len(fingers) = 1 /\ fingers' # <<>>)
DragKeepsSize ==
  [][~threw /\ Drags /\ made' = made /\ view' # view =>
       LET before == XAxisRange(rawData, dateWindow)
       IN  /\ dateWindow'[2] - dateWindow'[1] = before[2] - before[1]
           /\ IF device = "mouse" /\ valueWindow = Null THEN valueWindow' = Null
              ELSE valueWindow'[2] - valueWindow'[1] = yRange[2] - yRange[1]]_tvars

(* "double-click to zoom out", and a double tap: behind a double-click that
   a zoom has not just cancelled, every row of a file that has rows is
   drawn. *)
ZoomsOut ==
  [][((DblClick /\ ~context.cancelNextDblclick) \/ DoubleTap)
     /\ rawData \notin {Null, <<>>} =>
       /\ dateWindow' = Null /\ valueWindow' = Null
       /\ rolled # NaN => Len(points'.drawn) = Len(rawData)]_tvars
===============================================================================
