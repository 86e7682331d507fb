-------------------------------- MODULE MCChart --------------------------------
(* Two files: one with a blank value, and one whose rows are out of order. *)
EXTENDS ChartTouch

CONSTANTS f1, f2

MCContent ==
  [f \in Files |-> IF f = f1
                   THEN <<<<0, 60>>, <<32, Null>>, <<64, 120>>>>
                   ELSE <<<<64, 0>>, <<Junk>>, <<0, 60>>>>]

(* The left edge and the middle of the plot area, below the plot area, and far
   off the chart. *)
MCPositions == {<<10, 10>>, <<50, 10>>, <<50, 48>>, <<210, 10>>}
================================================================================
