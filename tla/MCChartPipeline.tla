---------------------------- MODULE MCChartPipeline ----------------------------
(* Lines out of order, at one x, with blanks, with "nan", with junk and with a
   comment; users who set options at every level. *)
EXTENDS ChartPipeline

MCLines ==
  {<<x>> \o ab : x \in {0, 10, 20},
                 ab \in {<<6, 12>>, <<18, 6>>, <<18, Null>>, <<Null, 12>>, <<NaN, 12>>}}
  \cup {<<10, Junk, 6>>, <<Junk>>}

MCWindows == {<<10, 20>>, <<5, 8>>}

NoAxes == [x |-> NoOptions, y |-> NoOptions, y2 |-> NoOptions]
NobodysOptions == [global |-> NoOptions, axes |-> NoAxes, hasSeries |-> FALSE,
                   series |-> <<>>, highlight |-> NoOptions]

MCUsers ==
  {NobodysOptions,
   [NobodysOptions EXCEPT !.global = [stackedGraph |-> TRUE]],
   [NobodysOptions EXCEPT
      !.global = [stepPlot |-> TRUE, fillGraph |-> TRUE, strokeBorderWidth |-> 2],
      !.series = [B |-> [axis |-> <<"own", [stepPlot |-> FALSE, drawGapEdgePoints |-> TRUE]>>,
                         options |-> NoOptions],
                  A |-> [axis |-> <<"share", "B">>,
                         options |-> [connectSeparatedPoints |-> TRUE]]]],
   [NobodysOptions EXCEPT
      !.hasSeries = TRUE,
      !.axes = [NoAxes EXCEPT !.y2 = [stepPlot |-> TRUE]],
      !.series = [A |-> [axis |-> "y2", options |-> [fillGraph |-> TRUE]],
                  B |-> [axis |-> Unset, options |-> [drawPoints |-> TRUE]]]]}
================================================================================
