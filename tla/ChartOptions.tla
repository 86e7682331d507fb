------------------------------ MODULE ChartOptions ------------------------------
(***************************************************************************)
(* Where dygraph-combined-dev.js finds the value of an option: the user's  *)
(* options for a series, for its axis and for the whole chart, then the    *)
(* defaults.  Pure operators.  A set of options is a function from names   *)
(* to values.  The user's options are                                      *)
(*   [global, axes : [x, y, y2], hasSeries, series, highlight]             *)
(* where series maps the series with options of their own to               *)
(*   [axis, options].                                                      *)
(* Axes count from 1.                                                      *)
(***************************************************************************)
EXTENDS Integers, Sequences, FiniteSets, SequencesExt

CONSTANT Unset    \* an option nobody has set

Lookup(options, name) == IF name \in DOMAIN options THEN options[name] ELSE Unset
FirstSet(values) ==
  LET set == {i \in DOMAIN values : values[i] # Unset}
  IN  IF set = {} THEN Unset ELSE values[Min(set)]

Override(below, above) ==
  [n \in DOMAIN below \cup DOMAIN above |-> IF n \in DOMAIN above THEN above[n] ELSE below[n]]

NoOptions == <<>>
OwnOptions(user, s) ==
  IF s \in DOMAIN user.series THEN user.series[s] ELSE [axis |-> Unset, options |-> NoOptions]

(* axisToIndex_ of the names that are legal. *)
AxisToIndex(axis) == IF axis \in {"y2", "Y2"} THEN 2 ELSE 1

NewAxis(series, options) == [series |-> series, options |-> options]

(* reparseSeries with the option "series": the axes are named, and the
   second comes into being with its first series. *)
AssignNamed(user, labels) ==
  LET assign(acc, s) ==
        LET axis == AxisToIndex(OwnOptions(user, s).axis)
        IN  [yAxis |-> [acc.yAxis EXCEPT ![s] = axis],
             yAxes |-> IF axis > Len(acc.yAxes) THEN Append(acc.yAxes, NewAxis(<<s>>, NoOptions))
                       ELSE [acc.yAxes EXCEPT ![axis].series = Append(@, s)]]
  IN  FoldLeft(assign,
               [yAxis |-> [s \in ToSet(labels) |-> 1],
                yAxes |-> <<NewAxis(<<>>, NoOptions)>>], labels)

(* reparseSeries without it: axis is <<"own", options>>, the name of the
   series whose axis is shared in <<"share", name>>, or Unset.  Sharing is
   resolved in the order of the labels behind the first loop. *)
AssignOldStyle(user, labels) ==
  LET axisOf(s) == OwnOptions(user, s).axis
      first(acc, s) ==
        IF axisOf(s) = Unset THEN [acc EXCEPT !.yAxes[1].series = Append(@, s)]
        ELSE IF axisOf(s)[1] = "own"
        THEN [yAxis |-> [acc.yAxis EXCEPT ![s] = Len(acc.yAxes) + 1],
              yAxes |-> Append(acc.yAxes, NewAxis(<<s>>, axisOf(s)[2]))]
        ELSE acc
      share(acc, s) ==
        IF axisOf(s) = Unset \/ axisOf(s)[1] # "share" THEN acc
        ELSE LET axis == acc.yAxis[axisOf(s)[2]]
             IN  [yAxis |-> [acc.yAxis EXCEPT ![s] = axis],
                  yAxes |-> [acc.yAxes EXCEPT ![axis].series = Append(@, s)]]
      start == [yAxis |-> [s \in ToSet(labels) |-> 1],
                yAxes |-> <<NewAxis(<<>>, NoOptions)>>]
  IN  FoldLeft(share, FoldLeft(first, start, labels), labels)

(* reparseSeries: the options of the axes themselves are added last. *)
ReparseSeries(user, labels) ==
  LET axisOptions(i) == CASE i = 1 -> user.axes.y [] i = 2 -> user.axes.y2 [] OTHER -> NoOptions
      completed(assigned, xOptions) ==
        [yAxis |-> assigned.yAxis, xAxis |-> xOptions,
         yAxes |-> [i \in DOMAIN assigned.yAxes |->
                      [assigned.yAxes[i] EXCEPT !.options = Override(@, axisOptions(i))]]]
  IN  completed(IF user.hasSeries THEN AssignNamed(user, labels)
                ELSE AssignOldStyle(user, labels), user.axes.x)

(* getForAxis: axis is 0 for x, or the index of a y axis.  logscale of the whole
   chart is no option of the x axis. *)
GetForAxis(parsed, user, defaults, name, axis) ==
  LET own == IF axis = 0 THEN parsed.xAxis
             ELSE IF axis \in DOMAIN parsed.yAxes THEN parsed.yAxes[axis].options
             ELSE NoOptions
  IN  FirstSet(<<Lookup(own, name),
                 IF axis = 0 /\ name = "logscale" THEN Unset ELSE Lookup(user.global, name),
                 Lookup(CASE axis = 0 -> defaults.axes.x [] axis = 1 -> defaults.axes.y
                          [] OTHER -> defaults.axes.y2, name),
                 Lookup(defaults.global, name)>>)

(* getForSeries: the highlighted series may have options of its own. *)
GetForSeries(parsed, user, defaults, highlighted, name, s) ==
  FirstSet(<<IF s = highlighted THEN Lookup(user.highlight, name) ELSE Unset,
             Lookup(OwnOptions(user, s).options, name),
             GetForAxis(parsed, user, defaults, name, parsed.yAxis[s])>>)
===============================================================================
