------------------------------ MODULE MultiChart ------------------------------
(***************************************************************************)
(* The chart of histories and live points (web/src/js/components/chart/    *)
(* multi and lib/chart/series.js).  Two separate passes over the first     *)
(* series say where an agent was offline: one finds the bands that are     *)
(* shaded, the other breaks the line.  Both work on whatever history,      *)
(* live points and range the chart has at the moment it is drawn.          *)
(*                                                                         *)
(* The labels under its time axis (drawTimeAxis in components/chart/multi/ *)
(* layers.js) are one pass from the oldest tick to the newest that leaves  *)
(* out the labels there is no room for.  The number of ticks is estimated  *)
(* from three labels, the others may be wider.                             *)
(***************************************************************************)
EXTENDS Integers, FiniteSets

CONSTANTS Minute,     \* of the unit of time in which samples are told apart
          Samples,    \* points into which a range is divided (1000)
          MaxPoints,  \* points of a series that live points may add to (1200)
          Hours,      \* lengths of the quick ranges
          Zooms,      \* custom ranges, picked or dragged: pairs of times
          MaxTime     \* bound: the last moment

ASSUME MultiChartAssumption ==
  /\ {Minute, Samples, MaxPoints, MaxTime} \subseteq Nat \ {0}
  /\ Hours \subseteq Nat \ {0}
  /\ Zooms \subseteq Nat \X Nat /\ \A z \in Zooms : z[1] < z[2]

VARIABLES data,        \* times of the samples of the first series
          hours, customRange,   \* customRange is <<>> when there is none
          queryEndTime,
          clock,       \* time of the last frame or load
          bands,       \* offline bands drawn
          segments,    \* pieces of the line drawn: sets of samples
          marker       \* the dot on the latest sample is drawn

chartVars == <<data, hours, customRange, queryEndTime, clock, bands, segments, marker>>

Times == 0 .. MaxTime
AtLeast(a, b) == IF a >= b THEN a ELSE b
Latest(d) == CHOOSE t \in d : \A u \in d : u <= t
Next2(d) == {p \in d \X d : p[1] < p[2] /\ ~\E u \in d : p[1] < u /\ u < p[2]}

\* What both passes derive from the range on the axis.
ExpectedStep(span)  == AtLeast(Minute, span \div Samples)
Threshold(span)     == AtLeast(3 * Minute, (5 * ExpectedStep(span)) \div 2)
TailThreshold(span) == AtLeast(3 * Minute, (3 * Threshold(span)) \div 2)

\* getTimeRange
Span(h, custom) == IF custom # <<>> THEN custom[2] - custom[1] ELSE h

\* Mutant of CalculateDowntimes: the last samples are held to the same limit as
\* the others.
CalculateDowntimesStrictly(d, end, span) ==
  LET step == ExpectedStep(span) IN
    {<<p[1] + step, p[2] - step>> : p \in {q \in Next2(d) : q[2] - q[1] > Threshold(span)}}
      \cup IF d # {} /\ end > Latest(d) + Threshold(span)
           THEN {<<Latest(d) + step, end>>} ELSE {}

\* The bands: between two samples that are further apart than two and a half
\* steps, and from the last one when the end of the query is later still.
CalculateDowntimes(d, end, span) ==
  LET step == ExpectedStep(span) IN
    {<<p[1] + step, p[2] - step>> : p \in {q \in Next2(d) : q[2] - q[1] > Threshold(span)}}
      \cup IF d # {} /\ end > Latest(d) + TailThreshold(span)
           THEN {<<Latest(d) + step, end>>} ELSE {}

\* buildCleanSeries: the places where empty points interrupt the line; a single
\* sample is left alone.
Breaks(d, end, span) ==
  IF Cardinality(d) < 2 THEN {}
  ELSE {p[1] : p \in {q \in Next2(d) : q[2] - q[1] > Threshold(span)}}
         \cup IF end > Latest(d) + TailThreshold(span) THEN {Latest(d)} ELSE {}

\* drawSeries: the samples between two interruptions are one piece; the latest one
\* gets a dot unless an interruption follows it.
Segments(d, end, span) ==
  LET cuts == Breaks(d, end, span)
      Together(t) == {u \in d : ~\E c \in cuts : (t <= c /\ c < u) \/ (u <= c /\ c < t)}
  IN {Together(t) : t \in d}

\* draw: nothing but a notice without samples.
Draw ==
  LET span == Span(hours', customRange') IN
    IF data' = {} THEN bands' = {} /\ segments' = {} /\ marker' = FALSE
    ELSE /\ bands' = CalculateDowntimes(data', queryEndTime', span)
         /\ segments' = Segments(data', queryEndTime', span)
         /\ marker' = (Latest(data') \notin Breaks(data', queryEndTime', span))

ChartInit ==
  /\ data = {}
  /\ hours \in Hours /\ customRange = <<>>
  /\ queryEndTime = 0 /\ clock = 0
  /\ bands = {} /\ segments = {} /\ marker = FALSE

\* The samples a load may return: one per step of its range, some of them missing.
RangeSamples(from, to) ==
  SUBSET {t \in from .. to : (to - t) % ExpectedStep(to - from) = 0}

\* updateSeries, for a range that ends now.
ShowHours(h, t, d) ==
  /\ clock <= t /\ t >= h
  /\ d \in RangeSamples(t - h, t)
  /\ clock' = t /\ queryEndTime' = t
  /\ hours' = h /\ customRange' = <<>>
  /\ data' = d
  /\ Draw

\* updateSeries for a custom range, which the user picked or dragged.
ShowCustom(from, to, d) ==
  /\ to <= clock
  /\ d \in RangeSamples(from, to)
  /\ customRange' = <<from, to>> /\ queryEndTime' = to
  /\ data' = d
  /\ UNCHANGED <<hours, clock>>
  /\ Draw

\* A live point replaces the value of a sample that is less than a step away, or
\* is added, at the expense of the oldest when there are too many.
WithLivePoint(d, t) ==
  LET step == AtLeast(Minute \div 4, hours \div Samples) IN
    IF d # {} /\ t < Latest(d) + step THEN d
    ELSE IF Cardinality(d) = MaxPoints
         THEN (d \cup {t}) \ {CHOOSE u \in d : \A v \in d : u <= v}
         ELSE d \cup {t}

\* updateLivePoint: frames come in the order of their times; one without a value
\* for the first series still moves the end of the query when it has one for
\* another, and a custom range is frozen.
LivePoint(t, first, another) ==
  /\ clock <= t
  /\ clock' = t
  /\ IF customRange # <<>> \/ ~(first \/ another)
     THEN UNCHANGED <<data, queryEndTime, bands, segments, marker, hours, customRange>>
     ELSE /\ data' = IF first THEN WithLivePoint(data, t) ELSE data
          /\ queryEndTime' = AtLeast(queryEndTime, t)
          /\ UNCHANGED <<hours, customRange>>
          /\ Draw

ChartNext ==
  \/ \E h \in Hours, t \in Times : \E d \in RangeSamples(t - h, t) : ShowHours(h, t, d)
  \/ \E z \in Zooms : \E d \in RangeSamples(z[1], z[2]) : ShowCustom(z[1], z[2], d)
  \/ \E t \in Times, first, another \in BOOLEAN : LivePoint(t, first, another)

\* Whatever loads and live points made the series, what is drawn agrees: the line
\* is interrupted between two samples exactly where a band is, every band has a
\* length and lies clear of all samples, and the dot that marks the latest sample is
\* there unless a band follows it.  There is one exception: a sample that is the only
\* one has its dot always, so that an agent shaded as offline up to now is marked as
\* live; the pass that breaks the line returns early for it (series.js:75).
BandsMarkBreaks ==
  /\ \A p \in Next2(data) :
       (\E s \in segments : {p[1], p[2]} \subseteq s)
         <=> ~\E b \in bands : p[1] < b[1] /\ b[2] < p[2]
  /\ \A b \in bands : b[1] < b[2] /\ \A t \in data : t < b[1] \/ t > b[2]
  /\ data # {} =>
       (marker <=> Cardinality(data) = 1 \/ ~\E b \in bands : Latest(data) < b[1])

-----------------------------------------------------------------------------
(* The labels of the time axis *)

CONSTANTS Plots,      \* widths a plot may have, in half the gap between labels
          Widths,     \* widths of labels
          MinSlot     \* least room for a tick (70 pixels)

Gap      == 2            \* 8 pixels
MostTicks == 5
Nothing  == -1000        \* -Infinity, to the left of any label

ASSUME TimeAxisAssumption ==
  /\ Plots \cup Widths \cup {MinSlot} \subseteq Nat \ {0}
  /\ \A w \in Widths : Nothing + 2 * Gap + 2 * w < 0

VARIABLES plot,       \* graphWidth, to the right of the padding
          labels,     \* widths of the ticks' labels
          tick,       \* i
          edge,       \* lastDrawnRight
          drawn       \* left and right edges of the labels that were drawn

axisVars == <<plot, labels, tick, edge, drawn>>

Widest(ws) == CHOOSE w \in ws : \A v \in ws : v <= w
\* As many ticks as have room for the widest of the labels measured, at least two.
TickCount(width, measured) ==
  LET slot == Widest({MinSlot} \cup {w + 3 * Gap : w \in measured})
      room == Widest({2, width \div slot})
  IN IF room < MostTicks THEN room ELSE MostTicks

AxisInit ==
  /\ plot \in Plots
  /\ \E first \in Widths, middle \in Widths, newest \in Widths :
       LET n == TickCount(plot, {first, middle, newest}) IN
         labels \in {ws \in [0 .. n -> Widths] :
                       /\ ws[0] = first /\ ws[n] = newest
                       /\ n % 2 = 0 => ws[n \div 2] = middle}
  /\ tick = 0 /\ edge = Nothing /\ drawn = {}

Count == CHOOSE n \in 1 .. MostTicks : DOMAIN labels = 0 .. n

\* The first label starts at its tick, the newest ends there, the others are
\* centred.  Edges are in halves of the unit of width.
Position(i) ==
  LET x == (2 * plot * i) \div Count
      w == labels[i]
  IN IF i = 0 THEN <<x, x + 2 * w>>
     ELSE IF i = Count THEN <<x - 2 * w, x>>
     ELSE <<x - w, x + w>>

\* A label needs a gap to the one before and, but for the newest, to the newest.
Fits(i) ==
  /\ Position(i)[1] >= edge + 2 * Gap
  /\ i < Count => Position(i)[2] + 2 * Gap <= 2 * plot - 2 * labels[Count]

DrawTick ==
  /\ tick <= Count
  /\ tick' = tick + 1
  /\ IF Fits(tick) THEN drawn' = drawn \cup {Position(tick)} /\ edge' = Position(tick)[2]
     ELSE UNCHANGED <<drawn, edge>>
  /\ UNCHANGED <<plot, labels>>

\* A redraw, after a resize or with other data, starts again.
RedrawAxis ==
  /\ tick > Count
  /\ tick' = 0 /\ edge' = Nothing /\ drawn' = {}
  /\ UNCHANGED <<plot, labels>>

AxisNext == DrawTick \/ RedrawAxis

\* "Strict Non-Overlapping Guarantee" (layers.js:116): no two labels are closer
\* than the gap, and once the axis is drawn the newest moment has its label,
\* however wide the labels are that the estimate did not measure.
LabelsDoNotOverlap ==
  /\ \A a, b \in drawn : a = b \/ a[2] + 2 * Gap <= b[1] \/ b[2] + 2 * Gap <= a[1]
  /\ tick > Count => Position(Count) \in drawn
=============================================================================
