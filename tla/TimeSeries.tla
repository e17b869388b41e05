----------------------------- MODULE TimeSeries -----------------------------
(***************************************************************************)
(* Time series operators (operator/time_series): windows, watermarks and   *)
(* rolling aggregates.  They run in the root circuit only.  A time series  *)
(* is a Z-set of pairs <<timestamp, value>>; there is one partition, as    *)
(* the operators handle partitions one after the other.                    *)
(***************************************************************************)
EXTENDS ZSets, RadixTree

\* A bound that has not been set, and the window before the first step.
Unset == -1
NoWindow == <<Unset, Unset>>

\* The part of a time series with timestamps from lo to hi - 1.
Region(z, lo, hi) ==
    Restrict(z, {x \in DOMAIN z : lo <= x[1] /\ x[1] < hi})

-----------------------------------------------------------------------------
(* Relative ranges.  An offset is [dir, off] with dir "before" or "after". *)

Before(off) == [dir |-> "before", off |-> off]
After(off)  == [dir |-> "after", off |-> off]

saturating_sub(a, b) == IF a >= b THEN a - b ELSE 0
saturating_add(a, b) == IF a + b <= MAX_VALUE THEN a + b ELSE MAX_VALUE

NegOffset(o) == IF o.dir = "before" THEN After(o.off) ELSE Before(o.off)

AddOffset(o1, o2) ==
    CASE o1.dir = o2.dir -> [o1 EXCEPT !.off = saturating_add(@, o2.off)]
      [] o1.dir # o2.dir /\ o1.off >= o2.off -> [o1 EXCEPT !.off = @ - o2.off]
      [] OTHER -> [o2 EXCEPT !.off = @ - o1.off]

\* A range is None when one of its ends that may not saturate overflows.
RangeOrNone(from, to) ==
    IF from > MAX_VALUE \/ to < 0 THEN {} ELSE {[from |-> from, to |-> to]}

range_of(r, ts) ==
    RangeOrNone(IF r.from.dir = "before" THEN saturating_sub(ts, r.from.off)
                                         ELSE ts + r.from.off,
                IF r.to.dir = "before" THEN ts - r.to.off
                                       ELSE saturating_add(ts, r.to.off))

affected_range_of(r, ts) ==
    RangeOrNone(IF r.to.dir = "before" THEN ts + r.to.off
                                       ELSE saturating_sub(ts, r.to.off),
                IF r.from.dir = "before" THEN saturating_add(ts, r.from.off)
                                         ELSE ts - r.from.off)

\* Ranges: ordered, overlapping ones merged.
push_monotonic(ranges, r) ==
    IF ranges # <<>> /\ Last(ranges).to >= r.from
    THEN [ranges EXCEPT ![Len(ranges)].to = Max({@, r.to})]
    ELSE Append(ranges, r)

merge(rs1, rs2) ==
    FoldLeft(push_monotonic, <<>>,
             SortSeq(rs1 \o rs2, LAMBDA r, s : r.from < s.from))

\* RangeCursor restricts a cursor to the keys it finds in the ranges.
InRanges(ranges, ts) ==
    \E i \in DOMAIN ranges : ranges[i].from <= ts /\ ts <= ranges[i].to

-----------------------------------------------------------------------------
(* Watermark and window *)

\* watermark_monotonic, for event times late by at most `lateness`.
WatermarkEval(watermark, batch, lateness) ==
    IF IsEmpty(batch) THEN watermark
    ELSE Max({watermark, saturating_sub(Max(Keys(batch)), lateness)})

\* Z1Trace with a bound: what is below it is dropped when the trace is
\* written back.
Truncate(trace, bound) ==
    IF bound = Unset THEN trace ELSE Region(trace, bound, MAX_VALUE + 1)

\* Window.eval: what left and what entered since the previous window, and the
\* part of the new batch within the window.
WindowEval(window, trace, batch, bounds) ==
    LET s1 == bounds[1]
        e1 == bounds[2]
        s0 == window[1]
        e0 == window[2]
        left   == Region(trace, s0, Min({s1, e0}))
        shrunk == Region(trace, Max({e1, Min({s1, e0})}), e0)
        slid   == Region(trace, Max({e0, s1}), e1)
        moved  == Add(slid, Neg(IF e1 < e0 THEN Add(left, shrunk) ELSE left))
    IN Add(Region(batch, s1, e1), IF window = NoWindow THEN Zero ELSE moved)

-----------------------------------------------------------------------------
(* Rolling aggregate *)

\* The value an aggregator returns for the values of one timestamp: None for
\* an empty group.
AggregateOf(z, ts) ==
    LET group == {x \in DOMAIN z : x[1] = ts}
    IN IF group = {} THEN {}
       ELSE {<< <<ts, MapThenSumSet(LAMBDA x : z[x], group)>> >>}

\* RadixTreeAggregate.eval: the tree after the changed timestamps are updated.
TreeEval(tree, batch, input_trace) ==
    LET times == SetToSortSeq(Keys(batch), <)
        aggs  == [ts \in Keys(batch) |-> AggregateOf(input_trace, ts)]
    IN IF times = <<>> THEN tree
       ELSE Updated(tree, radix_tree_update(tree, times, aggs))

affected_ranges(r, batch) ==
    LET times == SetToSortSeq(Keys(batch), <)
        affected == FoldLeft(
            LAMBDA rs, ts : IF affected_range_of(r, ts) = {} THEN rs
                            ELSE push_monotonic(rs, The(affected_range_of(r, ts))),
            <<>>, times)
        delta == FoldLeft(
            LAMBDA rs, ts : push_monotonic(rs, [from |-> ts, to |-> ts]),
            <<>>, times)
    IN merge(affected, delta)

\* PartitionedRollingAggregate.eval: all outputs in the affected ranges are
\* retracted and computed again.
RollingEval(r, batch, input_trace, tree, output_trace) ==
    LET ranges == affected_ranges(r, batch)
        old == {x \in DOMAIN output_trace : InRanges(ranges, x[1])}
        live == {ts \in Keys(Distinct(input_trace)) :
                   InRanges(ranges, ts) /\ range_of(r, ts) # {}}
        new == {<<ts, aggregate_range(tree, The(range_of(r, ts)))>> : ts \in live}
    IN Add(Neg(Restrict(output_trace, old)), [x \in new |-> 1])

-----------------------------------------------------------------------------
(* Circuits.  `early` says whether the node that sets the trace bound runs *)
(* before the trace is written back in this step: no data flows between    *)
(* the two, so that the scheduler may choose either.                       *)

NewSeries ==
    [window |-> NoWindow, bound |-> Unset, trace |-> Zero,
     watermark |-> 0, input_trace |-> Zero, tree |-> Zero,
     output_trace |-> Zero]

WindowStep(s, batch, bounds, early) ==
    [op |-> [s EXCEPT
               !.window = bounds, !.bound = bounds[1],
               !.trace = Truncate(Add(@, batch),
                                  IF early THEN bounds[1] ELSE s.bound)],
     out |-> WindowEval(s.window, s.trace, batch, bounds)]

\* partitioned_rolling_aggregate_inner: the input goes into its trace, then
\* into the tree, and the output into its own trace.
Output(s, out, bound) ==
    [op  |-> [s EXCEPT !.output_trace = Truncate(Add(@, out), bound)],
     out |-> out]

RollingOutput(s, r, batch, bound) ==
    Output(s, RollingEval(r, batch, s.input_trace, s.tree, s.output_trace), bound)

RollingInner(s, r, batch, windowed, bound) ==
    LET input_trace == Add(s.input_trace, windowed)
    IN RollingOutput(
           [s EXCEPT !.input_trace = input_trace,
                     !.tree = TreeEval(@, windowed, input_trace)],
           r, batch, bound)

\* The inputs that can still change outputs: watermark - (to - from).
LowerBound(r, wm) ==
    LET shifted == [from |-> AddOffset(r.from, NegOffset(r.to)),
                    to   |-> Before(0)]
    IN IF range_of(shifted, wm) = {} THEN 0 ELSE The(range_of(shifted, wm)).from

\* partitioned_rolling_aggregate_with_watermark.
RollingFrom(w, r, batch) == RollingInner(w.op, r, batch, w.out, w.op.window[1])

RollingWithWatermark(s, r, batch, lateness, early) ==
    LET wm == WatermarkEval(s.watermark, batch, lateness)
    IN RollingFrom(WindowStep([s EXCEPT !.watermark = wm], batch,
                              <<LowerBound(r, wm), MAX_VALUE>>, early),
                   r, batch)

-----------------------------------------------------------------------------
(* References *)

\* The aggregate of a time series over a range, timestamp by timestamp.
AggregateOver(z, range) ==
    LET times == SetToSortSeq({ts \in Keys(z) : range.from <= ts /\ ts <= range.to}, <)
    IN FlattenSeq([i \in DOMAIN times |-> The(AggregateOf(z, times[i]))])

RollingOf(z, r) ==
    LET live == {ts \in Keys(Distinct(z)) : range_of(r, ts) # {}}
    IN [x \in {<<ts, AggregateOver(z, The(range_of(r, ts)))>> : ts \in live} |-> 1]

\* Whether a relative range contains the timestamp it is relative to.
IncludesNow(r) ==
    /\ r.from.dir = "before" \/ r.from.off = 0
    /\ r.to.dir = "after" \/ r.to.off = 0

\* The tree that a rolling aggregate keeps is the one of its input.
TreeOfSeries(z) ==
    IF IsEmpty(z) THEN Zero
    ELSE TreeOf([ts \in Keys(z) |-> The(AggregateOf(z, ts))])
=============================================================================
