----------------------------- MODULE Incremental -----------------------------
(***************************************************************************)
(* Incremental circuits (operator/join.rs, distinct.rs, aggregate/mod.rs,  *)
(* upsert.rs, recursive.rs, time_series) driven by the clock of the root   *)
(* circuit or of a circuit nested in it.  A circuit reads changes of its inputs and must *)
(* output exactly the changes of its result.  In the nested circuit there  *)
(* are two dimensions of change, the steps of the parent (epochs) and the  *)
(* iterations within one, and an iteration ends the epoch as soon as every *)
(* operator reports a fixed point.                                         *)
(***************************************************************************)
EXTENDS StreamOperators, TimeSeries

CONSTANTS
    Scenarios,  \* records [kind, nested, epochs]: the circuit, where it is
                \* built and how often its parent steps; a rolling aggregate
                \* also has a range and a lateness, Unset if it is not given
                \* a watermark
    Inputs,     \* for each of them the set of the input streams an epoch can
                \* bring: sequences of records [a, b] of Z-sets, where b is
                \* [bounds, early] for time series
    Horizon     \* bound: the iterations that properties look at

VARIABLES
    scenario,   \* the circuit under test
    epoch,      \* how many epochs have begun
    pc,         \* "idle" between epochs, "run" and "done" within one
    time,       \* the clock of the circuit
    src,        \* what the input of this epoch still brings
    ops,        \* the operators
    exported,   \* the sum of what a recursive circuit gave to its parent
    given,      \* the changes read so far, by input and iteration
    made        \* the changes output so far, by iteration

vars == <<scenario, epoch, pc, time, src, ops, exported, given, made>>

Nothing == [a |-> Zero, b |-> Zero]

\* A batch as an addition to `given` or `made`.
AtTime(z, i) == [e \in (DOMAIN z) \X {i} |-> z[e[1]]]

\* The sum of the changes of all epochs up to iteration i.
UpTo(z, i) ==
    FromTuples({[id |-> e, item |-> e[1], weight |-> z[e]] :
                e \in {f \in DOMAIN z : f[2] <= i}})

IsSet(z) == \A x \in DOMAIN z : z[x] = 1

-----------------------------------------------------------------------------
(* Circuits.  Each step evaluates every operator once, in the order of the *)
(* data flow, and then the strict halves of the delays.                    *)

NewOps(nested) ==
    [left |-> NewJoinTrace, right |-> NewJoinTrace,
     left_trace |-> NewZ1Trace, right_trace |-> NewZ1Trace,
     distinct |-> NewRevisiting, input_trace |-> NewZ1Trace,
     aggregate |-> NewRevisiting, upsert |-> NewUpsert(nested),
     upsert_trace |-> NewZ1Trace,
     delta0 |-> NewDelta0, z1 |-> NewZ1, integral |-> Zero,
     series |-> NewSeries]

\* The sum of the two halves of a join, and both traces with the changes.
JoinReply(o, a, b, left, right) ==
    Reply([o EXCEPT !.left = left.op, !.right = right.op,
             !.left_trace = Z1TraceEvalStrict(@, TraceAppend(@.trace, a, time), a),
             !.right_trace = Z1TraceEvalStrict(@, TraceAppend(@.trace, b, time), b)],
          Add(left.out, right.out))

\* join_generic: each side against the trace of the other; only the left one
\* sees the changes of the current time.
JoinStep(o, a, b, func) ==
    JoinReply(o, a, b,
        JoinTraceEval(o.left, a, TraceAppend(o.right_trace.trace, b, time),
                      time, func, FALSE),
        JoinTraceEval(o.right, b, o.left_trace.trace, time, func, TRUE))

\* distinct: the optimised operator in the root circuit, the general one
\* elsewhere.
DistinctReply(o, a, trace, reply) ==
    Reply([o EXCEPT !.input_trace = Z1TraceEvalStrict(@, trace, a),
                    !.distinct = reply.op], reply.out)

DistinctStep(o, a) ==
    LET delayed == o.input_trace.trace
        trace   == TraceAppend(delayed, a, time)
    IN DistinctReply(o, a, trace,
           IF scenario.nested THEN DistinctEval(o.distinct, a, trace, time)
           ELSE Reply(o.distinct, DistinctTotalEval(a, delayed)))

\* antijoin: the left input without the keys of the right one.
Without(a, common) == Reply(common.op, Add(a, Neg(common.out)))

JoinWith(a, present) == JoinStep(present.op, a, present.out, "left")

AntijoinStep(o, a, b) == Without(a, JoinWith(a, DistinctStep(o, b)))

\* aggregate: AggregateIncremental followed by upsert, with its own trace.
UpsertReply(o, upsert) ==
    Reply([o EXCEPT
             !.upsert = upsert.op,
             !.upsert_trace = Z1TraceEvalStrict(@,
                 TraceAppend(@.trace, upsert.out, time), upsert.out)],
          upsert.out)

AggregateReply(o, a, trace, agg) ==
    UpsertReply([o EXCEPT !.input_trace = Z1TraceEvalStrict(@, trace, a),
                          !.aggregate = agg.op],
                UpsertEval(o.upsert, o.upsert_trace.trace, agg.out))

AggregateStep(o, a) ==
    LET trace == TraceAppend(o.input_trace.trace, a, time)
    IN AggregateReply(o, a, trace, AggregateEval(o.aggregate, a, trace, time))

\* recursive, with paths = distinct(edges + paths joined with edges): the
\* reachability relation of recursive.rs.
Flip(z) == [p \in {<<x[2], x[1]>> : x \in DOMAIN z} |-> z[<<p[2], p[1]>>]]

Feedback(all) ==
    Reply([all.op EXCEPT !.z1 = Z1EvalStrict(@, all.out),
                         !.integral = Add(@, all.out)],
          all.out)

PathsFrom(edges, longer) == DistinctStep(longer.op, Add(edges, longer.out))

RecursiveStep(o) ==
    LET edges == Delta0Eval(o.delta0)
        paths == Z1GetOutput(o.z1)
    IN Feedback(PathsFrom(edges.out,
           JoinStep([o EXCEPT !.delta0 = edges.op, !.z1 = paths.op],
                    Flip(paths.out), edges.out, "pair")))

\* window and partitioned_rolling_aggregate, with or without a watermark.
SeriesReply(o, reply) == Reply([o EXCEPT !.series = reply.op], reply.out)

SeriesStep(o, a, b) ==
    SeriesReply(o,
        CASE scenario.kind = "window" ->
               WindowStep(o.series, a, b.bounds, b.early)
          [] scenario.kind = "rolling" /\ scenario.lateness = Unset ->
               RollingInner(o.series, scenario.range, a, a, Unset)
          [] OTHER ->
               RollingWithWatermark(o.series, scenario.range, a,
                                    scenario.lateness, b.early))

-----------------------------------------------------------------------------
(* The clock *)

Uses(part) ==
    CASE scenario.kind = "join"      -> part = "join"
      [] scenario.kind = "distinct"  -> part = "distinct"
      [] scenario.kind = "antijoin"  -> part \in {"join", "distinct"}
      [] scenario.kind = "aggregate" -> part = "aggregate"
      [] scenario.kind = "recursive" -> part \in {"join", "distinct", "loop"}
      [] OTHER                       -> part = "series"

Eval(in) ==
    CASE scenario.kind = "join"      -> JoinStep(ops, in.a, in.b, "pair")
      [] scenario.kind = "distinct"  -> DistinctStep(ops, in.a)
      [] scenario.kind = "antijoin"  -> AntijoinStep(ops, in.a, in.b)
      [] scenario.kind = "aggregate" -> AggregateStep(ops, in.a)
      [] scenario.kind = "recursive" -> RecursiveStep(ops)
      [] OTHER                       -> SeriesStep(ops, in.a, in.b)

\* circuit.fixedpoint(0): every node is stable, the source included.
Fixedpoint(o, t, rest) ==
    /\ rest = <<>>
    /\ Uses("join") => /\ JoinTraceFixedpoint(o.left, t)
                       /\ JoinTraceFixedpoint(o.right, t)
                       /\ ~o.left_trace.dirty /\ ~o.right_trace.dirty
    /\ Uses("distinct") => /\ RevisitingFixedpoint(o.distinct, t)
                           /\ ~o.input_trace.dirty
    /\ Uses("aggregate") => /\ RevisitingFixedpoint(o.aggregate, t)
                            /\ ~o.input_trace.dirty
                            /\ ~o.upsert_trace.dirty
    /\ Uses("loop") => o.delta0.fixedpoint /\ Z1Fixedpoint(o.z1)

\* clock_start(0) of every node, and the import of the parent stream.
ClockStart(o, in) ==
    [o EXCEPT !.left = ResetFlags(@), !.right = ResetFlags(@),
              !.distinct = ResetFlags(@), !.aggregate = ResetFlags(@),
              !.left_trace = Z1TraceClockStart(@),
              !.right_trace = Z1TraceClockStart(@),
              !.input_trace = Z1TraceClockStart(@),
              !.upsert_trace = Z1TraceClockStart(@),
              !.delta0 = IF Uses("loop") THEN Delta0Import(@, in.a) ELSE @]

\* clock_end(0) of every node.
ClockEnd(o) ==
    [o EXCEPT !.left_trace = Z1TraceClockEnd(@, time),
              !.right_trace = Z1TraceClockEnd(@, time),
              !.input_trace = Z1TraceClockEnd(@, time),
              !.upsert_trace = Z1TraceClockEnd(@, time),
              !.upsert = UpsertClockEnd(@),
              !.z1 = NewZ1, !.integral = Zero]

Now == IF scenario.nested THEN time[2] ELSE 0

Init ==
    /\ scenario \in Scenarios
    /\ epoch = 0 /\ pc = "idle"
    /\ time = Start(scenario.nested)
    /\ src = <<>>
    /\ ops = NewOps(scenario.nested)
    /\ exported = Zero
    /\ given = Nothing /\ made = Zero

\* What a circuit demands of its input: a recursive one and a rolling
\* aggregate a set, a window a lower bound that never falls, a rolling
\* aggregate with a watermark no timestamp below it.
Legal(in) ==
    LET a == Add(given.a, AtTime(in.a, 0))
        s == ops.series
    IN /\ scenario.kind \in {"recursive", "rolling"} => IsSet(a)
       /\ scenario.kind = "window" /\ s.window # NoWindow =>
            s.window[1] <= in.b.bounds[1]
       /\ scenario.kind = "rolling" /\ scenario.lateness # Unset =>
            \A ts \in Keys(in.a) :
                ts >= WatermarkEval(s.watermark, in.a, scenario.lateness)

\* The parent evaluates the nested circuit.
StartEpoch ==
    /\ pc = "idle" /\ epoch < scenario.epochs
    /\ \E s \in Inputs[scenario] :
         /\ Legal(s[1])
         /\ ops' = IF scenario.nested THEN ClockStart(ops, s[1]) ELSE ops
         /\ src' = s
    /\ epoch' = epoch + 1 /\ pc' = "run"
    /\ UNCHANGED <<scenario, time, exported, given, made>>

\* A clock cycle of the circuit, and the check for a fixed point after it.
Step ==
    /\ pc = "run"
    /\ LET in == IF src = <<>> THEN Nothing ELSE Head(src)
           rest == IF src = <<>> THEN src ELSE Tail(src)
       IN \E reply \in {Eval(in)} :
          /\ ops' = reply.op
          /\ time' = Advance(time, 0)
          /\ src' = rest
          /\ given' = [a |-> Add(given.a, AtTime(in.a, Now)),
                       b |-> IF Uses("series") THEN Zero
                             ELSE Add(given.b, AtTime(in.b, Now))]
          /\ made' = Add(made, AtTime(reply.out, Now))
          /\ pc' = IF scenario.nested => Fixedpoint(reply.op, time', rest)
                   THEN "done" ELSE "run"
    /\ UNCHANGED <<scenario, epoch, exported>>

\* The epoch ends; a recursive circuit exports what it has integrated.
EndEpoch ==
    /\ pc = "done"
    /\ pc' = "idle"
    /\ ops' = IF scenario.nested THEN ClockEnd(ops) ELSE ops
    /\ time' = Advance(time, 1)
    /\ exported' = Add(exported, ops.integral)
    /\ UNCHANGED <<scenario, epoch, src, given, made>>

Next == StartEpoch \/ Step \/ EndEpoch

Spec == Init /\ [][Next]_vars

-----------------------------------------------------------------------------
(* What a circuit computes, as a function of its whole inputs *)

Antijoin(a, b) == Restrict(a, {x \in DOMAIN a : x[1] \notin Keys(Distinct(b))})

\* The pairs of nodes joined by a path of one to n edges.
Paths(edges, n) ==
    LET E == DOMAIN edges
        P[i \in 1..n] ==
            IF i = 1 THEN E
            ELSE E \cup {<<p[1], e[2]>> : <<p, e>> \in
                          {q \in P[i - 1] \X E : q[1][2] = q[2][1]}}
    IN [x \in P[n] |-> 1]

Nodes(edges) == UNION {{x[1], x[2]} : x \in DOMAIN edges}

Meaning(a, b, i) ==
    CASE scenario.kind = "join"      -> JoinOf(a, b)
      [] scenario.kind = "distinct"  -> Distinct(a)
      [] scenario.kind = "antijoin"  -> Antijoin(a, b)
      [] scenario.kind = "aggregate" -> MaxOf(a)
      [] scenario.kind = "recursive" -> Paths(a, i + 1)
      [] scenario.kind = "window"    ->
           IF ops.series.window = NoWindow THEN Zero
           ELSE Region(a, ops.series.window[1], ops.series.window[2])
      [] scenario.kind = "rolling"   -> RollingOf(a, scenario.range)

\* The iterations whose outputs are final: those that took place, and once
\* the fixed point is reported all others, of which Horizon are looked at.
Settled == IF pc = "run" THEN 0..(Now - 1) ELSE 0..Horizon

\* antijoin subtracts a key of its left input once for every value that the
\* key has in the right one.
SubtractedTwice(x, b) ==
    Cardinality({y \in DOMAIN Distinct(b) : y[1] = x[1]}) > 1

\* With a watermark, history is kept as if the range of an output began or
\* ended at its own timestamp: an output whose range lies apart from it may
\* depend on data, or be itself, below the bound.
Forgotten(ts) ==
    /\ ~IncludesNow(scenario.range)
    /\ \E reach \in range_of(scenario.range, ts) :
         Min({ts, reach.from}) < ops.series.bound

\* With a watermark, a datum at the largest timestamp is outside the window.
NeverSeen(ts, a) ==
    /\ MAX_VALUE \in Keys(a)
    /\ \E reach \in range_of(scenario.range, ts) : MAX_VALUE \in {ts, reach.to}

\* The outputs that the code is known to get wrong.
Excepted(x, a, b) ==
    CASE scenario.kind = "antijoin" -> SubtractedTwice(x, b)
      [] scenario.kind = "rolling" /\ scenario.lateness # Unset ->
           Forgotten(x[1]) \/ NeverSeen(x[1], a)
      [] OTHER -> FALSE

Sound(z, a, b) == Restrict(z, {x \in DOMAIN z : ~Excepted(x, a, b)})

\* What the circuit has output up to any iteration is what the query returns
\* for what it has read up to that iteration, whichever epochs the changes
\* came in.  In particular no operator reports a fixed point while an update
\* of a past epoch still has an effect to come (keys_of_interest of distinct
\* and aggregate, output_batchers of join), and the merge of past epochs at
\* clock_end loses nothing that a later epoch depends on.  Excepted are the
\* outputs of antijoin for keys with several values in `other`, and those of
\* rolling aggregates with a watermark that depend on data before the bound
\* (in ranges without the current time) or at the largest timestamp.
Exact ==
    \A i \in Settled :
        LET a == UpTo(given.a, i)
            b == UpTo(given.b, i)
        IN Sound(UpTo(made, i), a, b) = Sound(Meaning(a, b, i), a, b)

\* The radix tree that a rolling aggregate maintains change by change is the
\* tree of the timestamps it covers: one node for the root and for each prefix
\* where two of them part, no node that has become empty or has one child
\* left, and in every pointer the aggregate of all timestamps below it.
TreeCanonical == ops.series.tree = TreeOfSeries(ops.series.input_trace)

\* What a recursive circuit has exported at the ends of its epochs adds up to
\* the transitive closure of the edges it has now, deleted edges included.
ExportsClosure ==
    scenario.kind = "recursive" /\ pc = "idle" =>
        LET edges == UpTo(given.a, 0)
        IN exported = IF IsEmpty(edges) THEN Zero
                      ELSE Paths(edges, Cardinality(Nodes(edges)))

\* An epoch converges: after Horizon iterations, two more than any change of
\* the inputs and of the paths in them takes, the fixed point is reported,
\* although every operator may answer "not yet" on its own grounds.
Converges == pc = "run" => Now < Horizon
=============================================================================
