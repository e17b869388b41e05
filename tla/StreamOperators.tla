--------------------------- MODULE StreamOperators ---------------------------
(***************************************************************************)
(* The stateful operators that incremental circuits are built of: the      *)
(* delays and traces (z1.rs, trace.rs), the import operator delta0.rs, and *)
(* the incremental join, distinct, aggregation and upsert.  Every operator *)
(* is a record of its fields; its eval is an operator that returns the new *)
(* record and the output.  A trace is a Z-set whose elements are pairs of  *)
(* an item <<key, value>> and the time it was added at.                    *)
(***************************************************************************)
EXTENDS ZSets, Timestamps

Reply(op, out) == [op |-> op, out |-> out]

-----------------------------------------------------------------------------
(* Traces *)

\* TraceAppend: the batch is labelled with the current time and inserted.
TraceAppend(trace, batch, time) ==
    Add(trace, [e \in (DOMAIN batch) \X {time} |-> batch[e[1]]])

\* Trace::recede_to moves every update back below the frontier.
RecedeTo(trace, frontier) ==
    FromTuples({[id |-> e, item |-> <<e[1], Meet(e[2], frontier)>>,
                 weight |-> trace[e]] : e \in DOMAIN trace})

\* Z1Trace.  dirty is dirty[0], the only one a circuit nested once reads;
\* `time` is only used through epoch_end(root_scope), which does not depend
\* on how far it has advanced.
NewZ1Trace == [trace |-> Zero, dirty |-> FALSE]

Z1TraceClockStart(z) == [z EXCEPT !.dirty = FALSE]

\* Mutant: dirty[0] accumulates like the flags of the outer scopes.
Z1TraceEvalStrict_mutant(z, trace, batch) ==
    [trace |-> trace, dirty |-> z.dirty \/ ~IsEmpty(batch)]

\* eval_strict_owned: batch is what TraceAppend has just inserted.
Z1TraceEvalStrict(z, trace, batch) ==
    [trace |-> trace, dirty |-> ~IsEmpty(batch)]

\* clock_end: forget which of the past epochs an update is from.
Z1TraceClockEnd(z, time) ==
    [z EXCEPT !.trace = RecedeTo(@, CheckedRecede(EpochEnd(time, 1), 1))]

\* The weight that x has at time t.
WeightAt(trace, x, t) ==
    LET times == {e \in DOMAIN trace : e[1] = x /\ LessEqual(e[2], t)}
    IN MapThenSumSet(LAMBDA e : trace[e], times)

\* The batch that holds the weights at time t (CursorGroup).
At(trace, t) ==
    NonZero([x \in {e[1] : e \in DOMAIN trace} |-> WeightAt(trace, x, t)])

-----------------------------------------------------------------------------
(* Z1, the delay, and Delta0, the import of a parent stream *)

NewZ1 == [values |-> Zero, empty_output |-> FALSE]

\* get_output, called first in a clock cycle, and eval_strict, called last.
Z1GetOutput(z) ==
    Reply([values |-> Zero, empty_output |-> IsEmpty(z.values)], z.values)

Z1EvalStrict(z, batch) == [z EXCEPT !.values = batch]

Z1Fixedpoint(z) == IsEmpty(z.values) /\ z.empty_output

\* val is a set of at most one batch (Option).
NewDelta0 == [val |-> {}, fixedpoint |-> FALSE]

Delta0Import(d, batch) == [val |-> {batch}, fixedpoint |-> FALSE]

Delta0Eval(d) ==
    IF d.val = {}
    THEN Reply([d EXCEPT !.fixedpoint = TRUE], Zero)
    ELSE Reply([d EXCEPT !.val = {}], CHOOSE b \in d.val : TRUE)

-----------------------------------------------------------------------------
(* JoinTrace: joins a batch with the trace of the other stream *)

NewJoinTrace ==
    [output_batchers |-> Zero, empty_input |-> FALSE, empty_output |-> FALSE]

\* clock_start(0), of the join, the distinct and the aggregate alike.
ResetFlags(op) == [op EXCEPT !.empty_input = FALSE, !.empty_output = FALSE]

\* The user's function: both values, or (in antijoin) the left item.
JoinFunc(func, k, v1, v2) == IF func = "pair" THEN <<v1, v2>> ELSE <<k, v1>>

\* The batcher of the current time is sealed and returned.
Seal(index, time, batchers) ==
    LET result == IF time \in DOMAIN batchers THEN batchers[time] ELSE Zero
    IN Reply([output_batchers |-> Restrict(batchers, DOMAIN batchers \ {time}),
              empty_input     |-> IsEmpty(index),
              empty_output    |-> IsEmpty(result)],
             result)

\* The batchers with each tuple pushed to the one of its time.
Push(old, tuples) ==
    [t \in DOMAIN old \cup {u.time : u \in tuples} |->
       Add(IF t \in DOMAIN old THEN old[t] ELSE Zero,
           FromTuples({u \in tuples : u.time = t}))]

\* Every match goes to the batcher of the time at which both of its sides are
\* visible.  swap is set in the operator that reads the right stream and the
\* left trace; func names the join function.
JoinTraceEval(op, index, trace, time, func, swap) ==
    LET matches == {p \in (DOMAIN index) \X (DOMAIN trace) :
                      p[1][1] = p[2][1][1]}
        Item(k, v, u) == IF swap THEN JoinFunc(func, k, u, v)
                         ELSE JoinFunc(func, k, v, u)
        tuples == {[id     |-> p,
                    time   |-> Join(p[2][2], time),
                    item   |-> Item(p[1][1], p[1][2], p[2][1][2]),
                    weight |-> index[p[1]] * trace[p[2]]] : p \in matches}
    IN Seal(index, time, Push(op.output_batchers, tuples))

JoinTraceFixedpoint(op, time) ==
    /\ op.empty_input
    /\ op.empty_output
    /\ \A t \in DOMAIN op.output_batchers : ~LessEqual(t, EpochEnd(time, 0))

-----------------------------------------------------------------------------
(* DistinctIncremental and AggregateIncremental re-evaluate, at a later    *)
(* time, what an update of a past epoch may change then                    *)

NewRevisiting ==
    [keys_of_interest |-> Zero, empty_input |-> FALSE, empty_output |-> FALSE]

\* Mutant: the farthest of the times.
TimeOfInterest_mutant(times, time) ==
    LET future == {Join(time, t) : t \in {s \in times : ~LessEqual(s, time)}}
    IN IF future = {} THEN None
       ELSE CHOOSE t \in future : \A s \in future : ~StrictlyBefore(t, s)

\* The nearest time at which one of these updates is joined with the present.
TimeOfInterest(times, time) ==
    LET future == {Join(time, t) : t \in {s \in times : ~LessEqual(s, time)}}
    IN IF future = {} THEN None
       ELSE CHOOSE t \in future : \A s \in future : ~StrictlyBefore(s, t)

KeysOfInterest(op, time) ==
    IF time \in DOMAIN op.keys_of_interest THEN op.keys_of_interest[time]
    ELSE {}

\* Remove the keys of this time and add those that were found to come back.
\* later is a set of pairs of a key and a time.
Revisit(op, time, later) ==
    LET kept == Restrict(op.keys_of_interest,
                         DOMAIN op.keys_of_interest \ {time})
        new  == {p \in later : p[2] # None}
    IN [t \in DOMAIN kept \cup {p[2] : p \in new} |->
          (IF t \in DOMAIN kept THEN kept[t] ELSE {})
            \cup {p[1] : p \in {q \in new : q[2] = t}}]

\* Mutant: what is due in a later iteration is overlooked.
NothingToRevisit_mutant(op, time) == TRUE

\* clock_end asserts the same.
NothingToRevisit(op, time) ==
    \A t \in DOMAIN op.keys_of_interest : ~LessEqual(t, EpochEnd(time, 0))

RevisitingFixedpoint(op, time) ==
    op.empty_input /\ op.empty_output /\ NothingToRevisit(op, time)

\* DistinctIncremental: the weight of x in distinct(integral) at time t, which
\* is zero before the first time.
DistinctValue(trace, x, t) ==
    IF t # None /\ WeightAt(trace, x, t) > 0 THEN 1 ELSE 0

\* The derivative in both dimensions of time: the four corners of the unit
\* square that ends at the current time.
PartialDerivative(trace, x, time) ==
    LET old == CheckedRecede(time, 1)
    IN (DistinctValue(trace, x, time)
          - DistinctValue(trace, x, CheckedRecede(time, 0)))
       - (DistinctValue(trace, x, old)
            - DistinctValue(trace, x, CheckedRecede(old, 0)))

TimesOf(trace, x) == {e[2] : e \in {e \in DOMAIN trace : e[1] = x}}

DistinctEval(op, delta, trace, time) ==
    LET visited == DOMAIN delta \cup KeysOfInterest(op, time)
        result  == NonZero([x \in visited |->
                              PartialDerivative(trace, x, time)])
        later   == {<<x, TimeOfInterest(TimesOf(trace, x), time)>> :
                    x \in visited}
    IN Reply([keys_of_interest |-> Revisit(op, time, later),
              empty_input      |-> IsEmpty(delta),
              empty_output     |-> IsEmpty(result)],
             result)

\* DistinctIncrementalTotal, for the root circuit: compare the weight before
\* and after the change.
DistinctTotalEval(delta, delayed_integral) ==
    LET old(x) == Weight(delayed_integral, <<x, <<>>>>)
        new(x) == old(x) + delta[x]
    IN NonZero([x \in DOMAIN delta |->
                  CASE old(x) <= 0 /\ new(x) > 0  -> 1
                    [] old(x) > 0 /\ new(x) <= 0  -> -1
                    [] OTHER                      -> 0])

\* The Max aggregator: the largest value of k with a non-zero weight, None (an
\* empty set) if it has no value.
MaxAggregate(z, k) ==
    LET vals == {x[2] : x \in {y \in DOMAIN z : y[1] = k}}
    IN IF vals = {} THEN {} ELSE {Max(vals)}

\* AggregateIncremental: the aggregate of every key that changed or is due.
AggregateEval(op, delta, trace, time) ==
    LET visited == Keys(delta) \cup KeysOfInterest(op, time)
        now     == At(trace, time)
        Times(k) == {e[2] : e \in {f \in DOMAIN trace : f[1][1] = k}}
        later   == IF time = <<>> THEN {}
                   ELSE {<<k, TimeOfInterest(Times(k), time)>> :
                         k \in visited}
        result  == [k \in visited |-> MaxAggregate(now, k)]
    IN Reply([keys_of_interest |-> Revisit(op, time, later),
              empty_input      |-> IsEmpty(delta),
              empty_output     |-> IsEmpty(result)],
             result)

-----------------------------------------------------------------------------
(* Upsert: turns "the key now has this value" into a change of a Z-set *)

NewUpsert(nested) == [time |-> Start(nested)]

UpsertEval(op, trace, updates) ==
    LET now == At(trace, op.time)
        retract == [x \in {y \in DOMAIN now : y[1] \in DOMAIN updates} |->
                      -now[x]]
        insert  == [x \in UNION {{k} \X updates[k] : k \in DOMAIN updates} |-> 1]
    IN Reply([time |-> Advance(op.time, 0)], Add(insert, retract))

UpsertClockEnd(op) == [time |-> Advance(op.time, 1)]
=============================================================================
