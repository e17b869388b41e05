------------------------------- MODULE Merger -------------------------------
(***************************************************************************)
(* The fueled merge of two ordered layers (OrderedBuilder in               *)
(* trace/layers/ordered/mod.rs) as the mergers of OrdIndexedZSet and       *)
(* OrdValBatch drive it and the spine pays for it: each call of work gets  *)
(* some fuel, merges for about as many values and leaves its cursors where *)
(* the next call goes on.  Between two calls the owner of the trace may    *)
(* raise the lower bound on values.                                        *)
(*                                                                         *)
(* A layer is a sequence of keys, each with the non-empty map from its     *)
(* values to their weights.                                                *)
(***************************************************************************)
EXTENDS Integers, Sequences, FiniteSets, SequencesExt

CONSTANTS
    Sources1, Sources2,     \* the layers to merge
    Fuels,                  \* amounts of fuel of one call
    StepMax,                \* keys copied by one step, 1_000 in the code
    Limits                  \* records: `bounds`, the values of lower_val_bound
                            \* (0 stands for None), and `copy_min`, the least
                            \* fuel for copying a rest, 1_000 in the code

ASSUME MergerAssumption ==
    /\ Fuels \subseteq Nat \ {0}
    /\ StepMax \in Nat \ {0}
    /\ \A l \in Limits : l.bounds \subseteq Nat /\ l.copy_min \in Nat \ {0}

VARIABLES
    source1, source2, lower1, lower2, result,   \* the merger
    limits,     \* the member of Limits that holds in this behaviour
    bound,      \* lower_val_bound
    fuel,       \* what is left of the fuel of the current or the last call
    start,      \* starting_updates
    pc          \* "idle" between calls, "work" inside, "done" after done()

vars == <<source1, source2, limits, lower1, lower2, result, bound, fuel, start, pc>>
sources == <<source1, source2, limits>>

(* new_merger *)
Init ==
    /\ source1 \in Sources1 /\ source2 \in Sources2
    /\ limits \in Limits
    /\ lower1 = 0 /\ lower2 = 0
    /\ result = <<>>
    /\ bound = 0
    /\ fuel = 0 /\ start = 0
    /\ pc = "idle"

-----------------------------------------------------------------------------

(* offs: the number of values of the first n keys of a layer. *)
Offset(layer, n) ==
    FoldLeft(LAMBDA sum, entry : sum + Cardinality(DOMAIN entry.vals), 0, SubSeq(layer, 1, n))

Values(layer) == Offset(layer, Len(layer))

(* advance: how many positions from lo + 1 on pass before the first that fails. *)
advance(lo, passing) == Cardinality({i \in passing : lo + 1..i \subseteq passing})

After(lo, layer) == lo + 1..Len(layer)

(* Values below the bound are skipped (cursor.seek); None skips nothing. *)
Truncated(vals) == [v \in {u \in DOMAIN vals : u >= bound} |-> vals[v]]

Weight(vals, v) == IF v \in DOMAIN vals THEN vals[v] ELSE 0

(* A mutant: only one side is truncated. *)
MergedVals_mutant(vals1, vals2) ==
    LET sum(v) == Weight(Truncated(vals1), v) + Weight(vals2, v)
    IN [v \in {u \in DOMAIN vals1 \cup DOMAIN vals2 : sum(u) # 0} |-> sum(v)]

(* push_merge of the values of one key: weights add up, zeros vanish. *)
MergedVals(vals1, vals2) ==
    LET sum(v) == Weight(Truncated(vals1), v) + Weight(Truncated(vals2), v)
    IN [v \in {u \in DOMAIN vals1 \cup DOMAIN vals2 : sum(u) # 0} |-> sum(v)]

NonEmpty(entries) == SelectSeq(entries, LAMBDA entry : entry.vals # <<>>)

(* copy_range, or copy_range_truncate_values_fueled without a fuel limit:  *)
(* keys left without values are dropped.                                   *)
copy_range(layer, lo, hi) ==
    NonEmpty([i \in 1..(hi - lo) |->
                [key |-> layer[lo + i].key, vals |-> Truncated(layer[lo + i].vals)]])

(* A mutant: copying stops before the fuel is used up. *)
CopyEnd_mutant(layer, lo, limit) ==
    lo + advance(lo, {i \in After(lo, layer) : Offset(layer, i) - Offset(layer, lo) < limit})

(* Where copying from lo stops, counting the values of the source: without *)
(* a bound, before the first key that starts beyond the fuel ...           *)
copy_range_fueled(layer, lo, limit) ==
    lo + advance(lo, {i \in After(lo, layer) :
                        Offset(layer, i - 1) - Offset(layer, lo) <= limit})

(* ... with a bound, after the first key that ends at or beyond it. *)
copy_range_truncate_values_fueled(layer, lo, limit) ==
    lo + 1 + advance(lo + 1, {i \in After(lo + 1, layer) :
                                Offset(layer, i - 1) - Offset(layer, lo) < limit})

CopyEnd(layer, lo, limit) ==
    IF bound = 0 THEN copy_range_fueled(layer, lo, limit)
    ELSE copy_range_truncate_values_fueled(layer, lo, limit)

Active1 == lower1 < Len(source1)
Active2 == lower2 < Len(source2)
effort == Values(result) - start

-----------------------------------------------------------------------------

(* MergeVariant::work calls Merger::work. *)
Work(f) ==
    /\ pc = "idle"
    /\ fuel' = f
    /\ start' = Values(result)
    /\ pc' = "work"
    /\ UNCHANGED <<sources, lower1, lower2, result, bound>>

(* The keys one step copies: the run below the other side's key. *)
StepSize(layer, lo, key) ==
    LET step == 1 + advance(lo + 1, {i \in After(lo + 1, layer) : layer[i].key < key})
    IN IF step < StepMax THEN step ELSE StepMax

(* merge_step and merge_step_truncate_values_fueled, in the loop of        *)
(* push_merge_fueled.                                                      *)
merge_step ==
    /\ pc = "work" /\ Active1 /\ Active2 /\ effort < fuel
    /\ LET e1 == source1[lower1 + 1]
           e2 == source2[lower2 + 1]
           n1 == StepSize(source1, lower1, e2.key)
           n2 == StepSize(source2, lower2, e1.key)
       IN \/ /\ e1.key < e2.key
             /\ result' = result \o copy_range(source1, lower1, lower1 + n1)
             /\ lower1' = lower1 + n1
             /\ UNCHANGED lower2
          \/ /\ e1.key = e2.key
             /\ result' = result \o NonEmpty(<<[key |-> e1.key, vals |-> MergedVals(e1.vals, e2.vals)]>>)
             /\ lower1' = lower1 + 1 /\ lower2' = lower2 + 1
          \/ /\ e1.key > e2.key
             /\ result' = result \o copy_range(source2, lower2, lower2 + n2)
             /\ lower2' = lower2 + n2
             /\ UNCHANGED lower1
    /\ UNCHANGED <<sources, bound, fuel, start, pc>>

(* The rest of push_merge_fueled: when one side is used up and fuel is     *)
(* left, the other is copied; then MergeVariant::work takes left-over fuel *)
(* for the end of the merge.                                               *)
CopyRest ==
    /\ pc = "work" /\ ~(Active1 /\ Active2 /\ effort < fuel)
    /\ LET rest == fuel - effort
           limit == IF rest < limits.copy_min THEN limits.copy_min ELSE rest
           end1 == IF rest > 0 /\ Active1 /\ ~Active2 THEN CopyEnd(source1, lower1, limit) ELSE lower1
           end2 == IF rest > 0 /\ Active2 /\ ~Active1 THEN CopyEnd(source2, lower2, limit) ELSE lower2
           copied == result \o copy_range(source1, lower1, end1) \o copy_range(source2, lower2, end2)
       IN /\ result' = copied
          /\ lower1' = end1 /\ lower2' = end2
          /\ fuel' = fuel - (Values(copied) - start)
          /\ pc' = IF fuel' > 0 THEN "done" ELSE "idle"
    /\ UNCHANGED <<sources, bound, start>>

(* truncate_values_below: the larger of the two bounds. *)
truncate_values_below(b) ==
    /\ pc = "idle"
    /\ b > bound
    /\ bound' = b
    /\ UNCHANGED <<sources, lower1, lower2, result, fuel, start, pc>>

Next ==
    \/ \E f \in Fuels : Work(f)
    \/ merge_step \/ CopyRest
    \/ \E b \in limits.bounds : truncate_values_below(b)

Spec == Init /\ [][Next]_vars

-----------------------------------------------------------------------------

(* "If `fuel` is greater than zero after the call, the merging is complete" *)
(* (Merger::work): done is called only when both sources are used up.       *)
WorkContract == pc = "done" => ~Active1 /\ ~Active2

WeightIn(layer, k, v) ==
    LET at == {i \in 1..Len(layer) : layer[i].key = k}
    IN IF at = {} THEN 0 ELSE Weight(layer[CHOOSE i \in at : TRUE].vals, v)

(* However the merge is cut into calls, its result is a layer: keys         *)
(* increase strictly and none is without values.  The finished merge has    *)
(* the sum of the two weights of every value at or above the bound, and of  *)
(* a value below it either the sum or nothing: no value loses one of its    *)
(* two weights when the bound rises in mid-merge.                           *)
MergeExact ==
    /\ \A i \in 1..Len(result) - 1 : result[i].key < result[i + 1].key
    /\ \A e \in Range(result) : e.vals # <<>> /\ \A v \in DOMAIN e.vals : e.vals[v] # 0
    /\ pc = "done" =>
         \A e \in Range(source1) \cup Range(source2) \cup Range(result) : \A v \in DOMAIN e.vals :
           LET sum == WeightIn(source1, e.key, v) + WeightIn(source2, e.key, v)
           IN WeightIn(result, e.key, v) \in IF v >= bound THEN {sum} ELSE {0, sum}
=============================================================================
