------------------------------ MODULE MCMerger ------------------------------
(***************************************************************************)
(* Instances of Merger: every pair of layers over three keys and two       *)
(* values.  The first has weight 1 everywhere; in the second value 1 has   *)
(* weight -1 and cancels, value 2 has weight 1 and adds up.                *)
(***************************************************************************)
EXTENDS Merger

MCKeys == 1..3
MCVals == 1..2

Leaves(weight) == {[v \in S |-> weight[v]] : S \in (SUBSET MCVals) \ {{}}}

Layer(f) ==
    LET keys == SelectSeq([k \in MCKeys |-> k], LAMBDA k : f[k] # <<>>)
    IN [i \in 1..Len(keys) |-> [key |-> keys[i], vals |-> f[keys[i]]]]

Layers(weight) == {Layer(f) : f \in [MCKeys -> Leaves(weight) \cup {<<>>}]}

MCSources1 == Layers(<<1, 1>>)
MCSources2 == Layers(<<-1, 1>>)

\* No bound and rests that are longer than the limit; a rising bound and none.
Honest == {[bounds |-> {}, copy_min |-> 2], [bounds |-> {1, 2}, copy_min |-> 10]}

\* A bound, and rests that are longer than the limit.
LongRests == {[bounds |-> {2}, copy_min |-> 2]}
=============================================================================
