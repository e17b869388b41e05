------------------------------- MODULE Spine -------------------------------
(***************************************************************************)
(* The fueled spine (trace/spine_fueled.rs): batches of updates in layers  *)
(* of doubling size, merged a little with every insertion.  A batch is     *)
(* known by how many inserted batches it holds and by its number of        *)
(* updates; merging two batches may lose updates that cancel out.          *)
(*                                                                         *)
(* The time bounds of the spine and its dirty flag do not influence the    *)
(* layers and are left out.  effort is 1, the value Trace::new gives it.   *)
(***************************************************************************)
EXTENDS Integers, Sequences, FiniteSets, SequencesExt

CONSTANTS
    Sizes,          \* sizes of inserted batches
    Cancels,        \* updates a merge may cancel
    MaxInserts,     \* bound: batches inserted
    TopLevel        \* level of the largest effort, usize::BITS - 1 in the code

ASSUME SpineAssumption ==
    /\ Sizes \subseteq Nat \ {0} /\ Cancels \subseteq Nat
    /\ MaxInserts \in Nat /\ TopLevel \in Nat

VARIABLES
    merging,    \* the layers, smallest first
    inserted,   \* number of batches inserted so far
    bounded,    \* whether lower_key_bound is set
    phase,      \* "open", "consolidating" or "consolidated"
    output,     \* what consolidate returns
    rounds      \* iterations of the loop of consolidate

vars == <<merging, inserted, bounded, phase, output, rounds>>

(* Option<B>: `some` tells a structurally empty batch from a real one. *)
NoBatch == [some |-> FALSE, holds |-> 0, len |-> 0]
Batch(holds, len) == [some |-> TRUE, holds |-> holds, len |-> len]

(* MergeState; `left` is the work an in-progress merge still needs. *)
Vacant == [kind |-> "Vacant", b |-> NoBatch, c |-> NoBatch, left |-> 0]
Single(b) == [Vacant EXCEPT !.kind = "Single", !.b = b]
Complete(b) == [Vacant EXCEPT !.kind = "Complete", !.b = b]
InProgress(b, c) == [kind |-> "InProgress", b |-> b, c |-> c, left |-> b.len + c.len]
Panic == [Vacant EXCEPT !.kind = "Panic"]

is_double(layer) == layer.kind \in {"InProgress", "Complete"}
LayerLen(layer) == layer.b.len + layer.c.len

Init ==
    /\ merging = <<>>
    /\ inserted = 0
    /\ bounded = FALSE
    /\ phase = "open"
    /\ output = NoBatch
    /\ rounds = 0

-----------------------------------------------------------------------------

(* len.next_power_of_two().trailing_zeros() *)
Level(len) == CHOOSE k \in 0..len : 2^k >= len /\ \A j \in 0..(k - 1) : 2^j < len

(* The result of a merge; `cancel` updates disappear if there are so many. *)
Merged(layer, cancel) ==
    LET len == LayerLen(layer)
    IN Batch(layer.b.holds + layer.c.holds, IF cancel > len THEN 0 ELSE len - cancel)

begin_merge(b, c) ==
    IF b.some /\ c.some THEN InProgress(b, c) ELSE Complete(IF b.some THEN b ELSE c)

(* MergeVariant::work: complete only if fuel is left over.  Updates that    *)
(* cancel out cost nothing: the mergers charge what they output.           *)
work(layer, fuel, cancel) ==
    IF layer.kind # "InProgress" THEN layer
    ELSE IF fuel > 0 /\ fuel > layer.left - cancel THEN Complete(Merged(layer, cancel))
    ELSE [layer EXCEPT !.left = @ - fuel]

(* The batch complete_at extracts from a layer. *)
Extracted(layer, cancel) == IF layer.kind = "InProgress" THEN Merged(layer, cancel) ELSE layer.b

Layers(m, index) == m \o [i \in 1..(index + 1 - Len(m)) |-> Vacant]

(* insert_at, on the layers m; index counts from 0 as in the code. *)
insert_at(m, batch, index) ==
    LET grown == IF Len(m) <= index THEN Layers(m, index) ELSE m
        layer == grown[index + 1]
    IN [grown EXCEPT ![index + 1] =
          CASE layer.kind = "Vacant" -> Single(batch)
            [] layer.kind = "Single" -> begin_merge(layer.b, batch)
            [] OTHER -> Panic]

(* complete_at and insertion of the result one layer up. *)
promote(m, index, cancel) ==
    insert_at([m EXCEPT ![index + 1] = Vacant], Extracted(m[index + 1], cancel), index + 1)

apply_fuel(m, fuel, cancel) ==
    LET visit(n, i) ==
            LET worked == [n EXCEPT ![i] = work(@, fuel, cancel)]
            IN IF worked[i].kind = "Complete" THEN promote(worked, i - 1, cancel) ELSE worked
    IN FoldLeft(visit, m, [i \in 1..Len(m) |-> i])

roll_up(m, index, cancel) ==
    LET grown == IF Len(m) <= index THEN Layers(m, index) ELSE m
        absorb(s, i) ==     \* s is the layers and the batch carried along
            LET n == insert_at(s.m, s.carried, i - 1)
            IN [m |-> [n EXCEPT ![i] = IF @.kind = "Panic" THEN @ ELSE Vacant],
                carried |-> Extracted(n[i], cancel)]
        rolled == FoldLeft(absorb, [m |-> grown, carried |-> NoBatch], [i \in 1..index |-> i])
        landed == insert_at(rolled.m, rolled.carried, index)
    IN IF \A i \in 1..index : grown[i].kind = "Vacant" THEN grown
       ELSE IF is_double(landed[index + 1]) THEN promote(landed, index, cancel)
       ELSE landed

(* The number of updates the layers below may hold, by their positions. *)
Smaller(m, n) ==
    FoldLeft(LAMBDA sum, i : sum + (CASE m[i].kind = "Vacant" -> 0
                                      [] m[i].kind = "Single" -> 2^(i - 1)
                                      [] OTHER -> 2^i),
             0, [i \in 1..n |-> i])

(* A mutant: any single batch is absorbed. *)
Absorbable_mutant(layer) == layer.kind \in {"Vacant", "Single"}

Absorbable(layer) == layer.kind = "Vacant" \/ (layer.kind = "Single" /\ ~layer.b.some)

(* tidy_layers: the largest layer moves down over absorbable ones as far   *)
(* as its size allows, and may start a merge with the batch it meets.      *)
tidy_layers(m) ==
    LET len == Len(m)
        level == Level(LayerLen(m[len]))
        stops == {i \in 1..(len - 1) : ~Absorbable(m[i]) \/ i <= level}
        stop == CHOOSE i \in stops \cup {0} : \A j \in stops : j <= i
        moved == SubSeq(m, 1, stop) \o <<m[len]>>
    IN IF len = 0 \/ m[len].kind # "Single" THEN m
       ELSE IF stop > level /\ m[stop].kind = "Single" /\ 8 * Smaller(m, stop - 1) <= 2^(stop + 1)
            THEN insert_at(SubSeq(m, 1, stop - 1) \o <<m[len]>>, m[stop].b, stop - 1)
            ELSE moved

(* A mutant: the fuel does not grow with the size of the batch. *)
Fuel_mutant(index) == IF index = TopLevel THEN 0 ELSE 8

(* 8 << 63 leaves no bit in a usize. *)
Fuel(index) == IF index = TopLevel THEN 0 ELSE 8 * 2^index

introduce_batch(m, batch, index, cancel) ==
    tidy_layers(insert_at(roll_up(apply_fuel(m, Fuel(index), cancel), index, cancel), batch, index))

(* reduced: nothing left to merge. *)
reduced(m) ==
    /\ \A i \in 1..Len(m) : ~is_double(m[i])
    /\ Cardinality({i \in 1..Len(m) : LayerLen(m[i]) > 0}) <= 1

-----------------------------------------------------------------------------

(* insert; with a key bound set, the batch may lose updates first. *)
insert(size, cut, cancel) ==
    /\ phase = "open"
    /\ inserted < MaxInserts
    /\ cut \in {0} \cup (IF bounded THEN {size} ELSE {})
    /\ merging' = introduce_batch(merging, Batch(1, size - cut), Level(size - cut), cancel)
    /\ inserted' = inserted + 1
    /\ UNCHANGED <<bounded, phase, output, rounds>>

(* complete_merges starts no new merge. *)
Completed(m, cancel) ==
    [i \in 1..Len(m) |-> IF m[i].kind = "InProgress" THEN Complete(Merged(m[i], cancel)) ELSE m[i]]

recede_to(cancel) ==
    /\ phase = "open"
    /\ merging' = Completed(merging, cancel)
    /\ UNCHANGED <<inserted, bounded, phase, output, rounds>>

(* truncate_keys_below: every batch loses some of its updates. *)
truncate_keys_below(keep, cancel) ==
    /\ phase = "open"
    /\ merging' = [i \in 1..Len(merging) |->
                     [Completed(merging, cancel)[i] EXCEPT !.b.len = keep * (@ \div 2)]]
    /\ bounded' = TRUE
    /\ UNCHANGED <<inserted, phase, output, rounds>>

(* exert with the largest effort, the body of the loop of consolidate. *)
exert(m, cancel) ==
    LET tidy == tidy_layers(m)
    IN IF reduced(tidy) THEN tidy
       ELSE IF \E i \in 1..Len(tidy) : is_double(tidy[i])
       THEN apply_fuel(tidy, 2^(TopLevel + 1), cancel)
       ELSE introduce_batch(tidy, NoBatch, TopLevel, cancel)

consolidate(cancel) ==
    /\ phase \in {"open", "consolidating"}
    /\ IF reduced(merging)
       THEN /\ LET found == {i \in 1..Len(merging) :
                               merging[i].kind = "Single" /\ merging[i].b.len > 0}
               IN output' = IF found = {} THEN NoBatch
                            ELSE merging[CHOOSE i \in found : \A j \in found : i <= j].b
            /\ phase' = "consolidated"
            /\ UNCHANGED <<merging, rounds>>
       ELSE /\ merging' = exert(merging, cancel)
            /\ phase' = "consolidating"
            /\ rounds' = rounds + 1
            /\ UNCHANGED output
    /\ UNCHANGED <<inserted, bounded>>

Next ==
    \E cancel \in Cancels :
        \/ \E size \in Sizes : \E cut \in {0, size} : insert(size, cut, cancel)
        \/ recede_to(cancel)
        \/ \E keep \in {0, 1} : truncate_keys_below(keep, cancel)
        \/ consolidate(cancel)

Spec == Init /\ [][Next]_vars

-----------------------------------------------------------------------------

(* No batch is lost or held twice by rolling up, promoting, tidying or      *)
(* consolidating: the layers hold exactly the batches inserted.  What       *)
(* consolidate returns is the only batch that still has updates, and its    *)
(* loop ends after very few rounds: merges are finished, all layers are     *)
(* rolled up, and the result is promoted.                                   *)
HoldsAll ==
    /\ rounds <= 4
    /\ FoldLeft(LAMBDA sum, layer : sum + layer.b.holds + layer.c.holds, 0, merging) = inserted
    /\ phase = "consolidated" =>
         \A i \in 1..Len(merging) : LayerLen(merging[i]) > 0 => merging[i].b = output

(* "Each of the batches at layer i contains at most 2^i elements", and "for *)
(* any in-progress merge at level k there should be fewer than 2^k records  *)
(* at levels lower than k" (the description of the module): the fuel every  *)
(* insertion brings is enough for each merge to finish before the layers    *)
(* below produce another batch for it, and no insertion panics ("Attempted  *)
(* to insert batch into incomplete merge!").                                *)
LayerSizes ==
    \A i \in 1..Len(merging) :
        /\ merging[i].kind # "Panic"
        /\ IF merging[i].kind = "Complete" THEN merging[i].b.len <= 2^i
           ELSE merging[i].b.len <= 2^(i - 1) /\ merging[i].c.len <= 2^(i - 1)
        /\ merging[i].kind = "InProgress" =>
             FoldLeft(LAMBDA sum, layer : sum + LayerLen(layer), 0, SubSeq(merging, 1, i - 1))
               < 2^(i - 1)
=============================================================================
