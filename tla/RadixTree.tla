------------------------------ MODULE RadixTree ------------------------------
(***************************************************************************)
(* Radix trees over time series (operator/time_series/radix_tree).  A tree *)
(* is a set of nodes indexed by prefix; a node has one slot for each value *)
(* of the next RADIX_BITS bits, empty or a pointer to a child together     *)
(* with the aggregate of all timestamps below it.  A node with one child   *)
(* is merged into its parent, unless it is the root.  An optional value is *)
(* a set of at most one element.                                           *)
(*                                                                         *)
(* Aggregates are sequences and combine is concatenation: the free         *)
(* semigroup, of which the accumulators of every aggregator are an image.  *)
(***************************************************************************)
EXTENDS Integers, Sequences, FiniteSets, FiniteSetsExt, SequencesExt

CONSTANTS
    KEY_BITS,       \* the size of a timestamp
    RADIX_BITS      \* divides KEY_BITS

ASSUME RadixAssumption ==
    /\ RADIX_BITS \in Nat \ {0}
    /\ KEY_BITS \in Nat /\ KEY_BITS % RADIX_BITS = 0

RADIX == 2 ^ RADIX_BITS
MAX_VALUE == 2 ^ KEY_BITS - 1

-----------------------------------------------------------------------------
(* Prefix *)

Prefix(key, prefix_len) == [key |-> key, prefix_len |-> prefix_len]

full_range == Prefix(0, 0)
from_timestamp(ts) == Prefix(ts, KEY_BITS)
is_leaf(p) == p.prefix_len = KEY_BITS

\* The number of timestamps that share the first prefix_len bits.
Span(prefix_len) == 2 ^ (KEY_BITS - prefix_len)

upper(p) == p.key + Span(p.prefix_len) - 1

contains(p, ts) ==
    p.key \div Span(p.prefix_len) = ts \div Span(p.prefix_len)

\* The longest prefix of whole digits that p and ts have in common.
longest_common_prefix(p, ts) ==
    LET common == {d \in 0..p.prefix_len :
                     /\ d % RADIX_BITS = 0
                     /\ contains(Prefix(p.key, d), ts)}
        len == Max(common)
    IN Prefix((ts \div Span(len)) * Span(len), len)

slot_of_timestamp(p, ts) == (ts \div Span(p.prefix_len + RADIX_BITS)) % RADIX

extend(p, slot) ==
    LET len == p.prefix_len + RADIX_BITS
    IN Prefix(p.key + slot * Span(len), len)

in_range(p, range) == range.from <= p.key /\ range.to >= upper(p)

-----------------------------------------------------------------------------
(* TreeNode *)

ChildPtr(child_prefix, child_agg) ==
    [child_prefix |-> child_prefix, child_agg |-> child_agg]

NewNode == [slot \in 0..(RADIX - 1) |-> {}]

The(option) == CHOOSE x \in option : TRUE

\* The children in order.
Children(node) ==
    LET occupied == {s \in DOMAIN node : node[s] # {}}
        slots == SetToSortSeq(occupied, <)
    IN [i \in DOMAIN slots |-> The(node[slots[i]])]

Combine(ptrs) == FlattenSeq([i \in DOMAIN ptrs |-> ptrs[i].child_agg])

-----------------------------------------------------------------------------
(* TreeUpdater.  `old` is the tree before the updates and `new` the nodes  *)
(* it has visited, None if it deletes them; a stack frame is a visited     *)
(* node and a slot of it.                                                  *)

Removed == <<>>

Frame(prefix, slot) == [prefix |-> prefix, slot |-> slot]

Visit(u, prefix, node, slot) ==
    [stack |-> Append(u.stack, Frame(prefix, slot)),
     new   |-> [p \in DOMAIN u.new \cup {prefix} |->
                  IF p = prefix THEN node ELSE u.new[p]]]

NewUpdater(old) ==
    Visit([stack |-> <<>>, new |-> <<>>], full_range,
          IF full_range \in DOMAIN old THEN old[full_range] ELSE NewNode, 0)

Top(u) == Last(u.stack)

SlotOf(u) == u.new[Top(u).prefix][Top(u).slot]

SetSlot(u, ptr) == [u EXCEPT !.new[Top(u).prefix][Top(u).slot] = ptr]

\* Mutant: a node with one child left stays.
pop_mutant(u) ==
    LET prefix == Top(u).prefix
        ptrs   == Children(u.new[prefix])
        up     == [u EXCEPT !.stack = Front(@)]
        gone   == [up EXCEPT !.new[prefix] = Removed]
        root   == up.stack = <<>>
    IN CASE ptrs = <<>> -> IF root THEN gone ELSE SetSlot(gone, {})
         [] ptrs # <<>> /\ root -> up
         [] OTHER ->
              SetSlot(up, {ChildPtr(The(SlotOf(up)).child_prefix,
                                    Combine(ptrs))})

\* The current node is complete: the parent's slot is updated with it.
pop(u) ==
    LET prefix == Top(u).prefix
        ptrs   == Children(u.new[prefix])
        up     == [u EXCEPT !.stack = Front(@)]
        gone   == [up EXCEPT !.new[prefix] = Removed]
        root   == up.stack = <<>>
    IN CASE ptrs = <<>>      -> IF root THEN gone ELSE SetSlot(gone, {})
         [] ptrs # <<>> /\ root -> up
         [] Len(ptrs) = 1 /\ ~root -> SetSlot(gone, {ptrs[1]})
         [] OTHER ->
              SetSlot(up, {ChildPtr(The(SlotOf(up)).child_prefix,
                                    Combine(ptrs))})

\* A node just big enough for ts and the subtree that does not contain it.
Split(u, ts, agg) ==
    LET ptr  == The(SlotOf(u))
        p    == longest_common_prefix(ptr.child_prefix, ts)
        slot == slot_of_timestamp(p, ts)
        node == [NewNode EXCEPT
                   ![slot] = {ChildPtr(from_timestamp(ts), The(agg))},
                   ![slot_of_timestamp(p, ptr.child_prefix.key)] = {ptr}]
    IN Visit(SetSlot(u, {ChildPtr(p, <<>>)}), p, node, slot)

\* Set, change or (when agg is empty) delete the aggregate of ts.
RECURSIVE update_timestamp(_, _, _, _)
update_timestamp(old, u, ts, agg) ==
    LET top   == Top(u)
        leaf  == {ChildPtr(from_timestamp(ts), a) : a \in agg}
        child == The(SlotOf(u)).child_prefix
    IN CASE ~contains(top.prefix, ts) ->
              update_timestamp(old, pop(u), ts, agg)
         [] contains(top.prefix, ts) /\ ~contains(extend(top.prefix, top.slot), ts) ->
              update_timestamp(old,
                  [u EXCEPT !.stack[Len(u.stack)].slot =
                              slot_of_timestamp(top.prefix, ts)], ts, agg)
         [] OTHER ->
              IF SlotOf(u) = {} THEN SetSlot(u, leaf)
              ELSE IF ~contains(child, ts)
                   THEN IF agg = {} THEN u ELSE Split(u, ts, agg)
              ELSE IF is_leaf(child) THEN SetSlot(u, leaf)
              ELSE update_timestamp(old,
                       Visit(u, child, old[child], slot_of_timestamp(child, ts)),
                       ts, agg)

RECURSIVE finish(_)
finish(u) == IF u.stack = <<>> THEN u.new ELSE finish(pop(u))

\* radix_tree_update: the nodes visited when the timestamps ts of an ordered
\* batch get the aggregates aggs[ts].
radix_tree_update(old, times, aggs) ==
    finish(FoldLeft(LAMBDA u, ts : update_timestamp(old, u, ts, aggs[ts]),
                    NewUpdater(old), times))

\* The tree after the update, which the operator outputs as a change of a
\* Z-set: the old nodes out, the new ones in.
Updated(old, visited) ==
    LET kept == {p \in DOMAIN visited : visited[p] # Removed}
    IN [p \in (DOMAIN old \ DOMAIN visited) \cup kept |->
          IF p \in kept THEN visited[p] ELSE old[p]]

-----------------------------------------------------------------------------
(* RadixTreeCursor *)

RECURSIVE aggregate_range_inner(_, _, _)
aggregate_range_inner(tree, prefix, range) ==
    LET start == CASE range.from < prefix.key      -> 0
                   [] contains(prefix, range.from) ->
                        slot_of_timestamp(prefix, range.from)
                   [] OTHER                        -> RADIX
        end   == CASE contains(prefix, range.to)   ->
                        slot_of_timestamp(prefix, range.to)
                   [] ~contains(prefix, range.to) /\ prefix.key < range.to ->
                        RADIX - 1
                   [] OTHER                        -> -1
        Part(ptr) ==
            CASE in_range(ptr.child_prefix, range) -> ptr.child_agg
              [] ~in_range(ptr.child_prefix, range)
                   /\ \/ contains(ptr.child_prefix, range.from)
                      \/ contains(ptr.child_prefix, range.to) ->
                   aggregate_range_inner(tree, ptr.child_prefix, range)
              [] OTHER                             -> <<>>
        looked == Children([s \in start..end |-> tree[prefix][s]])
    IN FlattenSeq([i \in DOMAIN looked |-> Part(looked[i])])

\* No aggregate is the empty sequence here.
aggregate_range(tree, range) ==
    IF full_range \in DOMAIN tree
    THEN aggregate_range_inner(tree, full_range, range) ELSE <<>>

-----------------------------------------------------------------------------
(* What a tree is: the check of RadixTreeCursor::validate, made exact *)

\* The nodes a tree over these timestamps has: the root, and every prefix
\* with timestamps in two of its slots.
NodesOver(times) ==
    {p \in {Prefix((t \div Span(d)) * Span(d), d) :
              t \in times, d \in {e \in 0..(KEY_BITS - 1) : e % RADIX_BITS = 0}} :
       \/ p = full_range
       \/ Cardinality({slot_of_timestamp(p, t) :
                         t \in {s \in times : contains(p, s)}}) > 1}

\* The tree of a time series given by the aggregate of each timestamp.
TreeOf(aggs) ==
    LET nodes == NodesOver(DOMAIN aggs)
        Below(p) == {t \in DOMAIN aggs : contains(p, t)}
        Agg(p) == LET ts == SetToSortSeq(Below(p), <)
                  IN FlattenSeq([i \in DOMAIN ts |-> aggs[ts[i]]])
        \* what a slot with these timestamps points to
        Target(times) ==
            IF Cardinality(times) = 1 THEN from_timestamp(The(times))
            ELSE CHOOSE p \in nodes :
                   /\ times = Below(p)
                   /\ \A q \in nodes : times = Below(q) =>
                        q.prefix_len <= p.prefix_len
        Slot(p, s) ==
            LET times == Below(p) \cap Below(extend(p, s))
            IN IF times = {} THEN {}
               ELSE {ChildPtr(Target(times), Agg(Target(times)))}
    IN [p \in nodes |-> [s \in 0..(RADIX - 1) |-> Slot(p, s)]]
=============================================================================
