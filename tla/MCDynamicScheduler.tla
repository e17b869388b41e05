------------------------- MODULE MCDynamicScheduler -------------------------
(* Instances of DynamicScheduler for TLC. *)
EXTENDS DynamicScheduler

Edge(id, from, to, pref) ==
    [id |-> <<id>>, from |-> from, to |-> to, pref |-> pref]

\* All circuits with nodes 1, 2, 3 and at most one edge of any data preference
\* between two of them, where 2 is async.
SmallCircuits ==
    {[nodes |-> 1 .. 3, async |-> {2}, sub |-> {1},
      edges |-> {e \in {Edge(1, 1, 2, p[1]), Edge(2, 1, 3, p[2]),
                        Edge(3, 2, 3, p[3])} : e.pref # "absent"}] :
       p \in [1 .. 3 -> {"absent", "weak", "strong"}]}

\* A self-join (two edges 2 -> 4), two exchange receivers and a subcircuit.
Diamond ==
    [nodes |-> 1 .. 5, async |-> {2, 3}, sub |-> {5},
     edges |-> {Edge(1, 1, 2, "weak"), Edge(2, 1, 3, "strong"),
                Edge(3, 2, 4, "weak"), Edge(4, 2, 4, "weak"),
                Edge(5, 3, 4, "weak"), Edge(6, 3, 5, "none")}]

\* Two async nodes and a subcircuit, unordered.
Parallel ==
    [nodes |-> 1 .. 3, async |-> {1, 2}, sub |-> {3}, edges |-> {}]

AllCircuits == {Diamond, Parallel} \cup SmallCircuits
=============================================================================
