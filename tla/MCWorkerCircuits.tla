-------------------------- MODULE MCWorkerCircuits --------------------------
(* Instances of WorkerCircuits for TLC. *)
EXTENDS WorkerCircuits

Edge(id, from, to) == [id |-> <<id>>, from |-> from, to |-> to, pref |-> "weak"]

\* Two exchanges (nodes 1 -> 2 and 3 -> 4) that are not ordered, so that each
\* worker may evaluate them in its own order, and a join of their outputs.
TwoExchanges ==
    [nodes |-> 1 .. 5, async |-> 1 .. 4,
     sender |-> <<1, 3>>, receiver |-> <<2, 4>>,
     edges |-> {Edge(1, 1, 2), Edge(2, 3, 4), Edge(3, 2, 5), Edge(4, 4, 5)}]

\* Two exchanges in sequence.
Pipeline ==
    [nodes |-> 1 .. 4, async |-> 1 .. 4,
     sender |-> <<1, 3>>, receiver |-> <<2, 4>>,
     edges |-> {Edge(1, 1, 2), Edge(2, 2, 3), Edge(3, 3, 4)}]

AllCircuits == {TwoExchanges, Pipeline}
=============================================================================
