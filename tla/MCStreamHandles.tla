-------------------------- MODULE MCStreamHandles --------------------------
(* Instances of StreamHandles for TLC. *)
EXTENDS StreamHandles, TLC

Failing(exchange, panics) ==
    [exchange |-> exchange, panics |-> panics, upsert |-> TRUE, calls |-> <<>>,
     stepsOnly |-> FALSE, takes |-> 0]

Using(upsert, calls, takes_bound) ==
    [exchange |-> FALSE, panics |-> {}, upsert |-> upsert, calls |-> calls,
     stepsOnly |-> TRUE, takes |-> takes_bound]

Update(key, by, id) == [key |-> key, by |-> by, id |-> id]
Op(op, vals) == [op |-> op, vals |-> vals]

\* Any worker may panic, in a circuit with an exchange and in one without.
Failures == {Failing(exchange, Workers) : exchange \in BOOLEAN}

\* Upserts of one key by two calls; appends of more values than workers beside
\* a clone that clears; and values taken at any point of a cycle.
Clients ==
    {Using(TRUE, <<<<Op("push", <<Update("a", 1, 1)>>),
                     Op("append", <<Update("a", 1, 2), Update("b", 1, 3)>>)>>>>, 0),
     Using(FALSE, <<<<Op("append", <<Update("a", 1, 1), Update("b", 1, 2), Update("b", 1, 3)>>)>>,
                    <<Op("clear", <<>>)>>>>, 0),
     Using(FALSE, <<<<Op("push", <<Update("a", 1, 1)>>)>>>>, 1)}

MCScenarios == Failures \cup Clients
MCHash == "a" :> 3 @@ "b" :> 0
=============================================================================
