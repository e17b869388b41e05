-------------------------------- MODULE Tasks --------------------------------
(***************************************************************************)
(* The task table of the dynamic scheduler (circuit/schedule/              *)
(* dynamic_scheduler.rs, `Inner`) as a value, and what the scheduler's     *)
(* methods do to it.  DynamicScheduler interleaves these operations with   *)
(* ready notifications; WorkerCircuits runs one table per worker.          *)
(*                                                                         *)
(* A circuit is a record: its nodes, its async nodes, and its edges, each  *)
(* [id, from, to, pref].  Two edges may join the same nodes (a self-join). *)
(* `pref` is the consumer's ownership preference, "none" for a dependency  *)
(* edge, which carries no stream.                                          *)
(***************************************************************************)
EXTENDS Integers, FiniteSets

-----------------------------------------------------------------------------
\* schedule/mod.rs, util::ownership_constraints.  The stream of a node's only
\* output is identified by the node (`origin`).

Consumers(edges, n) == {e \in edges : e.from = n}
Strong(edges, n) == {e \in Consumers(edges, n) : e.pref = "strong"}

OwnershipConflict(edges) ==
    \E e \in edges : Cardinality(Strong(edges, e.from)) > 1

\* One constraint for each (other data consumer, strong consumer) pair.
\* Mutant: the dependency runs from the strong consumer to the others.
ownership_constraints_mutant(edges) ==
    {[id |-> <<x[1].id, x[2].id>>, from |-> x[2].to, to |-> x[1].to,
      pref |-> "none"] :
        x \in {p \in edges \X edges :
                 /\ p[1].from = p[2].from /\ p[1].id # p[2].id
                 /\ p[1].pref # "none" /\ p[2].pref = "strong"}}

ownership_constraints(edges) ==
    {[id |-> <<x[1].id, x[2].id>>, from |-> x[1].to, to |-> x[2].to,
      pref |-> "none"] :
        x \in {p \in edges \X edges :
                 /\ p[1].from = p[2].from /\ p[1].id # p[2].id
                 /\ p[1].pref # "none" /\ p[2].pref = "strong"}}

\* petgraph's toposort fails on a graph with a cycle: a non-empty set of nodes
\* each of which has a successor in the set.
Cyclic(nodes, edges) ==
    \E S \in (SUBSET nodes) \ {{}} :
        \A n \in S : \E e \in edges : e.from = n /\ e.to \in S

-----------------------------------------------------------------------------
\* Inner::prepare: the graph that the tasks are built from, and its tasks.

Schedulable(c) ==
    /\ ~OwnershipConflict(c.edges)
    /\ ~Cyclic(c.nodes, c.edges \cup ownership_constraints(c.edges))

Graph(c) == [nodes |-> c.nodes, async |-> c.async,
             edges |-> c.edges \cup ownership_constraints(c.edges)]

Incoming(g, n) == {e \in g.edges : e.to = n}
Outgoing(g, n) == {e \in g.edges : e.from = n}
Predecessors(g, n) == {e.from : e \in Incoming(g, n)}

num_predecessors(g, n) == Cardinality(Incoming(g, n))
priority(g, n) == num_predecessors(g, n) - Cardinality(Outgoing(g, n))

NewTasks(g) ==
    [unsatisfied_dependencies |-> [n \in g.nodes |-> num_predecessors(g, n)],
     is_ready  |-> [n \in g.nodes |-> n \notin g.async],
     scheduled |-> [n \in g.nodes |-> FALSE],
     runnable  |-> {}]

-----------------------------------------------------------------------------
\* RunQueue::push of a set of tasks.
Push(t, S) ==
    [t EXCEPT !.runnable = @ \cup S,
              !.scheduled = [n \in DOMAIN @ |-> @[n] \/ n \in S]]

\* The start of Inner::step.
StartCycle(g, t) ==
    LET r == [t EXCEPT !.unsatisfied_dependencies =
                          [n \in g.nodes |-> num_predecessors(g, n)],
                       !.scheduled = [n \in g.nodes |-> FALSE]]
    IN  Push(r, {n \in g.nodes : /\ r.unsatisfied_dependencies[n] = 0
                                 /\ r.is_ready[n]})

\* The tasks that RunQueue::pop may return: all of the highest priority.
NextTasks(g, t) ==
    {n \in t.runnable : \A k \in t.runnable : priority(g, k) <= priority(g, n)}

\* Edges from n to s; the loop over successors visits s once per edge.
Multiplicity(g, n, s) == Cardinality({e \in Outgoing(g, n) : e.to = s})

\* Inner::dequeue_next_task when pop returns n.
Released(g, t, n) ==
    {s \in g.nodes : /\ Multiplicity(g, n, s) > 0
                     /\ t.unsatisfied_dependencies[s] = Multiplicity(g, n, s)
                     /\ t.is_ready[s]}

Dequeue(g, t, n) ==
    LET r == [t EXCEPT !.runnable = @ \ {n},
                       !.unsatisfied_dependencies =
                          [s \in g.nodes |-> @[s] - Multiplicity(g, n, s)]]
    IN  Push(r, Released(g, t, n))

\* The assertions on the way: no successor has too few dependencies left.
DequeueAsserts(g, t, n) ==
    /\ \A s \in g.nodes :
         Multiplicity(g, n, s) <= t.unsatisfied_dependencies[s]
    /\ \A s \in Released(g, t, n) : ~t.scheduled[s]

-----------------------------------------------------------------------------
\* Inner::process_notifications: `nodes` are drained; of the operators that
\* are not known to be ready, those in `ready` become so.
NewlyReady(t, nodes, ready) == {n \in nodes \cap ready : ~t.is_ready[n]}

\* Mutant: a ready task whose dependencies are not satisfied is pushed.
ProcessNotifications_mutant(t, nodes, ready) ==
    LET R == NewlyReady(t, nodes, ready)
        r == [t EXCEPT !.is_ready = [n \in DOMAIN @ |-> @[n] \/ n \in R]]
    IN  Push(r, {n \in R : ~r.scheduled[n]})

ProcessNotifications(t, nodes, ready) ==
    LET R == NewlyReady(t, nodes, ready)
        r == [t EXCEPT !.is_ready = [n \in DOMAIN @ |-> @[n] \/ n \in R]]
    IN  Push(r, {n \in R : /\ r.unsatisfied_dependencies[n] = 0
                           /\ ~r.scheduled[n]})

\* After eval_node(n): an async node must be notified again.
TaskDone(g, t, n) ==
    IF n \in g.async THEN [t EXCEPT !.is_ready[n] = FALSE] ELSE t
=============================================================================
