--------------------------- MODULE SchedulerProofs ---------------------------
(***************************************************************************)
(* Proofs about DynamicScheduler, for any circuit with finitely many edges *)
(* and any notifications: no assertion of the scheduler fails, a node is   *)
(* evaluated once in a cycle and after its upstream nodes, and a strong    *)
(* consumer after the stream's other consumers.                            *)
(***************************************************************************)
EXTENDS DynamicScheduler, FiniteSetTheorems, TLAPS

(* The nodes that dequeue_next_task has returned in this cycle. *)
Dequeued == IF pc = "eval" THEN evaluated \cup current ELSE evaluated

(* The edges that a node still waits for: what unsatisfied_dependencies    *)
(* counts.                                                                 *)
Pending(n) == {e \in Incoming(g, n) : e.from \notin Dequeued}

TaskTables == [unsatisfied_dependencies : [circuit.nodes -> Int],
               is_ready  : [circuit.nodes -> BOOLEAN],
               scheduled : [circuit.nodes -> BOOLEAN],
               runnable  : SUBSET circuit.nodes]

TypeInv ==
    /\ circuit \in Circuits
    /\ tasks \in TaskTables
    /\ pc \in {"prepare", "check_ready", "error", "loop", "park", "eval", "evaluated", "stepped",
               "killed"}
    /\ evaluated \subseteq circuit.nodes
    /\ op_ready \in [circuit.async -> BOOLEAN]
    /\ nodes \subseteq circuit.async
    /\ callback \subseteq circuit.async
    /\ pc = "check_ready" => current \subseteq circuit.async
    /\ pc \in {"eval", "evaluated"} => \E n \in circuit.nodes : current = {n}

(* A task is pushed once in a cycle, when nothing is left to wait for, and *)
(* is then in the run queue or dequeued.                                   *)
Queued(n) ==
    /\ tasks.unsatisfied_dependencies[n] = Cardinality(Pending(n))
    /\ tasks.scheduled[n] => tasks.unsatisfied_dependencies[n] = 0
    /\ n \in tasks.runnable => /\ tasks.is_ready[n] /\ tasks.scheduled[n]
                               /\ n \notin Dequeued
    /\ n \in Dequeued => tasks.scheduled[n]

(* A node that the scheduler takes for ready is, until it is evaluated. *)
Ready(n) == tasks.is_ready[n] => op_ready[n] \/ (pc = "evaluated" /\ n \in current)

Starting == pc \in {"prepare", "check_ready", "error"}

Evaluating ==
    /\ pc = "eval" => \A n \in current : /\ n \notin evaluated
                                         /\ Predecessors(g, n) \subseteq evaluated
                                         /\ tasks.is_ready[n]
    /\ pc = "evaluated" => current \subseteq evaluated
    /\ pc = "stepped" => evaluated = circuit.nodes

SchedulerInv ==
    /\ TypeInv
    /\ Starting => tasks.runnable = {} /\ evaluated = {}
    /\ ~Starting => \A n \in circuit.nodes : Queued(n)
    /\ \A n \in circuit.async : Ready(n)
    /\ Evaluating

-----------------------------------------------------------------------------
(* Edges. *)

LEMMA EdgesFinite ==
    ASSUME circuit \in Circuits PROVE IsFiniteSet(g.edges)
<1> DEFINE E == circuit.edges
           P == {p \in E \X E : /\ p[1].from = p[2].from /\ p[1].id # p[2].id
                                /\ p[1].pref # "none" /\ p[2].pref = "strong"}
           f == [x \in P |-> [id |-> <<x[1].id, x[2].id>>, from |-> x[1].to, to |-> x[2].to,
                              pref |-> "none"]]
           O == ownership_constraints(E)
<1>1. IsFiniteSet(E)
  BY Zenon, CircuitsAssumption
<1>2. IsFiniteSet(E \X E)
  BY Zenon, <1>1, FS_Product
<1>3. IsFiniteSet(P)
  BY Zenon, <1>2, FS_Subset
<1>4. f \in Surjection(P, O)
  BY Zenon DEF Surjection, ownership_constraints
<1>5. IsFiniteSet(O)
  <2> HIDE DEF P, f, O
  <2> QED
    BY Zenon, <1>3, <1>4, FS_Surjection
<1>6. g.edges = E \cup O
  BY Zenon DEF g, Graph
<1> QED
  BY Zenon, <1>1, <1>5, <1>6, FS_Union

(* When a node is dequeued, its successors wait for the edges from it no   *)
(* longer.                                                                 *)
LEMMA Removed ==
    ASSUME NEW P, IsFiniteSet(P), NEW M \in SUBSET P
    PROVE  /\ Cardinality(P) \in Nat /\ Cardinality(M) \in Nat
           /\ Cardinality(M) <= Cardinality(P)
           /\ Cardinality(P \ M) = Cardinality(P) - Cardinality(M)
<1>1. IsFiniteSet(M) /\ Cardinality(M) <= Cardinality(P)
  BY Zenon, FS_Subset
<1>2. P \cap M = M
  BY Zenon
<1>3. Cardinality(P \ M) = Cardinality(P) - Cardinality(M)
  BY Zenon, <1>2, FS_Difference
<1> QED
  BY Zenon, <1>1, <1>3, FS_CardinalityType

LEMMA PendingCount ==
    ASSUME circuit \in Circuits, NEW n
    PROVE  /\ IsFiniteSet(Pending(n)) /\ Cardinality(Pending(n)) \in Nat
           /\ Cardinality(Pending(n)) = 0 <=> Pending(n) = {}
<1>1. Pending(n) \in SUBSET g.edges
  BY Zenon DEF Pending, Incoming
<1>2. IsFiniteSet(Pending(n))
  BY Zenon, <1>1, EdgesFinite, FS_Subset
<1> QED
  BY Zenon, <1>2, FS_CardinalityType, FS_EmptySet

-----------------------------------------------------------------------------
(* The task table. *)

LEMMA PushFields ==
    ASSUME NEW t \in TaskTables, NEW S \in SUBSET circuit.nodes, NEW p, p = Push(t, S)
    PROVE  /\ p \in TaskTables
           /\ p.unsatisfied_dependencies = t.unsatisfied_dependencies
           /\ p.is_ready = t.is_ready
           /\ p.runnable = t.runnable \cup S
           /\ \A n \in circuit.nodes : p.scheduled[n] <=> t.scheduled[n] \/ n \in S
<1> DEFINE b == [n \in circuit.nodes |-> t.scheduled[n] \/ n \in S]
<1>1. b \in [circuit.nodes -> BOOLEAN]
  BY Zenon
<1>2. p = [t EXCEPT !.runnable = t.runnable \cup S, !.scheduled = b]
  BY Zenon DEF Push, TaskTables
<1>3. \A n \in circuit.nodes : b[n] <=> t.scheduled[n] \/ n \in S
  BY Zenon
<1> HIDE DEF b
<1>4. /\ p.unsatisfied_dependencies = t.unsatisfied_dependencies /\ p.is_ready = t.is_ready
      /\ p.runnable = t.runnable \cup S /\ p.scheduled = b
  BY Zenon, <1>2 DEF TaskTables
<1>5. p \in TaskTables
  BY Zenon, <1>1, <1>2 DEF TaskTables
<1> QED
  BY Zenon, <1>3, <1>4, <1>5

LEMMA GraphFields == g.nodes = circuit.nodes /\ g.async = circuit.async
  BY Zenon DEF g, Graph

LEMMA StartFields ==
    ASSUME circuit \in Circuits, NEW t \in TaskTables, NEW p, p = StartCycle(g, t),
           NEW S, S = {n \in circuit.nodes : num_predecessors(g, n) = 0 /\ t.is_ready[n]}
    PROVE  /\ p \in TaskTables
           /\ \A n \in circuit.nodes : p.unsatisfied_dependencies[n] = num_predecessors(g, n)
           /\ p.is_ready = t.is_ready
           /\ p.runnable = t.runnable \cup S
           /\ \A n \in circuit.nodes : p.scheduled[n] <=> n \in S
<1> DEFINE u == [n \in circuit.nodes |-> num_predecessors(g, n)]
           b == [n \in circuit.nodes |-> FALSE]
           r == [t EXCEPT !.unsatisfied_dependencies = u, !.scheduled = b]
<1>1. u \in [circuit.nodes -> Int]
  <2>1. ASSUME NEW n PROVE num_predecessors(g, n) \in Nat
    <3>1. Incoming(g, n) \in SUBSET g.edges
      BY Zenon DEF Incoming
    <3> QED
      BY Zenon, <3>1, EdgesFinite, FS_Subset, FS_CardinalityType DEF num_predecessors
  <2> QED
    BY <2>1
<1>2. b \in [circuit.nodes -> BOOLEAN] /\ \A n \in circuit.nodes : ~b[n]
  BY Zenon
<1>3. p = Push(r, {n \in circuit.nodes : r.unsatisfied_dependencies[n] = 0 /\ r.is_ready[n]})
  BY Zenon, GraphFields DEF StartCycle
<1>4. \A n \in circuit.nodes : u[n] = num_predecessors(g, n)
  BY Zenon
<1> HIDE DEF u, b
<1>5. /\ r \in TaskTables /\ r.unsatisfied_dependencies = u /\ r.is_ready = t.is_ready
      /\ r.runnable = t.runnable /\ r.scheduled = b
  BY Zenon, <1>1, <1>2 DEF TaskTables
<1> HIDE DEF r
<1>6. p = Push(r, S)
  <2>1. S = {n \in circuit.nodes : r.unsatisfied_dependencies[n] = 0 /\ r.is_ready[n]}
    BY Zenon, <1>4, <1>5
  <2> QED
    BY Zenon, <1>3, <2>1
<1>7. S \in SUBSET circuit.nodes
  BY Zenon
<1> QED
  BY <1>2, <1>4, <1>5, <1>6, <1>7, PushFields

LEMMA DequeueFields ==
    ASSUME NEW t \in TaskTables, NEW n \in circuit.nodes, NEW p, p = Dequeue(g, t, n),
           \A s \in circuit.nodes : Multiplicity(g, n, s) \in Nat
    PROVE  /\ p \in TaskTables
           /\ \A s \in circuit.nodes : p.unsatisfied_dependencies[s] =
                                         t.unsatisfied_dependencies[s] - Multiplicity(g, n, s)
           /\ p.is_ready = t.is_ready
           /\ p.runnable = (t.runnable \ {n}) \cup Released(g, t, n)
           /\ \A s \in circuit.nodes :
                p.scheduled[s] <=> t.scheduled[s] \/ s \in Released(g, t, n)
<1> DEFINE u == [s \in circuit.nodes |->
                   t.unsatisfied_dependencies[s] - Multiplicity(g, n, s)]
           r == [t EXCEPT !.runnable = t.runnable \ {n}, !.unsatisfied_dependencies = u]
<1>1. u \in [circuit.nodes -> Int]
  BY DEF TaskTables
<1>2. \A s \in circuit.nodes :
        u[s] = t.unsatisfied_dependencies[s] - Multiplicity(g, n, s)
  BY Zenon
<1>3. p = Push(r, Released(g, t, n))
  BY Zenon, GraphFields DEF Dequeue, TaskTables
<1> HIDE DEF u
<1>4. /\ r \in TaskTables /\ r.unsatisfied_dependencies = u /\ r.is_ready = t.is_ready
      /\ r.runnable = t.runnable \ {n} /\ r.scheduled = t.scheduled
  BY Zenon, <1>1 DEF TaskTables
<1> HIDE DEF r
<1>5. Released(g, t, n) \in SUBSET circuit.nodes
  BY Zenon, GraphFields DEF Released
<1> QED
  BY <1>2, <1>3, <1>4, <1>5, PushFields

LEMMA NotifyFields ==
    ASSUME NEW t \in TaskTables, NEW N, NEW R, NEW p, p = ProcessNotifications(t, N, R),
           N \subseteq circuit.nodes
    PROVE  /\ p \in TaskTables
           /\ p.unsatisfied_dependencies = t.unsatisfied_dependencies
           /\ \A n \in circuit.nodes : p.is_ready[n] <=> t.is_ready[n] \/ n \in N \cap R
           /\ \E S \in SUBSET circuit.nodes :
                /\ \A n \in S : /\ t.unsatisfied_dependencies[n] = 0
                                /\ ~t.scheduled[n] /\ n \in N \cap R
                /\ p.runnable = t.runnable \cup S
                /\ \A n \in circuit.nodes : p.scheduled[n] <=> t.scheduled[n] \/ n \in S
<1> DEFINE Q == NewlyReady(t, N, R)
           b == [n \in circuit.nodes |-> t.is_ready[n] \/ n \in Q]
           r == [t EXCEPT !.is_ready = b]
           S == {n \in Q : r.unsatisfied_dependencies[n] = 0 /\ ~r.scheduled[n]}
<1>1. /\ b \in [circuit.nodes -> BOOLEAN]
      /\ \A n \in circuit.nodes : b[n] <=> t.is_ready[n] \/ n \in N \cap R
  BY Zenon DEF NewlyReady
<1>2. p = Push(r, S)
  BY Zenon DEF ProcessNotifications, TaskTables
<1> HIDE DEF b
<1>3. /\ r \in TaskTables /\ r.unsatisfied_dependencies = t.unsatisfied_dependencies
      /\ r.is_ready = b /\ r.runnable = t.runnable /\ r.scheduled = t.scheduled
  BY Zenon, <1>1 DEF TaskTables
<1> HIDE DEF r
<1>4. /\ S \in SUBSET circuit.nodes
      /\ \A n \in S : t.unsatisfied_dependencies[n] = 0 /\ ~t.scheduled[n] /\ n \in N \cap R
  BY Zenon, <1>3 DEF NewlyReady
<1> HIDE DEF S
<1>5. /\ p \in TaskTables /\ p.unsatisfied_dependencies = t.unsatisfied_dependencies
      /\ p.is_ready = b /\ p.runnable = t.runnable \cup S
      /\ \A n \in circuit.nodes : p.scheduled[n] <=> t.scheduled[n] \/ n \in S
  BY <1>2, <1>3, <1>4, PushFields
<1> QED
  BY <1>1, <1>4, <1>5

LEMMA DoneFields ==
    ASSUME NEW t \in TaskTables, NEW n \in circuit.nodes, NEW p, p = TaskDone(g, t, n)
    PROVE  /\ p \in TaskTables
           /\ p.unsatisfied_dependencies = t.unsatisfied_dependencies
           /\ p.scheduled = t.scheduled /\ p.runnable = t.runnable
           /\ \A m \in circuit.nodes : p.is_ready[m] => t.is_ready[m]
           /\ n \in circuit.async => ~p.is_ready[n]
           /\ \A m \in circuit.nodes : n \notin circuit.async \/ m # n =>
                                         p.is_ready[m] = t.is_ready[m]
<1>1. CASE n \in circuit.async
  <2> DEFINE b == [t.is_ready EXCEPT ![n] = FALSE]
  <2>1. p = [t EXCEPT !.is_ready = b]
    BY Zenon, <1>1, GraphFields DEF TaskDone
  <2>2. b \in [circuit.nodes -> BOOLEAN]
    BY Zenon DEF TaskTables
  <2>3. ~b[n] /\ \A m \in circuit.nodes : m # n => b[m] = t.is_ready[m]
    BY Zenon DEF TaskTables
  <2> HIDE DEF b
  <2>4. /\ p \in TaskTables /\ p.unsatisfied_dependencies = t.unsatisfied_dependencies
        /\ p.scheduled = t.scheduled /\ p.runnable = t.runnable /\ p.is_ready = b
    BY Zenon, <2>1, <2>2 DEF TaskTables
  <2> QED
    BY Zenon, <1>1, <2>3, <2>4
<1>2. CASE n \notin circuit.async
  BY Zenon, <1>2, GraphFields DEF TaskDone
<1> QED
  BY Zenon, <1>1, <1>2

-----------------------------------------------------------------------------
(* The steps. *)

LEMMA QueuedKept ==
    ASSUME NEW n, Queued(n), UNCHANGED <<circuit, tasks>>, Dequeued' = Dequeued
    PROVE  Queued(n)'
  BY Zenon DEF Queued, Pending, Incoming, g

(* The steps of the worker that leave the tasks as they are, and those of  *)
(* other threads.                                                          *)
LEMMA QuietStep ==
    ASSUME SchedulerInv, UNCHANGED <<circuit, tasks, evaluated>>,
           TypeInv', Starting' = Starting, Dequeued' = Dequeued, Evaluating',
           \A n \in circuit.async : Ready(n)'
    PROVE  SchedulerInv'
<1>1. ~Starting' => \A n \in circuit.nodes : Queued(n)'
  BY Zenon, QueuedKept DEF SchedulerInv
<1> QED
  BY Zenon, <1>1 DEF SchedulerInv

LEMMA PrepareStep ==
    ASSUME SchedulerInv,
           CheckReady \/ \E n \in circuit.async : register_ready_callback(n)
    PROVE  SchedulerInv'
<1> USE DEF SchedulerInv, env
<1>1. CASE CheckReady
  <2>1. TypeInv'
    BY Zenon, <1>1 DEF CheckReady, TypeInv, TaskTables
  <2> QED
    BY Zenon, <1>1, <2>1, QuietStep DEF CheckReady, Starting, Dequeued, Evaluating, Ready
<1>2. ASSUME NEW n \in circuit.async, register_ready_callback(n) PROVE SchedulerInv'
  <2>1. TypeInv'
    BY Zenon, <1>2 DEF register_ready_callback, TypeInv, TaskTables
  <2> QED
    BY Zenon, <1>2, <2>1, QuietStep DEF register_ready_callback, Starting, Dequeued, Evaluating, Ready
<1> QED
  BY Zenon, <1>1, <1>2

LEMMA StepStartStep ==
    ASSUME SchedulerInv, StepStart PROVE SchedulerInv'
<1> USE DEF SchedulerInv, env
<1> DEFINE S == {n \in circuit.nodes : num_predecessors(g, n) = 0 /\ tasks.is_ready[n]}
<1>1. circuit \in Circuits /\ tasks \in TaskTables /\ tasks' = StartCycle(g, tasks)
  BY Zenon DEF TypeInv, StepStart
<1>2. tasks.runnable = {}
  BY Zenon DEF StepStart, Starting, Evaluating, Queued, Dequeued, TypeInv, TaskTables
<1>3. /\ tasks' \in TaskTables
      /\ \A n \in circuit.nodes : tasks'.unsatisfied_dependencies[n] = num_predecessors(g, n)
      /\ tasks'.is_ready = tasks.is_ready
      /\ tasks'.runnable = S
      /\ \A n \in circuit.nodes : tasks'.scheduled[n] <=> n \in S
  <2>1. S = {n \in circuit.nodes : num_predecessors(g, n) = 0 /\ tasks.is_ready[n]}
    BY Zenon
  <2> HIDE DEF S, SchedulerInv
  <2> QED
    BY <1>1, <1>2, <2>1, StartFields
<1>4. /\ pc' = "loop" /\ evaluated' = {} /\ Dequeued' = {}
      /\ UNCHANGED <<circuit, nodes, current, callback, op_ready>>
  BY Zenon DEF StepStart, Dequeued
<1>5. TypeInv'
  BY Zenon, <1>3, <1>4 DEF TypeInv, TaskTables
<1>6. ASSUME NEW n \in circuit.nodes PROVE Queued(n)'
  <2>1. Pending(n)' = Incoming(g, n)
    BY Zenon, <1>4 DEF Pending, Incoming, g
  <2> QED
    BY Zenon, <1>3, <1>4, <2>1 DEF Queued, num_predecessors
<1>7. ASSUME NEW n \in circuit.async PROVE Ready(n)'
  BY Zenon, <1>3, <1>4, <1>7 DEF Ready, StepStart
<1> QED
  BY Zenon, <1>4, <1>5, <1>6, <1>7 DEF Starting, Evaluating

LEMMA DequeueStep ==
    ASSUME SchedulerInv, NEW n \in circuit.nodes, dequeue_next_task(n) PROVE SchedulerInv'
<1> USE DEF SchedulerInv, env
<1>1. /\ circuit \in Circuits /\ tasks \in TaskTables /\ tasks' = Dequeue(g, tasks, n)
      /\ pc = "loop" /\ n \in tasks.runnable /\ IsFiniteSet(g.edges)
  BY Zenon, EdgesFinite DEF TypeInv, dequeue_next_task, NextTasks
<1>2. \A s \in circuit.nodes : Queued(s)
  BY Zenon, <1>1 DEF Starting
<1>3. Dequeued = evaluated /\ n \notin evaluated
  BY Zenon, <1>1, <1>2 DEF Dequeued, Queued
<1> DEFINE Q(s) == {e \in Incoming(g, s) : e.from \notin evaluated \cup {n}}
<1>4. ASSUME NEW s
      PROVE  /\ Cardinality(Pending(s)) \in Nat /\ Multiplicity(g, n, s) \in Nat
             /\ Multiplicity(g, n, s) <= Cardinality(Pending(s))
             /\ Cardinality(Q(s)) = Cardinality(Pending(s)) - Multiplicity(g, n, s)
  <2> DEFINE M == {e \in Outgoing(g, n) : e.to = s}
  <2>1. M \in SUBSET Pending(s) /\ Q(s) = Pending(s) \ M
    BY Zenon, <1>3 DEF Pending, Incoming, Outgoing
  <2>2. Multiplicity(g, n, s) = Cardinality(M) /\ IsFiniteSet(Pending(s))
    BY Zenon, <1>1, PendingCount DEF Multiplicity
  <2> HIDE DEF M, Q, SchedulerInv
  <2> QED
    BY Zenon, <2>1, <2>2, Removed
<1> HIDE DEF Q
<1>5. DequeueAsserts(g, tasks, n)
  <2>1. \A s \in circuit.nodes :
          Multiplicity(g, n, s) <= tasks.unsatisfied_dependencies[s]
    BY Zenon, <1>2, <1>4 DEF Queued
  <2>2. \A s \in Released(g, tasks, n) : ~tasks.scheduled[s]
    BY <1>2, GraphFields DEF Released, Queued
  <2> QED
    BY Zenon, <2>1, <2>2, GraphFields DEF DequeueAsserts
<1>6. /\ pc' = "eval" /\ current' = {n} /\ Dequeued' = evaluated \cup {n}
      /\ UNCHANGED <<circuit, nodes, evaluated, callback, op_ready>>
  BY Zenon, <1>5 DEF dequeue_next_task, Dequeued
<1>7. /\ tasks' \in TaskTables
      /\ \A s \in circuit.nodes : tasks'.unsatisfied_dependencies[s] =
                                    tasks.unsatisfied_dependencies[s] - Multiplicity(g, n, s)
      /\ tasks'.is_ready = tasks.is_ready
      /\ tasks'.runnable = (tasks.runnable \ {n}) \cup Released(g, tasks, n)
      /\ \A s \in circuit.nodes :
           tasks'.scheduled[s] <=> tasks.scheduled[s] \/ s \in Released(g, tasks, n)
  <2> HIDE DEF SchedulerInv
  <2> QED
    BY <1>1, <1>4, DequeueFields
<1>8. TypeInv'
  BY Zenon, <1>6, <1>7 DEF TypeInv, TaskTables
<1>9. ASSUME NEW s \in circuit.nodes PROVE Queued(s)'
  <2>1. Pending(s)' = Q(s)
    BY Zenon, <1>6 DEF Q, Pending, Incoming, g
  <2>2. tasks'.unsatisfied_dependencies[s] = Cardinality(Pending(s)')
    BY Zenon, <1>2, <1>4, <1>7, <2>1 DEF Queued
  <2>3. s \in Released(g, tasks, n) =>
          /\ tasks.unsatisfied_dependencies[s] # 0 /\ tasks.is_ready[s]
          /\ tasks.unsatisfied_dependencies[s] = Multiplicity(g, n, s)
    BY <1>4 DEF Released
  <2>4. Queued(s) /\ Queued(n) /\ n \in tasks.runnable
    BY Zenon, <1>1, <1>2
  <2>5. tasks.unsatisfied_dependencies[s] = 0 =>
          tasks'.unsatisfied_dependencies[s] = 0
    <3>1. /\ tasks.unsatisfied_dependencies[s] = Cardinality(Pending(s))
          /\ tasks'.unsatisfied_dependencies[s] =
               tasks.unsatisfied_dependencies[s] - Multiplicity(g, n, s)
      BY Zenon, <1>7, <2>4 DEF Queued
    <3>2. /\ Multiplicity(g, n, s) \in Nat /\ Cardinality(Pending(s)) \in Nat
          /\ Multiplicity(g, n, s) <= Cardinality(Pending(s))
      BY Zenon, <1>4
    <3> QED
      BY <3>1, <3>2
  <2>6. tasks'.scheduled[s] => tasks'.unsatisfied_dependencies[s] = 0
    <3>1. /\ tasks'.scheduled[s] => tasks.scheduled[s] \/ s \in Released(g, tasks, n)
          /\ tasks.scheduled[s] => tasks.unsatisfied_dependencies[s] = 0
      BY Zenon, <1>7, <2>4 DEF Queued
    <3>2. s \in Released(g, tasks, n) => tasks'.unsatisfied_dependencies[s] = 0
      BY <1>4, <1>7, <2>3
    <3> QED
      BY Zenon, <2>5, <3>1, <3>2
  <2>7. s \in tasks'.runnable => /\ tasks'.is_ready[s] /\ tasks'.scheduled[s]
                                /\ s \notin Dequeued'
    BY Zenon, <1>3, <1>6, <1>7, <2>3, <2>4 DEF Queued
  <2>8. s \in Dequeued' => tasks'.scheduled[s]
    BY Zenon, <1>3, <1>6, <1>7, <2>4 DEF Queued
  <2> QED
    BY Zenon, <2>2, <2>6, <2>7, <2>8 DEF Queued
<1>10. ASSUME NEW m \in circuit.async PROVE Ready(m)'
  BY Zenon, <1>1, <1>6, <1>7, <1>10 DEF Ready
<1>11. Evaluating'
  <2>1. Pending(n) = {} /\ tasks.is_ready[n]
    BY Zenon, <1>1, <1>2, PendingCount DEF Queued
  <2>2. Predecessors(g, n) \subseteq evaluated
    BY Zenon, <1>3, <2>1 DEF Pending, Predecessors
  <2> QED
    BY Zenon, <1>3, <1>6, <1>7, <2>1, <2>2 DEF Evaluating, g
<1> QED
  BY Zenon, <1>6, <1>8, <1>9, <1>10, <1>11 DEF Starting

LEMMA NotificationsStep ==
    ASSUME SchedulerInv, process_notifications PROVE SchedulerInv'
<1> USE DEF SchedulerInv, env
<1> DEFINE R == {n \in nodes : op_ready[n]}
<1>1. /\ tasks \in TaskTables /\ nodes \subseteq circuit.nodes /\ pc = "loop"
      /\ tasks' = ProcessNotifications(tasks, nodes, R)
      /\ pc' \in {"loop", "park"} /\ nodes' = {}
      /\ UNCHANGED <<circuit, current, evaluated, callback, op_ready>>
  BY Zenon, CircuitsAssumption DEF TypeInv, process_notifications
<1>2. \A n \in circuit.async : n \in nodes \cap R => op_ready[n]
  BY Zenon
<1> HIDE DEF R
<1>3. /\ tasks' \in TaskTables
      /\ tasks'.unsatisfied_dependencies = tasks.unsatisfied_dependencies
      /\ \A n \in circuit.nodes : tasks'.is_ready[n] <=> tasks.is_ready[n] \/ n \in nodes \cap R
  <2> HIDE DEF SchedulerInv
  <2> QED
    BY <1>1, NotifyFields
<1>4. PICK S \in SUBSET circuit.nodes :
        /\ \A n \in S : /\ tasks.unsatisfied_dependencies[n] = 0
                        /\ ~tasks.scheduled[n] /\ n \in nodes \cap R
        /\ tasks'.runnable = tasks.runnable \cup S
        /\ \A n \in circuit.nodes : tasks'.scheduled[n] <=> tasks.scheduled[n] \/ n \in S
  <2> HIDE DEF SchedulerInv
  <2> QED
    BY <1>1, NotifyFields
<1>5. TypeInv'
  BY Zenon, <1>1, <1>3 DEF TypeInv, TaskTables
<1>6. Dequeued = evaluated /\ Dequeued' = evaluated
  BY Zenon, <1>1 DEF Dequeued
<1>7. ASSUME NEW n \in circuit.nodes PROVE Queued(n)'
  <2>1. Queued(n)
    BY Zenon, <1>1 DEF Starting
  <2>2. Pending(n)' = Pending(n)
    BY Zenon, <1>1, <1>6 DEF Pending, Incoming, g
  <2> QED
    BY Zenon, <1>3, <1>4, <1>6, <2>1, <2>2 DEF Queued
<1>8. ASSUME NEW n \in circuit.async PROVE Ready(n)'
  <2>1. n \in circuit.nodes
    BY Zenon, CircuitsAssumption DEF TypeInv
  <2> QED
    BY Zenon, <1>1, <1>2, <1>3, <1>8, <2>1 DEF Ready
<1> QED
  BY Zenon, <1>1, <1>5, <1>7, <1>8 DEF Starting, Evaluating

LEMMA EvalStep ==
    ASSUME SchedulerInv, eval_node PROVE SchedulerInv'
<1> USE DEF SchedulerInv, env
<1>1. /\ pc = "eval" /\ pc' = "evaluated" /\ evaluated' = evaluated \cup current
      /\ op_ready' = [n \in circuit.async |-> op_ready[n] /\ n \notin current]
      /\ UNCHANGED <<circuit, tasks, nodes, current, callback>>
  BY Zenon DEF eval_node
<1>2. Dequeued' = Dequeued
  BY Zenon, <1>1 DEF Dequeued
<1>3. TypeInv'
  BY Zenon, <1>1 DEF TypeInv, TaskTables
<1>4. ASSUME NEW n \in circuit.async PROVE Ready(n)'
  BY Zenon, <1>1, <1>4 DEF Ready
<1>5. \A n \in circuit.nodes : Queued(n)'
  BY Zenon, <1>1, <1>2, QueuedKept DEF Starting
<1> QED
  BY Zenon, <1>1, <1>3, <1>4, <1>5 DEF Starting, Evaluating

LEMMA CompletedStep ==
    ASSUME SchedulerInv, Completed PROVE SchedulerInv'
<1> USE DEF SchedulerInv, env
<1>1. PICK n \in circuit.nodes : current = {n} /\ tasks' = TaskDone(g, tasks, n)
  BY Zenon DEF Completed, TypeInv
<1>2. /\ pc = "evaluated" /\ pc' = "loop" /\ current' = {} /\ n \in evaluated
      /\ UNCHANGED <<circuit, nodes, evaluated, callback, op_ready>>
  BY Zenon, <1>1 DEF Completed, Evaluating
<1>3. /\ tasks' \in TaskTables
      /\ tasks'.unsatisfied_dependencies = tasks.unsatisfied_dependencies
      /\ tasks'.scheduled = tasks.scheduled /\ tasks'.runnable = tasks.runnable
      /\ \A m \in circuit.nodes : tasks'.is_ready[m] => tasks.is_ready[m]
      /\ n \in circuit.async => ~tasks'.is_ready[n]
      /\ \A m \in circuit.nodes : n \notin circuit.async \/ m # n =>
                                    tasks'.is_ready[m] = tasks.is_ready[m]
  BY <1>1, DoneFields DEF TypeInv
<1>4. Dequeued = evaluated /\ Dequeued' = evaluated
  BY Zenon, <1>2 DEF Dequeued
<1>5. TypeInv'
  BY Zenon, <1>2, <1>3 DEF TypeInv, TaskTables
<1>6. ASSUME NEW m \in circuit.nodes PROVE Queued(m)'
  <2>1. Queued(m)
    BY Zenon, <1>2 DEF Starting
  <2>2. Pending(m)' = Pending(m)
    BY Zenon, <1>2, <1>4 DEF Pending, Incoming, g
  <2>3. m \in tasks.runnable => m # n
    BY Zenon, <1>2, <1>4, <2>1 DEF Queued
  <2> QED
    BY Zenon, <1>3, <1>4, <2>1, <2>2, <2>3 DEF Queued
<1>7. ASSUME NEW m \in circuit.async PROVE Ready(m)'
  <2>1. m \in circuit.nodes
    BY Zenon, CircuitsAssumption DEF TypeInv
  <2> QED
    BY Zenon, <1>1, <1>2, <1>3, <1>7, <2>1 DEF Ready
<1> QED
  BY Zenon, <1>2, <1>5, <1>6, <1>7 DEF Starting, Evaluating

LEMMA ControlStep ==
    ASSUME SchedulerInv, Killed \/ park \/ NestedPark \/ StepEnd PROVE SchedulerInv'
<1> USE DEF SchedulerInv, env, worker
<1>1. /\ UNCHANGED <<circuit, tasks, nodes, current, evaluated, callback, op_ready>>
      /\ \/ pc = "loop" /\ pc' = "killed"
         \/ pc = "park" /\ pc' = "loop"
         \/ pc = "eval" /\ pc' = "eval"
         \/ pc = "loop" /\ pc' = "stepped" /\ evaluated = circuit.nodes
  BY Zenon DEF Killed, park, NestedPark, StepEnd
<1>2. TypeInv' /\ Starting' = Starting /\ Dequeued' = Dequeued
  BY <1>1 DEF TypeInv, TaskTables, Starting, Dequeued
<1>3. Evaluating'
  BY Zenon, <1>1 DEF Evaluating, g
<1>4. \A n \in circuit.async : Ready(n)'
  BY Zenon, <1>1 DEF Ready
<1> QED
  BY Zenon, <1>1, <1>2, <1>3, <1>4, QuietStep

LEMMA EnvironmentStep ==
    ASSUME SchedulerInv, Environment PROVE SchedulerInv'
<1> USE DEF SchedulerInv, worker
<1>1. /\ UNCHANGED worker /\ circuit' = circuit
      /\ nodes' \subseteq circuit.async
      /\ op_ready' \in [circuit.async -> BOOLEAN]
      /\ \A n \in circuit.async : op_ready[n] => op_ready'[n]
  <2>1. ASSUME NEW n \in circuit.async, Notifier(n) \/ SpuriousNotify(n) PROVE <1>1!:
    BY Zenon, <2>1 DEF Notifier, BecomeReady, NotifyInsert, NotifyUnpark, SpuriousNotify, TypeInv
  <2>2. CASE KillStore \/ KillUnpark
    BY Zenon, <2>2 DEF KillStore, KillUnpark, TypeInv
  <2> QED
    BY Zenon, <2>1, <2>2 DEF Environment
<1>2. TypeInv' /\ Starting' = Starting /\ Dequeued' = Dequeued
  BY Zenon, <1>1 DEF TypeInv, TaskTables, Starting, Dequeued
<1>3. Evaluating'
  BY Zenon, <1>1 DEF Evaluating, g
<1>4. \A n \in circuit.async : Ready(n)'
  BY Zenon, <1>1 DEF Ready
<1> QED
  BY Zenon, <1>1, <1>2, <1>3, <1>4, QuietStep

LEMMA SchedulerInvariant == Spec => []SchedulerInv
<1>1. Init => SchedulerInv
  <2> SUFFICES ASSUME Init PROVE SchedulerInv
    BY Zenon
  <2>1. tasks \in TaskTables /\ tasks.runnable = {}
    <3>1. ASSUME NEW n \in circuit.nodes PROVE num_predecessors(g, n) \in Int
      <4>1. Incoming(g, n) \in SUBSET g.edges /\ circuit \in Circuits
        BY Zenon DEF Incoming, Init
      <4> QED
        BY <4>1, EdgesFinite, FS_Subset, FS_CardinalityType DEF num_predecessors
    <3> QED
      BY Zenon, <3>1, GraphFields DEF Init, NewTasks, TaskTables, g
  <2>2. \A n \in circuit.async : ~tasks.is_ready[n]
    <3>1. circuit.async \subseteq circuit.nodes
      BY Zenon, CircuitsAssumption DEF Init
    <3> QED
      BY Zenon, <3>1, GraphFields DEF Init, NewTasks, g
  <2>3. TypeInv
    BY Zenon, <2>1 DEF Init, TypeInv
  <2> QED
    BY Zenon, <2>1, <2>2, <2>3 DEF SchedulerInv, Init, Ready, Starting, Evaluating
<1>2. SchedulerInv /\ [Next]_vars => SchedulerInv'
  <2> SUFFICES ASSUME SchedulerInv, [Next]_vars PROVE SchedulerInv'
    BY Zenon
  <2>1. CASE Worker
    BY Zenon, <2>1, PrepareStep, StepStartStep, DequeueStep, NotificationsStep, EvalStep, CompletedStep,
       ControlStep DEF Worker
  <2>2. CASE NestedPark
    BY Zenon, <2>2, ControlStep
  <2>3. CASE Environment
    BY Zenon, <2>3, EnvironmentStep
  <2>4. CASE UNCHANGED vars
    <3>1. TypeInv' /\ Starting' = Starting /\ Dequeued' = Dequeued
      BY Zenon, <2>4 DEF vars, SchedulerInv, TypeInv, TaskTables, Starting, Dequeued
    <3>2. Evaluating' /\ \A n \in circuit.async : Ready(n)'
      BY Zenon, <2>4 DEF vars, SchedulerInv, Evaluating, Ready, g
    <3> QED
      BY Zenon, <2>4, <3>1, <3>2, QuietStep DEF vars
  <2> QED
    BY Zenon, <2>1, <2>2, <2>3, <2>4 DEF Next
<1> QED
  BY <1>1, <1>2, PTL DEF Spec

-----------------------------------------------------------------------------
(* For any circuit and any notifications, no assertion of dequeue_next_task *)
(* or RunQueue::push fails.                                                 *)
THEOREM AssertionsHold == Spec => []NoAssertFails
<1>1. SchedulerInv => NoAssertFails
  BY Zenon DEF SchedulerInv, TypeInv, TaskTables, Starting, Queued, NoAssertFails
<1> QED
  BY <1>1, SchedulerInvariant, PTL

(* For any circuit, the constraints that prepare adds make a consumer that *)
(* insists on ownership the last of the stream's consumers.                *)
LEMMA StrongConsumersLast ==
    ASSUME SchedulerInv PROVE StrongConsumerLast
<1> SUFFICES ASSUME pc = "eval", NEW n \in current,
                    NEW e \in circuit.edges, NEW f \in circuit.edges,
                    e.to = n, e.pref = "strong", f.from = e.from, f.id # e.id,
                    f.pref # "none"
             PROVE  f.to \in evaluated
  BY Zenon DEF StrongConsumerLast
<1> DEFINE c == [id |-> <<f.id, e.id>>, from |-> f.to, to |-> e.to, pref |-> "none"]
<1>1. c \in ownership_constraints(circuit.edges)
  <2> DEFINE x == <<f, e>>
  <2>1. x \in circuit.edges \X circuit.edges /\ x[1] = f /\ x[2] = e
    BY Zenon
  <2> HIDE DEF x
  <2>2. c = [id |-> <<x[1].id, x[2].id>>, from |-> x[1].to, to |-> x[2].to, pref |-> "none"]
    BY Zenon, <2>1
  <2> HIDE DEF c
  <2> QED
    BY Zenon, <2>1, <2>2 DEF ownership_constraints
<1>2. c \in Incoming(g, n) /\ c.from = f.to
  BY Zenon, <1>1 DEF Incoming, g, Graph
<1>3. f.to \in Predecessors(g, n)
  <2> HIDE DEF c
  <2> QED
    BY Zenon, <1>2 DEF Predecessors
<1> QED
  BY Zenon, <1>3 DEF SchedulerInv, Evaluating

(* For any circuit and any notifications, a cycle evaluates every node once, *)
(* after the nodes upstream of it and, if async, when it is ready, and a     *)
(* consumer that insists on ownership after the stream's other consumers.    *)
THEOREM SchedulesValid == Spec => []ValidSchedule
<1>1. SchedulerInv => ValidSchedule
  <2> SUFFICES ASSUME SchedulerInv PROVE ValidSchedule
    BY Zenon
  <2>1. ASSUME pc = "eval", NEW n \in current
        PROVE  /\ n \notin evaluated /\ Predecessors(g, n) \subseteq evaluated
               /\ n \in circuit.async => op_ready[n]
    BY Zenon, <2>1 DEF SchedulerInv, Evaluating, Ready
  <2>2. pc = "stepped" => evaluated = circuit.nodes /\ tasks.runnable = {}
    BY Zenon DEF SchedulerInv, TypeInv, TaskTables, Evaluating, Starting, Queued, Dequeued
  <2> QED
    BY Zenon, <2>1, <2>2, StrongConsumersLast DEF ValidSchedule
<1> QED
  BY <1>1, SchedulerInvariant, PTL
==============================================================================
