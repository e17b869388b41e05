---------------------------- MODULE WorkerProofs ----------------------------
(***************************************************************************)
(* Proof, for any number of workers and cycles and any circuit, that the   *)
(* schedulers of the workers and the exchanges between them keep the       *)
(* workers' cycles apart (SameCycle).                                      *)
(*                                                                         *)
(* The strengthening has three parts: each worker's task table counts the  *)
(* edges its nodes wait for; a mailbox holds the one value that its sender *)
(* has sent and its receiver has not taken; and an operator that a         *)
(* scheduler takes for ready is ready until it is evaluated, because only  *)
(* its own worker can take that status away.                               *)
(***************************************************************************)
EXTENDS WorkerCircuits, FiniteSetTheorems, TLAPS

TaskTables == [unsatisfied_dependencies : [circuit.nodes -> Int],
               is_ready  : [circuit.nodes -> BOOLEAN],
               scheduled : [circuit.nodes -> BOOLEAN],
               runnable  : SUBSET circuit.nodes]

(* The edges that n waits for when the nodes in D have been dequeued. *)
Pending(D, n) == {e \in Incoming(g, n) : e.from \notin D}

(* A task is pushed once in a cycle, when nothing is left to wait for, and *)
(* is then in the run queue or dequeued.                                   *)
Queued(t, D, n) ==
    /\ t.unsatisfied_dependencies[n] = Cardinality(Pending(D, n))
    /\ t.scheduled[n] => t.unsatisfied_dependencies[n] = 0
    /\ n \in t.runnable => t.is_ready[n] /\ t.scheduled[n] /\ n \notin D
    /\ n \in D => t.scheduled[n]

Consistent(t, D) == t \in TaskTables /\ \A n \in circuit.nodes : Queued(t, D, n)

TypeInv ==
    /\ circuit \in Circuits
    /\ tasks \in [Workers -> TaskTables]
    /\ pc \in [Workers -> {"prepare", "stepped", "loop", "eval", "calls", "park"}]
    /\ nodes \in [Workers -> SUBSET circuit.async]
    /\ current \in [Workers -> SUBSET circuit.nodes]
    /\ evaluated \in [Workers -> SUBSET circuit.nodes]
    /\ steps \in [Workers -> Nat]
    /\ prepared \subseteq Workers
    /\ mailboxes \in [Exchanges -> [Workers -> [Workers -> SUBSET Nat]]]
    /\ calls \in [Workers -> SUBSET (Workers \X circuit.async)]

(* The scheduler of worker w between two of its steps. *)
Scheduling(w) ==
    /\ pc[w] = "prepare" => tasks[w].runnable = {} /\ evaluated[w] = {}
    /\ pc[w] = "stepped" => tasks[w].runnable = {}
    /\ pc[w] \in {"loop", "park", "eval", "calls"} =>
         Consistent(tasks[w], evaluated[w] \cup current[w])
    /\ IF pc[w] \in {"eval", "calls"}
         THEN \E n \in circuit.nodes : current[w] = {n} /\ n \notin evaluated[w]
         ELSE current[w] = {}
    /\ pc[w] = "eval" => \A n \in current[w] : tasks[w].is_ready[n]

(* Node n of worker w has had its effect on the exchange in this cycle. *)
InCycle(w) == pc[w] \notin {"prepare", "stepped"}
Acted(w, n) == InCycle(w) /\ (n \in evaluated[w] \/ (pc[w] = "calls" /\ n \in current[w]))
Acts(w, n) == steps[w] + (IF Acted(w, n) THEN 1 ELSE 0)

(* How often worker s has sent, and worker r has received, through x. *)
Sent(s, x) == Acts(s, circuit.sender[x])
Taken(r, x) == Acts(r, circuit.receiver[x])

Box(x, s, r) ==
    \/ Sent(s, x) = Taken(r, x) /\ mailboxes[x][s][r] = {}
    \/ Sent(s, x) = Taken(r, x) + 1 /\ mailboxes[x][s][r] = {Taken(r, x)}

(* What the scheduler of w takes for ready is, until w evaluates it. *)
Known(w, x) ==
    /\ tasks[w].is_ready[circuit.sender[x]] =>
         ready_to_send(x, w) \/ (pc[w] = "calls" /\ current[w] = {circuit.sender[x]})
    /\ tasks[w].is_ready[circuit.receiver[x]] =>
         ready_to_receive(x, w) \/ (pc[w] = "calls" /\ current[w] = {circuit.receiver[x]})

WorkersInv ==
    /\ TypeInv
    /\ \A w \in Workers : Scheduling(w)
    /\ \A x \in Exchanges : \A s, r \in Workers : Box(x, s, r)
    /\ \A w \in Workers : \A x \in Exchanges : Known(w, x)

-----------------------------------------------------------------------------
(* Edges. *)

LEMMA EdgesFinite ==
    ASSUME circuit \in Circuits PROVE IsFiniteSet(g.edges)
<1> DEFINE E == circuit.edges
           P == {p \in E \X E : /\ p[1].from = p[2].from /\ p[1].id # p[2].id
                                /\ p[1].pref # "none" /\ p[2].pref = "strong"}
           f == [x \in P |-> [id |-> <<x[1].id, x[2].id>>, from |-> x[1].to, to |-> x[2].to,
                              pref |-> "none"]]
           O == ownership_constraints(E)
<1>1. IsFiniteSet(E)
  BY Zenon, CircuitsAssumption
<1>2. IsFiniteSet(E \X E)
  BY Zenon, <1>1, FS_Product
<1>3. IsFiniteSet(P)
  BY Zenon, <1>2, FS_Subset
<1>4. f \in Surjection(P, O)
  BY Zenon DEF Surjection, ownership_constraints
<1>5. IsFiniteSet(O)
  <2> HIDE DEF P, f, O
  <2> QED
    BY Zenon, <1>3, <1>4, FS_Surjection
<1>6. g.edges = E \cup O
  BY Zenon DEF g, Graph
<1> QED
  BY Zenon, <1>1, <1>5, <1>6, FS_Union

(* When a node is dequeued, its successors wait for the edges from it no   *)
(* longer.                                                                 *)
LEMMA Removed ==
    ASSUME NEW P, IsFiniteSet(P), NEW M \in SUBSET P
    PROVE  /\ Cardinality(P) \in Nat /\ Cardinality(M) \in Nat
           /\ Cardinality(M) <= Cardinality(P)
           /\ Cardinality(P \ M) = Cardinality(P) - Cardinality(M)
<1>1. IsFiniteSet(M) /\ Cardinality(M) <= Cardinality(P)
  BY Zenon, FS_Subset
<1>2. P \cap M = M
  BY Zenon
<1>3. Cardinality(P \ M) = Cardinality(P) - Cardinality(M)
  BY Zenon, <1>2, FS_Difference
<1> QED
  BY Zenon, <1>1, <1>3, FS_CardinalityType

LEMMA PendingCount ==
    ASSUME circuit \in Circuits, NEW D, NEW n
    PROVE  IsFiniteSet(Pending(D, n)) /\ Cardinality(Pending(D, n)) \in Nat
<1>1. Pending(D, n) \in SUBSET g.edges
  BY Zenon DEF Pending, Incoming
<1>2. IsFiniteSet(Pending(D, n))
  BY Zenon, <1>1, EdgesFinite, FS_Subset
<1> QED
  BY Zenon, <1>2, FS_CardinalityType

-----------------------------------------------------------------------------
(* The task table. *)

LEMMA PushFields ==
    ASSUME NEW t \in TaskTables, NEW S \in SUBSET circuit.nodes, NEW p, p = Push(t, S)
    PROVE  /\ p \in TaskTables
           /\ p.unsatisfied_dependencies = t.unsatisfied_dependencies
           /\ p.is_ready = t.is_ready
           /\ p.runnable = t.runnable \cup S
           /\ \A n \in circuit.nodes : p.scheduled[n] <=> t.scheduled[n] \/ n \in S
<1> DEFINE b == [n \in circuit.nodes |-> t.scheduled[n] \/ n \in S]
<1>1. b \in [circuit.nodes -> BOOLEAN]
  BY Zenon
<1>2. p = [t EXCEPT !.runnable = t.runnable \cup S, !.scheduled = b]
  BY Zenon DEF Push, TaskTables
<1>3. \A n \in circuit.nodes : b[n] <=> t.scheduled[n] \/ n \in S
  BY Zenon
<1> HIDE DEF b
<1>4. /\ p.unsatisfied_dependencies = t.unsatisfied_dependencies /\ p.is_ready = t.is_ready
      /\ p.runnable = t.runnable \cup S /\ p.scheduled = b
  BY Zenon, <1>2 DEF TaskTables
<1>5. p \in TaskTables
  BY Zenon, <1>1, <1>2 DEF TaskTables
<1> QED
  BY Zenon, <1>3, <1>4, <1>5

LEMMA GraphFields == g.nodes = circuit.nodes /\ g.async = circuit.async
  BY Zenon DEF g, Graph

LEMMA StartFields ==
    ASSUME circuit \in Circuits, NEW t \in TaskTables, NEW p, p = StartCycle(g, t),
           NEW S, S = {n \in circuit.nodes : num_predecessors(g, n) = 0 /\ t.is_ready[n]}
    PROVE  /\ p \in TaskTables
           /\ \A n \in circuit.nodes : p.unsatisfied_dependencies[n] = num_predecessors(g, n)
           /\ p.is_ready = t.is_ready
           /\ p.runnable = t.runnable \cup S
           /\ \A n \in circuit.nodes : p.scheduled[n] <=> n \in S
<1> DEFINE u == [n \in circuit.nodes |-> num_predecessors(g, n)]
           b == [n \in circuit.nodes |-> FALSE]
           r == [t EXCEPT !.unsatisfied_dependencies = u, !.scheduled = b]
<1>1. u \in [circuit.nodes -> Int]
  <2>1. ASSUME NEW n PROVE num_predecessors(g, n) \in Nat
    <3>1. Incoming(g, n) \in SUBSET g.edges
      BY Zenon DEF Incoming
    <3> QED
      BY Zenon, <3>1, EdgesFinite, FS_Subset, FS_CardinalityType DEF num_predecessors
  <2> QED
    BY <2>1
<1>2. b \in [circuit.nodes -> BOOLEAN] /\ \A n \in circuit.nodes : ~b[n]
  BY Zenon
<1>3. p = Push(r, {n \in circuit.nodes : r.unsatisfied_dependencies[n] = 0 /\ r.is_ready[n]})
  BY Zenon, GraphFields DEF StartCycle
<1>4. \A n \in circuit.nodes : u[n] = num_predecessors(g, n)
  BY Zenon
<1> HIDE DEF u, b
<1>5. /\ r \in TaskTables /\ r.unsatisfied_dependencies = u /\ r.is_ready = t.is_ready
      /\ r.runnable = t.runnable /\ r.scheduled = b
  BY Zenon, <1>1, <1>2 DEF TaskTables
<1> HIDE DEF r
<1>6. p = Push(r, S)
  <2>1. S = {n \in circuit.nodes : r.unsatisfied_dependencies[n] = 0 /\ r.is_ready[n]}
    BY Zenon, <1>4, <1>5
  <2> QED
    BY Zenon, <1>3, <2>1
<1>7. S \in SUBSET circuit.nodes
  BY Zenon
<1> QED
  BY <1>2, <1>4, <1>5, <1>6, <1>7, PushFields

LEMMA DequeueFields ==
    ASSUME NEW t \in TaskTables, NEW n \in circuit.nodes, NEW p, p = Dequeue(g, t, n),
           \A s \in circuit.nodes : Multiplicity(g, n, s) \in Nat
    PROVE  /\ p \in TaskTables
           /\ \A s \in circuit.nodes : p.unsatisfied_dependencies[s] =
                                         t.unsatisfied_dependencies[s] - Multiplicity(g, n, s)
           /\ p.is_ready = t.is_ready
           /\ p.runnable = (t.runnable \ {n}) \cup Released(g, t, n)
           /\ \A s \in circuit.nodes :
                p.scheduled[s] <=> t.scheduled[s] \/ s \in Released(g, t, n)
<1> DEFINE u == [s \in circuit.nodes |->
                   t.unsatisfied_dependencies[s] - Multiplicity(g, n, s)]
           r == [t EXCEPT !.runnable = t.runnable \ {n}, !.unsatisfied_dependencies = u]
<1>1. u \in [circuit.nodes -> Int]
  BY DEF TaskTables
<1>2. \A s \in circuit.nodes :
        u[s] = t.unsatisfied_dependencies[s] - Multiplicity(g, n, s)
  BY Zenon
<1>3. p = Push(r, Released(g, t, n))
  BY Zenon, GraphFields DEF Dequeue, TaskTables
<1> HIDE DEF u
<1>4. /\ r \in TaskTables /\ r.unsatisfied_dependencies = u /\ r.is_ready = t.is_ready
      /\ r.runnable = t.runnable \ {n} /\ r.scheduled = t.scheduled
  BY Zenon, <1>1 DEF TaskTables
<1> HIDE DEF r
<1>5. Released(g, t, n) \in SUBSET circuit.nodes
  BY Zenon, GraphFields DEF Released
<1> QED
  BY <1>2, <1>3, <1>4, <1>5, PushFields

LEMMA NotifyFields ==
    ASSUME NEW t \in TaskTables, NEW N, NEW R, NEW p, p = ProcessNotifications(t, N, R),
           N \subseteq circuit.nodes
    PROVE  /\ p \in TaskTables
           /\ p.unsatisfied_dependencies = t.unsatisfied_dependencies
           /\ \A n \in circuit.nodes : p.is_ready[n] <=> t.is_ready[n] \/ n \in N \cap R
           /\ \E S \in SUBSET circuit.nodes :
                /\ \A n \in S : /\ t.unsatisfied_dependencies[n] = 0
                                /\ ~t.scheduled[n] /\ n \in N \cap R
                /\ p.runnable = t.runnable \cup S
                /\ \A n \in circuit.nodes : p.scheduled[n] <=> t.scheduled[n] \/ n \in S
<1> DEFINE Q == NewlyReady(t, N, R)
           b == [n \in circuit.nodes |-> t.is_ready[n] \/ n \in Q]
           r == [t EXCEPT !.is_ready = b]
           S == {n \in Q : r.unsatisfied_dependencies[n] = 0 /\ ~r.scheduled[n]}
<1>1. /\ b \in [circuit.nodes -> BOOLEAN]
      /\ \A n \in circuit.nodes : b[n] <=> t.is_ready[n] \/ n \in N \cap R
  BY Zenon DEF NewlyReady
<1>2. p = Push(r, S)
  BY Zenon DEF ProcessNotifications, TaskTables
<1> HIDE DEF b
<1>3. /\ r \in TaskTables /\ r.unsatisfied_dependencies = t.unsatisfied_dependencies
      /\ r.is_ready = b /\ r.runnable = t.runnable /\ r.scheduled = t.scheduled
  BY Zenon, <1>1 DEF TaskTables
<1> HIDE DEF r
<1>4. /\ S \in SUBSET circuit.nodes
      /\ \A n \in S : t.unsatisfied_dependencies[n] = 0 /\ ~t.scheduled[n] /\ n \in N \cap R
  BY Zenon, <1>3 DEF NewlyReady
<1> HIDE DEF S
<1>5. /\ p \in TaskTables /\ p.unsatisfied_dependencies = t.unsatisfied_dependencies
      /\ p.is_ready = b /\ p.runnable = t.runnable \cup S
      /\ \A n \in circuit.nodes : p.scheduled[n] <=> t.scheduled[n] \/ n \in S
  BY <1>2, <1>3, <1>4, PushFields
<1> QED
  BY Zenon, <1>1, <1>4, <1>5

LEMMA DoneFields ==
    ASSUME NEW t \in TaskTables, NEW n \in circuit.nodes, NEW p, p = TaskDone(g, t, n)
    PROVE  /\ p \in TaskTables
           /\ p.unsatisfied_dependencies = t.unsatisfied_dependencies
           /\ p.scheduled = t.scheduled /\ p.runnable = t.runnable
           /\ \A m \in circuit.nodes : p.is_ready[m] => t.is_ready[m]
           /\ n \in circuit.async => ~p.is_ready[n]
           /\ \A m \in circuit.nodes : n \notin circuit.async \/ m # n =>
                                         p.is_ready[m] = t.is_ready[m]
<1>1. CASE n \in circuit.async
  <2> DEFINE b == [t.is_ready EXCEPT ![n] = FALSE]
  <2>1. p = [t EXCEPT !.is_ready = b]
    BY Zenon, <1>1, GraphFields DEF TaskDone
  <2>2. b \in [circuit.nodes -> BOOLEAN]
    BY Zenon DEF TaskTables
  <2>3. ~b[n] /\ \A m \in circuit.nodes : m # n => b[m] = t.is_ready[m]
    BY Zenon DEF TaskTables
  <2> HIDE DEF b
  <2>4. /\ p \in TaskTables /\ p.unsatisfied_dependencies = t.unsatisfied_dependencies
        /\ p.scheduled = t.scheduled /\ p.runnable = t.runnable /\ p.is_ready = b
    BY Zenon, <2>1, <2>2 DEF TaskTables
  <2> QED
    BY Zenon, <1>1, <2>3, <2>4
<1>2. CASE n \notin circuit.async
  BY Zenon, <1>2, GraphFields DEF TaskDone
<1> QED
  BY Zenon, <1>1, <1>2

-----------------------------------------------------------------------------
(* The task table through a cycle. *)

LEMMA StartConsistent ==
    ASSUME circuit \in Circuits, NEW t \in TaskTables, t.runnable = {},
           NEW p, p = StartCycle(g, t)
    PROVE  Consistent(p, {}) /\ p.is_ready = t.is_ready
<1> DEFINE S == {n \in circuit.nodes : num_predecessors(g, n) = 0 /\ t.is_ready[n]}
<1>1. /\ p \in TaskTables /\ p.is_ready = t.is_ready /\ p.runnable = S
      /\ \A n \in circuit.nodes : /\ p.unsatisfied_dependencies[n] = num_predecessors(g, n)
                                  /\ p.scheduled[n] <=> n \in S
  <2>1. S = {n \in circuit.nodes : num_predecessors(g, n) = 0 /\ t.is_ready[n]}
    BY Zenon
  <2> HIDE DEF S
  <2> QED
    BY <2>1, StartFields
<1>2. ASSUME NEW n \in circuit.nodes PROVE Queued(p, {}, n)
  <2>1. Pending({}, n) = Incoming(g, n)
    BY Zenon DEF Pending
  <2> QED
    BY Zenon, <1>1, <2>1 DEF Queued, num_predecessors
<1> QED
  BY Zenon, <1>1, <1>2 DEF Consistent

LEMMA DequeueConsistent ==
    ASSUME circuit \in Circuits, NEW t, NEW D, Consistent(t, D), NEW n \in t.runnable,
           NEW p, p = Dequeue(g, t, n)
    PROVE  /\ n \in circuit.nodes /\ n \notin D /\ t.is_ready[n]
           /\ DequeueAsserts(g, t, n)
           /\ Consistent(p, D \cup {n}) /\ p.is_ready = t.is_ready
<1>1. t \in TaskTables /\ n \in circuit.nodes /\ \A s \in circuit.nodes : Queued(t, D, s)
  BY Zenon DEF Consistent, TaskTables
<1>2. n \notin D /\ t.is_ready[n] /\ t.scheduled[n]
  BY Zenon, <1>1 DEF Queued
<1>3. ASSUME NEW s
      PROVE  /\ Cardinality(Pending(D, s)) \in Nat /\ Multiplicity(g, n, s) \in Nat
             /\ Multiplicity(g, n, s) <= Cardinality(Pending(D, s))
             /\ Cardinality(Pending(D \cup {n}, s)) =
                  Cardinality(Pending(D, s)) - Multiplicity(g, n, s)
  <2> DEFINE M == {e \in Outgoing(g, n) : e.to = s}
  <2>1. M \in SUBSET Pending(D, s) /\ Pending(D \cup {n}, s) = Pending(D, s) \ M
    BY Zenon, <1>2 DEF Pending, Incoming, Outgoing
  <2>2. Multiplicity(g, n, s) = Cardinality(M) /\ IsFiniteSet(Pending(D, s))
    BY Zenon, PendingCount DEF Multiplicity
  <2> HIDE DEF M
  <2> QED
    BY Zenon, <2>1, <2>2, Removed
<1>4. DequeueAsserts(g, t, n)
  <2>1. \A s \in circuit.nodes : Multiplicity(g, n, s) <= t.unsatisfied_dependencies[s]
    BY Zenon, <1>1, <1>3 DEF Queued
  <2>2. \A s \in Released(g, t, n) : ~t.scheduled[s]
    BY <1>1, GraphFields DEF Released, Queued
  <2> QED
    BY Zenon, <2>1, <2>2, GraphFields DEF DequeueAsserts
<1>5. /\ p \in TaskTables /\ p.is_ready = t.is_ready
      /\ p.runnable = (t.runnable \ {n}) \cup Released(g, t, n)
      /\ \A s \in circuit.nodes :
           /\ p.unsatisfied_dependencies[s] = t.unsatisfied_dependencies[s] - Multiplicity(g, n, s)
           /\ p.scheduled[s] <=> t.scheduled[s] \/ s \in Released(g, t, n)
  BY <1>1, <1>3, DequeueFields
<1>6. ASSUME NEW s \in circuit.nodes PROVE Queued(p, D \cup {n}, s)
  <2>1. p.unsatisfied_dependencies[s] = Cardinality(Pending(D \cup {n}, s))
    BY Zenon, <1>1, <1>3, <1>5 DEF Queued
  <2>2. s \in Released(g, t, n) =>
          /\ t.unsatisfied_dependencies[s] # 0 /\ t.is_ready[s]
          /\ t.unsatisfied_dependencies[s] = Multiplicity(g, n, s)
    BY <1>3 DEF Released
  <2>3. Queued(t, D, s)
    BY Zenon, <1>1
  <2>4. t.unsatisfied_dependencies[s] = 0 => p.unsatisfied_dependencies[s] = 0
    <3>1. /\ t.unsatisfied_dependencies[s] = Cardinality(Pending(D, s))
          /\ p.unsatisfied_dependencies[s] =
               t.unsatisfied_dependencies[s] - Multiplicity(g, n, s)
      BY Zenon, <1>5, <2>3 DEF Queued
    <3>2. /\ Multiplicity(g, n, s) \in Nat /\ Cardinality(Pending(D, s)) \in Nat
          /\ Multiplicity(g, n, s) <= Cardinality(Pending(D, s))
      BY Zenon, <1>3
    <3> QED
      BY <3>1, <3>2
  <2>5. p.scheduled[s] => p.unsatisfied_dependencies[s] = 0
    BY <1>3, <1>5, <2>2, <2>3, <2>4 DEF Queued
  <2>6. s \in p.runnable => p.is_ready[s] /\ p.scheduled[s] /\ s \notin D \cup {n}
    BY Zenon, <1>1, <1>2, <1>5, <2>2, <2>3 DEF Queued
  <2>7. s \in D \cup {n} => p.scheduled[s]
    BY Zenon, <1>2, <1>5, <2>3 DEF Queued
  <2> QED
    BY Zenon, <2>1, <2>5, <2>6, <2>7 DEF Queued
<1> QED
  BY Zenon, <1>1, <1>2, <1>4, <1>5, <1>6 DEF Consistent

LEMMA NotifyConsistent ==
    ASSUME circuit \in Circuits, NEW t, NEW D, Consistent(t, D), t.runnable = {},
           NEW N, NEW R, N \subseteq circuit.nodes, NEW p, p = ProcessNotifications(t, N, R)
    PROVE  /\ Consistent(p, D)
           /\ \A n \in circuit.nodes : p.is_ready[n] <=> t.is_ready[n] \/ n \in N \cap R
<1>1. t \in TaskTables /\ \A n \in circuit.nodes : Queued(t, D, n)
  BY Zenon DEF Consistent
<1>2. /\ p \in TaskTables
      /\ p.unsatisfied_dependencies = t.unsatisfied_dependencies
      /\ \A n \in circuit.nodes : p.is_ready[n] <=> t.is_ready[n] \/ n \in N \cap R
  BY <1>1, NotifyFields
<1>3. PICK S \in SUBSET circuit.nodes :
        /\ \A n \in S : /\ t.unsatisfied_dependencies[n] = 0
                        /\ ~t.scheduled[n] /\ n \in N \cap R
        /\ p.runnable = t.runnable \cup S
        /\ \A n \in circuit.nodes : p.scheduled[n] <=> t.scheduled[n] \/ n \in S
  BY <1>1, NotifyFields
<1>4. ASSUME NEW n \in circuit.nodes PROVE Queued(p, D, n)
  BY Zenon, <1>1, <1>2, <1>3 DEF Queued
<1> QED
  BY Zenon, <1>2, <1>4 DEF Consistent

LEMMA DoneConsistent ==
    ASSUME NEW t, NEW D, Consistent(t, D), NEW n \in D, n \in circuit.nodes,
           NEW p, p = TaskDone(g, t, n)
    PROVE  /\ Consistent(p, D)
           /\ \A m \in circuit.nodes : p.is_ready[m] => t.is_ready[m]
           /\ n \in circuit.async => ~p.is_ready[n]
<1>1. t \in TaskTables /\ \A m \in circuit.nodes : Queued(t, D, m)
  BY Zenon DEF Consistent
<1>2. /\ p \in TaskTables
      /\ p.unsatisfied_dependencies = t.unsatisfied_dependencies
      /\ p.scheduled = t.scheduled /\ p.runnable = t.runnable
      /\ \A m \in circuit.nodes : p.is_ready[m] => t.is_ready[m]
      /\ n \in circuit.async => ~p.is_ready[n]
      /\ \A m \in circuit.nodes : n \notin circuit.async \/ m # n =>
                                    p.is_ready[m] = t.is_ready[m]
  BY <1>1, DoneFields
<1>3. ASSUME NEW m \in circuit.nodes PROVE Queued(p, D, m)
  BY <1>1, <1>2 DEF Queued
<1> QED
  BY Zenon, <1>2, <1>3 DEF Consistent

-----------------------------------------------------------------------------
(* The steps.  A step of worker w leaves the other workers' threads alone. *)

Others(w) ==
    \A v \in Workers : v # w => /\ tasks'[v] = tasks[v] /\ pc'[v] = pc[v]
                                /\ current'[v] = current[v] /\ evaluated'[v] = evaluated[v]
                                /\ steps'[v] = steps[v]

LEMMA ExchangeNodes ==
    ASSUME circuit \in Circuits
    PROVE  /\ circuit.async \subseteq circuit.nodes
           /\ \A x \in Exchanges : /\ circuit.sender[x] \in circuit.async
                                   /\ circuit.receiver[x] \in circuit.async
           /\ \A x, y \in Exchanges : /\ circuit.sender[x] # circuit.receiver[y]
                                      /\ circuit.sender[x] = circuit.sender[y] => x = y
                                      /\ circuit.receiver[x] = circuit.receiver[y] => x = y
  BY Zenon, CircuitsAssumption DEF Exchanges

LEMMA ConsistentNext ==
    ASSUME UNCHANGED circuit, NEW w, NEW t, NEW D, Consistent(t, D),
           tasks'[w] = t, evaluated'[w] \cup current'[w] = D
    PROVE  Consistent(tasks[w], evaluated[w] \cup current[w])'
<1>1. g' = g /\ TaskTables' = TaskTables
  BY Zenon DEF g, TaskTables
<1>2. ASSUME NEW n PROVE Pending(evaluated[w] \cup current[w], n)' = Pending(D, n)
  BY Zenon, <1>1 DEF Pending, Incoming
<1>3. ASSUME NEW n, Queued(t, D, n)
      PROVE  Queued(tasks[w], evaluated[w] \cup current[w], n)'
  BY Zenon, <1>2, <1>3 DEF Queued
<1> QED
  BY Zenon, <1>1, <1>3 DEF Consistent

LEMMA OtherWorker ==
    ASSUME WorkersInv, UNCHANGED circuit, NEW w \in Workers, Others(w),
           NEW v \in Workers, v # w
    PROVE  /\ Scheduling(v)'
           /\ \A n : Acts(v, n)' = Acts(v, n)
<1>1. /\ tasks'[v] = tasks[v] /\ pc'[v] = pc[v] /\ current'[v] = current[v]
      /\ evaluated'[v] = evaluated[v] /\ steps'[v] = steps[v] /\ circuit' = circuit
      /\ Scheduling(v)
  BY Zenon DEF Others, WorkersInv
<1>2. Scheduling(v)'
  <2>1. Consistent(tasks[v], evaluated[v] \cup current[v]) =>
          Consistent(tasks[v], evaluated[v] \cup current[v])'
    BY Zenon, <1>1, ConsistentNext
  <2> QED
    BY Zenon, <1>1, <2>1 DEF Scheduling
<1>3. \A n : Acts(v, n)' = Acts(v, n)
  BY Zenon, <1>1 DEF Acts, Acted, InCycle
<1> QED
  BY Zenon, <1>2, <1>3

(* The steps that do not touch a mailbox. *)
LEMMA LocalStep ==
    ASSUME WorkersInv, UNCHANGED <<circuit, mailboxes>>, NEW w \in Workers, Others(w),
           TypeInv', Scheduling(w)',
           \A n \in circuit.async : Acts(w, n)' = Acts(w, n),
           \A x \in Exchanges : Known(w, x)'
    PROVE  WorkersInv'
<1>1. circuit \in Circuits /\ Exchanges' = Exchanges
  BY Zenon DEF WorkersInv, TypeInv, Exchanges
<1>2. ASSUME NEW v \in Workers PROVE Scheduling(v)'
  BY Zenon, OtherWorker
<1>3. ASSUME NEW v \in Workers, NEW n \in circuit.async PROVE Acts(v, n)' = Acts(v, n)
  BY Zenon, OtherWorker
<1>4. ASSUME NEW x \in Exchanges, NEW s \in Workers, NEW r \in Workers PROVE Box(x, s, r)'
  <2>1. Sent(s, x)' = Sent(s, x) /\ Taken(r, x)' = Taken(r, x)
    BY Zenon, <1>1, <1>3, ExchangeNodes DEF Sent, Taken
  <2>2. Box(x, s, r)
    BY Zenon DEF WorkersInv
  <2> QED
    BY Zenon, <2>1, <2>2 DEF Box
<1>5. ASSUME NEW v \in Workers, NEW x \in Exchanges PROVE Known(v, x)'
  <2>1. CASE v # w
    <3>1. /\ tasks'[v] = tasks[v] /\ pc'[v] = pc[v] /\ current'[v] = current[v] /\ Known(v, x)
      BY Zenon, <2>1 DEF Others, WorkersInv
    <3> QED
      BY Zenon, <3>1 DEF Known, ready_to_send, ready_to_receive
  <2> QED
    BY Zenon, <2>1
<1> QED
  BY Zenon, <1>1, <1>2, <1>4, <1>5 DEF WorkersInv

LEMMA PrepareStep ==
    ASSUME WorkersInv, NEW w \in Workers, prepare(w) PROVE WorkersInv'
<1> USE DEF WorkersInv
<1>1. /\ pc[w] = "prepare" /\ pc' = [pc EXCEPT ![w] = "stepped"]
      /\ UNCHANGED <<circuit, tasks, current, evaluated, steps, mailboxes, calls>>
  BY Zenon DEF prepare, Goto
<1>2. TypeInv'
  <2>1. nodes' \in [Workers -> SUBSET circuit.async]
    BY Zenon DEF prepare, TypeInv
  <2> QED
    BY Zenon, <1>1, <2>1 DEF prepare, TypeInv, TaskTables, Exchanges
<1>3. Scheduling(w)'
  BY Zenon, <1>1 DEF Scheduling, TypeInv
<1>4. \A n : Acts(w, n)' = Acts(w, n)
  BY Zenon, <1>1 DEF Acts, Acted, InCycle, TypeInv
<1>5. ASSUME NEW x \in Exchanges PROVE Known(w, x)'
  BY Zenon, <1>1 DEF Known, ready_to_send, ready_to_receive, TypeInv
<1>6. Others(w)
  BY Zenon, <1>1 DEF Others, TypeInv
<1> QED
  BY Zenon, <1>1, <1>2, <1>3, <1>4, <1>5, <1>6, LocalStep

LEMMA StepStartStep ==
    ASSUME WorkersInv, NEW w \in Workers, StepStart(w) PROVE WorkersInv'
<1> USE DEF WorkersInv
<1>1. /\ pc[w] = "stepped" /\ pc' = [pc EXCEPT ![w] = "loop"]
      /\ tasks' = [tasks EXCEPT ![w] = StartCycle(g, tasks[w])]
      /\ evaluated' = [evaluated EXCEPT ![w] = {}]
      /\ UNCHANGED <<circuit, nodes, current, steps, prepared, mailboxes, calls>>
  BY Zenon DEF StepStart, Goto
<1>2. circuit \in Circuits /\ tasks[w] \in TaskTables /\ tasks[w].runnable = {} /\ current[w] = {}
  BY Zenon, <1>1 DEF TypeInv, Scheduling
<1> DEFINE p == StartCycle(g, tasks[w])
<1>3. Consistent(p, {}) /\ p.is_ready = tasks[w].is_ready
  <2>1. p = StartCycle(g, tasks[w])
    BY Zenon
  <2> HIDE DEF p, WorkersInv
  <2> QED
    BY Zenon, <1>2, <2>1, StartConsistent
<1> HIDE DEF p
<1>4. /\ tasks' = [tasks EXCEPT ![w] = p] /\ tasks'[w] = p /\ pc'[w] = "loop"
      /\ evaluated'[w] = {}
  BY Zenon, <1>1 DEF p, TypeInv
<1>5. TypeInv'
  <2>1. tasks' \in [Workers -> TaskTables]
    BY Zenon, <1>3, <1>4 DEF TypeInv, Consistent
  <2> QED
    BY Zenon, <1>1, <2>1 DEF TypeInv, TaskTables, Exchanges
<1>6. Scheduling(w)'
  <2>1. Consistent(tasks[w], evaluated[w] \cup current[w])'
    BY Zenon, <1>1, <1>2, <1>3, <1>4, ConsistentNext
  <2> QED
    BY Zenon, <1>1, <1>2, <1>4, <2>1 DEF Scheduling
<1>7. \A n : Acts(w, n)' = Acts(w, n)
  BY Zenon, <1>1, <1>4 DEF Acts, Acted, InCycle, TypeInv
<1>8. ASSUME NEW x \in Exchanges PROVE Known(w, x)'
  <2>1. /\ tasks'[w].is_ready = tasks[w].is_ready /\ circuit' = circuit /\ pc[w] # "calls"
        /\ mailboxes' = mailboxes /\ Known(w, x)
    BY Zenon, <1>1, <1>3, <1>4
  <2> HIDE DEF WorkersInv
  <2> QED
    BY Zenon, <2>1 DEF Known, ready_to_send, ready_to_receive
<1>9. Others(w)
  BY Zenon, <1>1 DEF Others, TypeInv
<1> QED
  BY Zenon, <1>1, <1>5, <1>6, <1>7, <1>8, <1>9, LocalStep

LEMMA DequeueStep ==
    ASSUME WorkersInv, NEW w \in Workers, NEW n \in circuit.nodes, dequeue_next_task(w, n)
    PROVE  WorkersInv'
<1> USE DEF WorkersInv
<1>1. /\ pc[w] = "loop" /\ n \in tasks[w].runnable
      /\ pc' = [pc EXCEPT ![w] = IF DequeueAsserts(g, tasks[w], n) THEN "eval" ELSE "panicked"]
      /\ tasks' = [tasks EXCEPT ![w] = Dequeue(g, tasks[w], n)]
      /\ current' = [current EXCEPT ![w] = {n}]
      /\ UNCHANGED <<circuit, nodes, evaluated, steps, prepared, mailboxes, calls>>
  BY Zenon DEF dequeue_next_task, Goto, NextTasks
<1>2. circuit \in Circuits /\ current[w] = {} /\ Consistent(tasks[w], evaluated[w])
  <2>1. current[w] = {} /\ Consistent(tasks[w], evaluated[w] \cup current[w])
    BY Zenon, <1>1 DEF Scheduling
  <2>2. evaluated[w] \cup current[w] = evaluated[w]
    BY Zenon, <2>1
  <2> QED
    BY Zenon, <2>1, <2>2 DEF TypeInv
<1> DEFINE p == Dequeue(g, tasks[w], n)
<1>3. /\ n \notin evaluated[w] /\ tasks[w].is_ready[n] /\ DequeueAsserts(g, tasks[w], n)
      /\ Consistent(p, evaluated[w] \cup {n}) /\ p.is_ready = tasks[w].is_ready
  <2>1. p = Dequeue(g, tasks[w], n)
    BY Zenon
  <2>2. n \in tasks[w].runnable
    BY Zenon, <1>1
  <2> HIDE DEF p, WorkersInv
  <2> QED
    BY <1>2, <2>1, <2>2, DequeueConsistent
<1> HIDE DEF p
<1>4. /\ tasks' = [tasks EXCEPT ![w] = p] /\ tasks'[w] = p
      /\ pc' = [pc EXCEPT ![w] = "eval"] /\ pc'[w] = "eval" /\ current'[w] = {n}
  BY Zenon, <1>1, <1>3 DEF p, TypeInv
<1>5. TypeInv'
  <2>1. tasks' \in [Workers -> TaskTables]
    BY Zenon, <1>3, <1>4 DEF TypeInv, Consistent
  <2> QED
    BY <1>1, <1>4, <2>1 DEF TypeInv, TaskTables, Exchanges
<1>6. Scheduling(w)'
  <2>1. Consistent(tasks[w], evaluated[w] \cup current[w])'
    BY Zenon, <1>1, <1>3, <1>4, ConsistentNext
  <2> QED
    BY Zenon, <1>1, <1>3, <1>4, <2>1 DEF Scheduling
<1>7. \A m : Acts(w, m)' = Acts(w, m)
  BY Zenon, <1>1, <1>4 DEF Acts, Acted, InCycle, TypeInv
<1>8. ASSUME NEW x \in Exchanges PROVE Known(w, x)'
  <2>1. /\ tasks'[w].is_ready = tasks[w].is_ready /\ circuit' = circuit /\ pc[w] # "calls"
        /\ mailboxes' = mailboxes /\ Known(w, x)
    BY Zenon, <1>1, <1>3, <1>4
  <2> HIDE DEF WorkersInv
  <2> QED
    BY Zenon, <2>1 DEF Known, ready_to_send, ready_to_receive
<1>9. Others(w)
  BY Zenon, <1>1 DEF Others, TypeInv
<1> QED
  BY Zenon, <1>1, <1>5, <1>6, <1>7, <1>8, <1>9, LocalStep

LEMMA NotificationsStep ==
    ASSUME WorkersInv, NEW w \in Workers, process_notifications(w) PROVE WorkersInv'
<1> USE DEF WorkersInv
<1> DEFINE R == {n \in nodes[w] : Ready(w, n)}
           p == ProcessNotifications(tasks[w], nodes[w], R)
<1>1. /\ pc[w] = "loop" /\ tasks[w].runnable = {}
      /\ pc' = [pc EXCEPT ![w] = IF p.runnable = {} THEN "park" ELSE "loop"]
      /\ tasks' = [tasks EXCEPT ![w] = p]
      /\ nodes' = [nodes EXCEPT ![w] = {}]
      /\ UNCHANGED <<circuit, current, evaluated, steps, prepared, mailboxes, calls>>
  BY Zenon DEF process_notifications, Goto
<1>2. /\ circuit \in Circuits /\ current[w] = {}
      /\ Consistent(tasks[w], evaluated[w] \cup current[w])
      /\ nodes[w] \subseteq circuit.nodes
  BY Zenon, <1>1, ExchangeNodes DEF Scheduling, TypeInv
<1>3. /\ Consistent(p, evaluated[w] \cup current[w])
      /\ \A n \in circuit.nodes : p.is_ready[n] <=> tasks[w].is_ready[n] \/ n \in nodes[w] \cap R
  <2>1. p = ProcessNotifications(tasks[w], nodes[w], R) /\ tasks[w].runnable = {}
    BY Zenon, <1>1
  <2> HIDE DEF p, R, WorkersInv
  <2> QED
    BY <1>2, <2>1, NotifyConsistent
<1>4. \A n \in R : Ready(w, n)
  BY Zenon
<1> HIDE DEF p, R
<1>5. tasks'[w] = p /\ pc'[w] \in {"loop", "park"}
  BY Zenon, <1>1 DEF TypeInv
<1>6. TypeInv'
  <2>1. tasks' \in [Workers -> TaskTables]
    BY Zenon, <1>1, <1>3 DEF TypeInv, Consistent
  <2> QED
    BY Zenon, <1>1, <2>1 DEF TypeInv, TaskTables, Exchanges
<1>7. Scheduling(w)'
  <2>1. Consistent(tasks[w], evaluated[w] \cup current[w])'
    BY Zenon, <1>1, <1>3, <1>5, ConsistentNext
  <2> QED
    BY Zenon, <1>1, <1>2, <1>5, <2>1 DEF Scheduling
<1>8. \A n : Acts(w, n)' = Acts(w, n)
  BY Zenon, <1>1, <1>5 DEF Acts, Acted, InCycle
<1>9. ASSUME NEW x \in Exchanges PROVE Known(w, x)'
  <2>1. Known(w, x) /\ pc[w] # "calls"
    BY Zenon, <1>1
  <2>2. circuit.sender[x] \in R => ready_to_send(x, w)
    BY Zenon, <1>2, <1>4, ExchangeNodes DEF Ready
  <2>3. circuit.receiver[x] \in R => ready_to_receive(x, w)
    BY SMTT(30), <1>2, <1>4, ExchangeNodes DEF Ready
  <2>4. /\ tasks'[w].is_ready[circuit.sender[x]] => ready_to_send(x, w)
        /\ tasks'[w].is_ready[circuit.receiver[x]] => ready_to_receive(x, w)
    BY Zenon, <1>2, <1>3, <1>5, <2>1, <2>2, <2>3, ExchangeNodes DEF Known
  <2> QED
    BY Zenon, <1>1, <2>4 DEF Known, ready_to_send, ready_to_receive
<1>10. Others(w)
  BY Zenon, <1>1 DEF Others, TypeInv
<1> QED
  BY Zenon, <1>1, <1>6, <1>7, <1>8, <1>9, <1>10, LocalStep

LEMMA ParkStep ==
    ASSUME WorkersInv, NEW w \in Workers, park(w) PROVE WorkersInv'
<1> USE DEF WorkersInv
<1>1. /\ pc[w] = "park" /\ pc' = [pc EXCEPT ![w] = "loop"]
      /\ UNCHANGED <<circuit, tasks, nodes, current, evaluated, steps, prepared, mailboxes, calls>>
  BY Zenon DEF park, Goto
<1>2. TypeInv'
  BY Zenon, <1>1 DEF TypeInv, TaskTables, Exchanges
<1>3. Scheduling(w)'
  <2>1. Consistent(tasks[w], evaluated[w] \cup current[w])'
    BY Zenon, <1>1, ConsistentNext DEF Scheduling
  <2> QED
    BY Zenon, <1>1, <2>1 DEF Scheduling, TypeInv
<1>4. \A n : Acts(w, n)' = Acts(w, n)
  BY Zenon, <1>1 DEF Acts, Acted, InCycle, TypeInv
<1>5. ASSUME NEW x \in Exchanges PROVE Known(w, x)'
  BY Zenon, <1>1 DEF Known, ready_to_send, ready_to_receive, TypeInv
<1>6. Others(w)
  BY Zenon, <1>1 DEF Others, TypeInv
<1> QED
  BY Zenon, <1>1, <1>2, <1>3, <1>4, <1>5, <1>6, LocalStep

LEMMA CallbackStep ==
    ASSUME WorkersInv, NEW w \in Workers, NEW c \in calls[w], Callback(w, c) PROVE WorkersInv'
<1> USE DEF WorkersInv
<1>1. /\ calls' = [calls EXCEPT ![w] = @ \ {c}]
      /\ nodes' = IF c[1] \in prepared THEN [nodes EXCEPT ![c[1]] = @ \cup {c[2]}] ELSE nodes
      /\ UNCHANGED <<circuit, tasks, pc, current, evaluated, steps, prepared, mailboxes>>
  BY Zenon DEF Callback
<1>2. c[1] \in Workers /\ c[2] \in circuit.async
  BY DEF TypeInv
<1>3. TypeInv'
  <2>1. nodes' \in [Workers -> SUBSET circuit.async]
    BY Zenon, <1>1, <1>2 DEF TypeInv
  <2>2. calls' \in [Workers -> SUBSET (Workers \X circuit.async)]
    BY Zenon, <1>1 DEF TypeInv
  <2> QED
    BY Zenon, <1>1, <2>1, <2>2 DEF TypeInv, TaskTables, Exchanges
<1>4. Scheduling(w)'
  <2>1. Consistent(tasks[w], evaluated[w] \cup current[w]) =>
          Consistent(tasks[w], evaluated[w] \cup current[w])'
    BY Zenon, <1>1, ConsistentNext
  <2> QED
    BY Zenon, <1>1, <2>1 DEF Scheduling
<1>5. \A n : Acts(w, n)' = Acts(w, n)
  BY Zenon, <1>1 DEF Acts, Acted, InCycle
<1>6. ASSUME NEW x \in Exchanges PROVE Known(w, x)'
  BY <1>1 DEF Known, ready_to_send, ready_to_receive
<1>7. Others(w)
  BY Zenon, <1>1 DEF Others
<1> QED
  BY Zenon, <1>1, <1>3, <1>4, <1>5, <1>6, <1>7, LocalStep

LEMMA CompletedStep ==
    ASSUME WorkersInv, NEW w \in Workers, Completed(w) PROVE WorkersInv'
<1> USE DEF WorkersInv
<1>1. PICK n \in circuit.nodes : pc[w] = "calls" /\ current[w] = {n} /\ n \notin evaluated[w]
  BY Zenon DEF Completed, Goto, Scheduling
<1> DEFINE p == TaskDone(g, tasks[w], n)
<1>2. /\ pc' = [pc EXCEPT ![w] = "loop"]
      /\ evaluated' = [evaluated EXCEPT ![w] = @ \cup current[w]]
      /\ tasks' = [tasks EXCEPT ![w] = p]
      /\ current' = [current EXCEPT ![w] = {}]
      /\ UNCHANGED <<circuit, nodes, steps, prepared, mailboxes, calls>>
  BY Zenon, <1>1 DEF Completed, Goto
<1>3. circuit \in Circuits /\ Consistent(tasks[w], evaluated[w] \cup current[w])
  BY Zenon, <1>1 DEF Scheduling, TypeInv
<1>4. /\ Consistent(p, evaluated[w] \cup current[w])
      /\ \A m \in circuit.nodes : p.is_ready[m] => tasks[w].is_ready[m]
      /\ n \in circuit.async => ~p.is_ready[n]
  <2>1. p = TaskDone(g, tasks[w], n) /\ n \in evaluated[w] \cup current[w]
    BY Zenon, <1>1
  <2> HIDE DEF p, WorkersInv
  <2> QED
    BY <1>3, <2>1, DoneConsistent
<1> HIDE DEF p
<1>5. /\ tasks'[w] = p /\ pc'[w] = "loop" /\ current'[w] = {}
      /\ evaluated'[w] = evaluated[w] \cup current[w]
  BY Zenon, <1>2 DEF TypeInv
<1>6. TypeInv'
  <2>1. tasks' \in [Workers -> TaskTables]
    BY Zenon, <1>2, <1>4 DEF TypeInv, Consistent
  <2> QED
    BY Zenon, <1>2, <2>1 DEF TypeInv, TaskTables, Exchanges
<1>7. Scheduling(w)'
  <2>1. Consistent(tasks[w], evaluated[w] \cup current[w])'
    BY Zenon, <1>2, <1>4, <1>5, ConsistentNext
  <2> QED
    BY Zenon, <1>2, <1>5, <2>1 DEF Scheduling
<1>8. \A m : Acts(w, m)' = Acts(w, m)
  BY Zenon, <1>1, <1>2, <1>5 DEF Acts, Acted, InCycle
<1>9. ASSUME NEW x \in Exchanges PROVE Known(w, x)'
  <2>1. Known(w, x)
    BY Zenon
  <2>2. /\ tasks'[w].is_ready[circuit.sender[x]] => ready_to_send(x, w)
        /\ tasks'[w].is_ready[circuit.receiver[x]] => ready_to_receive(x, w)
    BY SMTT(30), <1>1, <1>3, <1>4, <1>5, <2>1, ExchangeNodes DEF Known
  <2> QED
    BY Zenon, <1>2, <2>2 DEF Known, ready_to_send, ready_to_receive
<1>10. Others(w)
  BY Zenon, <1>2 DEF Others, TypeInv
<1> QED
  BY Zenon, <1>2, <1>6, <1>7, <1>8, <1>9, <1>10, LocalStep

LEMMA StepEndStep ==
    ASSUME WorkersInv, NEW w \in Workers, StepEnd(w) PROVE WorkersInv'
<1> USE DEF WorkersInv
<1>1. /\ evaluated[w] = circuit.nodes
      /\ pc[w] = "loop" /\ pc' = [pc EXCEPT ![w] = "stepped"]
      /\ steps' = [steps EXCEPT ![w] = @ + 1]
      /\ UNCHANGED <<circuit, tasks, nodes, current, evaluated, prepared, mailboxes, calls>>
  BY Zenon DEF StepEnd, Goto
<1>2. pc'[w] = "stepped" /\ steps'[w] = steps[w] + 1 /\ steps[w] \in Nat
  BY Zenon, <1>1 DEF TypeInv
<1>3. TypeInv'
  BY <1>1 DEF TypeInv, TaskTables, Exchanges
<1>4. tasks[w].runnable = {} /\ current[w] = {}
  BY Zenon, <1>1 DEF Scheduling, Consistent, Queued, TaskTables
<1>5. Scheduling(w)'
  BY Zenon, <1>1, <1>2, <1>4 DEF Scheduling
<1>6. ASSUME NEW n \in circuit.async PROVE Acts(w, n)' = Acts(w, n)
  <2>1. n \in evaluated[w]
    BY Zenon, <1>1, ExchangeNodes DEF TypeInv
  <2> QED
    BY <1>1, <1>2, <2>1 DEF Acts, Acted, InCycle
<1>7. ASSUME NEW x \in Exchanges PROVE Known(w, x)'
  BY Zenon, <1>1, <1>2 DEF Known, ready_to_send, ready_to_receive
<1>8. Others(w)
  BY Zenon, <1>1 DEF Others, TypeInv
<1> QED
  BY Zenon, <1>1, <1>3, <1>5, <1>6, <1>7, <1>8, LocalStep

-----------------------------------------------------------------------------
(* eval_node. *)

(* The evaluation of node n counts as an act of n, and of no other node. *)
LEMMA EvalActs ==
    ASSUME WorkersInv, NEW w \in Workers, NEW n, current[w] = {n}, pc[w] = "eval",
           pc' = [pc EXCEPT ![w] = "calls"], UNCHANGED <<circuit, tasks, current, evaluated, steps>>
    PROVE  /\ Others(w) /\ Scheduling(w)' /\ pc'[w] = "calls" /\ current'[w] = {n}
           /\ Acts(w, n) = steps[w] /\ Acts(w, n)' = steps[w] + 1 /\ steps[w] \in Nat
           /\ \A m : m # n => Acts(w, m)' = Acts(w, m)
<1> USE DEF WorkersInv
<1>1. pc'[w] = "calls" /\ n \notin evaluated[w] /\ steps[w] \in Nat
  <2>1. PICK m : current[w] = {m} /\ m \notin evaluated[w]
    BY Zenon DEF Scheduling
  <2>2. m = n
    BY Zenon, <2>1
  <2> QED
    BY Zenon, <2>1, <2>2 DEF TypeInv
<1>2. Others(w)
  BY Zenon DEF Others, TypeInv
<1>3. Scheduling(w)'
  <2>1. Consistent(tasks[w], evaluated[w] \cup current[w])'
    BY Zenon, ConsistentNext DEF Scheduling
  <2> QED
    BY Zenon, <1>1, <2>1 DEF Scheduling
<1>4. /\ Acts(w, n) = steps[w] /\ Acts(w, n)' = steps[w] + 1
      /\ \A m : m # n => Acts(w, m)' = Acts(w, m)
  BY <1>1 DEF Acts, Acted, InCycle
<1> QED
  BY Zenon, <1>1, <1>2, <1>3, <1>4

LEMMA EvalLocalStep ==
    ASSUME WorkersInv, NEW w \in Workers, EvalLocal(w),
           UNCHANGED <<circuit, tasks, nodes, token, current, evaluated, steps, prepared>>
    PROVE  WorkersInv'
<1> USE DEF WorkersInv
<1>1. /\ pc[w] = "eval" /\ pc' = [pc EXCEPT ![w] = "calls"] /\ UNCHANGED <<mailboxes, calls>>
      /\ current[w] \cap circuit.async = {}
  BY Zenon DEF EvalLocal, Goto
<1>2. PICK n : current[w] = {n}
  BY Zenon, <1>1 DEF Scheduling
<1>3. /\ Others(w) /\ Scheduling(w)'
      /\ \A m \in circuit.async : Acts(w, m)' = Acts(w, m)
  BY Zenon, <1>1, <1>2, EvalActs
<1>4. TypeInv'
  BY Zenon, <1>1 DEF TypeInv, TaskTables, Exchanges
<1>5. ASSUME NEW x \in Exchanges PROVE Known(w, x)'
  BY Zenon, <1>1 DEF Known, ready_to_send, ready_to_receive
<1> QED
  BY Zenon, <1>1, <1>3, <1>4, <1>5, LocalStep

LEMMA EvalSenderStep ==
    ASSUME WorkersInv, NEW w \in Workers, NEW x \in Exchanges, EvalSender(w, x),
           UNCHANGED <<circuit, tasks, nodes, token, current, evaluated, steps, prepared>>
    PROVE  WorkersInv'
<1> USE DEF WorkersInv
<1> DEFINE n == circuit.sender[x]
<1>1. /\ circuit \in Circuits /\ Exchanges' = Exchanges
      /\ current[w] = {n} /\ pc[w] = "eval" /\ ready_to_send(x, w)
  BY Zenon DEF EvalSender, Goto, TypeInv, Scheduling, Known, Exchanges
<1>2. pc' = [pc EXCEPT ![w] = "calls"]
  BY Zenon, <1>1 DEF EvalSender, Goto
<1>3. /\ Others(w) /\ Scheduling(w)' /\ pc'[w] = "calls" /\ current'[w] = {n}
      /\ Acts(w, n) = steps[w] /\ Acts(w, n)' = steps[w] + 1 /\ steps[w] \in Nat
      /\ \A m : m # n => Acts(w, m)' = Acts(w, m)
  BY Zenon, <1>1, <1>2, EvalActs
<1>4. /\ mailboxes' \in [Exchanges -> [Workers -> [Workers -> SUBSET Nat]]]
      /\ \A r \in Workers : mailboxes'[x][w][r] = {steps[w]}
      /\ \A y \in Exchanges : \A s, r \in Workers :
           y # x \/ s # w => mailboxes'[y][s][r] = mailboxes[y][s][r]
  <2>1. mailboxes' = [mailboxes EXCEPT ![x][w] = [r \in Workers |-> @[r] \cup {steps[w]}]]
    BY Zenon, <1>1 DEF EvalSender
  <2>2. \A r \in Workers : mailboxes[x][w][r] \cup {steps[w]} = {steps[w]}
    BY Zenon, <1>1 DEF ready_to_send
  <2>3. /\ mailboxes \in [Exchanges -> [Workers -> [Workers -> SUBSET Nat]]]
        /\ steps[w] \in Nat
    BY Zenon, <1>3 DEF TypeInv
  <2> QED
    BY Zenon, <2>1, <2>2, <2>3
<1>5. TypeInv'
  <2>1. calls' \in [Workers -> SUBSET (Workers \X circuit.async)]
    BY <1>1, ExchangeNodes DEF EvalSender, TypeInv
  <2> QED
    BY Zenon, <1>1, <1>2, <1>4, <2>1 DEF TypeInv, TaskTables
<1>6. ASSUME NEW v \in Workers PROVE Scheduling(v)'
  BY Zenon, <1>3, OtherWorker
<1>7. ASSUME NEW v \in Workers, NEW m, v # w \/ m # n PROVE Acts(v, m)' = Acts(v, m)
  BY Zenon, <1>3, <1>7, OtherWorker
<1>8. ASSUME NEW y \in Exchanges, NEW s \in Workers, NEW r \in Workers PROVE Box(y, s, r)'
  <2>1. Taken(r, y)' = Taken(r, y) /\ Box(y, s, r)
    BY Zenon, <1>1, <1>7, ExchangeNodes DEF Taken
  <2>2. CASE y = x /\ s = w
    <3>1. Taken(r, y) = steps[w] /\ Sent(s, y)' = steps[w] + 1
      BY Zenon, <1>1, <1>3, <2>1, <2>2 DEF Box, Sent, ready_to_send
    <3> QED
      BY Zenon, <1>4, <2>1, <2>2, <3>1 DEF Box
  <2>3. CASE y # x \/ s # w
    <3>1. Sent(s, y)' = Sent(s, y)
      BY Zenon, <1>1, <1>7, <2>3, ExchangeNodes DEF Sent
    <3>2. mailboxes'[y][s][r] = mailboxes[y][s][r]
      BY SMTT(30), <1>4, <2>3
    <3> QED
      BY Zenon, <2>1, <3>1, <3>2 DEF Box
  <2> QED
    BY Zenon, <2>2, <2>3
<1>9. ASSUME NEW v \in Workers, NEW y \in Exchanges PROVE Known(v, y)'
  <2>1. ready_to_receive(y, v) => ready_to_receive(y, v)'
    <3>1. ASSUME NEW s \in Workers, mailboxes[y][s][v] # {} PROVE mailboxes'[y][s][v] # {}
      <4>1. CASE y = x /\ s = w
        BY Zenon, <1>4, <4>1
      <4>2. CASE y # x \/ s # w
        <5>1. mailboxes'[y][s][v] = mailboxes[y][s][v]
          BY <1>4, <4>2
        <5> QED
          BY Zenon, <3>1, <5>1
      <4> QED
        BY Zenon, <4>1, <4>2
    <3> QED
      BY Zenon, <3>1 DEF ready_to_receive
  <2>2. v # w \/ y # x => (ready_to_send(y, v) => ready_to_send(y, v)')
    <3>1. v # w \/ y # x => \A r \in Workers : mailboxes'[y][v][r] = mailboxes[y][v][r]
      BY <1>4
    <3> QED
      BY Zenon, <3>1 DEF ready_to_send
  <2>3. Known(v, y) /\ tasks' = tasks /\ current' = current /\ circuit' = circuit
    BY Zenon
  <2>4. v # w => pc'[v] = pc[v]
    BY Zenon, <1>3 DEF Others
  <2> QED
    BY Zenon, <1>1, <1>3, <2>1, <2>2, <2>3, <2>4 DEF Known
<1> QED
  BY Zenon, <1>1, <1>5, <1>6, <1>8, <1>9

LEMMA EvalReceiverStep ==
    ASSUME WorkersInv, NEW w \in Workers, NEW x \in Exchanges, EvalReceiver(w, x),
           UNCHANGED <<circuit, tasks, nodes, token, current, evaluated, steps, prepared>>
    PROVE  WorkersInv'
<1> USE DEF WorkersInv
<1> DEFINE n == circuit.receiver[x]
<1>1. /\ circuit \in Circuits /\ Exchanges' = Exchanges
      /\ current[w] = {n} /\ pc[w] = "eval" /\ ready_to_receive(x, w)
  BY Zenon DEF EvalReceiver, Goto, TypeInv, Scheduling, Known, Exchanges
<1>2. pc' = [pc EXCEPT ![w] = "calls"]
  BY Zenon, <1>1 DEF EvalReceiver, Goto
<1>3. /\ Others(w) /\ Scheduling(w)' /\ pc'[w] = "calls" /\ current'[w] = {n}
      /\ Acts(w, n) = steps[w] /\ Acts(w, n)' = steps[w] + 1 /\ steps[w] \in Nat
      /\ \A m : m # n => Acts(w, m)' = Acts(w, m)
  BY Zenon, <1>1, <1>2, EvalActs
<1>4. /\ mailboxes' \in [Exchanges -> [Workers -> [Workers -> SUBSET Nat]]]
      /\ \A s \in Workers : mailboxes'[x][s][w] = {}
      /\ \A y \in Exchanges : \A s, r \in Workers :
           y # x \/ r # w => mailboxes'[y][s][r] = mailboxes[y][s][r]
  <2>1. mailboxes' = [mailboxes EXCEPT ![x] = [s \in Workers |-> [@[s] EXCEPT ![w] = {}]]]
    BY Zenon, <1>1 DEF EvalReceiver
  <2>2. mailboxes \in [Exchanges -> [Workers -> [Workers -> SUBSET Nat]]]
    BY Zenon DEF TypeInv
  <2> QED
    BY Zenon, <2>1, <2>2
<1>5. TypeInv'
  <2>1. calls' \in [Workers -> SUBSET (Workers \X circuit.async)]
    BY <1>1, ExchangeNodes DEF EvalReceiver, TypeInv
  <2> QED
    BY Zenon, <1>1, <1>2, <1>4, <2>1 DEF TypeInv, TaskTables
<1>6. ASSUME NEW v \in Workers PROVE Scheduling(v)'
  BY Zenon, <1>3, OtherWorker
<1>7. ASSUME NEW v \in Workers, NEW m, v # w \/ m # n PROVE Acts(v, m)' = Acts(v, m)
  BY Zenon, <1>3, <1>7, OtherWorker
<1>8. ASSUME NEW y \in Exchanges, NEW s \in Workers, NEW r \in Workers PROVE Box(y, s, r)'
  <2>1. Sent(s, y)' = Sent(s, y) /\ Box(y, s, r)
    BY Zenon, <1>1, <1>7, ExchangeNodes DEF Sent
  <2>2. CASE y = x /\ r = w
    <3>1. Sent(s, y) = steps[w] + 1 /\ Taken(r, y)' = steps[w] + 1
      BY Zenon, <1>1, <1>3, <2>1, <2>2 DEF Box, Taken, ready_to_receive
    <3> QED
      BY Zenon, <1>4, <2>1, <2>2, <3>1 DEF Box
  <2>3. CASE y # x \/ r # w
    <3>1. Taken(r, y)' = Taken(r, y)
      BY Zenon, <1>1, <1>7, <2>3, ExchangeNodes DEF Taken
    <3>2. mailboxes'[y][s][r] = mailboxes[y][s][r]
      BY Zenon, <1>4, <2>3
    <3> QED
      BY Zenon, <2>1, <3>1, <3>2 DEF Box
  <2> QED
    BY Zenon, <2>2, <2>3
<1>9. ASSUME NEW v \in Workers, NEW y \in Exchanges PROVE Known(v, y)'
  <2>1. ready_to_send(y, v) => ready_to_send(y, v)'
    <3>1. ASSUME NEW r \in Workers, mailboxes[y][v][r] = {} PROVE mailboxes'[y][v][r] = {}
      <4>1. CASE y = x /\ r = w
        BY Zenon, <1>4, <4>1
      <4>2. CASE y # x \/ r # w
        <5>1. mailboxes'[y][v][r] = mailboxes[y][v][r]
          BY Zenon, <1>4, <4>2
        <5> QED
          BY Zenon, <3>1, <5>1
      <4> QED
        BY Zenon, <4>1, <4>2
    <3> QED
      BY Zenon, <3>1 DEF ready_to_send
  <2>2. v # w \/ y # x => (ready_to_receive(y, v) => ready_to_receive(y, v)')
    <3>1. v # w \/ y # x => \A s \in Workers : mailboxes'[y][s][v] = mailboxes[y][s][v]
      BY Zenon, <1>4
    <3> QED
      BY Zenon, <3>1 DEF ready_to_receive
  <2>3. Known(v, y) /\ tasks' = tasks /\ current' = current /\ circuit' = circuit
    BY Zenon
  <2>4. v # w => pc'[v] = pc[v]
    BY Zenon, <1>3 DEF Others
  <2> QED
    BY Zenon, <1>1, <1>3, <2>1, <2>2, <2>3, <2>4 DEF Known
<1> QED
  BY Zenon, <1>1, <1>5, <1>6, <1>8, <1>9

-----------------------------------------------------------------------------
(* The invariant is preserved by every step. *)
LEMMA WorkersInvariant == Spec => []WorkersInv
<1>1. Init => WorkersInv
  <2> SUFFICES ASSUME Init PROVE WorkersInv
    BY Zenon
  <2>1. /\ circuit \in Circuits /\ IsFiniteSet(g.edges)
        /\ \A x \in Exchanges : /\ circuit.sender[x] \in circuit.nodes \cap circuit.async
                                /\ circuit.receiver[x] \in circuit.nodes \cap circuit.async
    BY Zenon, EdgesFinite, ExchangeNodes DEF Init
  <2> DEFINE t == NewTasks(Graph(circuit))
  <2>2. /\ t \in TaskTables /\ t.runnable = {}
        /\ \A n \in circuit.nodes : t.is_ready[n] <=> n \notin circuit.async
    <3>1. ASSUME NEW n PROVE num_predecessors(g, n) \in Nat
      <4>1. Incoming(g, n) \in SUBSET g.edges
        BY Zenon DEF Incoming
      <4> QED
        BY Zenon, <2>1, <4>1, FS_Subset, FS_CardinalityType DEF num_predecessors
    <3> DEFINE u == [n \in circuit.nodes |-> num_predecessors(g, n)]
               b == [n \in circuit.nodes |-> n \notin circuit.async]
               c == [n \in circuit.nodes |-> FALSE]
    <3>2. u \in [circuit.nodes -> Int]
      BY <3>1
    <3>3. b \in [circuit.nodes -> BOOLEAN] /\ \A n \in circuit.nodes : b[n] <=> n \notin circuit.async
      BY Zenon
    <3>4. c \in [circuit.nodes -> BOOLEAN]
      BY Zenon
    <3>5. t = [unsatisfied_dependencies |-> u, is_ready |-> b, scheduled |-> c, runnable |-> {}]
      BY Zenon, GraphFields DEF NewTasks, g
    <3> HIDE DEF t, u, b, c
    <3> QED
      BY Zenon, <3>2, <3>3, <3>4, <3>5 DEF TaskTables
  <2> HIDE DEF t
  <2>3. \A w \in Workers : tasks[w] = t
    BY Zenon DEF Init, t
  <2>4. TypeInv
    <3>1. tasks \in [Workers -> TaskTables]
      BY Zenon, <2>2 DEF Init, t
    <3> QED
      BY Zenon, <2>1, <3>1 DEF Init, TypeInv, Exchanges
  <2>5. ASSUME NEW w \in Workers PROVE Scheduling(w)
    BY Zenon, <2>2, <2>3 DEF Init, Scheduling
  <2>6. ASSUME NEW x \in Exchanges, NEW s \in Workers, NEW r \in Workers PROVE Box(x, s, r)
    BY Zenon DEF Init, Box, Sent, Taken, Acts, Acted, InCycle, Exchanges
  <2>7. ASSUME NEW w \in Workers, NEW x \in Exchanges PROVE Known(w, x)
    BY Zenon, <2>1, <2>2, <2>3 DEF Known
  <2> QED
    BY Zenon, <2>4, <2>5, <2>6, <2>7 DEF WorkersInv
<1>2. WorkersInv /\ [Next]_vars => WorkersInv'
  <2> SUFFICES ASSUME WorkersInv, [Next]_vars PROVE WorkersInv'
    BY Zenon
  <2>1. ASSUME NEW w \in Workers, eval_node(w) PROVE WorkersInv'
    BY Zenon, <2>1, EvalSenderStep, EvalReceiverStep, EvalLocalStep DEF eval_node
  <2>2. ASSUME NEW w \in Workers, Worker(w) PROVE WorkersInv'
    BY Zenon, <2>1, <2>2, PrepareStep, StepStartStep, DequeueStep, NotificationsStep, ParkStep,
       CallbackStep, CompletedStep, StepEndStep DEF Worker
  <2>3. CASE UNCHANGED vars
    <3> USE <2>3 DEF WorkersInv, vars
    <3>1. TypeInv'
      BY Zenon DEF TypeInv, TaskTables, Exchanges
    <3>2. ASSUME NEW w \in Workers PROVE Scheduling(w)'
      <4>1. Consistent(tasks[w], evaluated[w] \cup current[w]) =>
              Consistent(tasks[w], evaluated[w] \cup current[w])'
        BY Zenon, ConsistentNext
      <4> QED
        BY Zenon, <4>1 DEF Scheduling
    <3>3. ASSUME NEW x \in Exchanges, NEW s \in Workers, NEW r \in Workers PROVE Box(x, s, r)'
      BY DEF Box, Sent, Taken, Acts, Acted, InCycle
    <3>4. ASSUME NEW w \in Workers, NEW x \in Exchanges PROVE Known(w, x)'
      BY Zenon DEF Known, ready_to_send, ready_to_receive
    <3> QED
      BY Zenon, <3>1, <3>2, <3>3, <3>4 DEF Exchanges
  <2> QED
    BY Zenon, <2>2, <2>3 DEF Next
<1> QED
  BY <1>1, <1>2, PTL DEF Spec

(* However the workers' schedulers order the exchanges of the circuit, no  *)
(* assertion of a scheduler or of an exchange fails, and what a worker     *)
(* takes from an exchange is of the cycle it is in.                        *)
THEOREM WorkersInSameCycle == Spec => []SameCycle
<1>1. WorkersInv => SameCycle
  <2> SUFFICES ASSUME WorkersInv, NEW w \in Workers
               PROVE  /\ pc[w] # "panicked"
                      /\ \A x \in Exchanges :
                           pc[w] = "eval" /\ current[w] = {circuit.receiver[x]} =>
                             \A s \in Workers : mailboxes[x][s][w] = {steps[w]}
    BY Zenon DEF SameCycle
  <2>1. pc[w] # "panicked"
    BY Zenon DEF WorkersInv, TypeInv
  <2>2. ASSUME NEW x \in Exchanges, pc[w] = "eval", current[w] = {circuit.receiver[x]},
               NEW s \in Workers
        PROVE  mailboxes[x][s][w] = {steps[w]}
    <3>1. /\ \E n \in circuit.nodes : current[w] = {n} /\ n \notin evaluated[w]
          /\ tasks[w].is_ready[circuit.receiver[x]] /\ Known(w, x)
      BY Zenon, <2>2 DEF WorkersInv, Scheduling
    <3>2. circuit.receiver[x] \notin evaluated[w]
      BY Zenon, <2>2, <3>1
    <3>3. mailboxes[x][s][w] # {}
      BY Zenon, <2>2, <3>1 DEF Known, ready_to_receive
    <3>4. Taken(w, x) = steps[w]
      BY <2>2, <3>2 DEF Taken, Acts, Acted, WorkersInv, TypeInv
    <3> QED
      BY <3>3, <3>4 DEF WorkersInv, Box
  <2> QED
    BY Zenon, <2>1, <2>2
<1> QED
  BY <1>1, WorkersInvariant, PTL
=============================================================================
