-------------------------- MODULE DynamicScheduler --------------------------
(***************************************************************************)
(* One worker thread that runs a circuit with the dynamic scheduler        *)
(* (circuit/schedule/dynamic_scheduler.rs), the operators that become      *)
(* ready and notify it from other threads, and RuntimeHandle::kill         *)
(* (circuit/runtime.rs).                                                   *)
(*                                                                         *)
(* A notification is three steps of another thread, as in exchange.rs: the *)
(* status changes, the node is inserted in the shared set, the worker is   *)
(* unparked.  Spurious notifications are allowed, as exchange.rs sends     *)
(* them.  The parker belongs to the thread: while the scheduler evaluates  *)
(* a subcircuit node, the scheduler of the subcircuit parks on it too and  *)
(* may consume a token that was meant for this one.                        *)
(***************************************************************************)
EXTENDS Tasks

CONSTANTS
    Circuits,    \* the circuits to schedule
    MaxSteps,    \* bound: clock cycles
    MaxSpurious, \* bound: spurious notifications
    Killable     \* TRUE if the user may call kill

ASSUME CircuitsAssumption ==
    \A c \in Circuits : IsFiniteSet(c.edges) /\ c.async \subseteq c.nodes
ASSUME MaxStepsAssumption == MaxSteps \in Nat \ {0}
ASSUME MaxSpuriousAssumption == MaxSpurious \in Nat
ASSUME KillableAssumption == Killable \in BOOLEAN

VARIABLES
    circuit,     \* the circuit being scheduled
    tasks,       \* Inner::tasks and Inner::runnable
    nodes,       \* Notifications::nodes
    token,       \* the parker's token
    pc,          \* control point of the worker thread
    current,     \* the node being registered or evaluated
    evaluated,   \* nodes evaluated in this cycle (completed_tasks of them)
    steps,       \* cycles completed
    op_ready,    \* Operator::ready of each async node
    callback,    \* async nodes whose ready callback is registered
    notifier,    \* what the thread that notifies a node does next
    spurious,    \* spurious notifications so far
    kill         \* RuntimeHandle::kill: "no", "store", "unpark", "done"

worker == <<tasks, pc, current, evaluated, steps, callback>>
env == <<op_ready, notifier, spurious, kill>>
vars == <<circuit, tasks, nodes, token, pc, current, evaluated, steps,
          op_ready, callback, notifier, spurious, kill>>

g == Graph(circuit)
kill_in_progress == kill \in {"unpark", "done"}

Init ==
    /\ circuit \in Circuits
    /\ tasks = NewTasks(Graph(circuit))
    /\ nodes = {}
    /\ token = FALSE
    /\ pc = IF Schedulable(circuit) THEN "prepare" ELSE "error"
    /\ current = {}
    /\ evaluated = {}
    /\ steps = 0
    /\ op_ready \in [circuit.async -> BOOLEAN]
    /\ callback = {}
    /\ notifier = [n \in circuit.async |-> "idle"]
    /\ spurious = 0
    /\ kill = "no"

-----------------------------------------------------------------------------
\* Inner::prepare, "Setup scheduler callbacks".

register_ready_callback(n) ==
    /\ pc = "prepare"
    /\ n \notin callback
    /\ callback' = callback \cup {n}
    /\ current' = {n}
    /\ pc' = "check_ready"
    /\ UNCHANGED <<circuit, tasks, nodes, token, evaluated, steps, env>>

\* "Since we missed any earlier notifications, generate one".
CheckReady ==
    /\ pc = "check_ready"
    /\ \E n \in current :
         /\ nodes' = IF op_ready[n] THEN nodes \cup {n} ELSE nodes
         /\ token' = (token \/ op_ready[n])
    /\ pc' = "prepare"
    /\ current' = {}
    /\ UNCHANGED <<circuit, tasks, evaluated, steps, callback, env>>

-----------------------------------------------------------------------------
\* Inner::step

StepStart ==
    /\ \/ pc = "prepare" /\ callback = circuit.async
       \/ pc = "stepped" /\ steps < MaxSteps
    /\ tasks' = StartCycle(g, tasks)
    /\ evaluated' = {}
    /\ pc' = "loop"
    /\ UNCHANGED <<circuit, nodes, token, current, steps, callback, env>>

Killed ==
    /\ pc = "loop" /\ evaluated # circuit.nodes
    /\ kill_in_progress
    /\ pc' = "killed"
    /\ UNCHANGED <<circuit, tasks, nodes, token, current, evaluated, steps,
                   callback, env>>

dequeue_next_task(n) ==
    /\ pc = "loop" /\ evaluated # circuit.nodes
    /\ ~kill_in_progress
    /\ n \in NextTasks(g, tasks)
    /\ tasks' = Dequeue(g, tasks, n)
    /\ current' = {n}
    /\ pc' = IF DequeueAsserts(g, tasks, n) THEN "eval" ELSE "panicked"
    /\ UNCHANGED <<circuit, nodes, token, evaluated, steps, callback, env>>

\* Mutant: the worker spins on the notifications and acts on none.
process_notifications_mutant ==
    /\ pc = "loop" /\ evaluated # circuit.nodes
    /\ ~kill_in_progress
    /\ tasks.runnable = {}
    /\ UNCHANGED vars

process_notifications ==
    /\ pc = "loop" /\ evaluated # circuit.nodes
    /\ ~kill_in_progress
    /\ tasks.runnable = {}
    /\ LET t == ProcessNotifications(tasks, nodes, {n \in nodes : op_ready[n]}) IN
         /\ tasks' = t
         /\ pc' = IF t.runnable = {} THEN "park" ELSE "loop"
    /\ nodes' = {}
    /\ UNCHANGED <<circuit, token, current, evaluated, steps, callback, env>>

park ==
    /\ pc = "park"
    /\ token
    /\ token' = FALSE
    /\ pc' = "loop"
    /\ UNCHANGED <<circuit, tasks, nodes, current, evaluated, steps, callback,
                   env>>

\* The scheduler of a subcircuit parks, on the same thread's parker.
NestedPark ==
    /\ pc = "eval"
    /\ current \subseteq circuit.sub
    /\ token
    /\ token' = FALSE
    /\ UNCHANGED <<circuit, nodes, worker, env>>

\* Evaluating an async operator consumes its ready status.
eval_node ==
    /\ pc = "eval"
    /\ op_ready' = [n \in circuit.async |-> op_ready[n] /\ n \notin current]
    /\ evaluated' = evaluated \cup current
    /\ pc' = "evaluated"
    /\ UNCHANGED <<circuit, tasks, nodes, token, current, steps, callback,
                   notifier, spurious, kill>>

Completed ==
    /\ pc = "evaluated"
    /\ \E n \in current : tasks' = TaskDone(g, tasks, n)
    /\ current' = {}
    /\ pc' = "loop"
    /\ UNCHANGED <<circuit, nodes, token, evaluated, steps, callback, env>>

StepEnd ==
    /\ pc = "loop" /\ evaluated = circuit.nodes
    /\ steps' = steps + 1
    /\ pc' = "stepped"
    /\ UNCHANGED <<circuit, tasks, nodes, token, current, evaluated, callback,
                   env>>

Worker ==
    \/ \E n \in circuit.async : register_ready_callback(n)
    \/ CheckReady
    \/ StepStart
    \/ Killed
    \/ \E n \in circuit.nodes : dequeue_next_task(n)
    \/ process_notifications
    \/ park
    \/ eval_node
    \/ Completed
    \/ StepEnd

-----------------------------------------------------------------------------
\* Other threads.

\* The operator becomes ready; its peer goes on to invoke the callback.
BecomeReady(n) ==
    /\ ~op_ready[n] /\ notifier[n] = "idle"
    /\ op_ready' = [op_ready EXCEPT ![n] = TRUE]
    /\ notifier' = [notifier EXCEPT ![n] = "callback"]
    /\ UNCHANGED <<circuit, nodes, token, worker, spurious, kill>>

\* A callback that the operator's status does not justify.
SpuriousNotify(n) ==
    /\ notifier[n] = "idle" /\ spurious < MaxSpurious
    /\ spurious' = spurious + 1
    /\ notifier' = [notifier EXCEPT ![n] = "callback"]
    /\ UNCHANGED <<circuit, nodes, token, worker, op_ready, kill>>

\* The callback, if there is one, calls Notifications::notify.
NotifyInsert(n) ==
    /\ notifier[n] = "callback"
    /\ nodes' = IF n \in callback THEN nodes \cup {n} ELSE nodes
    /\ notifier' = [notifier EXCEPT
                      ![n] = IF n \in callback THEN "unpark" ELSE "idle"]
    /\ UNCHANGED <<circuit, token, worker, op_ready, spurious, kill>>

NotifyUnpark(n) ==
    /\ notifier[n] = "unpark"
    /\ token' = TRUE
    /\ notifier' = [notifier EXCEPT ![n] = "idle"]
    /\ UNCHANGED <<circuit, nodes, worker, op_ready, spurious, kill>>

KillStore ==
    /\ Killable /\ kill = "no"
    /\ kill' = "unpark"
    /\ UNCHANGED <<circuit, nodes, token, worker, op_ready, notifier, spurious>>

\* Mutant: the worker is not unparked.
KillUnpark_mutant ==
    /\ kill = "unpark"
    /\ kill' = "done"
    /\ UNCHANGED <<circuit, nodes, token, worker, op_ready, notifier, spurious>>

KillUnpark ==
    /\ kill = "unpark"
    /\ kill' = "done"
    /\ token' = TRUE
    /\ UNCHANGED <<circuit, nodes, worker, op_ready, notifier, spurious>>

Notifier(n) == BecomeReady(n) \/ NotifyInsert(n) \/ NotifyUnpark(n)

Environment ==
    \/ \E n \in circuit.async : Notifier(n) \/ SpuriousNotify(n)
    \/ KillStore
    \/ KillUnpark

\* The worker stops: prepare failed, the user killed it, or it is at the
\* bound on the number of cycles.
Stopped == pc \in {"error", "killed"} \/ (pc = "stepped" /\ steps = MaxSteps)

Next == Worker \/ NestedPark \/ Environment \/ (Stopped /\ UNCHANGED vars)

Spec == Init /\ [][Next]_vars

\* The threads run; every async operator eventually becomes ready again (for
\* exchanges this is what WorkerCircuits shows), except in a runtime that is
\* killed, where the peers that would make it so are going away too; kill, once
\* begun, unparks.
Fairness ==
    /\ WF_vars(Worker)
    /\ \A n \in UNION {c.async : c \in Circuits} :
         WF_vars(kill = "no" /\ n \in circuit.async /\ Notifier(n))
    /\ WF_vars(KillUnpark)

FairSpec == Spec /\ Fairness

-----------------------------------------------------------------------------

\* No debug_assert of dequeue_next_task or RunQueue::push fails, and
\* process_notifications only pushes tasks that pass them.
NoAssertFails ==
    /\ pc # "panicked"
    /\ \A n \in tasks.runnable : /\ tasks.unsatisfied_dependencies[n] = 0
                                 /\ tasks.is_ready[n] /\ tasks.scheduled[n]

\* The consumer that insists on owning a stream is evaluated after all other
\* consumers of the stream, so that it gets the only reference.
StrongConsumerLast ==
    pc = "eval" => \A n \in current : \A e, f \in circuit.edges :
        /\ e.to = n /\ e.pref = "strong"
        /\ f.from = e.from /\ f.id # e.id /\ f.pref # "none"
        => f.to \in evaluated

\* A valid and complete schedule (trait Scheduler): a node is evaluated at most
\* once in a cycle, after all its upstream nodes and the other consumers of
\* what it takes by value, and an async node only when ready; completed_tasks
\* counts every node, so that a cycle ends with all of them evaluated and no
\* task left in the run queue.
ValidSchedule ==
    /\ pc = "eval" => \A n \in current :
         /\ n \notin evaluated
         /\ Predecessors(g, n) \subseteq evaluated
         /\ n \in circuit.async => op_ready[n]
    /\ StrongConsumerLast
    /\ pc = "stepped" => evaluated = circuit.nodes /\ tasks.runnable = {}

\* Unless it is killed or its circuit cannot be scheduled, the worker
\* completes all cycles: it never sleeps for ever.
AllStepsComplete ==
    <>(pc \in {"error", "killed"} \/ (pc = "stepped" /\ steps = MaxSteps))

\* "Signals all workers to exit": once kill has been called the worker stops,
\* even if it is parked for an operator that will never become ready.
KillStops == kill # "no" ~> Stopped
=============================================================================
