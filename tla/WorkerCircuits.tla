--------------------------- MODULE WorkerCircuits ---------------------------
(***************************************************************************)
(* Worker threads that run the same circuit in lockstep through its        *)
(* exchanges: the dynamic scheduler of each worker (Tasks) composed with   *)
(* the exchange objects that connect them.                                 *)
(*                                                                         *)
(* An exchange is taken at the grain that Exchange and its proofs justify: *)
(* evaluating ExchangeSender fills all its mailboxes, evaluating           *)
(* ExchangeReceiver empties all its mailboxes, and each evaluation is      *)
(* followed by the callbacks of the peers that it made ready.  A callback  *)
(* is one step (DynamicScheduler splits it).  Nothing else makes an        *)
(* operator ready, so what DynamicScheduler assumes of its environment is  *)
(* shown here.                                                             *)
(***************************************************************************)
EXTENDS Tasks, Sequences

CONSTANTS
    nworkers,   \* worker threads
    Circuits,   \* circuits: records with fields sender, receiver besides those
                \* of Tasks, which map an exchange to its two nodes
    MaxSteps    \* bound: clock cycles of each worker

ASSUME NWorkersAssumption == nworkers \in Nat \ {0}
ASSUME MaxStepsAssumption == MaxSteps \in Nat \ {0}

\* Circuit::add_exchange adds two async nodes of its own for each exchange.
ASSUME CircuitsAssumption ==
    \A c \in Circuits :
        /\ IsFiniteSet(c.edges) /\ c.async \subseteq c.nodes
        /\ c.sender \in [DOMAIN c.sender -> c.async]
        /\ c.receiver \in [DOMAIN c.sender -> c.async]
        /\ \A x, y \in DOMAIN c.sender :
             /\ c.sender[x] # c.receiver[y]
             /\ c.sender[x] = c.sender[y] \/ c.receiver[x] = c.receiver[y] => x = y

Workers == 0 .. nworkers - 1

VARIABLES
    circuit,
    tasks,      \* of each worker
    nodes,      \* Notifications::nodes of each worker
    token,      \* parker token of each worker
    pc,
    current,
    evaluated,
    steps,
    prepared,   \* workers whose scheduler has registered its callbacks
    mailboxes,  \* mailboxes[x][s][r]: cycles whose value is in the mailbox
    calls       \* calls[w]: <<peer, node>> callbacks that w has to invoke

vars == <<circuit, tasks, nodes, token, pc, current, evaluated, steps,
          prepared, mailboxes, calls>>

g == Graph(circuit)
Exchanges == DOMAIN circuit.sender

ready_to_send(x, w) == \A r \in Workers : mailboxes[x][w][r] = {}
ready_to_receive(x, w) == \A s \in Workers : mailboxes[x][s][w] # {}

\* Mutant: every notified operator counts as ready.
Ready_mutant(w, n) == TRUE

\* Operator::ready of the async nodes of worker w.
Ready(w, n) ==
    \E x \in Exchanges :
        \/ n = circuit.sender[x] /\ ready_to_send(x, w)
        \/ n = circuit.receiver[x] /\ ready_to_receive(x, w)

Init ==
    /\ circuit \in Circuits
    /\ tasks = [w \in Workers |-> NewTasks(Graph(circuit))]
    /\ nodes = [w \in Workers |-> {}]
    /\ token = [w \in Workers |-> FALSE]
    /\ pc = [w \in Workers |-> "prepare"]
    /\ current = [w \in Workers |-> {}]
    /\ evaluated = [w \in Workers |-> {}]
    /\ steps = [w \in Workers |-> 0]
    /\ prepared = {}
    /\ mailboxes = [x \in DOMAIN circuit.sender |->
                      [s \in Workers |-> [r \in Workers |-> {}]]]
    /\ calls = [w \in Workers |-> {}]

Goto(w, from, to) == pc[w] = from /\ pc' = [pc EXCEPT ![w] = to]

-----------------------------------------------------------------------------
\* Inner::prepare: register the callbacks and check the operators' status.
prepare(w) ==
    /\ Goto(w, "prepare", "stepped")
    /\ prepared' = prepared \cup {w}
    /\ nodes' = [nodes EXCEPT ![w] = {n \in circuit.async : Ready(w, n)}]
    /\ token' = [token EXCEPT ![w] = \E n \in circuit.async : Ready(w, n)]
    /\ UNCHANGED <<circuit, tasks, current, evaluated, steps, mailboxes, calls>>

StepStart(w) ==
    /\ steps[w] < MaxSteps
    /\ Goto(w, "stepped", "loop")
    /\ tasks' = [tasks EXCEPT ![w] = StartCycle(g, @)]
    /\ evaluated' = [evaluated EXCEPT ![w] = {}]
    /\ UNCHANGED <<circuit, nodes, token, current, steps, prepared, mailboxes,
                   calls>>

dequeue_next_task(w, n) ==
    /\ evaluated[w] # circuit.nodes
    /\ n \in NextTasks(g, tasks[w])
    /\ Goto(w, "loop", IF DequeueAsserts(g, tasks[w], n) THEN "eval" ELSE "panicked")
    /\ tasks' = [tasks EXCEPT ![w] = Dequeue(g, @, n)]
    /\ current' = [current EXCEPT ![w] = {n}]
    /\ UNCHANGED <<circuit, nodes, token, evaluated, steps, prepared, mailboxes,
                   calls>>

\* Mutant: the worker spins on the notifications and acts on none.
process_notifications_mutant(w) ==
    /\ evaluated[w] # circuit.nodes
    /\ tasks[w].runnable = {}
    /\ pc[w] = "loop"
    /\ UNCHANGED vars

process_notifications(w) ==
    LET t == ProcessNotifications(tasks[w], nodes[w], {n \in nodes[w] : Ready(w, n)}) IN
    /\ evaluated[w] # circuit.nodes
    /\ tasks[w].runnable = {}
    /\ Goto(w, "loop", IF t.runnable = {} THEN "park" ELSE "loop")
    /\ tasks' = [tasks EXCEPT ![w] = t]
    /\ nodes' = [nodes EXCEPT ![w] = {}]
    /\ UNCHANGED <<circuit, token, current, evaluated, steps, prepared,
                   mailboxes, calls>>

park(w) ==
    /\ token[w]
    /\ Goto(w, "park", "loop")
    /\ token' = [token EXCEPT ![w] = FALSE]
    /\ UNCHANGED <<circuit, tasks, nodes, current, evaluated, steps, prepared,
                   mailboxes, calls>>

-----------------------------------------------------------------------------
\* eval_node

\* ExchangeSender::eval: this cycle's value for every peer; a peer for which
\* it is the last one missing is to be notified.
EvalSender(w, x) ==
    LET full == [mailboxes EXCEPT ![x][w] = [r \in Workers |-> @[r] \cup {steps[w]}]]
    IN
    /\ current[w] = {circuit.sender[x]}
    /\ Goto(w, "eval", IF ready_to_send(x, w) THEN "calls" ELSE "panicked")
    /\ mailboxes' = IF ready_to_send(x, w) THEN full ELSE mailboxes
    /\ calls' = [calls EXCEPT ![w] =
         {<<r, circuit.receiver[x]>> :
            r \in {q \in Workers : \A s \in Workers : full[x][s][q] # {}}}]

\* ExchangeReceiver::eval: takes every peer's value.
EvalReceiver(w, x) ==
    LET free == [mailboxes EXCEPT ![x] = [s \in Workers |-> [@[s] EXCEPT ![w] = {}]]]
    IN
    /\ current[w] = {circuit.receiver[x]}
    /\ Goto(w, "eval", IF ready_to_receive(x, w) THEN "calls" ELSE "panicked")
    /\ mailboxes' = IF ready_to_receive(x, w) THEN free ELSE mailboxes
    /\ calls' = [calls EXCEPT ![w] =
         {<<s, circuit.sender[x]>> :
            s \in {q \in Workers : \A r \in Workers : free[x][q][r] = {}}}]

\* Any other operator.
EvalLocal(w) ==
    /\ current[w] \cap circuit.async = {}
    /\ Goto(w, "eval", "calls")
    /\ UNCHANGED <<mailboxes, calls>>

eval_node(w) ==
    /\ \/ \E x \in Exchanges : EvalSender(w, x) \/ EvalReceiver(w, x)
       \/ EvalLocal(w)
    /\ UNCHANGED <<circuit, tasks, nodes, token, current, evaluated, steps,
                   prepared>>

\* A callback of the exchange: Notifications::notify in the peer's scheduler,
\* if that has been prepared.
Callback(w, c) ==
    /\ pc[w] = "calls" /\ c \in calls[w]
    /\ calls' = [calls EXCEPT ![w] = @ \ {c}]
    /\ nodes' = IF c[1] \in prepared
                  THEN [nodes EXCEPT ![c[1]] = @ \cup {c[2]}] ELSE nodes
    /\ token' = IF c[1] \in prepared THEN [token EXCEPT ![c[1]] = TRUE] ELSE token
    /\ UNCHANGED <<circuit, tasks, pc, current, evaluated, steps, prepared,
                   mailboxes>>

Completed(w) ==
    /\ calls[w] = {}
    /\ Goto(w, "calls", "loop")
    /\ evaluated' = [evaluated EXCEPT ![w] = @ \cup current[w]]
    /\ \E n \in current[w] : tasks' = [tasks EXCEPT ![w] = TaskDone(g, @, n)]
    /\ current' = [current EXCEPT ![w] = {}]
    /\ UNCHANGED <<circuit, nodes, token, steps, prepared, mailboxes, calls>>

StepEnd(w) ==
    /\ evaluated[w] = circuit.nodes
    /\ Goto(w, "loop", "stepped")
    /\ steps' = [steps EXCEPT ![w] = @ + 1]
    /\ UNCHANGED <<circuit, tasks, nodes, token, current, evaluated, prepared,
                   mailboxes, calls>>

Worker(w) ==
    \/ prepare(w)
    \/ StepStart(w)
    \/ \E n \in circuit.nodes : dequeue_next_task(w, n)
    \/ process_notifications(w)
    \/ park(w)
    \/ eval_node(w)
    \/ \E c \in calls[w] : Callback(w, c)
    \/ Completed(w)
    \/ StepEnd(w)

Done == \A w \in Workers : pc[w] = "stepped" /\ steps[w] = MaxSteps

Next == (\E w \in Workers : Worker(w)) \/ (Done /\ UNCHANGED vars)

Spec == Init /\ [][Next]_vars

\* Only that no thread is descheduled for ever.
Fairness == \A w \in Workers : WF_vars(Worker(w))

FairSpec == Spec /\ Fairness

-----------------------------------------------------------------------------

\* What a worker takes from an exchange was produced in the cycle it is in,
\* by every peer, even where the workers evaluate the exchanges of the circuit
\* in different orders.  Between the scheduler's ready check and the evaluation
\* nothing takes the ready status away: try_send_all and try_receive_all never
\* return false.
SameCycle ==
    \A w \in Workers :
        /\ pc[w] # "panicked"
        /\ \A x \in Exchanges :
             pc[w] = "eval" /\ current[w] = {circuit.receiver[x]} =>
                 \A s \in Workers : mailboxes[x][s][w] = {steps[w]}

\* Worker threads never all wait for each other: each completes every cycle.
AllStepsComplete == <>Done
=============================================================================
