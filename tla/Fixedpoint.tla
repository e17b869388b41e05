----------------------------- MODULE Fixedpoint -----------------------------
(***************************************************************************)
(* The termination check of a nested circuit in a multithreaded runtime    *)
(* (Circuit::fixedpoint_with_scheduler and IterativeExecutor::run): after  *)
(* each iteration the workers exchange their local fixed point status and  *)
(* all of them leave the nested circuit, or none.                          *)
(*                                                                         *)
(* The check waits on the thread's parker, which the nested scheduler, the *)
(* outer scheduler and the command loop also use: a token can be spent by  *)
(* a wait that it was not meant for.  The exchange has the grain of        *)
(* WorkerCircuits: one step fills or empties all mailboxes of a worker and *)
(* each callback is a step of its own.                                     *)
(***************************************************************************)
EXTENDS Naturals, Sequences

CONSTANTS
    nworkers,
    MaxIters,    \* bound: the nested circuit is stable after MaxIters iterations
    Runs         \* bound: evaluations of the nested circuit (outer clock cycles)

ASSUME NWorkersAssumption == nworkers \in Nat \ {0, 1}
ASSUME MaxItersAssumption == MaxIters \in Nat \ {0}
ASSUME RunsAssumption == Runs \in Nat \ {0}

Workers == 0 .. nworkers - 1

VARIABLES
    pc,
    token,       \* parker tokens
    kill,        \* "no", "stored" (the kill signal is set) or "done" (and unparked)
    run,         \* evaluations of the nested circuit completed by each worker
    iters,       \* iterations completed in the current one
    local,       \* local_fixedpoint of each worker, for every check so far
    global,      \* the result of every check so far
    mailboxes,   \* mailboxes[s][r]: what s sent and r has not yet taken
    calls        \* peers whose callback the worker has yet to invoke

vars == <<pc, token, kill, run, iters, local, global, mailboxes, calls>>

Init ==
    /\ pc = [w \in Workers |-> "outer"]
    /\ token = [w \in Workers |-> FALSE]
    /\ kill = [w \in Workers |-> "no"]
    /\ run = [w \in Workers |-> 0]
    /\ iters = [w \in Workers |-> 0]
    /\ local = [w \in Workers |-> <<>>]
    /\ global = [w \in Workers |-> <<>>]
    /\ mailboxes = [s \in Workers |-> [r \in Workers |-> <<>>]]
    /\ calls = [w \in Workers |-> {}]

Goto(w, from, to) == pc[w] = from /\ pc' = [pc EXCEPT ![w] = to]

kill_in_progress(w) == kill[w] # "no"

ready_to_send(w) == \A r \in Workers : mailboxes[w][r] = <<>>
ready_to_receive(w) == \A s \in Workers : mailboxes[s][w] # <<>>

-----------------------------------------------------------------------------
\* IterativeExecutor::run: clock_start.
ClockStart(w) ==
    /\ run[w] < Runs
    /\ Goto(w, "outer", "step")
    /\ iters' = [iters EXCEPT ![w] = 0]
    /\ UNCHANGED <<token, kill, run, local, global, mailboxes, calls>>

\* self.scheduler.step(circuit): one iteration, and then the local status of
\* the nested circuit.
step(w) ==
    /\ Goto(w, "step", "send")
    /\ \E fp \in BOOLEAN :
         /\ iters[w] >= MaxIters => fp
         /\ local' = [local EXCEPT ![w] = Append(@, fp)]
    /\ UNCHANGED <<token, kill, run, iters, global, mailboxes, calls>>

\* A scheduler parks in an iteration or outside the nested circuit, and checks
\* the kill signal when it wakes up.
SchedulerPark(w) ==
    /\ pc[w] \in {"step", "outer"} /\ token[w]
    /\ token' = [token EXCEPT ![w] = FALSE]
    /\ pc' = IF kill_in_progress(w) THEN [pc EXCEPT ![w] = "killed"] ELSE pc
    /\ UNCHANGED <<kill, run, iters, local, global, mailboxes, calls>>

-----------------------------------------------------------------------------
\* termination_check

\* exchange.try_send_all
try_send_all(w) ==
    LET sent == [mailboxes EXCEPT ![w] =
                   [r \in Workers |-> <<local[w][Len(local[w])]>>]]
    IN
    /\ ready_to_send(w)
    /\ Goto(w, "send", "send_calls")
    /\ mailboxes' = sent
    /\ calls' = [calls EXCEPT ![w] =
                  {r \in Workers : \A s \in Workers : sent[s][r] # <<>>}]
    /\ UNCHANGED <<token, kill, run, iters, local, global>>

\* It returned false: the kill signal, then park.
SendBlocked(w) ==
    /\ ~ready_to_send(w)
    /\ Goto(w, "send", IF kill_in_progress(w) THEN "killed" ELSE "send_park")
    /\ UNCHANGED <<token, kill, run, iters, local, global, mailboxes, calls>>

\* exchange.try_receive_all: the conjunction of all statuses.
\* Mutant: the accumulator is overwritten by the last status.
try_receive_all_mutant(w) ==
    LET taken == [s \in Workers |-> [mailboxes[s] EXCEPT ![w] = <<>>]] IN
    /\ ready_to_receive(w)
    /\ Goto(w, "receive", "receive_calls")
    /\ global' = [global EXCEPT ![w] = Append(@, mailboxes[nworkers - 1][w][1])]
    /\ mailboxes' = taken
    /\ calls' = [calls EXCEPT ![w] =
                  {s \in Workers : \A r \in Workers : taken[s][r] = <<>>}]
    /\ UNCHANGED <<token, kill, run, iters, local>>

try_receive_all(w) ==
    LET taken == [s \in Workers |-> [mailboxes[s] EXCEPT ![w] = <<>>]] IN
    /\ ready_to_receive(w)
    /\ Goto(w, "receive", "receive_calls")
    /\ global' = [global EXCEPT ![w] =
                   Append(@, \A s \in Workers : mailboxes[s][w][1])]
    /\ mailboxes' = taken
    /\ calls' = [calls EXCEPT ![w] =
                  {s \in Workers : \A r \in Workers : taken[s][r] = <<>>}]
    /\ UNCHANGED <<token, kill, run, iters, local>>

\* Mutant: the loop polls and does not look at the kill signal.
ReceiveBlocked_mutant(w) ==
    /\ ~ready_to_receive(w)
    /\ pc[w] = "receive"
    /\ UNCHANGED vars

ReceiveBlocked(w) ==
    /\ ~ready_to_receive(w)
    /\ Goto(w, "receive", IF kill_in_progress(w) THEN "killed" ELSE "receive_park")
    /\ UNCHANGED <<token, kill, run, iters, local, global, mailboxes, calls>>

\* The registered callbacks unpark the peer.
Callback(w, v) ==
    /\ pc[w] \in {"send_calls", "receive_calls"} /\ v \in calls[w]
    /\ token' = [token EXCEPT ![v] = TRUE]
    /\ calls' = [calls EXCEPT ![w] = @ \ {v}]
    /\ UNCHANGED <<pc, kill, run, iters, local, global, mailboxes>>

SendReturns(w) ==
    /\ calls[w] = {}
    /\ Goto(w, "send_calls", "receive")
    /\ UNCHANGED <<token, kill, run, iters, local, global, mailboxes, calls>>

park(w) ==
    /\ token[w]
    /\ Goto(w, "send_park", "send") \/ Goto(w, "receive_park", "receive")
    /\ token' = [token EXCEPT ![w] = FALSE]
    /\ UNCHANGED <<kill, run, iters, local, global, mailboxes, calls>>

\* The check returns: break and clock_end, or the next iteration.
CheckReturns(w) ==
    /\ calls[w] = {}
    /\ Goto(w, "receive_calls", IF global[w][Len(global[w])] THEN "outer" ELSE "step")
    /\ iters' = [iters EXCEPT ![w] = @ + 1]
    /\ run' = IF global[w][Len(global[w])] THEN [run EXCEPT ![w] = @ + 1] ELSE run
    /\ UNCHANGED <<token, kill, local, global, mailboxes, calls>>

-----------------------------------------------------------------------------
\* RuntimeHandle::kill, for each worker in turn.
KillStore(w) ==
    /\ kill[w] = "no" /\ \A v \in 0 .. w - 1 : kill[v] = "done"
    /\ kill' = [kill EXCEPT ![w] = "stored"]
    /\ UNCHANGED <<pc, token, run, iters, local, global, mailboxes, calls>>

KillUnpark(w) ==
    /\ kill[w] = "stored"
    /\ kill' = [kill EXCEPT ![w] = "done"]
    /\ token' = [token EXCEPT ![w] = TRUE]
    /\ UNCHANGED <<pc, run, iters, local, global, mailboxes, calls>>

\* Every scheduler checks the signal before an operator.
Killed(w) ==
    /\ kill_in_progress(w)
    /\ Goto(w, "step", "killed") \/ Goto(w, "outer", "killed")
    /\ UNCHANGED <<token, kill, run, iters, local, global, mailboxes, calls>>

Worker(w) ==
    \/ ClockStart(w) \/ step(w) \/ SchedulerPark(w)
    \/ try_send_all(w) \/ SendBlocked(w)
    \/ try_receive_all(w) \/ ReceiveBlocked(w)
    \/ \E v \in Workers : Callback(w, v)
    \/ SendReturns(w) \/ park(w) \/ CheckReturns(w)
    \/ Killed(w)

\* The thread that kills the runtime goes on once it has started.
Killer ==
    \E w \in Workers :
        (\E v \in Workers : kill_in_progress(v)) /\ (KillStore(w) \/ KillUnpark(w))

Finished(w) == pc[w] = "killed" \/ (pc[w] = "outer" /\ run[w] = Runs)

Next ==
    \/ \E w \in Workers : Worker(w) \/ KillStore(w) \/ KillUnpark(w)
    \/ (\A w \in Workers : Finished(w)) /\ UNCHANGED vars

Spec == Init /\ [][Next]_vars

\* No thread is descheduled for ever; nobody needs to kill the runtime.
Fairness == WF_vars(Killer) /\ \A w \in Workers : WF_vars(Worker(w))

FairSpec == Spec /\ Fairness

-----------------------------------------------------------------------------

\* "The circuit must iterate until all peers have reached a fixed point": the
\* result of a check is the conjunction of the statuses that the workers had
\* after this very iteration, so all workers leave the nested circuit after
\* the same one.
GlobalFixedpoint ==
    \A w \in Workers : \A i \in 1 .. Len(global[w]) :
        \A v \in Workers :
            /\ i <= Len(local[v])
            /\ global[w][i] => local[v][i]
            /\ i <= Len(global[v]) => global[v][i] = global[w][i]

\* Every worker completes every evaluation of the nested circuit, or all of
\* them are killed: no one is left waiting for a status, whenever the kill
\* signals arrive.
AllReturn == <>(\A w \in Workers : Finished(w))
=============================================================================
