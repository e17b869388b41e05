----------------------------- MODULE DBSPHandle -----------------------------
(***************************************************************************)
(* Runtime::init_circuit and DBSPHandle: a client thread that builds the   *)
(* same circuit in every worker thread, broadcasts commands to the workers *)
(* over per-worker channels, collects one response from each in worker     *)
(* order, and kills and joins the workers on an error or on request.       *)
(*                                                                         *)
(* A cycle of the circuit is one visit to its exchanges, if it has any: a  *)
(* worker leaves the exchange once all workers have entered it for this    *)
(* cycle (Exchange and WorkerCircuits justify this), or when it is killed. *)
(***************************************************************************)
EXTENDS Naturals, Sequences

CONSTANTS
    nworkers,
    Scenarios,    \* records: does the circuit have an exchange, and the
                  \* workers in which an operator or the constructor may panic
    MaxCommands   \* bound: commands issued by the client

ASSUME NWorkersAssumption == nworkers \in Nat \ {0}
ASSUME MaxCommandsAssumption == MaxCommands \in Nat \ {0}

Workers == 0 .. nworkers - 1
Commands == {"step", "profile"}   \* EnableProfiler, DumpProfile: "profile"

VARIABLES
    scenario,
    hpc,         \* the client thread's position in DBSPHandle
    worker,      \* the loop variable of its current loop over the workers
    command,     \* the command being broadcast
    issued,      \* commands issued
    cycles,      \* step commands issued
    result,      \* of the last call
    runtime,     \* DBSPHandle::runtime.is_some()
    senders,     \* command_senders has not been cleared
    receivers,   \* status_receivers has not been cleared
    pc,          \* the worker threads' positions
    commands,    \* command channels, bounded(1)
    status,      \* status channels, bounded(1): [to: number of the command, ok]
    token,       \* parker tokens
    kill_signal,
    taken,       \* commands that each worker has taken from its channel
    entered,     \* cycles in which each worker has entered the exchange
    steps        \* cycles completed by each worker

call == <<command, issued, cycles, result, runtime>>
channels == <<senders, receivers, commands, status>>
threads == <<pc, token, kill_signal, taken, entered, steps>>
vars == <<scenario, hpc, worker, call, channels, threads>>

Dead(w) == pc[w] \in {"panicked", "exited"}

Init ==
    /\ scenario \in Scenarios
    /\ hpc = "init" /\ worker = 0 /\ command = "step"
    /\ issued = 0 /\ cycles = 0 /\ result = "ok"
    /\ runtime = TRUE /\ senders = TRUE /\ receivers = TRUE
    /\ pc = [w \in Workers |-> "build"]
    /\ commands = [w \in Workers |-> <<>>]
    /\ status = [w \in Workers |-> <<>>]
    /\ token = [w \in Workers |-> FALSE]
    /\ kill_signal = [w \in Workers |-> FALSE]
    /\ taken = [w \in Workers |-> 0]
    /\ entered = [w \in Workers |-> 0]
    /\ steps = [w \in Workers |-> 0]

-----------------------------------------------------------------------------
\* Runtime::init_circuit

\* init_receivers[worker].recv(): a rendezvous (bounded(0)) with the worker.
\* The loop collects the status of every worker before it looks at any.
InitRecv ==
    /\ hpc = "init" /\ worker < nworkers
    /\ \/ /\ pc[worker] = "init_ok"
          /\ pc' = [pc EXCEPT ![worker] = "loop"]
          /\ UNCHANGED result
       \/ /\ pc[worker] = "init_err"
          /\ pc' = [pc EXCEPT ![worker] = "exited"]
          /\ result' = IF result = "ok" THEN "scheduler" ELSE result
       \/ /\ Dead(worker)
          /\ result' = IF result = "ok" THEN "worker_panic" ELSE result
          /\ UNCHANGED pc
    /\ worker' = worker + 1
    /\ UNCHANGED <<scenario, hpc, command, issued, cycles, runtime, channels,
                   token, kill_signal, entered, steps, taken>>

InitDone ==
    /\ hpc = "init" /\ worker = nworkers
    /\ hpc' = IF result = "ok" THEN "idle" ELSE "kill"
    /\ worker' = 0
    /\ runtime' = (result = "ok")
    /\ UNCHANGED <<scenario, command, issued, cycles, result, channels,
                   threads>>

-----------------------------------------------------------------------------
\* DBSPHandle::broadcast_command

Call(c) ==
    /\ hpc = "idle"
    /\ issued < MaxCommands
    /\ issued' = issued + 1
    /\ IF runtime
         THEN /\ hpc' = "send" /\ worker' = 0 /\ command' = c
              /\ cycles' = IF c = "step" THEN cycles + 1 ELSE cycles
              /\ UNCHANGED result
         ELSE result' = "killed" /\ UNCHANGED <<hpc, worker, command, cycles>>
    /\ UNCHANGED <<scenario, runtime, channels, threads>>

SendCommand ==
    /\ hpc = "send" /\ worker < nworkers
    /\ IF Dead(worker)
         THEN hpc' = "clear_senders" /\ result' = "worker_panic" /\ UNCHANGED commands
         ELSE /\ commands[worker] = <<>>
              /\ commands' = [commands EXCEPT ![worker] = <<command>>]
              /\ hpc' = "unpark" /\ UNCHANGED result
    /\ UNCHANGED <<scenario, worker, command, issued, cycles, runtime, senders,
                   receivers, status, threads>>

unpark_worker ==
    /\ hpc = "unpark"
    /\ token' = [token EXCEPT ![worker] = TRUE]
    /\ hpc' = "send" /\ worker' = worker + 1
    /\ UNCHANGED <<scenario, call, channels, pc, kill_signal, entered, steps,
                   taken>>

AllSent ==
    /\ hpc = "send" /\ worker = nworkers
    /\ hpc' = "recv" /\ worker' = 0
    /\ UNCHANGED <<scenario, call, channels, threads>>

\* Mutant: an error of recv() is ignored and the call repeated.
RecvStatus_mutant ==
    /\ hpc = "recv" /\ worker < nworkers
    /\ status[worker] # <<>> \/ Dead(worker)
    /\ status' = [status EXCEPT ![worker] = <<>>]
    /\ worker' = IF status[worker] # <<>> THEN worker + 1 ELSE worker
    /\ UNCHANGED <<scenario, hpc, call, senders, receivers, commands, threads>>

\* status_receivers[worker].recv(): a response, or the channel is empty and
\* its sender is gone.
RecvStatus ==
    /\ hpc = "recv" /\ worker < nworkers
    /\ status[worker] # <<>> \/ Dead(worker)
    /\ status' = [status EXCEPT ![worker] = <<>>]
    /\ IF status[worker] # <<>> /\ status[worker][1].ok
         THEN worker' = worker + 1 /\ UNCHANGED <<hpc, result>>
         ELSE /\ hpc' = "clear_senders"
              /\ result' = IF status[worker] = <<>> THEN "worker_panic" ELSE "scheduler"
              /\ UNCHANGED worker
    /\ UNCHANGED <<scenario, command, issued, cycles, runtime, senders,
                   receivers, commands, threads>>

\* Mutant: the call returns when the first worker has responded.
AllReceived_mutant ==
    /\ hpc = "recv" /\ worker > 0
    /\ hpc' = "idle" /\ result' = "ok"
    /\ UNCHANGED <<scenario, worker, command, issued, cycles, runtime,
                   channels, threads>>

AllReceived ==
    /\ hpc = "recv" /\ worker = nworkers
    /\ hpc' = "idle" /\ result' = "ok"
    /\ UNCHANGED <<scenario, worker, command, issued, cycles, runtime,
                   channels, threads>>

-----------------------------------------------------------------------------
\* DBSPHandle::kill, drop: kill_inner.
Kill ==
    /\ hpc = "idle" /\ runtime
    /\ hpc' = "clear_senders" /\ result' = "ok"
    /\ UNCHANGED <<scenario, worker, command, issued, cycles, runtime,
                   channels, threads>>

ClearSenders ==
    /\ hpc = "clear_senders"
    /\ senders' = FALSE /\ hpc' = "clear_receivers"
    /\ UNCHANGED <<scenario, worker, call, receivers, commands, status,
                   threads>>

ClearReceivers ==
    /\ hpc = "clear_receivers"
    /\ receivers' = FALSE /\ runtime' = FALSE
    /\ hpc' = "kill" /\ worker' = 0
    /\ UNCHANGED <<scenario, command, issued, cycles, result, senders,
                   commands, status, threads>>

\* RuntimeHandle::kill
KillStore ==
    /\ hpc = "kill" /\ worker < nworkers
    /\ kill_signal' = [kill_signal EXCEPT ![worker] = TRUE]
    /\ hpc' = "kill_unpark"
    /\ UNCHANGED <<scenario, worker, call, channels, pc, token, entered, steps,
                   taken>>

KillUnpark ==
    /\ hpc = "kill_unpark"
    /\ token' = [token EXCEPT ![worker] = TRUE]
    /\ hpc' = "kill" /\ worker' = worker + 1
    /\ UNCHANGED <<scenario, call, channels, pc, kill_signal, entered, steps,
                   taken>>

\* RuntimeHandle::join; init_circuit then returns its error without a handle.
join ==
    /\ hpc = "kill" /\ worker = nworkers
    /\ \A w \in Workers : Dead(w)
    /\ hpc' = IF senders THEN "failed" ELSE "idle"
    /\ UNCHANGED <<scenario, worker, call, channels, threads>>

Client ==
    \/ InitRecv \/ InitDone
    \/ SendCommand \/ unpark_worker \/ AllSent \/ RecvStatus \/ AllReceived
    \/ ClearSenders \/ ClearReceivers \/ KillStore \/ KillUnpark \/ join

-----------------------------------------------------------------------------
\* The closure that init_circuit runs in each worker thread.

\* RootCircuit::build: a circuit, an error of the scheduler, or a panic.
Build(w) ==
    /\ pc[w] = "build"
    /\ \E p \in {"init_ok", "init_err"} \cup
                 (IF w \in scenario.panics THEN {"panicked"} ELSE {}) :
         pc' = [pc EXCEPT ![w] = p]
    /\ UNCHANGED <<scenario, hpc, worker, call, channels, token, kill_signal,
                   entered, steps, taken>>

\* while !kill_in_progress()
CheckKill(w) ==
    /\ pc[w] = "loop"
    /\ pc' = [pc EXCEPT ![w] = IF kill_signal[w] THEN "exited" ELSE "try_recv"]
    /\ UNCHANGED <<scenario, hpc, worker, call, channels, token, kill_signal,
                   entered, steps, taken>>

\* command_receiver.try_recv()
NextCommand(w) ==
    CASE commands[w] = <<"step">>      -> "step"
      [] commands[w] = <<"profile">>   -> "respond_ok"
      [] commands[w] = <<>> /\ senders -> "park"
      [] OTHER                         -> "exited"

TryRecv(w) ==
    /\ pc[w] = "try_recv"
    /\ pc' = [pc EXCEPT ![w] = NextCommand(w)]
    /\ taken' = IF commands[w] # <<>> THEN [taken EXCEPT ![w] = @ + 1] ELSE taken
    /\ commands' = [commands EXCEPT ![w] = <<>>]
    /\ UNCHANGED <<scenario, hpc, worker, call, senders, receivers, status,
                   token, kill_signal, entered, steps>>

park(w) ==
    /\ pc[w] = "park" /\ token[w]
    /\ token' = [token EXCEPT ![w] = FALSE]
    /\ pc' = [pc EXCEPT ![w] = "loop"]
    /\ UNCHANGED <<scenario, hpc, worker, call, channels, kill_signal, entered,
                   steps, taken>>

-----------------------------------------------------------------------------
\* circuit.step()

\* The operators up to the exchange, whose callbacks unpark the peers.
EnterExchange(w) ==
    /\ pc[w] = "step" /\ scenario.exchange
    /\ entered' = [entered EXCEPT ![w] = @ + 1]
    /\ token' = [v \in Workers |-> TRUE]
    /\ pc' = [pc EXCEPT ![w] = "exchange"]
    /\ UNCHANGED <<scenario, hpc, worker, call, channels, kill_signal, steps,
                   taken>>

\* The peers' values have arrived; the scheduler may have parked while it
\* waited for them, on the parker that the command loop uses.
LeaveExchange(w) ==
    /\ pc[w] = "exchange"
    /\ \A v \in Workers : entered[v] >= entered[w]
    /\ \E b \in BOOLEAN : token' = [token EXCEPT ![w] = @ /\ b]
    /\ pc' = [pc EXCEPT ![w] = "operators"]
    /\ UNCHANGED <<scenario, hpc, worker, call, channels, kill_signal, entered,
                   steps, taken>>

AtOperator(w) == pc[w] = "operators" \/ (pc[w] = "step" /\ ~scenario.exchange)

StepDone(w) ==
    /\ AtOperator(w)
    /\ steps' = [steps EXCEPT ![w] = @ + 1]
    /\ pc' = [pc EXCEPT ![w] = "respond_ok"]
    /\ UNCHANGED <<scenario, hpc, worker, call, channels, token, kill_signal,
                   entered, taken>>

\* The scheduler checks the kill signal before each operator and after parking.
Killed(w) ==
    /\ pc[w] \in {"step", "exchange", "operators"}
    /\ kill_signal[w]
    /\ pc' = [pc EXCEPT ![w] = "respond_err"]
    /\ UNCHANGED <<scenario, hpc, worker, call, channels, token, kill_signal,
                   entered, steps, taken>>

Panic(w) ==
    /\ pc[w] \in {"step", "operators"}
    /\ w \in scenario.panics
    /\ pc' = [pc EXCEPT ![w] = "panicked"]
    /\ UNCHANGED <<scenario, hpc, worker, call, channels, token, kill_signal,
                   entered, steps, taken>>

\* status_sender.send(status): fails when the receiver is gone.
Respond(w) ==
    /\ pc[w] \in {"respond_ok", "respond_err"}
    /\ receivers => status[w] = <<>>
    /\ status' = IF receivers
         THEN [status EXCEPT ![w] = <<[to |-> taken[w], ok |-> pc[w] = "respond_ok"]>>]
         ELSE status
    /\ pc' = [pc EXCEPT ![w] = IF receivers THEN "loop" ELSE "exited"]
    /\ UNCHANGED <<scenario, hpc, worker, call, senders, receivers, commands,
                   token, kill_signal, entered, steps, taken>>

Worker(w) ==
    \/ Build(w) \/ CheckKill(w) \/ TryRecv(w) \/ park(w)
    \/ EnterExchange(w) \/ LeaveExchange(w) \/ StepDone(w) \/ Killed(w)
    \/ Panic(w) \/ Respond(w)

\* The client waits for the response of a worker that waits in the exchange
\* for one of a higher number, which has panicked before it got there.
WaitsForDead ==
    /\ hpc = "recv" /\ worker < nworkers /\ pc[worker] = "exchange"
    /\ \E v \in (worker + 1)..(nworkers - 1) :
         pc[v] = "panicked" /\ entered[v] < entered[worker]

\* The client has no handle any more, or may leave it alone, or hangs.
Done ==
    /\ hpc \in {"idle", "failed"} \/ WaitsForDead
    /\ \A w \in Workers : \/ Dead(w)
                          \/ pc[w] = "park" /\ ~token[w]
                          \/ pc[w] = "exchange" /\ WaitsForDead

Next ==
    \/ Client
    \/ \E c \in Commands : Call(c)
    \/ Kill
    \/ \E w \in Workers : Worker(w)
    \/ Done /\ UNCHANGED vars

Spec == Init /\ [][Next]_vars

\* Threads are not descheduled for ever; the client need not call anything.
Fairness == WF_vars(Client) /\ \A w \in Workers : WF_vars(Worker(w))

FairSpec == Spec /\ Fairness

-----------------------------------------------------------------------------

\* A worker evaluates cycle k + 1 only when every worker has completed cycle
\* k.  Operators without flow control of their own (Gather) rely on it.  When
\* a call has returned Ok all have completed exactly the cycles asked for.
CyclesInLockstep ==
    /\ \A v, w \in Workers :
         pc[w] \in {"step", "exchange", "operators"} => steps[v] >= steps[w]
    /\ hpc = "idle" /\ runtime => \A w \in Workers : steps[w] = cycles

\* A response in a status channel is to the command being broadcast, and when
\* a call has returned Ok no command or response is left in a channel to be
\* taken for one of a later call.
NoStaleResponse ==
    \A w \in Workers :
        /\ status[w] # <<>> /\ receivers => status[w][1].to = issued
        /\ hpc = "idle" /\ runtime => commands[w] = <<>> /\ status[w] = <<>>

\* init_circuit, a command, kill and drop return although workers panic at any
\* point of their closures: no wake-up is lost, and the client waits for no
\* worker that waits for it.  With one exception: broadcast_command receives
\* the responses in the order of the workers, so that it does not notice a
\* panic of a worker that one of a lower number waits for in an exchange.
CallsReturn ==
    (hpc \notin {"idle", "failed"}) ~> (hpc \in {"idle", "failed"} \/ WaitsForDead)
=============================================================================
