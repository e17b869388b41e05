------------------------------- MODULE Gather -------------------------------
(***************************************************************************)
(* The gather operator: GatherProducer in every worker pushes one batch    *)
(* per clock cycle into the worker's channel of the shared GatherData, and *)
(* GatherConsumer in the receiving worker pops all of them.                *)
(*                                                                         *)
(* Unlike ExchangeSender, GatherProducer is not an async operator: nothing *)
(* in the operator holds back a producer whose channel is still full.  The *)
(* workers may be driven by a DBSPHandle, which starts cycle k + 1 when    *)
(* all workers have completed cycle k (LockStep), or run freely in the     *)
(* closure passed to Runtime::run.  Assertions are those of a debug build. *)
(***************************************************************************)
EXTENDS Naturals, Sequences

CONSTANTS
    nworkers,
    receiver_worker,
    LockStep,
    MaxSteps         \* bound: clock cycles of each worker

ASSUME NWorkersAssumption == nworkers \in Nat \ {0}
ASSUME ReceiverAssumption == receiver_worker \in 0 .. nworkers - 1
ASSUME LockStepAssumption == LockStep \in BOOLEAN
ASSUME MaxStepsAssumption == MaxSteps \in Nat \ {0}

Workers == 0 .. nworkers - 1

VARIABLES
    pc,
    step,       \* cycles completed by each worker
    is_valid,
    values,     \* the cycle of the batch in the slot; MaxSteps: uninitialised
    notify,     \* the consumer's callback has been set
    notified,   \* the scheduler's notification for the consumer
    gathered    \* the batches popped in this cycle

vars == <<pc, step, is_valid, values, notify, notified, gathered>>

Init ==
    /\ pc = [w \in Workers |-> "build"]
    /\ step = [w \in Workers |-> 0]
    /\ is_valid = [w \in Workers |-> FALSE]
    /\ values = [w \in Workers |-> MaxSteps]
    /\ notify = FALSE
    /\ notified = FALSE
    /\ gathered = <<>>

Goto(w, from, to) == pc[w] = from /\ pc' = [pc EXCEPT ![w] = to]

all_channels_ready == \A w \in Workers : is_valid[w]

-----------------------------------------------------------------------------
\* The circuit is built and its scheduler prepared: GatherData::set_notify in
\* the receiving worker, followed by the scheduler's check for readiness.
register_ready_callback(w) ==
    /\ Goto(w, "build", "idle")
    /\ notify' = (notify \/ w = receiver_worker)
    /\ notified' = (notified \/ (w = receiver_worker /\ all_channels_ready))
    /\ UNCHANGED <<step, is_valid, values, gathered>>

\* DBSPHandle::step waits for every worker; Runtime::init_circuit waits for
\* every circuit to be built.  Mutant: no waiting.
MayStart_mutant(w) == TRUE

MayStart(w) ==
    LockStep => \A v \in Workers : pc[v] # "build" /\ step[v] >= step[w]

StepStart(w) ==
    /\ step[w] < MaxSteps
    /\ MayStart(w)
    /\ Goto(w, "idle", "push")
    /\ UNCHANGED <<step, is_valid, values, notify, notified, gathered>>

-----------------------------------------------------------------------------
\* GatherData::push: the assertion and the write, the flag, the callback.

\* Mutant: the flag is set before the value is written.
PushValue_mutant(w) ==
    /\ Goto(w, "push", "valid")
    /\ is_valid' = [is_valid EXCEPT ![w] = TRUE]
    /\ UNCHANGED <<step, values, notify, notified, gathered>>

PushValue(w) ==
    /\ Goto(w, "push", IF is_valid[w] THEN "panicked" ELSE "valid")
    /\ values' = IF is_valid[w] THEN values ELSE [values EXCEPT ![w] = step[w]]
    /\ UNCHANGED <<step, is_valid, notify, notified, gathered>>

PushValid(w) ==
    /\ Goto(w, "valid", "notify")
    /\ is_valid' = [is_valid EXCEPT ![w] = TRUE]
    /\ UNCHANGED <<step, values, notify, notified, gathered>>

\* noop_notify panics.
PushNotify(w) ==
    /\ Goto(w, "notify", IF notify THEN "consume" ELSE "panicked")
    /\ notified' = (notified \/ notify)
    /\ UNCHANGED <<step, is_valid, values, notify, gathered>>

-----------------------------------------------------------------------------
\* The scheduler of the receiving worker handles the notification.
\* Mutant: it polls and acts on no notification.
process_notifications_mutant(w) ==
    /\ pc[w] = "consume" /\ w = receiver_worker
    /\ UNCHANGED vars

process_notifications(w) ==
    /\ w = receiver_worker
    /\ notified
    /\ Goto(w, "consume", IF all_channels_ready THEN "pop" ELSE "consume")
    /\ notified' = FALSE
    /\ UNCHANGED <<step, is_valid, values, notify, gathered>>

\* GatherConsumer::eval, one GatherData::pop.
pop(w) ==
    /\ pc[w] = "pop" /\ Len(gathered) < nworkers
    /\ IF is_valid[Len(gathered)]
         THEN /\ gathered' = Append(gathered, values[Len(gathered)])
              /\ is_valid' = [is_valid EXCEPT ![Len(gathered)] = FALSE]
              /\ UNCHANGED pc
         ELSE /\ pc' = [pc EXCEPT ![w] = "panicked"]
              /\ UNCHANGED <<gathered, is_valid>>
    /\ UNCHANGED <<step, values, notify, notified>>

\* The end of the cycle: after GatherConsumer::eval, or after the
\* EmptyGatherConsumer of the other workers.
StepEnd(w) ==
    /\ IF w = receiver_worker
         THEN Len(gathered) = nworkers /\ Goto(w, "pop", "idle")
         ELSE Goto(w, "consume", "idle")
    /\ gathered' = IF w = receiver_worker THEN <<>> ELSE gathered
    /\ step' = [step EXCEPT ![w] = @ + 1]
    /\ UNCHANGED <<is_valid, values, notify, notified>>

Worker(w) ==
    \/ register_ready_callback(w)
    \/ StepStart(w)
    \/ PushValue(w)
    \/ PushValid(w)
    \/ PushNotify(w)
    \/ process_notifications(w)
    \/ pop(w)
    \/ StepEnd(w)

Done == \A w \in Workers : pc[w] = "idle" /\ step[w] = MaxSteps

Next == (\E w \in Workers : Worker(w)) \/ (Done /\ UNCHANGED vars)

Spec == Init /\ [][Next]_vars

\* No thread is descheduled for ever.
Fairness == \A w \in Workers : WF_vars(Worker(w))

FairSpec == Spec /\ Fairness

-----------------------------------------------------------------------------
\* No assertion of gather.rs fails: a push finds its channel empty and the
\* callback set, a pop finds a value, and GatherData is not "dropped ... with
\* values stored in its channel".
NoPanic ==
    /\ \A w \in Workers : pc[w] # "panicked"
    /\ Done => \A w \in Workers : ~is_valid[w]

\* GatherConsumer::eval returns the batch that every worker produced in this
\* cycle, one each and in worker order: none is lost, repeated or late.
GatherComplete ==
    \A i \in 1 .. Len(gathered) : gathered[i] = step[receiver_worker]

\* Every worker completes every cycle: the callback of the last push reaches
\* the consumer even when earlier ones were spent on a partial set of batches.
AllStepsComplete == <>Done
=============================================================================
