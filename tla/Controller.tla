----------------------------- MODULE Controller -----------------------------
(***************************************************************************)
(* The I/O controller of crates/adapters: transport threads push parsed    *)
(* records through input probes, the circuit thread steps the circuit, the *)
(* backpressure thread starts and pauses endpoints, one thread per output  *)
(* endpoint encodes batches, and a client starts, pauses, stops and        *)
(* connects endpoints.  The threads share only atomic counters, so every   *)
(* atomic access is a step of its own, and they wake each other with       *)
(* crossbeam parkers (a token per thread).  Outside the input probes an    *)
(* unpark is part of the step before it: it only sets the token, and the   *)
(* thread it wakes looks at everything again.                              *)
(*                                                                         *)
(* Records are counted, not represented.  The circuit has as many output   *)
(* records as input records.  Three history fields say where records       *)
(* really are: `handle` (pushed to the input handles, not yet taken by a   *)
(* step), `stepped` (processed by the circuit) and out[o].sent.            *)
(***************************************************************************)
EXTENDS Integers, Sequences, FiniteSets

CONSTANTS
    Endpoints,          \* input endpoints
    OutputEndpoints,
    MaxBatch,           \* bound: records in one buffer
    Scenarios           \* records: the configuration (its endpoints and limits), how many records each transport has to
                        \* read and Parser::eoi returns (`eoi`), the calls of
                        \* the client, and the errors that may happen

ASSUME ControllerAssumption ==
    /\ MaxBatch \in Nat /\ IsFiniteSet(Endpoints)
    /\ \A sc \in Scenarios :
         /\ sc.config \subseteq Endpoints /\ sc.outputs \subseteq OutputEndpoints
         /\ sc.errors \subseteq {"input", "step"}
         /\ {sc.min_batch_size_records, sc.max_buffered_records, sc.records,
             sc.eoi} \subseteq Nat

VARIABLES
    state,      \* ControllerInner::state
    inputs,     \* keys of ControllerInner::inputs
    stats,      \* keys of ControllerStatus::inputs
    ep,         \* transport thread and counters of each input endpoint
    g,          \* GlobalControllerMetrics
    handle, stepped,
    circuit,    \* the circuit thread
    bp,         \* the backpressure thread
    out,        \* output endpoints, their counters and threads
    client      \* the scenario, remaining calls, the step of the current one

vars == <<state, inputs, stats, ep, g, handle, stepped, circuit, bp, out, client>>

-----------------------------------------------------------------------------

(* Controller::with_config: every configured endpoint is connected, in the *)
(* paused state, and connect_input has unparked the backpressure thread.   *)
Init ==
    /\ state = "Paused"
    /\ \E sc \in Scenarios :
         /\ inputs = sc.config
         /\ client = [scenario |-> sc, calls |-> sc.calls, pc |-> "idle"]
    /\ stats = inputs
    /\ ep = [e \in Endpoints |->
               [pc |-> "check", cmd |-> "paused", left |-> client.scenario.records, n |-> 0,
                last |-> FALSE, buffered |-> 0, eoi |-> FALSE]]
    /\ g = [total |-> 0, buffered |-> 0, processed |-> 0]
    /\ handle = 0
    /\ stepped = 0
    /\ circuit = [pc |-> "top", token |-> FALSE, start |-> FALSE, todo |-> {},
                  cur |-> {}, processed |-> 0, batch |-> 0, dead |-> FALSE]
    /\ bp = [pc |-> "lock", token |-> inputs # {}, global_pause |-> TRUE,
             paused_endpoints |-> {}, todo |-> {}]
    /\ out = [o \in OutputEndpoints |->
               [pc |-> "top", token |-> FALSE, queue |-> <<>>, buffered |-> 0,
                processed |-> 0, sent |-> 0, cur |-> [n |-> 0, label |-> 0],
                connected |-> o \in client.scenario.outputs,
                stats |-> o \in client.scenario.outputs, uncounted |-> FALSE]]

Connected == {o \in OutputEndpoints : out[o].connected}
Counted == {o \in OutputEndpoints : out[o].stats}

\* Of the configuration; every input and output has the same limit.
min_batch_size_records == client.scenario.min_batch_size_records
max_buffered_records == client.scenario.max_buffered_records

unpark_circuit == circuit' = [circuit EXCEPT !.token = TRUE]
unpark_backpressure == bp' = [bp EXCEPT !.token = TRUE]

input_endpoint_full(e) == e \in stats /\ ep[e].buffered >= max_buffered_records

(* A count below zero is a wrapped one: larger than any limit. *)
output_buffers_full ==
    \E o \in Counted : out[o].buffered >= max_buffered_records \/ out[o].buffered < 0

pipeline_complete_mutant ==
    /\ \A e \in stats : ep[e].eoi
    /\ g.processed = g.total

pipeline_complete ==
    /\ \A e \in stats : ep[e].eoi
    /\ g.processed = g.total
    /\ \A o \in Counted : out[o].processed = g.total

-----------------------------------------------------------------------------
(* Input endpoints: the transport's reader thread, which looks at the last *)
(* command it was given before every read, and the InputProbe it calls.    *)

EpCheck(e) ==
    /\ ep[e].pc = "check"
    /\ ep[e].cmd # "paused"
    /\ ep' = [ep EXCEPT ![e].pc = IF ep[e].cmd = "running" THEN "read" ELSE "done"]
    /\ UNCHANGED <<state, inputs, stats, g, handle, stepped, circuit, bp, out, client>>

(* InputProbe::input: a buffer of n records is parsed and flushed to the   *)
(* input handle before any counter moves, or cleared if it does not parse. *)
EpInput(e) ==
    /\ ep[e].pc = "read"
    /\ ep[e].left > 0
    /\ \E n \in 1..MaxBatch :
         /\ n <= ep[e].left
         /\ \/ /\ handle' = handle + n
               /\ ep' = [ep EXCEPT ![e].pc = "total", ![e].n = n, ![e].left = @ - n]
            \/ /\ "input" \in client.scenario.errors
               /\ ep' = [ep EXCEPT ![e].pc = "check", ![e].left = @ - n]
               /\ UNCHANGED handle
    /\ UNCHANGED <<state, inputs, stats, g, stepped, circuit, bp, out, client>>

(* A read error is fatal for the transport thread (InputProbe::error). *)
EpReadError(e) ==
    /\ ep[e].pc = "read"
    /\ "input" \in client.scenario.errors
    /\ ep' = [ep EXCEPT ![e].pc = "done"]
    /\ UNCHANGED <<state, inputs, stats, g, handle, stepped, circuit, bp, out, client>>

(* InputProbe::eoi: the parser may return records it was still holding. *)
EpEoi(e) ==
    /\ ep[e].pc = "read"
    /\ ep[e].left = 0
    /\ \/ LET n == client.scenario.eoi IN
            /\ handle' = handle + n
            /\ ep' = [ep EXCEPT ![e].pc = "total", ![e].n = n, ![e].last = TRUE]
       \/ /\ "input" \in client.scenario.errors
          /\ ep' = [ep EXCEPT ![e].pc = "done"]
          /\ UNCHANGED handle
    /\ UNCHANGED <<state, inputs, stats, g, stepped, circuit, bp, out, client>>

(* GlobalControllerMetrics::input_batch, first counter. *)
EpTotal(e) ==
    /\ ep[e].pc = "total"
    /\ g' = [g EXCEPT !.total = @ + ep[e].n]
    /\ ep' = [ep EXCEPT ![e].pc = "buffered"]
    /\ UNCHANGED <<state, inputs, stats, handle, stepped, circuit, bp, out, client>>

input_batch_wakes_mutant(old, n) ==
    old < min_batch_size_records /\ old + n >= min_batch_size_records

(* Whether adding n to `old` buffered records wakes the circuit thread. *)
input_batch_wakes(old, n) ==
    \/ old = 0
    \/ old <= min_batch_size_records /\ old + n > min_batch_size_records

eoi_wakes(old, n) ==
    old < min_batch_size_records /\ old + n >= min_batch_size_records

EpBuffered(e) ==
    /\ ep[e].pc = "buffered"
    /\ g' = [g EXCEPT !.buffered = @ + ep[e].n]
    /\ LET wakes == IF ep[e].last THEN eoi_wakes(g.buffered, ep[e].n)
                                  ELSE input_batch_wakes(g.buffered, ep[e].n)
       IN ep' = [ep EXCEPT ![e].pc = IF wakes THEN "wake_circuit" ELSE "endpoint"]
    /\ UNCHANGED <<state, inputs, stats, handle, stepped, circuit, bp, out, client>>

EpWakeCircuit(e) ==
    /\ ep[e].pc = "wake_circuit"
    /\ unpark_circuit
    /\ ep' = [ep EXCEPT ![e].pc = "endpoint"]
    /\ UNCHANGED <<state, inputs, stats, g, handle, stepped, bp, out, client>>

(* InputEndpointStatus::add_buffered; nothing if the endpoint has no stats. *)
EpEndpoint(e) ==
    /\ ep[e].pc = "endpoint"
    /\ LET old == ep[e].buffered
           fills == old < max_buffered_records /\ old + ep[e].n >= max_buffered_records
           next == IF ep[e].last THEN IF e \in stats THEN "eoi" ELSE "done"
                   ELSE IF e \in stats /\ fills THEN "wake_bp" ELSE "check"
       IN ep' = [ep EXCEPT ![e].pc = next,
                           ![e].buffered = IF e \in stats THEN @ + ep[e].n ELSE @]
    /\ UNCHANGED <<state, inputs, stats, g, handle, stepped, circuit, bp, out, client>>

EpWakeBackpressure(e) ==
    /\ ep[e].pc = "wake_bp"
    /\ unpark_backpressure
    /\ ep' = [ep EXCEPT ![e].pc = "check"]
    /\ UNCHANGED <<state, inputs, stats, g, handle, stepped, circuit, out, client>>

EpSetEoi(e) ==
    /\ ep[e].pc = "eoi"
    /\ ep' = [ep EXCEPT ![e].pc = "done", ![e].eoi = TRUE]
    /\ UNCHANGED <<state, inputs, stats, g, handle, stepped, circuit, bp, out, client>>

Endpoint(e) ==
    \/ EpCheck(e) \/ EpInput(e) \/ EpReadError(e) \/ EpEoi(e) \/ EpTotal(e) \/ EpBuffered(e)
    \/ EpWakeCircuit(e) \/ EpEndpoint(e) \/ EpWakeBackpressure(e) \/ EpSetEoi(e)

-----------------------------------------------------------------------------
(* The circuit thread. *)

CTop ==
    /\ circuit.pc = "top"
    /\ circuit' = [circuit EXCEPT !.pc = IF state = "Terminated" THEN "exit"
                                         ELSE IF output_buffers_full THEN "park"
                                         ELSE "decide"]
    /\ UNCHANGED <<state, inputs, stats, ep, g, handle, stepped, bp, out, client>>

(* Step now: there are enough records, or the buffering delay is over.  How *)
(* long the delay is, is abstracted: once the clock has been started it may *)
(* be found to be over at any time.                                         *)
CStepNow ==
    /\ circuit.pc = "decide"
    /\ g.buffered > min_batch_size_records \/ circuit.start
    /\ circuit' = [circuit EXCEPT !.pc = "consume", !.start = FALSE]
    /\ UNCHANGED <<state, inputs, stats, ep, g, handle, stepped, bp, out, client>>

(* Too few records: wait a millisecond for more; or none: park. *)
CWait ==
    /\ circuit.pc = "decide"
    /\ g.buffered <= min_batch_size_records
    /\ circuit' = IF g.buffered > 0
                  THEN [circuit EXCEPT !.pc = "park_timeout", !.start = TRUE]
                  ELSE [circuit EXCEPT !.pc = "park"]
    /\ UNCHANGED <<state, inputs, stats, ep, g, handle, stepped, bp, out, client>>

CPark ==
    /\ circuit.pc = "park" /\ circuit.token
    /\ circuit' = [circuit EXCEPT !.pc = "top", !.token = FALSE]
    /\ UNCHANGED <<state, inputs, stats, ep, g, handle, stepped, bp, out, client>>

CParkTimeout ==
    /\ circuit.pc = "park_timeout"
    /\ circuit' = [circuit EXCEPT !.pc = "top", !.token = FALSE]
    /\ UNCHANGED <<state, inputs, stats, ep, g, handle, stepped, bp, out, client>>

(* consume_buffered_inputs: the global counter, then each endpoint's. *)
CConsume ==
    /\ circuit.pc = "consume"
    /\ g' = [g EXCEPT !.buffered = 0]
    /\ circuit' = [circuit EXCEPT !.pc = "consume_ep", !.todo = stats]
    /\ UNCHANGED <<state, inputs, stats, ep, handle, stepped, bp, out, client>>

CConsumeEp(e) ==
    /\ circuit.pc = "consume_ep" /\ e \in circuit.todo
    /\ ep' = [ep EXCEPT ![e].buffered = 0]
    /\ circuit' = [circuit EXCEPT !.todo = @ \ {e}]
    /\ UNCHANGED <<state, inputs, stats, g, handle, stepped, bp, out, client>>

(* The records received so far label the outputs of the coming step; then   *)
(* unpark_backpressure.                                                     *)
CReadTotal ==
    /\ circuit.pc = "consume_ep" /\ circuit.todo = {}
    /\ circuit' = [circuit EXCEPT !.pc = "step", !.processed = g.total]
    /\ unpark_backpressure
    /\ UNCHANGED <<state, inputs, stats, ep, g, handle, stepped, out, client>>

(* DBSPHandle::step takes everything in the input handles.  When it fails  *)
(* the runtime is gone and so does every later step; the error is reported *)
(* and the thread goes on.                                                 *)
CStep ==
    /\ circuit.pc = "step"
    /\ \/ /\ ~circuit.dead
          /\ handle' = 0
          /\ stepped' = stepped + handle
          /\ circuit' = [circuit EXCEPT !.pc = "processed", !.batch = handle]
       \/ /\ "step" \in client.scenario.errors
          /\ circuit' = [circuit EXCEPT !.pc = "processed", !.batch = 0, !.dead = TRUE]
          /\ UNCHANGED <<handle, stepped>>
    /\ UNCHANGED <<state, inputs, stats, ep, g, bp, out, client>>

Looped ==
    [circuit EXCEPT !.pc = "top", !.cur = {}, !.batch = 0, !.processed = 0]

CProcessed ==
    /\ circuit.pc = "processed"
    /\ g' = [g EXCEPT !.processed = circuit.processed]
    /\ circuit' = IF Connected = {} THEN Looped
                  ELSE [circuit EXCEPT !.pc = "output", !.todo = Connected]
    /\ UNCHANGED <<state, inputs, stats, ep, handle, stepped, bp, out, client>>

CEnqueue_mutant(o) ==
    /\ circuit.pc = "output" /\ o \in circuit.todo
    /\ circuit' = [circuit EXCEPT !.pc = "push", !.todo = @ \ {o}, !.cur = {o}]
    /\ UNCHANGED <<state, inputs, stats, ep, g, handle, stepped, bp, out, client>>

(* For every output endpoint, under a read lock on `outputs`: count the     *)
(* batch, unless there are no statistics, queue it, wake its thread.        *)
CEnqueue(o) ==
    /\ circuit.pc = "output" /\ o \in circuit.todo
    /\ out' = IF out[o].stats THEN [out EXCEPT ![o].buffered = @ + circuit.batch]
                               ELSE [out EXCEPT ![o].uncounted = TRUE]
    /\ circuit' = [circuit EXCEPT !.pc = "push", !.todo = @ \ {o}, !.cur = {o}]
    /\ UNCHANGED <<state, inputs, stats, ep, g, handle, stepped, bp, client>>

CPush(o) ==
    /\ circuit.pc = "push" /\ o \in circuit.cur
    /\ out' = [out EXCEPT ![o].queue =
                 Append(@, [n |-> circuit.batch, label |-> circuit.processed]),
                          ![o].token = TRUE]
    /\ circuit' = IF circuit.todo = {} THEN Looped
                  ELSE [circuit EXCEPT !.pc = "output", !.cur = {}]
    /\ UNCHANGED <<state, inputs, stats, ep, g, handle, stepped, bp, client>>

CircuitThread ==
    \/ CTop \/ CStepNow \/ CWait \/ CPark \/ CParkTimeout \/ CConsume \/ CReadTotal
    \/ CStep \/ CProcessed
    \/ \E e \in Endpoints : CConsumeEp(e)
    \/ \E o \in OutputEndpoints : CEnqueue(o) \/ CPush(o)

-----------------------------------------------------------------------------
(* The backpressure thread.  It holds the lock on `inputs` while it walks   *)
(* over the endpoints.                                                      *)

BLock ==
    /\ bp.pc = "lock"
    /\ bp' = CASE state = "Paused" ->
                    [bp EXCEPT !.pc = "pausing",
                               !.todo = IF bp.global_pause THEN {} ELSE inputs]
               [] state = "Running" -> [bp EXCEPT !.pc = "running", !.todo = inputs]
               [] OTHER -> [bp EXCEPT !.pc = "exit"]
    /\ UNCHANGED <<state, inputs, stats, ep, g, handle, stepped, circuit, out, client>>

BPause_mutant(e) ==
    /\ bp.pc = "pausing" /\ e \in bp.todo
    /\ bp' = [bp EXCEPT !.todo = @ \ {e}]
    /\ UNCHANGED <<state, inputs, stats, ep, g, handle, stepped, circuit, out, client>>

BPause(e) ==
    /\ bp.pc = "pausing" /\ e \in bp.todo
    /\ ep' = IF e \in bp.paused_endpoints THEN ep ELSE [ep EXCEPT ![e].cmd = "paused"]
    /\ bp' = [bp EXCEPT !.todo = @ \ {e}]
    /\ UNCHANGED <<state, inputs, stats, g, handle, stepped, circuit, out, client>>

BRun(e) ==
    /\ bp.pc = "running" /\ e \in bp.todo
    /\ IF input_endpoint_full(e)
       THEN /\ ep' = IF ~bp.global_pause /\ e \notin bp.paused_endpoints
                     THEN [ep EXCEPT ![e].cmd = "paused"] ELSE ep
            /\ bp' = [bp EXCEPT !.todo = @ \ {e}, !.paused_endpoints = @ \cup {e}]
       ELSE /\ ep' = IF bp.global_pause \/ e \in bp.paused_endpoints
                     THEN [ep EXCEPT ![e].cmd = "running"] ELSE ep
            /\ bp' = [bp EXCEPT !.todo = @ \ {e}, !.paused_endpoints = @ \ {e}]
    /\ UNCHANGED <<state, inputs, stats, g, handle, stepped, circuit, out, client>>

BUnlock ==
    /\ bp.pc \in {"pausing", "running"} /\ bp.todo = {}
    /\ bp' = [bp EXCEPT !.pc = "park", !.global_pause = bp.pc = "pausing"]
    /\ UNCHANGED <<state, inputs, stats, ep, g, handle, stepped, circuit, out, client>>

BPark ==
    /\ bp.pc = "park" /\ bp.token
    /\ bp' = [bp EXCEPT !.pc = "lock", !.token = FALSE]
    /\ UNCHANGED <<state, inputs, stats, ep, g, handle, stepped, circuit, out, client>>

BackpressureThread ==
    BLock \/ BUnlock \/ BPark \/ \E e \in Endpoints : BPause(e) \/ BRun(e)

-----------------------------------------------------------------------------
(* The thread of an output endpoint. *)

OTop(o) ==
    /\ out[o].connected /\ out[o].pc = "top"
    /\ out' = [out EXCEPT ![o] =
                 IF state = "Terminated" THEN [@ EXCEPT !.pc = "exit"]
                 ELSE IF out[o].queue = <<>> THEN [@ EXCEPT !.pc = "park"]
                 ELSE [@ EXCEPT !.pc = "encode", !.cur = Head(out[o].queue),
                                !.queue = Tail(out[o].queue)]]
    /\ UNCHANGED <<state, inputs, stats, ep, g, handle, stepped, circuit, bp, client>>

OPark(o) ==
    /\ out[o].pc = "park" /\ out[o].token
    /\ out' = [out EXCEPT ![o].pc = "top", ![o].token = FALSE]
    /\ UNCHANGED <<state, inputs, stats, ep, g, handle, stepped, circuit, bp, client>>

(* An encoder error is only reported: the batch counts as sent either way.  *)
(* Then output_batch stores the label, if there are statistics.             *)
OEncode(o) ==
    /\ out[o].pc = "encode"
    /\ out' = [out EXCEPT ![o] =
                 IF out[o].stats
                 THEN [@ EXCEPT !.pc = "release", !.sent = out[o].sent + out[o].cur.n,
                                !.processed = out[o].cur.label]
                 ELSE [@ EXCEPT !.pc = "top", !.sent = out[o].sent + out[o].cur.n,
                                !.cur = [n |-> 0, label |-> 0]]]
    /\ UNCHANGED <<state, inputs, stats, ep, g, handle, stepped, circuit, bp, client>>

output_batch_wakes(old, n) ==
    /\ old - n \in 0..max_buffered_records
    /\ old >= max_buffered_records \/ old < 0

(* The rest of output_batch: the buffered records.  (transmitted_records is *)
(* left out: it is reported and never read by the controller.)              *)
(* A subtraction below zero would wrap in the code; here it stays visible.  *)
ORelease(o) ==
    /\ out[o].pc = "release"
    /\ LET old == out[o].buffered
           n == out[o].cur.n
       IN /\ out' = [out EXCEPT ![o].buffered = old - n, ![o].pc = "top",
                                ![o].cur = [n |-> 0, label |-> 0]]
          /\ circuit' = [circuit EXCEPT !.token = @ \/ output_batch_wakes(old, n)]
    /\ UNCHANGED <<state, inputs, stats, ep, g, handle, stepped, bp, client>>

OutputThread(o) ==
    OTop(o) \/ OPark(o) \/ OEncode(o) \/ ORelease(o)

-----------------------------------------------------------------------------
(* The client makes one call after the other. *)

Call(name) == client.pc = "idle" /\ client.calls # <<>> /\ Head(client.calls) = name
Then(pc) == client' = [client EXCEPT !.calls = Tail(@), !.pc = pc]
InputsUnlocked == bp.pc \notin {"pausing", "running"}

start ==
    /\ Call("start")
    /\ state' = "Running"
    /\ unpark_backpressure
    /\ Then("idle")
    /\ UNCHANGED <<inputs, stats, ep, g, handle, stepped, circuit, out>>

pause ==
    /\ Call("pause")
    /\ state' = "Paused"
    /\ unpark_backpressure
    /\ Then("idle")
    /\ UNCHANGED <<inputs, stats, ep, g, handle, stepped, circuit, out>>

stop_mutant ==
    /\ Call("stop")
    /\ InputsUnlocked
    /\ ep' = [e \in Endpoints |-> IF e \in inputs THEN [ep[e] EXCEPT !.cmd = "disconnected"]
                                                  ELSE ep[e]]
    /\ inputs' = {}
    /\ state' = "Terminated"
    /\ unpark_backpressure
    /\ Then("idle")
    /\ UNCHANGED <<stats, g, handle, stepped, circuit, out>>

stop ==
    /\ Call("stop")
    /\ InputsUnlocked
    /\ ep' = [e \in Endpoints |-> IF e \in inputs THEN [ep[e] EXCEPT !.cmd = "disconnected"]
                                                  ELSE ep[e]]
    /\ inputs' = {}
    /\ state' = "Terminated"
    /\ unpark_circuit
    /\ unpark_backpressure
    /\ Then("idle")
    /\ UNCHANGED <<stats, g, handle, stepped, out>>

(* connect_input publishes the endpoint, then adds its statistics. *)
connect_input(e) ==
    /\ Call("connect")
    /\ InputsUnlocked
    /\ e \notin inputs
    /\ inputs' = inputs \cup {e}
    /\ Then("add_input")
    /\ UNCHANGED <<state, stats, ep, g, handle, stepped, circuit, bp, out>>

add_input ==
    /\ client.pc = "add_input"
    /\ stats' = stats \cup inputs
    /\ unpark_backpressure
    /\ client' = [client EXCEPT !.pc = "idle"]
    /\ UNCHANGED <<state, inputs, ep, g, handle, stepped, circuit, out>>

(* connect_output, under a write lock on `outputs`: the endpoint and its    *)
(* thread; then, without the lock, its statistics.  It receives what later  *)
(* steps put into the output handle, and what the handle holds now.         *)
connect_output(o) ==
    /\ Call("connect_output")
    /\ circuit.pc \notin {"output", "push"}
    /\ ~out[o].connected
    /\ out' = [out EXCEPT ![o].connected = TRUE,
                          ![o].sent = stepped - (IF circuit.pc = "processed"
                                                 THEN circuit.batch ELSE 0)]
    /\ Then("add_output")
    /\ UNCHANGED <<state, inputs, stats, ep, g, handle, stepped, circuit, bp>>

add_output ==
    /\ client.pc = "add_output"
    /\ out' = [o \in OutputEndpoints |-> [out[o] EXCEPT !.stats = @ \/ out[o].connected]]
    /\ client' = [client EXCEPT !.pc = "idle"]
    /\ UNCHANGED <<state, inputs, stats, ep, g, handle, stepped, circuit, bp>>

Client ==
    \/ start \/ pause \/ stop \/ add_input \/ add_output
    \/ \E e \in Endpoints : connect_input(e)
    \/ \E o \in OutputEndpoints : connect_output(o)

-----------------------------------------------------------------------------

Next ==
    \/ CircuitThread \/ BackpressureThread \/ Client
    \/ \E e \in Endpoints : Endpoint(e)
    \/ \E o \in OutputEndpoints : OutputThread(o)

Spec == Init /\ [][Next]_vars

(* Every thread is scheduled; the buffering delay does not last for ever. *)
FairSpec ==
    /\ Spec
    /\ WF_vars(CircuitThread) /\ SF_vars(CStepNow)
    /\ WF_vars(BackpressureThread)
    /\ WF_vars(Client)
    /\ \A e \in Endpoints : WF_vars(Endpoint(e))
    /\ \A o \in OutputEndpoints : WF_vars(OutputThread(o))

-----------------------------------------------------------------------------

(* The records of the batches in a queue. *)
Records(queue) == UNION {{i} \X (1..queue[i].n) : i \in DOMAIN queue}

(* The number of buffered records of an output is what its queue, its       *)
(* thread and the circuit thread between counting and queueing a batch hold *)
(* ("Increment stats first, so we don't end up with negative counts"), also *)
(* for an output that is connected while the pipeline runs.  Excepted is an *)
(* output that was given a batch before connect_output added its            *)
(* statistics: nobody has counted that batch.                               *)
OutputAccounting ==
    \A o \in {q \in Counted : ~out[q].uncounted} :
        out[o].buffered =
            Cardinality(Records(out[o].queue)) + out[o].cur.n
            + (IF circuit.pc = "push" /\ o \in circuit.cur THEN circuit.batch ELSE 0)

(* A counter of processed records never runs ahead of the data: the records *)
(* total_processed_records counts have gone through the circuit, and the    *)
(* outputs of the records an output endpoint is labelled with have been     *)
(* handed to its encoder (OutputEndpointMetrics).  So when                  *)
(* pipeline_complete says so, no record is left anywhere, unless            *)
(* connect_input is under way: it publishes an endpoint, which may start to *)
(* read, before pipeline_complete knows of it.  (A failed step counts as    *)
(* processed: that case is excepted.)                                       *)
CompleteMeansDone ==
    ~circuit.dead =>
        /\ g.processed <= stepped
        /\ \A o \in OutputEndpoints : out[o].processed <= out[o].sent
        /\ pipeline_complete /\ client.pc # "add_input" =>
             handle = 0 /\ \A o \in Counted : out[o].sent = stepped

LastCall(name) == client.calls # <<>> /\ client.calls[Len(client.calls)] = name

(* The circuit thread is parked and nobody is going to wake it. *)
CircuitParked == circuit.pc = "park" /\ ~circuit.token

(* The records that parsers returned at the end of all inputs wait for a    *)
(* step: ControllerStatus::eoi wakes the circuit thread only if they take   *)
(* the count from below min_batch_size_records (0 by default) up to it.     *)
Overlooked ==
    /\ CircuitParked
    /\ \A e \in inputs : ep[e].eoi
    /\ g.buffered \in 1..(client.scenario.eoi * Cardinality(inputs))
    /\ ~eoi_wakes(0, g.buffered)

(* An endpoint is held back for the records of its last batch although they *)
(* are processed: consume_buffered_inputs came between the two increments   *)
(* for that batch, of the global and of the endpoint's counter.             *)
Skewed ==
    /\ CircuitParked
    /\ g.buffered = 0 /\ handle = 0
    /\ \E e \in bp.paused_endpoints : input_endpoint_full(e) /\ ep[e].buffered = ep[e].n

(* A pipeline that is started and left alone reads all its input, processes *)
(* it and sends all outputs, whatever pauses came before: no wake-up of the *)
(* circuit, backpressure or output threads is lost.  Excepted are a         *)
(* transport that hit a fatal error and the two wake-ups that the code does *)
(* lose: for records returned at the end of the input, and for an endpoint  *)
(* that a single batch fills while the counters are being reset.            *)
StartedCompletes ==
    LastCall("start") =>
        \/ <>(pipeline_complete \/ \E e \in inputs : ep[e].pc = "done" /\ ~ep[e].eoi)
        \/ <>[]Overlooked
        \/ <>[]Skewed

(* After pause() every endpoint is eventually told to pause, also one that  *)
(* backpressure has paused or resumes just then, and what it had already    *)
(* pushed is still processed, unless a step fails or the wake-up for the    *)
(* records at the end of the input is lost.                                 *)
PauseQuiesces ==
    LastCall("pause") =>
        <>[](/\ \A e \in inputs : ep[e].cmd = "paused"
             /\ \/ (handle = 0 \/ circuit.dead) /\ g.buffered = 0
                \/ Overlooked)

(* Controller::stop returns: both threads it joins exit. *)
StopJoins == LastCall("stop") => <>(circuit.pc = "exit" /\ bp.pc = "exit")
=============================================================================
