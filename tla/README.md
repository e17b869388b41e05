# Verification of DBSP

TLA+ models of the Database Stream Processor: the multithreaded runtime, the
incremental and time series operators and the fueled trace of `crates/dbsp`, the
I/O controller of `crates/adapters`, and the compiler service and runner of
`crates/pipeline_manager`. TLC checks the models on small instances. The safety
of the runtime (exchange, gather, fixed point, scheduler, workers, handle, input
and output handles), of the controller and of the pipeline manager is also proved
with TLAPS, for any number of workers, clock cycles, circuits, endpoints,
projects, configs and pipelines.

`PROJECT.json` lists components, runs, mutants, hazards, findings and theorems,
and maps every definition to the source lines it models.

## 1. The system and how its parts interact

A **circuit** is a graph of operators. The circuit builder
(`circuit/circuit_builder.rs`) constructs one copy of it in each **worker
thread** of the `Runtime` (`circuit/runtime.rs`). A client drives all workers
through a `DBSPHandle` (`circuit/dbsp_handle.rs`): it sends a command to each,
unparks it, and waits for one response of each; it and other threads feed
**input handles** and read **output handles** (`operator/input.rs`,
`output.rs`), mailboxes that the workers empty and fill in each cycle. In a
worker, a **scheduler**
(`circuit/schedule/`) evaluates every operator once per clock cycle; operators
of different workers communicate through **exchange** objects and **gather**
channels, and announce that they are ready by callbacks that unpark the peer. A
nested circuit is iterated until all workers have reached a **fixed point**,
which they find out by another exchange. **Incremental operators** (join,
distinct, aggregate, upsert, windows, rolling aggregates) turn changes of their
inputs into changes of their output, inside a nested circuit in two dimensions
of time. Stateful operators keep their history in a **spine** of batches that
are merged little by little.

The **controller** connects a circuit to transports: reader threads push parsed
records into the circuit's input handles and count them, a circuit thread
decides when to step, a backpressure thread pauses and resumes endpoints, and
output threads encode batches. The **pipeline manager** compiles SQL projects
one at a time with child processes and launches, shuts down and deletes the
resulting pipelines, keeping its state in a database behind one mutex.

### Inventory

| Part | State | Operations | What is hard about it | Properties wanted |
| --- | --- | --- | --- | --- |
| Exchange | N*N mailboxes, two counters and two callbacks per worker | try_send_all, try_receive_all, register callbacks | counters summarise mailboxes that change under them; callbacks race with registration and waiting | no overwrite, no empty unwrap, one round at a time, no lost notification, termination |
| Dynamic scheduler | tasks, run queue, notification set, parker token | prepare, step, notify, kill | notifications from other threads, one token shared with nested schedulers, ownership edges | valid and complete schedules, no lost wake-up, kill ends it |
| Worker circuits | one scheduler per worker, shared exchanges | step | each worker chooses its own order of operators | no deadlock, rounds do not mix |
| Gather | one channel per worker | push, pop | nothing in the operator stops a second push | every value exactly once |
| DBSP handle, runtime | command and response channels, kill flags, tokens | init, step, profile, kill, drop | errors and panics in the middle of a broadcast | calls return, no stale response, lockstep |
| Fixed point | flags, iteration counters | termination check, kill | shared token, unequal convergence | all leave together, none too early |
| Spine | layers of batches and merges | insert, exert, recede_to, truncate, consolidate | amortised fuel must finish merges in time | no panic, no batch lost, layer invariants, termination |
| Layer merge | cursors, builder, fuel | work | suspended anywhere, bound raised in between | exact result, honest accounting of fuel |
| Input and output handles | mailboxes between client and workers | push, append, clear_input, take, Input and Output eval | not atomic over the workers, concurrent with steps | every update once and in order, a step sees what came before it |
| Incremental operators | traces, pending outputs, keys of interest | eval, clock_start, clock_end, fixedpoint | changes take effect in later iterations, of this epoch or others | output is the change of the query's result, fixed point neither early nor never |
| Time series | radix tree, watermark, window | eval | saturating ranges, nodes split and collapse, history is forgotten | as above; the tree is canonical |
| Controller | pipeline state, counters, queues, tokens | input, eoi, step, pause, start, stop, connect | separate atomics, separate threads, wake-ups by threshold | completion means done, nothing stalls, counters agree with queues |
| Compiler service | project rows, job, child process | project API, compiler loop, restart | state read under the lock and used after it | status tells the truth, requests end |
| Runner | pipeline and config rows, processes | launch, shut down, delete | waits for start-up without the lock; runs what the compiler left on disk | no orphaned process, no stale reference, the declared code runs |

Section 5 lists what is not modelled and why.

## 2. Modules

Names follow the source. Every atomic access, lock region or channel operation
that other threads can observe is one action; a handler under a lock is one
action; an operator's `eval` is an operator on its state. A definition `X_mutant` (or another suffix) just before `X` is a faulty
variant of it, used only to show that a property can fail.

**Exchange.tla** (`operator/communication/exchange.rs`). `mailboxes`,
`receiver_counters`, `sender_counters` and the callbacks are the fields of
`Exchange`; `pc` and `peer` say where each worker is in the loops of
`try_send_all` and `try_receive_all`. Posting, each counter update, the load of
the ready check, and each callback are separate actions. **ExchangeRounds.tla**
is what the object promises: each worker sends for its cycle and takes, once
all have sent, exactly the values of that cycle. `ImplementsRounds` is the
refinement.

**Tasks.tla** (`schedule/mod.rs`, `dynamic_scheduler.rs`) has the task table as
a value and what `prepare`, `dequeue_next_task`, `process_notifications` and
the end of a task do to it, on graphs with multiple edges and ownership
preferences. **DynamicScheduler.tla** adds the worker thread, its token, other
threads that notify it in three steps (status, set, unpark), spurious
notifications, nested schedulers that take the token, and kill.

**WorkerCircuits.tla** composes one `Tasks` table per worker with shared
exchanges. An exchange operator is evaluated in one step, the granularity the
proofs about Exchange justify; its callbacks remain separate. It also
discharges what DynamicScheduler assumes, that operators become ready again.

**Gather.tla** (`gather.rs`): value, valid bit and notification of a push, and
the pops, are separate steps. `LockStep` says whether a `DBSPHandle` drives the
workers or they step on their own inside `Runtime::run`.

**DBSPHandle.tla** (`dbsp_handle.rs`, `runtime.rs`): the client in
`init_circuit`, `broadcast_command`, `kill_inner`, `join` and `Drop`; the loop
of each worker over commands, responses and parking; panics of constructors and
operators. A step of the circuit is one meeting of the workers if the circuit
has an exchange. **StreamHandles.tla** (`operator/input.rs`, `output.rs`)
composes it with threads that own clones of a `CollectionHandle` or
`UpsertHandle`: `append` and `clear_input` serve the workers' mailboxes one by
one; in a step each worker takes its input mailbox and overwrites its output
mailbox at moments of its own, and the client takes values at any time. All its
steps are steps of DBSPHandle or leave that module's variables alone, and a
cycle ends only when both operators have been evaluated. `log`, `cleared`,
`before` and `read` are history.

**Fixedpoint.tla** (`circuit_builder.rs`, `IterativeExecutor`): iterations, the
exchange of the convergence flags with its waits on the thread's parker, and
kill.

**Spine.tla** (`trace/spine_fueled.rs`): the vector of layers and all its
manipulations as operators, applied by insert, recede_to, truncate_keys_below
and consolidate. A batch is the number of inserted batches it stands for and
its number of updates; merging may cancel some.

**Merger.tla** (`trace/layers/ordered/mod.rs`, mergers of `OrdIndexedZSet` and
`OrdValBatch`): layers with keys, values and weights; each step of the loops of
the fueled merge is an action, so fuel runs out, and the bound rises, at any
point the code allows.

**ZSets.tla** has Z-sets, functions from elements to non-zero weights, and the
reference definitions of the queries; **Timestamps.tla** (`time/`) the nested
times with their order, join, meet, advance and recede. **StreamOperators.tla**
(`operator/join.rs`, `distinct.rs`, `aggregate/`, `upsert.rs`, `trace.rs`,
`z1.rs`, `delta0.rs`, `recursive.rs`) has the state of each operator as a record
and its `eval`, `clock_start`, `clock_end` and `fixedpoint` as operators.
**RadixTree.tla** and **TimeSeries.tla** (`operator/time_series/`) have the tree
with its updater and cursor, relative ranges, watermarks, windows and rolling
aggregates. **Incremental.tla** assembles circuits of them and drives these by
the clock of the root or of a nested circuit; `given` and `made` are the changes
read and output so far. Traces are consolidated sets of updates: Spine and
Merger are about how they are laid out.

**Controller.tla** (`adapters/src/controller/mod.rs`, `stats.rs`, file
transport): transport thread and probe, circuit thread, backpressure thread,
output threads and client, every counter access a step. `handle`, `stepped` and
`sent` are history: where records really are, next to the counters that claim
to know.

**Compiler.tla** (`pipeline_manager/src/compiler.rs`, `db/mod.rs`,
`db/storage.rs`, `main.rs`): one action per database access of the task and per
API handler, child processes that end at any time, restarts of the server.

**Runner.tla** (`pipeline_manager/src/runner.rs`, `db/mod.rs`): handlers under
the mutex are one action each, `run_pipeline` is two, before and after waiting
for start-up. Processes start, fail and die on their own. `launched` is history:
the version and the code in the metadata file, the code named by the version of
the project it belongs to, and the code the started executable was built from.

**PipelineManager.tla** composes the two over one database and one server: a
pipeline runs what the compiler left on disk, deleting a project deletes its
configs, and a restart hits both.

The `MC*.tla` modules give graphs, layers, streams, scenarios and bounds; the
`*Proofs.tla` modules hold the theorems (section 4).

## 3. Runs

Passing runs. All bounds are constants set in the cfg.

| Run | Instance | Shows |
| --- | --- | --- |
| exchange2 | 2 workers, 3 rounds | NoPanic, RoundDelivery, NoLostNotification, refinement of ExchangeRounds (ImplementsRounds), AllRoundsComplete |
| scheduler | two larger circuits (self-join, ownership, two async nodes, nested circuit; three unordered nodes) and 27 graphs over three nodes with every ownership preference; 2 cycles, 1 spurious notification, kill at any time | NoAssertFails, ValidSchedule, AllStepsComplete, KillStops |
| workers2 | 2 workers, two exchanges in parallel or in sequence, 2 cycles | SameCycle, AllStepsComplete |
| gather3 | 3 workers in lockstep, 2 cycles, consumer in the middle | NoPanic, GatherComplete, AllStepsComplete |
| handle2 | 2 workers, 2 commands; panics of any worker, with and without an exchange; or steps with an upsert handle, a collection handle that another clone clears, or values taken at any time | CyclesInLockstep, NoStaleResponse, InputsOnce, StepSeesInputs, CallsReturn |
| fixedpoint2 | 2 workers, 2 evaluations, convergence at different iterations, kill | GlobalFixedpoint, AllReturn |
| spine | 6 insertions of 1, 3 or 16 updates, cancellation 0 or 2 | HoldsAll, LayerSizes |
| merger | all pairs of layers over 3 keys and 2 values; no value bound and long rests, or a rising bound and rests below the copy limit | WorkContract, MergeExact |
| operators | join, antijoin, distinct and aggregate at the root and in a nested circuit, transitive closure, windows, rolling aggregates without a watermark (four ranges) and with one (three); 2 to 4 epochs of every small stream of changes | Exact, TreeCanonical, ExportsClosure, Converges |
| controller | 1 input, 1 output, eleven scripts: data that fills the buffers; an endpoint that one record fills, also paused, and paused and resumed; records that arrive only at the end of the input, with and without a minimal batch, and with a pause; pause with a minimal batch; connecting an output while data flows; connecting an input to a running pipeline; connect, start and stop with errors; those about pauses and inputs without outputs | OutputAccounting, CompleteMeansDone, StartedCompletes, PauseQuiesces, StopJoins |
| manager | 2 projects, one updated and deleted, 2 seconds, 1 restart; 1 config of up to 2 versions and 1 pipeline while its project is rebuilt, deleted and the server restarts; 1 config and 2 pipelines | SuccessMeansBuilt, CompilingHasJob, NoOrphan, ConfigRefersToLive, RunsDeclaredCode, RequestsEnd |

Why the bounds are enough to be of interest. Two rounds are the least in which
a fast worker can meet the mailboxes of a slow one, three let it wrap around.
Two workers show every pairwise race; gather uses three so that the notifications
of two producers can be spent before the third has pushed. The spine's sizes 1,
3 and 16 fall on layers 0, 2 and 4, so batches land below, on and above running
merges, and six insertions complete several carries. Three keys and two values
give the merge every alternation of the sources and a rest to copy, and the
weights make one value cancel and the other add up; `StepMax` and `copy_min`
stand for the constants 1,000 of the code and are small so that both loops are
cut. An endpoint of the controller buffers two records, so that it is reached
half full, or one, so that each batch fills it. Two clock ticks let two projects be queued in the same
second or in different ones. Two pipelines let one config be launched again
while its older pipeline is still around; the proofs cover any number of both.
Three updates appended to two workers make parts of unequal size, and two steps
let an output be left unread and an append be split between cycles. Two epochs
are the least in which an update of a past one meets a new one at a later
iteration; four let a change be undone and made again. With two bits per digit
and six bits per timestamp the eight timestamps used give the radix tree nodes
on three levels, of two and of three children, and pairs that part within a
digit; ranges saturate at both ends of the time axis.

### Disagreements between code and documentation

The run **merger_truncate** refutes `WorkContract`, which the documentation of
`Merger::work` states: with a value bound and a rest longer than the copy limit,
the merge reports completion while keys are left over. Its finding quotes the
statement.

Modelling met further places where the code does not do what a comment, an API
description or a test says. Where such a case breaks a property, the property
states it as an exception and the run contains it, unless the last column names
a constant or says that it is not modelled; that column says how to see the case
in the model. The exceptions are narrow: each is a predicate of the state that
describes the case, and TLC refutes the property without it.

| Source | The code | The statement | In the model |
| --- | --- | --- | --- |
| gather.rs:168 | workers that step freely inside `Runtime::run` can push twice before the consumer pops | "There shouldn't be any value stored within the channel when we're pushing" | `LockStep = FALSE` violates NoPanic |
| dbsp_handle.rs:224 | the client waits for worker 0, which waits in an exchange for a worker that has panicked | "if one of the worker panics or exits, its channel will become disconnected" (:58) | drop the exception `WaitsForDead` from CallsReturn |
| stats.rs:334 | records returned by the parser at end of input wake the circuit only if they take the count from below `min_batch_size_records` to it: never with the default 0, and not if they are too few | "delays pushing ... until at least `min_batch_size_records` records have been received" (config.rs:55) | drop the exception `Overlooked` from StartedCompletes or PauseQuiesces |
| stats.rs:235 | a reset between the global and the endpoint increment of one batch leaves a full endpoint and a parked circuit | "Such discrepancies are bounded and do _not_ accumulate" (stats.rs:9) | drop the exception `Skewed` from StartedCompletes |
| controller/mod.rs:428 | an endpoint connected to a running pipeline is not started | "starts streaming data from the endpoint if the pipeline is running" (:172) | `config` {}, `calls` start, connect: the endpoint keeps the command "paused" and is not among `paused_endpoints`, so nobody unpauses it |
| controller/mod.rs:322 | a failed step is counted as processed | "All input records received from all endpoints have been processed by the circuit" (:239) | drop the exception for `circuit.dead` from CompleteMeansDone |
| stats.rs:608 | completion is visible before the last batch is added to `transmitted_records` | a test reads the counter at once (controller/mod.rs:1123) | the counter is not modelled; the window is between OEncode and ORelease |
| db/mod.rs:595 | two projects queued in the same second make `next_job` find nothing, for as long as both wait | "or `None` if there are no pending projects in the DB" (storage.rs:167) | drop the exception for `Oldest` from RequestsEnd |
| compiler.rs:184 | the end of a job whose project was deleted ends the compiler task | "Project was deleted ... -- abort compilation" (:151) | drop the exception for the dead task from RequestsEnd |
| storage.rs:86 | the condition of `cancel_project` always returns early | "Cancels compilation request if the project is pending in the queue or already being compiled" (:75) | the action cancel_project never changes a row |
| compiler.rs:198 | the schema is stored even if the version has moved on | "set/updated whenever the `status` field reaches >= `CompilingRust`" (db/mod.rs:219) | SqlDone sets `schema` of a row whose status Guarded leaves alone |
| runner.rs:539 | a pipeline shut down or deleted during its launch has no port, counts as stopped and goes on | "Shut down the pipeline if it is still running and delete it from the database" (main.rs:1382) | drop the exception for `early` from NoOrphan |
| runner.rs:211 | a restart of the server during a launch loses the port, so the pipeline can never be shut down | the same | LoseRequests sets `request` to "lost", and NoOrphan speaks of "ok" and "failed" only; add "lost" |
| runner.rs:432 | the version in the metadata of a pipeline is the `config_version` of the request | the field is documented as "Project version" (:87) | require `launched[i].version = launched[i].code` in RunsDeclaredCode |
| runner.rs:195 | only the status of the project is looked at, and no version is compared | "Check: project exists, version = current version, compilation completed" (:193) | run_pipeline takes any `config_version` up to the current one |
| controller/mod.rs:753 | a batch pushed between the publication of an output endpoint and `add_output` is not counted; its release wraps `buffered_records` around | "Increment stats first, so we don't end up with negative counts" (:336) | drop the exception for `uncounted` from OutputAccounting |
| trace.rs:466 | the flag of the parent scope is reset only when the parent's clock starts | "since the previous clock cycle at level `scope`" | no circuit of Incremental is nested twice, where this matters; only `dirty[0]` is modelled |
| trace.rs:521 | `clock_end` discards the time it computes | its call `self.time.advance(scope + 1)` | `time` is not modelled: the trace does not depend on it in circuits nested once |
| join.rs:296 | a key with two values in `other` is subtracted twice | "the contents of `self`, excluding keys that are not present in `other`", which also has the condition reversed | drop the exception `SubtractedTwice` from Excepted: Exact fails |
| rolling_aggregate.rs:186 | with a range that excludes the current time, inputs older than `watermark - (to - from)` still matter | "the lower bound on input timestamps that may be used to compute changes to the rolling aggregate operator" | drop the exception `Forgotten` from Excepted: Exact fails |
| rolling_aggregate.rs:195 | the window is open on the right: a datum at the largest timestamp is never aggregated | "Restrict the input stream to the `[lb -> ∞)` time window" (:185) | drop the exception `NeverSeen` from Excepted: Exact fails |
| range.rs:206 | ranges are appended in increasing order | "Precondition: `self.len() == 0 \|\| range.from <= self.last.unwrap().from`" (:204), the reverse of the sentence before it and of the assertion in the body | the ranges of TimeSeries are increasing |

Fairness. Worker, controller and client threads are weakly fair as wholes: an
operating system does not deschedule a runnable thread for ever. No choice
inside a thread is fair, with these exceptions: in DynamicScheduler each async
operator becomes ready again, which WorkerCircuits shows for exchanges; in
Controller the decision to step is strongly fair once the buffering delay has
started, because the delay is finite and the thread looks every millisecond; in
Compiler a child process ends and its end is noticed, because `select!` chooses
at random among ready branches. Runner is checked for safety only, and in
Incremental progress is the invariant Converges. Spurious notifications, errors,
panics, kills, restarts, producers and client calls are never assumed to happen,
except that the client of Controller makes the calls of its script.

Deadlock checking is off where a system may stop for good: the client has made
its calls, all pipelines have been used, the merge is done, the last epoch has
ended. In handle2 it is on; the states in which everything may rest are `Done`,
the hang described by WaitsForDead among them.

## 4. Proofs

The theorems hold for all values of the constants that satisfy the modules'
named assumptions: positive numbers of workers, rounds, iterations and commands;
for circuits `CircuitsAssumption` (finitely many edges, async nodes are nodes,
and each exchange has a sender and a receiver node of its own, which is how
`add_exchange` builds it); for the input handles `HandlesAssumption` (a program
of calls names each update once, in the order in which it makes the calls); for
the controller `ControllerAssumption` (finitely many endpoints, thresholds are
naturals). Each rests on an inductive invariant.

**Exchange** (`ExchangeProofs`).

* **TypeSafe, NoPanicSafe, NoOverwriteSafe**. None of these properties is
  inductive, because the counters are summaries: `sender_counters[s] = npeers`
  must imply that all mailboxes of `s` are empty *and* that no receiver is
  between taking a value and returning the mailbox. The strengthening `IInv`
  says for every point of the two loops which (sender, receiver) pairs a counter
  stands for (`Outstanding`, `Arrived`) and equates the counter with the
  cardinality of that set. `LocalMove`, `CountAdd` and `CountRemove` carry it
  over a step; there is one case per action.
* **RoundDeliverySafe, RoundSkewSafe**. `RInv` adds that a mailbox is empty when
  as many values were sent to it as were taken, and otherwise holds the value of
  the round that was not taken. What a worker has combined is then, in sender
  order, one value of each peer, of its own round; and two workers are at most
  one cycle apart.
* **Refinement**: under the mapping in Exchange, every step is a step of
  ExchangeRounds or a stutter.
* **NoLostNotificationSafe**. `NInv` extends the statement to points where the
  worker does not wait yet: a counter reaches `npeers` only by a step that is
  followed by the callback, and the notification stays until it is looked at.

**Scheduler** (`SchedulerProofs`: AssertionsHold, SchedulesValid). The queue says
nothing about the order of evaluation by itself. `SchedulerInv` adds that
`unsatisfied_dependencies` of a node is the number of its incoming edges, the
ownership edges included and counted with multiplicity, from nodes not yet taken
from the queue; that a queued node is ready, not yet taken and waits for no
edge; and that a ready flag means a ready operator until it is evaluated. That a strong
consumer comes last follows from the edges `ownership_constraints` adds.

**Worker circuits** (`WorkerProofs`: WorkersInSameCycle). Nothing synchronizes the
workers but their exchanges, and no exchange knows the cycle. `WorkersInv` has
the scheduler's invariant for each worker; it counts, for each exchange, how
often a worker's sender and receiver have acted (`Sent`, `Taken`) and says that
the mailbox of a pair is empty when the counts agree and otherwise holds the
single value of the cycle that was not taken (`Box`). What makes the
`try_send_all` and `try_receive_all` of an evaluated operator succeed is `Known`:
an operator that a scheduler takes for ready is ready until its own worker
evaluates it, because the other workers can only fill the mailboxes it reads and
empty those it writes.

**Gather** (`GatherProofs`: GatherNeverPanics, GathersComplete), under the
hypothesis `LockStep`. Nothing in the operator keeps a producer from pushing
twice. `GatherInv` says that no worker is in a cycle before all have completed
the previous one, and that a channel is valid exactly when its producer is one
batch ahead of what the consumer has popped.

**Handle** (`HandleProofs`: WorkersInLockstep, ResponsesMatch). The first is the
hypothesis of the Gather theorems. `HandleInv` relates, for each phase of the
client's call, the workers it has already served to those it has not: a worker
is a cycle behind exactly if it has, or will be sent, the step command
(`Progress`), and a response answers the command that the worker took last
(`Answers`). Both hold through panics, errors and kill.

**Input and output handles** (`HandleProofs`: HandlesImplementDBSPHandle,
InputsDeliveredOnce, StepsSeeInputs). The first says that StreamHandles refines
DBSPHandle, so that what is proved of the handle holds with producers at work.
`IoInv` adds to `HandleInv` three parts. `Programs`: what is left of a producer's
calls is still a program. `PlacesInv`: an update is undelivered, cleared, or at
exactly one place of the stream that one worker has taken or will take; upserts
of a key are at the worker of the key's hash, in the order of the program, and
behind all of them come those still to be delivered. `CycleInv`: the length of a
worker's log and the content of its output mailbox follow from its cycle. The
case of `append` rests on `Division`: the parts that `append` deals to the
workers, round robin from `next_worker` or by hash, hold every index of the call
once and keep the order within a part. It is proved for every length of the call
and number of workers with the ranks of the selected indices, not by induction
over the sequence; that ranks number a set in order (`Ranked`) is proved last,
because it needs the theorems on finite sets.

**Fixed point** (`FixedpointProofs`: WorkersAgree). `FixedpointInv` says that a
mailbox holds at most the status its reader combines next, of the iteration
after its last result, and what each result combined.

**Controller** (`ControllerProofs`: BufferedIsAccounted, CompletionIsTrue). The
counters are updated at other times than the queues they describe.
`ControllerInv` follows the records: those that input probes have pushed but not
yet counted (`InFlight`) make up the difference between the total counter and
what the handles and the circuit have received; what an output has sent, has in
its queue and is still owed by the circuit thread add up to what the circuit has
processed, and the label of each queued batch is at most the partial sum up to
it (`Sums`). `CountInv` says the same of the buffered counter, through the
order of the circuit thread, which increments the counter before it queues the
batch. An output that was given a batch before `connect_output` added its
statistics is excepted: nobody has counted that batch. As in the run, CompletionIsTrue speaks of a circuit thread that has not stopped with an
error, and excepts the moment in which `connect_input` has started an endpoint
that has no statistics yet.

**Pipeline manager** (`ManagerProofs`: CompiledIsBuilt, CompilingIsCompiled,
NothingOrphaned, ReferencesLive, DeclaredCodeRuns). `ManagerInv` is the
conjunction of an invariant of the compiler (the job is that of the row's
version whenever the row says so, and a version is built only by the job that
then sets the status) and one of the runner (which process, row and request
states go together in a launch, and that a pipeline a config refers to refers
back to it). DeclaredCodeRuns needs both: the code in the metadata of a pipeline
is the code its executable was built from. It says nothing about the version in
the metadata, which is the client's idea of the version of the config.

Only model-checked: all liveness properties (out of the prover's reach, as is
ENABLED), and the safety of Spine, Merger and Incremental. Those properties are
about what recursive computations on sequences, trees and sums yield, which
would need induction over data, or about operators declared RECURSIVE.

## 5. Not modelled

* Static scheduler: evaluates a fixed topological order and spins; it has no
  protocol. Circuit builder: sequential construction; the models take its
  result, the graph, as a constant.
* Linear operators (map, filter, plus, neg, integrate and differentiate as
  compositions): they apply a function to every update and keep no state.
  Algebra and hashing: number-like types. Product times and antichains: no
  modelled operator uses them.
* Cursors, builders, column and erased layers: the same sets of updates in other
  memory layouts; the models work on the sets.
* The plain `InputHandle` (each call is one access to a mailbox), connectors of
  the manager (single SQL statements under the lock), and forwarding of requests
  to running pipelines, which changes no state of the manager.
* Persistent traces: their behaviour is that of RocksDB.
* Monitor, profiler, logging and metrics output: outside the data path.
* Kafka and HTTP transports, parsers and encoders, the HTTP servers: wrappers
  around external libraries and conversions.
* dataflow-jit: translation correctness. The SQL compiler is a submodule that is
  not part of the tree. Nexmark: a
  benchmark. Web console and Python client: front ends.

Abstractions inside the models: values carried by streams are their clock cycle
or their number; durations are arbitrary; atomics are sequentially consistent
(the code uses acquire and release on the variables concerned, and relaxed only
for statistics and the gather flag's reset); the operating system's processes
and the database are external and behave as the code uses them. Batches of 2^30
updates or more, for which 32-bit sizes in `tidy_layers` matter, are out of
range. In Incremental a nested circuit runs to its fixed point and its
source declares itself exhausted; there is one worker, and one partition of a
time series; a bounded trace drops what is below its bound at once; and
aggregates are sequences of the values they cover, of which every aggregate is an
image. Compilers are taken to end with the server that started them.
