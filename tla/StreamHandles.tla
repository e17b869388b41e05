---------------------------- MODULE StreamHandles ----------------------------
(***************************************************************************)
(* Input and output handles (operator/input.rs, operator/output.rs) of a   *)
(* circuit that a DBSPHandle drives.  Threads that own clones of an input  *)
(* handle push, append and clear updates at any time, also during a step;  *)
(* in each cycle each worker takes its input mailbox and overwrites its    *)
(* output mailbox, from which the client takes.                            *)
(*                                                                         *)
(* A mailbox is a mutex; one access is one step.  An update is a record    *)
(* [key, by, id]: the producer it is from and its number among them.       *)
(***************************************************************************)
EXTENDS DBSPHandle, Integers, FiniteSets, Functions

\* A scenario also has the clients' program: the calls of each producer, the
\* kind of the input handle (upsert or collection), whether the owner of the
\* DBSPHandle only steps, and the bound takes on the values it takes.
CONSTANT hash    \* hash_func of the keys: [keys -> Nat]

ApiCalls ==
    [op : {"push", "append", "clear"},
     vals : Seq([key : DOMAIN hash, by : Nat, id : Nat])]

\* The calls of producer p: push takes one update and clear none, and the
\* updates are numbered in the order of the program.
Program(calls, p) ==
    /\ \A m \in DOMAIN calls : /\ calls[m].op = "push" => Len(calls[m].vals) = 1
                               /\ calls[m].op = "clear" => calls[m].vals = <<>>
                               /\ \A i \in DOMAIN calls[m].vals : calls[m].vals[i].by = p
    /\ \A m, n \in DOMAIN calls :
         \A i \in DOMAIN calls[m].vals, j \in DOMAIN calls[n].vals :
           m < n \/ (m = n /\ i < j) => calls[m].vals[i].id < calls[n].vals[j].id

ASSUME HandlesAssumption ==
    /\ hash \in [DOMAIN hash -> Nat]
    /\ \A s \in Scenarios : /\ s.upsert \in BOOLEAN
                            /\ s.calls \in Seq(Seq(ApiCalls))
                            /\ \A p \in DOMAIN s.calls : Program(s.calls[p], p)

VARIABLES
    todo,        \* calls that each producer has not completed
    at,          \* the worker that the producer's current call is about to serve
    next_worker, \* CollectionHandle::next_worker of its clone
    inbox,       \* input mailboxes
    outbox,      \* output mailboxes: <<>> or <<[cycle, vals]>>
    round,       \* progress of each worker in its cycle: start, read, written
    log,         \* what each worker has taken, one entry for each cycle
    cleared,     \* updates removed by clear_input
    before,      \* updates whose call had returned when the last step was called
    read,        \* the cycle of the last value taken from each output mailbox
    takes

producers == <<todo, at, next_worker, cleared>>
io == <<producers, inbox, outbox, round, log, before, read, takes>>
ioVars == <<vars, io>>

Producers == DOMAIN scenario.calls
Values(calls) == UNION {Range(calls[i].vals) : i \in DOMAIN calls}
Updates == UNION {Values(scenario.calls[p]) : p \in Producers}

IoInit ==
    /\ Init
    /\ todo = scenario.calls
    /\ at = [p \in Producers |-> 0]
    /\ next_worker = [p \in Producers |-> 0]
    /\ inbox = [w \in Workers |-> <<>>]
    /\ outbox = [w \in Workers |-> <<>>]
    /\ round = [w \in Workers |-> "start"]
    /\ log = [w \in Workers |-> <<>>]
    /\ cleared = {} /\ before = {}
    /\ read = [w \in Workers |-> 0] /\ takes = 0

-----------------------------------------------------------------------------
\* CollectionHandle and UpsertHandle.

\* CollectionHandle::append: equal parts from the end of the vector in round
\* robin order, and what is left of it to the last worker.
RoundRobin(vals, first, w) ==
    LET size == Len(vals) \div nworkers
        i == (w - first) % nworkers
    IN  IF i = nworkers - 1
          THEN SubSeq(vals, 1, Len(vals) - size * i)
          ELSE SubSeq(vals, Len(vals) - size * (i + 1) + 1, Len(vals) - size * i)

\* UpsertHandle: all updates to a key go to one worker, in their order.
Select(vals, mine) ==
    [i \in 1 .. Cardinality(mine) |->
       vals[CHOOSE j \in mine : Cardinality({k \in mine : k <= j}) = i]]

ByHash(vals, w) == Select(vals, {j \in DOMAIN vals : hash[vals[j].key] % nworkers = w})

\* What the current call of p has for worker w, and its new next_worker.
Part(p, w) ==
    LET call_vals == Head(todo[p]).vals IN
    CASE scenario.upsert -> ByHash(call_vals, w)
      [] ~scenario.upsert /\ Head(todo[p]).op = "push" ->
           IF next_worker[p] % nworkers = w THEN call_vals ELSE <<>>
      [] OTHER -> RoundRobin(call_vals, next_worker[p], w)

Advanced(p) ==
    CASE scenario.upsert \/ Head(todo[p]).op = "clear" -> next_worker[p]
      [] ~scenario.upsert /\ Head(todo[p]).op = "push" -> next_worker[p] + 1
      [] OTHER -> next_worker[p] + nworkers

\* The producer goes on with the next worker, or its call returns.
Served(p, w) ==
    IF w < nworkers - 1
      THEN at' = [at EXCEPT ![p] = w + 1] /\ UNCHANGED <<todo, next_worker>>
      ELSE /\ at' = [at EXCEPT ![p] = 0]
           /\ todo' = [todo EXCEPT ![p] = Tail(@)]
           /\ next_worker' = [next_worker EXCEPT ![p] = Advanced(p)]

\* The clones of the handle exist once init_circuit has returned them, and
\* outlive the runtime.
Calls(p, op) ==
    /\ hpc # "init" /\ (runtime \/ ~senders)
    /\ todo[p] # <<>> /\ Head(todo[p]).op = op

push(p) ==
    /\ Calls(p, "push")
    /\ \E w \in Workers : /\ Part(p, w) # <<>>
                          /\ inbox' = [inbox EXCEPT ![w] = @ \o Part(p, w)]
    /\ Served(p, nworkers - 1)
    /\ UNCHANGED <<vars, outbox, round, log, cleared, before, read, takes>>

\* Mutant: the buffer replaces what other clones have put in the mailbox.
append_mutant(p) ==
    /\ Calls(p, "append")
    /\ inbox' = [inbox EXCEPT ![at[p]] = Part(p, at[p])]
    /\ Served(p, at[p])
    /\ UNCHANGED <<vars, outbox, round, log, cleared, before, read, takes>>

append(p) ==
    /\ Calls(p, "append")
    /\ inbox' = [inbox EXCEPT ![at[p]] = @ \o Part(p, at[p])]
    /\ Served(p, at[p])
    /\ UNCHANGED <<vars, outbox, round, log, cleared, before, read, takes>>

clear_input(p) ==
    /\ Calls(p, "clear")
    /\ inbox' = [inbox EXCEPT ![at[p]] = <<>>]
    /\ cleared' = cleared \cup Range(inbox[at[p]])
    /\ Served(p, at[p])
    /\ UNCHANGED <<vars, outbox, round, log, before, read, takes>>

-----------------------------------------------------------------------------
\* The operators Input and Output in the workers.

Stepping(w) == pc[w] \in {"step", "exchange", "operators"}

\* Input::eval
input_eval(w) ==
    /\ Stepping(w) /\ round[w] = "start"
    /\ log' = [log EXCEPT ![w] = Append(@, inbox[w])]
    /\ inbox' = [inbox EXCEPT ![w] = <<>>]
    /\ round' = [round EXCEPT ![w] = "read"]
    /\ UNCHANGED <<vars, producers, outbox, before, read, takes>>

\* What the circuit makes of the vector: add_upsert keeps the last update of
\* each key, add_input_zset all of them.
Applied(vals) ==
    {vals[i] : i \in {j \in DOMAIN vals :
        scenario.upsert => \A k \in DOMAIN vals : k > j => vals[k].key # vals[j].key}}

Value(w) == [cycle |-> steps[w] + 1, vals |-> Applied(log[w][Len(log[w])])]

\* Mutant: a value that nobody has taken is kept.
output_eval_mutant(w) ==
    /\ Stepping(w) /\ round[w] = "read"
    /\ outbox' = IF outbox[w] = <<>> THEN [outbox EXCEPT ![w] = <<Value(w)>>] ELSE outbox
    /\ round' = [round EXCEPT ![w] = "written"]
    /\ UNCHANGED <<vars, producers, inbox, log, before, read, takes>>

\* Output::eval
output_eval(w) ==
    /\ Stepping(w) /\ round[w] = "read"
    /\ outbox' = [outbox EXCEPT ![w] = <<Value(w)>>]
    /\ round' = [round EXCEPT ![w] = "written"]
    /\ UNCHANGED <<vars, producers, inbox, log, before, read, takes>>

\* OutputHandle::take_from_worker
take_from_worker(w) ==
    /\ outbox[w] # <<>> /\ takes < scenario.takes
    /\ read' = [read EXCEPT ![w] = outbox[w][1].cycle]
    /\ outbox' = [outbox EXCEPT ![w] = <<>>]
    /\ takes' = takes + 1
    /\ UNCHANGED <<vars, producers, inbox, round, log, before>>

-----------------------------------------------------------------------------
\* Steps of the handle and the workers.  A cycle ends when its operators have
\* been evaluated.
Circuit ==
    /\ \A w \in Workers : steps'[w] # steps[w] => round[w] = "written"
    /\ round' = [w \in Workers |-> IF Stepping(w)' THEN round[w] ELSE "start"]
    /\ before' = IF cycles' = cycles THEN before
                 ELSE Updates \ UNION {Values(todo[p]) : p \in Producers}
    /\ UNCHANGED <<producers, inbox, outbox, log, read, takes>>

IoWorker(w) == (Worker(w) /\ Circuit) \/ input_eval(w) \/ output_eval(w)

IoNext ==
    \/ Client /\ Circuit
    \/ Call("step") /\ Circuit
    \/ ~scenario.stepsOnly /\ (Call("profile") \/ Kill) /\ Circuit
    \/ \E w \in Workers : IoWorker(w) \/ take_from_worker(w)
    \/ \E p \in Producers : push(p) \/ append(p) \/ clear_input(p)
    \/ Done /\ UNCHANGED ioVars

IoSpec == IoInit /\ [][IoNext]_ioVars

\* As in DBSPHandle; producers and the client need not do anything.
IoFairSpec ==
    /\ IoSpec
    /\ WF_ioVars(Client /\ Circuit)
    /\ \A w \in Workers : WF_ioVars(IoWorker(w))

-----------------------------------------------------------------------------

\* What worker w has taken in each cycle and, last, what it will take next.
Stream(w) == Append(log[w], inbox[w])

Undelivered ==
    UNION {(UNION {Range(Part(p, w)) : w \in at[p] .. nworkers - 1}) \cup Values(Tail(todo[p])) :
             p \in {q \in Producers : todo[q] # <<>>}}

\* Whatever threads push, append and clear during whatever steps, an update is
\* taken by one worker in one cycle, unless it was cleared; two upserts of a
\* key by one producer reach the same worker in the order of its calls.
InputsOnce ==
    /\ \A u \in Updates :
         (\E w \in Workers : \E c \in DOMAIN Stream(w) : u \in Range(Stream(w)[c]))
           <=> u \notin Undelivered \cup cleared
    /\ \A v, w \in Workers : \A c \in DOMAIN Stream(v), d \in DOMAIN Stream(w) :
         \A i \in DOMAIN Stream(v)[c], j \in DOMAIN Stream(w)[d] :
           LET x == Stream(v)[c][i]
               y == Stream(w)[d][j]
           IN  /\ x = y => v = w /\ c = d /\ i = j
               /\ scenario.upsert /\ x.key = y.key /\ x.by = y.by /\ x.id < y.id
                    => v = w /\ (c < d \/ (c = d /\ i < j))

\* When step() returns Ok, the updates of calls that had returned before it was
\* called have been through the circuit, and every output mailbox holds the
\* value of this cycle, unless that value has been taken.
StepSeesInputs ==
    hpc = "idle" /\ runtime =>
        /\ \A u \in before \ cleared :
             \E w \in Workers : \E c \in DOMAIN log[w] : u \in Range(log[w][c])
        /\ cycles > 0 => \A w \in Workers :
             IF outbox[w] = <<>> THEN read[w] = cycles
             ELSE outbox[w] = <<[cycle |-> cycles, vals |-> Applied(log[w][cycles])]>>
=============================================================================
