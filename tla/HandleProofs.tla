---------------------------- MODULE HandleProofs ----------------------------
(***************************************************************************)
(* Proofs about DBSPHandle, for any number of workers and commands and any *)
(* failures: the workers run their cycles in lockstep, which Gather relies *)
(* on, and no response is taken for one to a later command.  Then about    *)
(* StreamHandles, for any programs of the producers: it implements         *)
(* DBSPHandle, every update of an input handle reaches one worker in one   *)
(* cycle, and a step sees the inputs of the calls before it.               *)
(***************************************************************************)
EXTENDS StreamHandles, TLAPS

Positions == {"build", "init_ok", "init_err", "loop", "try_recv", "park", "step", "exchange",
              "operators", "respond_ok", "respond_err", "panicked", "exited"}

Waiting(w) == pc[w] \in {"loop", "try_recv", "park"}
InStep(w) == pc[w] \in {"step", "exchange", "operators"}
Busy(w) == InStep(w) \/ pc[w] \in {"respond_ok", "respond_err"}

TypeInv ==
    /\ worker \in 0 .. nworkers
    /\ command \in Commands
    /\ issued \in Nat /\ cycles \in Nat
    /\ pc \in [Workers -> Positions]
    /\ DOMAIN commands = Workers /\ DOMAIN status = Workers
    /\ kill_signal \in [Workers -> BOOLEAN]
    /\ taken \in [Workers -> Nat]
    /\ steps \in [Workers -> Nat]

(* In every phase: no worker is more than one cycle behind the cycles asked *)
(* for, and it is one behind exactly when it has a step command to carry    *)
(* out.  A command is the one being broadcast and is taken at most once.    *)
Progress(w) ==
    /\ steps[w] <= cycles /\ cycles <= steps[w] + 1
    /\ InStep(w) => command = "step" /\ steps[w] + 1 = cycles
    /\ pc[w] = "respond_ok" => steps[w] = cycles
    /\ Busy(w) => commands[w] = <<>>
    /\ commands[w] # <<>> => /\ commands[w] = <<command>>
                             /\ command = "step" => steps[w] + 1 = cycles
                             /\ command = "profile" => steps[w] = cycles

(* As long as responses are received: a worker has one command in its      *)
(* channel, at work, or answered.                                          *)
Answers(w) ==
    /\ Busy(w) => taken[w] = issued /\ status[w] = <<>>
    /\ commands[w] # <<>> => taken[w] + 1 = issued /\ status[w] = <<>>
    /\ status[w] # <<>> => /\ taken[w] = issued /\ status[w][1].to = issued
                           /\ status[w][1].ok => steps[w] = cycles

(* The phases of a call before anything has failed. *)
Calling == hpc \in {"send", "unpark", "recv"}
Calm == hpc = "init" \/ Calling \/ (hpc = "idle" /\ runtime)

Fresh(w) ==
    /\ commands[w] = <<>> /\ status[w] = <<>> /\ ~Busy(w)
    /\ taken[w] = 0 /\ steps[w] = 0

Idle(w) ==
    /\ Waiting(w) /\ commands[w] = <<>> /\ status[w] = <<>>
    /\ taken[w] = issued /\ steps[w] = cycles

Untold(w) ==
    /\ Waiting(w) /\ commands[w] = <<>> /\ status[w] = <<>> /\ taken[w] + 1 = issued
    /\ command = "step" => steps[w] + 1 = cycles
    /\ command = "profile" => steps[w] = cycles

Phases ==
    /\ Calm => /\ senders /\ receivers /\ runtime
               /\ \A w \in Workers : ~kill_signal[w]
    /\ hpc = "init" => /\ issued = 0 /\ cycles = 0
                       /\ \A w \in Workers : Fresh(w)
                       /\ result = "ok" => \A w \in Workers : w < worker => Waiting(w)
    /\ hpc = "idle" /\ runtime => \A w \in Workers : Idle(w)
    /\ hpc = "send" => \A w \in Workers : w >= worker => Untold(w)
    /\ hpc = "unpark" => worker < nworkers /\ \A w \in Workers : w > worker => Untold(w)
    /\ hpc = "recv" => \A w \in Workers : w < worker => Idle(w)
    /\ Calling => \A w \in Workers : status[w] # <<>> => Waiting(w)
    /\ hpc \in {"kill", "kill_unpark"} => ~runtime /\ (receivers => senders)
    /\ hpc = "idle" /\ receivers => runtime
    /\ hpc = "kill_unpark" => worker < nworkers

HandleInv ==
    /\ TypeInv
    /\ \A w \in Workers : Progress(w)
    /\ receivers => \A w \in Workers : Answers(w)
    /\ Phases
-----------------------------------------------------------------------------
LEMMA ResponseFields ==
    ASSUME NEW s, NEW n, NEW b, s = <<[to |-> n, ok |-> b]>>
    PROVE  s[1].to = n /\ s[1].ok = b
<1>1. s[1] = [to |-> n, ok |-> b]
  BY Zenon
<1> QED
  BY Zenon, <1>1

(* The loops of the client over the workers. *)
LEMMA WorkerNumbers ==
    /\ nworkers \in 0 .. nworkers /\ 0 \in Workers /\ 0 \in 0 .. nworkers
    /\ \A w \in Workers : w < nworkers /\ ~(w < 0) /\ w >= 0
    /\ \A n \in 0 .. nworkers : n < nworkers => n \in Workers /\ n + 1 \in 0 .. nworkers
    /\ \A n \in 0 .. nworkers : \A w \in Workers :
         /\ w > n => w >= n /\ w # n
         /\ w >= n + 1 => w > n
         /\ w < n + 1 /\ w # n => w < n
         /\ w >= n /\ w # n => w > n
         /\ w = n => w >= n
  BY NWorkersAssumption DEF Workers

(* A client step that touches neither the workers, the channels nor the    *)
(* call leaves every worker's part of the invariant as it is.              *)
LEMMA QuietStep ==
    ASSUME HandleInv, receivers' => receivers,
           UNCHANGED <<command, issued, cycles, pc, commands, status, taken, steps>>
    PROVE  /\ \A v \in Workers : Progress(v)'
           /\ receivers' => \A v \in Workers : Answers(v)'
  BY Zenon DEF HandleInv, Progress, Answers, InStep, Busy

(* The client thread. *)
LEMMA InitRecvStep ==
    ASSUME HandleInv, InitRecv PROVE HandleInv'
<1> USE DEF HandleInv, TypeInv, call, channels, threads, InitRecv, Dead
<1>0. worker \in 0 .. nworkers /\ worker \in Workers /\ worker' = worker + 1
  BY Zenon, WorkerNumbers
<1>1. TypeInv'
  <2>1. worker \in Workers /\ worker' \in 0 .. nworkers
    BY Zenon, WorkerNumbers
  <2>2. pc' \in [Workers -> Positions]
    BY Zenon, <2>1 DEF Positions
  <2> QED
    BY Zenon, <2>1, <2>2
<1>2. ASSUME NEW v \in Workers PROVE Progress(v)'
  BY Zenon, <1>2 DEF Progress, InStep, Busy
<1>3. ASSUME receivers', NEW v \in Workers PROVE Answers(v)'
  BY Zenon, <1>3 DEF Answers, InStep, Busy
<1>4. Phases'
  <2>1. hpc = "init" /\ hpc' = "init"
    BY Zenon
  <2>2. \A w \in Workers : Fresh(w)'
    BY Zenon, <2>1 DEF Phases, Fresh, InStep, Busy
  <2>3. ASSUME result' = "ok", NEW w \in Workers, w < worker' PROVE Waiting(w)'
    <3>1. result = "ok" /\ pc[worker] = "init_ok" /\ pc' = [pc EXCEPT ![worker] = "loop"]
      BY Zenon, <2>3
    <3>2. CASE w = worker
      BY Zenon, <1>0, <3>1, <3>2 DEF Waiting
    <3>3. CASE w # worker
      <4>1. w < worker
        <5> HIDE DEF HandleInv, TypeInv, InitRecv
        <5>1. w < worker + 1
          BY Zenon, <1>0, <2>3
        <5> QED
          BY Zenon, <1>0, <3>3, <5>1, WorkerNumbers
      <4> QED
        BY Zenon, <2>1, <3>1, <3>3, <4>1 DEF Phases, Waiting
    <3> QED
      BY Zenon, <3>2, <3>3
  <2> QED
    BY Zenon, <2>1, <2>2, <2>3 DEF Phases, Calm, Calling
<1> QED
  BY Zenon, <1>1, <1>2, <1>3, <1>4

LEMMA InitDoneStep ==
    ASSUME HandleInv, InitDone PROVE HandleInv'
<1> USE DEF HandleInv, TypeInv, call, channels, threads, InitDone
<1>1. TypeInv'
  BY Zenon, WorkerNumbers
<1>2. Phases'
  <2>1. \A w \in Workers : w < worker
    BY Zenon, WorkerNumbers
  <2>2. CASE result = "ok"
    BY Zenon, <2>1, <2>2 DEF Phases, Calm, Calling, Fresh, Idle, Waiting
  <2>3. CASE result # "ok"
    BY Zenon, <2>3 DEF Phases, Calm, Calling
  <2> QED
    BY Zenon, <2>2, <2>3
<1> QED
  BY Zenon, <1>1, <1>2, QuietStep

LEMMA CallStep ==
    ASSUME HandleInv, NEW c \in Commands, Call(c) PROVE HandleInv'
<1> USE DEF HandleInv, TypeInv, Workers, call, channels, threads, Call
<1>1. TypeInv'
  <2>1. CASE runtime
    <3>1. issued + 1 \in Nat /\ cycles + 1 \in Nat
      <4>1. issued \in Nat /\ cycles \in Nat
        BY Zenon
      <4> QED
        BY <4>1
    <3> QED
      BY Zenon, <2>1, <3>1, WorkerNumbers
  <2>2. CASE ~runtime
    <3>1. issued + 1 \in Nat
      <4>1. issued \in Nat
        BY Zenon
      <4> QED
        BY <4>1
    <3> QED
      BY Zenon, <2>2, <3>1
  <2> QED
    BY Zenon, <2>1, <2>2
<1>2. ASSUME NEW v \in Workers PROVE Progress(v)'
  <2>1. CASE runtime
    <3>1. Idle(v) /\ command' = c
      BY Zenon, <2>1 DEF Phases
    <3>2. CASE c = "step"
      BY <2>1, <3>1, <3>2 DEF Progress, Idle, Waiting, InStep, Busy
    <3>3. CASE c = "profile"
      BY Zenon, <2>1, <3>1, <3>3 DEF Progress, Idle, Waiting, InStep, Busy
    <3> QED
      BY Zenon, <3>2, <3>3 DEF Commands
  <2>2. CASE ~runtime
    BY Zenon, <2>2 DEF Progress, InStep, Busy
  <2> QED
    BY Zenon, <2>1, <2>2
<1>3. ASSUME receivers', NEW v \in Workers PROVE Answers(v)'
  <2>1. CASE runtime
    BY Zenon, <2>1 DEF Phases, Answers, Idle, Waiting, InStep, Busy
  <2>2. CASE ~runtime
    BY Zenon, <2>2, <1>3 DEF Phases
  <2> QED
    BY Zenon, <2>1, <2>2
<1>4. Phases'
  BY Zenon DEF Phases, Calm, Calling, Idle, Untold, Waiting, Commands
<1> QED
  BY Zenon, <1>1, <1>2, <1>3, <1>4

LEMMA SendCommandStep ==
    ASSUME HandleInv, SendCommand PROVE HandleInv'
<1> USE DEF HandleInv, TypeInv, threads
<1>1. worker \in Workers /\ Untold(worker) /\ ~Dead(worker)
  <2>1. worker \in Workers /\ worker >= worker
    BY Zenon, WorkerNumbers DEF SendCommand
  <2> QED
    BY Zenon, <2>1 DEF SendCommand, Phases, Untold, Waiting, Dead
<1>2. /\ hpc' = "unpark" /\ commands' = [commands EXCEPT ![worker] = <<command>>]
      /\ UNCHANGED <<worker, command, issued, cycles, runtime, senders, receivers, status, pc,
                     kill_signal, taken, steps>>
  BY Zenon, <1>1 DEF SendCommand
<1> DEFINE sent == <<command>>
<1>3. sent # <<>>
  BY Zenon
<1>4. commands'[worker] = sent /\ \A v \in Workers : v # worker => commands'[v] = commands[v]
  BY Zenon, <1>1, <1>2
<1>5. TypeInv'
  BY Zenon, <1>1, <1>2
<1>6. ASSUME NEW v \in Workers PROVE Progress(v)'
  <2>1. CASE v = worker
    BY Zenon, <2>1, <1>1, <1>2, <1>4 DEF Progress, InStep, Busy, Untold, Waiting
  <2>2. CASE v # worker
    <3>1. Progress(v)
      BY Zenon
    <3> QED
    BY Zenon, <2>2, <3>1, <1>2, <1>4 DEF Progress, InStep, Busy
  <2> QED
    BY Zenon, <2>1, <2>2
<1>7. ASSUME receivers', NEW v \in Workers PROVE Answers(v)'
  <2>0. Answers(v)
    BY Zenon, <1>2, <1>7
  <2>1. CASE v = worker
    BY Zenon, <2>0, <2>1, <1>1, <1>2, <1>4 DEF Answers, InStep, Busy, Untold, Waiting
  <2>2. CASE v # worker
    BY Zenon, <2>0, <2>2, <1>2, <1>4 DEF Answers, InStep, Busy
  <2> QED
    BY Zenon, <2>1, <2>2
<1>8. Phases'
  <2> SUFFICES /\ Calm' => /\ senders' /\ receivers' /\ runtime'
                          /\ \A w \in Workers : ~kill_signal'[w]
               /\ worker' < nworkers /\ \A w \in Workers : w > worker' => Untold(w)'
               /\ \A w \in Workers : status'[w] # <<>> => Waiting(w)'
    BY Zenon, <1>2 DEF Phases, Calm
  <2>1. Calm /\ hpc = "send" /\ worker < nworkers
    BY Zenon DEF SendCommand, Calm, Calling
  <2>2. \A w \in Workers : w > worker => Untold(w) /\ commands'[w] = commands[w]
    BY Zenon, <1>1, <1>4, <2>1, WorkerNumbers DEF Phases
  <2> QED
    BY Zenon, <1>1, <1>2, <2>1, <2>2 DEF Phases, Untold, Waiting, Calling, Workers
<1> QED
  BY Zenon, <1>5, <1>6, <1>7, <1>8

LEMMA UnparkStep ==
    ASSUME HandleInv, unpark_worker PROVE HandleInv'
<1> USE DEF HandleInv, TypeInv, call, channels, threads, unpark_worker
<1>1. TypeInv'
  <2>1. worker < nworkers
    BY Zenon DEF Phases
  <2> QED
    BY Zenon, <2>1, WorkerNumbers
<1>2. Phases'
  <2>1. \A w \in Workers : w >= worker' => Untold(w)'
    BY Zenon, WorkerNumbers DEF Phases, Untold, Waiting
  <2> QED
    BY Zenon, <2>1 DEF Phases, Calm, Calling, Waiting
<1> QED
  BY Zenon, <1>1, <1>2, QuietStep

LEMMA AllSentStep ==
    ASSUME HandleInv, AllSent PROVE HandleInv'
<1> USE DEF HandleInv, TypeInv, call, channels, threads, AllSent
<1>1. TypeInv'
  BY Zenon, WorkerNumbers
<1>2. Phases'
  BY Zenon, WorkerNumbers DEF Phases, Calm, Calling, Waiting
<1> QED
  BY Zenon, <1>1, <1>2, QuietStep

LEMMA RecvStatusStep ==
    ASSUME HandleInv, RecvStatus PROVE HandleInv'
<1> USE DEF HandleInv, TypeInv, call, channels, threads, RecvStatus, Dead
<1>1. TypeInv'
  <2>1. worker \in 0 .. nworkers /\ worker + 1 \in 0 .. nworkers /\ worker' \in {worker, worker + 1}
    BY Zenon, WorkerNumbers
  <2> QED
    BY Zenon, <2>1
<1>2. ASSUME NEW v \in Workers PROVE Progress(v)'
  BY Zenon, <1>2 DEF Progress, InStep, Busy
<1>3. ASSUME receivers', NEW v \in Workers PROVE Answers(v)'
  BY Zenon, <1>3 DEF Answers, InStep, Busy
<1>4. Phases'
  <2>1. worker \in Workers
    BY Zenon, WorkerNumbers
  <2>2. CASE status[worker] # <<>> /\ status[worker][1].ok
    <3>2. steps[worker] = cycles
      BY Zenon, <2>1, <2>2 DEF Answers, Phases, Calm, Calling
    <3>3. taken[worker] = issued /\ Waiting(worker) /\ commands[worker] = <<>>
      BY <2>1, <2>2, Zenon DEF Answers, Phases, Calm, Calling
    <3>4. hpc' = "recv" /\ worker' = worker + 1 /\ hpc = "recv"
      BY Zenon, <2>2
    <3>5. ASSUME NEW w \in Workers, w < worker' PROVE Idle(w)'
      <4>1. CASE w = worker
        BY Zenon, <4>1, <3>2, <3>3, <2>1 DEF Idle, Waiting
      <4>2. CASE w # worker
        <5>1. w < worker
          BY Zenon, <3>4, <3>5, <4>2, WorkerNumbers
        <5> QED
          BY Zenon, <3>4, <4>2, <5>1 DEF Idle, Waiting, Phases
      <4> QED
        BY Zenon, <4>1, <4>2
    <3> QED
      BY Zenon, <3>4, <3>5, <2>1 DEF Phases, Calm, Calling, Waiting
  <2>3. CASE ~(status[worker] # <<>> /\ status[worker][1].ok)
    BY Zenon, <2>3 DEF Phases, Calm, Calling
  <2> QED
    BY Zenon, <2>2, <2>3
<1> QED
  BY Zenon, <1>1, <1>2, <1>3, <1>4

LEMMA AllReceivedStep ==
    ASSUME HandleInv, AllReceived PROVE HandleInv'
<1> USE DEF HandleInv, TypeInv, call, channels, threads, AllReceived
<1>1. TypeInv'
  BY Zenon, NWorkersAssumption DEF Workers
<1>2. Phases'
  <2>1. \A w \in Workers : w < worker
    BY Zenon, WorkerNumbers
  <2> QED
    BY Zenon, <2>1 DEF Phases, Calm, Calling, Idle, Waiting
<1> QED
  BY Zenon, <1>1, <1>2, QuietStep

LEMMA KillStep ==
    ASSUME HandleInv, Kill PROVE HandleInv'
<1> USE DEF HandleInv, TypeInv, call, channels, threads, Kill
<1>1. TypeInv'
  BY Zenon, NWorkersAssumption DEF Workers
<1>2. Phases'
  BY Zenon DEF Phases, Calm, Calling
<1> QED
  BY Zenon, <1>1, <1>2, QuietStep

LEMMA ClearSendersStep ==
    ASSUME HandleInv, ClearSenders PROVE HandleInv'
<1> USE DEF HandleInv, TypeInv, call, channels, threads, ClearSenders
<1>1. TypeInv'
  BY Zenon, NWorkersAssumption DEF Workers
<1>2. Phases'
  BY Zenon DEF Phases, Calm, Calling
<1> QED
  BY Zenon, <1>1, <1>2, QuietStep

LEMMA ClearReceiversStep ==
    ASSUME HandleInv, ClearReceivers PROVE HandleInv'
<1> USE DEF HandleInv, TypeInv, call, channels, threads, ClearReceivers
<1>1. TypeInv'
  BY Zenon, WorkerNumbers
<1>2. Phases'
  BY Zenon DEF Phases, Calm, Calling
<1> QED
  BY Zenon, <1>1, <1>2, QuietStep

LEMMA KillStoreStep ==
    ASSUME HandleInv, KillStore PROVE HandleInv'
<1> USE DEF HandleInv, TypeInv, call, channels, threads, KillStore
<1>1. TypeInv'
  BY Zenon, NWorkersAssumption DEF Workers
<1>2. Phases'
  BY Zenon DEF Phases, Calm, Calling
<1> QED
  BY Zenon, <1>1, <1>2, QuietStep

LEMMA KillUnparkStep ==
    ASSUME HandleInv, KillUnpark PROVE HandleInv'
<1> USE DEF HandleInv, TypeInv, call, channels, threads, KillUnpark
<1>1. TypeInv'
  <2>1. worker < nworkers
    BY Zenon DEF Phases
  <2> QED
    BY Zenon, <2>1, WorkerNumbers
<1>2. Phases'
  BY Zenon DEF Phases, Calm, Calling
<1> QED
  BY Zenon, <1>1, <1>2, QuietStep

LEMMA JoinStep ==
    ASSUME HandleInv, join PROVE HandleInv'
<1> USE DEF HandleInv, TypeInv, call, channels, threads, join
<1>1. TypeInv'
  BY Zenon, NWorkersAssumption DEF Workers
<1>2. Phases'
  BY Zenon DEF Phases, Calm, Calling
<1> QED
  BY Zenon, <1>1, <1>2, QuietStep

-----------------------------------------------------------------------------
(* The worker threads. *)
(* What a step of a worker keeps: before anything has failed, the part of  *)
(* the worker in the phases.                                               *)
Kept(w) ==
    Calm => /\ Fresh(w) => Fresh(w)'
            /\ Waiting(w) /\ commands[w] = <<>> => Waiting(w)'
            /\ Idle(w) => Idle(w)'
            /\ Untold(w) => Untold(w)'
            /\ status'[w] # <<>> => status[w] # <<>> \/ Waiting(w)'

LEMMA PhasesKept ==
    ASSUME HandleInv, \A w \in Workers : Kept(w),
           UNCHANGED <<hpc, worker, call, senders, receivers, kill_signal>>
    PROVE  Phases'
<1> USE DEF HandleInv, call
<1>1. Calm' = Calm /\ Calling' = Calling /\ (Calling => Calm)
  BY Zenon DEF Calm, Calling
<1>2. ASSUME Calling, NEW w \in Workers, status'[w] # <<>> PROVE Waiting(w)'
  <2>1. status[w] # <<>> => commands[w] = <<>> /\ Waiting(w)
    BY Zenon, <1>1, <1>2 DEF Phases, Answers
  <2> QED
    BY Zenon, <1>1, <1>2, <2>1 DEF Kept
<1>3. CASE Calm
  <2>1. /\ senders' /\ receivers' /\ runtime'
        /\ \A w \in Workers : ~kill_signal'[w]
    BY Zenon, <1>3 DEF Phases
  <2>2. hpc' = "init" =>
          /\ issued' = 0 /\ cycles' = 0
          /\ \A w \in Workers : Fresh(w)'
          /\ result' = "ok" => \A w \in Workers : w < worker' => Waiting(w)'
    <3>1. hpc = "init" => /\ issued = 0 /\ cycles = 0
                         /\ \A w \in Workers : Fresh(w) /\ Fresh(w)' /\ commands[w] = <<>>
      BY Zenon, <1>3 DEF Phases, Kept, Fresh
    <3> QED
      BY Zenon, <1>3, <3>1 DEF Phases, Kept
  <2>3. hpc' = "idle" /\ runtime' => \A w \in Workers : Idle(w)'
    BY Zenon, <1>3 DEF Phases, Kept
  <2>4. hpc' = "send" => \A w \in Workers : w >= worker' => Untold(w)'
    BY Zenon, <1>3 DEF Phases, Kept
  <2>5. hpc' = "unpark" => worker' < nworkers /\ \A w \in Workers : w > worker' => Untold(w)'
    BY Zenon, <1>3 DEF Phases, Kept
  <2>6. hpc' = "recv" => \A w \in Workers : w < worker' => Idle(w)'
    BY Zenon, <1>3 DEF Phases, Kept
  <2> QED
    BY Zenon, <1>1, <1>2, <2>1, <2>2, <2>3, <2>4, <2>5, <2>6 DEF Phases
<1>4. CASE ~Calm
  BY Zenon, <1>1, <1>4 DEF Phases, Calm, Calling
<1> QED
  BY Zenon, <1>3, <1>4

LEMMA BuildStep ==
    ASSUME HandleInv, NEW x \in Workers, Build(x) PROVE HandleInv'
<1> USE DEF HandleInv, TypeInv, Workers, call, channels, threads, Build
<1>1. TypeInv'
  BY Zenon, NWorkersAssumption DEF Positions
<1>2. ASSUME NEW v \in Workers PROVE Progress(v)'
  BY Zenon, <1>2 DEF Progress, InStep, Busy
<1>3. ASSUME receivers', NEW v \in Workers PROVE Answers(v)'
  BY Zenon, <1>3 DEF Answers, InStep, Busy
<1>4. ASSUME NEW v \in Workers PROVE Kept(v)
  BY Zenon, <1>4 DEF Kept, Fresh, Idle, Untold, Waiting, InStep, Busy
<1>5. Phases'
  BY Zenon, <1>4, PhasesKept
<1> QED
  BY Zenon, <1>1, <1>2, <1>3, <1>5

LEMMA CheckKillStep ==
    ASSUME HandleInv, NEW x \in Workers, CheckKill(x) PROVE HandleInv'
<1> USE DEF HandleInv, TypeInv, Workers, call, channels, threads, CheckKill
<1>1. TypeInv'
  BY Zenon, NWorkersAssumption DEF Positions
<1>2. ASSUME NEW v \in Workers PROVE Progress(v)'
  BY Zenon, <1>2 DEF Progress, InStep, Busy
<1>3. ASSUME receivers', NEW v \in Workers PROVE Answers(v)'
  BY Zenon, <1>3 DEF Answers, InStep, Busy
<1>4. ASSUME NEW v \in Workers PROVE Kept(v)
  <2>1. Calm => receivers /\ ~kill_signal[x]
    BY Zenon DEF Phases
  <2> QED
    BY Zenon, <2>1, <1>4 DEF Kept, Fresh, Idle, Untold, Waiting, InStep, Busy
<1>5. Phases'
  BY Zenon, <1>4, PhasesKept
<1> QED
  BY Zenon, <1>1, <1>2, <1>3, <1>5

LEMMA TryRecvStep ==
    ASSUME HandleInv, NEW x \in Workers, TryRecv(x) PROVE HandleInv'
<1> USE DEF HandleInv, TypeInv, Workers, call, channels, threads
<1> DEFINE next == NextCommand(x)
<1>0. Progress(x) /\ pc[x] = "try_recv" /\ command \in {"step", "profile"}
  BY Zenon DEF TryRecv, Commands
<1>1. /\ commands[x] = <<>> => next \in {"park", "exited"} /\ (senders => next = "park")
      /\ commands[x] # <<>> => \/ /\ command = "step" /\ steps[x] + 1 = cycles
                                 /\ next = "step"
                              \/ /\ command = "profile" /\ steps[x] = cycles
                                 /\ next = "respond_ok"
  <2>1. CASE commands[x] = <<>>
    BY <2>1 DEF NextCommand
  <2>2. CASE commands[x] # <<>>
    <3>1. CASE command = "step"
      BY <1>0, <2>2, <3>1 DEF NextCommand, Progress
    <3>2. CASE command = "profile"
      BY <1>0, <2>2, <3>2 DEF NextCommand, Progress
    <3> QED
      BY Zenon, <1>0, <3>1, <3>2
  <2> QED
    BY Zenon, <2>1, <2>2
<1>2. /\ pc' = [pc EXCEPT ![x] = next] /\ commands' = [commands EXCEPT ![x] = <<>>]
      /\ commands[x] # <<>> => taken' = [taken EXCEPT ![x] = @ + 1]
      /\ commands[x] = <<>> => taken' = taken
      /\ UNCHANGED <<hpc, worker, call, senders, receivers, status, kill_signal, steps>>
  BY Zenon DEF TryRecv
<1> HIDE DEF next
<1>3. /\ pc'[x] = next /\ commands'[x] = <<>>
      /\ \A v \in Workers : v # x => /\ pc'[v] = pc[v] /\ commands'[v] = commands[v]
                                     /\ taken'[v] = taken[v]
      /\ commands[x] # <<>> => taken'[x] = taken[x] + 1
      /\ commands[x] = <<>> => taken'[x] = taken[x]
  BY Zenon, <1>2
<1>4. TypeInv'
  <2>1. next \in Positions
    BY Zenon, <1>1 DEF Positions
  <2>2. taken' \in [Workers -> Nat]
    BY <1>2
  <2> QED
    BY Zenon, <1>2, <2>1, <2>2
<1>5. ASSUME NEW v \in Workers PROVE Progress(v)'
  BY Zenon, <1>0, <1>1, <1>2, <1>3 DEF Progress, InStep, Busy
<1>6. ASSUME receivers', NEW v \in Workers PROVE Answers(v)'
  <2>0. Answers(v)
    BY Zenon, <1>2, <1>6
  <2>1. CASE v = x
    BY Zenon, <2>0, <2>1, <1>0, <1>1, <1>2, <1>3 DEF Answers, InStep, Busy
  <2>2. CASE v # x
    BY Zenon, <2>0, <2>2, <1>2, <1>3 DEF Answers, InStep, Busy
  <2> QED
    BY Zenon, <2>1, <2>2
<1>7. ASSUME NEW v \in Workers PROVE Kept(v)
  <2>1. Calm => senders /\ receivers /\ Answers(x)
    BY Zenon DEF Phases
  <2>2. CASE v = x
    <3>1. CASE commands[x] = <<>>
      BY Zenon, <2>1, <2>2, <3>1, <1>0, <1>1, <1>2, <1>3
      DEF Kept, Fresh, Idle, Untold, Waiting, InStep, Busy
    <3>2. CASE commands[x] # <<>>
      BY Zenon, <2>1, <2>2, <3>2, <1>2 DEF Kept, Fresh, Idle, Untold, Answers
    <3> QED
      BY Zenon, <3>1, <3>2
  <2>3. CASE v # x
    BY Zenon, <2>3, <1>2, <1>3 DEF Kept, Fresh, Idle, Untold, Waiting, InStep, Busy
  <2> QED
    BY Zenon, <2>2, <2>3
<1>8. Phases'
  BY Zenon, <1>2, <1>7, PhasesKept
<1> QED
  BY Zenon, <1>4, <1>5, <1>6, <1>8

LEMMA ParkStep ==
    ASSUME HandleInv, NEW x \in Workers, park(x) PROVE HandleInv'
<1> USE DEF HandleInv, TypeInv, Workers, call, channels, threads, park
<1>1. TypeInv'
  BY Zenon, NWorkersAssumption DEF Positions
<1>2. ASSUME NEW v \in Workers PROVE Progress(v)'
  BY Zenon, <1>2 DEF Progress, InStep, Busy
<1>3. ASSUME receivers', NEW v \in Workers PROVE Answers(v)'
  BY Zenon, <1>3 DEF Answers, InStep, Busy
<1>4. ASSUME NEW v \in Workers PROVE Kept(v)
  BY Zenon, <1>4 DEF Kept, Fresh, Idle, Untold, Waiting, InStep, Busy
<1>5. Phases'
  BY Zenon, <1>4, PhasesKept
<1> QED
  BY Zenon, <1>1, <1>2, <1>3, <1>5

LEMMA EnterExchangeStep ==
    ASSUME HandleInv, NEW x \in Workers, EnterExchange(x) PROVE HandleInv'
<1> USE DEF HandleInv, TypeInv, Workers, call, channels, threads, EnterExchange
<1>1. TypeInv'
  BY Zenon, NWorkersAssumption DEF Positions
<1>2. ASSUME NEW v \in Workers PROVE Progress(v)'
  BY Zenon, <1>2 DEF Progress, InStep, Busy
<1>3. ASSUME receivers', NEW v \in Workers PROVE Answers(v)'
  BY Zenon, <1>3 DEF Answers, InStep, Busy
<1>4. ASSUME NEW v \in Workers PROVE Kept(v)
  BY Zenon, <1>4 DEF Kept, Fresh, Idle, Untold, Waiting, InStep, Busy
<1>5. Phases'
  BY Zenon, <1>4, PhasesKept
<1> QED
  BY Zenon, <1>1, <1>2, <1>3, <1>5

LEMMA LeaveExchangeStep ==
    ASSUME HandleInv, NEW x \in Workers, LeaveExchange(x) PROVE HandleInv'
<1> USE DEF HandleInv, TypeInv, Workers, call, channels, threads, LeaveExchange
<1>1. TypeInv'
  BY Zenon, NWorkersAssumption DEF Positions
<1>2. ASSUME NEW v \in Workers PROVE Progress(v)'
  BY Zenon, <1>2 DEF Progress, InStep, Busy
<1>3. ASSUME receivers', NEW v \in Workers PROVE Answers(v)'
  BY Zenon, <1>3 DEF Answers, InStep, Busy
<1>4. ASSUME NEW v \in Workers PROVE Kept(v)
  BY Zenon, <1>4 DEF Kept, Fresh, Idle, Untold, Waiting, InStep, Busy
<1>5. Phases'
  BY Zenon, <1>4, PhasesKept
<1> QED
  BY Zenon, <1>1, <1>2, <1>3, <1>5

LEMMA StepDoneStep ==
    ASSUME HandleInv, NEW x \in Workers, StepDone(x) PROVE HandleInv'
<1> USE DEF HandleInv, TypeInv, Workers, call, channels, threads, StepDone, AtOperator
<1>1. TypeInv'
  <2>1. steps' \in [Workers -> Nat]
    OBVIOUS
  <2> QED
    BY Zenon, <2>1 DEF Positions
<1>2. ASSUME NEW v \in Workers PROVE Progress(v)'
  BY <1>2 DEF Progress, InStep, Busy
<1>3. ASSUME receivers', NEW v \in Workers PROVE Answers(v)'
  BY Zenon, <1>3 DEF Answers, InStep, Busy
<1>4. ASSUME NEW v \in Workers PROVE Kept(v)
  BY Zenon, <1>4 DEF Kept, Fresh, Idle, Untold, Waiting, InStep, Busy
<1>5. Phases'
  BY Zenon, <1>4, PhasesKept
<1> QED
  BY Zenon, <1>1, <1>2, <1>3, <1>5

LEMMA KilledStep ==
    ASSUME HandleInv, NEW x \in Workers, Killed(x) PROVE HandleInv'
<1> USE DEF HandleInv, TypeInv, Workers, call, channels, threads, Killed
<1>1. TypeInv'
  BY Zenon, NWorkersAssumption DEF Positions
<1>2. ASSUME NEW v \in Workers PROVE Progress(v)'
  BY Zenon, <1>2 DEF Progress, InStep, Busy
<1>3. ASSUME receivers', NEW v \in Workers PROVE Answers(v)'
  BY Zenon, <1>3 DEF Answers, InStep, Busy
<1>4. ASSUME NEW v \in Workers PROVE Kept(v)
  BY Zenon, <1>4 DEF Kept, Fresh, Idle, Untold, Waiting, InStep, Busy
<1>5. Phases'
  BY Zenon, <1>4, PhasesKept
<1> QED
  BY Zenon, <1>1, <1>2, <1>3, <1>5

LEMMA PanicStep ==
    ASSUME HandleInv, NEW x \in Workers, Panic(x) PROVE HandleInv'
<1> USE DEF HandleInv, TypeInv, Workers, call, channels, threads, Panic
<1>1. TypeInv'
  BY Zenon, NWorkersAssumption DEF Positions
<1>2. ASSUME NEW v \in Workers PROVE Progress(v)'
  BY Zenon, <1>2 DEF Progress, InStep, Busy
<1>3. ASSUME receivers', NEW v \in Workers PROVE Answers(v)'
  BY Zenon, <1>3 DEF Answers, InStep, Busy
<1>4. ASSUME NEW v \in Workers PROVE Kept(v)
  BY Zenon, <1>4 DEF Kept, Fresh, Idle, Untold, Waiting, InStep, Busy
<1>5. Phases'
  BY Zenon, <1>4, PhasesKept
<1> QED
  BY Zenon, <1>1, <1>2, <1>3, <1>5

LEMMA RespondStep ==
    ASSUME HandleInv, NEW x \in Workers, Respond(x) PROVE HandleInv'
<1> USE DEF HandleInv, TypeInv, Workers, call, channels, threads, Respond
<1>1. TypeInv'
  BY Zenon, NWorkersAssumption DEF Positions
<1>2. ASSUME NEW v \in Workers PROVE Progress(v)'
  BY Zenon, <1>2 DEF Progress, InStep, Busy
<1>3. ASSUME receivers', NEW v \in Workers PROVE Answers(v)'
  <2>1. CASE v = x
    <3> DEFINE ok == pc[x] = "respond_ok"
    <3>1. status'[x] = <<[to |-> taken[x], ok |-> ok]>>
      BY Zenon, <1>3 DEF Respond
    <3>2. status'[x][1].to = taken[x] /\ status'[x][1].ok = ok
      <4> HIDE DEF ok
      <4> QED
        BY ZenonT(30), <3>1, ResponseFields
    <3>3. taken[x] = issued /\ commands[x] = <<>> /\ (pc[x] = "respond_ok" => steps[x] = cycles)
      BY Zenon, <1>3 DEF Respond, Answers, Progress, Busy
    <3> QED
      BY Zenon, <1>3, <2>1, <3>2, <3>3 DEF Respond, Answers, InStep, Busy
  <2>2. CASE v # x
    BY Zenon, <1>3, <2>2 DEF Respond, Answers, InStep, Busy
  <2> QED
    BY Zenon, <2>1, <2>2
<1>4. ASSUME NEW v \in Workers PROVE Kept(v)
  <2>1. Calm => receivers /\ ~kill_signal[x]
    BY Zenon DEF Phases
  <2> QED
    BY Zenon, <2>1, <1>4 DEF Kept, Fresh, Idle, Untold, Waiting, InStep, Busy
<1>5. Phases'
  BY Zenon, <1>4, PhasesKept
<1> QED
  BY Zenon, <1>1, <1>2, <1>3, <1>5

-----------------------------------------------------------------------------
(* The invariant is preserved by every step. *)
LEMMA HandleNext ==
    ASSUME HandleInv, [Next]_vars PROVE HandleInv'
<1>1. CASE Client
  BY Zenon, <1>1, InitRecvStep, InitDoneStep, SendCommandStep, UnparkStep, AllSentStep, RecvStatusStep,
     AllReceivedStep, ClearSendersStep, ClearReceiversStep, KillStoreStep, KillUnparkStep, JoinStep DEF Client
<1>2. CASE \E c \in Commands : Call(c)
  BY Zenon, <1>2, CallStep
<1>3. CASE Kill
  BY Zenon, <1>3, KillStep
<1>4. ASSUME NEW w \in Workers, Worker(w) PROVE HandleInv'
  BY Zenon, <1>4, BuildStep, CheckKillStep, TryRecvStep, ParkStep, EnterExchangeStep,
     LeaveExchangeStep, StepDoneStep, KilledStep, PanicStep, RespondStep DEF Worker
<1>5. CASE UNCHANGED vars
  <2> USE <1>5 DEF HandleInv, vars, call, channels, threads
  <2>1. TypeInv'
    BY Zenon DEF TypeInv
  <2>2. Phases'
    BY Zenon DEF Phases, Calm, Calling, Fresh, Idle, Untold, Waiting, InStep, Busy
  <2> QED
    BY Zenon, <2>1, <2>2, QuietStep
<1> QED
  BY Zenon, <1>1, <1>2, <1>3, <1>4, <1>5 DEF Next

LEMMA HandleInit ==
    ASSUME Init PROVE HandleInv
<1>1. TypeInv
  BY NWorkersAssumption DEF Init, TypeInv, Positions, Commands, Workers
<1>2. ASSUME NEW w \in Workers PROVE Progress(w) /\ Answers(w) /\ Fresh(w)
  BY DEF Init, Progress, Answers, Fresh, InStep, Busy
<1>3. Phases
  BY <1>2 DEF Init, Phases, Calm, Calling, Workers
<1> QED
  BY Zenon, <1>1, <1>2, <1>3 DEF HandleInv

LEMMA HandleInvariant == Spec => []HandleInv
<1>1. Init => HandleInv
  BY Zenon, HandleInit
<1>2. HandleInv /\ [Next]_vars => HandleInv'
  BY Zenon, HandleNext
<1> QED
  BY <1>1, <1>2, PTL DEF Spec

(* A worker evaluates a cycle only when all have completed the one before, *)
(* and a step() that returned Ok has run in every worker: what Gather is   *)
(* proved to need.                                                         *)
THEOREM WorkersInLockstep == Spec => []CyclesInLockstep
<1>1. HandleInv => CyclesInLockstep
  <2> SUFFICES ASSUME HandleInv PROVE CyclesInLockstep
    BY Zenon
  <2>1. ASSUME NEW v \in Workers, NEW w \in Workers, InStep(w) PROVE steps[v] >= steps[w]
    BY <2>1 DEF HandleInv, TypeInv, Progress
  <2>2. hpc = "idle" /\ runtime => \A w \in Workers : steps[w] = cycles
    BY Zenon DEF HandleInv, Phases, Idle
  <2> QED
    BY Zenon, <2>1, <2>2 DEF CyclesInLockstep, InStep
<1> QED
  BY <1>1, HandleInvariant, PTL

(* The client never takes a response for that to another command, and      *)
(* leaves none in a channel when broadcast_command returns Ok.             *)
THEOREM ResponsesMatch == Spec => []NoStaleResponse
<1>1. HandleInv => NoStaleResponse
  BY Zenon DEF HandleInv, Answers, Phases, Idle, NoStaleResponse
<1> QED
  BY <1>1, HandleInvariant, PTL
-----------------------------------------------------------------------------
(* Input and output handles.                                               *)
Upd == [key : DOMAIN hash, by : Nat, id : Nat]

IoTypeInv ==
    /\ scenario \in Scenarios
    /\ todo \in [Producers -> Seq(ApiCalls)]
    /\ at \in [Producers -> Workers]
    /\ next_worker \in [Producers -> Nat]
    /\ inbox \in [Workers -> Seq(Upd)]
    /\ log \in [Workers -> Seq(Seq(Upd))]
    /\ round \in [Workers -> {"start", "read", "written"}]
    /\ DOMAIN outbox = Workers /\ DOMAIN read = Workers

(* What is left of a producer's program is a program, and a push serves    *)
(* one worker only.                                                        *)
ProgramInv(p) ==
    /\ Program(todo[p], p)
    /\ Values(todo[p]) \subseteq Updates
    /\ todo[p] # <<>> /\ Head(todo[p]).op = "push" => at[p] = 0

Programs == \A p \in Producers : ProgramInv(p)

(* Update u is the i-th of those that worker w took in cycle c, or that it *)
(* will take in its next cycle c.                                          *)
Holds(w, c, i, u) ==
    /\ w \in Workers
    /\ c \in DOMAIN Stream(w) /\ i \in DOMAIN Stream(w)[c]
    /\ Stream(w)[c][i] = u

SameKey(x, y) == x.key = y.key /\ x.by = y.by

(* An update is at one place, undelivered or cleared; upserts of a key are *)
(* at the worker of the key, in the order of the program.                  *)
PlacesInv ==
    /\ \A w, c, i, u : Holds(w, c, i, u) =>
         /\ u \in Updates /\ u \notin Undelivered \cup cleared
         /\ scenario.upsert => hash[u.key] % nworkers = w
    /\ \A v, w, c, d, i, j, u :
         Holds(v, c, i, u) /\ Holds(w, d, j, u) => v = w /\ c = d /\ i = j
    /\ \A u \in Updates : u \notin Undelivered \cup cleared => \E w, c, i : Holds(w, c, i, u)
    /\ scenario.upsert => \A w, c, d, i, j, x, y :
         Holds(w, c, i, x) /\ Holds(w, d, j, y) /\ SameKey(x, y) /\ x.id < y.id =>
           c < d \/ (c = d /\ i < j)
    /\ scenario.upsert => \A w, c, i, x : \A y \in Undelivered :
         Holds(w, c, i, x) /\ SameKey(x, y) => x.id < y.id
    /\ Undelivered \cap (cleared \cup before) = {}

(* The cycle whose value worker w wrote last. *)
Written(w) == IF Stepping(w) /\ round[w] = "written" THEN steps[w] + 1 ELSE steps[w]

CycleInv(w) ==
    /\ ~Stepping(w) => round[w] = "start"
    /\ Calm /\ ~Dead(w) =>
         /\ pc[w] # "respond_err"
         /\ Len(log[w]) = IF Stepping(w) /\ round[w] # "start" THEN steps[w] + 1 ELSE steps[w]
         /\ Written(w) > 0 =>
              IF outbox[w] = <<>> THEN read[w] = Written(w)
              ELSE outbox[w] = <<[cycle |-> Written(w), vals |-> Applied(log[w][Written(w)])]>>
    /\ \A u \in Range(inbox[w]) \cap before : Len(log[w]) < cycles

IoInv ==
    /\ HandleInv
    /\ IoTypeInv
    /\ Programs
    /\ PlacesInv
    /\ \A w \in Workers : CycleInv(w)
-----------------------------------------------------------------------------
(* How an append is divided among the workers.                             *)

LEMMA DivMod ==
    ASSUME NEW n \in Nat \ {0}, NEW a \in Int
    PROVE  a = n * (a \div n) + (a % n) /\ a % n \in 0 .. n - 1 /\ a \div n \in Int
  OBVIOUS

LEMMA TimesMonotone ==
    ASSUME NEW s \in Nat, NEW a \in Int, NEW b \in Int, a <= b
    PROVE  s * a <= s * b
<1>1. s * (b - a) >= 0 /\ s * b = s * a + s * (b - a)
  OBVIOUS
<1> QED
  BY <1>1

(* A number less than n away from 0 that n divides is 0. *)
LEMMA SmallMultiple ==
    ASSUME NEW n \in Nat \ {0}, NEW d \in Int, n * d > -n, n * d < n
    PROVE  d = 0
<1>1. d >= 1 => n * d >= n
  OBVIOUS
<1>2. d <= -1 => n * d <= -n
  OBVIOUS
<1> QED
  BY <1>1, <1>2

LEMMA ModUnique ==
    ASSUME NEW n \in Nat \ {0}, NEW q \in Int, NEW r \in 0 .. n - 1
    PROVE  (n * q + r) % n = r
<1> DEFINE a == n * q + r
           d == q - (a \div n)
<1>0. a \in Int
  OBVIOUS
<1>1. a = n * (a \div n) + (a % n) /\ a % n \in 0 .. n - 1 /\ a \div n \in Int
  <2> HIDE DEF a
  <2> QED
    BY Zenon, <1>0, DivMod
<1>2. d \in Int /\ n * d = (a % n) - r
  BY <1>1
<1> HIDE DEF a, d
<1>3. d = 0
  BY <1>0, <1>1, <1>2, SmallMultiple
<1> QED
  BY <1>0, <1>1, <1>2, <1>3 DEF a

(* Starting with any worker, the workers are served in a cyclic order. *)
LEMMA CyclicOrder ==
    ASSUME NEW n \in Nat \ {0}, NEW f \in Nat
    PROVE  /\ \A v, w \in 0 .. n - 1 : (v - f) % n = (w - f) % n => v = w
           /\ \A i \in 0 .. n - 1 : \E w \in 0 .. n - 1 : (w - f) % n = i
           /\ \A w \in 0 .. n - 1 : (w - f) % n \in 0 .. n - 1
<1>1. ASSUME NEW v \in 0 .. n - 1, NEW w \in 0 .. n - 1, (v - f) % n = (w - f) % n
      PROVE  v = w
  <2> DEFINE d == ((v - f) \div n) - ((w - f) \div n)
  <2>1. v - f \in Int /\ w - f \in Int
    OBVIOUS
  <2>2. /\ v - f = n * ((v - f) \div n) + ((v - f) % n) /\ (v - f) \div n \in Int
        /\ w - f = n * ((w - f) \div n) + ((w - f) % n) /\ (w - f) \div n \in Int
        /\ (v - f) % n \in Int /\ (w - f) % n \in Int
    BY <2>1, DivMod
  <2>3. d \in Int /\ n * d = v - w
    BY <1>1, <2>2
  <2> HIDE DEF d
  <2>4. d = 0
    BY <2>3, SmallMultiple
  <2> QED
    BY <2>3, <2>4
<1>2. ASSUME NEW i \in 0 .. n - 1 PROVE \E w \in 0 .. n - 1 : (w - f) % n = i
  <2> DEFINE w == (f + i) % n
             q == -((f + i) \div n)
  <2>1. f + i \in Int
    OBVIOUS
  <2>2. f + i = n * ((f + i) \div n) + ((f + i) % n) /\ w \in 0 .. n - 1 /\ (f + i) \div n \in Int
    BY Zenon, <2>1, DivMod
  <2>3. q \in Int /\ w - f = n * q + i
    BY <2>2
  <2> HIDE DEF w, q
  <2>4. (w - f) % n = i
    BY Zenon, <2>3, ModUnique
  <2> QED
    BY Zenon, <2>2, <2>4
<1>3. ASSUME NEW w \in 0 .. n - 1 PROVE (w - f) % n \in 0 .. n - 1
  <2>1. w - f \in Int
    OBVIOUS
  <2> QED
    BY Zenon, <2>1, DivMod
<1> QED
  BY Zenon, <1>1, <1>2, <1>3

(* A division of a sequence among the workers: each element goes to one    *)
(* place.                                                                  *)
Distinct(s) == \A i, j \in DOMAIN s : s[i] = s[j] => i = j

Division(S, vals, part) ==
    /\ \A w \in Workers : part[w] \in Seq(S)
    /\ \A w \in Workers : \A i \in DOMAIN part[w] : part[w][i] \in Range(vals)
    /\ \A x \in Range(vals) : \E w \in Workers : \E i \in DOMAIN part[w] : part[w][i] = x
    /\ \A v, w \in Workers : \A i \in DOMAIN part[v], j \in DOMAIN part[w] :
         part[v][i] = part[w][j] => v = w /\ i = j

LEMMA DivisionParts ==
    ASSUME NEW S, NEW vals, NEW part, Division(S, vals, part), NEW w \in Workers
    PROVE  part[w] \in Seq(S) /\ Distinct(part[w]) /\ Range(part[w]) \subseteq Range(vals)
<1>1. ASSUME NEW i \in DOMAIN part[w], NEW j \in DOMAIN part[w], part[w][i] = part[w][j] PROVE i = j
  <2>1. \A x \in Workers : \A k \in DOMAIN part[w], l \in DOMAIN part[x] :
          part[w][k] = part[x][l] => w = x /\ k = l
    BY Zenon DEF Division
  <2>2. \A k \in DOMAIN part[w], l \in DOMAIN part[w] : part[w][k] = part[w][l] => k = l
    BY Zenon, <2>1
  <2> QED
    BY Zenon, <1>1, <2>2
<1>2. part[w] \in Seq(S) /\ \A i \in DOMAIN part[w] : part[w][i] \in Range(vals)
  BY Zenon DEF Division
<1> QED
  BY Zenon, <1>1, <1>2 DEF Distinct, Range

LEMMA RoundRobinDivides ==
    ASSUME NEW S, NEW vals \in Seq(S), Distinct(vals), NEW first \in Nat
    PROVE  Division(S, vals, [w \in Workers |-> RoundRobin(vals, first, w)])
<1> DEFINE L == Len(vals)
           size == L \div nworkers
           ix(w) == (w - first) % nworkers
           hi(i) == L - size * i
           lo(i) == IF i = nworkers - 1 THEN 1 ELSE L - size * (i + 1) + 1
           part == [w \in Workers |-> RoundRobin(vals, first, w)]
<1>1. nworkers \in Nat \ {0} /\ L \in Nat /\ DOMAIN vals = 1 .. L
  BY NWorkersAssumption
<1>2. size \in Nat /\ nworkers * size <= L
  <2> HIDE DEF L
  <2>1. L = nworkers * size + (L % nworkers) /\ L % nworkers \in 0 .. nworkers - 1 /\ size \in Int
    BY <1>1, DivMod
  <2>2. size <= -1 => nworkers * size <= -nworkers
    BY <1>1, <2>1
  <2>3. nworkers * size \in Int
    BY <1>1, <2>1
  <2> HIDE DEF size
  <2> QED
    BY <1>1, <2>1, <2>2, <2>3
<1>3. /\ \A w \in Workers : part[w] = SubSeq(vals, lo(ix(w)), hi(ix(w)))
      /\ \A w \in Workers : ix(w) \in 0 .. nworkers - 1
      /\ \A v, w \in Workers : ix(v) = ix(w) => v = w
      /\ \A i \in 0 .. nworkers - 1 : \E w \in Workers : ix(w) = i
  BY Zenon, <1>1, CyclicOrder DEF RoundRobin, Workers
<1> HIDE DEF L, size, ix, part
<1>4. ASSUME NEW i \in 0 .. nworkers - 1
      PROVE  lo(i) \in 1 .. L + 1 /\ hi(i) \in 0 .. L
  <2>1. /\ size * i \in Int /\ size * (i + 1) \in Int /\ 0 <= size * i
        /\ size * i <= size * nworkers /\ size * (i + 1) <= size * nworkers
    BY <1>1, <1>2, TimesMonotone
  <2>2. size * nworkers <= L /\ size * nworkers \in Int
    BY <1>1, <1>2
  <2>3. 0 <= size * (i + 1)
    BY <1>2
  <2> QED
    BY SMTT(30), <1>1, <2>1, <2>2, <2>3
<1>5. ASSUME NEW i \in 0 .. nworkers - 1, NEW j \in 0 .. nworkers - 1, i < j
      PROVE  hi(j) < lo(i)
  <2>1. size * (i + 1) <= size * j /\ size * (i + 1) \in Int /\ size * j \in Int
    BY <1>2, <1>5, TimesMonotone
  <2>2. i # nworkers - 1
    BY <1>1, <1>5
  <2> QED
    BY <1>1, <2>1, <2>2
<1>6. ASSUME NEW k \in 1 .. L
      PROVE  \E i \in 0 .. nworkers - 1 : lo(i) <= k /\ k <= hi(i)
  <2> DEFINE d == L - k
             q == d \div size
  <2>1. d \in Nat
    BY <1>1
  <2>2. CASE size * (nworkers - 1) <= d
    <3>1. size * (nworkers - 1) \in Int
      BY <1>1, <1>2
    <3> QED
      BY <1>1, <2>1, <2>2, <3>1
  <2>3. CASE ~(size * (nworkers - 1) <= d)
    <3>1. size # 0
      BY <1>1, <2>1, <2>3
    <3>2. d = size * q + (d % size) /\ d % size \in 0 .. size - 1 /\ q \in Int
      <4> HIDE DEF d
      <4>1. size \in Nat \ {0} /\ d \in Int
        BY <1>2, <2>1, <3>1
      <4> QED
        BY Zenon, <4>1, DivMod
    <3> HIDE DEF q, d
    <3>3. q >= 0
      <4>1. q <= -1 => size * q <= -size
        BY <1>2, <3>2
      <4>2. size * q \in Int
        BY <1>2, <3>2
      <4> QED
        BY <1>2, <2>1, <3>2, <4>1, <4>2
    <3>4. q < nworkers - 1
      <4>1. q >= nworkers - 1 => size * q >= size * (nworkers - 1)
        BY <1>1, <1>2, <3>2, TimesMonotone
      <4>2. size * q \in Int /\ size * (nworkers - 1) \in Int
        BY <1>1, <1>2, <3>2
      <4> QED
        BY SMTT(30), <1>1, <1>2, <2>1, <2>3, <3>2, <4>1, <4>2
    <3>5. size * (q + 1) = size * q + size /\ size * q \in Int
      BY <1>2, <3>2
    <3>6. lo(q) <= k /\ k <= hi(q)
      BY <1>1, <1>2, <3>2, <3>4, <3>5 DEF d
    <3> QED
      BY <1>1, <3>2, <3>3, <3>4, <3>6
  <2> QED
    BY Zenon, <2>2, <2>3
<1>7. ASSUME NEW w \in Workers
      PROVE  LET a == lo(ix(w))
                 b == hi(ix(w))
             IN  /\ part[w] \in Seq(S)
                 /\ Len(part[w]) = IF a <= b THEN b - a + 1 ELSE 0
                 /\ \A k \in 1 .. Len(part[w]) : part[w][k] = vals[a + k - 1] /\ a + k - 1 \in 1 .. L
  <2> DEFINE a == lo(ix(w))
             b == hi(ix(w))
  <2>1. a \in 1 .. L + 1 /\ b \in 0 .. L /\ part[w] = SubSeq(vals, a, b)
    BY Zenon, <1>3, <1>4
  <2> HIDE DEF a, b, lo, hi
  <2>2. /\ part[w] \in Seq(S)
        /\ Len(part[w]) = IF a <= b THEN b - a + 1 ELSE 0
    BY <1>1, <2>1 DEF L
  <2>3. ASSUME NEW k \in 1 .. Len(part[w]) PROVE part[w][k] = vals[a + k - 1] /\ a + k - 1 \in 1 .. L
    BY <1>1, <2>1, <2>2 DEF L
  <2> QED
    BY Zenon, <2>2, <2>3 DEF a, b
<1> DEFINE A(w) == lo(ix(w))
           B(w) == hi(ix(w))
<1>8. /\ \A w \in Workers : A(w) \in 1 .. L + 1 /\ B(w) \in 0 .. L
      /\ \A v, w \in Workers : v # w => B(v) < A(w) \/ B(w) < A(v)
      /\ \A k \in 1 .. L : \E w \in Workers : A(w) <= k /\ k <= B(w)
  <2> HIDE DEF lo, hi
  <2>1. ASSUME NEW v \in Workers, NEW w \in Workers, v # w PROVE B(v) < A(w) \/ B(w) < A(v)
    <3>1. ix(v) < ix(w) \/ ix(w) < ix(v)
      BY <1>1, <1>3, <2>1
    <3> QED
      BY Zenon, <1>3, <1>5, <3>1
  <2>2. ASSUME NEW k \in 1 .. L PROVE \E w \in Workers : A(w) <= k /\ k <= B(w)
    BY Zenon, <1>3, <1>6
  <2> QED
    BY Zenon, <1>3, <1>4, <2>1, <2>2
<1>9. \A w \in Workers : /\ part[w] \in Seq(S)
                         /\ Len(part[w]) = IF A(w) <= B(w) THEN B(w) - A(w) + 1 ELSE 0
                         /\ \A k \in 1 .. Len(part[w]) : /\ part[w][k] = vals[A(w) + k - 1]
                                                         /\ A(w) + k - 1 \in 1 .. L
  BY Zenon, <1>7
<1> HIDE DEF A, B
<1>10. \A w \in Workers : DOMAIN part[w] = 1 .. Len(part[w]) /\ Len(part[w]) \in Nat
  BY <1>9
<1>11. ASSUME NEW w \in Workers, NEW i \in DOMAIN part[w] PROVE part[w][i] \in Range(vals)
  BY Zenon, <1>1, <1>9, <1>10 DEF Range
<1>12. ASSUME NEW x \in Range(vals) PROVE \E w \in Workers : \E i \in DOMAIN part[w] : part[w][i] = x
  <2>1. PICK k \in 1 .. L : vals[k] = x
    BY Zenon, <1>1 DEF Range
  <2>2. PICK w \in Workers : A(w) <= k /\ k <= B(w)
    BY Zenon, <1>8
  <2>3. k - A(w) + 1 \in 1 .. Len(part[w]) /\ A(w) + (k - A(w) + 1) - 1 = k
    <3>1. A(w) \in Int /\ B(w) \in Int
      BY <1>8
    <3>2. Len(part[w]) = B(w) - A(w) + 1
      BY <1>9, <2>2, <3>1
    <3> QED
      BY <2>2, <3>1, <3>2
  <2>4. part[w][k - A(w) + 1] = x
    BY Zenon, <1>9, <2>1, <2>3
  <2> QED
    BY Zenon, <1>10, <2>3, <2>4
<1>13. ASSUME NEW v \in Workers, NEW w \in Workers,
              NEW i \in DOMAIN part[v], NEW j \in DOMAIN part[w], part[v][i] = part[w][j]
       PROVE  v = w /\ i = j
  <2>0. i \in 1 .. Len(part[v]) /\ j \in 1 .. Len(part[w])
    BY Zenon, <1>10
  <2>1. A(v) + i - 1 = A(w) + j - 1
    <3>1. vals[A(v) + i - 1] = vals[A(w) + j - 1]
      BY Zenon, <1>9, <1>13, <2>0
    <3>2. A(v) + i - 1 \in DOMAIN vals /\ A(w) + j - 1 \in DOMAIN vals
      BY Zenon, <1>1, <1>9, <2>0
    <3> QED
      BY Zenon, <3>1, <3>2 DEF Distinct
  <2>2. i <= B(v) - A(v) + 1 /\ j <= B(w) - A(w) + 1
    <3>1. ASSUME NEW u \in Workers, NEW k \in 1 .. Len(part[u]) PROVE k <= B(u) - A(u) + 1
      <4>1. A(u) \in Int /\ B(u) \in Int
        BY <1>8
      <4>2. Len(part[u]) = IF A(u) <= B(u) THEN B(u) - A(u) + 1 ELSE 0
        BY Zenon, <1>9
      <4> QED
        BY <4>1, <4>2
    <3> QED
      BY Zenon, <2>0, <3>1
  <2>3. v = w
    <3> SUFFICES ASSUME v # w PROVE FALSE
      BY Zenon
    <3>1. B(v) < A(w) \/ B(w) < A(v)
      BY Zenon, <1>8
    <3>2. A(v) \in Int /\ B(v) \in Int /\ A(w) \in Int /\ B(w) \in Int
      BY <1>8
    <3>3. i \in Int /\ j \in Int /\ i >= 1 /\ j >= 1
      BY <1>10, <2>0
    <3> QED
      BY SMTT(30), <2>1, <2>2, <3>1, <3>2, <3>3
  <2> QED
    BY SMTT(30), <1>1, <1>8, <1>10, <2>0, <2>1, <2>3
<1>14. Division(S, vals, part)
  BY Zenon, <1>9, <1>11, <1>12, <1>13 DEF Division
<1> QED
  BY Zenon, <1>14 DEF part

(* The position of index j among the selected ones numbers them in order. *)
Rank(mine, j) == Cardinality({k \in mine : k <= j})

(* What is needed of ranks; Ranks, at the end, proves it. *)
Ranked ==
    \A n \in Nat : \A mine \in SUBSET (1 .. n) :
      /\ Cardinality(mine) \in Nat
      /\ \A j \in mine : Rank(mine, j) \in 1 .. Cardinality(mine)
      /\ \A i, j \in mine : i < j => Rank(mine, i) < Rank(mine, j)
      /\ \A i \in 1 .. Cardinality(mine) : \E j \in mine : Rank(mine, j) = i

LEMMA SelectInOrder ==
    ASSUME Ranked, NEW S, NEW vals \in Seq(S), NEW mine \in SUBSET DOMAIN vals
    PROVE  \E ix \in [1 .. Cardinality(mine) -> mine] :
             /\ Cardinality(mine) \in Nat
             /\ Select(vals, mine) = [i \in 1 .. Cardinality(mine) |-> vals[ix[i]]]
             /\ \A i, j \in 1 .. Cardinality(mine) : i < j => ix[i] < ix[j]
             /\ \A k \in mine : \E i \in 1 .. Cardinality(mine) : ix[i] = k
<1> DEFINE C == Cardinality(mine)
           ix == [i \in 1 .. C |-> CHOOSE j \in mine : Rank(mine, j) = i]
<1>0. mine \in SUBSET (1 .. Len(vals)) /\ Len(vals) \in Nat
  OBVIOUS
<1>1. /\ C \in Nat
      /\ \A j \in mine : Rank(mine, j) \in 1 .. C
      /\ \A i, j \in mine : i < j => Rank(mine, i) < Rank(mine, j)
      /\ \A i \in 1 .. C : \E j \in mine : Rank(mine, j) = i
  BY Zenon, <1>0 DEF Ranked
<1> HIDE DEF C
<1>2. \A i \in 1 .. C : ix[i] \in mine /\ Rank(mine, ix[i]) = i
  BY Zenon, <1>1
<1>3. ix \in [1 .. C -> mine]
  BY Zenon, <1>2
<1>4. Select(vals, mine) = [i \in 1 .. C |-> vals[ix[i]]]
  BY DEF Select, Rank, C
<1> HIDE DEF ix
<1>5. ASSUME NEW i \in 1 .. C, NEW j \in 1 .. C, i < j PROVE ix[i] < ix[j]
  <2>1. ix[i] # ix[j]
    BY <1>1, <1>2, <1>5
  <2>2. ~(ix[j] < ix[i])
    BY <1>1, <1>2, <1>5
  <2> QED
    BY <1>0, <1>2, <2>1, <2>2
<1>6. ASSUME NEW k \in mine PROVE \E i \in 1 .. C : ix[i] = k
  <2> DEFINE i == Rank(mine, k)
  <2>1. i \in 1 .. C /\ ix[i] \in mine /\ Rank(mine, ix[i]) = i
    BY Zenon, <1>1, <1>2
  <2>2. ~(ix[i] < k) /\ ~(k < ix[i])
    BY <1>1, <2>1
  <2> QED
    BY <1>0, <2>1, <2>2
<1> QED
  BY Zenon, <1>1, <1>3, <1>4, <1>5, <1>6 DEF C

LEMMA ByHashDivides ==
    ASSUME Ranked, NEW vals \in Seq(Upd), Distinct(vals)
    PROVE  /\ Division(Upd, vals, [w \in Workers |-> ByHash(vals, w)])
           /\ \A w \in Workers : \A i \in DOMAIN ByHash(vals, w) :
                hash[ByHash(vals, w)[i].key] % nworkers = w
           /\ \A w \in Workers : \A i, j \in DOMAIN ByHash(vals, w) : i < j =>
                \E k, l \in DOMAIN vals : /\ k < l
                                          /\ ByHash(vals, w)[i] = vals[k]
                                          /\ ByHash(vals, w)[j] = vals[l]
<1> DEFINE mine(w) == {j \in DOMAIN vals : hash[vals[j].key] % nworkers = w}
           C(w) == Cardinality(mine(w))
           part == [w \in Workers |-> ByHash(vals, w)]
<1>1. ASSUME NEW w \in Workers
      PROVE  \E ix \in [1 .. C(w) -> mine(w)] :
               /\ C(w) \in Nat
               /\ ByHash(vals, w) = [i \in 1 .. C(w) |-> vals[ix[i]]]
               /\ \A i, j \in 1 .. C(w) : i < j => ix[i] < ix[j]
               /\ \A k \in mine(w) : \E i \in 1 .. C(w) : ix[i] = k
  <2> DEFINE m == mine(w)
  <2>1. m \in SUBSET DOMAIN vals
    BY Zenon
  <2>2. ByHash(vals, w) = Select(vals, m)
    BY Zenon DEF ByHash
  <2> HIDE DEF m
  <2>3. \E ix \in [1 .. Cardinality(m) -> m] :
             /\ Cardinality(m) \in Nat
             /\ Select(vals, m) = [i \in 1 .. Cardinality(m) |-> vals[ix[i]]]
             /\ \A i, j \in 1 .. Cardinality(m) : i < j => ix[i] < ix[j]
             /\ \A k \in m : \E i \in 1 .. Cardinality(m) : ix[i] = k
    BY <2>1, SelectInOrder
  <2> QED
    BY Zenon, <2>2, <2>3 DEF m
<1> HIDE DEF C
<1>2. ASSUME NEW w \in Workers
      PROVE  /\ part[w] = ByHash(vals, w) /\ part[w] \in Seq(Upd)
             /\ \A i \in DOMAIN part[w] : \E k \in mine(w) : part[w][i] = vals[k]
             /\ \A k \in mine(w) : \E i \in DOMAIN part[w] : part[w][i] = vals[k]
             /\ \A i, j \in DOMAIN part[w] : i < j =>
                  \E k, l \in DOMAIN vals : k < l /\ part[w][i] = vals[k] /\ part[w][j] = vals[l]
             /\ \A i \in DOMAIN part[w] : i \in Int
  <2>1. PICK ix \in [1 .. C(w) -> mine(w)] :
               /\ C(w) \in Nat
               /\ ByHash(vals, w) = [i \in 1 .. C(w) |-> vals[ix[i]]]
               /\ \A i, j \in 1 .. C(w) : i < j => ix[i] < ix[j]
               /\ \A k \in mine(w) : \E i \in 1 .. C(w) : ix[i] = k
    BY Zenon, <1>1
  <2>2. part[w] = [i \in 1 .. C(w) |-> vals[ix[i]]] /\ part[w] = ByHash(vals, w)
    BY Zenon, <2>1
  <2>3. \A k \in mine(w) : k \in DOMAIN vals /\ vals[k] \in Upd
    <3>1. \A k \in DOMAIN vals : vals[k] \in Upd
      OBVIOUS
    <3> QED
      BY Zenon, <3>1
  <2> HIDE DEF mine, part
  <2>4. part[w] \in Seq(Upd)
    BY <2>1, <2>2, <2>3
  <2>5. DOMAIN part[w] = 1 .. C(w)
    BY Zenon, <2>2
  <2>6. \A i \in 1 .. C(w) : part[w][i] = vals[ix[i]] /\ ix[i] \in mine(w)
    BY Zenon, <2>1, <2>2
  <2>7. \A i \in DOMAIN part[w] : i \in Int /\ \E k \in mine(w) : part[w][i] = vals[k]
    BY <2>5, <2>6
  <2>8. \A k \in mine(w) : \E i \in DOMAIN part[w] : part[w][i] = vals[k]
    BY SMTT(30), <2>1, <2>5, <2>6
  <2>9. ASSUME NEW i \in DOMAIN part[w], NEW j \in DOMAIN part[w], i < j
        PROVE  \E k, l \in DOMAIN vals : k < l /\ part[w][i] = vals[k] /\ part[w][j] = vals[l]
    <3>1. ix[i] < ix[j] /\ part[w][i] = vals[ix[i]] /\ part[w][j] = vals[ix[j]]
      BY Zenon, <2>1, <2>5, <2>6, <2>9
    <3>2. ix[i] \in DOMAIN vals /\ ix[j] \in DOMAIN vals
      BY Zenon, <2>3, <2>5, <2>6
    <3> QED
      BY Zenon, <3>1, <3>2
  <2> QED
    BY Zenon, <2>2, <2>4, <2>7, <2>8, <2>9
<1>3. \A x \in Range(vals) : \E w \in Workers : \E i \in DOMAIN part[w] : part[w][i] = x
  <2> SUFFICES ASSUME NEW k \in DOMAIN vals
               PROVE  \E w \in Workers : \E i \in DOMAIN part[w] : part[w][i] = vals[k]
    BY Zenon DEF Range
  <2> DEFINE w == hash[vals[k].key] % nworkers
  <2>1. vals[k] \in Upd
    OBVIOUS
  <2>2. hash[vals[k].key] \in Nat
    BY Zenon, <2>1, HandlesAssumption DEF Upd
  <2>3. w \in Workers
    <3> DEFINE h == hash[vals[k].key]
    <3>1. h \in Int
      BY <2>2
    <3> HIDE DEF h
    <3>2. h % nworkers \in 0 .. nworkers - 1
      BY Zenon, <3>1, NWorkersAssumption, DivMod
    <3> QED
      BY Zenon, <3>2 DEF h, Workers
  <2>4. k \in mine(w)
    BY Zenon
  <2> HIDE DEF w, mine, part
  <2> QED
    BY Zenon, <1>2, <2>3, <2>4
<1>4. ASSUME NEW v \in Workers, NEW w \in Workers,
             NEW i \in DOMAIN part[v], NEW j \in DOMAIN part[w], part[v][i] = part[w][j]
      PROVE  v = w /\ i = j
  <2>1. PICK k \in mine(v) : part[v][i] = vals[k]
    BY Zenon, <1>2
  <2>2. PICK l \in mine(w) : part[w][j] = vals[l]
    BY Zenon, <1>2
  <2>3. k = l
    BY Zenon, <1>4, <2>1, <2>2 DEF Distinct
  <2>4. v = w
    BY Zenon, <2>3
  <2>5. ASSUME NEW a \in DOMAIN part[v], NEW b \in DOMAIN part[v], a < b
        PROVE  part[v][a] # part[v][b]
    <3>1. PICK m, n \in DOMAIN vals : m < n /\ part[v][a] = vals[m] /\ part[v][b] = vals[n]
      BY ZenonT(30), <1>2, <2>5
    <3> QED
      BY <3>1 DEF Distinct
  <2> QED
    BY <1>2, <1>4, <2>4, <2>5
<1>5. \A w \in Workers : \A i \in DOMAIN part[w] : part[w][i] \in Range(vals)
  BY <1>2 DEF Range
<1>6. \A w \in Workers : \A i \in DOMAIN part[w] : hash[part[w][i].key] % nworkers = w
  BY <1>2
<1>7. Division(Upd, vals, part)
  <2> HIDE DEF part, mine
  <2> QED
    BY Zenon, <1>2, <1>3, <1>4, <1>5 DEF Division
<1>8. \A w \in Workers : part[w] = ByHash(vals, w)
  BY Zenon
<1>9. \A w \in Workers : \A i, j \in DOMAIN part[w] : i < j =>
         \E k, l \in DOMAIN vals : k < l /\ part[w][i] = vals[k] /\ part[w][j] = vals[l]
  BY Zenon, <1>2
<1> HIDE DEF part
<1> QED
  BY SMTT(30), <1>6, <1>7, <1>8, <1>9 DEF part

LEMMA CallFacts ==
    ASSUME NEW p, NEW calls \in Seq(ApiCalls), Program(calls, p), calls # <<>>
    PROVE  /\ Head(calls) \in ApiCalls /\ Head(calls).vals \in Seq(Upd) /\ Distinct(Head(calls).vals)
           /\ \A k, l \in DOMAIN Head(calls).vals : k < l => Head(calls).vals[k].id < Head(calls).vals[l].id
           /\ Head(calls).op = "push" => Len(Head(calls).vals) = 1
           /\ Head(calls).op = "clear" => Head(calls).vals = <<>>
           /\ Tail(calls) \in Seq(ApiCalls) /\ Program(Tail(calls), p)
           /\ Values(calls) = Range(Head(calls).vals) \cup Values(Tail(calls))
           /\ \A x \in Values(calls) : x \in Upd /\ x.by = p
           /\ \A x \in Range(Head(calls).vals), y \in Values(Tail(calls)) : x.id < y.id
<1> DEFINE vals == calls[1].vals
           t == Tail(calls)
<1>1. /\ Head(calls) = calls[1] /\ 1 \in DOMAIN calls /\ calls[1] \in ApiCalls
      /\ t \in Seq(ApiCalls) /\ Len(t) = Len(calls) - 1
      /\ \A m \in DOMAIN t : t[m] = calls[m + 1] /\ m + 1 \in DOMAIN calls /\ m \in Nat
      /\ \A m \in DOMAIN calls : calls[m] \in ApiCalls /\ m \in Nat
      /\ \A m \in DOMAIN calls : m # 1 => m - 1 \in DOMAIN t /\ t[m - 1] = calls[m] /\ m > 1
      /\ 1 \notin DOMAIN t \/ 2 \in DOMAIN calls
  OBVIOUS
<1>0. \A m \in DOMAIN calls : /\ calls[m].op = "push" => Len(calls[m].vals) = 1
                              /\ calls[m].op = "clear" => calls[m].vals = <<>>
                              /\ \A i \in DOMAIN calls[m].vals : calls[m].vals[i].by = p
  BY Zenon DEF Program
<1>2. \A m \in DOMAIN calls : calls[m].vals \in Seq(Upd)
  BY Zenon, <1>1 DEF ApiCalls, Upd
<1>3. \A m \in DOMAIN calls : \A i \in DOMAIN calls[m].vals :
        /\ i \in Nat /\ calls[m].vals[i] \in Upd
        /\ calls[m].vals[i].id \in Nat /\ calls[m].vals[i].by = p
  <2> SUFFICES ASSUME NEW m \in DOMAIN calls, NEW i \in DOMAIN calls[m].vals
               PROVE  /\ i \in Nat /\ calls[m].vals[i] \in Upd
                      /\ calls[m].vals[i].id \in Nat /\ calls[m].vals[i].by = p
    BY Zenon
  <2> DEFINE s == calls[m].vals
  <2>1. s \in Seq(Upd) /\ i \in DOMAIN s
    BY Zenon, <1>2
  <2> HIDE DEF s
  <2>2. i \in Nat /\ s[i] \in Upd
    BY <2>1
  <2>3. s[i].id \in Nat
    BY Zenon, <2>2 DEF Upd
  <2>4. calls[m].vals[i].by = p
    BY <1>0, Zenon
  <2> QED
    BY Zenon, <2>2, <2>3, <2>4 DEF s
<1>4. \A k, l \in DOMAIN vals : k < l => vals[k].id < vals[l].id
  BY Zenon, <1>1 DEF Program
<1>5. Distinct(vals)
  <2> SUFFICES ASSUME NEW i \in DOMAIN vals, NEW j \in DOMAIN vals, vals[i] = vals[j], i # j PROVE FALSE
    BY Zenon DEF Distinct
  <2>1. i \in Nat /\ j \in Nat /\ vals[i].id \in Nat /\ vals[j].id \in Nat
    BY Zenon, <1>1, <1>3
  <2>2. i < j \/ j < i
    BY <2>1
  <2> QED
    BY <1>4, <2>1, <2>2
<1>6. Program(t, p)
  <2>1. ASSUME NEW m \in DOMAIN t
        PROVE  /\ t[m].op = "push" => Len(t[m].vals) = 1
               /\ t[m].op = "clear" => t[m].vals = <<>>
               /\ \A i \in DOMAIN t[m].vals : t[m].vals[i].by = p
    <3>1. t[m] = calls[m + 1] /\ m + 1 \in DOMAIN calls
      BY Zenon, <1>1
    <3>2. PICK c \in DOMAIN calls : t[m] = calls[c]
      BY Zenon, <3>1
    <3>3. /\ calls[c].op = "push" => Len(calls[c].vals) = 1
          /\ calls[c].op = "clear" => calls[c].vals = <<>>
          /\ \A i \in DOMAIN calls[c].vals : calls[c].vals[i].by = p
      BY <1>0, Zenon
    <3> HIDE DEF t
    <3> QED
      BY <3>2, <3>3, Zenon
  <2>2. ASSUME NEW m \in DOMAIN t, NEW n \in DOMAIN t,
               NEW i \in DOMAIN t[m].vals, NEW j \in DOMAIN t[n].vals, m < n \/ (m = n /\ i < j)
        PROVE  t[m].vals[i].id < t[n].vals[j].id
    <3>1. /\ t[m] = calls[m + 1] /\ t[n] = calls[n + 1] /\ m \in Nat /\ n \in Nat
          /\ m + 1 \in DOMAIN calls /\ n + 1 \in DOMAIN calls
      BY Zenon, <1>1
    <3>2. m + 1 < n + 1 \/ (m + 1 = n + 1 /\ i < j)
      BY <2>2, <3>1
    <3> QED
      BY Zenon, <3>1, <3>2 DEF Program
  <2> HIDE DEF t
  <2> QED
    BY Zenon, <2>1, <2>2 DEF Program
<1>7. Values(calls) = Range(vals) \cup Values(t)
  <2>1. ASSUME NEW x \in Values(calls) PROVE x \in Range(vals) \cup Values(t)
    <3>1. PICK m \in DOMAIN calls : x \in Range(calls[m].vals)
      BY Zenon DEF Values
    <3>2. m # 1 => m - 1 \in DOMAIN t /\ t[m - 1] = calls[m]
      BY Zenon, <1>1
    <3> HIDE DEF t
    <3> QED
      BY Zenon, <3>1, <3>2 DEF Values
  <2>2. ASSUME NEW x \in Range(vals) \cup Values(t) PROVE x \in Values(calls)
    <3>1. CASE x \in Range(vals)
      BY Zenon, <1>1, <3>1 DEF Values
    <3>2. CASE x \in Values(t)
      <4>1. PICK m \in DOMAIN t : x \in Range(t[m].vals)
        BY Zenon, <3>2 DEF Values
      <4>2. t[m] = calls[m + 1] /\ m + 1 \in DOMAIN calls
        BY Zenon, <1>1
      <4> HIDE DEF t
      <4> QED
        BY Zenon, <4>1, <4>2 DEF Values
    <3> QED
      BY Zenon, <2>2, <3>1, <3>2
  <2> QED
    BY Zenon, <2>1, <2>2
<1>8. ASSUME NEW x \in Values(calls) PROVE x \in Upd /\ x.by = p
  BY <1>3 DEF Values, Range
<1>9. ASSUME NEW x \in Range(vals), NEW y \in Values(t) PROVE x.id < y.id
  <2>1. PICK i \in DOMAIN vals : x = vals[i]
    BY Zenon DEF Range
  <2>2. PICK m \in DOMAIN t : \E j \in DOMAIN t[m].vals : y = t[m].vals[j]
    BY Zenon DEF Values, Range
  <2>3. t[m] = calls[m + 1] /\ m + 1 \in DOMAIN calls /\ 1 < m + 1
    <3>1. m \in Nat /\ m >= 1
      BY <1>1
    <3> QED
      BY <1>1, <3>1
  <2>4. PICK j \in DOMAIN t[m].vals : y = t[m].vals[j]
    BY Zenon, <2>2
  <2> DEFINE n == m + 1
  <2>5. n \in DOMAIN calls /\ 1 < n /\ t[m] = calls[n]
    BY Zenon, <2>3
  <2> HIDE DEF n, t
  <2>6. calls[1].vals[i].id < calls[n].vals[j].id
    BY Zenon, <1>1, <2>4, <2>5 DEF Program
  <2> QED
    BY Zenon, <2>1, <2>4, <2>5, <2>6
<1> QED
  <2>0. vals \in Seq(Upd)
    BY Zenon, <1>1, <1>2
  <2>1. /\ calls[1].op = "push" => Len(vals) = 1
        /\ calls[1].op = "clear" => vals = <<>>
    BY <1>0, <1>1, Zenon
  <2> HIDE DEF vals, t
  <2>2. Head(calls).vals = vals /\ Tail(calls) = t
    BY Zenon, <1>1 DEF vals, t
  <2> QED
    BY Zenon, <1>1, <1>4, <1>5, <1>6, <1>7, <1>8, <1>9, <2>0, <2>1, <2>2

(* The parts of a call are a division of its updates, by key and in the    *)
(* order of the program when they are upserts.                             *)
LEMMA PartDivides ==
    ASSUME Ranked, IoTypeInv, NEW p \in Producers, Program(todo[p], p), todo[p] # <<>>
    PROVE  /\ Division(Upd, Head(todo[p]).vals, [w \in Workers |-> Part(p, w)])
           /\ scenario.upsert => \A w \in Workers : \A i \in DOMAIN Part(p, w) :
                hash[Part(p, w)[i].key] % nworkers = w
           /\ scenario.upsert => \A w \in Workers : \A i, j \in DOMAIN Part(p, w) :
                i < j => Part(p, w)[i].id < Part(p, w)[j].id
<1> DEFINE vals == Head(todo[p]).vals
           f == next_worker[p]
<1>1. todo[p] \in Seq(ApiCalls) /\ f \in Nat
  BY Zenon DEF IoTypeInv
<1>2. /\ vals \in Seq(Upd) /\ Distinct(vals) /\ Head(todo[p]).op \in {"push", "append", "clear"}
      /\ \A k, l \in DOMAIN vals : k < l => vals[k].id < vals[l].id
      /\ Head(todo[p]).op = "push" => Len(vals) = 1
  <2>1. Head(todo[p]) \in ApiCalls
    BY ZenonT(30), <1>1, CallFacts
  <2> QED
    BY ZenonT(30), <1>1, <2>1, CallFacts DEF ApiCalls
<1>3. CASE scenario.upsert
  <2>1. \A w \in Workers : Part(p, w) = ByHash(vals, w)
    BY Zenon, <1>3 DEF Part
  <2> HIDE DEF vals
  <2>2. [w \in Workers |-> Part(p, w)] = [w \in Workers |-> ByHash(vals, w)]
    BY Zenon, <2>1
  <2>3. ASSUME NEW w \in Workers, NEW i \in DOMAIN ByHash(vals, w), NEW j \in DOMAIN ByHash(vals, w), i < j
        PROVE  ByHash(vals, w)[i].id < ByHash(vals, w)[j].id
    <3>0. \A u \in Workers : \A a, b \in DOMAIN ByHash(vals, u) : a < b =>
            \E k, l \in DOMAIN vals : /\ k < l
                                      /\ ByHash(vals, u)[a] = vals[k]
                                      /\ ByHash(vals, u)[b] = vals[l]
      <4>1. vals \in Seq(Upd) /\ Distinct(vals)
        BY Zenon, <1>2
      <4> QED
        BY <4>1, ByHashDivides, Zenon
    <3>1. PICK k, l \in DOMAIN vals : k < l /\ ByHash(vals, w)[i] = vals[k] /\ ByHash(vals, w)[j] = vals[l]
      BY Zenon, <2>3, <3>0
    <3> QED
      BY Zenon, <1>2, <3>1
  <2>4. Division(Upd, vals, [w \in Workers |-> Part(p, w)])
    BY Zenon, <1>2, <2>2, ByHashDivides
  <2>5. \A w \in Workers : \A i \in DOMAIN ByHash(vals, w) : hash[ByHash(vals, w)[i].key] % nworkers = w
    BY Zenon, <1>2, ByHashDivides
  <2> QED
    BY Zenon, <2>1, <2>3, <2>4, <2>5 DEF vals
<1>4. CASE ~scenario.upsert /\ Head(todo[p]).op = "push"
  <2> DEFINE part == [w \in Workers |-> Part(p, w)]
             h == f % nworkers
  <2>1. h \in Workers
    <3> HIDE DEF f
    <3>1. f \in Int /\ nworkers \in Nat \ {0}
      BY <1>1, NWorkersAssumption
    <3>2. f % nworkers \in 0 .. nworkers - 1
      BY Zenon, <3>1, DivMod
    <3> QED
      BY Zenon, <3>2 DEF Workers
  <2>2. \A w \in Workers : part[w] = IF w = h THEN vals ELSE <<>>
    BY Zenon, <1>4 DEF Part
  <2>3. DOMAIN vals = 1 .. 1
    BY <1>2, <1>4
  <2> HIDE DEF part, h, vals
  <2>4. ASSUME NEW w \in Workers
        PROVE  part[w] \in Seq(Upd) /\ \A i \in DOMAIN part[w] : w = h /\ part[w] = vals /\ i = 1
    <3>1. CASE w = h
      BY <1>2, <2>2, <2>3, <3>1
    <3>2. CASE w # h
      <4>1. part[w] = <<>>
        BY Zenon, <2>2, <3>2
      <4> QED
        BY <4>1
    <3> QED
      BY Zenon, <3>1, <3>2
  <2>5. Division(Upd, vals, part)
    BY ZenonT(30), <2>1, <2>2, <2>3, <2>4 DEF Division, Range
  <2> QED
    BY Zenon, <1>4, <2>5 DEF part, vals
<1>5. CASE ~scenario.upsert /\ Head(todo[p]).op # "push"
  <2>1. \A w \in Workers : Part(p, w) = RoundRobin(vals, f, w)
    BY Zenon, <1>5 DEF Part
  <2> HIDE DEF vals, f
  <2>2. [w \in Workers |-> Part(p, w)] = [w \in Workers |-> RoundRobin(vals, f, w)]
    BY Zenon, <2>1
  <2> QED
    BY Zenon, <1>1, <1>2, <1>5, <2>2, RoundRobinDivides DEF vals
<1> QED
  BY Zenon, <1>3, <1>4, <1>5

-----------------------------------------------------------------------------
(* Facts about numbers and sequences that the steps of the handles need.   *)
LEMMA Numbers ==
    /\ \A a, b \in Nat : a < b \/ a = b \/ b < a
    /\ \A a, b \in Nat : a <= b => a < b \/ a = b
    /\ \A a, b \in Nat : a < b => ~(b < a)
    /\ \A a, b, n \in Nat : a <= n /\ b > n => a < b
    /\ \A a, b, n \in Nat : a < b \/ a = b \/ b - n < a - n
    /\ \A a, b, n \in Nat : a - n = b - n => a = b
  OBVIOUS

LEMMA Intervals ==
    ASSUME NEW n \in Nat, NEW a \in Nat, NEW x \in Nat, x <= n - 1, NEW w \in a .. x
    PROVE  /\ w \in 0 .. n - 1 /\ w \in a .. n - 1
           /\ \A v \in x + 1 .. n - 1 : v \in 0 .. n - 1 /\ v # w /\ v \in a .. n - 1
           /\ \A v \in a .. n - 1 : v \in x + 1 .. n - 1 \/ v \in a .. x
           /\ x = n - 1 => x + 1 .. n - 1 = {}
           /\ x < n - 1 \/ x = n - 1
  OBVIOUS

LEMMA EmptySeq ==
    /\ \A S : <<>> \in Seq(S)
    /\ DOMAIN <<>> = {} /\ Range(<<>>) = {} /\ Len(<<>>) = 0
  BY DEF Range

Appended(s, e, t) ==
    /\ Len(t) = Len(s) + 1 /\ Len(s) + 1 \in Nat /\ Len(s) + 1 \in 1 .. Len(s) + 1
    /\ DOMAIN t = 1 .. Len(s) + 1
    /\ \A c \in 1 .. Len(s) + 1 : c \in Nat /\ c <= Len(s) + 1 /\ (c # Len(s) + 1 => c \in DOMAIN s)
    /\ \A c \in DOMAIN s : t[c] = s[c] /\ c \in 1 .. Len(s) + 1
    /\ t[Len(s) + 1] = e

LEMMA AppendFacts ==
    ASSUME NEW S, NEW s \in Seq(S), NEW e \in S
    PROVE  Append(s, e) \in Seq(S) /\ Appended(s, e, Append(s, e))
  BY DEF Appended

LEMMA ConcatFacts ==
    ASSUME NEW S, NEW s \in Seq(S), NEW t \in Seq(S)
    PROVE  /\ s \o t \in Seq(S) /\ Len(s) \in Nat
           /\ \A i : i \in DOMAIN (s \o t) <=>
                \/ i \in DOMAIN s
                \/ i - Len(s) \in DOMAIN t /\ i \in Nat /\ i > Len(s)
           /\ \A i \in DOMAIN s : (s \o t)[i] = s[i] /\ i \in Nat /\ i <= Len(s) /\ ~(i > Len(s))
           /\ \A i \in DOMAIN (s \o t) : i \notin DOMAIN s => (s \o t)[i] = t[i - Len(s)]
           /\ \A k \in DOMAIN t : (Len(s) + k) - Len(s) = k /\ Len(s) + k \in Nat /\ Len(s) + k > Len(s)
<1>1. /\ s \o t \in Seq(S) /\ Len(s) \in Nat /\ Len(t) \in Nat
      /\ DOMAIN s = 1 .. Len(s) /\ DOMAIN t = 1 .. Len(t) /\ DOMAIN (s \o t) = 1 .. Len(s) + Len(t)
      /\ \A i \in 1 .. Len(s) + Len(t) : (s \o t)[i] = IF i <= Len(s) THEN s[i] ELSE t[i - Len(s)]
  OBVIOUS
<1>2. ASSUME NEW i PROVE i \in 1 .. Len(s) + Len(t) <=>
                           i \in 1 .. Len(s) \/ (i - Len(s) \in 1 .. Len(t) /\ i \in Nat /\ i > Len(s))
  BY <1>1
<1>3. ASSUME NEW i \in 1 .. Len(s) PROVE (s \o t)[i] = s[i] /\ i \in Nat /\ i <= Len(s) /\ ~(i > Len(s))
  BY <1>1
<1>4. ASSUME NEW i \in 1 .. Len(s) + Len(t), i \notin 1 .. Len(s) PROVE (s \o t)[i] = t[i - Len(s)]
  BY <1>1, <1>4
<1>5. ASSUME NEW k \in 1 .. Len(t)
      PROVE  (Len(s) + k) - Len(s) = k /\ Len(s) + k \in Nat /\ Len(s) + k > Len(s)
  BY <1>1
<1> QED
  BY Zenon, <1>1, <1>2, <1>3, <1>4, <1>5

LEMMA ConcatRange ==
    ASSUME NEW S, NEW s \in Seq(S), NEW t \in Seq(S)
    PROVE  Range(s \o t) \subseteq Range(s) \cup Range(t)
<1> SUFFICES ASSUME NEW i \in DOMAIN (s \o t)
             PROVE  (s \o t)[i] \in Range(s) \cup Range(t)
  BY Zenon DEF Range
<1>1. CASE i \in DOMAIN s
  <2>1. (s \o t)[i] = s[i]
    BY <1>1
  <2> QED
    BY Zenon, <1>1, <2>1 DEF Range
<1>2. CASE i \notin DOMAIN s
  <2>1. i - Len(s) \in DOMAIN t /\ (s \o t)[i] = t[i - Len(s)]
    BY <1>2
  <2> QED
    BY Zenon, <2>1 DEF Range
<1> QED
  BY Zenon, <1>1, <1>2

LEMMA OnlyElement ==
    ASSUME NEW s, NEW z, s = <<z>> PROVE s[1] = z
  BY Zenon

LEMMA LastIndex ==
    ASSUME NEW S, NEW s \in Seq(S), NEW n \in Nat, Len(s) = n, n > 0 PROVE n \in DOMAIN s
  OBVIOUS

(* An element of a typed sequence has the type. *)
LEMMA ElementType ==
    ASSUME NEW S, NEW s \in Seq(S), NEW i \in DOMAIN s PROVE s[i] \in S
  OBVIOUS

-----------------------------------------------------------------------------
(* Steps of the handle and the workers, as the circuit's operators see     *)
(* them.                                                                   *)
LEMMA ClientKind ==
    ASSUME HandleInv, Client
    PROVE  /\ UNCHANGED <<scenario, cycles, steps>>
           /\ Calm' => Calm
           /\ \A w \in Workers : \/ pc'[w] = pc[w]
                                 \/ pc[w] = "init_ok" /\ pc'[w] = "loop"
                                 \/ pc[w] = "init_err" /\ pc'[w] = "exited"
<1> USE DEF HandleInv, TypeInv, Phases, Calm, Calling, call, channels, threads
<1>1. CASE InitRecv
  BY Zenon, <1>1 DEF InitRecv
<1>2. CASE InitDone \/ SendCommand \/ unpark_worker \/ AllSent
  BY Zenon, <1>2 DEF InitDone, SendCommand, unpark_worker, AllSent
<1>3. CASE RecvStatus \/ AllReceived
  BY Zenon, <1>3 DEF RecvStatus, AllReceived
<1>4. CASE ClearSenders \/ ClearReceivers \/ KillStore \/ KillUnpark \/ join
  BY <1>4 DEF ClearSenders, ClearReceivers, KillStore, KillUnpark, join
<1> QED
  BY Zenon, <1>1, <1>2, <1>3, <1>4 DEF Client

LEMMA WorkerKind ==
    ASSUME HandleInv, NEW x \in Workers, Worker(x)
    PROVE  /\ UNCHANGED <<scenario, hpc, runtime, cycles>>
           /\ \A w \in Workers : w # x => pc'[w] = pc[w] /\ steps'[w] = steps[w]
           /\ ~Dead(x)
           /\ \/ /\ steps'[x] = steps[x] /\ (Stepping(x) => Stepping(x)' \/ Dead(x)')
                 /\ pc'[x] # "respond_err"
              \/ steps'[x] = steps[x] + 1 /\ Stepping(x) /\ pc'[x] = "respond_ok"
              \/ pc[x] = "respond_err"
              \/ kill_signal[x]
<1> USE DEF HandleInv, TypeInv, call, channels, threads, Stepping, Dead
<1>1. CASE Build(x) \/ CheckKill(x) \/ park(x)
  BY Zenon, <1>1 DEF Build, CheckKill, park
<1>2. CASE TryRecv(x)
  <2>1. NextCommand(x) \in {"step", "respond_ok", "park", "exited"}
    BY Zenon DEF NextCommand
  <2> QED
    BY Zenon, <1>2, <2>1 DEF TryRecv
<1>3. CASE EnterExchange(x) \/ LeaveExchange(x)
  BY Zenon, <1>3 DEF EnterExchange, LeaveExchange
<1>4. CASE StepDone(x)
  BY Zenon, <1>4 DEF StepDone, AtOperator
<1>5. CASE Killed(x) \/ Panic(x) \/ Respond(x)
  BY Zenon, <1>5 DEF Killed, Panic, Respond
<1> QED
  BY Zenon, <1>1, <1>2, <1>3, <1>4, <1>5 DEF Worker

(* Unless something has failed, a worker starts a cycle, goes on with it   *)
(* or completes it.                                                        *)
Advances(w) ==
    /\ Dead(w) => Dead(w)'
    /\ Calm' /\ ~Dead(w)' /\ pc[w] # "respond_err" =>
        /\ pc'[w] # "respond_err"
        /\ \/ steps'[w] = steps[w] /\ (Stepping(w) => Stepping(w)')
           \/ steps'[w] = steps[w] + 1 /\ Stepping(w) /\ ~Stepping(w)'

LEMMA StepKind ==
    ASSUME HandleInv, [Next]_vars
    PROVE  /\ scenario' = scenario
           /\ cycles' # cycles => hpc = "idle" /\ runtime /\ cycles' = cycles + 1
           /\ Calm' => Calm
           /\ \A w \in Workers : Advances(w)
<1>1. CASE Client
  BY Zenon, <1>1, ClientKind DEF Advances, Stepping, Dead
<1>2. CASE (\E c \in Commands : Call(c)) \/ Kill \/ UNCHANGED vars
  <2>1. UNCHANGED <<scenario, pc, steps>>
    BY Zenon, <1>2 DEF Call, Kill, vars, threads
  <2>2. cycles' # cycles => hpc = "idle" /\ runtime /\ cycles' = cycles + 1
    BY Zenon, <1>2 DEF Call, Kill, vars, call
  <2>3. Calm' => Calm
    BY Zenon, <1>2 DEF Call, Kill, vars, call, Calm, Calling
  <2> QED
    BY Zenon, <2>1, <2>2, <2>3 DEF Advances, Stepping, Dead
<1>3. ASSUME NEW x \in Workers, Worker(x)
      PROVE  /\ UNCHANGED <<scenario, hpc, runtime, cycles>>
             /\ \A w \in Workers : Advances(w)
  <2>1. /\ UNCHANGED <<scenario, hpc, runtime, cycles>>
        /\ \A w \in Workers : w # x => pc'[w] = pc[w] /\ steps'[w] = steps[w]
        /\ ~Dead(x)
        /\ \/ /\ steps'[x] = steps[x] /\ (Stepping(x) => Stepping(x)' \/ Dead(x)')
              /\ pc'[x] # "respond_err"
           \/ steps'[x] = steps[x] + 1 /\ Stepping(x) /\ pc'[x] = "respond_ok"
           \/ pc[x] = "respond_err"
           \/ kill_signal[x]
    BY Zenon, <1>3, WorkerKind
  <2>2. Calm' => Calm /\ ~kill_signal[x]
    BY Zenon, <2>1 DEF HandleInv, Phases, Calm, Calling
  <2>3. ASSUME NEW w \in Workers, w # x PROVE Advances(w)
    BY Zenon, <2>1, <2>3 DEF Advances, Stepping, Dead
  <2>4. Advances(x)
    <3> SUFFICES ASSUME Calm', ~Dead(x)', pc[x] # "respond_err"
                 PROVE  /\ pc'[x] # "respond_err"
                        /\ \/ steps'[x] = steps[x] /\ (Stepping(x) => Stepping(x)')
                           \/ steps'[x] = steps[x] + 1 /\ Stepping(x) /\ ~Stepping(x)'
      BY Zenon, <2>1 DEF Advances
    <3>1. CASE /\ steps'[x] = steps[x] /\ (Stepping(x) => Stepping(x)' \/ Dead(x)')
               /\ pc'[x] # "respond_err"
      BY <3>1, Zenon
    <3>2. CASE steps'[x] = steps[x] + 1 /\ Stepping(x) /\ pc'[x] = "respond_ok"
      BY Zenon, <3>2 DEF Stepping, Dead
    <3> QED
      BY Zenon, <2>1, <2>2, <3>1, <3>2
  <2> QED
    BY Zenon, <2>1, <2>3, <2>4
<1> QED
  <2>1. CASE \E w \in Workers : Worker(w)
    BY Zenon, <1>3, <2>1 DEF Calm, Calling
  <2> QED
    BY Zenon, <1>1, <1>2, <2>1 DEF Next

LEMMA IoNextNext ==
    ASSUME IoNext \/ UNCHANGED ioVars PROVE [Next]_vars
<1>1. CASE Client /\ Circuit
  BY Zenon, <1>1 DEF Next
<1>2. CASE Call("step") /\ Circuit
  BY Zenon, <1>2 DEF Next, Commands
<1>3. CASE ~scenario.stepsOnly /\ (Call("profile") \/ Kill) /\ Circuit
  BY Zenon, <1>3 DEF Next, Commands
<1>4. ASSUME NEW w \in Workers, IoWorker(w) \/ take_from_worker(w) PROVE [Next]_vars
  BY Zenon, <1>4 DEF IoWorker, Next, input_eval, output_eval, take_from_worker
<1>5. ASSUME NEW p \in Producers, push(p) \/ append(p) \/ clear_input(p) PROVE [Next]_vars
  BY Zenon, <1>5 DEF push, append, clear_input
<1>6. CASE UNCHANGED ioVars
  BY Zenon, <1>6 DEF ioVars
<1> QED
  BY Zenon, <1>1, <1>2, <1>3, <1>4, <1>5, <1>6 DEF IoNext

(* A circuit with input and output handles is driven as DBSPHandle says:   *)
(* what has been proved of it holds.                                       *)
THEOREM HandlesImplementDBSPHandle == IoSpec => Spec
<1>1. IoInit => Init
  BY Zenon DEF IoInit
<1>2. [IoNext]_ioVars => [Next]_vars
  BY Zenon, IoNextNext
<1> QED
  BY <1>1, <1>2, PTL DEF IoSpec, Spec

-----------------------------------------------------------------------------
(* The updates that a producer has still to deliver, with those of its     *)
(* current call.                                                           *)
Rest(p) == (UNION {Range(Part(p, w)) : w \in at[p] .. nworkers - 1}) \cup Values(Tail(todo[p]))

LEMMA RestIs ==
    ASSUME NEW p, NEW u
    PROVE  u \in Rest(p) <=> \/ \E w \in at[p] .. nworkers - 1 : u \in Range(Part(p, w))
                             \/ u \in Values(Tail(todo[p]))
  BY Zenon DEF Rest

LEMMA UndeliveredIs ==
    \A u : u \in Undelivered <=> \E p \in Producers : todo[p] # <<>> /\ u \in Rest(p)
  BY Zenon DEF Undelivered, Rest

LEMMA RestInTodo ==
    ASSUME Ranked, IoTypeInv, NEW p \in Producers, ProgramInv(p), todo[p] # <<>>
    PROVE  Rest(p) \subseteq Values(todo[p])
<1> DEFINE vals == Head(todo[p]).vals
           part == [w \in Workers |-> Part(p, w)]
<1>1. todo[p] \in Seq(ApiCalls) /\ Program(todo[p], p) /\ at[p] \in Workers
  BY Zenon DEF IoTypeInv, ProgramInv
<1>2. Values(todo[p]) = Range(vals) \cup Values(Tail(todo[p]))
  BY ZenonT(30), <1>1, CallFacts
<1>3. Division(Upd, vals, part)
  BY Zenon, <1>1, PartDivides
<1>4. ASSUME NEW w \in at[p] .. nworkers - 1 PROVE Range(Part(p, w)) \subseteq Range(vals)
  <2>1. w \in Workers
    BY <1>1, NWorkersAssumption DEF Workers
  <2>2. \A i \in DOMAIN part[w] : part[w][i] \in Range(vals)
    BY Zenon, <1>3, <2>1 DEF Division
  <2>3. part[w] = Part(p, w)
    BY Zenon, <2>1
  <2> QED
    BY Zenon, <2>2, <2>3 DEF Range
<1>5. Values(Tail(todo[p])) \subseteq Values(todo[p]) /\ Range(vals) \subseteq Values(todo[p])
  BY Zenon, <1>2
<1> HIDE DEF vals, part
<1>6. ASSUME NEW u \in Rest(p) PROVE u \in Values(todo[p])
  <2>1. CASE u \in Values(Tail(todo[p]))
    BY Zenon, <1>5, <2>1
  <2>2. CASE \E w \in at[p] .. nworkers - 1 : u \in Range(Part(p, w))
    BY Zenon, <1>4, <1>5, <2>2
  <2> QED
    BY Zenon, <1>6, <2>1, <2>2, RestIs
<1> QED
  BY Zenon, <1>6

LEMMA UndeliveredInTodo ==
    ASSUME Ranked, IoTypeInv, Programs
    PROVE  /\ Undelivered \subseteq UNION {Values(todo[p]) : p \in Producers}
           /\ Undelivered \subseteq Updates
<1>1. ASSUME NEW u \in Undelivered PROVE \E p \in Producers : u \in Values(todo[p])
  <2>1. PICK p \in Producers : todo[p] # <<>> /\ u \in Rest(p)
    BY Zenon, UndeliveredIs
  <2> QED
    BY Zenon, <2>1, RestInTodo DEF Programs
<1> QED
  BY Zenon, <1>1 DEF Programs, ProgramInv

LEMMA SameProgram ==
    ASSUME UNCHANGED <<scenario, todo, at, next_worker>>
    PROVE  /\ Producers' = Producers /\ Updates' = Updates /\ Undelivered' = Undelivered
           /\ Programs => Programs'
  BY DEF Producers, Updates, Undelivered, Part, ProgramInv, Programs

LEMMA OnePlace ==
    ASSUME PlacesInv, NEW u, NEW v, NEW w, NEW c, NEW d, NEW i, NEW j,
           Holds(v, c, i, u), Holds(w, d, j, u)
    PROVE  v = w /\ c = d /\ i = j
<1>1. \A a, b, k, l, m, n, z :
        Holds(a, k, m, z) /\ Holds(b, l, n, z) => a = b /\ k = l /\ m = n
  BY Zenon DEF PlacesInv
<1>2. Holds(v, c, i, u) /\ Holds(w, d, j, u) => v = w /\ c = d /\ i = j
  BY Zenon, <1>1
<1> QED
  BY Zenon, <1>2

(* The handles and the operators leave every update where it is. *)
SamePlaces == \A w, c, i, u : Holds(w, c, i, u)' <=> Holds(w, c, i, u)

LEMMA PlacesKept ==
    ASSUME PlacesInv, UNCHANGED <<scenario, cleared>>, SamePlaces,
           Updates' = Updates, Undelivered' = Undelivered, Undelivered \cap before' = {}
    PROVE  PlacesInv'
<1>1. \A w, c, i, u : Holds(w, c, i, u)' =>
        /\ u \in Updates' /\ u \notin (Undelivered \cup cleared)'
        /\ scenario'.upsert => hash[u.key] % nworkers = w
  BY Zenon DEF PlacesInv, SamePlaces
<1>2. ASSUME NEW v, NEW w, NEW c, NEW d, NEW i, NEW j, NEW u, Holds(v, c, i, u)', Holds(w, d, j, u)'
      PROVE  v = w /\ c = d /\ i = j
  <2>1. Holds(v, c, i, u) /\ Holds(w, d, j, u)
    BY Zenon, <1>2 DEF SamePlaces
  <2> QED
    BY Zenon, <2>1, OnePlace
<1>3. ASSUME NEW u \in Updates', u \notin (Undelivered \cup cleared)'
      PROVE  \E w, c, i : Holds(w, c, i, u)'
  <2>1. \E w, c, i : Holds(w, c, i, u)
    BY Zenon, <1>3 DEF PlacesInv
  <2> QED
    BY Zenon, <2>1 DEF SamePlaces
<1>4. ASSUME scenario'.upsert, NEW w, NEW c, NEW d, NEW i, NEW j, NEW x, NEW y,
             Holds(w, c, i, x)', Holds(w, d, j, y)', SameKey(x, y), x.id < y.id
      PROVE  c < d \/ (c = d /\ i < j)
  BY Zenon, <1>4 DEF PlacesInv, SamePlaces
<1>5. ASSUME scenario'.upsert, NEW w, NEW c, NEW i, NEW x, NEW y \in Undelivered',
             Holds(w, c, i, x)', SameKey(x, y)
      PROVE  x.id < y.id
  BY Zenon, <1>5 DEF PlacesInv, SamePlaces
<1>6. Undelivered' \cap (cleared \cup before)' = {}
  BY Zenon DEF PlacesInv
<1>7. \A x, y : SameKey(x, y)' <=> SameKey(x, y)
  BY Zenon DEF SameKey
<1>8. \A v, w, c, d, i, j, u :
        Holds(v, c, i, u)' /\ Holds(w, d, j, u)' => v = w /\ c = d /\ i = j
  BY ZenonT(30), <1>2
<1> QED
  BY ZenonT(30), <1>1, <1>8, <1>3, <1>4, <1>5, <1>6, <1>7 DEF PlacesInv

LEMMA CircuitStep ==
    ASSUME Ranked, IoInv, HandleInv', [Next]_vars, Circuit PROVE IoInv'
<1>1. /\ scenario' = scenario
      /\ cycles' # cycles => hpc = "idle" /\ runtime /\ cycles' = cycles + 1
      /\ Calm' => Calm
      /\ \A w \in Workers : Advances(w)
  BY Zenon, StepKind DEF IoInv
<1>2. UNCHANGED <<todo, at, next_worker, cleared, inbox, outbox, log, read>>
  BY Zenon DEF Circuit, producers
<1>3. /\ Producers' = Producers /\ Updates' = Updates /\ Undelivered' = Undelivered
      /\ Programs'
  BY Zenon, <1>1, <1>2, SameProgram DEF IoInv
<1>4. \A w \in Workers : round'[w] = IF Stepping(w)' THEN round[w] ELSE "start"
  BY Zenon DEF Circuit
<1>5. IoTypeInv'
  <2>1. round' \in [Workers -> {"start", "read", "written"}]
    BY Zenon DEF Circuit, IoInv, IoTypeInv
  <2> QED
    BY Zenon, <1>1, <1>2, <1>3, <2>1 DEF IoInv, IoTypeInv
<1>6. PlacesInv'
  <2>1. SamePlaces
    BY Zenon, <1>2 DEF Holds, Stream, SamePlaces
  <2>2. Undelivered \cap before' = {}
    BY Zenon, UndeliveredInTodo DEF Circuit, IoInv, PlacesInv
  <2> QED
    BY Zenon, <1>1, <1>2, <1>3, <2>1, <2>2, PlacesKept DEF IoInv
<1>7. ASSUME NEW w \in Workers PROVE CycleInv(w)'
  <2>0. CycleInv(w) /\ Advances(w) /\ (steps'[w] # steps[w] => round[w] = "written")
    BY Zenon, <1>1 DEF IoInv, Circuit
  <2>1. ~Stepping(w)' => round'[w] = "start"
    BY Zenon, <1>4
  <2>2. ASSUME Calm', ~Dead(w)'
        PROVE  /\ pc'[w] # "respond_err"
               /\ Len(log'[w]) = IF Stepping(w)' /\ round'[w] # "start" THEN steps'[w] + 1 ELSE steps'[w]
               /\ Written(w)' = Written(w)
    <3>1. Calm /\ ~Dead(w)
      BY Zenon, <1>1, <2>0, <2>2 DEF Advances
    <3>2. /\ pc[w] # "respond_err"
          /\ Len(log[w]) = IF Stepping(w) /\ round[w] # "start" THEN steps[w] + 1 ELSE steps[w]
          /\ ~Stepping(w) => round[w] = "start"
      BY Zenon, <2>0, <3>1 DEF CycleInv
    <3>3. /\ pc'[w] # "respond_err"
          /\ \/ steps'[w] = steps[w] /\ (Stepping(w) => Stepping(w)')
             \/ steps'[w] = steps[w] + 1 /\ Stepping(w) /\ ~Stepping(w)'
      BY Zenon, <2>0, <2>2, <3>2 DEF Advances
    <3>4. steps[w] \in Nat /\ steps'[w] \in Nat
      BY Zenon DEF IoInv, HandleInv, TypeInv
    <3>5. CASE steps'[w] = steps[w] /\ Stepping(w)
      BY Zenon, <1>2, <1>4, <3>2, <3>3, <3>4, <3>5 DEF Written
    <3>6. CASE steps'[w] = steps[w] /\ ~Stepping(w)
      BY Zenon, <1>2, <1>4, <3>2, <3>3, <3>4, <3>6 DEF Written
    <3>7. CASE steps'[w] = steps[w] + 1 /\ Stepping(w) /\ ~Stepping(w)'
      BY Zenon, <1>2, <1>4, <2>0, <3>2, <3>3, <3>4, <3>7 DEF Written
    <3> QED
      BY Zenon, <3>3, <3>5, <3>6, <3>7
  <2>3. ASSUME Calm', ~Dead(w)', Written(w)' > 0
        PROVE  IF outbox'[w] = <<>> THEN read'[w] = Written(w)'
               ELSE outbox'[w] = <<[cycle |-> Written(w)', vals |-> Applied(log[w][Written(w)])']>>
    <3>1. Calm /\ ~Dead(w) /\ Written(w) > 0 /\ Written(w)' = Written(w)
      BY Zenon, <1>1, <2>0, <2>2, <2>3 DEF Advances
    <3>2. IF outbox[w] = <<>> THEN read[w] = Written(w)
          ELSE outbox[w] = <<[cycle |-> Written(w), vals |-> Applied(log[w][Written(w)])]>>
      BY Zenon, <2>0, <3>1 DEF CycleInv
    <3>3. Applied(log[w][Written(w)])' = Applied(log[w][Written(w)])
      BY Zenon, <1>1, <1>2, <3>1 DEF Applied
    <3> QED
      BY Zenon, <1>2, <3>1, <3>2, <3>3
  <2>4. ASSUME NEW u \in Range(inbox'[w]) \cap before' PROVE Len(log'[w]) < cycles'
    <3>1. CASE cycles' = cycles
      BY Zenon, <1>2, <2>0, <3>1 DEF Circuit, CycleInv
    <3>2. CASE cycles' # cycles
      <4>1. Calm /\ Idle(w) /\ cycles' = cycles + 1 /\ cycles \in Nat
        BY Zenon, <1>1, <3>2 DEF IoInv, HandleInv, TypeInv, Phases, Calm
      <4>2. Len(log[w]) = steps[w] /\ steps[w] = cycles
        BY Zenon, <2>0, <4>1 DEF CycleInv, Idle, Waiting, Stepping, Dead
      <4>3. cycles < cycles + 1
        BY <4>1
      <4> QED
        BY Zenon, <1>2, <4>1, <4>2, <4>3
    <3> QED
      BY Zenon, <3>1, <3>2
  <2> QED
    BY Zenon, <2>1, <2>2, <2>3, <2>4 DEF CycleInv
<1> QED
  BY Zenon, <1>3, <1>5, <1>6, <1>7 DEF IoInv

(* An input operator moves its mailbox to the log: the places of the       *)
(* updates stay the same.                                                  *)
LEMMA InputEvalStep ==
    ASSUME IoInv, HandleInv', NEW w \in Workers, input_eval(w) PROVE IoInv'
<1>0. UNCHANGED vars /\ HandleInv /\ IoTypeInv
  BY Zenon DEF input_eval, IoInv
<1>1. UNCHANGED <<scenario, hpc, runtime, cycles, pc, steps>>
  BY Zenon, <1>0 DEF vars, call, threads
<1>2. UNCHANGED <<todo, at, next_worker, cleared, outbox, before, read>>
  BY Zenon DEF input_eval, producers
<1>3. /\ Producers' = Producers /\ Updates' = Updates /\ Undelivered' = Undelivered
      /\ Programs'
  BY Zenon, <1>1, <1>2, SameProgram DEF IoInv
<1>4. /\ log'[w] = Append(log[w], inbox[w]) /\ inbox'[w] = <<>> /\ round'[w] = "read"
      /\ \A v \in Workers : v # w => log'[v] = log[v] /\ inbox'[v] = inbox[v] /\ round'[v] = round[v]
      /\ Stepping(w) /\ round[w] = "start"
  BY Zenon, <1>0 DEF input_eval, IoTypeInv
<1>5. \A v \in Workers : log[v] \in Seq(Seq(Upd)) /\ inbox[v] \in Seq(Upd)
  BY Zenon, <1>0 DEF IoTypeInv
<1>6. IoTypeInv'
  <2>1. <<>> \in Seq(Upd) /\ Append(log[w], inbox[w]) \in Seq(Seq(Upd))
    BY Zenon, <1>5, AppendFacts, EmptySeq
  <2>2. /\ inbox' = [inbox EXCEPT ![w] = <<>>]
        /\ log' = [log EXCEPT ![w] = Append(log[w], inbox[w])]
        /\ round' = [round EXCEPT ![w] = "read"]
    BY Zenon DEF input_eval
  <2>3. /\ inbox' \in [Workers -> Seq(Upd)] /\ log' \in [Workers -> Seq(Seq(Upd))]
        /\ round' \in [Workers -> {"start", "read", "written"}]
    BY Zenon, <1>0, <2>1, <2>2 DEF IoTypeInv
  <2> QED
    BY Zenon, <1>0, <1>1, <1>2, <1>3, <2>3 DEF IoTypeInv
<1>7. PlacesInv'
  <2>1. ASSUME NEW v, NEW c, NEW i, NEW u PROVE Holds(v, c, i, u)' <=> Holds(v, c, i, u)
    <3>1. CASE v \in Workers /\ v # w
      BY Zenon, <1>4, <3>1 DEF Holds, Stream
    <3>2. CASE v = w
      <4> DEFINE s == Append(log[w], inbox[w])
      <4>1. s \in Seq(Seq(Upd)) /\ Stream(w) = s /\ Stream(w)' = Append(s, <<>>)
        BY Zenon, <1>4, <1>5, AppendFacts DEF Stream
      <4> HIDE DEF s
      <4>2. <<>> \in Seq(Upd)
        BY Zenon, EmptySeq
      <4>3. Appended(s, <<>>, Stream(w)')
        BY Zenon, <4>1, <4>2, AppendFacts
      <4>4. /\ \A k \in DOMAIN Stream(w)' : k \in DOMAIN s \/ Stream(w)'[k] = <<>>
            /\ \A k \in DOMAIN s : Stream(w)'[k] = s[k] /\ k \in DOMAIN Stream(w)'
        BY Zenon, <4>3 DEF Appended
      <4> QED
        BY Zenon, <3>2, <4>1, <4>4, EmptySeq DEF Holds
    <3>3. CASE v \notin Workers
      BY Zenon, <3>3 DEF Holds
    <3> QED
      BY Zenon, <3>1, <3>2, <3>3
  <2>2. PlacesInv /\ Undelivered \cap before' = {}
    BY Zenon, <1>2 DEF IoInv, PlacesInv
  <2> QED
    BY Zenon, <1>1, <1>2, <1>3, <2>1, <2>2, PlacesKept DEF SamePlaces
<1>8. ASSUME NEW v \in Workers PROVE CycleInv(v)'
  <2>0. CycleInv(v) /\ Calm' = Calm /\ Stepping(v)' = Stepping(v) /\ Dead(v)' = Dead(v)
    BY Zenon, <1>1 DEF IoInv, Calm, Calling, Stepping, Dead
  <2>1. CASE v # w
    <3>1. Written(v)' = Written(v)
      BY Zenon, <1>1, <1>4, <2>0, <2>1 DEF Written
    <3>2. Applied(log[v][Written(v)])' = Applied(log[v][Written(v)])
      <4>1. log'[v][Written(v)'] = log[v][Written(v)]
        BY Zenon, <1>4, <2>1, <3>1
      <4> QED
        BY Zenon, <1>1, <4>1 DEF Applied
    <3> QED
      BY Zenon, <1>1, <1>2, <1>4, <2>0, <2>1, <3>1, <3>2 DEF CycleInv
  <2>2. CASE v = w
    <3>0. steps[w] \in Nat
      BY Zenon, <1>0 DEF HandleInv, TypeInv
    <3>1. Written(w)' = steps[w] /\ Written(w) = steps[w] /\ Stepping(w)'
      BY Zenon, <1>1, <1>4, <2>0, <2>2 DEF Written
    <3>2. Len(log'[w]) = Len(log[w]) + 1 /\ \A k \in DOMAIN log[w] : log'[w][k] = log[w][k]
      <4>1. Appended(log[w], inbox[w], log'[w])
        BY Zenon, <1>4, <1>5, AppendFacts
      <4> QED
        BY Zenon, <4>1 DEF Appended
    <3>3. Range(inbox'[w]) = {}
      BY Zenon, <1>4, EmptySeq
    <3>4. ASSUME Calm, ~Dead(w)
          PROVE  /\ pc'[w] # "respond_err" /\ Len(log'[w]) = steps[w] + 1
                 /\ steps[w] > 0 =>
                      IF outbox'[w] = <<>> THEN read'[w] = steps[w]
                      ELSE outbox'[w] = <<[cycle |-> steps[w], vals |-> Applied(log[w][Written(w)])']>>
      <4>1. /\ pc[w] # "respond_err" /\ Len(log[w]) = steps[w]
            /\ steps[w] > 0 =>
                 IF outbox[w] = <<>> THEN read[w] = steps[w]
                 ELSE outbox[w] = <<[cycle |-> steps[w], vals |-> Applied(log[w][steps[w]])]>>
        BY Zenon, <1>4, <2>0, <2>2, <3>1, <3>4 DEF CycleInv
      <4>2. steps[w] > 0 => log'[w][steps[w]] = log[w][steps[w]]
        <5>1. steps[w] > 0 => steps[w] \in DOMAIN log[w]
          BY Zenon, <1>5, <3>0, <4>1, LastIndex
        <5> QED
          BY Zenon, <3>2, <5>1
      <4>3. steps[w] > 0 => Applied(log[w][Written(w)])' = Applied(log[w][steps[w]])
        BY Zenon, <1>1, <3>1, <4>2 DEF Applied
      <4> QED
        BY Zenon, <1>1, <1>2, <3>2, <4>1, <4>3
    <3> QED
      BY Zenon, <1>1, <1>4, <2>0, <2>2, <3>1, <3>3, <3>4 DEF CycleInv
  <2> QED
    BY Zenon, <2>1, <2>2
<1> QED
  BY Zenon, <1>3, <1>6, <1>7, <1>8 DEF IoInv

LEMMA OutputEvalStep ==
    ASSUME IoInv, HandleInv', NEW w \in Workers, output_eval(w) PROVE IoInv'
<1>0. UNCHANGED vars /\ HandleInv /\ IoTypeInv
  BY Zenon DEF output_eval, IoInv
<1>1. UNCHANGED <<scenario, hpc, runtime, cycles, pc, steps>>
  BY Zenon, <1>0 DEF vars, call, threads
<1>2. UNCHANGED <<todo, at, next_worker, cleared, inbox, log, before, read>>
  BY Zenon DEF output_eval, producers
<1>3. /\ Producers' = Producers /\ Updates' = Updates /\ Undelivered' = Undelivered
      /\ Programs'
  BY Zenon, <1>1, <1>2, SameProgram DEF IoInv
<1>4. /\ outbox'[w] = <<Value(w)>> /\ round'[w] = "written"
      /\ \A v \in Workers : v # w => outbox'[v] = outbox[v] /\ round'[v] = round[v]
      /\ Stepping(w) /\ round[w] = "read"
  BY Zenon, <1>0 DEF output_eval, IoTypeInv
<1>5. IoTypeInv'
  BY Zenon, <1>0, <1>1, <1>2, <1>3 DEF IoTypeInv, output_eval
<1>6. PlacesInv'
  <2>1. SamePlaces
    BY Zenon, <1>2 DEF Holds, Stream, SamePlaces
  <2>2. PlacesInv /\ Undelivered \cap before' = {}
    BY Zenon, <1>2 DEF IoInv, PlacesInv
  <2> QED
    BY Zenon, <1>1, <1>2, <1>3, <2>1, <2>2, PlacesKept
<1>7. ASSUME NEW v \in Workers PROVE CycleInv(v)'
  <2>0. CycleInv(v) /\ Calm' = Calm /\ Stepping(v)' = Stepping(v) /\ Dead(v)' = Dead(v)
    BY Zenon, <1>1 DEF IoInv, Calm, Calling, Stepping, Dead
  <2>1. CASE v # w
    <3>1. Written(v)' = Written(v)
      BY Zenon, <1>1, <1>4, <2>0, <2>1 DEF Written
    <3>2. Applied(log[v][Written(v)])' = Applied(log[v][Written(v)])
      BY Zenon, <1>1, <1>2, <3>1 DEF Applied
    <3> QED
      BY Zenon, <1>1, <1>2, <1>4, <2>0, <2>1, <3>1, <3>2 DEF CycleInv
  <2>2. CASE v = w
    <3>0. steps[w] \in Nat
      BY Zenon, <1>0 DEF HandleInv, TypeInv
    <3>1. Written(w)' = steps[w] + 1 /\ Stepping(w)'
      BY Zenon, <1>1, <1>4, <2>0, <2>2 DEF Written
    <3>2. Calm /\ ~Dead(w) => pc[w] # "respond_err" /\ Len(log[w]) = steps[w] + 1
      BY Zenon, <1>4, <2>0, <2>2 DEF CycleInv
    <3>3. Applied(log[w][Written(w)])' = Applied(log[w][steps[w] + 1])
      BY Zenon, <1>1, <1>2, <3>1 DEF Applied
    <3>4. Calm /\ ~Dead(w) => Value(w) = [cycle |-> steps[w] + 1, vals |-> Applied(log[w][steps[w] + 1])]
      BY Zenon, <3>2 DEF Value
    <3>5. <<Value(w)>> # <<>>
      BY Zenon
    <3> QED
      BY Zenon, <1>1, <1>2, <1>4, <2>0, <2>2, <3>1, <3>2, <3>3, <3>4, <3>5 DEF CycleInv
  <2> QED
    BY Zenon, <2>1, <2>2
<1> QED
  BY Zenon, <1>3, <1>5, <1>6, <1>7 DEF IoInv

LEMMA TakeStep ==
    ASSUME IoInv, HandleInv', NEW w \in Workers, take_from_worker(w) PROVE IoInv'
<1>0. UNCHANGED vars /\ HandleInv /\ IoTypeInv
  BY Zenon DEF take_from_worker, IoInv
<1>1. UNCHANGED <<scenario, hpc, runtime, cycles, pc, steps>>
  BY Zenon, <1>0 DEF vars, call, threads
<1>2. UNCHANGED <<todo, at, next_worker, cleared, inbox, log, before, round>>
  BY Zenon DEF take_from_worker, producers
<1>3. /\ Producers' = Producers /\ Updates' = Updates /\ Undelivered' = Undelivered
      /\ Programs'
  BY Zenon, <1>1, <1>2, SameProgram DEF IoInv
<1>4. /\ outbox[w] # <<>> /\ outbox'[w] = <<>> /\ read'[w] = outbox[w][1].cycle
      /\ \A v \in Workers : v # w => outbox'[v] = outbox[v] /\ read'[v] = read[v]
  BY Zenon, <1>0 DEF take_from_worker, IoTypeInv
<1>5. IoTypeInv'
  BY Zenon, <1>0, <1>1, <1>2, <1>3 DEF IoTypeInv, take_from_worker
<1>6. PlacesInv'
  <2>1. SamePlaces
    BY Zenon, <1>2 DEF Holds, Stream, SamePlaces
  <2>2. PlacesInv /\ Undelivered \cap before' = {}
    BY Zenon, <1>2 DEF IoInv, PlacesInv
  <2> QED
    BY Zenon, <1>1, <1>2, <1>3, <2>1, <2>2, PlacesKept
<1>7. ASSUME NEW v \in Workers PROVE CycleInv(v)'
  <2>0. CycleInv(v) /\ Calm' = Calm /\ Stepping(v)' = Stepping(v) /\ Dead(v)' = Dead(v)
    BY Zenon, <1>1 DEF IoInv, Calm, Calling, Stepping, Dead
  <2>1. Written(v)' = Written(v)
    BY Zenon, <1>1, <1>2, <2>0 DEF Written
  <2>2. Applied(log[v][Written(v)])' = Applied(log[v][Written(v)])
    BY Zenon, <1>1, <1>2, <2>1 DEF Applied
  <2>3. CASE v # w
    BY Zenon, <1>1, <1>2, <1>4, <2>0, <2>1, <2>2, <2>3 DEF CycleInv
  <2>4. CASE v = w
    <3>1. ASSUME Calm, ~Dead(w), Written(w) > 0 PROVE read'[w] = Written(w)
      <4> DEFINE z == [cycle |-> Written(w), vals |-> Applied(log[w][Written(w)])]
      <4>1. outbox[w] = <<z>>
        BY Zenon, <1>4, <2>0, <2>4, <3>1 DEF CycleInv
      <4> HIDE DEF z
      <4>2. outbox[w][1] = z
        BY Zenon, <4>1, OnlyElement
      <4>3. z.cycle = Written(w)
        BY Zenon DEF z
      <4> QED
        BY Zenon, <1>4, <4>2, <4>3
    <3> QED
      BY Zenon, <1>1, <1>2, <1>4, <2>0, <2>1, <2>2, <2>4, <3>1 DEF CycleInv
  <2> QED
    BY Zenon, <2>3, <2>4
<1> QED
  BY Zenon, <1>3, <1>5, <1>6, <1>7 DEF IoInv

-----------------------------------------------------------------------------
(* A call puts updates that were undelivered at the end of a mailbox.      *)
Put(w, part) ==
    /\ inbox' = [inbox EXCEPT ![w] = inbox[w] \o part]
    /\ Distinct(part) /\ Range(part) \subseteq Undelivered
    /\ \A u : u \in Undelivered' <=> u \in Undelivered /\ u \notin Range(part)
    /\ scenario.upsert =>
         /\ \A i \in DOMAIN part : hash[part[i].key] % nworkers = w
         /\ \A i, j \in DOMAIN part : i < j => part[i].id < part[j].id
         /\ \A x \in Range(part), y \in Undelivered' : SameKey(x, y) => x.id < y.id

LEMMA PutPlaces ==
    ASSUME IoTypeInv, PlacesInv, Undelivered \subseteq Updates,
           NEW w \in Workers, NEW part \in Seq(Upd), Put(w, part),
           UNCHANGED <<scenario, log, cleared, before>>
    PROVE  PlacesInv'
<1> DEFINE l == Len(log[w]) + 1
           n == Len(inbox[w])
           New(v, c, i, u) == v = w /\ c = l /\ i - n \in DOMAIN part /\ u = part[i - n] /\ i \in Nat /\ i > n
<1>0. /\ Distinct(part) /\ Range(part) \subseteq Undelivered
      /\ \A u : u \in Undelivered' <=> u \in Undelivered /\ u \notin Range(part)
      /\ scenario.upsert => \A i \in DOMAIN part : hash[part[i].key] % nworkers = w
      /\ scenario.upsert => \A i, j \in DOMAIN part : i < j => part[i].id < part[j].id
      /\ scenario.upsert => \A x \in Range(part), y \in Undelivered' : SameKey(x, y) => x.id < y.id
  BY Zenon DEF Put
<1>1. log[w] \in Seq(Seq(Upd)) /\ inbox[w] \in Seq(Upd)
  BY Zenon DEF IoTypeInv
<1>2. /\ inbox'[w] = inbox[w] \o part /\ log' = log
      /\ \A v \in Workers : v # w => inbox'[v] = inbox[v]
  BY Zenon DEF IoTypeInv, Put
<1>3. /\ n \in Nat /\ inbox[w] \o part \in Seq(Upd)
      /\ \A i : i \in DOMAIN (inbox[w] \o part) <=>
           i \in DOMAIN inbox[w] \/ (i - n \in DOMAIN part /\ i \in Nat /\ i > n)
      /\ \A i \in DOMAIN inbox[w] : (inbox[w] \o part)[i] = inbox[w][i] /\ i \in Nat /\ i <= n /\ ~(i > n)
      /\ \A i \in DOMAIN (inbox[w] \o part) : i \notin DOMAIN inbox[w] => (inbox[w] \o part)[i] = part[i - n]
      /\ \A k \in DOMAIN part : (n + k) - n = k /\ n + k \in Nat /\ n + k > n
  BY Zenon, <1>1, ConcatFacts
<1>4. /\ Stream(w) \in Seq(Seq(Upd)) /\ l \in Nat /\ l \in 1 .. l
      /\ DOMAIN Stream(w) = 1 .. l /\ DOMAIN Stream(w)' = 1 .. l
      /\ Stream(w)[l] = inbox[w] /\ Stream(w)'[l] = inbox[w] \o part
      /\ \A c \in 1 .. l : c \in Nat /\ c <= l
      /\ \A c \in 1 .. l : c # l => Stream(w)'[c] = Stream(w)[c]
  <2>1. /\ Stream(w) \in Seq(Seq(Upd)) /\ l \in Nat /\ l \in 1 .. l
        /\ DOMAIN Stream(w) = 1 .. l /\ Stream(w)[l] = inbox[w]
        /\ \A c \in 1 .. l : c \in Nat /\ c <= l
        /\ \A c \in 1 .. l : c # l => c \in DOMAIN log[w]
        /\ \A c \in DOMAIN log[w] : Stream(w)[c] = log[w][c]
    <3>1. Stream(w) \in Seq(Seq(Upd)) /\ Appended(log[w], inbox[w], Stream(w))
      BY Zenon, <1>1, AppendFacts DEF Stream
    <3> QED
      BY Zenon, <3>1 DEF Appended
  <2>2. /\ DOMAIN Stream(w)' = 1 .. l /\ Stream(w)'[l] = inbox[w] \o part
        /\ \A c \in DOMAIN log[w] : Stream(w)'[c] = log[w][c]
    <3>1. Stream(w)' = Append(log[w], inbox[w] \o part)
      BY Zenon, <1>2 DEF Stream
    <3>2. Appended(log[w], inbox[w] \o part, Stream(w)')
      <4>1. log[w] \in Seq(Seq(Upd)) /\ inbox[w] \o part \in Seq(Upd)
        BY Zenon, <1>1, <1>3
      <4>2. Appended(log[w], inbox[w] \o part, Append(log[w], inbox[w] \o part))
        BY Zenon, <4>1, AppendFacts
      <4> QED
        BY Zenon, <3>1, <4>2
    <3> QED
      BY Zenon, <3>2 DEF Appended
  <2> QED
    BY Zenon, <2>1, <2>2
<1> HIDE DEF l, n
<1>5. ASSUME NEW c, NEW i, NEW u, Holds(w, c, i, u)
      PROVE  c \in Nat /\ c <= l /\ (c = l => i \in Nat /\ i <= n) /\ u \in Upd
  <2>1. c \in 1 .. l /\ c \in DOMAIN Stream(w) /\ i \in DOMAIN Stream(w)[c] /\ u = Stream(w)[c][i]
    BY Zenon, <1>4, <1>5 DEF Holds
  <2>2. Stream(w)[c] \in Seq(Upd)
    BY Zenon, <1>4, <2>1, ElementType
  <2>3. u \in Upd
    BY Zenon, <2>1, <2>2, ElementType
  <2> QED
    BY Zenon, <1>3, <1>4, <2>1, <2>3
<1>6. ASSUME NEW v, NEW c, NEW i, NEW u
      PROVE  Holds(v, c, i, u)' <=> Holds(v, c, i, u) \/ New(v, c, i, u)
  <2>1. CASE v # w
    BY Zenon, <1>2, <2>1 DEF Holds, Stream
  <2>2. CASE v = w /\ c # l
    BY Zenon, <1>4, <2>2 DEF Holds
  <2>3. CASE v = w /\ c = l
    <3>1. Holds(v, c, i, u)' <=> i \in DOMAIN (inbox[w] \o part) /\ (inbox[w] \o part)[i] = u
      BY Zenon, <1>4, <2>3 DEF Holds
    <3>2. Holds(v, c, i, u) <=> i \in DOMAIN inbox[w] /\ inbox[w][i] = u
      BY Zenon, <1>4, <2>3 DEF Holds
    <3> QED
      BY Zenon, <1>3, <2>3, <3>1, <3>2
  <2> QED
    BY Zenon, <2>1, <2>2, <2>3
<1>7. ASSUME NEW v, NEW c, NEW i, NEW u, New(v, c, i, u)
      PROVE  /\ v = w /\ c = l /\ i \in Nat /\ i > n /\ i - n \in DOMAIN part /\ u = part[i - n]
             /\ u \in Range(part) /\ u \in Undelivered /\ u \in Updates /\ u \notin cleared /\ u \in Upd
  <2>1. u \in Range(part) /\ u \in Upd
    BY Zenon, <1>7, ElementType DEF Range
  <2>2. u \in Undelivered /\ u \in Updates
    BY Zenon, <1>0, <2>1
  <2>3. u \notin cleared
    BY Zenon, <2>2 DEF PlacesInv
  <2> QED
    BY Zenon, <1>7, <2>1, <2>2, <2>3
<1>8. ASSUME NEW u \in Range(part) PROVE \E i : New(w, l, i, u)
  <2>1. PICK k \in DOMAIN part : part[k] = u
    BY Zenon DEF Range
  <2>2. New(w, l, n + k, u)
    BY Zenon, <1>3, <2>1
  <2> QED
    BY Zenon, <2>2
<1> HIDE DEF New
<1>9. Updates' = Updates /\ \A x, y : SameKey(x, y)' <=> SameKey(x, y)
  BY Zenon DEF Updates, Producers, SameKey
<1>10. \A v, c, i, u : Holds(v, c, i, u) =>
         /\ u \in Updates /\ u \notin Undelivered \cup cleared
         /\ scenario.upsert => hash[u.key] % nworkers = v
  BY Zenon DEF PlacesInv
<1>11. ASSUME NEW v, NEW c, NEW i, NEW u, Holds(v, c, i, u)'
       PROVE  /\ u \in Updates' /\ u \notin (Undelivered \cup cleared)'
              /\ scenario'.upsert => hash[u.key] % nworkers = v
  <2>1. CASE Holds(v, c, i, u)
    BY Zenon, <1>0, <1>9, <1>10, <2>1
  <2>2. CASE New(v, c, i, u)
    <3>1. u = part[i - n] /\ i - n \in DOMAIN part /\ v = w
      BY Zenon, <1>7, <2>2
    <3>2. u \in Range(part) /\ u \in Updates /\ u \notin cleared
      BY Zenon, <1>7, <2>2
    <3> QED
      BY Zenon, <1>0, <1>9, <3>1, <3>2
  <2> QED
    BY Zenon, <1>6, <1>11, <2>1, <2>2
<1>12. ASSUME NEW u, NEW v, NEW x, NEW c, NEW d, NEW i, NEW j, Holds(v, c, i, u)', Holds(x, d, j, u)'
       PROVE  v = x /\ c = d /\ i = j
  <2>1. CASE Holds(v, c, i, u) /\ Holds(x, d, j, u)
    BY Zenon, <2>1, OnePlace
  <2>2. CASE New(v, c, i, u) /\ New(x, d, j, u)
    <3>1. /\ v = w /\ x = w /\ c = l /\ d = l /\ i \in Nat /\ j \in Nat
          /\ i - n \in DOMAIN part /\ j - n \in DOMAIN part /\ part[i - n] = part[j - n]
      <4>1. v = w /\ c = l /\ i \in Nat /\ i - n \in DOMAIN part /\ u = part[i - n]
        BY Zenon, <2>2 DEF New
      <4>2. x = w /\ d = l /\ j \in Nat /\ j - n \in DOMAIN part /\ u = part[j - n]
        BY Zenon, <2>2 DEF New
      <4> QED
        BY Zenon, <4>1, <4>2
    <3>2. i - n = j - n
      BY Zenon, <1>0, <3>1 DEF Distinct
    <3> QED
      BY Zenon, <1>3, <3>1, <3>2, Numbers
  <2>3. ~(New(v, c, i, u) /\ Holds(x, d, j, u)) /\ ~(Holds(v, c, i, u) /\ New(x, d, j, u))
    BY Zenon, <1>7, <1>10
  <2> QED
    BY Zenon, <1>6, <1>12, <2>1, <2>2, <2>3
<1>13. ASSUME NEW u \in Updates', u \notin (Undelivered \cup cleared)'
       PROVE  \E v, c, i : Holds(v, c, i, u)'
  <2>1. CASE u \in Range(part)
    BY Zenon, <1>6, <1>8, <2>1
  <2>2. CASE u \notin Range(part)
    <3>1. \E v, c, i : Holds(v, c, i, u)
      BY Zenon, <1>0, <1>9, <1>13, <2>2 DEF PlacesInv
    <3> QED
      BY Zenon, <1>6, <3>1
  <2> QED
    BY Zenon, <2>1, <2>2
<1>14. ASSUME scenario'.upsert, NEW v, NEW c, NEW d, NEW i, NEW j, NEW x, NEW y,
              Holds(v, c, i, x)', Holds(v, d, j, y)', SameKey(x, y), x.id < y.id
       PROVE  c < d \/ (c = d /\ i < j)
  <2>1. CASE Holds(v, c, i, x) /\ Holds(v, d, j, y)
    BY ZenonT(30), <1>14, <2>1 DEF PlacesInv
  <2>2. CASE Holds(v, c, i, x) /\ New(v, d, j, y)
    <3>1. Holds(w, c, i, x) /\ v = w /\ d = l /\ j \in Nat /\ j > n
      BY Zenon, <2>2 DEF New
    <3>2. c \in Nat /\ c <= l /\ (c = l => i \in Nat /\ i <= n)
      BY Zenon, <1>5, <3>1
    <3>3. c < l \/ c = l
      BY Zenon, <1>4, <3>2, Numbers
    <3>4. c = l => i < j
      BY Zenon, <1>3, <3>1, <3>2, Numbers
    <3> QED
      BY Zenon, <3>1, <3>3, <3>4
  <2>3. ~(New(v, c, i, x) /\ Holds(v, d, j, y))
    <3> SUFFICES ASSUME New(v, c, i, x), Holds(v, d, j, y) PROVE FALSE
      BY Zenon
    <3>1. x \in Undelivered /\ x \in Upd /\ v = w
      BY Zenon, <1>7
    <3>2. y.id < x.id
      BY Zenon, <1>14, <3>1 DEF PlacesInv, SameKey
    <3>3. y \in Upd
      BY Zenon, <1>5, <3>1
    <3>4. x.id \in Nat /\ y.id \in Nat
      BY Zenon, <3>1, <3>3 DEF Upd
    <3> QED
      BY Zenon, <1>14, <3>2, <3>4, Numbers
  <2>4. CASE New(v, c, i, x) /\ New(v, d, j, y)
    <3>1. /\ i - n \in DOMAIN part /\ j - n \in DOMAIN part /\ c = d /\ i \in Nat /\ j \in Nat
          /\ x = part[i - n] /\ y = part[j - n] /\ x \in Upd /\ y \in Upd
      <4>1. c = l /\ i \in Nat /\ i - n \in DOMAIN part /\ x = part[i - n]
        BY Zenon, <2>4 DEF New
      <4>2. d = l /\ j \in Nat /\ j - n \in DOMAIN part /\ y = part[j - n]
        BY Zenon, <2>4 DEF New
      <4> QED
        BY Zenon, <1>7, <2>4, <4>1, <4>2
    <3>2. x.id \in Nat /\ y.id \in Nat
      BY Zenon, <3>1 DEF Upd
    <3>3. j - n < i - n => y.id < x.id
      BY Zenon, <1>0, <1>14, <3>1
    <3>4. ~(y.id < x.id) /\ x # y
      BY Zenon, <1>14, <3>2, Numbers
    <3>5. i < j \/ i = j \/ j - n < i - n
      BY Zenon, <1>3, <3>1, Numbers
    <3> QED
      BY Zenon, <3>1, <3>3, <3>4, <3>5
  <2> QED
    BY Zenon, <1>6, <1>14, <2>1, <2>2, <2>3, <2>4
<1>15. ASSUME scenario'.upsert, NEW v, NEW c, NEW i, NEW x, NEW y \in Undelivered',
              Holds(v, c, i, x)', SameKey(x, y)
       PROVE  x.id < y.id
  <2>1. CASE Holds(v, c, i, x)
    BY Zenon, <1>0, <1>15, <2>1 DEF PlacesInv
  <2>2. CASE New(v, c, i, x)
    BY Zenon, <1>0, <1>7, <1>15, <2>2
  <2> QED
    BY Zenon, <1>6, <1>15, <2>1, <2>2
<1>16. Undelivered' \cap (cleared \cup before)' = {}
  BY Zenon, <1>0 DEF PlacesInv
<1> QED
  BY ZenonT(30), <1>9, <1>11, <1>12, <1>13, <1>14, <1>15, <1>16 DEF PlacesInv

(* At the start of a call all its updates are undelivered. *)
AllAtStart ==
    \A p \in Producers : ProgramInv(p) /\ todo[p] # <<>> /\ at[p] = 0 => Rest(p) = Values(todo[p])

LEMMA RestAtStart ==
    Ranked /\ IoTypeInv => AllAtStart
<1> SUFFICES ASSUME Ranked, IoTypeInv, NEW p \in Producers, ProgramInv(p), todo[p] # <<>>, at[p] = 0,
                    NEW u \in Values(todo[p])
             PROVE  u \in Rest(p)
  BY Zenon, RestInTodo DEF AllAtStart
<1> DEFINE vals == Head(todo[p]).vals
           part == [w \in Workers |-> Part(p, w)]
<1>1. todo[p] \in Seq(ApiCalls) /\ Program(todo[p], p)
  BY Zenon DEF IoTypeInv, ProgramInv
<1>2. u \in Range(vals) \/ u \in Values(Tail(todo[p]))
  BY ZenonT(30), <1>1, CallFacts
<1>3. Division(Upd, vals, part)
  BY Zenon, <1>1, PartDivides
<1>4. CASE u \in Range(vals)
  <2> HIDE DEF part, vals
  <2>1. PICK w \in Workers : \E i \in DOMAIN part[w] : part[w][i] = u
    BY Zenon, <1>3, <1>4 DEF Division
  <2>2. part[w] = Part(p, w)
    BY Zenon DEF part
  <2>3. u \in Range(Part(p, w)) /\ w \in at[p] .. nworkers - 1
    BY Zenon, <2>1, <2>2 DEF Range, Workers
  <2> QED
    BY Zenon, <2>3, RestIs
<1> QED
  BY Zenon, <1>2, <1>4, RestIs

LEMMA RestAtStartNext ==
    Ranked' /\ IoTypeInv' => AllAtStart'
  BY RestAtStart, PTL

(* A producer goes on to the next worker or to its next call. *)
LEMMA ServedProgram ==
    ASSUME IoTypeInv, Programs, scenario' = scenario,
           NEW p \in Producers, todo[p] # <<>>, NEW w \in Workers, Served(p, w),
           Head(todo[p]).op = "push" => w = nworkers - 1
    PROVE  /\ Producers' = Producers /\ Updates' = Updates
           /\ todo' \in [Producers -> Seq(ApiCalls)]
           /\ at' \in [Producers -> Workers]
           /\ next_worker' \in [Producers -> Nat]
           /\ Programs'
           /\ \A q \in Producers : q # p =>
                todo'[q] = todo[q] /\ at'[q] = at[q] /\ next_worker'[q] = next_worker[q]
           /\ w < nworkers - 1 => UNCHANGED <<todo, next_worker>> /\ at'[p] = w + 1
           /\ w = nworkers - 1 => todo'[p] = Tail(todo[p]) /\ at'[p] = 0
<1>1. Producers' = Producers /\ Updates' = Updates
  BY Zenon DEF Producers, Updates
<1>2. /\ todo \in [Producers -> Seq(ApiCalls)] /\ at \in [Producers -> Workers]
      /\ next_worker \in [Producers -> Nat]
      /\ Program(todo[p], p) /\ Values(todo[p]) \subseteq Updates /\ todo[p] \in Seq(ApiCalls)
  BY Zenon DEF IoTypeInv, Programs, ProgramInv
<1>3. /\ Tail(todo[p]) \in Seq(ApiCalls) /\ Program(Tail(todo[p]), p)
      /\ Values(Tail(todo[p])) \subseteq Values(todo[p])
  BY ZenonT(30), <1>2, CallFacts
<1>4. w \in Nat /\ w <= nworkers - 1 /\ nworkers \in Nat /\ nworkers > 0 /\ 0 \in Workers
      /\ (w < nworkers - 1 => w + 1 \in Workers)
  BY NWorkersAssumption DEF Workers
<1>5. \A q \in Producers : todo'[q] = todo[q] /\ at'[q] = at[q] => ProgramInv(q)'
  BY Zenon, <1>1 DEF Programs, ProgramInv
<1>6. CASE w < nworkers - 1
  <2>1. at' = [at EXCEPT ![p] = w + 1] /\ UNCHANGED <<todo, next_worker>>
    BY Zenon, <1>6 DEF Served
  <2>2. at' \in [Producers -> Workers] /\ at'[p] = w + 1 /\ \A q \in Producers : q # p => at'[q] = at[q]
    BY Zenon, <1>2, <1>4, <1>6, <2>1
  <2>3. ProgramInv(p)'
    <3>1. w # nworkers - 1
      BY <1>4, <1>6
    <3> QED
      BY Zenon, <1>1, <1>2, <2>1, <3>1 DEF ProgramInv
  <2>4. w # nworkers - 1
    BY <1>4, <1>6
  <2>5. Programs'
    BY Zenon, <1>1, <1>5, <2>1, <2>2, <2>3 DEF Programs
  <2> QED
    BY Zenon, <1>1, <1>2, <1>6, <2>1, <2>2, <2>4, <2>5
<1>7. CASE ~(w < nworkers - 1)
  <2>1. /\ at' = [at EXCEPT ![p] = 0]
        /\ todo' = [todo EXCEPT ![p] = Tail(todo[p])]
        /\ next_worker' = [next_worker EXCEPT ![p] = Advanced(p)]
    BY Zenon, <1>7 DEF Served
  <2>2. Advanced(p) \in Nat
    <3>1. next_worker[p] \in Nat /\ nworkers \in Nat
      BY Zenon, <1>2, <1>4
    <3>2. next_worker[p] + 1 \in Nat /\ next_worker[p] + nworkers \in Nat
      BY <3>1
    <3> QED
      BY Zenon, <3>1, <3>2 DEF Advanced
  <2>3. /\ at' \in [Producers -> Workers] /\ at'[p] = 0
        /\ todo' \in [Producers -> Seq(ApiCalls)] /\ todo'[p] = Tail(todo[p])
        /\ next_worker' \in [Producers -> Nat]
        /\ \A q \in Producers : q # p => at'[q] = at[q] /\ todo'[q] = todo[q] /\ next_worker'[q] = next_worker[q]
    BY Zenon, <1>2, <1>3, <1>4, <2>1, <2>2
  <2>4. ProgramInv(p)'
    <3>1. Values(todo[p])' = Values(Tail(todo[p]))
      BY Zenon, <2>3 DEF Values
    <3> QED
      BY Zenon, <1>1, <1>2, <1>3, <2>3, <3>1 DEF ProgramInv
  <2> QED
    BY Zenon, <1>1, <1>5, <1>7, <2>3, <2>4 DEF Programs
<1> QED
  BY Zenon, <1>6, <1>7

(* Of the workers that the call serves or passes over, only w gets updates. *)
OnlyFor(p, x, w) == \A v \in at[p] .. x : v # w => Range(Part(p, v)) = {}

(* Of the updates that were undelivered, the ones given to worker w no     *)
(* longer are; the call has nothing for other workers that it passes over. *)
LEMMA ServedUndelivered ==
    ASSUME Ranked, IoTypeInv, Programs, IoTypeInv', scenario' = scenario,
           NEW p \in Producers, todo[p] # <<>>,
           NEW x \in Workers, Served(p, x), Head(todo[p]).op = "push" => x = nworkers - 1,
           NEW w \in at[p] .. x,
           OnlyFor(p, x, w)
    PROVE  \A u : u \in Undelivered' <=> u \in Undelivered /\ u \notin Range(Part(p, w))
<1> DEFINE left(u) == \/ \E v \in x + 1 .. nworkers - 1 : u \in Range(Part(p, v))
                      \/ u \in Values(Tail(todo[p]))
           vals == Head(todo[p]).vals
           part == [v \in Workers |-> Part(p, v)]
<1>0. Ranked'
  BY Zenon DEF Ranked, Rank
<1>1. /\ Producers' = Producers /\ Programs'
      /\ \A q \in Producers : q # p =>
           todo'[q] = todo[q] /\ at'[q] = at[q] /\ next_worker'[q] = next_worker[q]
      /\ x < nworkers - 1 => UNCHANGED <<todo, next_worker>> /\ at'[p] = x + 1
      /\ x = nworkers - 1 => todo'[p] = Tail(todo[p]) /\ at'[p] = 0
  BY Zenon, ServedProgram
<1>2. /\ todo[p] \in Seq(ApiCalls) /\ Program(todo[p], p) /\ at[p] \in Workers
      /\ nworkers \in Nat /\ x \in Nat /\ x <= nworkers - 1 /\ at[p] \in Nat /\ at[p] <= nworkers - 1
  <2>1. todo[p] \in Seq(ApiCalls) /\ Program(todo[p], p) /\ at[p] \in Workers
    BY Zenon DEF IoTypeInv, Programs, ProgramInv
  <2>2. \A v \in Workers : v \in Nat /\ v <= nworkers - 1
    BY NWorkersAssumption DEF Workers
  <2> QED
    BY Zenon, <2>1, <2>2, NWorkersAssumption
<1>3. /\ w \in Workers /\ w \in at[p] .. nworkers - 1
      /\ \A v \in x + 1 .. nworkers - 1 : v \in Workers /\ v # w /\ v \in at[p] .. nworkers - 1
      /\ \A v \in at[p] .. nworkers - 1 : v \in x + 1 .. nworkers - 1 \/ v \in at[p] .. x
      /\ x < nworkers - 1 \/ x = nworkers - 1
  BY Zenon, <1>2, Intervals DEF Workers
<1>4. Division(Upd, vals, part)
  BY Zenon, <1>2, PartDivides
<1>5. \A u : u \in Undelivered' <=> \E q \in Producers : todo'[q] # <<>> /\ u \in Rest(q)'
  BY Zenon, <1>1 DEF Undelivered, Rest
<1>6. ASSUME NEW q \in Producers, q # p
      PROVE  Rest(q)' = Rest(q) /\ (todo'[q] # <<>> <=> todo[q] # <<>>)
  <2>1. todo'[q] = todo[q] /\ at'[q] = at[q] /\ next_worker'[q] = next_worker[q]
    BY Zenon, <1>1, <1>6
  <2>2. \A v : Part(q, v)' = Part(q, v)
    BY Zenon, <2>1 DEF Part
  <2> QED
    BY Zenon, <2>1, <2>2 DEF Rest
<1>7. ASSUME NEW u PROVE todo'[p] # <<>> /\ u \in Rest(p)' <=> left(u)
  <2>1. CASE x < nworkers - 1
    <3>1. \A v : Part(p, v)' = Part(p, v)
      BY Zenon, <1>1, <2>1 DEF Part
    <3>2. todo'[p] = todo[p] /\ at'[p] = x + 1
      BY Zenon, <1>1, <2>1
    <3>3. Rest(p)' = (UNION {Range(Part(p, v)) : v \in x + 1 .. nworkers - 1}) \cup Values(Tail(todo[p]))
      BY Zenon, <3>1, <3>2 DEF Rest
    <3> QED
      BY Zenon, <3>2, <3>3
  <2>2. CASE x = nworkers - 1
    <3>1. left(u) <=> u \in Values(todo[p])'
      <4>1. x + 1 .. nworkers - 1 = {}
        BY Zenon, <1>2, <2>2, Intervals
      <4>2. Values(todo[p])' = Values(Tail(todo[p]))
        BY Zenon, <1>1, <2>2 DEF Values
      <4> QED
        BY Zenon, <4>1, <4>2
    <3>2. CASE todo'[p] = <<>>
      <4>1. Values(todo[p])' = {}
        BY Zenon, <3>2, EmptySeq DEF Values
      <4> QED
        BY Zenon, <3>1, <3>2, <4>1
    <3>3. CASE todo'[p] # <<>>
      <4>1. Rest(p)' = Values(todo[p])'
        BY Zenon, <1>0, <1>1, <2>2, <3>3, RestAtStartNext DEF AllAtStart, Programs
      <4> QED
        BY Zenon, <3>1, <3>3, <4>1
    <3> QED
      BY Zenon, <3>2, <3>3
  <2> QED
    BY Zenon, <1>3, <2>1, <2>2
<1>8. ASSUME NEW u \in Rest(p) PROVE left(u) \/ u \in Range(Part(p, w))
  <2>1. CASE u \in Values(Tail(todo[p]))
    BY Zenon, <2>1
  <2>2. ASSUME NEW v \in at[p] .. nworkers - 1, u \in Range(Part(p, v))
        PROVE  left(u) \/ u \in Range(Part(p, w))
    <3>1. v \in x + 1 .. nworkers - 1 \/ v \in at[p] .. x
      BY Zenon, <1>3
    <3> QED
      BY Zenon, <2>2, <3>1 DEF OnlyFor
  <2> QED
    BY Zenon, <1>8, <2>1, <2>2, RestIs
<1>9. ASSUME NEW u, left(u) PROVE u \in Rest(p)
  BY Zenon, <1>3, <1>9, RestIs
<1>10. ASSUME NEW u \in Range(Part(p, w)) PROVE ~left(u) /\ u \in Rest(p) /\ u \in Values(todo[p])
  <2>1. u \in Rest(p) /\ u \in Values(todo[p])
    <3>1. u \in Rest(p)
      BY Zenon, <1>3, RestIs
    <3> QED
      BY Zenon, <3>1, RestInTodo DEF Programs
  <2>2. PICK i \in DOMAIN part[w] : u = part[w][i]
    BY Zenon, <1>3 DEF Range
  <2>3. ASSUME NEW v \in x + 1 .. nworkers - 1, u \in Range(Part(p, v)) PROVE FALSE
    <3>1. PICK j \in DOMAIN part[v] : u = part[v][j]
      BY Zenon, <1>3, <2>3 DEF Range
    <3>2. v \in Workers /\ v # w
      BY Zenon, <1>3
    <3> HIDE DEF part, vals
    <3>3. part[w][i] = part[v][j] => w = v
      BY <1>3, <1>4, <3>1, <3>2, Zenon DEF Division
    <3> QED
      BY Zenon, <2>2, <3>1, <3>2, <3>3
  <2>4. ASSUME u \in Values(Tail(todo[p])) PROVE FALSE
    <3>1. u \in Range(vals)
      <4> HIDE DEF part, vals
      <4> QED
        BY Zenon, <1>3, <1>4, <2>2 DEF Division
    <3>2. u.id < u.id /\ u \in Upd
      BY Zenon, <1>2, <2>1, <2>4, <3>1, CallFacts
    <3>3. u.id \in Nat
      BY Zenon, <3>2 DEF Upd
    <3> QED
      BY Zenon, <3>2, <3>3, Numbers
  <2> QED
    BY Zenon, <2>1, <2>3, <2>4
<1>11. ASSUME NEW q \in Producers, q # p, NEW u \in Rest(q), todo[q] # <<>>
       PROVE  u \notin Range(Part(p, w))
  <2>1. u \in Values(todo[q]) /\ todo[q] \in Seq(ApiCalls) /\ Program(todo[q], q)
    BY Zenon, <1>11, RestInTodo DEF IoTypeInv, Programs, ProgramInv
  <2>2. u.by = q
    <3>1. \A y \in Values(todo[q]) : y \in Upd /\ y.by = q
      BY Zenon, <1>11, <2>1, CallFacts
    <3> QED
      BY Zenon, <2>1, <3>1
  <2>3. u \in Range(Part(p, w)) => u.by = p
    BY ZenonT(30), <1>2, <1>10, CallFacts
  <2> QED
    BY Zenon, <1>11, <2>2, <2>3
<1> HIDE DEF left
<1>12. ASSUME NEW u PROVE u \in Undelivered' <=> u \in Undelivered /\ u \notin Range(Part(p, w))
  <2>1. ASSUME u \in Undelivered' PROVE u \in Undelivered /\ u \notin Range(Part(p, w))
    <3>1. PICK q \in Producers : todo'[q] # <<>> /\ u \in Rest(q)'
      BY Zenon, <1>5, <2>1
    <3>2. CASE q = p
      BY Zenon, <1>7, <1>9, <1>10, <3>1, <3>2, UndeliveredIs
    <3>3. CASE q # p
      BY Zenon, <1>6, <1>11, <3>1, <3>3, UndeliveredIs
    <3> QED
      BY Zenon, <3>2, <3>3
  <2>2. ASSUME u \in Undelivered, u \notin Range(Part(p, w)) PROVE u \in Undelivered'
    <3>1. PICK q \in Producers : todo[q] # <<>> /\ u \in Rest(q)
      BY Zenon, <2>2, UndeliveredIs
    <3>2. CASE q = p
      BY Zenon, <1>5, <1>7, <1>8, <2>2, <3>1, <3>2
    <3>3. CASE q # p
      BY Zenon, <1>5, <1>6, <3>1, <3>3
    <3> QED
      BY Zenon, <3>2, <3>3
  <2> QED
    BY Zenon, <2>1, <2>2
<1> QED
  BY Zenon, <1>12

LEMMA PartFacts ==
    ASSUME Ranked, IoTypeInv, Programs, NEW p \in Producers, todo[p] # <<>>,
           NEW w \in at[p] .. nworkers - 1
    PROVE  /\ w \in Workers /\ Part(p, w) \in Seq(Upd) /\ Distinct(Part(p, w))
           /\ Range(Part(p, w)) \subseteq Undelivered
           /\ scenario.upsert => \A i \in DOMAIN Part(p, w) : hash[Part(p, w)[i].key] % nworkers = w
           /\ scenario.upsert => \A i, j \in DOMAIN Part(p, w) :
                i < j => Part(p, w)[i].id < Part(p, w)[j].id
           /\ scenario.upsert => \A x \in Range(Part(p, w)), y \in Undelivered :
                y \notin Range(Part(p, w)) /\ SameKey(x, y) => x.id < y.id
<1> DEFINE vals == Head(todo[p]).vals
           part == [v \in Workers |-> Part(p, v)]
<1>1. /\ todo[p] \in Seq(ApiCalls) /\ Program(todo[p], p) /\ at[p] \in Workers /\ ProgramInv(p)
      /\ \A v \in at[p] .. nworkers - 1 : v \in Workers
  <2>1. todo[p] \in Seq(ApiCalls) /\ Program(todo[p], p) /\ at[p] \in Workers /\ ProgramInv(p)
    BY Zenon DEF IoTypeInv, Programs, ProgramInv
  <2>2. \A v \in at[p] .. nworkers - 1 : v \in Workers
    BY <2>1, NWorkersAssumption DEF Workers
  <2> QED
    BY Zenon, <2>1, <2>2
<1>2. /\ Division(Upd, vals, part)
      /\ scenario.upsert => \A v \in Workers : \A i \in DOMAIN Part(p, v) :
           hash[Part(p, v)[i].key] % nworkers = v
      /\ scenario.upsert => \A v \in Workers : \A i, j \in DOMAIN Part(p, v) :
           i < j => Part(p, v)[i].id < Part(p, v)[j].id
  BY Zenon, <1>1, PartDivides
<1>3. /\ \A y \in Values(todo[p]) : y \in Upd /\ y.by = p
      /\ \A x \in Range(vals), y \in Values(Tail(todo[p])) : x.id < y.id
  BY ZenonT(30), <1>1, CallFacts
<1> HIDE DEF vals
<1>4. w \in Workers /\ part[w] = Part(p, w)
  BY Zenon, <1>1
<1> HIDE DEF part
<1>5. Part(p, w) \in Seq(Upd) /\ Distinct(Part(p, w)) /\ Range(Part(p, w)) \subseteq Range(vals)
  BY Zenon, <1>2, <1>4, DivisionParts
<1>6. Range(Part(p, w)) \subseteq Rest(p) /\ Rest(p) \subseteq Undelivered
  BY Zenon, RestIs, UndeliveredIs
<1>7. ASSUME scenario.upsert, NEW x \in Range(Part(p, w)), NEW y \in Undelivered,
             y \notin Range(Part(p, w)), SameKey(x, y)
      PROVE  x.id < y.id
  <2>1. x \in Values(todo[p]) /\ x.by = p
    BY Zenon, <1>1, <1>3, <1>6, RestInTodo
  <2>2. PICK q \in Producers : todo[q] # <<>> /\ y \in Rest(q)
    BY Zenon, UndeliveredIs
  <2>3. y.by = q
    <3>1. ProgramInv(q) /\ Program(todo[q], q) /\ todo[q] \in Seq(ApiCalls)
      BY Zenon DEF IoTypeInv, Programs, ProgramInv
    <3>2. y \in Values(todo[q])
      BY Zenon, <2>2, <3>1, RestInTodo
    <3>3. \A z \in Values(todo[q]) : z \in Upd /\ z.by = q
      BY Zenon, <2>2, <3>1, CallFacts
    <3> QED
      BY Zenon, <3>2, <3>3
  <2>4. q = p
    BY Zenon, <1>7, <2>1, <2>3 DEF SameKey
  <2>5. CASE y \in Values(Tail(todo[p]))
    BY Zenon, <1>3, <1>5, <2>5
  <2>6. ASSUME NEW v \in at[p] .. nworkers - 1, y \in Range(Part(p, v)) PROVE FALSE
    <3>1. hash[y.key] % nworkers = v
      <4>1. PICK j \in DOMAIN Part(p, v) : y = Part(p, v)[j]
        BY Zenon, <2>6 DEF Range
      <4> QED
        BY Zenon, <1>1, <1>2, <1>7, <4>1
    <3>2. hash[x.key] % nworkers = w
      <4>1. PICK i \in DOMAIN Part(p, w) : x = Part(p, w)[i]
        BY Zenon DEF Range
      <4> QED
        BY Zenon, <1>2, <1>4, <1>7, <4>1
    <3> QED
      BY Zenon, <1>7, <2>6, <3>1, <3>2 DEF SameKey
  <2> QED
    BY Zenon, <2>2, <2>4, <2>5, <2>6, RestIs
<1> QED
  BY Zenon, <1>2, <1>4, <1>5, <1>6, <1>7

LEMMA ProducerCycles ==
    ASSUME IoInv, UNCHANGED <<vars, outbox, round, log, before, read>>, NEW v \in Workers,
           Range(inbox'[v]) \subseteq Range(inbox[v]) \cup Undelivered
    PROVE  CycleInv(v)'
<1>1. UNCHANGED <<scenario, hpc, runtime, cycles, pc, steps>>
  BY Zenon DEF vars, call, threads
<1>2. CycleInv(v) /\ Calm' = Calm /\ Stepping(v)' = Stepping(v) /\ Dead(v)' = Dead(v)
  BY Zenon, <1>1 DEF IoInv, Calm, Calling, Stepping, Dead
<1>3. Written(v)' = Written(v)
  BY Zenon, <1>1, <1>2 DEF Written
<1>4. Applied(log[v][Written(v)])' = Applied(log[v][Written(v)])
  BY Zenon, <1>1, <1>3 DEF Applied
<1>5. \A u \in Range(inbox'[v]) \cap before' : u \in Range(inbox[v]) \cap before
  BY Zenon DEF IoInv, PlacesInv
<1> QED
  BY Zenon, <1>1, <1>2, <1>3, <1>4, <1>5 DEF CycleInv

(* push and append. *)
LEMMA PutStep ==
    ASSUME Ranked, IoInv, HandleInv', NEW p \in Producers, todo[p] # <<>>,
           UNCHANGED <<vars, outbox, round, log, cleared, before, read>>,
           NEW x \in Workers, Served(p, x), Head(todo[p]).op = "push" => x = nworkers - 1,
           NEW w \in at[p] .. x,
           OnlyFor(p, x, w),
           inbox' = [inbox EXCEPT ![w] = inbox[w] \o Part(p, w)]
    PROVE  IoInv'
<1>1. IoTypeInv /\ PlacesInv /\ Programs /\ scenario' = scenario
  BY Zenon DEF IoInv, vars
<1>2. /\ Producers' = Producers /\ Updates' = Updates
      /\ todo' \in [Producers -> Seq(ApiCalls)]
      /\ at' \in [Producers -> Workers]
      /\ next_worker' \in [Producers -> Nat]
      /\ Programs'
  BY Zenon, <1>1, ServedProgram
<1>3. w \in at[p] .. nworkers - 1
  <2>1. at[p] \in Workers
    BY Zenon, <1>1 DEF IoTypeInv
  <2> QED
    BY <2>1, NWorkersAssumption DEF Workers
<1> DEFINE part == Part(p, w)
<1>4. /\ w \in Workers /\ part \in Seq(Upd) /\ Distinct(part)
      /\ Range(part) \subseteq Undelivered
      /\ scenario.upsert => \A i \in DOMAIN part : hash[part[i].key] % nworkers = w
      /\ scenario.upsert => \A i, j \in DOMAIN part : i < j => part[i].id < part[j].id
      /\ scenario.upsert => \A z \in Range(part), y \in Undelivered :
           y \notin Range(part) /\ SameKey(z, y) => z.id < y.id
  BY Zenon, <1>1, <1>3, PartFacts
<1>5. /\ inbox'[w] = inbox[w] \o part /\ inbox[w] \in Seq(Upd)
      /\ \A v \in Workers : v # w => inbox'[v] = inbox[v]
  BY Zenon, <1>1, <1>4 DEF IoTypeInv
<1>6. IoTypeInv'
  <2>1. inbox' \in [Workers -> Seq(Upd)]
    <3> HIDE DEF part
    <3>1. inbox[w] \o part \in Seq(Upd)
      BY Zenon, <1>4, <1>5, ConcatFacts
    <3> QED
      BY Zenon, <1>1, <1>4, <3>1 DEF IoTypeInv, part
  <2> QED
    BY Zenon, <1>1, <1>2, <2>1 DEF IoTypeInv
<1>7. \A u : u \in Undelivered' <=> u \in Undelivered /\ u \notin Range(part)
  BY Zenon, <1>1, <1>6, ServedUndelivered
<1> HIDE DEF part
<1>8. PlacesInv'
  <2>1. Undelivered \subseteq Updates
    BY Zenon, <1>1, UndeliveredInTodo
  <2>2. inbox' = [inbox EXCEPT ![w] = inbox[w] \o part]
    BY Zenon DEF part
  <2>3. scenario.upsert => \A z \in Range(part), y \in Undelivered' : SameKey(z, y) => z.id < y.id
    BY Zenon, <1>4, <1>7
  <2>4. UNCHANGED <<scenario, log, cleared, before>>
    BY Zenon, <1>1
  <2>5. Put(w, part)
    BY Zenon, <1>4, <1>7, <2>2, <2>3 DEF Put
  <2> QED
    BY Zenon, <1>1, <1>4, <2>1, <2>4, <2>5, PutPlaces
<1>9. ASSUME NEW v \in Workers PROVE CycleInv(v)'
  <2>1. Range(inbox'[v]) \subseteq Range(inbox[v]) \cup Undelivered
    <3>1. Range(inbox[w] \o part) \subseteq Range(inbox[w]) \cup Range(part)
      BY Zenon, <1>4, <1>5, ConcatRange
    <3> QED
      BY Zenon, <1>4, <1>5, <3>1
  <2> QED
    BY Zenon, <2>1, ProducerCycles
<1> QED
  BY Zenon, <1>2, <1>6, <1>8, <1>9 DEF IoInv

LEMMA AppendStep ==
    ASSUME Ranked, IoInv, HandleInv', NEW p \in Producers, append(p) PROVE IoInv'
<1>1. /\ todo[p] # <<>> /\ Head(todo[p]).op = "append" /\ Served(p, at[p])
      /\ inbox' = [inbox EXCEPT ![at[p]] = inbox[at[p]] \o Part(p, at[p])]
      /\ UNCHANGED <<vars, outbox, round, log, cleared, before, read>>
  BY Zenon DEF append, Calls
<1>2. PICK w \in Workers : w = at[p]
  BY Zenon DEF IoInv, IoTypeInv
<1>3. /\ w \in at[p] .. w /\ \A v \in at[p] .. w : v = w
      /\ Served(p, w) /\ inbox' = [inbox EXCEPT ![w] = inbox[w] \o Part(p, w)]
  <2>1. w .. w = {w}
    BY <1>2 DEF Workers
  <2> QED
    BY Zenon, <1>1, <1>2, <2>1
<1> QED
  BY Zenon, <1>1, <1>3, PutStep DEF OnlyFor

LEMMA PushStep ==
    ASSUME Ranked, IoInv, HandleInv', NEW p \in Producers, push(p) PROVE IoInv'
<1>1. /\ todo[p] # <<>> /\ Head(todo[p]).op = "push" /\ Served(p, nworkers - 1)
      /\ UNCHANGED <<vars, outbox, round, log, cleared, before, read>>
  BY Zenon DEF push, Calls
<1>2. PICK w \in Workers : Part(p, w) # <<>> /\ inbox' = [inbox EXCEPT ![w] = inbox[w] \o Part(p, w)]
  BY Zenon DEF push
<1>3. at[p] = 0 /\ Program(todo[p], p) /\ todo[p] \in Seq(ApiCalls) /\ IoTypeInv
  BY Zenon, <1>1 DEF IoInv, Programs, ProgramInv, IoTypeInv
<1> DEFINE vals == Head(todo[p]).vals
           part == [v \in Workers |-> Part(p, v)]
           x == nworkers - 1
<1>4. vals \in Seq(Upd) /\ Len(vals) = 1 /\ Division(Upd, vals, part)
  BY Zenon, <1>1, <1>3, CallFacts, PartDivides
<1>5. x \in Workers /\ at[p] .. x = Workers
  BY <1>3, NWorkersAssumption DEF Workers
<1>6. \A v \in Workers : part[v] = Part(p, v)
  BY Zenon
<1> HIDE DEF vals, part, x
<1>7. \A u \in Range(vals) : u = vals[1]
  <2>1. DOMAIN vals = {1}
    BY <1>4
  <2> QED
    BY Zenon, <2>1 DEF Range
<1>8. PICK i : i \in DOMAIN part[w]
  <2>1. part[w] \in Seq(Upd) /\ part[w] # <<>>
    BY Zenon, <1>2, <1>4, <1>6 DEF Division
  <2>2. 1 \in DOMAIN part[w]
    BY <2>1
  <2> QED
    BY Zenon, <2>2
<1>9. ASSUME NEW v \in Workers, v # w PROVE Range(Part(p, v)) = {}
  <2>1. ASSUME NEW j \in DOMAIN part[v] PROVE FALSE
    <3>1. part[v][j] \in Range(vals) /\ part[w][i] \in Range(vals)
      BY Zenon, <1>4, <1>8 DEF Division
    <3>2. part[v][j] = part[w][i]
      BY Zenon, <1>7, <3>1
    <3>3. v = w
      BY <1>4, <1>8, <3>2, Zenon DEF Division
    <3> QED
      BY Zenon, <1>9, <3>3
  <2> QED
    BY Zenon, <1>6, <2>1 DEF Range
<1>10. Served(p, x)
  BY Zenon, <1>1 DEF x
<1> QED
  <2>1. Head(todo[p]).op = "push" => x = nworkers - 1
    BY Zenon DEF x
  <2>2. w \in at[p] .. x /\ \A v \in at[p] .. x : v # w => Range(Part(p, v)) = {}
    BY Zenon, <1>5, <1>9
  <2> QED
    BY Zenon, <1>1, <1>2, <1>5, <1>10, <2>1, <2>2, PutStep DEF OnlyFor

(* clear_input: the updates in the mailbox have been cleared. *)
LEMMA ClearStep ==
    ASSUME Ranked, IoInv, HandleInv', NEW p \in Producers, clear_input(p) PROVE IoInv'
<1>1. /\ todo[p] # <<>> /\ Head(todo[p]).op = "clear" /\ Served(p, at[p])
      /\ inbox' = [inbox EXCEPT ![at[p]] = <<>>]
      /\ cleared' = cleared \cup Range(inbox[at[p]])
      /\ UNCHANGED <<vars, outbox, round, log, before, read>>
  BY Zenon DEF clear_input, Calls
<1>2. IoTypeInv /\ PlacesInv /\ Programs /\ UNCHANGED <<scenario, log>>
  BY Zenon, <1>1 DEF IoInv, vars
<1>3. PICK w \in Workers : w = at[p]
  BY Zenon, <1>2 DEF IoTypeInv
<1>4. w \in at[p] .. w /\ (\A v \in at[p] .. w : v = w) /\ Served(p, w)
  <2>1. w .. w = {w}
    BY <1>3 DEF Workers
  <2> QED
    BY Zenon, <1>1, <1>3, <2>1
<1>5. /\ Producers' = Producers /\ Updates' = Updates
      /\ todo' \in [Producers -> Seq(ApiCalls)]
      /\ at' \in [Producers -> Workers]
      /\ next_worker' \in [Producers -> Nat]
      /\ Programs'
  BY Zenon, <1>1, <1>2, <1>4, ServedProgram
<1>6. /\ inbox'[w] = <<>> /\ inbox[w] \in Seq(Upd) /\ log[w] \in Seq(Seq(Upd))
      /\ cleared' = cleared \cup Range(inbox[w])
      /\ \A v \in Workers : v # w => inbox'[v] = inbox[v]
  BY Zenon, <1>1, <1>2, <1>3 DEF IoTypeInv
<1>7. IoTypeInv'
  <2>1. <<>> \in Seq(Upd)
    BY Zenon, EmptySeq
  <2>2. inbox' \in [Workers -> Seq(Upd)]
    BY Zenon, <1>1, <1>2, <2>1 DEF IoTypeInv
  <2> QED
    BY Zenon, <1>1, <1>2, <1>5, <2>2 DEF IoTypeInv
<1>8. \A u : u \in Undelivered' <=> u \in Undelivered
  <2>1. Range(Part(p, w)) = {}
    <3> DEFINE vals == Head(todo[p]).vals
               part == [v \in Workers |-> Part(p, v)]
    <3>1. todo[p] \in Seq(ApiCalls) /\ Program(todo[p], p)
      BY Zenon, <1>2 DEF IoTypeInv, Programs, ProgramInv
    <3>2. vals = <<>> /\ Division(Upd, vals, part)
      BY Zenon, <1>1, <1>2, <3>1, CallFacts, PartDivides
    <3>3. part[w] = Part(p, w)
      BY Zenon
    <3> HIDE DEF vals, part
    <3>4. \A i \in DOMAIN part[w] : part[w][i] \in Range(vals)
      BY Zenon, <3>2 DEF Division
    <3>5. Range(vals) = {}
      BY Zenon, <3>2, EmptySeq
    <3> QED
      BY Zenon, <3>3, <3>4, <3>5 DEF Range
  <2> QED
    BY Zenon, <1>1, <1>2, <1>4, <1>7, <2>1, ServedUndelivered DEF OnlyFor
<1> DEFINE l == Len(log[w]) + 1
<1>9. /\ l \in Nat /\ DOMAIN Stream(w) = 1 .. l /\ DOMAIN Stream(w)' = 1 .. l /\ l \in 1 .. l
      /\ Stream(w)[l] = inbox[w] /\ Stream(w)'[l] = <<>>
      /\ \A c \in 1 .. l : c # l => Stream(w)'[c] = Stream(w)[c]
  <2>1. Appended(log[w], inbox[w], Stream(w))
    BY Zenon, <1>6, AppendFacts DEF Stream
  <2>2. Appended(log[w], <<>>, Stream(w)')
    <3>1. Stream(w)' = Append(log[w], <<>>)
      BY Zenon, <1>2, <1>6 DEF Stream
    <3>2. <<>> \in Seq(Upd)
      BY Zenon, EmptySeq
    <3> QED
      BY Zenon, <1>6, <3>1, <3>2, AppendFacts
  <2> QED
    BY Zenon, <2>1, <2>2 DEF Appended
<1> HIDE DEF l
<1>10. ASSUME NEW v, NEW c, NEW i, NEW u
       PROVE  Holds(v, c, i, u)' <=> Holds(v, c, i, u) /\ ~(v = w /\ c = l)
  <2>1. CASE v # w
    BY Zenon, <1>2, <1>6, <2>1 DEF Holds, Stream
  <2>2. CASE v = w /\ c # l
    BY Zenon, <1>9, <2>2 DEF Holds
  <2>3. CASE v = w /\ c = l
    <3>1. ~Holds(v, c, i, u)'
      BY Zenon, <1>9, <2>3, EmptySeq DEF Holds
    <3> QED
      BY Zenon, <2>3, <3>1
  <2> QED
    BY Zenon, <2>1, <2>2, <2>3
<1>11. \A u : u \in Range(inbox[w]) <=> \E i : Holds(w, l, i, u)
  BY Zenon, <1>9 DEF Holds, Range
<1>12. \A x, y : SameKey(x, y)' <=> SameKey(x, y)
  BY Zenon DEF SameKey
<1>13. PlacesInv'
  <2>1. /\ \A v, c, i, u : Holds(v, c, i, u) =>
             /\ u \in Updates /\ u \notin Undelivered \cup cleared
             /\ scenario.upsert => hash[u.key] % nworkers = v
        /\ \A v, x, c, d, i, j, u :
             Holds(v, c, i, u) /\ Holds(x, d, j, u) => v = x /\ c = d /\ i = j
        /\ \A u \in Updates : u \notin Undelivered \cup cleared => \E v, c, i : Holds(v, c, i, u)
    BY Zenon, <1>2 DEF PlacesInv
  <2>2. ASSUME NEW v, NEW c, NEW i, NEW u, Holds(v, c, i, u)'
        PROVE  /\ u \in Updates' /\ u \notin (Undelivered \cup cleared)'
               /\ scenario'.upsert => hash[u.key] % nworkers = v
    <3>1. Holds(v, c, i, u) /\ ~(v = w /\ c = l)
      BY Zenon, <1>10, <2>2
    <3>2. u \notin Range(inbox[w])
      BY Zenon, <1>11, <2>1, <3>1
    <3>3. /\ u \in Updates /\ u \notin Undelivered /\ u \notin cleared
          /\ scenario.upsert => hash[u.key] % nworkers = v
      BY Zenon, <2>1, <3>1
    <3>4. u \notin (Undelivered \cup cleared)'
      BY Zenon, <1>6, <1>8, <3>2, <3>3
    <3> QED
      BY Zenon, <1>2, <1>5, <3>3, <3>4
  <2>3. ASSUME NEW u \in Updates', u \notin (Undelivered \cup cleared)'
        PROVE  \E v, c, i : Holds(v, c, i, u)'
    <3>1. u \in Updates /\ u \notin Undelivered \cup cleared /\ u \notin Range(inbox[w])
      BY Zenon, <1>5, <1>6, <1>8, <2>3
    <3>2. PICK v, c, i : Holds(v, c, i, u)
      BY Zenon, <2>1, <3>1
    <3>3. ~(v = w /\ c = l)
      BY Zenon, <1>11, <3>1, <3>2
    <3> QED
      BY Zenon, <1>10, <3>2, <3>3
  <2>4. Undelivered' \cap (cleared \cup before)' = {}
    BY Zenon, <1>1, <1>2, <1>6, <1>8, <1>11, <2>1 DEF PlacesInv
  <2>5. ASSUME scenario'.upsert, NEW v, NEW c, NEW d, NEW i, NEW j, NEW x, NEW y,
               Holds(v, c, i, x)', Holds(v, d, j, y)', SameKey(x, y), x.id < y.id
        PROVE  c < d \/ (c = d /\ i < j)
    <3>1. Holds(v, c, i, x) /\ Holds(v, d, j, y)
      BY Zenon, <1>10, <2>5
    <3> QED
      BY Zenon, <1>2, <2>5, <3>1 DEF PlacesInv
  <2>6. ASSUME scenario'.upsert, NEW v, NEW c, NEW i, NEW x, NEW y \in Undelivered',
               Holds(v, c, i, x)', SameKey(x, y)
        PROVE  x.id < y.id
    BY Zenon, <1>2, <1>8, <1>10, <2>6 DEF PlacesInv
  <2>7. ASSUME NEW v, NEW x, NEW c, NEW d, NEW i, NEW j, NEW u, Holds(v, c, i, u)', Holds(x, d, j, u)'
        PROVE  v = x /\ c = d /\ i = j
    <3>1. Holds(v, c, i, u) /\ Holds(x, d, j, u)
      BY Zenon, <1>10, <2>7
    <3> QED
      BY Zenon, <1>2, <3>1, OnePlace
  <2>8. \A v, x, c, d, i, j, u :
          Holds(v, c, i, u)' /\ Holds(x, d, j, u)' => v = x /\ c = d /\ i = j
    BY Zenon, <2>7
  <2> QED
    BY ZenonT(30), <1>12, <2>2, <2>3, <2>4, <2>5, <2>6, <2>8 DEF PlacesInv
<1>14. ASSUME NEW v \in Workers PROVE CycleInv(v)'
  <2>1. Range(inbox'[v]) \subseteq Range(inbox[v]) \cup Undelivered
    <3>1. Range(<<>>) = {}
      BY Zenon, EmptySeq
    <3> QED
      BY Zenon, <1>6, <3>1
  <2> QED
    BY Zenon, <1>1, <2>1, ProducerCycles
<1> QED
  BY Zenon, <1>5, <1>7, <1>13, <1>14 DEF IoInv

-----------------------------------------------------------------------------
LEMMA IoInitInv ==
    ASSUME Ranked, IoInit PROVE IoInv /\ before \subseteq Updates
<1>1. HandleInv /\ scenario \in Scenarios
  BY Zenon, HandleInit DEF IoInit, Init
<1>2. /\ scenario.calls \in Seq(Seq(ApiCalls)) /\ Producers = DOMAIN scenario.calls
      /\ \A p \in Producers : Program(scenario.calls[p], p)
  BY Zenon, <1>1, HandlesAssumption DEF Producers
<1>3. /\ todo \in [Producers -> Seq(ApiCalls)] /\ todo = scenario.calls
      /\ \A p \in Producers : at[p] = 0
  <2>1. \A c \in Seq(Seq(ApiCalls)) : c \in [DOMAIN c -> Seq(ApiCalls)]
    <3> SUFFICES ASSUME NEW c \in Seq(Seq(ApiCalls)) PROVE c \in [DOMAIN c -> Seq(ApiCalls)]
      BY Zenon
    <3>1. \A p \in DOMAIN c : c[p] \in Seq(ApiCalls)
      BY Zenon, ElementType
    <3>2. c = [p \in DOMAIN c |-> c[p]]
      OBVIOUS
    <3> QED
      BY Zenon, <3>1, <3>2
  <2> QED
    BY Zenon, <1>2, <2>1 DEF IoInit
<1>4. IoTypeInv
  <2>1. <<>> \in Seq(Upd) /\ <<>> \in Seq(Seq(Upd)) /\ 0 \in Workers /\ 0 \in Nat
    BY Zenon, EmptySeq, WorkerNumbers
  <2> QED
    BY Zenon, <1>1, <1>3, <2>1 DEF IoInit, IoTypeInv
<1>5. ASSUME NEW p \in Producers PROVE ProgramInv(p)
  <2>1. Program(todo[p], p) /\ Values(todo[p]) \subseteq Updates
    BY Zenon, <1>2, <1>3 DEF Updates
  <2> QED
    BY Zenon, <1>3, <2>1 DEF ProgramInv
<1>6. ASSUME NEW w, NEW c, NEW i, NEW u PROVE ~Holds(w, c, i, u)
  <2> SUFFICES ASSUME w \in Workers, c \in DOMAIN Stream(w), i \in DOMAIN Stream(w)[c] PROVE FALSE
    BY Zenon DEF Holds
  <2>1. Stream(w) = Append(<<>>, <<>>)
    BY Zenon DEF IoInit, Stream
  <2>2. Appended(<<>>, <<>>, Stream(w))
    <3>1. \A S : <<>> \in Seq(S)
      BY Zenon, EmptySeq
    <3> QED
      BY Zenon, <2>1, <3>1, AppendFacts
  <2>3. Stream(w)[c] = <<>>
    BY Zenon, <2>2, EmptySeq DEF Appended
  <2> QED
    BY Zenon, <2>3, EmptySeq
<1>7. Updates \subseteq Undelivered
  <2> SUFFICES ASSUME NEW u \in Updates PROVE u \in Undelivered
    BY Zenon
  <2>1. PICK p \in Producers : u \in Values(todo[p])
    BY Zenon, <1>3 DEF Updates
  <2>2. todo[p] # <<>>
    BY Zenon, <2>1, EmptySeq DEF Values
  <2>3. Rest(p) = Values(todo[p])
    BY Zenon, <1>3, <1>4, <1>5, <2>2, RestAtStart DEF AllAtStart
  <2> QED
    BY Zenon, <2>1, <2>2, <2>3, UndeliveredIs
<1>8. cleared = {} /\ before = {}
  BY Zenon DEF IoInit
<1>9. PlacesInv
  BY Zenon, <1>6, <1>7, <1>8 DEF PlacesInv
<1>10. ASSUME NEW w \in Workers PROVE CycleInv(w)
  <2>1. steps[w] = 0 /\ pc[w] = "build" /\ round[w] = "start" /\ log[w] = <<>> /\ inbox[w] = <<>>
    BY Zenon DEF IoInit, Init
  <2>2. ~Stepping(w) /\ Written(w) = 0 /\ Len(log[w]) = 0 /\ Range(inbox[w]) = {}
    BY Zenon, <2>1, EmptySeq DEF Stepping, Written
  <2>3. ~(Written(w) > 0)
    BY <2>2
  <2> QED
    BY Zenon, <2>1, <2>2, <2>3 DEF CycleInv
<1> QED
  BY Zenon, <1>1, <1>4, <1>5, <1>8, <1>9, <1>10 DEF IoInv, Programs

LEMMA IoNextInv ==
    ASSUME Ranked, IoInv, before \subseteq Updates, IoNext \/ UNCHANGED ioVars
    PROVE  IoInv' /\ (before \subseteq Updates)'
<1>1. [Next]_vars /\ HandleInv'
  BY Zenon, IoNextNext, HandleNext DEF IoInv
<1>2. scenario' = scenario
  BY Zenon, <1>1, StepKind DEF IoInv
<1>3. Updates' = Updates
  BY Zenon, <1>2 DEF Updates, Producers
<1>4. CASE Circuit
  BY Zenon, <1>1, <1>3, <1>4, CircuitStep DEF Circuit
<1>5. ASSUME NEW w \in Workers, input_eval(w) \/ output_eval(w) \/ take_from_worker(w)
      PROVE  IoInv' /\ (before \subseteq Updates)'
  <2>1. before' = before
    BY Zenon, <1>5 DEF input_eval, output_eval, take_from_worker
  <2> QED
    BY Zenon, <1>1, <1>3, <1>5, <2>1, InputEvalStep, OutputEvalStep, TakeStep
<1>6. ASSUME NEW p \in Producers, push(p) \/ append(p) \/ clear_input(p)
      PROVE  IoInv' /\ (before \subseteq Updates)'
  <2>1. before' = before
    BY Zenon, <1>6 DEF push, append, clear_input
  <2> QED
    BY Zenon, <1>1, <1>3, <1>6, <2>1, PushStep, AppendStep, ClearStep
<1>7. CASE UNCHANGED ioVars
  <2>1. UNCHANGED <<scenario, hpc, runtime, cycles, pc, steps, todo, at, next_worker, cleared,
                    inbox, outbox, round, log, before, read>>
    BY Zenon, <1>7 DEF ioVars, vars, call, threads, io, producers
  <2>2. /\ Producers' = Producers /\ Undelivered' = Undelivered
        /\ Programs'
    BY Zenon, <2>1, SameProgram DEF IoInv
  <2>3. IoTypeInv'
    BY Zenon, <2>1, <2>2 DEF IoInv, IoTypeInv
  <2>4. PlacesInv'
    <3>1. SamePlaces
      BY Zenon, <2>1 DEF Holds, Stream, SamePlaces
    <3>2. PlacesInv /\ Undelivered \cap before' = {}
      BY Zenon, <2>1 DEF IoInv, PlacesInv
    <3> QED
      BY Zenon, <1>3, <2>1, <2>2, <3>1, <3>2, PlacesKept
  <2>5. ASSUME NEW w \in Workers PROVE CycleInv(w)'
    <3>1. UNCHANGED <<vars, outbox, round, log, before, read>>
      BY Zenon, <1>7 DEF ioVars, io
    <3> QED
      BY Zenon, <2>1, <3>1, ProducerCycles
  <2> QED
    BY Zenon, <1>1, <1>3, <2>1, <2>2, <2>3, <2>4, <2>5 DEF IoInv
<1> QED
  BY Zenon, <1>4, <1>5, <1>6, <1>7 DEF IoNext, IoWorker

-----------------------------------------------------------------------------
(* FiniteSetTheorems is instantiated only here: the obligations above do not *)
(* carry its statements.                                                     *)
INSTANCE FiniteSetTheorems

(* Any subset of 1 .. n is enumerated by the ranks of its members. *)
LEMMA Ranks == Ranked
<1> SUFFICES ASSUME NEW n \in Nat, NEW mine \in SUBSET (1 .. n)
             PROVE  /\ Cardinality(mine) \in Nat
                    /\ \A j \in mine : Rank(mine, j) \in 1 .. Cardinality(mine)
                    /\ \A i, j \in mine : i < j => Rank(mine, i) < Rank(mine, j)
                    /\ \A i \in 1 .. Cardinality(mine) : \E j \in mine : Rank(mine, j) = i
  BY Zenon DEF Ranked
<1> DEFINE upto(j) == {k \in mine : k <= j}
           C == Cardinality(mine)
<1>0. \A k \in mine : k \in Int
  OBVIOUS
<1>1. IsFiniteSet(mine) /\ C \in Nat
  <2>1. IsFiniteSet(1 .. n)
    BY FS_Interval
  <2> QED
    BY Zenon, <2>1, FS_Subset, FS_CardinalityType
<1>2. ASSUME NEW j \in mine
      PROVE  IsFiniteSet(upto(j)) /\ Cardinality(upto(j)) \in 1 .. C
  <2>1. upto(j) \in SUBSET mine /\ j \in upto(j)
    OBVIOUS
  <2>2. IsFiniteSet(upto(j)) /\ Cardinality(upto(j)) <= C
    BY Zenon, <1>1, <2>1, FS_Subset
  <2>3. Cardinality(upto(j)) \in Nat /\ Cardinality(upto(j)) # 0
    BY Zenon, <2>1, <2>2, FS_CardinalityType, FS_EmptySet
  <2> QED
    BY <1>1, <2>2, <2>3
<1>3. ASSUME NEW i \in mine, NEW j \in mine, i < j
      PROVE  Cardinality(upto(i)) < Cardinality(upto(j))
  <2>1. upto(i) \in SUBSET upto(j)
    <3>1. ASSUME NEW k \in mine, k <= i PROVE k <= j
      <4>1. k \in Int /\ i \in Int /\ j \in Int
        BY Zenon, <1>0
      <4> QED
        BY <1>3, <3>1, <4>1
    <3> QED
      BY Zenon, <3>1
  <2>2. j \in upto(j) /\ j \notin upto(i)
    BY <1>0, <1>3
  <2>3. /\ Cardinality(upto(i)) <= Cardinality(upto(j))
        /\ Cardinality(upto(j)) = Cardinality(upto(i)) => upto(j) = upto(i)
    BY Zenon, <1>2, <2>1, FS_Subset
  <2>4. Cardinality(upto(i)) \in Int /\ Cardinality(upto(j)) \in Int
    BY <1>2
  <2> QED
    BY SMTT(30), <2>2, <2>3, <2>4
<1>4. ASSUME NEW i \in 1 .. C PROVE \E j \in mine : Cardinality(upto(j)) = i
  <2> DEFINE f == [j \in mine |-> Cardinality(upto(j))]
  <2>1. f \in [mine -> 1 .. C]
    BY Zenon, <1>2
  <2>2. ASSUME NEW x \in mine, NEW y \in mine, f[x] = f[y] PROVE x = y
    <3> SUFFICES ASSUME x # y PROVE FALSE
      BY Zenon
    <3>1. x < y \/ y < x
      OBVIOUS
    <3>2. f[x] < f[y] \/ f[y] < f[x]
      BY Zenon, <1>3, <3>1
    <3> HIDE DEF f
    <3> QED
      BY <1>1, <2>1, <2>2, <3>2
  <2> HIDE DEF f
  <2>3. f \in Injection(mine, 1 .. C)
    BY Zenon, <2>1, <2>2 DEF Injection, IsInjective
  <2>4. IsFiniteSet(1 .. C) /\ Cardinality(1 .. C) = C
    BY <1>1, FS_Interval
  <2>5. f \in Surjection(mine, 1 .. C)
    BY Zenon, <2>3, <2>4, FS_Injection
  <2>6. PICK j \in mine : f[j] = i
    BY Zenon, <2>5 DEF Surjection
  <2> QED
    BY Zenon, <2>6 DEF f
<1> QED
  BY Zenon, <1>1, <1>2, <1>3, <1>4 DEF Rank

LEMMA IoInvariant == IoSpec => [](IoInv /\ before \subseteq Updates)
<1>1. IoInit => IoInv /\ before \subseteq Updates
  BY Zenon, IoInitInv, Ranks
<1>2. IoInv /\ before \subseteq Updates /\ [IoNext]_ioVars => IoInv' /\ (before \subseteq Updates)'
  BY Zenon, IoNextInv, Ranks
<1> QED
  BY <1>1, <1>2, PTL DEF IoSpec

(* For any number of workers, any program of the producers and any cycles  *)
(* run meanwhile, an update put in a mailbox is taken by one worker in one *)
(* cycle unless it was cleared, and upserts of a key by one producer reach *)
(* one worker in the order of its calls.                                   *)
THEOREM InputsDeliveredOnce == IoSpec => []InputsOnce
<1>1. IoInv => InputsOnce
  <2> SUFFICES ASSUME IoInv PROVE InputsOnce
    BY Zenon
  <2>0. PlacesInv /\ IoTypeInv
    BY Zenon DEF IoInv
  <2>1. ASSUME NEW u \in Updates
        PROVE  (\E w \in Workers : \E c \in DOMAIN Stream(w) : u \in Range(Stream(w)[c]))
                 <=> u \notin Undelivered \cup cleared
    <3>1. (\E w \in Workers : \E c \in DOMAIN Stream(w) : u \in Range(Stream(w)[c]))
            <=> \E w, c, i : Holds(w, c, i, u)
      BY Zenon DEF Holds, Range
    <3> QED
      BY Zenon, <2>0, <3>1 DEF PlacesInv
  <2>2. ASSUME NEW v \in Workers, NEW w \in Workers,
               NEW c \in DOMAIN Stream(v), NEW d \in DOMAIN Stream(w),
               NEW i \in DOMAIN Stream(v)[c], NEW j \in DOMAIN Stream(w)[d]
        PROVE  LET x == Stream(v)[c][i]
                   y == Stream(w)[d][j]
               IN  /\ x = y => v = w /\ c = d /\ i = j
                   /\ scenario.upsert /\ x.key = y.key /\ x.by = y.by /\ x.id < y.id
                        => v = w /\ (c < d \/ (c = d /\ i < j))
    <3> DEFINE x == Stream(v)[c][i]
               y == Stream(w)[d][j]
    <3>1. Holds(v, c, i, x) /\ Holds(w, d, j, y)
      BY Zenon DEF Holds
    <3> HIDE DEF x, y
    <3>2. ASSUME x = y PROVE v = w /\ c = d /\ i = j
      <4>1. Holds(v, c, i, x) /\ Holds(w, d, j, x)
        BY Zenon, <3>1, <3>2
      <4> QED
        BY Zenon, <2>0, <4>1, OnePlace
    <3>3. ASSUME scenario.upsert, SameKey(x, y), x.id < y.id
          PROVE  v = w /\ (c < d \/ (c = d /\ i < j))
      <4>1. v = w
        <5>1. hash[x.key] % nworkers = v /\ hash[y.key] % nworkers = w
          BY Zenon, <2>0, <3>1, <3>3 DEF PlacesInv
        <5> QED
          BY Zenon, <3>3, <5>1 DEF SameKey
      <4> QED
        BY Zenon, <2>0, <3>1, <3>3, <4>1 DEF PlacesInv
    <3> QED
      BY Zenon, <3>2, <3>3 DEF SameKey, x, y
  <2> QED
    BY <2>1, <2>2, Zenon DEF InputsOnce
<1> QED
  BY <1>1, IoInvariant, PTL

(* A step() that returned Ok has put every update of an earlier call       *)
(* through the circuit, and left in every output mailbox the value of its  *)
(* own cycle, unless a client has taken it.                                *)
THEOREM StepsSeeInputs == IoSpec => []StepSeesInputs
<1>1. IoInv /\ before \subseteq Updates => StepSeesInputs
  <2> SUFFICES ASSUME IoInv, before \subseteq Updates, hpc = "idle", runtime
               PROVE  /\ \A u \in before \ cleared :
                           \E w \in Workers : \E c \in DOMAIN log[w] : u \in Range(log[w][c])
                      /\ cycles > 0 => \A w \in Workers :
                           IF outbox[w] = <<>> THEN read[w] = cycles
                           ELSE outbox[w] = <<[cycle |-> cycles, vals |-> Applied(log[w][cycles])]>>
    BY Zenon DEF StepSeesInputs
  <2>1. ASSUME NEW w \in Workers
        PROVE  /\ Calm /\ ~Stepping(w) /\ ~Dead(w) /\ steps[w] = cycles /\ cycles \in Nat
               /\ CycleInv(w) /\ Written(w) = cycles /\ Len(log[w]) = cycles
    <3>1. Calm /\ Idle(w) /\ cycles \in Nat /\ CycleInv(w)
      BY Zenon DEF IoInv, HandleInv, TypeInv, Phases, Calm
    <3>2. ~Stepping(w) /\ ~Dead(w) /\ steps[w] = cycles
      BY Zenon, <3>1 DEF Idle, Waiting, Stepping, Dead
    <3>3. Written(w) = cycles /\ Len(log[w]) = cycles
      BY Zenon, <3>1, <3>2 DEF Written, CycleInv
    <3> QED
      BY Zenon, <3>1, <3>2, <3>3
  <2>2. ASSUME NEW u \in before \ cleared
        PROVE  \E w \in Workers : \E c \in DOMAIN log[w] : u \in Range(log[w][c])
    <3>1. PICK w, c, i : Holds(w, c, i, u)
      BY Zenon DEF IoInv, PlacesInv
    <3>2. w \in Workers /\ c \in DOMAIN Stream(w) /\ u \in Range(Stream(w)[c])
      BY Zenon, <3>1 DEF Holds, Range
    <3>3. log[w] \in Seq(Seq(Upd)) /\ inbox[w] \in Seq(Upd)
      BY Zenon, <3>2 DEF IoInv, IoTypeInv
    <3>4. \/ c \in DOMAIN log[w] /\ Stream(w)[c] = log[w][c]
          \/ Stream(w)[c] = inbox[w]
      <4>1. Appended(log[w], inbox[w], Stream(w))
        BY Zenon, <3>3, AppendFacts DEF Stream
      <4> QED
        BY Zenon, <3>2, <4>1 DEF Appended
    <3>5. Stream(w)[c] # inbox[w]
      <4> SUFFICES ASSUME u \in Range(inbox[w]) PROVE FALSE
        BY Zenon, <3>2
      <4>1. Len(log[w]) < cycles
        BY Zenon, <2>1, <3>2 DEF CycleInv
      <4>2. Len(log[w]) = cycles /\ cycles \in Nat
        BY Zenon, <2>1, <3>2
      <4> QED
        BY Zenon, <4>1, <4>2, Numbers
    <3> QED
      BY Zenon, <3>2, <3>4, <3>5
  <2>3. ASSUME cycles > 0, NEW w \in Workers
        PROVE  IF outbox[w] = <<>> THEN read[w] = cycles
               ELSE outbox[w] = <<[cycle |-> cycles, vals |-> Applied(log[w][cycles])]>>
    BY Zenon, <2>1, <2>3 DEF CycleInv
  <2> QED
    BY Zenon, <2>2, <2>3
<1> QED
  BY <1>1, IoInvariant, PTL
=============================================================================
