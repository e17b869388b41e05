---------------------------- MODULE GatherProofs ----------------------------
(***************************************************************************)
(* Proofs about Gather, for any number of workers, any receiver and any    *)
(* number of cycles: in circuits driven by a DBSPHandle no assertion of    *)
(* gather.rs fails and every gather is complete.                           *)
(***************************************************************************)
EXTENDS Gather, TLAPS

Positions == {"build", "idle", "push", "valid", "notify", "consume", "pop"}

(* The worker is within a clock cycle. *)
Active(w) == pc[w] \in {"push", "valid", "notify", "consume", "pop"}

Received == step[receiver_worker]

(* The batches that w has made available so far, and those that the        *)
(* receiver has taken from its channel.                                    *)
Pushed(w) == IF pc[w] \in {"notify", "consume", "pop"} THEN step[w] + 1 ELSE step[w]
Popped(w) == IF w < Len(gathered) THEN Received + 1 ELSE Received

TypeInv ==
    /\ pc \in [Workers -> Positions]
    /\ step \in [Workers -> Nat]
    /\ is_valid \in [Workers -> BOOLEAN]
    /\ values \in [Workers -> Nat]
    /\ gathered \in Seq(Nat)
    /\ Len(gathered) <= nworkers
    /\ notify \in BOOLEAN
    /\ notified \in BOOLEAN

(* No worker is in a cycle that another one has not reached, and none      *)
(* starts before all circuits are built.                                   *)
InStep ==
    \A w, v \in Workers :
        /\ step[w] <= step[v] + 1
        /\ Active(w) => step[w] <= step[v] /\ pc[v] # "build"

(* Only the receiver pops, and it pops full channels. *)
Popping ==
    /\ \A w \in Workers : pc[w] = "pop" =>
           /\ w = receiver_worker
           /\ \A v \in Workers : v >= Len(gathered) => is_valid[v]
    /\ pc[receiver_worker] # "pop" => Len(gathered) = 0
    /\ notify <=> pc[receiver_worker] # "build"

(* A channel holds a batch exactly when one more was pushed than popped,   *)
(* and then it is the batch of the receiver's cycle.                       *)
Channels ==
    \A w \in Workers :
        /\ is_valid[w] => Pushed(w) = Popped(w) + 1 /\ values[w] = Received
        /\ ~is_valid[w] => Pushed(w) = Popped(w)
        /\ pc[w] = "valid" => values[w] = step[w]

GatherInv == TypeInv /\ InStep /\ Popping /\ Channels /\ GatherComplete

LEMMA InitInv == Init => GatherInv
  BY NWorkersAssumption, ReceiverAssumption, MaxStepsAssumption
  DEF Init, GatherInv, TypeInv, Positions, InStep, Popping, Channels, GatherComplete, Active,
      Pushed, Popped, Received, Workers

(* In a cycle, before its own push, a worker's channel is empty. *)
LEMMA EmptyBeforePush ==
    ASSUME GatherInv, NEW w \in Workers, pc[w] \in {"push", "valid"}
    PROVE  ~is_valid[w] /\ step[w] = Received /\ w >= Len(gathered)
  <1>1. receiver_worker \in Workers /\ Len(gathered) \in Nat /\ w \in Nat
    BY NWorkersAssumption, ReceiverAssumption DEF Workers, GatherInv, TypeInv
  <1>2. step[w] <= Received /\ step[w] \in Nat /\ Received \in Nat
    BY Zenon, <1>1 DEF GatherInv, InStep, Active, Received, TypeInv
  <1>3. Pushed(w) = step[w]
    BY Zenon DEF Pushed
  <1>. QED  BY <1>1, <1>2, <1>3 DEF GatherInv, Channels, Popped

(* Every step of every worker keeps the invariant. *)
LEMMA GatherStep ==
    ASSUME LockStep, GatherInv, NEW w \in Workers, Worker(w)
    PROVE  GatherInv'
  <1>0. /\ receiver_worker \in Workers /\ nworkers \in Nat
        /\ \A v \in Workers : v \in Nat /\ v < nworkers
    BY NWorkersAssumption, ReceiverAssumption DEF Workers
  <1>. USE DEF Goto
  <1>1. CASE register_ready_callback(w)
    <2>1. TypeInv'
      BY Zenon, <1>1 DEF register_ready_callback, GatherInv, TypeInv, Positions
    <2>2. InStep'
      BY Zenon, <1>1 DEF register_ready_callback, GatherInv, TypeInv, InStep, Active
    <2>3. Popping'
      BY Zenon, <1>0, <1>1 DEF register_ready_callback, GatherInv, TypeInv, Popping
    <2>4. Channels' /\ GatherComplete'
      BY Zenon, <1>0, <1>1 DEF register_ready_callback, GatherInv, TypeInv, Channels, GatherComplete,
         Pushed, Popped, Received
    <2>. QED  BY Zenon, <2>1, <2>2, <2>3, <2>4 DEF GatherInv
  <1>2. CASE StepStart(w)
    <2>1. TypeInv'
      BY Zenon, <1>2 DEF StepStart, GatherInv, TypeInv, Positions
    <2>2. InStep'
      BY Zenon, <1>2 DEF StepStart, MayStart, GatherInv, TypeInv, InStep, Active
    <2>3. Popping'
      BY Zenon, <1>0, <1>2 DEF StepStart, GatherInv, TypeInv, Popping
    <2>4. Channels' /\ GatherComplete'
      BY Zenon, <1>0, <1>2 DEF StepStart, GatherInv, TypeInv, Channels, GatherComplete,
         Pushed, Popped, Received
    <2>. QED  BY Zenon, <2>1, <2>2, <2>3, <2>4 DEF GatherInv
  <1>3. CASE PushValue(w)
    <2>0. ~is_valid[w] /\ step[w] = Received
      BY Zenon, <1>3, EmptyBeforePush DEF PushValue
    <2>1. TypeInv'
      BY Zenon, <1>3, <2>0 DEF PushValue, GatherInv, TypeInv, Positions
    <2>2. InStep'
      BY Zenon, <1>3, <2>0 DEF PushValue, GatherInv, TypeInv, InStep, Active
    <2>3. Popping'
      BY Zenon, <1>0, <1>3, <2>0 DEF PushValue, GatherInv, TypeInv, Popping
    <2>4. Channels' /\ GatherComplete'
      BY Zenon, <1>0, <1>3, <2>0 DEF PushValue, GatherInv, TypeInv, Channels, GatherComplete,
         Pushed, Popped, Received
    <2>. QED  BY Zenon, <2>1, <2>2, <2>3, <2>4 DEF GatherInv
  <1>4. CASE PushValid(w)
    <2>0. ~is_valid[w] /\ step[w] = Received /\ w >= Len(gathered) /\ Len(gathered) \in Nat
      BY <1>4, EmptyBeforePush DEF PushValid, GatherInv, TypeInv
    <2>1. TypeInv'
      BY Zenon, <1>4 DEF PushValid, GatherInv, TypeInv, Positions
    <2>2. InStep'
      BY Zenon, <1>4 DEF PushValid, GatherInv, TypeInv, InStep, Active
    <2>3. Popping'
      BY Zenon, <1>0, <1>4 DEF PushValid, GatherInv, TypeInv, Popping
    <2>4. Channels' /\ GatherComplete'
      BY Zenon, <1>0, <1>4, <2>0 DEF PushValid, GatherInv, TypeInv, Channels, GatherComplete,
         Pushed, Popped, Received
    <2>. QED  BY Zenon, <2>1, <2>2, <2>3, <2>4 DEF GatherInv
  <1>5. CASE PushNotify(w)
    <2>0. notify
      BY Zenon, <1>0, <1>5 DEF PushNotify, GatherInv, InStep, Popping, Active
    <2>1. TypeInv'
      BY Zenon, <1>5, <2>0 DEF PushNotify, GatherInv, TypeInv, Positions
    <2>2. InStep'
      BY Zenon, <1>5, <2>0 DEF PushNotify, GatherInv, TypeInv, InStep, Active
    <2>3. Popping'
      BY Zenon, <1>0, <1>5, <2>0 DEF PushNotify, GatherInv, TypeInv, Popping
    <2>4. Channels' /\ GatherComplete'
      BY Zenon, <1>0, <1>5, <2>0 DEF PushNotify, GatherInv, TypeInv, Channels, GatherComplete,
         Pushed, Popped, Received
    <2>. QED  BY Zenon, <2>1, <2>2, <2>3, <2>4 DEF GatherInv
  <1>6. CASE process_notifications(w)
    <2>1. TypeInv'
      BY Zenon, <1>6 DEF process_notifications, GatherInv, TypeInv, Positions
    <2>2. InStep'
      BY Zenon, <1>6 DEF process_notifications, GatherInv, TypeInv, InStep, Active
    <2>3. Popping'
      BY Zenon, <1>0, <1>6 DEF process_notifications, all_channels_ready, GatherInv, TypeInv, Popping
    <2>4. Channels' /\ GatherComplete'
      BY Zenon, <1>0, <1>6 DEF process_notifications, GatherInv, TypeInv, Channels, GatherComplete,
         Pushed, Popped, Received
    <2>. QED  BY Zenon, <2>1, <2>2, <2>3, <2>4 DEF GatherInv
  <1>7. CASE pop(w)
    <2>. DEFINE k == Len(gathered)
    <2>0. /\ k \in Nat /\ k < nworkers /\ k \in Workers /\ w = receiver_worker
          /\ pc[w] = "pop" /\ gathered \in Seq(Nat)
      <3>1. pc[w] = "pop" /\ k < nworkers
        BY Zenon, <1>7 DEF pop
      <3>2. k \in Nat /\ gathered \in Seq(Nat)
        BY DEF GatherInv, TypeInv
      <3>3. w = receiver_worker
        BY Zenon, <3>1 DEF GatherInv, Popping
      <3>4. k \in Workers
        BY <1>0, <3>1, <3>2 DEF Workers
      <3>. QED  BY Zenon, <3>1, <3>2, <3>3, <3>4
    <2>1. is_valid[k] /\ values[k] = Received /\ values[k] \in Nat
      BY <2>0 DEF GatherInv, TypeInv, Popping, Channels
    <2>2. /\ gathered' = Append(gathered, values[k])
          /\ is_valid' = [is_valid EXCEPT ![k] = FALSE]
          /\ UNCHANGED <<pc, step, values, notify, notified>>
      BY Zenon, <1>7, <2>1 DEF pop
    <2>3. gathered' \in Seq(Nat) /\ Len(gathered') = k + 1
      BY <2>0, <2>1, <2>2
    <2>4. TypeInv'
      BY <1>0, <2>0, <2>2, <2>3 DEF GatherInv, TypeInv
    <2>5. InStep'
      BY Zenon, <2>2 DEF GatherInv, InStep, Active
    <2>6. Popping'
      BY <1>0, <2>0, <2>2, <2>3 DEF GatherInv, TypeInv, Popping
    <2>7. Channels'
      <3>. SUFFICES ASSUME NEW v \in Workers
                    PROVE  /\ is_valid'[v] => Pushed(v)' = Popped(v)' + 1 /\ values'[v] = Received'
                           /\ ~is_valid'[v] => Pushed(v)' = Popped(v)'
                           /\ pc'[v] = "valid" => values'[v] = step'[v]
        BY Zenon DEF Channels
      <3>1. Pushed(v)' = Pushed(v) /\ Received' = Received /\ Received \in Nat
        BY Zenon, <1>0, <2>2 DEF Pushed, Received, GatherInv, TypeInv
      <3>2. CASE v = k
        <4>1. Popped(v) = Received /\ Popped(v)' = Received + 1
          BY <2>0, <2>3, <3>1, <3>2 DEF Popped
        <4>. QED  BY Zenon, <2>0, <2>1, <2>2, <3>1, <3>2, <4>1 DEF GatherInv, TypeInv, Channels
      <3>3. CASE v # k
        <4>1. Popped(v)' = Popped(v)
          BY <1>0, <2>0, <2>3, <3>1, <3>3 DEF Popped
        <4>. QED  BY Zenon, <2>0, <2>2, <3>1, <3>3, <4>1 DEF GatherInv, TypeInv, Channels
      <3>. QED  BY Zenon, <3>2, <3>3
    <2>8. GatherComplete'
      BY <1>0, <2>0, <2>1, <2>2, <2>3 DEF GatherInv, GatherComplete, Received
    <2>. QED  BY Zenon, <2>4, <2>5, <2>6, <2>7, <2>8 DEF GatherInv
  <1>8. CASE StepEnd(w)
    <2>0. /\ pc' = [pc EXCEPT ![w] = "idle"] /\ step' = [step EXCEPT ![w] = @ + 1]
          /\ UNCHANGED <<is_valid, values, notify, notified>>
          /\ pc[w] = IF w = receiver_worker THEN "pop" ELSE "consume"
          /\ w = receiver_worker => Len(gathered) = nworkers /\ gathered' = <<>>
          /\ w # receiver_worker => gathered' = gathered
      BY Zenon, <1>8 DEF StepEnd
    <2>1. TypeInv'
      <3>1. gathered' \in Seq(Nat) /\ Len(gathered') <= nworkers
        <4>1. gathered \in Seq(Nat) /\ Len(gathered) <= nworkers
          BY Zenon DEF GatherInv, TypeInv
        <4>2. <<>> \in Seq(Nat) /\ Len(<<>>) = 0
          OBVIOUS
        <4>3. CASE w = receiver_worker
          BY <1>0, <2>0, <4>2, <4>3
        <4>4. CASE w # receiver_worker
          BY Zenon, <2>0, <4>1, <4>4
        <4>. QED  BY Zenon, <4>3, <4>4
      <3>. QED  BY <2>0, <3>1 DEF GatherInv, TypeInv, Positions
    <2>2. InStep'
      BY <2>0 DEF GatherInv, TypeInv, InStep, Active
    <2>3. Popping'
      BY Zenon, <1>0, <2>0 DEF GatherInv, TypeInv, Popping
    <2>4. CASE w = receiver_worker
      <3>1. /\ Received' = Received + 1 /\ Len(gathered') = 0 /\ Received \in Nat
            /\ Len(gathered) = nworkers
        BY Zenon, <1>0, <2>0, <2>4 DEF Received, GatherInv, TypeInv
      <3>2. ASSUME NEW v \in Workers
            PROVE  /\ Pushed(v)' = Pushed(v) /\ Popped(v)' = Popped(v) /\ ~is_valid[v]
                   /\ pc'[v] = "valid" => FALSE
        <4>1. Popped(v) = Received + 1 /\ Popped(v)' = Received + 1
          BY <1>0, <3>1 DEF Popped
        <4>2. Pushed(v)' = Pushed(v) /\ Pushed(v) \in Nat
          BY <2>0, <2>4 DEF Pushed, GatherInv, TypeInv
        <4>3. Pushed(v) <= Received + 1
          BY <1>0 DEF Pushed, Received, GatherInv, TypeInv, InStep, Active
        <4>4. ~is_valid[v]
          BY <3>1, <4>1, <4>2, <4>3 DEF GatherInv, Channels
        <4>5. pc'[v] # "valid"
          <5>1. CASE v = w
            BY Zenon, <2>0, <5>1 DEF GatherInv, TypeInv
          <5>2. CASE v # w
            <6>1. pc[v] # "valid"
              BY <1>0, <3>1, EmptyBeforePush
            <6>. QED  BY Zenon, <2>0, <5>2, <6>1 DEF GatherInv, TypeInv
          <5>. QED  BY Zenon, <5>1, <5>2
        <4>. QED  BY Zenon, <4>1, <4>2, <4>4, <4>5
      <3>3. Channels'
        BY Zenon, <2>0, <3>2 DEF GatherInv, Channels
      <3>4. GatherComplete'
        BY <3>1 DEF GatherComplete
      <3>. QED  BY Zenon, <2>1, <2>2, <2>3, <3>3, <3>4 DEF GatherInv
    <2>5. CASE w # receiver_worker
      <3>1. Received' = Received
        BY Zenon, <1>0, <2>0, <2>5 DEF Received, GatherInv, TypeInv
      <3>2. \A v \in Workers : Pushed(v)' = Pushed(v) /\ Popped(v)' = Popped(v)
        BY Zenon, <1>0, <2>0, <2>5, <3>1 DEF Pushed, Popped, GatherInv, TypeInv
      <3>3. Channels'
        BY Zenon, <2>0, <3>1, <3>2 DEF GatherInv, TypeInv, Channels
      <3>4. GatherComplete'
        BY Zenon, <2>0, <2>5, <3>1 DEF GatherInv, GatherComplete, Received
      <3>. QED  BY Zenon, <2>1, <2>2, <2>3, <3>3, <3>4 DEF GatherInv
    <2>. QED  BY Zenon, <2>4, <2>5
  <1>. QED  BY Zenon, <1>1, <1>2, <1>3, <1>4, <1>5, <1>6, <1>7, <1>8 DEF Worker

LEMMA GatherInductive == ASSUME LockStep PROVE Spec => []GatherInv
  <1>1. GatherInv /\ [Next]_vars => GatherInv'
    <2>. SUFFICES ASSUME GatherInv, [Next]_vars  PROVE GatherInv'
      BY Zenon
    <2>1. CASE UNCHANGED vars
      BY Zenon, <2>1 DEF vars, GatherInv, TypeInv, InStep, Active, Popping, Channels, Pushed, Popped,
         Received, GatherComplete
    <2>. QED  BY Zenon, <2>1, GatherStep DEF Next
  <1>. QED  BY <1>1, InitInv, PTL DEF Spec

(* Any number of workers, driven in lockstep by a DBSPHandle, run any       *)
(* number of cycles without failing an assertion of gather.rs: a channel is *)
(* empty when its producer pushes, although nothing in the operator waits   *)
(* for that, and no batch is left in a channel at the end.                  *)
THEOREM GatherNeverPanics == ASSUME LockStep PROVE Spec => []NoPanic
  <1>1. GatherInv => NoPanic
    <2>. SUFFICES ASSUME GatherInv  PROVE NoPanic
      BY Zenon
    <2>1. \A w \in Workers : pc[w] # "panicked"
      BY Zenon DEF GatherInv, TypeInv, Positions
    <2>2. ASSUME Done, NEW w \in Workers  PROVE ~is_valid[w]
      <3>1. receiver_worker \in Workers /\ w \in Nat
        BY NWorkersAssumption, ReceiverAssumption DEF Workers
      <3>2. Received = MaxSteps /\ Pushed(w) = MaxSteps /\ Popped(w) = MaxSteps
        BY <2>2, <3>1 DEF Done, Received, Pushed, Popped, GatherInv, Popping
      <3>. QED  BY <3>2, MaxStepsAssumption DEF GatherInv, Channels
    <2>. QED  BY Zenon, <2>1, <2>2 DEF NoPanic
  <1>. QED  BY <1>1, GatherInductive, PTL

(* Every gather of every cycle returns the batches of that very cycle, for *)
(* any number of workers driven in lockstep.                               *)
THEOREM GathersComplete == ASSUME LockStep PROVE Spec => []GatherComplete
  <1>1. GatherInv => GatherComplete
    BY Zenon DEF GatherInv
  <1>. QED  BY <1>1, GatherInductive, PTL

=============================================================================
