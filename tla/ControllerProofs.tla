-------------------------- MODULE ControllerProofs --------------------------
(***************************************************************************)
(* Proofs about Controller, for any number of endpoints, records, calls of *)
(* the client and errors: the counters of the outputs count what the       *)
(* queues hold, and the counters of processed records never run ahead of   *)
(* the data.                                                               *)
(*                                                                         *)
(* The strengthening follows the records on their way: those an input      *)
(* probe has pushed but not yet counted, and, for every output, the sum of *)
(* what it has sent, what its queue holds and what the circuit thread has  *)
(* still to queue, with a bound on the label at every point of the queue.  *)
(***************************************************************************)
EXTENDS Controller, FiniteSetTheorems, TLAPS

Batches == [n : Nat, label : Nat]

EpStates ==
    [pc : {"check", "read", "total", "buffered", "wake_circuit", "endpoint", "wake_bp", "eoi",
           "done"},
     cmd : {"paused", "running", "disconnected"},
     left : Nat, n : Nat, last : BOOLEAN, buffered : Nat, eoi : BOOLEAN]

CircuitStates ==
    [pc : {"top", "exit", "park", "decide", "consume", "park_timeout", "consume_ep", "step",
           "processed", "output", "push"},
     token : BOOLEAN, start : BOOLEAN, todo : SUBSET (Endpoints \cup OutputEndpoints),
     cur : SUBSET OutputEndpoints, processed : Nat, batch : Nat, dead : BOOLEAN]

BpStates ==
    [pc : {"lock", "pausing", "running", "exit", "park"}, token : BOOLEAN, global_pause : BOOLEAN,
     paused_endpoints : SUBSET Endpoints, todo : SUBSET Endpoints]

OutStates ==
    [pc : {"top", "exit", "park", "encode", "release"}, token : BOOLEAN, queue : Seq(Batches),
     buffered : Int, processed : Nat, sent : Int, cur : Batches, connected : BOOLEAN,
     stats : BOOLEAN, uncounted : BOOLEAN]

InputTypes ==
    /\ inputs \subseteq Endpoints /\ stats \subseteq Endpoints
    /\ g \in [total : Nat, buffered : Nat, processed : Nat]
    /\ handle \in Nat /\ stepped \in Nat
    /\ client = [scenario |-> client.scenario, calls |-> client.calls, pc |-> client.pc]
    /\ client.scenario \in Scenarios

TypeInv ==
    /\ InputTypes
    /\ ep \in [Endpoints -> EpStates]
    /\ circuit \in CircuitStates
    /\ bp \in BpStates
    /\ out \in [OutputEndpoints -> OutStates]

(* The records that input probes have pushed but not yet counted. *)
InFlight == UNION {{e} \X (1..ep[e].n) : e \in {f \in Endpoints : ep[f].pc = "total"}}

InputsInv ==
    /\ g.total + Cardinality(InFlight) = handle + stepped
    /\ \A e \in Endpoints :
         /\ ep[e].eoi => ep[e].pc = "done"
         /\ e \notin inputs \cup stats => ep[e].pc = "check" /\ ep[e].cmd = "paused"
    /\ client.pc # "add_input" => inputs \subseteq stats
    /\ bp.pc \in {"pausing", "running"} => bp.todo \subseteq inputs

(* What the buffered counter of output o counts. *)
Pushing(o) == circuit.pc = "push" /\ o \in circuit.cur

CountInv(o) ==
    /\ out[o].pc \notin {"encode", "release"} => out[o].cur.n = 0
    /\ ~out[o].uncounted =>
         /\ out[o].stats => out[o].buffered =
              Cardinality(Records(out[o].queue)) + out[o].cur.n
              + (IF Pushing(o) THEN circuit.batch ELSE 0)
         /\ ~out[o].stats => /\ out[o].queue = <<>> /\ out[o].cur.n = 0 /\ out[o].buffered = 0
                             /\ ~Pushing(o)

(* The outputs of the last step that the circuit thread still has for o. *)
Owed(o) ==
    IF \/ circuit.pc = "processed"
       \/ circuit.pc \in {"output", "push"} /\ o \in circuit.todo
       \/ Pushing(o)
    THEN circuit.batch ELSE 0

(* sums[i] is what an output has sent when it has sent the first i batches  *)
(* of its queue: at most m, and at least what the i-th is labelled with.    *)
Labelled(queue, sums, m) ==
    /\ \A i \in 1..Len(queue) : /\ sums[i] = sums[i - 1] + queue[i].n
                                /\ queue[i].label <= sums[i]
    /\ \A i \in 0..Len(queue) : sums[i] <= m

Sums(o, sums) ==
    /\ sums[0] = out[o].sent + (IF out[o].pc = "encode" THEN out[o].cur.n ELSE 0)
    /\ Labelled(out[o].queue, sums, stepped)
    /\ sums[Len(out[o].queue)] + Owed(o) = stepped

LabelInv(o) ==
    /\ out[o].processed <= out[o].sent
    /\ out[o].pc = "encode" => out[o].cur.label <= out[o].sent + out[o].cur.n
    /\ IF out[o].connected
         THEN \E sums \in [0..Len(out[o].queue) -> Int] : Sums(o, sums)
         ELSE /\ out[o].pc = "top" /\ out[o].queue = <<>> /\ out[o].processed = 0
              /\ out[o].sent = 0

CircuitInv ==
    /\ circuit.pc = "step" => circuit.processed <= g.total
    /\ circuit.pc = "processed" => circuit.batch <= stepped
    /\ circuit.pc \in {"processed", "output", "push"} => circuit.processed <= stepped
    /\ g.processed <= stepped

LoopInv ==
    /\ circuit.pc \in {"output", "push"} => circuit.todo \subseteq Connected
    /\ circuit.pc = "push" => /\ \E o \in Connected : circuit.cur = {o}
                              /\ circuit.cur \cap circuit.todo = {}

OutputsInv ==
    /\ LoopInv
    /\ \A o \in OutputEndpoints : CountInv(o)
    /\ ~circuit.dead => CircuitInv /\ \A o \in OutputEndpoints : LabelInv(o)

ControllerInv == TypeInv /\ InputsInv /\ OutputsInv

-----------------------------------------------------------------------------
(* Counting records as pairs of a batch and a number. *)

Pairs(S, n) == UNION {{i} \X (1..n[i]) : i \in S}

(* Finitely many batches hold finitely many records. *)
LEMMA FinitePairs ==
    ASSUME NEW S, IsFiniteSet(S), NEW n \in [S -> Nat]
    PROVE  IsFiniteSet(Pairs(S, n)) /\ Cardinality(Pairs(S, n)) \in Nat
<1> DEFINE f == [i \in S |-> {i} \X (1..n[i])]
           T == {{i} \X (1..n[i]) : i \in S}
<1>1. f \in Surjection(S, T)
  BY Zenon DEF Surjection
<1>2. IsFiniteSet(T)
  BY Zenon, <1>1, FS_Surjection
<1>3. ASSUME NEW t \in T PROVE IsFiniteSet(t)
  <2>1. PICK i \in S : t = {i} \X (1..n[i])
    BY Zenon
  <2>2. IsFiniteSet({i})
    BY Zenon, FS_Singleton
  <2>3. n[i] \in Int
    OBVIOUS
  <2>4. IsFiniteSet(1..n[i])
    BY <2>3, FS_Interval
  <2> QED BY Zenon, <2>1, <2>2, <2>4, FS_Product
<1>4. IsFiniteSet(UNION T)
  BY Zenon, <1>2, <1>3, FS_UNION
<1> QED BY Zenon, <1>4, FS_CardinalityType DEF Pairs

(* Another batch adds its records. *)
LEMMA AddPairs ==
    ASSUME NEW P, IsFiniteSet(P), NEW j, NEW n \in Nat, \A k \in 1..n : <<j, k>> \notin P
    PROVE  Cardinality(P \cup ({j} \X (1..n))) = Cardinality(P) + n
<1> DEFINE Q == {j} \X (1..n)
<1>1. IsFiniteSet({j}) /\ Cardinality({j}) = 1
  BY Zenon, FS_Singleton
<1>2. IsFiniteSet(1..n) /\ Cardinality(1..n) = n
  BY FS_Interval
<1>3. IsFiniteSet(Q) /\ Cardinality(Q) = Cardinality({j}) * Cardinality(1..n)
  BY <1>1, <1>2, FS_Product, Zenon
<1>4. P \cap Q = {}
  OBVIOUS
<1>5. Cardinality(P \cup Q) = Cardinality(P) + Cardinality(Q) - Cardinality(P \cap Q)
  BY Zenon, <1>3, FS_Union
<1>6. Cardinality(P) \in Nat /\ Cardinality(P \cap Q) = 0
  BY Zenon, <1>4, FS_CardinalityType, FS_EmptySet
<1> QED BY <1>1, <1>2, <1>3, <1>5, <1>6

(* The records of a queue are finitely many; an empty queue has none. *)
LEMMA RecordsFinite ==
    ASSUME NEW q \in Seq(Batches)
    PROVE  /\ IsFiniteSet(Records(q)) /\ Cardinality(Records(q)) \in Nat
           /\ Cardinality(Records(<<>>)) = 0
<1> DEFINE f == [i \in DOMAIN q |-> q[i].n]
<1>1. IsFiniteSet(DOMAIN q)
  BY FS_Interval
<1>2. \A i \in DOMAIN q : q[i] \in Batches
  OBVIOUS
<1>5. f \in [DOMAIN q -> Nat]
  BY Zenon, <1>2 DEF Batches
<1>3. Records(q) = Pairs(DOMAIN q, f)
  BY Zenon DEF Records, Pairs
<1>4. Records(<<>>) = {}
  BY DEF Records
<1> HIDE DEF f
<1> QED BY ZenonT(30), <1>1, <1>5, <1>3, <1>4, FinitePairs, FS_EmptySet

(* Queueing a batch adds its records. *)
LEMMA RecordsAppend ==
    ASSUME NEW q \in Seq(Batches), NEW b \in Batches
    PROVE  Cardinality(Records(Append(q, b))) = Cardinality(Records(q)) + b.n
<1> DEFINE a == Append(q, b)
           j == Len(q) + 1
<1>1. DOMAIN a = 1..j /\ a[j] = b /\ \A i \in 1..Len(q) : a[i] = q[i]
  OBVIOUS
<1>2. Records(a) = Records(q) \cup ({j} \X (1..b.n))
  <2>1. DOMAIN a = (DOMAIN q) \cup {j}
    BY <1>1
  <2> HIDE DEF a
  <2> QED BY <1>1, <2>1 DEF Records
<1>3. \A k \in 1..b.n : <<j, k>> \notin Records(q)
  BY DEF Records
<1>4. b.n \in Nat
  BY Zenon DEF Batches
<1> HIDE DEF a, j
<1>5. IsFiniteSet(Records(q))
  BY Zenon, RecordsFinite
<1>6. Cardinality(Records(q) \cup ({j} \X (1..b.n))) = Cardinality(Records(q)) + b.n
  BY Zenon, <1>3, <1>4, <1>5, AddPairs
<1> QED BY Zenon, <1>2, <1>6 DEF a

LEMMA HeadTail ==
    ASSUME NEW S, NEW q \in Seq(S), q # <<>>
    PROVE  /\ Head(q) = q[1] /\ Head(q) \in S /\ Len(q) \in Nat \ {0}
           /\ Tail(q) \in Seq(S) /\ Len(Tail(q)) = Len(q) - 1
           /\ \A i \in 1..Len(Tail(q)) : Tail(q)[i] = q[i + 1]
  OBVIOUS

LEMMA Appended ==
    ASSUME NEW S, NEW q \in Seq(S), NEW b \in S
    PROVE  /\ Append(q, b) \in Seq(S) /\ Len(Append(q, b)) = Len(q) + 1
           /\ Append(q, b)[Len(q) + 1] = b
           /\ \A i \in 1..Len(q) : Append(q, b)[i] = q[i]
  OBVIOUS

(* Taking the first batch removes its records. *)
LEMMA RecordsTail ==
    ASSUME NEW q \in Seq(Batches), q # <<>>
    PROVE  Cardinality(Records(q)) = Cardinality(Records(Tail(q))) + Head(q).n
<1> DEFINE t == Tail(q)
           R == Records(q)
           H == {1} \X (1..Head(q).n)
           f == [p \in Records(t) |-> <<p[1] + 1, p[2]>>]
<1>1. /\ t \in Seq(Batches) /\ Len(t) = Len(q) - 1 /\ \A i \in 1..Len(t) : t[i] = q[i + 1]
      /\ Head(q) = q[1] /\ Head(q) \in Batches /\ Len(q) \in Nat \ {0}
  BY Zenon, HeadTail
<1>2. \A p : p \in Records(t) <=> \E i \in 1..Len(t) : \E k \in 1..t[i].n : p = <<i, k>>
  <2>1. DOMAIN t = 1..Len(t)
    BY <1>1
  <2> HIDE DEF t
  <2> QED BY <2>1 DEF Records
<1>3. \A p : p \in R <=> \E i \in 1..Len(q) : \E k \in 1..q[i].n : p = <<i, k>>
  <2>1. DOMAIN q = 1..Len(q)
    OBVIOUS
  <2> QED BY <2>1 DEF Records
<1>4. R = (R \ H) \cup H
  BY <1>1, <1>3 DEF Batches
<1>5. f \in [Records(t) -> R \ H]
  BY <1>1, <1>2, <1>3
<1>6. \A x, y \in Records(t) : f[x] = f[y] => x = y
  BY <1>1, <1>2
<1>7. ASSUME NEW r \in R \ H PROVE \E p \in Records(t) : f[p] = r
  <2>1. PICK i \in 1..Len(q) : \E k \in 1..q[i].n : r = <<i, k>>
    BY Zenon, <1>3
  <2>0. PICK k \in 1..q[i].n : r = <<i, k>>
    BY Zenon, <2>1
  <2>2. i # 1
    BY Zenon, <2>0, <1>1
  <2>3. <<i - 1, k>> \in Records(t)
    BY <2>0, <2>2, <1>1, <1>2
  <2> QED BY <2>0, <2>3
<1>8. ExistsBijection(Records(t), R \ H)
  <2> HIDE DEF f
  <2> QED BY Zenon, <1>5, <1>6, <1>7 DEF ExistsBijection, Bijection, Injection, IsInjective, Surjection
<1>9. IsFiniteSet(R \ H) /\ Cardinality(R \ H) = Cardinality(Records(t))
  BY Zenon, <1>1, <1>8, RecordsFinite, FS_Bijection
<1> DEFINE D == R \ H
           n == Head(q).n
<1>10. \A k \in 1..n : <<1, k>> \notin D
  BY Zenon
<1>11. n \in Nat
  BY Zenon, <1>1 DEF Batches
<1>12. IsFiniteSet(D)
  BY Zenon, <1>9
<1>13. R = D \cup ({1} \X (1..n))
  BY Zenon, <1>4
<1>14. Cardinality(D) = Cardinality(Records(Tail(q)))
  BY Zenon, <1>9
<1> HIDE DEF R, D, n
<1>15. Cardinality(D \cup ({1} \X (1..n))) = Cardinality(D) + n
  BY Zenon, <1>10, <1>11, <1>12, AddPairs
<1> QED BY Zenon, <1>13, <1>14, <1>15 DEF R, n

-----------------------------------------------------------------------------
(* Types. *)

LEMMA InitTypes == Init => TypeInv
<1> SUFFICES ASSUME Init PROVE TypeInv
  BY Zenon
<1>1. PICK sc \in Scenarios : inputs = sc.config /\ client = [scenario |-> sc, calls |-> sc.calls, pc |-> "idle"]
  BY Zenon DEF Init
<1>2. sc.config \subseteq Endpoints /\ sc.records \in Nat /\ client.scenario = sc
  BY Zenon, <1>1, ControllerAssumption
<1>3. InputTypes
  BY Zenon, <1>1, <1>2 DEF Init, InputTypes
<1>4. ep \in [Endpoints -> EpStates]
  BY Zenon, <1>1, <1>2 DEF Init, EpStates
<1>5. circuit \in CircuitStates
  BY Zenon DEF Init, CircuitStates
<1>6. bp \in BpStates
  BY Zenon DEF Init, BpStates
<1>7. out \in [OutputEndpoints -> OutStates]
  <2>1. <<>> \in Seq(Batches) /\ [n |-> 0, label |-> 0] \in Batches
    BY DEF Batches
  <2> DEFINE c(o) == o \in client.scenario.outputs
             r(o) == [pc |-> "top", token |-> FALSE, queue |-> <<>>, buffered |-> 0,
                      processed |-> 0, sent |-> 0, cur |-> [n |-> 0, label |-> 0],
                      connected |-> c(o), stats |-> c(o), uncounted |-> FALSE]
  <2>2. out = [o \in OutputEndpoints |-> r(o)]
    BY Zenon DEF Init
  <2>3. ASSUME NEW o \in OutputEndpoints PROVE r(o) \in OutStates
    <3>1. c(o) \in BOOLEAN
      OBVIOUS
    <3> HIDE DEF c
    <3> QED BY <2>1, <3>1 DEF OutStates
  <2> HIDE DEF r
  <2> QED BY Zenon, <2>2, <2>3
<1> QED BY Zenon, <1>3, <1>4, <1>5, <1>6, <1>7 DEF TypeInv

(* Where add_buffered may leave endpoint e. *)
LEMMA EpEndpointNext ==
    ASSUME TypeInv, NEW e \in Endpoints, EpEndpoint(e)
    PROVE  \E pc \in {"eoi", "done", "wake_bp", "check"}, b \in Nat :
             ep' = [ep EXCEPT ![e] = [ep[e] EXCEPT !.pc = pc, !.buffered = b]]
<1>1. ep[e].buffered \in Nat /\ ep[e].n \in Nat
  BY Zenon DEF TypeInv, EpStates
<1>2. CASE e \in stats
  <2>1. \E pc \in {"eoi", "done", "wake_bp", "check"} : ep' = [ep EXCEPT ![e] =
           [ep[e] EXCEPT !.pc = pc, !.buffered = ep[e].buffered + ep[e].n]]
    BY Zenon, <1>2 DEF EpEndpoint, TypeInv
  <2>2. ep[e].buffered + ep[e].n \in Nat
    BY <1>1
  <2> QED BY Zenon, <2>1, <2>2
<1>3. CASE e \notin stats
  <2>1. \E pc \in {"eoi", "done", "wake_bp", "check"} : ep' = [ep EXCEPT ![e] =
           [ep[e] EXCEPT !.pc = pc, !.buffered = ep[e].buffered]]
    BY Zenon, <1>3 DEF EpEndpoint, TypeInv
  <2> QED BY Zenon, <1>1, <2>1
<1> QED BY Zenon, <1>2, <1>3

LEMMA EndpointTypes ==
    ASSUME TypeInv, NEW e \in Endpoints, Endpoint(e)
    PROVE  TypeInv'
<1>0. ep[e] \in EpStates
  BY Zenon DEF TypeInv
<1>1. CASE EpCheck(e)
  BY Zenon, <1>0, <1>1 DEF EpCheck, TypeInv, InputTypes, EpStates
<1>2. CASE EpInput(e)
  BY <1>0, <1>2 DEF EpInput, TypeInv, InputTypes, EpStates
<1>3. CASE EpReadError(e)
  BY Zenon, <1>0, <1>3 DEF EpReadError, TypeInv, InputTypes, EpStates
<1>4. CASE EpEoi(e)
  <2>1. client.scenario.eoi \in Nat
    BY Zenon, ControllerAssumption DEF TypeInv, InputTypes
  <2> QED BY <1>0, <1>4, <2>1 DEF EpEoi, TypeInv, InputTypes, EpStates
<1>5. CASE EpTotal(e)
  <2>1. InputTypes'
    BY <1>0, <1>5 DEF EpTotal, TypeInv, InputTypes, EpStates
  <2>2. ep' \in [Endpoints -> EpStates]
    BY Zenon, <1>0, <1>5 DEF EpTotal, TypeInv, EpStates
  <2> QED BY Zenon, <1>5, <2>1, <2>2 DEF EpTotal, TypeInv
<1>6. CASE EpBuffered(e)
  <2>1. InputTypes'
    BY <1>0, <1>6 DEF EpBuffered, TypeInv, InputTypes, EpStates
  <2>2. ep' \in [Endpoints -> EpStates]
    BY Zenon, <1>0, <1>6 DEF EpBuffered, TypeInv, EpStates
  <2> QED BY Zenon, <1>6, <2>1, <2>2 DEF EpBuffered, TypeInv
<1>7. CASE EpWakeCircuit(e)
  <2>1. InputTypes'
    BY Zenon, <1>0, <1>7 DEF EpWakeCircuit, TypeInv, InputTypes, EpStates
  <2>2. ep' \in [Endpoints -> EpStates]
    BY Zenon, <1>0, <1>7 DEF EpWakeCircuit, TypeInv, EpStates
  <2>3. circuit' \in CircuitStates
    BY Zenon, <1>7 DEF EpWakeCircuit, unpark_circuit, TypeInv, CircuitStates
  <2> QED BY Zenon, <1>7, <2>1, <2>2, <2>3 DEF EpWakeCircuit, TypeInv
<1>8. CASE EpEndpoint(e)
  <2>1. \A pc \in {"eoi", "done", "wake_bp", "check"}, b \in Nat :
          [ep[e] EXCEPT !.pc = pc, !.buffered = b] \in EpStates
    BY ZenonT(30), <1>0 DEF EpStates
  <2>2. \E pc \in {"eoi", "done", "wake_bp", "check"}, b \in Nat :
          ep' = [ep EXCEPT ![e] = [ep[e] EXCEPT !.pc = pc, !.buffered = b]]
    BY Zenon, <1>8, EpEndpointNext
  <2>3. ep' \in [Endpoints -> EpStates]
    BY Zenon, <2>1, <2>2 DEF TypeInv
  <2> QED BY Zenon, <1>8, <2>3 DEF EpEndpoint, TypeInv, InputTypes
<1>9. CASE EpWakeBackpressure(e)
  <2>1. InputTypes'
    BY Zenon, <1>0, <1>9 DEF EpWakeBackpressure, TypeInv, InputTypes, EpStates
  <2>2. ep' \in [Endpoints -> EpStates]
    BY Zenon, <1>0, <1>9 DEF EpWakeBackpressure, TypeInv, EpStates
  <2>3. bp' \in BpStates
    BY Zenon, <1>9 DEF EpWakeBackpressure, unpark_backpressure, TypeInv, BpStates
  <2> QED BY Zenon, <1>9, <2>1, <2>2, <2>3 DEF EpWakeBackpressure, TypeInv
<1>10. CASE EpSetEoi(e)
  BY Zenon, <1>0, <1>10 DEF EpSetEoi, TypeInv, InputTypes, EpStates
<1> QED BY Zenon, <1>1, <1>2, <1>3, <1>4, <1>5, <1>6, <1>7, <1>8, <1>9, <1>10 DEF Endpoint

LEMMA CircuitTypes ==
    ASSUME TypeInv, CircuitThread
    PROVE  TypeInv'
<1>1. CASE CTop
  BY Zenon, <1>1 DEF CTop, TypeInv, InputTypes, CircuitStates
<1>2. CASE CStepNow
  BY Zenon, <1>2 DEF CStepNow, TypeInv, InputTypes, CircuitStates
<1>3. CASE CWait
  BY Zenon, <1>3 DEF CWait, TypeInv, InputTypes, CircuitStates
<1>4. CASE CPark
  BY Zenon, <1>4 DEF CPark, TypeInv, InputTypes, CircuitStates
<1>5. CASE CParkTimeout
  BY Zenon, <1>5 DEF CParkTimeout, TypeInv, InputTypes, CircuitStates
<1>6. CASE CConsume
  <2>1. InputTypes'
    BY Zenon, <1>6 DEF CConsume, TypeInv, InputTypes
  <2>2. circuit' \in CircuitStates
    BY Zenon, <1>6 DEF CConsume, TypeInv, InputTypes, CircuitStates
  <2> QED BY Zenon, <1>6, <2>1, <2>2 DEF CConsume, TypeInv
<1>7. CASE CReadTotal
  <2>1. circuit' \in CircuitStates
    BY Zenon, <1>7 DEF CReadTotal, TypeInv, InputTypes, CircuitStates
  <2>2. bp' \in BpStates
    BY Zenon, <1>7 DEF CReadTotal, unpark_backpressure, TypeInv, BpStates
  <2> QED BY Zenon, <1>7, <2>1, <2>2 DEF CReadTotal, TypeInv, InputTypes
<1>8. CASE CStep
  <2>1. InputTypes'
    BY <1>8 DEF CStep, TypeInv, InputTypes
  <2>2. circuit' \in CircuitStates
    <3>1. \A b \in Nat : [circuit EXCEPT !.pc = "processed", !.batch = b] \in CircuitStates
      BY Zenon DEF TypeInv, CircuitStates
    <3>2. [circuit EXCEPT !.pc = "processed", !.batch = 0, !.dead = TRUE] \in CircuitStates
      BY Zenon DEF TypeInv, CircuitStates
    <3> QED BY Zenon, <1>8, <3>1, <3>2 DEF CStep, TypeInv, InputTypes
  <2> QED BY Zenon, <1>8, <2>1, <2>2 DEF CStep, TypeInv
<1>9. CASE CProcessed
  <2>1. InputTypes'
    BY Zenon, <1>9 DEF CProcessed, TypeInv, InputTypes, CircuitStates
  <2>2. circuit' \in CircuitStates
    BY Zenon, <1>9 DEF CProcessed, Looped, Connected, TypeInv, CircuitStates
  <2> QED BY Zenon, <1>9, <2>1, <2>2 DEF CProcessed, TypeInv
<1>10. ASSUME NEW e \in Endpoints, CConsumeEp(e) PROVE TypeInv'
  <2>1. ep' \in [Endpoints -> EpStates]
    BY <1>10 DEF CConsumeEp, TypeInv, EpStates
  <2>2. circuit' \in CircuitStates
    BY Zenon, <1>10 DEF CConsumeEp, TypeInv, CircuitStates
  <2> QED BY Zenon, <1>10, <2>1, <2>2 DEF CConsumeEp, TypeInv, InputTypes
<1>11. ASSUME NEW o \in OutputEndpoints, CEnqueue(o) PROVE TypeInv'
  <2>1. out' \in [OutputEndpoints -> OutStates]
    <3>1. out[o] \in OutStates /\ circuit.batch \in Nat
      BY Zenon DEF TypeInv, CircuitStates
    <3>2. /\ \A n \in Int : [out[o] EXCEPT !.buffered = n] \in OutStates
          /\ [out[o] EXCEPT !.uncounted = TRUE] \in OutStates
          /\ out[o].buffered \in Int
      BY Zenon, <3>1 DEF OutStates
    <3>3. \/ out' = [out EXCEPT ![o] = [out[o] EXCEPT !.buffered = out[o].buffered + circuit.batch]]
          \/ out' = [out EXCEPT ![o] = [out[o] EXCEPT !.uncounted = TRUE]]
      BY Zenon, <1>11 DEF CEnqueue, TypeInv
    <3>4. out[o].buffered + circuit.batch \in Int
      BY <3>1, <3>2
    <3> QED BY Zenon, <3>2, <3>3, <3>4 DEF TypeInv
  <2>2. circuit' \in CircuitStates
    BY Zenon, <1>11 DEF CEnqueue, TypeInv, CircuitStates
  <2> QED BY Zenon, <1>11, <2>1, <2>2 DEF CEnqueue, TypeInv, InputTypes
<1>12. ASSUME NEW o \in OutputEndpoints, CPush(o) PROVE TypeInv'
  <2>1. [n |-> circuit.batch, label |-> circuit.processed] \in Batches
    BY Zenon DEF TypeInv, CircuitStates, Batches
  <2>2. Append(out[o].queue, [n |-> circuit.batch, label |-> circuit.processed]) \in Seq(Batches)
    BY Zenon, <2>1, Appended DEF TypeInv, OutStates
  <2>3. out' \in [OutputEndpoints -> OutStates]
    <3> DEFINE q == Append(out[o].queue, [n |-> circuit.batch, label |-> circuit.processed])
    <3>1. ASSUME q \in Seq(Batches) PROVE [out[o] EXCEPT !.queue = q, !.token = TRUE] \in OutStates
      <4> HIDE DEF q
      <4> QED BY ZenonT(30), <3>1 DEF TypeInv, OutStates
    <3>2. out' = [out EXCEPT ![o] = [out[o] EXCEPT !.queue = q, !.token = TRUE]]
      BY Zenon, <1>12 DEF CPush, TypeInv
    <3> QED BY Zenon, <2>2, <3>1, <3>2 DEF TypeInv
  <2>4. circuit' \in CircuitStates
    BY Zenon, <1>12 DEF CPush, Looped, TypeInv, CircuitStates
  <2> QED BY Zenon, <1>12, <2>3, <2>4 DEF CPush, TypeInv, InputTypes
<1> QED BY Zenon, <1>1, <1>2, <1>3, <1>4, <1>5, <1>6, <1>7, <1>8, <1>9, <1>10, <1>11, <1>12 DEF CircuitThread

LEMMA BackpressureTypes ==
    ASSUME TypeInv, BackpressureThread
    PROVE  TypeInv'
<1>1. CASE BLock
  BY Zenon, <1>1 DEF BLock, TypeInv, InputTypes, BpStates
<1>2. CASE BUnlock
  BY Zenon, <1>2 DEF BUnlock, TypeInv, InputTypes, BpStates
<1>3. CASE BPark
  BY Zenon, <1>3 DEF BPark, TypeInv, InputTypes, BpStates
<1>4. ASSUME NEW e \in Endpoints, BPause(e) PROVE TypeInv'
  <2>1. ep' \in [Endpoints -> EpStates]
    BY <1>4 DEF BPause, TypeInv, EpStates
  <2>2. bp' \in BpStates
    BY Zenon, <1>4 DEF BPause, TypeInv, BpStates
  <2> QED BY Zenon, <1>4, <2>1, <2>2 DEF BPause, TypeInv, InputTypes
<1>5. ASSUME NEW e \in Endpoints, BRun(e) PROVE TypeInv'
  <2>1. ep' \in [Endpoints -> EpStates]
    BY <1>5 DEF BRun, TypeInv, EpStates
  <2>2. bp' \in BpStates
    <3>1. \A P \in SUBSET Endpoints :
            [bp EXCEPT !.todo = @ \ {e}, !.paused_endpoints = P] \in BpStates
      BY Zenon DEF TypeInv, BpStates
    <3>2. bp.paused_endpoints \in SUBSET Endpoints
      BY Zenon DEF TypeInv, BpStates
    <3>3. \/ bp' = [bp EXCEPT !.todo = @ \ {e}, !.paused_endpoints = bp.paused_endpoints \cup {e}]
          \/ bp' = [bp EXCEPT !.todo = @ \ {e}, !.paused_endpoints = bp.paused_endpoints \ {e}]
      BY Zenon, <1>5 DEF BRun, TypeInv, BpStates
    <3> QED BY Zenon, <3>1, <3>2, <3>3
  <2> QED BY Zenon, <1>5, <2>1, <2>2 DEF BRun, TypeInv, InputTypes
<1> QED BY Zenon, <1>1, <1>2, <1>3, <1>4, <1>5 DEF BackpressureThread

LEMMA OutputTypes ==
    ASSUME TypeInv, NEW o \in OutputEndpoints, OutputThread(o)
    PROVE  TypeInv'
<1>0. out[o] \in OutStates /\ [n |-> 0, label |-> 0] \in Batches
  BY Zenon DEF TypeInv, Batches
<1>1. CASE OTop(o)
  <2>1. out[o].queue # <<>> => Head(out[o].queue) \in Batches /\ Tail(out[o].queue) \in Seq(Batches)
    BY Zenon, <1>0, HeadTail DEF OutStates
  <2>2. /\ [out[o] EXCEPT !.pc = "exit"] \in OutStates
        /\ [out[o] EXCEPT !.pc = "park"] \in OutStates
        /\ \A b \in Batches, q \in Seq(Batches) :
             [out[o] EXCEPT !.pc = "encode", !.cur = b, !.queue = q] \in OutStates
    BY Zenon, <1>0 DEF OutStates
  <2>3. \/ out' = [out EXCEPT ![o] = [out[o] EXCEPT !.pc = "exit"]]
        \/ out' = [out EXCEPT ![o] = [out[o] EXCEPT !.pc = "park"]]
        \/ /\ out[o].queue # <<>>
           /\ out' = [out EXCEPT ![o] = [out[o] EXCEPT !.pc = "encode", !.cur = Head(out[o].queue),
                                                       !.queue = Tail(out[o].queue)]]
    BY Zenon, <1>0, <1>1 DEF OTop, TypeInv
  <2>4. out' \in [OutputEndpoints -> OutStates]
    BY Zenon, <2>1, <2>2, <2>3 DEF TypeInv
  <2> QED BY Zenon, <1>1, <2>4 DEF OTop, TypeInv, InputTypes
<1>2. CASE OPark(o)
  BY Zenon, <1>0, <1>2 DEF OPark, TypeInv, InputTypes, OutStates
<1>3. CASE OEncode(o)
  <2>1. out[o].cur.n \in Nat /\ out[o].cur.label \in Nat
    BY Zenon, <1>0 DEF OutStates, Batches
  <2> DEFINE n == out[o].sent + out[o].cur.n
             r1 == [out[o] EXCEPT !.pc = "release", !.sent = n, !.processed = out[o].cur.label]
             r2 == [out[o] EXCEPT !.pc = "top", !.sent = n, !.cur = [n |-> 0, label |-> 0]]
  <2>2. n \in Int
    BY <1>0, <2>1 DEF OutStates
  <2>3. r1 \in OutStates /\ r2 \in OutStates
    <3> HIDE DEF n
    <3> QED BY Zenon, <1>0, <2>1, <2>2 DEF OutStates
  <2>4. out' = [out EXCEPT ![o] = r1] \/ out' = [out EXCEPT ![o] = r2]
    BY Zenon, <1>0, <1>3 DEF OEncode, TypeInv, OutStates
  <2> HIDE DEF r1, r2
  <2> QED BY Zenon, <1>3, <2>3, <2>4 DEF OEncode, TypeInv, InputTypes
<1>4. CASE ORelease(o)
  <2>1. out[o].cur.n \in Nat
    BY Zenon, <1>0 DEF OutStates, Batches
  <2>2. out' \in [OutputEndpoints -> OutStates]
    <3> DEFINE n == out[o].buffered - out[o].cur.n
               r == [out[o] EXCEPT !.buffered = n, !.pc = "top", !.cur = [n |-> 0, label |-> 0]]
    <3>1. n \in Int
      BY <1>0, <2>1 DEF OutStates
    <3>2. r \in OutStates
      <4> HIDE DEF n
      <4> QED BY Zenon, <1>0, <3>1 DEF OutStates
    <3>3. out' = [out EXCEPT ![o] = r]
      BY Zenon, <1>4 DEF ORelease, TypeInv
    <3> HIDE DEF r
    <3> QED BY Zenon, <3>2, <3>3 DEF TypeInv
  <2>3. circuit' \in CircuitStates
    BY Zenon, <1>4 DEF ORelease, TypeInv, CircuitStates
  <2> QED BY Zenon, <1>4, <2>2, <2>3 DEF ORelease, TypeInv, InputTypes
<1> QED BY Zenon, <1>1, <1>2, <1>3, <1>4 DEF OutputThread

LEMMA ClientTypes ==
    ASSUME TypeInv, Client
    PROVE  TypeInv'
<1>1. CASE start
  BY Zenon, <1>1 DEF start, Then, unpark_backpressure, TypeInv, InputTypes, BpStates
<1>2. CASE pause
  BY Zenon, <1>2 DEF pause, Then, unpark_backpressure, TypeInv, InputTypes, BpStates
<1>3. CASE stop
  <2>1. InputTypes'
    BY Zenon, <1>3 DEF stop, Then, TypeInv, InputTypes
  <2>2. ep' \in [Endpoints -> EpStates]
    BY <1>3 DEF stop, TypeInv, EpStates
  <2>3. bp' \in BpStates
    BY Zenon, <1>3 DEF stop, unpark_backpressure, TypeInv, BpStates
  <2>4. circuit' \in CircuitStates
    BY Zenon, <1>3 DEF stop, unpark_circuit, TypeInv, CircuitStates
  <2> QED BY Zenon, <1>3, <2>1, <2>2, <2>3, <2>4 DEF stop, TypeInv
<1>4. CASE add_input
  BY Zenon, <1>4 DEF add_input, unpark_backpressure, TypeInv, InputTypes, BpStates
<1>5. CASE add_output
  <2>1. InputTypes'
    BY Zenon, <1>5 DEF add_output, TypeInv, InputTypes
  <2>2. out' \in [OutputEndpoints -> OutStates]
    BY ZenonT(30), <1>5 DEF add_output, TypeInv, OutStates
  <2> QED BY Zenon, <1>5, <2>1, <2>2 DEF add_output, TypeInv
<1>6. ASSUME NEW e \in Endpoints, connect_input(e) PROVE TypeInv'
  BY Zenon, <1>6 DEF connect_input, Then, TypeInv, InputTypes
<1>7. ASSUME NEW o \in OutputEndpoints, connect_output(o) PROVE TypeInv'
  <2>1. InputTypes'
    BY Zenon, <1>7 DEF connect_output, Then, TypeInv, InputTypes
  <2>2. out' \in [OutputEndpoints -> OutStates]
    <3> DEFINE n == stepped - (IF circuit.pc = "processed" THEN circuit.batch ELSE 0)
               r == [out[o] EXCEPT !.connected = TRUE, !.sent = n]
    <3>1. n \in Int
      BY DEF TypeInv, InputTypes, CircuitStates
    <3>2. r \in OutStates
      <4> HIDE DEF n
      <4> QED BY ZenonT(30), <3>1 DEF TypeInv, OutStates
    <3>3. out' = [out EXCEPT ![o] = r]
      BY Zenon, <1>7 DEF connect_output, TypeInv
    <3> HIDE DEF r
    <3> QED BY Zenon, <3>2, <3>3 DEF TypeInv
  <2> QED BY Zenon, <1>7, <2>1, <2>2 DEF connect_output, TypeInv
<1> QED BY Zenon, <1>1, <1>2, <1>3, <1>4, <1>5, <1>6, <1>7 DEF Client

-----------------------------------------------------------------------------
(* The inputs. *)

(* A step that leaves the input endpoints and their counters alone. *)
LEMMA InputsKept ==
    ASSUME InputsInv, UNCHANGED <<inputs, stats, ep, handle, stepped>>,
           g'.total = g.total, bp'.pc = bp.pc, bp'.todo = bp.todo,
           client'.pc = "add_input" <=> client.pc = "add_input"
    PROVE  InputsInv'
<1>1. InFlight' = InFlight
  BY Zenon DEF InFlight
<1> QED BY Zenon, <1>1 DEF InputsInv

(* A step of the thread of endpoint e that pushes or counts nothing. *)
LEMMA EndpointMoves ==
    ASSUME TypeInv, InputsInv, NEW e \in Endpoints, ep[e].pc # "total", ep'[e].pc # "total",
           \A f \in Endpoints \ {e} : ep'[f] = ep[f],
           e \in inputs \cup stats,
           ep'[e].eoi => ep'[e].pc = "done",
           UNCHANGED <<inputs, stats, handle, stepped, client>>,
           g'.total = g.total, bp'.pc = bp.pc, bp'.todo = bp.todo
    PROVE  InputsInv'
<1>1. InFlight' = InFlight
  <2>1. {f \in Endpoints : ep[f].pc = "total"}' = {f \in Endpoints : ep[f].pc = "total"}
    BY Zenon
  <2>2. \A f \in Endpoints : ep[f].pc = "total" => ep'[f] = ep[f]
    BY Zenon
  <2> QED BY <2>1, <2>2 DEF InFlight
<1> QED BY Zenon, <1>1 DEF InputsInv

(* The records that are in flight are finitely many. *)
LEMMA InFlightFinite ==
    ASSUME TypeInv
    PROVE  IsFiniteSet(InFlight) /\ Cardinality(InFlight) \in Nat
<1> DEFINE S == {f \in Endpoints : ep[f].pc = "total"}
           n == [f \in S |-> ep[f].n]
<1>1. IsFiniteSet(S)
  BY Zenon, ControllerAssumption, FS_Subset
<1>2. n \in [S -> Nat]
  BY Zenon DEF TypeInv, EpStates
<1>3. InFlight = Pairs(S, n)
  BY Zenon DEF InFlight, Pairs
<1> HIDE DEF S, n
<1> QED BY Zenon, <1>1, <1>2, <1>3, FinitePairs

(* A record is in flight from the push to the count. *)
LEMMA EndpointPushes ==
    ASSUME TypeInv, InputsInv, NEW e \in Endpoints, ep[e].pc = "read", ep'[e].pc = "total",
           ep'[e].n \in Nat, ~ep'[e].eoi, handle' = handle + ep'[e].n,
           \A f \in Endpoints \ {e} : ep'[f] = ep[f],
           UNCHANGED <<inputs, stats, g, stepped, bp, client>>
    PROVE  InputsInv'
<1> DEFINE n == ep'[e].n
<1>1. InFlight' = InFlight \cup ({e} \X (1..n))
  <2>1. {f \in Endpoints : ep[f].pc = "total"}' = {f \in Endpoints : ep[f].pc = "total"} \cup {e}
    BY Zenon
  <2>2. \A f \in Endpoints : ep[f].pc = "total" => ep'[f] = ep[f]
    BY Zenon
  <2> QED BY <2>1, <2>2 DEF InFlight
<1>2. \A k \in 1..n : <<e, k>> \notin InFlight
  BY DEF InFlight
<1>3. Cardinality(InFlight') = Cardinality(InFlight) + n
  <2> HIDE DEF n
  <2>1. n \in Nat
    BY Zenon DEF n
  <2>2. Cardinality(InFlight \cup ({e} \X (1..n))) = Cardinality(InFlight) + n
    BY Zenon, <1>2, <2>1, InFlightFinite, AddPairs
  <2> QED BY Zenon, <1>1, <2>2
<1>4. Cardinality(InFlight) \in Nat
  BY Zenon, InFlightFinite
<1>5. (g.total + Cardinality(InFlight) = handle + stepped)'
  <2>1. g.total + Cardinality(InFlight) = handle + stepped
    BY Zenon DEF InputsInv
  <2>2. g.total \in Nat /\ handle \in Nat /\ stepped \in Nat
    BY Zenon DEF TypeInv, InputTypes
  <2> QED BY <1>3, <1>4, <2>1, <2>2
<1>6. e \in inputs \cup stats
  BY Zenon DEF InputsInv
<1> QED BY Zenon, <1>5, <1>6 DEF InputsInv

LEMMA EndpointCounts ==
    ASSUME TypeInv, TypeInv', InputsInv, NEW e \in Endpoints, EpTotal(e)
    PROVE  InputsInv'
<1> DEFINE n == ep[e].n
<1>0. /\ ep[e] \in EpStates /\ ep'[e].pc = "buffered" /\ ep'[e].eoi = ep[e].eoi
      /\ \A f \in Endpoints \ {e} : ep'[f] = ep[f]
  BY DEF TypeInv, EpStates, EpTotal
<1>1. InFlight = InFlight' \cup ({e} \X (1..n))
  <2>1. {f \in Endpoints : ep[f].pc = "total"} = {f \in Endpoints : ep[f].pc = "total"}' \cup {e}
    BY Zenon, <1>0 DEF EpTotal
  <2>2. \A f \in Endpoints : ep'[f].pc = "total" => ep'[f] = ep[f]
    BY Zenon, <1>0
  <2> QED BY <2>1, <2>2 DEF InFlight
<1>2. \A k \in 1..n : <<e, k>> \notin InFlight'
  BY <1>0 DEF InFlight
<1>3. n \in Nat
  BY Zenon, <1>0 DEF EpStates
<1>4. IsFiniteSet(InFlight') /\ Cardinality(InFlight') \in Nat
  <2>1. IsFiniteSet(InFlight) /\ InFlight' \subseteq InFlight
    BY Zenon, <1>1, InFlightFinite
  <2> QED BY Zenon, <2>1, FS_Subset, FS_CardinalityType
<1>5. Cardinality(InFlight) = Cardinality(InFlight') + n
  <2> HIDE DEF n
  <2> DEFINE P == InFlight'
  <2> HIDE DEF P
  <2>1. Cardinality(P \cup ({e} \X (1..n))) = Cardinality(P) + n
    BY Zenon, <1>2, <1>3, <1>4, AddPairs DEF P
  <2> QED BY Zenon, <1>1, <2>1 DEF P
<1>6. (g.total + Cardinality(InFlight) = handle + stepped)'
  <2>1. g.total + Cardinality(InFlight) = handle + stepped
    BY Zenon DEF InputsInv
  <2>2. g.total \in Nat /\ handle \in Nat /\ stepped \in Nat /\ g'.total = g.total + n
    BY Zenon DEF TypeInv, InputTypes, EpTotal
  <2>3. handle' = handle /\ stepped' = stepped
    BY Zenon DEF EpTotal
  <2> QED BY <1>3, <1>4, <1>5, <2>1, <2>2, <2>3
<1>7. ~ep[e].eoi /\ e \in inputs \cup stats
  BY Zenon DEF InputsInv, EpTotal
<1> QED BY Zenon, <1>0, <1>6, <1>7 DEF InputsInv, EpTotal

LEMMA EndpointInputs ==
    ASSUME TypeInv, TypeInv', InputsInv, NEW e \in Endpoints, Endpoint(e)
    PROVE  InputsInv'
<1>0. ep[e] \in EpStates /\ (ep[e].eoi => ep[e].pc = "done")
  BY Zenon DEF TypeInv, InputsInv
<1>e. ep[e].pc # "check" \/ ep[e].cmd # "paused" => e \in inputs \cup stats
  BY Zenon DEF InputsInv
<1>1. CASE EpCheck(e)
  <2>1. /\ ep[e].pc # "total" /\ ep'[e].pc # "total" /\ e \in inputs \cup stats
        /\ ep'[e].eoi => ep'[e].pc = "done"
        /\ \A f \in Endpoints \ {e} : ep'[f] = ep[f]
    BY Zenon, <1>0, <1>e, <1>1 DEF EpCheck, TypeInv, EpStates
  <2>2. g'.total = g.total /\ bp'.pc = bp.pc /\ bp'.todo = bp.todo
    BY Zenon, <1>1 DEF EpCheck
  <2> QED BY Zenon, <1>1, <2>1, <2>2, EndpointMoves DEF EpCheck
<1>2. CASE EpReadError(e)
  <2>1. /\ ep[e].pc # "total" /\ ep'[e].pc # "total" /\ e \in inputs \cup stats
        /\ ep'[e].eoi => ep'[e].pc = "done"
        /\ \A f \in Endpoints \ {e} : ep'[f] = ep[f]
    BY Zenon, <1>0, <1>e, <1>2 DEF EpReadError, TypeInv, EpStates
  <2>2. g'.total = g.total /\ bp'.pc = bp.pc /\ bp'.todo = bp.todo
    BY Zenon, <1>2 DEF EpReadError
  <2> QED BY Zenon, <1>2, <2>1, <2>2, EndpointMoves DEF EpReadError
<1>3. CASE EpEndpoint(e)
  <2>1. /\ ep[e].pc # "total" /\ ep'[e].pc # "total" /\ e \in inputs \cup stats
        /\ ep'[e].eoi => ep'[e].pc = "done"
        /\ \A f \in Endpoints \ {e} : ep'[f] = ep[f]
    <3>1. PICK pc \in {"eoi", "done", "wake_bp", "check"}, b \in Nat :
            ep' = [ep EXCEPT ![e] = [ep[e] EXCEPT !.pc = pc, !.buffered = b]]
      BY Zenon, <1>3, EpEndpointNext
    <3>2. ep'[e].pc = pc /\ ep'[e].eoi = ep[e].eoi
      BY Zenon, <1>0, <3>1 DEF TypeInv, EpStates
    <3>3. ep[e].pc = "endpoint"
      BY Zenon, <1>3 DEF EpEndpoint
    <3> QED BY Zenon, <1>0, <1>e, <3>1, <3>2, <3>3 DEF TypeInv
  <2>2. g'.total = g.total /\ bp'.pc = bp.pc /\ bp'.todo = bp.todo
    BY Zenon, <1>3 DEF EpEndpoint
  <2> QED BY Zenon, <1>3, <2>1, <2>2, EndpointMoves DEF EpEndpoint
<1>4. CASE EpSetEoi(e)
  <2>1. /\ ep[e].pc # "total" /\ ep'[e].pc # "total" /\ e \in inputs \cup stats
        /\ ep'[e].eoi => ep'[e].pc = "done"
        /\ \A f \in Endpoints \ {e} : ep'[f] = ep[f]
    BY <1>0, <1>e, <1>4 DEF EpSetEoi, TypeInv, EpStates
  <2>2. g'.total = g.total /\ bp'.pc = bp.pc /\ bp'.todo = bp.todo
    BY Zenon, <1>4 DEF EpSetEoi
  <2> QED BY Zenon, <1>4, <2>1, <2>2, EndpointMoves DEF EpSetEoi
<1>5. CASE EpBuffered(e)
  <2>1. /\ ep[e].pc # "total" /\ ep'[e].pc # "total" /\ e \in inputs \cup stats
        /\ ep'[e].eoi => ep'[e].pc = "done"
        /\ \A f \in Endpoints \ {e} : ep'[f] = ep[f]
    BY Zenon, <1>0, <1>e, <1>5 DEF EpBuffered, TypeInv, EpStates
  <2>2. g'.total = g.total /\ bp'.pc = bp.pc /\ bp'.todo = bp.todo
    BY Zenon, <1>5 DEF EpBuffered, TypeInv, InputTypes
  <2> QED BY Zenon, <1>5, <2>1, <2>2, EndpointMoves DEF EpBuffered
<1>6. CASE EpWakeCircuit(e)
  <2>1. /\ ep[e].pc # "total" /\ ep'[e].pc # "total" /\ e \in inputs \cup stats
        /\ ep'[e].eoi => ep'[e].pc = "done"
        /\ \A f \in Endpoints \ {e} : ep'[f] = ep[f]
    BY Zenon, <1>0, <1>e, <1>6 DEF EpWakeCircuit, TypeInv, EpStates
  <2>2. g'.total = g.total /\ bp'.pc = bp.pc /\ bp'.todo = bp.todo
    BY Zenon, <1>6 DEF EpWakeCircuit
  <2> QED BY Zenon, <1>6, <2>1, <2>2, EndpointMoves DEF EpWakeCircuit
<1>7. CASE EpWakeBackpressure(e)
  <2>1. /\ ep[e].pc # "total" /\ ep'[e].pc # "total" /\ e \in inputs \cup stats
        /\ ep'[e].eoi => ep'[e].pc = "done"
        /\ \A f \in Endpoints \ {e} : ep'[f] = ep[f]
    BY Zenon, <1>0, <1>e, <1>7 DEF EpWakeBackpressure, TypeInv, EpStates
  <2>2. g'.total = g.total /\ bp'.pc = bp.pc /\ bp'.todo = bp.todo
    BY Zenon, <1>7 DEF EpWakeBackpressure, unpark_backpressure, TypeInv, BpStates
  <2> QED BY Zenon, <1>7, <2>1, <2>2, EndpointMoves DEF EpWakeBackpressure
<1>8. CASE EpTotal(e)
  BY Zenon, <1>8, EndpointCounts
<1>9. CASE EpInput(e)
  <2>1. PICK n \in 1..MaxBatch :
          \/ handle' = handle + n /\ ep' = [ep EXCEPT ![e].pc = "total", ![e].n = n, ![e].left = @ - n]
          \/ handle' = handle /\ ep' = [ep EXCEPT ![e].pc = "check", ![e].left = @ - n]
    BY Zenon, <1>9 DEF EpInput
  <2>2. n \in Nat
    BY SMTT(30), ControllerAssumption
  <2>3. CASE handle' = handle + n /\ ep' = [ep EXCEPT ![e].pc = "total", ![e].n = n, ![e].left = @ - n]
    <3>1. /\ ep[e].pc = "read" /\ ep'[e].pc = "total" /\ ep'[e].n = n /\ ~ep'[e].eoi
          /\ \A f \in Endpoints \ {e} : ep'[f] = ep[f]
      BY <1>0, <1>9, <2>3 DEF EpInput, TypeInv, EpStates
    <3> QED BY Zenon, <1>9, <2>2, <2>3, <3>1, EndpointPushes DEF EpInput
  <2>4. CASE handle' = handle /\ ep' = [ep EXCEPT ![e].pc = "check", ![e].left = @ - n]
    <3>1. /\ ep[e].pc # "total" /\ ep'[e].pc # "total" /\ ~ep'[e].eoi
          /\ \A f \in Endpoints \ {e} : ep'[f] = ep[f]
      BY <1>0, <1>9, <2>4 DEF EpInput, TypeInv, EpStates
    <3>2. e \in inputs \cup stats
      BY Zenon, <1>e, <1>9 DEF EpInput
    <3> QED BY Zenon, <1>9, <2>4, <3>1, <3>2, EndpointMoves DEF EpInput
  <2> QED BY Zenon, <2>1, <2>3, <2>4
<1>10. CASE EpEoi(e)
  <2> DEFINE n == client.scenario.eoi
  <2>1. n \in Nat
    BY Zenon, ControllerAssumption DEF TypeInv, InputTypes
  <2>2. CASE handle' = handle + n /\ ep' = [ep EXCEPT ![e].pc = "total", ![e].n = n, ![e].last = TRUE]
    <3>1. /\ ep[e].pc = "read" /\ ep'[e].pc = "total" /\ ep'[e].n = n /\ ~ep'[e].eoi
          /\ \A f \in Endpoints \ {e} : ep'[f] = ep[f]
      BY <1>0, <1>10, <2>2 DEF EpEoi, TypeInv, EpStates
    <3> QED BY Zenon, <1>10, <2>1, <2>2, <3>1, EndpointPushes DEF EpEoi
  <2>3. CASE handle' = handle /\ ep' = [ep EXCEPT ![e].pc = "done"]
    <3>1. /\ ep[e].pc # "total" /\ ep'[e].pc = "done"
          /\ \A f \in Endpoints \ {e} : ep'[f] = ep[f]
      BY Zenon, <1>0, <1>10, <2>3 DEF EpEoi, TypeInv, EpStates
    <3>2. e \in inputs \cup stats
      BY Zenon, <1>e, <1>10 DEF EpEoi
    <3> QED BY Zenon, <1>10, <2>3, <3>1, <3>2, EndpointMoves DEF EpEoi
  <2> QED BY Zenon, <1>10, <2>2, <2>3 DEF EpEoi
<1> QED BY Zenon, <1>1, <1>2, <1>3, <1>4, <1>5, <1>6, <1>7, <1>8, <1>9, <1>10 DEF Endpoint

LEMMA CircuitInputs ==
    ASSUME TypeInv, InputsInv, CircuitThread
    PROVE  InputsInv'
<1>1. CASE CTop \/ CStepNow \/ CWait \/ CPark \/ CParkTimeout
  BY Zenon, <1>1, InputsKept DEF CTop, CStepNow, CWait, CPark, CParkTimeout
<1>2. CASE CConsume \/ CProcessed
  <2>1. g'.total = g.total
    BY Zenon, <1>2 DEF CConsume, CProcessed, TypeInv, InputTypes
  <2> QED BY Zenon, <1>2, <2>1, InputsKept DEF CConsume, CProcessed
<1>3. CASE CReadTotal
  <2>1. bp'.pc = bp.pc /\ bp'.todo = bp.todo
    BY Zenon, <1>3 DEF CReadTotal, unpark_backpressure, TypeInv, BpStates
  <2> QED BY Zenon, <1>3, <2>1, InputsKept DEF CReadTotal
<1>4. CASE CStep
  <2>1. InFlight' = InFlight /\ handle' + stepped' = handle + stepped
    BY <1>4 DEF CStep, InFlight, TypeInv, InputTypes
  <2>2. UNCHANGED <<inputs, stats, ep, g, bp, client>>
    BY Zenon, <1>4 DEF CStep
  <2> QED BY Zenon, <2>1, <2>2 DEF InputsInv
<1>5. ASSUME NEW e \in Endpoints, CConsumeEp(e) PROVE InputsInv'
  <2>1. \A f \in Endpoints : /\ ep'[f].pc = ep[f].pc /\ ep'[f].cmd = ep[f].cmd
                             /\ ep'[f].n = ep[f].n /\ ep'[f].eoi = ep[f].eoi
    BY <1>5 DEF CConsumeEp, TypeInv, EpStates
  <2>2. InFlight' = InFlight
    BY Zenon, <2>1 DEF InFlight
  <2>3. UNCHANGED <<inputs, stats, g, handle, stepped, bp, client>>
    BY Zenon, <1>5 DEF CConsumeEp
  <2> QED BY Zenon, <2>1, <2>2, <2>3 DEF InputsInv
<1>6. ASSUME NEW o \in OutputEndpoints, CEnqueue(o) \/ CPush(o) PROVE InputsInv'
  BY Zenon, <1>6, InputsKept DEF CEnqueue, CPush
<1> QED BY Zenon, <1>1, <1>2, <1>3, <1>4, <1>5, <1>6 DEF CircuitThread

(* The backpressure thread commands only endpoints it found in `inputs`. *)
LEMMA BackpressureInputs ==
    ASSUME TypeInv, InputsInv, BackpressureThread
    PROVE  InputsInv'
<1>1. CASE BLock
  <2>1. bp'.pc \in {"pausing", "running"} => bp'.todo \subseteq inputs
    <3>1. CASE state = "Paused"
      BY Zenon, <1>1, <3>1 DEF BLock, TypeInv, BpStates
    <3>2. CASE state = "Running"
      BY Zenon, <1>1, <3>2 DEF BLock, TypeInv, BpStates
    <3>3. CASE state \notin {"Paused", "Running"}
      BY Zenon, <1>1, <3>3 DEF BLock, TypeInv, BpStates
    <3> QED BY Zenon, <3>1, <3>2, <3>3
  <2>2. InFlight' = InFlight /\ UNCHANGED <<inputs, stats, ep, g, handle, stepped, client>>
    BY Zenon, <1>1 DEF BLock, InFlight
  <2> QED BY Zenon, <2>1, <2>2 DEF InputsInv
<1>2. CASE BUnlock \/ BPark
  <2>1. bp'.pc \notin {"pausing", "running"}
    BY Zenon, <1>2 DEF BUnlock, BPark, TypeInv, BpStates
  <2>2. InFlight' = InFlight /\ UNCHANGED <<inputs, stats, ep, g, handle, stepped, client>>
    BY <1>2 DEF BUnlock, BPark, InFlight
  <2> QED BY Zenon, <2>1, <2>2 DEF InputsInv
<1>3. ASSUME NEW e \in Endpoints, BPause(e) \/ BRun(e) PROVE InputsInv'
  <2>1. \A f \in Endpoints : /\ ep'[f].pc = ep[f].pc /\ (f # e => ep'[f].cmd = ep[f].cmd)
                             /\ ep'[f].n = ep[f].n /\ ep'[f].eoi = ep[f].eoi
    BY <1>3 DEF BPause, BRun, TypeInv, EpStates
  <2>2. InFlight' = InFlight
    BY Zenon, <2>1 DEF InFlight
  <2>3. e \in inputs /\ bp'.todo \subseteq bp.todo /\ bp'.pc = bp.pc
    <3>1. bp.todo \subseteq inputs /\ e \in bp.todo
      BY Zenon, <1>3 DEF BPause, BRun, InputsInv
    <3>2. bp'.pc = bp.pc /\ bp'.todo = bp.todo \ {e}
      BY Zenon, <1>3 DEF BPause, BRun, TypeInv, BpStates
    <3> QED BY Zenon, <3>1, <3>2
  <2>4. UNCHANGED <<inputs, stats, g, handle, stepped, client>>
    BY Zenon, <1>3 DEF BPause, BRun
  <2> QED BY Zenon, <2>1, <2>2, <2>3, <2>4 DEF InputsInv
<1> QED BY Zenon, <1>1, <1>2, <1>3 DEF BackpressureThread

LEMMA ClientInputs ==
    ASSUME TypeInv, InputsInv, Client
    PROVE  InputsInv'
<1>1. CASE start \/ pause
  <2>1. bp'.pc = bp.pc /\ bp'.todo = bp.todo
    BY Zenon, <1>1 DEF start, pause, unpark_backpressure, TypeInv, BpStates
  <2>2. client'.pc = "idle" /\ client.pc = "idle"
    BY Zenon, <1>1 DEF start, pause, Call, Then, TypeInv, InputTypes
  <2> QED BY Zenon, <1>1, <2>1, <2>2, InputsKept DEF start, pause
<1>2. CASE stop
  <2>1. \A f \in Endpoints : /\ ep'[f].pc = ep[f].pc /\ (f \notin inputs => ep'[f].cmd = ep[f].cmd)
                             /\ ep'[f].n = ep[f].n /\ ep'[f].eoi = ep[f].eoi
    BY Zenon, <1>2 DEF stop, TypeInv, EpStates
  <2>2. InFlight' = InFlight
    BY <2>1 DEF InFlight
  <2>3. inputs \subseteq stats /\ inputs' = {}
    BY Zenon, <1>2 DEF stop, Call, InputsInv
  <2>4. bp'.pc = bp.pc /\ bp.pc \notin {"pausing", "running"}
    BY Zenon, <1>2 DEF stop, InputsUnlocked, unpark_backpressure, TypeInv, BpStates
  <2>5. UNCHANGED <<stats, g, handle, stepped>>
    BY Zenon, <1>2 DEF stop
  <2> QED BY Zenon, <2>1, <2>2, <2>3, <2>4, <2>5 DEF InputsInv
<1>3. ASSUME NEW e \in Endpoints, connect_input(e) PROVE InputsInv'
  <2>1. client'.pc = "add_input" /\ inputs' = inputs \cup {e}
    BY Zenon, <1>3 DEF connect_input, Then, TypeInv, InputTypes
  <2>2. InFlight' = InFlight /\ UNCHANGED <<stats, ep, g, handle, stepped, bp>>
    BY Zenon, <1>3 DEF connect_input, InFlight
  <2> QED BY Zenon, <2>1, <2>2 DEF InputsInv
<1>4. CASE add_input
  <2>1. bp'.pc = bp.pc /\ bp'.todo = bp.todo
    BY Zenon, <1>4 DEF add_input, unpark_backpressure, TypeInv, BpStates
  <2>2. InFlight' = InFlight /\ stats' = stats \cup inputs /\ UNCHANGED <<inputs, ep, g, handle, stepped>>
    BY Zenon, <1>4 DEF add_input, InFlight
  <2> QED BY Zenon, <2>1, <2>2 DEF InputsInv
<1>5. ASSUME NEW o \in OutputEndpoints, connect_output(o) PROVE InputsInv'
  <2>1. client'.pc # "add_input" /\ client.pc # "add_input"
    BY Zenon, <1>5 DEF connect_output, Call, Then, TypeInv, InputTypes
  <2> QED BY Zenon, <1>5, <2>1, InputsKept DEF connect_output
<1>6. CASE add_output
  <2>1. client'.pc # "add_input" /\ client.pc # "add_input"
    BY Zenon, <1>6 DEF add_output, TypeInv, InputTypes
  <2> QED BY Zenon, <1>6, <2>1, InputsKept DEF add_output
<1> QED BY Zenon, <1>1, <1>2, <1>3, <1>4, <1>5, <1>6 DEF Client

-----------------------------------------------------------------------------
(* The outputs. *)

(* The fields that the sums of an output depend on. *)
LEMMA LabelKept ==
    ASSUME NEW o \in OutputEndpoints, LabelInv(o),
           out'[o].queue = out[o].queue, out'[o].sent = out[o].sent,
           out'[o].processed = out[o].processed, out'[o].connected = out[o].connected,
           out'[o].pc = out[o].pc \/ (out[o].connected /\ "encode" \notin {out[o].pc, out'[o].pc}),
           out[o].pc = "encode" => out'[o].cur = out[o].cur,
           Owed(o)' = Owed(o), stepped' = stepped
    PROVE  LabelInv(o)'
<1>1. out'[o].pc = "encode" <=> out[o].pc = "encode"
  BY Zenon
<1>2. ASSUME NEW sums, Sums(o, sums) PROVE Sums(o, sums)'
  BY Zenon, <1>1, <1>2 DEF Sums
<1>3. CASE out[o].connected
  BY Zenon, <1>1, <1>2, <1>3 DEF LabelInv
<1>4. CASE ~out[o].connected
  BY Zenon, <1>1, <1>4 DEF LabelInv
<1> QED BY Zenon, <1>3, <1>4

LEMMA CountKept ==
    ASSUME NEW o \in OutputEndpoints, CountInv(o), out'[o] = out[o],
           Pushing(o)' <=> Pushing(o), Pushing(o) => circuit'.batch = circuit.batch
    PROVE  CountInv(o)'
BY Zenon DEF CountInv

(* A step that leaves the outputs and the circuit thread's place alone. *)
LEMMA OutputsKept ==
    ASSUME OutputsInv, UNCHANGED <<out, stepped>>, g'.processed = g.processed,
           g.total \in Nat, g'.total \in Nat, g.total <= g'.total, circuit \in CircuitStates,
           circuit'.pc = circuit.pc, circuit'.todo = circuit.todo, circuit'.cur = circuit.cur,
           circuit'.processed = circuit.processed, circuit'.batch = circuit.batch,
           circuit'.dead = circuit.dead
    PROVE  OutputsInv'
<1>1. LoopInv'
  BY Zenon DEF OutputsInv, LoopInv, Connected
<1>2. ASSUME NEW o \in OutputEndpoints PROVE CountInv(o)'
  BY Zenon, CountKept DEF OutputsInv, Pushing
<1>3. ASSUME ~circuit.dead, NEW o \in OutputEndpoints PROVE LabelInv(o)'
  <2>1. LabelInv(o) /\ Owed(o)' = Owed(o)
    BY Zenon, <1>3 DEF OutputsInv, Owed, Pushing
  <2> QED BY Zenon, <2>1, LabelKept
<1>4. ASSUME ~circuit.dead PROVE CircuitInv'
  <2>1. circuit.processed \in Nat
    BY Zenon DEF CircuitStates
  <2> QED BY <1>4, <2>1 DEF OutputsInv, CircuitInv
<1> QED BY Zenon, <1>1, <1>2, <1>3, <1>4 DEF OutputsInv

(* Where the circuit thread owes the outputs nothing. *)
Idle == circuit.pc \notin {"processed", "output", "push"}

LEMMA CircuitIdles ==
    ASSUME OutputsInv, UNCHANGED <<out, stepped>>, g'.processed = g.processed,
           Idle, Idle', circuit'.dead = circuit.dead,
           circuit'.pc = "step" => circuit'.processed <= g'.total
    PROVE  OutputsInv'
<1>1. LoopInv'
  BY Zenon DEF LoopInv, Idle
<1>2. ASSUME NEW o \in OutputEndpoints PROVE CountInv(o)'
  BY Zenon, CountKept DEF OutputsInv, Pushing, Idle
<1>3. ASSUME ~circuit.dead, NEW o \in OutputEndpoints PROVE LabelInv(o)'
  <2>1. LabelInv(o) /\ Owed(o)' = Owed(o)
    BY Zenon, <1>3 DEF OutputsInv, Owed, Pushing, Idle
  <2> QED BY Zenon, <2>1, LabelKept
<1>4. ASSUME ~circuit.dead PROVE CircuitInv'
  BY Zenon, <1>4 DEF OutputsInv, CircuitInv, Idle
<1> QED BY Zenon, <1>1, <1>2, <1>3, <1>4 DEF OutputsInv

(* A step of the circuit: its outputs are owed to every output. *)
LEMMA StepOutputs ==
    ASSUME TypeInv, TypeInv', InputsInv, OutputsInv, CStep
    PROVE  OutputsInv'
<1>1. circuit.pc = "step" /\ circuit'.pc = "processed" /\ out' = out
  BY Zenon DEF CStep, TypeInv, CircuitStates
<1>2. LoopInv'
  BY Zenon, <1>1 DEF LoopInv
<1>3. ASSUME NEW o \in OutputEndpoints PROVE CountInv(o)'
  BY Zenon, <1>1, CountKept DEF OutputsInv, Pushing
<1>4. ASSUME ~circuit'.dead
      PROVE  /\ ~circuit.dead /\ stepped' = stepped + handle /\ circuit'.batch = handle
             /\ circuit'.processed = circuit.processed /\ g' = g
  BY Zenon, <1>4 DEF CStep, TypeInv, CircuitStates
<1>5. stepped \in Nat /\ handle \in Nat /\ g.total \in Nat /\ g.processed \in Nat
      /\ circuit.processed \in Nat
  BY Zenon DEF TypeInv, InputTypes, CircuitStates
<1>6. ASSUME ~circuit'.dead PROVE CircuitInv'
  <2>1. g.total + Cardinality(InFlight) = handle + stepped /\ Cardinality(InFlight) \in Nat
    BY Zenon, InFlightFinite DEF InputsInv
  <2>2. circuit.processed <= g.total /\ g.processed <= stepped
    BY Zenon, <1>1, <1>4, <1>6 DEF OutputsInv, CircuitInv
  <2>3. circuit.processed <= stepped + handle /\ g.processed <= stepped + handle /\ handle <= stepped + handle
    BY <1>5, <2>1, <2>2
  <2> QED BY Zenon, <1>1, <1>4, <1>6, <2>3 DEF CircuitInv
<1>7. ASSUME ~circuit'.dead, NEW o \in OutputEndpoints PROVE LabelInv(o)'
  <2>1. LabelInv(o) /\ Owed(o) = 0 /\ Owed(o)' = handle
    BY Zenon, <1>1, <1>4, <1>7 DEF OutputsInv, Owed, Pushing
  <2>2. ASSUME NEW sums \in [0..Len(out[o].queue) -> Int], Sums(o, sums) PROVE Sums(o, sums)'
    <3>1. Len(out[o].queue) \in Nat
      BY DEF TypeInv, OutStates
    <3> DEFINE q == out[o].queue
               v == sums[Len(q)]
    <3>2. v \in Int /\ v + 0 = stepped
      BY <2>1, <2>2, <3>1 DEF Sums
    <3>3. v + handle = stepped + handle
      <4> HIDE DEF v
      <4> QED BY <1>5, <3>2
    <3>4. Labelled(q, sums, stepped + handle)
      <4>1. Labelled(q, sums, stepped)
        BY Zenon, <2>2 DEF Sums
      <4>2. \A j \in 0..Len(q) : sums[j] <= stepped /\ sums[j] \in Int
        BY Zenon, <2>2, <4>1 DEF Labelled
      <4>3. \A j \in 0..Len(q) : sums[j] <= stepped + handle
        BY <1>5, <4>2
      <4> QED BY Zenon, <4>1, <4>3 DEF Labelled
    <3>5. stepped' = stepped + handle
      BY Zenon, <1>4, <1>7
    <3> QED BY Zenon, <1>1, <2>1, <2>2, <3>3, <3>4, <3>5 DEF Sums
  <2> QED BY Zenon, <1>1, <2>1, <2>2 DEF LabelInv
<1> QED BY Zenon, <1>2, <1>3, <1>6, <1>7 DEF OutputsInv

(* The outputs that are connected now get the batch. *)
LEMMA ProcessedOutputs ==
    ASSUME TypeInv, OutputsInv, CProcessed
    PROVE  OutputsInv'
<1>1. circuit.pc = "processed" /\ out' = out /\ stepped' = stepped /\ g'.processed = circuit.processed
  BY Zenon DEF CProcessed, TypeInv, InputTypes
<1>2. /\ circuit'.dead = circuit.dead
      /\ IF Connected = {} THEN circuit'.pc = "top"
         ELSE /\ circuit'.pc = "output" /\ circuit'.todo = Connected
              /\ circuit'.batch = circuit.batch /\ circuit'.processed = circuit.processed
  BY Zenon DEF CProcessed, Looped, TypeInv, CircuitStates
<1>3. LoopInv'
  BY Zenon, <1>1, <1>2 DEF LoopInv, Connected
<1>4. ASSUME NEW o \in OutputEndpoints PROVE CountInv(o)'
  BY Zenon, <1>1, <1>2, CountKept DEF OutputsInv, Pushing
<1>5. ASSUME ~circuit.dead, NEW o \in OutputEndpoints PROVE LabelInv(o)'
  <2>1. LabelInv(o)
    BY Zenon, <1>5 DEF OutputsInv
  <2>2. CASE out[o].connected
    <3>1. Owed(o)' = Owed(o)
      BY Zenon, <1>1, <1>2, <2>2 DEF Owed, Connected
    <3> QED BY Zenon, <1>1, <2>1, <3>1, LabelKept
  <2>3. CASE ~out[o].connected
    BY Zenon, <1>1, <2>1, <2>3 DEF LabelInv
  <2> QED BY Zenon, <2>2, <2>3
<1>6. ASSUME ~circuit.dead PROVE CircuitInv'
  BY Zenon, <1>1, <1>2, <1>6 DEF OutputsInv, CircuitInv
<1> QED BY Zenon, <1>2, <1>3, <1>4, <1>5, <1>6 DEF OutputsInv

LEMMA CountedNext ==
    ASSUME NEW o, out'[o].pc \notin {"encode", "release"} => out'[o].cur.n = 0,
           ~out'[o].uncounted => /\ out'[o].stats
                                 /\ out'[o].buffered = Cardinality(Records(out'[o].queue)) + out'[o].cur.n
                                      + (IF Pushing(o)' THEN circuit'.batch ELSE 0)
    PROVE  CountInv(o)'
  BY Zenon DEF CountInv

LEMMA NotCountedNext ==
    ASSUME NEW o, out'[o].pc \notin {"encode", "release"} => out'[o].cur.n = 0,
           ~out'[o].uncounted => /\ ~out'[o].stats /\ out'[o].queue = <<>> /\ out'[o].cur.n = 0
                                 /\ out'[o].buffered = 0 /\ ~Pushing(o)'
    PROVE  CountInv(o)'
  BY Zenon DEF CountInv

(* The batch is counted before it is queued. *)
LEMMA EnqueueOutputs ==
    ASSUME TypeInv, TypeInv', OutputsInv, NEW o \in OutputEndpoints, CEnqueue(o)
    PROVE  OutputsInv'
<1>1. /\ circuit.pc = "output" /\ o \in circuit.todo /\ stepped' = stepped /\ g' = g
      /\ circuit'.pc = "push" /\ circuit'.todo = circuit.todo \ {o} /\ circuit'.cur = {o}
      /\ circuit'.batch = circuit.batch /\ circuit'.processed = circuit.processed
      /\ circuit'.dead = circuit.dead
  BY Zenon DEF CEnqueue, TypeInv, CircuitStates
<1>2. \A x \in OutputEndpoints \ {o} : out'[x] = out[x]
  BY Zenon DEF CEnqueue, TypeInv
<1>3. out[o] \in OutStates
  BY Zenon DEF TypeInv
<1>4. /\ out'[o].queue = out[o].queue /\ out'[o].sent = out[o].sent /\ out'[o].pc = out[o].pc
      /\ out'[o].processed = out[o].processed /\ out'[o].connected = out[o].connected
      /\ out'[o].cur = out[o].cur /\ out'[o].stats = out[o].stats
      /\ out[o].stats => /\ out'[o].buffered = out[o].buffered + circuit.batch
                         /\ out'[o].uncounted = out[o].uncounted
      /\ ~out[o].stats => out'[o].uncounted
  BY Zenon, <1>3 DEF CEnqueue, TypeInv, OutStates
<1>5. circuit.todo \subseteq Connected /\ Connected' = Connected
  <2>1. circuit.todo \subseteq Connected
    BY Zenon, <1>1 DEF OutputsInv, LoopInv
  <2>2. \A x \in OutputEndpoints : out'[x].connected = out[x].connected
    BY Zenon, <1>2, <1>4
  <2> QED BY Zenon, <2>1, <2>2 DEF Connected
<1>6. LoopInv'
  BY Zenon, <1>1, <1>5 DEF LoopInv
<1>7. CountInv(o)'
  <2>1. CountInv(o) /\ ~Pushing(o) /\ Pushing(o)'
    BY Zenon, <1>1 DEF OutputsInv, Pushing
  <2>2. /\ out[o].buffered \in Int /\ circuit.batch \in Nat /\ out[o].cur.n \in Nat
        /\ Cardinality(Records(out[o].queue)) \in Nat
    BY Zenon, <1>3, RecordsFinite DEF TypeInv, CircuitStates, OutStates, Batches
  <2>3. CASE out[o].stats
    <3>1. ~out[o].uncounted => out[o].buffered = Cardinality(Records(out[o].queue)) + out[o].cur.n + 0
      BY Zenon, <2>1, <2>3 DEF CountInv
    <3>2. ~out'[o].uncounted => /\ out'[o].stats
                                /\ out'[o].buffered = Cardinality(Records(out'[o].queue)) + out'[o].cur.n
                                     + (IF Pushing(o)' THEN circuit'.batch ELSE 0)
      BY SMTT(30), <1>1, <1>4, <2>1, <2>2, <2>3, <3>1
    <3>3. out'[o].pc \notin {"encode", "release"} => out'[o].cur.n = 0
      BY Zenon, <1>4, <2>1 DEF CountInv
    <3> QED BY Zenon, <3>2, <3>3, CountedNext
  <2>4. CASE ~out[o].stats
    <3>1. out'[o].pc \notin {"encode", "release"} => out'[o].cur.n = 0
      BY Zenon, <1>4, <2>1 DEF CountInv
    <3> QED BY Zenon, <1>4, <2>4, <3>1, NotCountedNext
  <2> QED BY Zenon, <2>3, <2>4
<1>8. ASSUME NEW x \in OutputEndpoints \ {o} PROVE CountInv(x)'
  BY Zenon, <1>1, <1>2, CountKept DEF OutputsInv, Pushing
<1>9. ASSUME ~circuit.dead, NEW x \in OutputEndpoints PROVE LabelInv(x)'
  <2>1. LabelInv(x) /\ Owed(x)' = Owed(x)
    BY Zenon, <1>1, <1>9 DEF OutputsInv, Owed, Pushing
  <2> QED BY Zenon, <1>1, <1>2, <1>4, <2>1, LabelKept
<1>10. ASSUME ~circuit.dead PROVE CircuitInv'
  BY Zenon, <1>1, <1>10 DEF OutputsInv, CircuitInv
<1> QED BY Zenon, <1>1, <1>6, <1>7, <1>8, <1>9, <1>10 DEF OutputsInv

(* Queueing a batch: one more sum. *)
LEMMA SumsAppend ==
    ASSUME NEW q \in Seq(Batches), NEW b \in Batches, NEW m \in Int,
           NEW sums \in [0..Len(q) -> Int], Labelled(q, sums, m),
           sums[Len(q)] + b.n = m, b.label <= m,
           NEW a, a = Append(q, b)
    PROVE  \E t \in [0..Len(a) -> Int] : /\ t[0] = sums[0] /\ t[Len(a)] = m
                                         /\ Labelled(a, t, m)
<1> DEFINE l == Len(q)
           t == [i \in 0..l + 1 |-> IF i = l + 1 THEN m ELSE sums[i]]
<1>1. l \in Nat /\ Len(a) = l + 1 /\ a[l + 1] = b /\ \A i \in 1..l : a[i] = q[i]
  BY Appended
<1>2. t \in [0..l + 1 -> Int] /\ t[0] = sums[0] /\ t[l + 1] = m
  BY <1>1
<1>3. \A i \in 1..l : t[i] = t[i - 1] + a[i].n /\ a[i].label <= t[i]
  BY <1>1 DEF Labelled
<1>4. t[l + 1] = t[l] + a[l + 1].n /\ a[l + 1].label <= t[l + 1]
  BY <1>1, <1>2
<1>5. \A i \in 0..l + 1 : t[i] <= m
  BY <1>1 DEF Labelled
<1>6. \A i \in 1..l + 1 : i \in 1..l \/ i = l + 1
  BY <1>1
<1> HIDE DEF t
<1>7. \A i \in 1..l + 1 : t[i] = t[i - 1] + a[i].n /\ a[i].label <= t[i]
  BY <1>3, <1>4, <1>6
<1>8. Labelled(a, t, m)
  BY Zenon, <1>1, <1>5, <1>7 DEF Labelled
<1> QED BY Zenon, <1>1, <1>2, <1>8

LEMMA PushOutputs ==
    ASSUME TypeInv, TypeInv', OutputsInv, NEW o \in OutputEndpoints, CPush(o)
    PROVE  OutputsInv'
<1> DEFINE b == [n |-> circuit.batch, label |-> circuit.processed]
           q == out[o].queue
<1>1. /\ circuit.pc = "push" /\ o \in circuit.cur /\ stepped' = stepped /\ g' = g
      /\ circuit'.pc \in {"top", "output"} /\ circuit'.todo = circuit.todo
      /\ circuit'.pc = "output" => circuit'.batch = circuit.batch /\ circuit'.processed = circuit.processed
      /\ circuit'.dead = circuit.dead
      /\ circuit'.pc = "top" => circuit.todo = {}
  BY Zenon DEF CPush, Looped, TypeInv, CircuitStates
<1>2. \A x \in OutputEndpoints \ {o} : out'[x] = out[x]
  BY Zenon DEF CPush, TypeInv
<1>3. out[o] \in OutStates /\ q \in Seq(Batches) /\ b \in Batches
  BY Zenon DEF TypeInv, OutStates, CircuitStates, Batches
<1>4. /\ out'[o].queue = Append(q, b) /\ out'[o].sent = out[o].sent /\ out'[o].pc = out[o].pc
      /\ out'[o].processed = out[o].processed /\ out'[o].connected = out[o].connected
      /\ out'[o].cur = out[o].cur /\ out'[o].stats = out[o].stats
      /\ out'[o].buffered = out[o].buffered /\ out'[o].uncounted = out[o].uncounted
  BY Zenon, <1>3 DEF CPush, TypeInv, OutStates
<1>5. /\ circuit.cur = {o} /\ o \in Connected /\ o \notin circuit.todo
      /\ circuit.todo \subseteq Connected /\ Connected' = Connected
  <2>1. circuit.todo \subseteq Connected /\ \E x \in Connected : circuit.cur = {x}
    BY Zenon, <1>1 DEF OutputsInv, LoopInv
  <2>2. circuit.cur \cap circuit.todo = {}
    BY Zenon, <1>1 DEF OutputsInv, LoopInv
  <2>3. \A x \in OutputEndpoints : out'[x].connected = out[x].connected
    BY Zenon, <1>2, <1>4
  <2>4. Connected' = Connected
    BY Zenon, <2>3 DEF Connected
  <2> QED BY Zenon, <1>1, <2>1, <2>2, <2>4
<1>6. LoopInv'
  BY Zenon, <1>1, <1>5 DEF LoopInv
<1>7. CountInv(o)'
  <2>1. CountInv(o) /\ Pushing(o) /\ ~Pushing(o)'
    BY Zenon, <1>1 DEF OutputsInv, Pushing
  <2>2. /\ circuit.batch \in Nat /\ out[o].cur.n \in Nat /\ Cardinality(Records(q)) \in Nat
    BY Zenon, <1>3, RecordsFinite DEF TypeInv, CircuitStates, OutStates, Batches
  <2>3. Cardinality(Records(out'[o].queue)) = Cardinality(Records(q)) + circuit.batch
    BY Zenon, <1>3, <1>4, RecordsAppend
  <2>4. CASE out[o].stats
    <3>1. ~out[o].uncounted => out[o].buffered = Cardinality(Records(q)) + out[o].cur.n + circuit.batch
      BY Zenon, <2>1, <2>4 DEF CountInv
    <3>2. ~out'[o].uncounted => /\ out'[o].stats
                                /\ out'[o].buffered = Cardinality(Records(out'[o].queue)) + out'[o].cur.n
                                     + (IF Pushing(o)' THEN circuit'.batch ELSE 0)
      BY SMTT(30), <1>4, <2>1, <2>2, <2>3, <2>4, <3>1
    <3>3. out'[o].pc \notin {"encode", "release"} => out'[o].cur.n = 0
      BY Zenon, <1>4, <2>1 DEF CountInv
    <3> QED BY Zenon, <3>2, <3>3, CountedNext
  <2>5. CASE ~out[o].stats
    <3>1. out'[o].pc \notin {"encode", "release"} => out'[o].cur.n = 0
      BY Zenon, <1>4, <2>1 DEF CountInv
    <3>2. out[o].uncounted
      BY Zenon, <2>1, <2>5 DEF CountInv
    <3> QED BY ZenonT(30), <1>4, <3>1, <3>2, NotCountedNext
  <2> QED BY Zenon, <2>4, <2>5
<1>8. ASSUME NEW x \in OutputEndpoints \ {o} PROVE CountInv(x)'
  BY Zenon, <1>1, <1>2, <1>5, CountKept DEF OutputsInv, Pushing
<1>9. ASSUME ~circuit.dead PROVE LabelInv(o)'
  <2>1. LabelInv(o) /\ out[o].connected /\ Owed(o) = circuit.batch /\ Owed(o)' = 0
    BY Zenon, <1>1, <1>5, <1>9 DEF OutputsInv, Owed, Pushing, Connected
  <2>2. PICK sums \in [0..Len(q) -> Int] : Sums(o, sums)
    BY Zenon, <2>1 DEF LabelInv
  <2>3. circuit.processed <= stepped /\ stepped \in Int
    BY <1>1, <1>9 DEF OutputsInv, CircuitInv, TypeInv, InputTypes
  <2>4. /\ Labelled(q, sums, stepped)
        /\ sums[Len(q)] + b.n = stepped /\ b.label <= stepped
    BY Zenon, <2>1, <2>2, <2>3 DEF Sums
  <2> DEFINE a == out'[o].queue
  <2>5. PICK t \in [0..Len(a) -> Int] : /\ t[0] = sums[0] /\ t[Len(a)] = stepped
                                        /\ Labelled(a, t, stepped)
    <3>1. a = Append(q, b) /\ q \in Seq(Batches) /\ b \in Batches
      BY Zenon, <1>3, <1>4
    <3> HIDE DEF a, q, b
    <3> QED BY SMTT(30), <2>3, <2>4, <3>1, SumsAppend
  <2>6. t[Len(a)] + 0 = stepped
    BY <2>3, <2>5
  <2>7. t[0] = out[o].sent + (IF out[o].pc = "encode" THEN out[o].cur.n ELSE 0)
    BY Zenon, <2>2, <2>5 DEF Sums
  <2>8. Sums(o, t)'
    BY Zenon, <1>1, <1>4, <2>1, <2>5, <2>6, <2>7 DEF Sums
  <2> QED BY Zenon, <1>4, <2>1, <2>8 DEF LabelInv
<1>10. ASSUME ~circuit.dead, NEW x \in OutputEndpoints \ {o} PROVE LabelInv(x)'
  <2>1. LabelInv(x)
    BY Zenon, <1>10 DEF OutputsInv
  <2>2. Owed(x)' = Owed(x)
    BY Zenon, <1>1, <1>5 DEF Owed, Pushing
  <2> QED BY Zenon, <1>1, <1>2, <2>1, <2>2, LabelKept
<1>11. ASSUME ~circuit.dead PROVE CircuitInv'
  BY Zenon, <1>1, <1>11 DEF OutputsInv, CircuitInv
<1> QED BY Zenon, <1>1, <1>6, <1>7, <1>8, <1>9, <1>10, <1>11 DEF OutputsInv

(* Taking a batch: one sum less. *)
LEMMA SumsTail ==
    ASSUME NEW q \in Seq(Batches), q # <<>>, NEW m \in Int,
           NEW sums \in [0..Len(q) -> Int], Labelled(q, sums, m)
    PROVE  \E t \in [0..Len(Tail(q)) -> Int] :
             /\ t[0] = sums[0] + Head(q).n /\ t[Len(Tail(q))] = sums[Len(q)]
             /\ Head(q).label <= t[0] /\ Labelled(Tail(q), t, m)
<1> DEFINE l == Len(q) - 1
           a == Tail(q)
           t == [i \in 0..l |-> sums[i + 1]]
<1>1. /\ l \in Nat /\ Len(a) = l /\ Len(q) = l + 1 /\ Head(q) = q[1]
      /\ \A i \in 1..l : a[i] = q[i + 1]
  BY HeadTail
<1>2. t \in [0..l -> Int] /\ t[0] = sums[1] /\ t[l] = sums[l + 1]
  BY <1>1
<1>3. sums[1] = sums[0] + q[1].n /\ q[1].label <= sums[1]
  <2>1. sums[1] = sums[1 - 1] + q[1].n /\ q[1].label <= sums[1]
    BY <1>1 DEF Labelled
  <2> QED BY <2>1
<1>4. ASSUME NEW i \in 1..l PROVE t[i] = t[i - 1] + a[i].n /\ a[i].label <= t[i]
  <2>1. i + 1 \in 1..Len(q) /\ a[i] = q[i + 1]
    BY <1>1
  <2>2. sums[i + 1] = sums[(i + 1) - 1] + q[i + 1].n /\ q[i + 1].label <= sums[i + 1]
    BY Zenon, <2>1 DEF Labelled
  <2>3. t[i] = sums[i + 1] /\ t[i - 1] = sums[(i + 1) - 1]
    BY <1>1
  <2> QED BY Zenon, <2>1, <2>2, <2>3
<1>5. \A i \in 0..l : t[i] <= m
  BY <1>1 DEF Labelled
<1> HIDE DEF t, a, l
<1>6. Labelled(a, t, m)
  BY Zenon, <1>1, <1>4, <1>5 DEF Labelled
<1> QED BY Zenon, <1>1, <1>2, <1>3, <1>6 DEF a

(* A step of the thread of output o leaves the other outputs alone. *)
LEMMA OutputAlone ==
    ASSUME OutputsInv, NEW o \in OutputEndpoints, \A x \in OutputEndpoints \ {o} : out'[x] = out[x],
           out'[o].connected = out[o].connected, UNCHANGED <<g, stepped>>,
           circuit'.pc = circuit.pc, circuit'.todo = circuit.todo, circuit'.cur = circuit.cur,
           circuit'.processed = circuit.processed, circuit'.batch = circuit.batch,
           circuit'.dead = circuit.dead,
           CountInv(o)', ~circuit.dead => LabelInv(o)'
    PROVE  OutputsInv'
<1>1. LoopInv'
  <2>1. \A x \in OutputEndpoints : out'[x].connected = out[x].connected
    BY Zenon
  <2>2. Connected' = Connected
    BY Zenon, <2>1 DEF Connected
  <2> QED BY Zenon, <2>2 DEF OutputsInv, LoopInv
<1>2. ASSUME NEW x \in OutputEndpoints \ {o} PROVE CountInv(x)'
  BY Zenon, CountKept DEF OutputsInv, Pushing
<1>3. ASSUME ~circuit.dead, NEW x \in OutputEndpoints \ {o} PROVE LabelInv(x)'
  <2>1. LabelInv(x) /\ Owed(x)' = Owed(x)
    BY Zenon, <1>3 DEF OutputsInv, Owed, Pushing
  <2> QED BY Zenon, <2>1, LabelKept
<1>4. ASSUME ~circuit.dead PROVE CircuitInv'
  BY Zenon, <1>4 DEF OutputsInv, CircuitInv
<1> QED BY Zenon, <1>1, <1>2, <1>3, <1>4 DEF OutputsInv

LEMMA TakeOutputs ==
    ASSUME TypeInv, OutputsInv, NEW o \in OutputEndpoints, OTop(o)
    PROVE  OutputsInv'
<1> DEFINE q == out[o].queue
<1>1. /\ out[o] \in OutStates /\ q \in Seq(Batches) /\ out[o].pc = "top" /\ out[o].connected
      /\ \A x \in OutputEndpoints \ {o} : out'[x] = out[x]
      /\ UNCHANGED <<g, stepped, circuit>>
  BY Zenon DEF OTop, TypeInv, OutStates
<1>2. /\ out'[o].connected = out[o].connected /\ out'[o].stats = out[o].stats
      /\ out'[o].uncounted = out[o].uncounted /\ out'[o].buffered = out[o].buffered
      /\ out'[o].sent = out[o].sent /\ out'[o].processed = out[o].processed
      /\ \/ /\ out'[o].pc \in {"exit", "park"} /\ out'[o].queue = q /\ out'[o].cur = out[o].cur
         \/ /\ out'[o].pc = "encode" /\ q # <<>> /\ out'[o].queue = Tail(q) /\ out'[o].cur = Head(q)
  BY Zenon, <1>1 DEF OTop, TypeInv, OutStates
<1>3. CountInv(o) /\ Pushing(o)' = Pushing(o)
  BY Zenon, <1>1 DEF OutputsInv, Pushing
<1>4. CASE out'[o].pc \in {"exit", "park"} /\ out'[o].queue = q /\ out'[o].cur = out[o].cur
  <2>1. CountInv(o)'
    BY Zenon, <1>1, <1>2, <1>3, <1>4 DEF CountInv
  <2>2. ASSUME ~circuit.dead PROVE LabelInv(o)'
    <3>1. LabelInv(o) /\ Owed(o)' = Owed(o)
      BY Zenon, <1>1, <2>2 DEF OutputsInv, Owed, Pushing
    <3> QED BY Zenon, <1>1, <1>2, <1>4, <3>1, LabelKept
  <2> QED BY Zenon, <1>1, <1>2, <2>1, <2>2, OutputAlone
<1>5. CASE out'[o].pc = "encode" /\ q # <<>> /\ out'[o].queue = Tail(q) /\ out'[o].cur = Head(q)
  <2>1. CountInv(o)'
    <3>1. Cardinality(Records(q)) = Cardinality(Records(Tail(q))) + Head(q).n
      BY Zenon, <1>1, <1>5, RecordsTail
    <3>2. Tail(q) \in Seq(Batches) /\ Head(q).n \in Nat
      <4>1. q \in Seq(Batches) /\ q # <<>>
        BY Zenon, <1>1, <1>5
      <4> HIDE DEF q
      <4>2. Tail(q) \in Seq(Batches) /\ Head(q) \in Batches
        BY Zenon, <4>1, HeadTail
      <4> QED BY Zenon, <4>2 DEF Batches
    <3>3. Cardinality(Records(Tail(q))) \in Nat
      BY Zenon, <3>2, RecordsFinite
    <3>4. out[o].cur.n = 0 /\ out[o].buffered \in Int /\ circuit.batch \in Nat
      BY Zenon, <1>1, <1>3 DEF CountInv, OutStates, TypeInv, CircuitStates
    <3>5. CASE out[o].stats
      <4>1. ~out[o].uncounted => out[o].buffered =
              Cardinality(Records(q)) + 0 + (IF Pushing(o) THEN circuit.batch ELSE 0)
        BY Zenon, <1>3, <3>4, <3>5 DEF CountInv
      <4>2. ~out[o].uncounted => out[o].buffered =
              Cardinality(Records(Tail(q))) + Head(q).n + (IF Pushing(o) THEN circuit.batch ELSE 0)
        BY SMTT(30), <3>1, <3>2, <3>3, <3>4, <4>1
      <4> QED BY Zenon, <1>1, <1>2, <1>3, <1>5, <3>5, <4>2 DEF CountInv
    <3>6. CASE ~out[o].stats
      BY Zenon, <1>2, <1>3, <1>5, <3>6 DEF CountInv
    <3> QED BY Zenon, <3>5, <3>6
  <2>2. ASSUME ~circuit.dead PROVE LabelInv(o)'
    <3>1. LabelInv(o) /\ Owed(o)' = Owed(o)
      BY Zenon, <1>1, <2>2 DEF OutputsInv, Owed, Pushing
    <3>2. PICK sums \in [0..Len(q) -> Int] : Sums(o, sums)
      BY Zenon, <1>1, <3>1 DEF LabelInv
    <3>3. Labelled(q, sums, stepped) /\ stepped \in Int
      BY <3>2 DEF Sums, TypeInv, InputTypes
    <3>4. PICK t \in [0..Len(Tail(q)) -> Int] :
             /\ t[0] = sums[0] + Head(q).n /\ t[Len(Tail(q))] = sums[Len(q)]
             /\ Head(q).label <= t[0] /\ Labelled(Tail(q), t, stepped)
      <4>1. q \in Seq(Batches) /\ q # <<>>
        BY Zenon, <1>1, <1>5
      <4> HIDE DEF q
      <4> QED BY Zenon, <3>3, <4>1, SumsTail
    <3>5. sums[0] = out[o].sent
      BY SMTT(30), <1>1, <3>2 DEF Sums, OutStates
    <3>6. t[0] = out'[o].sent + out'[o].cur.n
      BY Zenon, <1>2, <1>5, <3>4, <3>5
    <3>7. t[Len(Tail(q))] + Owed(o) = stepped
      BY Zenon, <3>2, <3>4 DEF Sums
    <3>8. Sums(o, t)'
      BY Zenon, <1>1, <1>5, <3>1, <3>4, <3>6, <3>7 DEF Sums
    <3>9. out'[o].cur.label <= out'[o].sent + out'[o].cur.n
      BY Zenon, <1>5, <3>4, <3>6
    <3> QED BY Zenon, <1>1, <1>2, <1>5, <3>1, <3>4, <3>8, <3>9 DEF LabelInv
  <2> QED BY Zenon, <1>1, <1>2, <2>1, <2>2, OutputAlone
<1> QED BY Zenon, <1>2, <1>4, <1>5

LEMMA OutputOutputs ==
    ASSUME TypeInv, OutputsInv, NEW o \in OutputEndpoints, OutputThread(o)
    PROVE  OutputsInv'
<1>0. out[o] \in OutStates /\ out[o].cur \in Batches
  BY Zenon DEF TypeInv, OutStates
<1>c. CountInv(o)
  BY Zenon DEF OutputsInv
<1>l. ASSUME ~circuit.dead PROVE LabelInv(o)
  BY Zenon, <1>l DEF OutputsInv
<1>1. CASE OTop(o)
  BY Zenon, <1>1, TakeOutputs
<1>2. CASE OPark(o)
  <2>1. /\ out[o].pc = "park" /\ out'[o].pc = "top" /\ out'[o].connected = out[o].connected
        /\ out'[o].stats = out[o].stats /\ out'[o].uncounted = out[o].uncounted
        /\ out'[o].buffered = out[o].buffered /\ out'[o].sent = out[o].sent
        /\ out'[o].processed = out[o].processed /\ out'[o].queue = out[o].queue
        /\ out'[o].cur = out[o].cur
    BY Zenon, <1>0, <1>2 DEF OPark, TypeInv, OutStates
  <2>2. (\A x \in OutputEndpoints \ {o} : out'[x] = out[x]) /\ UNCHANGED <<g, stepped, circuit>>
    BY Zenon, <1>2 DEF OPark, TypeInv
  <2>3. CountInv(o)'
    BY Zenon, <1>c, <2>1, <2>2 DEF CountInv, Pushing
  <2>4. ASSUME ~circuit.dead PROVE LabelInv(o)'
    <3>1. out[o].connected
      BY Zenon, <1>l, <2>1, <2>4 DEF LabelInv
    <3>2. Owed(o)' = Owed(o)
      BY Zenon, <2>2 DEF Owed, Pushing
    <3> QED BY Zenon, <1>l, <2>1, <2>2, <2>4, <3>1, <3>2, LabelKept
  <2> QED BY Zenon, <2>1, <2>2, <2>3, <2>4, OutputAlone
<1>3. CASE OEncode(o)
  <2>0. out[o].cur.n \in Nat /\ out[o].cur.label \in Nat /\ out[o].sent \in Int
    BY Zenon, <1>0 DEF OutStates, Batches
  <2>1. /\ out[o].pc = "encode" /\ out'[o].connected = out[o].connected
        /\ out'[o].stats = out[o].stats /\ out'[o].uncounted = out[o].uncounted
        /\ out'[o].buffered = out[o].buffered /\ out'[o].queue = out[o].queue
        /\ out'[o].sent = out[o].sent + out[o].cur.n
    BY Zenon, <1>0, <1>3 DEF OEncode, TypeInv, OutStates
  <2>2. IF out[o].stats
        THEN out'[o].pc = "release" /\ out'[o].processed = out[o].cur.label /\ out'[o].cur = out[o].cur
        ELSE out'[o].pc = "top" /\ out'[o].processed = out[o].processed /\ out'[o].cur.n = 0
    BY Zenon, <1>0, <1>3 DEF OEncode, TypeInv, OutStates
  <2>3. (\A x \in OutputEndpoints \ {o} : out'[x] = out[x]) /\ UNCHANGED <<g, stepped, circuit>>
    BY Zenon, <1>3 DEF OEncode, TypeInv
  <2>4. CountInv(o)'
    BY Zenon, <1>c, <2>1, <2>2, <2>3 DEF CountInv, Pushing
  <2>5. ASSUME ~circuit.dead PROVE LabelInv(o)'
    <3>1. LabelInv(o) /\ out[o].connected /\ Owed(o)' = Owed(o)
      BY Zenon, <1>l, <2>1, <2>3, <2>5 DEF LabelInv, Owed, Pushing
    <3>2. ASSUME NEW sums, Sums(o, sums) PROVE Sums(o, sums)'
      <4>1. sums[0] = out[o].sent + out[o].cur.n
        BY Zenon, <2>1, <3>2 DEF Sums
      <4>2. out'[o].pc # "encode" /\ sums[0] = out'[o].sent + 0
        BY SMTT(30), <2>0, <2>1, <2>2, <4>1
      <4> QED BY Zenon, <2>1, <2>3, <3>1, <3>2, <4>2 DEF Sums
    <3>3. out'[o].processed <= out'[o].sent
      <4>1. out[o].processed <= out[o].sent /\ out[o].cur.label <= out[o].sent + out[o].cur.n
        BY Zenon, <2>1, <3>1 DEF LabelInv
      <4>2. out[o].processed \in Nat
        BY Zenon, <1>0 DEF OutStates
      <4> QED BY SMTT(30), <2>0, <2>1, <2>2, <4>1, <4>2
    <3> QED BY Zenon, <2>1, <2>2, <3>1, <3>2, <3>3 DEF LabelInv
  <2> QED BY Zenon, <2>1, <2>3, <2>4, <2>5, OutputAlone
<1>4. CASE ORelease(o)
  <2>0. out[o].cur.n \in Nat /\ out[o].buffered \in Int
    BY Zenon, <1>0 DEF OutStates, Batches
  <2>1. /\ out[o].pc = "release" /\ out'[o].pc = "top" /\ out'[o].connected = out[o].connected
        /\ out'[o].stats = out[o].stats /\ out'[o].uncounted = out[o].uncounted
        /\ out'[o].sent = out[o].sent /\ out'[o].processed = out[o].processed
        /\ out'[o].queue = out[o].queue /\ out'[o].cur.n = 0
        /\ out'[o].buffered = out[o].buffered - out[o].cur.n
    BY Zenon, <1>0, <1>4 DEF ORelease, TypeInv, OutStates
  <2>2. /\ circuit'.pc = circuit.pc /\ circuit'.todo = circuit.todo /\ circuit'.cur = circuit.cur
        /\ circuit'.processed = circuit.processed /\ circuit'.batch = circuit.batch
        /\ circuit'.dead = circuit.dead
    BY Zenon, <1>4 DEF ORelease, TypeInv, CircuitStates
  <2>3. (\A x \in OutputEndpoints \ {o} : out'[x] = out[x]) /\ UNCHANGED <<g, stepped>>
    BY Zenon, <1>4 DEF ORelease, TypeInv
  <2>4. CountInv(o)'
    <3>1. Cardinality(Records(out[o].queue)) \in Nat /\ circuit.batch \in Nat
      BY Zenon, <1>0, RecordsFinite DEF OutStates, TypeInv, CircuitStates
    <3>2. Pushing(o)' = Pushing(o)
      BY Zenon, <2>2 DEF Pushing
    <3>3. CASE out[o].stats
      <4>1. ~out[o].uncounted => out[o].buffered = Cardinality(Records(out[o].queue))
              + out[o].cur.n + (IF Pushing(o) THEN circuit.batch ELSE 0)
        BY Zenon, <1>c, <3>3 DEF CountInv
      <4>2. ~out[o].uncounted => out'[o].buffered = Cardinality(Records(out[o].queue))
              + 0 + (IF Pushing(o) THEN circuit.batch ELSE 0)
        BY SMTT(30), <2>0, <2>1, <3>1, <4>1
      <4>3. ~out'[o].uncounted => /\ out'[o].stats
                                  /\ out'[o].buffered = Cardinality(Records(out'[o].queue)) + out'[o].cur.n
                                       + (IF Pushing(o)' THEN circuit'.batch ELSE 0)
        BY Zenon, <2>1, <2>2, <3>2, <3>3, <4>2
      <4> QED BY Zenon, <2>1, <4>3, CountedNext
    <3>4. CASE ~out[o].stats
      <4>1. ~out[o].uncounted => /\ out[o].queue = <<>> /\ out[o].cur.n = 0 /\ out[o].buffered = 0
                                 /\ ~Pushing(o)
        BY Zenon, <1>c, <3>4 DEF CountInv
      <4>2. ~out'[o].uncounted => /\ ~out'[o].stats /\ out'[o].queue = <<>> /\ out'[o].cur.n = 0
                                  /\ out'[o].buffered = 0 /\ ~Pushing(o)'
        BY SMTT(30), <2>0, <2>1, <3>2, <3>4, <4>1
      <4> QED BY Zenon, <2>1, <4>2, NotCountedNext
    <3> QED BY Zenon, <3>3, <3>4
  <2>5. ASSUME ~circuit.dead PROVE LabelInv(o)'
    <3>1. out[o].connected
      BY Zenon, <1>l, <2>1, <2>5 DEF LabelInv
    <3>2. Owed(o)' = Owed(o)
      BY Zenon, <2>2 DEF Owed, Pushing
    <3> QED BY Zenon, <1>l, <2>1, <2>3, <2>5, <3>1, <3>2, LabelKept
  <2> QED BY Zenon, <2>1, <2>2, <2>3, <2>4, <2>5, OutputAlone
<1> QED BY Zenon, <1>1, <1>2, <1>3, <1>4 DEF OutputThread

(* An output that connects owes nothing for the steps before. *)
LEMMA ConnectOutputs ==
    ASSUME TypeInv, OutputsInv, NEW o \in OutputEndpoints, connect_output(o)
    PROVE  OutputsInv'
<1> DEFINE owed == IF circuit.pc = "processed" THEN circuit.batch ELSE 0
<1>0. out[o] \in OutStates
  BY Zenon DEF TypeInv
<1>1. /\ circuit.pc \notin {"output", "push"} /\ ~out[o].connected /\ out'[o].connected
      /\ UNCHANGED <<g, stepped, circuit>>
      /\ \A x \in OutputEndpoints \ {o} : out'[x] = out[x]
  BY Zenon, <1>0 DEF connect_output, TypeInv, OutStates
<1>2. /\ out'[o].stats = out[o].stats /\ out'[o].uncounted = out[o].uncounted
      /\ out'[o].buffered = out[o].buffered /\ out'[o].queue = out[o].queue
      /\ out'[o].sent = stepped - owed /\ out'[o].processed = out[o].processed
      /\ out'[o].pc = out[o].pc /\ out'[o].cur = out[o].cur
  BY Zenon, <1>0 DEF connect_output, TypeInv, OutStates
<1>3. LoopInv'
  BY Zenon, <1>1 DEF LoopInv
<1>4. CountInv(o)'
  <2>1. CountInv(o)
    BY Zenon DEF OutputsInv
  <2> QED BY Zenon, <1>1, <1>2, <2>1 DEF CountInv, Pushing
<1>5. ASSUME NEW x \in OutputEndpoints \ {o} PROVE CountInv(x)'
  BY Zenon, <1>1, CountKept DEF OutputsInv, Pushing
<1>6. ASSUME ~circuit.dead, NEW x \in OutputEndpoints \ {o} PROVE LabelInv(x)'
  <2>1. LabelInv(x) /\ Owed(x)' = Owed(x)
    BY Zenon, <1>1, <1>6 DEF OutputsInv, Owed, Pushing
  <2> QED BY Zenon, <1>1, <2>1, LabelKept
<1>7. ASSUME ~circuit.dead PROVE LabelInv(o)'
  <2>1. LabelInv(o) /\ Owed(o)' = owed
    BY Zenon, <1>1, <1>7 DEF OutputsInv, Owed, Pushing
  <2>2. out[o].pc = "top" /\ out[o].queue = <<>> /\ out[o].processed = 0
    BY Zenon, <1>1, <2>1 DEF LabelInv
  <2>3. stepped \in Nat /\ owed \in Nat /\ owed <= stepped
    BY <1>7 DEF TypeInv, InputTypes, CircuitStates, OutputsInv, CircuitInv
  <2> DEFINE sent == stepped - owed
  <2>4. sent \in Int /\ 0 <= sent /\ sent <= stepped /\ sent + owed = stepped /\ sent + 0 = sent
    <3> HIDE DEF owed
    <3> QED BY <2>3
  <2> HIDE DEF sent, owed
  <2>5. PICK sums \in [0..0 -> Int] : sums[0] = sent /\ 0..0 = {0} /\ 1..0 = {}
    <3> DEFINE s == [i \in 0..0 |-> sent]
    <3>1. s \in [0..0 -> Int] /\ s[0] = sent /\ 0..0 = {0} /\ 1..0 = {}
      BY <2>4
    <3> HIDE DEF s
    <3> QED BY Zenon, <3>1
  <2>6. Labelled(<<>>, sums, stepped)
    BY Zenon, <2>4, <2>5 DEF Labelled
  <2>7. Sums(o, sums)'
    <3>1. out'[o].sent = sent /\ out'[o].pc # "encode" /\ out'[o].queue = <<>> /\ Len(<<>>) = 0
      BY Zenon, <1>2, <2>2 DEF sent
    <3>2. Owed(o)' = owed /\ stepped' = stepped
      BY Zenon, <1>1, <2>1
    <3> QED BY Zenon, <2>4, <2>5, <2>6, <3>1, <3>2 DEF Sums
  <2>8. \E s \in [0..Len(out'[o].queue) -> Int] : Sums(o, s)'
    <3>1. Len(out'[o].queue) = 0
      BY <1>2, <2>2
    <3> QED BY Zenon, <2>5, <2>7, <3>1
  <2> QED BY Zenon, <1>1, <1>2, <2>2, <2>4, <2>8 DEF LabelInv, sent
<1>8. ASSUME ~circuit.dead PROVE CircuitInv'
  BY Zenon, <1>1, <1>8 DEF OutputsInv, CircuitInv
<1> QED BY Zenon, <1>1, <1>3, <1>4, <1>5, <1>6, <1>7, <1>8 DEF OutputsInv

LEMMA ClientOutputs ==
    ASSUME TypeInv, OutputsInv, Client
    PROVE  OutputsInv'
<1>0. circuit \in CircuitStates /\ g.total \in Nat /\ g.total <= g.total
  BY DEF TypeInv, InputTypes
<1>1. CASE start \/ pause \/ add_input
  BY Zenon, <1>0, <1>1, OutputsKept DEF start, pause, add_input
<1>2. CASE stop
  <2>1. /\ circuit'.pc = circuit.pc /\ circuit'.todo = circuit.todo /\ circuit'.cur = circuit.cur
        /\ circuit'.processed = circuit.processed /\ circuit'.batch = circuit.batch
        /\ circuit'.dead = circuit.dead
    BY Zenon, <1>0, <1>2 DEF stop, unpark_circuit, CircuitStates
  <2> QED BY Zenon, <1>0, <1>2, <2>1, OutputsKept DEF stop
<1>3. ASSUME NEW e \in Endpoints, connect_input(e) PROVE OutputsInv'
  BY Zenon, <1>0, <1>3, OutputsKept DEF connect_input
<1>4. ASSUME NEW o \in OutputEndpoints, connect_output(o) PROVE OutputsInv'
  BY Zenon, <1>4, ConnectOutputs
<1>5. CASE add_output
  <2>1. UNCHANGED <<g, stepped, circuit>>
    BY Zenon, <1>5 DEF add_output
  <2>2. ASSUME NEW o \in OutputEndpoints
        PROVE  /\ out'[o].queue = out[o].queue /\ out'[o].sent = out[o].sent
               /\ out'[o].pc = out[o].pc /\ out'[o].processed = out[o].processed
               /\ out'[o].connected = out[o].connected /\ out'[o].cur = out[o].cur
               /\ out'[o].buffered = out[o].buffered /\ out'[o].uncounted = out[o].uncounted
               /\ out[o].stats => out'[o].stats
    BY Zenon, <1>5 DEF add_output, TypeInv, OutStates
  <2>3. LoopInv'
    <3>1. Connected' = Connected
      BY Zenon, <2>2 DEF Connected
    <3> QED BY Zenon, <2>1, <3>1 DEF OutputsInv, LoopInv
  <2>4. ASSUME NEW o \in OutputEndpoints PROVE CountInv(o)'
    <3>1. CountInv(o) /\ (Pushing(o)' <=> Pushing(o))
      BY Zenon, <2>1 DEF OutputsInv, Pushing
    <3>0. out'[o].pc \notin {"encode", "release"} => out'[o].cur.n = 0
      BY Zenon, <2>2, <3>1 DEF CountInv
    <3>2. CASE out[o].stats
      <4>1. ~out[o].uncounted => out[o].buffered = Cardinality(Records(out[o].queue)) + out[o].cur.n
              + (IF Pushing(o) THEN circuit.batch ELSE 0)
        BY Zenon, <3>1, <3>2 DEF CountInv
      <4>2. ~out'[o].uncounted => /\ out'[o].stats
                                  /\ out'[o].buffered = Cardinality(Records(out'[o].queue)) + out'[o].cur.n
                                       + (IF Pushing(o)' THEN circuit'.batch ELSE 0)
        BY Zenon, <2>1, <2>2, <3>1, <3>2, <4>1
      <4> QED BY Zenon, <3>0, <4>2, CountedNext
    <3>3. CASE ~out[o].stats
      <4>1. ~out[o].uncounted => /\ out[o].queue = <<>> /\ out[o].cur.n = 0
                                 /\ out[o].buffered = 0 /\ ~Pushing(o)
        BY Zenon, <3>1, <3>3 DEF CountInv
      <4>2. <<>> \in Seq(Batches)
        OBVIOUS
      <4>3. Cardinality(Records(<<>>)) = 0
        BY Zenon, <4>2, RecordsFinite
      <4>4. CASE out'[o].stats
        <5>1. ~out'[o].uncounted => /\ out'[o].stats
                                    /\ out'[o].buffered = Cardinality(Records(out'[o].queue)) + out'[o].cur.n
                                         + (IF Pushing(o)' THEN circuit'.batch ELSE 0)
          BY <2>2, <3>1, <4>1, <4>3, <4>4
        <5> QED BY Zenon, <3>0, <5>1, CountedNext
      <4>5. CASE ~out'[o].stats
        <5>1. ~out'[o].uncounted => /\ ~out'[o].stats /\ out'[o].queue = <<>> /\ out'[o].cur.n = 0
                                    /\ out'[o].buffered = 0 /\ ~Pushing(o)'
          BY Zenon, <2>2, <3>1, <4>1, <4>5
        <5> QED BY Zenon, <3>0, <5>1, NotCountedNext
      <4> QED BY Zenon, <4>4, <4>5
    <3> QED BY Zenon, <3>2, <3>3
  <2>5. ASSUME ~circuit.dead, NEW o \in OutputEndpoints PROVE LabelInv(o)'
    <3>1. LabelInv(o) /\ Owed(o)' = Owed(o)
      BY Zenon, <2>1, <2>5 DEF OutputsInv, Owed, Pushing
    <3> QED BY Zenon, <2>1, <2>2, <3>1, LabelKept
  <2>6. ASSUME ~circuit.dead PROVE CircuitInv'
    BY Zenon, <2>1, <2>6 DEF OutputsInv, CircuitInv
  <2> QED BY Zenon, <2>1, <2>3, <2>4, <2>5, <2>6 DEF OutputsInv
<1> QED BY Zenon, <1>1, <1>2, <1>3, <1>4, <1>5 DEF Client

LEMMA EndpointOutputs ==
    ASSUME TypeInv, TypeInv', OutputsInv, NEW e \in Endpoints, Endpoint(e)
    PROVE  OutputsInv'
<1>0. circuit \in CircuitStates /\ g.total \in Nat /\ g'.total \in Nat
  BY Zenon DEF TypeInv, InputTypes
<1>1. UNCHANGED <<out, stepped>>
  BY ZenonT(30) DEF Endpoint, EpCheck, EpInput, EpReadError, EpEoi, EpTotal, EpBuffered, EpWakeCircuit,
         EpEndpoint, EpWakeBackpressure, EpSetEoi
<1>2. g'.processed = g.processed /\ g.total <= g'.total
  <2>1. CASE EpTotal(e)
    <3>1. ep[e].n \in Nat
      BY Zenon DEF TypeInv, EpStates
    <3> QED BY <1>0, <2>1, <3>1 DEF EpTotal, TypeInv, InputTypes
  <2>2. CASE EpBuffered(e)
    BY <1>0, <2>2 DEF EpBuffered, TypeInv, InputTypes
  <2>3. CASE g' = g
    BY SMTT(30), <1>0, <2>3
  <2> QED BY Zenon, <2>1, <2>2, <2>3
          DEF Endpoint, EpCheck, EpInput, EpReadError, EpEoi, EpWakeCircuit, EpEndpoint,
              EpWakeBackpressure, EpSetEoi
<1>3. /\ circuit'.pc = circuit.pc /\ circuit'.todo = circuit.todo /\ circuit'.cur = circuit.cur
      /\ circuit'.processed = circuit.processed /\ circuit'.batch = circuit.batch
      /\ circuit'.dead = circuit.dead
  <2>1. CASE EpWakeCircuit(e)
    BY Zenon, <1>0, <2>1 DEF EpWakeCircuit, unpark_circuit, CircuitStates
  <2>2. CASE circuit' = circuit
    BY Zenon, <2>2
  <2> QED BY Zenon, <2>1, <2>2
          DEF Endpoint, EpCheck, EpInput, EpReadError, EpEoi, EpTotal, EpBuffered, EpEndpoint,
              EpWakeBackpressure, EpSetEoi
<1> QED BY Zenon, <1>0, <1>1, <1>2, <1>3, OutputsKept

LEMMA CircuitOutputs ==
    ASSUME TypeInv, TypeInv', InputsInv, OutputsInv, CircuitThread
    PROVE  OutputsInv'
<1>1. CASE CTop \/ CStepNow \/ CWait \/ CPark \/ CParkTimeout
  <2>1. Idle /\ Idle' /\ circuit'.pc # "step" /\ circuit'.dead = circuit.dead
    <3>1. CASE CTop
      BY Zenon, <3>1 DEF CTop, TypeInv, CircuitStates, Idle
    <3>2. CASE CWait
      BY Zenon, <3>2 DEF CWait, TypeInv, CircuitStates, Idle
    <3>3. CASE CStepNow \/ CPark \/ CParkTimeout
      BY Zenon, <3>3 DEF CStepNow, CPark, CParkTimeout, TypeInv, CircuitStates, Idle
    <3> QED BY Zenon, <1>1, <3>1, <3>2, <3>3
  <2>2. UNCHANGED <<out, stepped, g>>
    BY Zenon, <1>1 DEF CTop, CStepNow, CWait, CPark, CParkTimeout
  <2> QED BY Zenon, <2>1, <2>2, CircuitIdles
<1>2. CASE CConsume
  <2>1. Idle /\ Idle' /\ circuit'.pc # "step" /\ circuit'.dead = circuit.dead
    BY Zenon, <1>2 DEF CConsume, TypeInv, CircuitStates, Idle
  <2>2. UNCHANGED <<out, stepped>> /\ g'.processed = g.processed
    BY Zenon, <1>2 DEF CConsume, TypeInv, InputTypes
  <2> QED BY Zenon, <2>1, <2>2, CircuitIdles
<1>3. ASSUME NEW e \in Endpoints, CConsumeEp(e) PROVE OutputsInv'
  <2>1. Idle /\ Idle' /\ circuit'.pc # "step" /\ circuit'.dead = circuit.dead
    BY Zenon, <1>3 DEF CConsumeEp, TypeInv, CircuitStates, Idle
  <2>2. UNCHANGED <<out, stepped, g>>
    BY Zenon, <1>3 DEF CConsumeEp
  <2> QED BY Zenon, <2>1, <2>2, CircuitIdles
<1>4. CASE CReadTotal
  <2>1. Idle /\ Idle' /\ circuit'.processed = g.total /\ circuit'.dead = circuit.dead
    BY Zenon, <1>4 DEF CReadTotal, TypeInv, CircuitStates, Idle
  <2>2. UNCHANGED <<out, stepped, g>> /\ g.total <= g.total
    BY <1>4 DEF CReadTotal, TypeInv, InputTypes
  <2> QED BY Zenon, <2>1, <2>2, CircuitIdles
<1>5. CASE CStep
  BY Zenon, <1>5, StepOutputs
<1>6. CASE CProcessed
  BY Zenon, <1>6, ProcessedOutputs
<1>7. ASSUME NEW o \in OutputEndpoints, CEnqueue(o) \/ CPush(o) PROVE OutputsInv'
  BY Zenon, <1>7, EnqueueOutputs, PushOutputs
<1> QED BY Zenon, <1>1, <1>2, <1>3, <1>4, <1>5, <1>6, <1>7 DEF CircuitThread

-----------------------------------------------------------------------------
(* The invariant. *)

LEMMA InitInv == Init => ControllerInv
<1> SUFFICES ASSUME Init PROVE ControllerInv
  BY Zenon
<1>1. TypeInv
  BY Zenon, InitTypes
<1>2. InputsInv
  <2>1. InFlight = {}
    BY Zenon DEF Init, InFlight
  <2>2. Cardinality(InFlight) = 0
    BY Zenon, <2>1, FS_EmptySet
  <2> QED BY Zenon, <2>2 DEF Init, InputsInv
<1>3. OutputsInv
  <2>1. circuit.pc = "top" /\ g.processed = 0 /\ stepped = 0
    BY Zenon DEF Init
  <2>2. ASSUME NEW o \in OutputEndpoints
        PROVE  /\ out[o].pc = "top" /\ out[o].queue = <<>> /\ out[o].buffered = 0
               /\ out[o].processed = 0 /\ out[o].sent = 0 /\ out[o].cur.n = 0
    BY Zenon DEF Init
  <2>3. ASSUME NEW o \in OutputEndpoints PROVE CountInv(o)
    <3>1. <<>> \in Seq(Batches)
      OBVIOUS
    <3>2. Cardinality(Records(<<>>)) = 0
      BY Zenon, <3>1, RecordsFinite
    <3> QED BY <2>1, <2>2, <3>2 DEF CountInv, Pushing
  <2>4. ASSUME NEW o \in OutputEndpoints PROVE LabelInv(o)
    <3> DEFINE sums == [i \in 0..0 |-> 0]
    <3>1. sums \in [0..0 -> Int] /\ sums[0] = 0 /\ 0..0 = {0} /\ 1..0 = {}
      OBVIOUS
    <3> HIDE DEF sums
    <3>2. Labelled(<<>>, sums, 0)
      BY <3>1 DEF Labelled
    <3>3. Owed(o) = 0 /\ Len(<<>>) = 0
      BY Zenon, <2>1 DEF Owed, Pushing
    <3>4. Sums(o, sums)
      BY <2>1, <2>2, <3>1, <3>2, <3>3 DEF Sums
    <3>5. \E s \in [0..Len(out[o].queue) -> Int] : Sums(o, s)
      <4>1. Len(out[o].queue) = 0
        BY Zenon, <2>2, <3>3
      <4> QED BY Zenon, <3>1, <3>4, <4>1
    <3>6. out[o].processed <= out[o].sent /\ out[o].pc # "encode"
      BY <2>2
    <3> QED BY Zenon, <2>2, <3>5, <3>6 DEF LabelInv
  <2> QED BY <2>1, <2>3, <2>4 DEF OutputsInv, LoopInv, CircuitInv
<1> QED BY Zenon, <1>1, <1>2, <1>3 DEF ControllerInv

LEMMA NextInv == ControllerInv /\ [Next]_vars => ControllerInv'
<1> SUFFICES ASSUME ControllerInv, [Next]_vars PROVE ControllerInv'
  BY Zenon
<1> USE DEF ControllerInv
<1>0. circuit \in CircuitStates /\ g.total \in Nat /\ g.total <= g.total
  BY DEF TypeInv, InputTypes
<1>1. CASE CircuitThread
  BY Zenon, <1>1, CircuitTypes, CircuitInputs, CircuitOutputs
<1>2. CASE BackpressureThread
  <2>1. UNCHANGED <<out, stepped, g, circuit>>
    BY Zenon, <1>2 DEF BackpressureThread, BLock, BUnlock, BPark, BPause, BRun
  <2>2. OutputsInv'
    BY Zenon, <1>0, <2>1, OutputsKept
  <2> QED BY Zenon, <1>2, <2>2, BackpressureTypes, BackpressureInputs
<1>3. CASE Client
  BY Zenon, <1>3, ClientTypes, ClientInputs, ClientOutputs
<1>4. ASSUME NEW e \in Endpoints, Endpoint(e) PROVE ControllerInv'
  BY Zenon, <1>4, EndpointTypes, EndpointInputs, EndpointOutputs
<1>5. ASSUME NEW o \in OutputEndpoints, OutputThread(o) PROVE ControllerInv'
  <2>1. UNCHANGED <<inputs, stats, ep, handle, stepped, g, bp, client>>
    BY Zenon, <1>5 DEF OutputThread, OTop, OPark, OEncode, ORelease
  <2>2. InputsInv'
    BY Zenon, <2>1, InputsKept
  <2> QED BY Zenon, <1>5, <2>2, OutputTypes, OutputOutputs
<1>6. CASE UNCHANGED vars
  <2>1. TypeInv'
    BY Zenon, <1>6 DEF vars, TypeInv, InputTypes
  <2>2. InputsInv'
    BY Zenon, <1>6, InputsKept DEF vars
  <2>3. OutputsInv'
    BY Zenon, <1>0, <1>6, OutputsKept DEF vars
  <2> QED BY Zenon, <2>1, <2>2, <2>3
<1> QED BY Zenon, <1>1, <1>2, <1>3, <1>4, <1>5, <1>6 DEF Next

LEMMA ControllerInvariant == Spec => []ControllerInv
BY InitInv, NextInv, PTL DEF Spec

(* Whatever the interleaving of the circuit thread, the output threads and  *)
(* connect_output, the buffered counter of an output counts what is on its  *)
(* way to the encoder: it never goes negative (OutputBatch "Increment stats *)
(* first"), so backpressure on outputs is neither stuck nor late.           *)
THEOREM BufferedIsAccounted == Spec => []OutputAccounting
<1>1. ControllerInv => OutputAccounting
  <2> SUFFICES ASSUME ControllerInv, NEW o \in {q \in Counted : ~out[q].uncounted}
               PROVE  out[o].buffered = Cardinality(Records(out[o].queue)) + out[o].cur.n
                        + (IF circuit.pc = "push" /\ o \in circuit.cur THEN circuit.batch ELSE 0)
    BY Zenon DEF OutputAccounting
  <2>1. o \in OutputEndpoints /\ CountInv(o) /\ out[o].stats
    BY Zenon DEF ControllerInv, OutputsInv, Counted
  <2> QED BY Zenon, <2>1 DEF CountInv, Pushing
<1> QED BY <1>1, ControllerInvariant, PTL

(* No counter of processed records runs ahead of the data, and a pipeline   *)
(* that pipeline_complete calls complete has no record left in an input     *)
(* handle, in the circuit or on the way to an encoder, for any number of    *)
(* endpoints and any calls of the client.                                   *)
THEOREM CompletionIsTrue == Spec => []CompleteMeansDone
<1>1. ControllerInv => CompleteMeansDone
  <2> SUFFICES ASSUME ControllerInv, ~circuit.dead
               PROVE  /\ g.processed <= stepped
                      /\ \A o \in OutputEndpoints : out[o].processed <= out[o].sent
                      /\ pipeline_complete /\ client.pc # "add_input" =>
                           handle = 0 /\ \A o \in Counted : out[o].sent = stepped
    BY Zenon DEF CompleteMeansDone
  <2>1. CircuitInv /\ \A o \in OutputEndpoints : LabelInv(o)
    BY Zenon DEF ControllerInv, OutputsInv
  <2>2. g.processed <= stepped /\ \A o \in OutputEndpoints : out[o].processed <= out[o].sent
    BY Zenon, <2>1 DEF CircuitInv, LabelInv
  <2>3. ASSUME pipeline_complete, client.pc # "add_input"
        PROVE  handle = 0 /\ \A o \in Counted : out[o].sent = stepped
    <3>1. stepped \in Nat /\ handle \in Nat /\ g.total \in Nat /\ g.processed = g.total
      BY Zenon, <2>3 DEF ControllerInv, TypeInv, InputTypes, pipeline_complete
    <3>2. \A e \in Endpoints : ep[e].pc # "total"
      <4>1. \A e \in stats : ep[e].eoi
        BY Zenon, <2>3 DEF pipeline_complete
      <4>2. inputs \subseteq stats /\ stats \subseteq Endpoints
        BY Zenon, <2>3 DEF ControllerInv, TypeInv, InputTypes, InputsInv
      <4> QED BY Zenon, <4>1, <4>2 DEF ControllerInv, InputsInv
    <3>3. InFlight = {}
      BY Zenon, <3>2 DEF InFlight
    <3>4. g.total + 0 = handle + stepped
      BY Zenon, <3>3, FS_EmptySet DEF ControllerInv, InputsInv
    <3>5. handle = 0 /\ g.total = stepped
      BY <2>2, <3>1, <3>4
    <3>6. ASSUME NEW o \in Counted PROVE out[o].sent = stepped
      <4>1. o \in OutputEndpoints /\ out[o].processed = stepped /\ LabelInv(o) /\ out[o] \in OutStates
        BY Zenon, <2>1, <2>3, <3>5 DEF Counted, pipeline_complete, ControllerInv, TypeInv
      <4>2. out[o].processed <= out[o].sent /\ out[o].sent \in Int
        BY Zenon, <4>1 DEF LabelInv, OutStates
      <4>3. CASE out[o].connected
        <5>1. PICK sums \in [0..Len(out[o].queue) -> Int] : Sums(o, sums)
          BY Zenon, <4>1, <4>3 DEF LabelInv
        <5>2. Len(out[o].queue) \in Nat /\ out[o].cur.n \in Nat
          BY <4>1 DEF OutStates, Batches
        <5>3. sums[0] <= stepped /\ sums[0] = out[o].sent + (IF out[o].pc = "encode" THEN out[o].cur.n ELSE 0)
          BY <5>1, <5>2 DEF Sums, Labelled
        <5> QED BY <3>1, <4>1, <4>2, <5>2, <5>3
      <4>4. CASE ~out[o].connected
        BY Zenon, <4>1, <4>4 DEF LabelInv
      <4> QED BY Zenon, <4>3, <4>4
    <3> QED BY Zenon, <3>5, <3>6
  <2> QED BY Zenon, <2>2, <2>3
<1> QED BY <1>1, ControllerInvariant, PTL
=============================================================================
