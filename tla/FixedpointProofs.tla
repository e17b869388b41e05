-------------------------- MODULE FixedpointProofs --------------------------
(***************************************************************************)
(* Proofs about Fixedpoint, for any number of workers, iterations and      *)
(* evaluations, and whenever the runtime is killed: every check of the     *)
(* workers comes to the same result.                                       *)
(***************************************************************************)
EXTENDS Fixedpoint, TLAPS

Positions == {"outer", "step", "send", "send_park", "send_calls", "receive", "receive_park",
              "receive_calls", "killed"}

(* The worker has a status that it has not sent yet. *)
Sending(w) == pc[w] \in {"send", "send_park"}

TypeInv ==
    /\ pc \in [Workers -> Positions]
    /\ local \in [Workers -> Seq(BOOLEAN)]
    /\ global \in [Workers -> Seq(BOOLEAN)]
    /\ mailboxes \in [Workers -> [Workers -> Seq(BOOLEAN)]]

(* A mailbox holds at most the status that its owner has to combine next,  *)
(* and it is empty only if nothing that was sent is missing in the results *)
(* of the receiver.  Of a killed worker only the first half is known.      *)
Mailbox(s, r) ==
    LET box == mailboxes[s][r]
        known == Len(local[s])
        done == Len(global[r])
    IN /\ box # <<>> => done + 1 <= known /\ box = <<local[s][done + 1]>>
       /\ done <= known
       /\ pc[s] # "killed" =>
            done = known - (IF Sending(s) THEN 1 ELSE 0) - (IF box # <<>> THEN 1 ELSE 0)

(* Every result is the conjunction of the statuses of that iteration. *)
Result(w) ==
    \A i \in 1 .. Len(global[w]) : global[w][i] <=> \A v \in Workers : local[v][i]

FixedpointInv ==
    /\ TypeInv
    /\ \A s, r \in Workers : Mailbox(s, r)
    /\ \A w \in Workers : Result(w)

LEMMA InitInv == Init => FixedpointInv
  BY DEF Init, FixedpointInv, TypeInv, Positions, Mailbox, Result, Sending

(* Steps that change neither statuses, results nor mailboxes, and leave a  *)
(* worker before or after its send as it was.                              *)
LEMMA OnlyMoves ==
    ASSUME FixedpointInv, NEW w \in Workers, UNCHANGED <<local, global, mailboxes>>,
           NEW to \in Positions, pc' = [pc EXCEPT ![w] = to],
           to = "killed" \/ (to \in {"send", "send_park"} <=> Sending(w)),
           pc[w] # "killed"
    PROVE  FixedpointInv'
  <1>1. TypeInv'
    BY Zenon DEF FixedpointInv, TypeInv
  <1>2. ASSUME NEW s \in Workers, NEW r \in Workers  PROVE Mailbox(s, r)'
    <2>0. Mailbox(s, r)
      BY Zenon DEF FixedpointInv
    <2>1. CASE s = w
      <3>1. pc'[s] = to
        BY Zenon, <2>1 DEF FixedpointInv, TypeInv
      <3>2. to # "killed" => (Sending(s)' <=> Sending(s)) /\ pc[s] # "killed"
        BY Zenon, <2>1, <3>1 DEF Sending
      <3>. QED  BY Zenon, <2>0, <3>1, <3>2 DEF Mailbox
    <2>2. CASE s # w
      <3>1. pc'[s] = pc[s]
        BY Zenon, <2>2 DEF FixedpointInv, TypeInv
      <3>. QED  BY Zenon, <2>0, <3>1 DEF Mailbox, Sending
    <2>. QED  BY Zenon, <2>1, <2>2
  <1>3. \A v \in Workers : Result(v)'
    BY Zenon DEF FixedpointInv, Result
  <1>. QED  BY Zenon, <1>1, <1>2, <1>3 DEF FixedpointInv

LEMMA StepKeeps ==
    ASSUME FixedpointInv, NEW w \in Workers, step(w)
    PROVE  FixedpointInv'
  <1>1. PICK fp \in BOOLEAN : local' = [local EXCEPT ![w] = Append(@, fp)]
    BY Zenon DEF step
  <1>2. /\ pc[w] = "step" /\ pc' = [pc EXCEPT ![w] = "send"] /\ UNCHANGED <<global, mailboxes>>
        /\ local \in [Workers -> Seq(BOOLEAN)] /\ pc \in [Workers -> Positions]
        /\ global \in [Workers -> Seq(BOOLEAN)]
    BY Zenon DEF step, Goto, FixedpointInv, TypeInv
  <1>3. /\ local'[w] = Append(local[w], fp) /\ local[w] \in Seq(BOOLEAN)
        /\ \A v \in Workers \ {w} : local'[v] = local[v]
    BY Zenon, <1>1, <1>2
  <1>4. ASSUME NEW v \in Workers, NEW i \in 1 .. Len(local[v])
        PROVE  local'[v][i] = local[v][i] /\ Len(local[v]) <= Len(local'[v])
    <2>0. local[v] \in Seq(BOOLEAN)
      BY Zenon, <1>2
    <2>1. CASE v = w
      BY <1>3, <2>0, <2>1
    <2>2. CASE v # w
      BY <1>3, <2>0, <2>2
    <2>. QED  BY Zenon, <2>1, <2>2
  <1>5. TypeInv'
    <2>1. Append(local[w], fp) \in Seq(BOOLEAN)
      BY <1>3
    <2>. QED  BY Zenon, <1>1, <1>2, <2>1 DEF FixedpointInv, TypeInv, Positions
  <1>6. ASSUME NEW s \in Workers, NEW r \in Workers  PROVE Mailbox(s, r)'
    <2>0. Mailbox(s, r) /\ Len(global[r]) \in Nat /\ Len(local[s]) \in Nat
      BY <1>2 DEF FixedpointInv
    <2>1. CASE s = w
      <3>1. Len(local'[s]) = Len(local[s]) + 1 /\ pc'[s] = "send" /\ pc[s] = "step"
        BY <1>2, <1>3, <2>1
      <3>2. mailboxes[s][r] # <<>> => /\ Len(global[r]) + 1 \in 1 .. Len(local[s])
                                     /\ mailboxes[s][r] = <<local'[s][Len(global[r]) + 1]>>
        BY <1>4, <2>0 DEF Mailbox
      <3>. QED  BY <1>2, <2>0, <3>1, <3>2 DEF Mailbox, Sending
    <2>2. CASE s # w
      <3>1. local'[s] = local[s] /\ pc'[s] = pc[s]
        BY Zenon, <1>2, <1>3, <2>2
      <3>. QED  BY Zenon, <1>2, <2>0, <3>1 DEF Mailbox, Sending
    <2>. QED  BY Zenon, <2>1, <2>2
  <1>7. ASSUME NEW v \in Workers  PROVE Result(v)'
    <2>. SUFFICES ASSUME NEW i \in 1 .. Len(global[v])
                  PROVE  global[v][i] <=> \A u \in Workers : local'[u][i]
      BY Zenon, <1>2 DEF Result
    <2>1. ASSUME NEW u \in Workers  PROVE i \in 1 .. Len(local[u])
      <3>1. Mailbox(u, v) /\ Len(global[v]) \in Nat /\ Len(local[u]) \in Nat
        BY <1>2 DEF FixedpointInv
      <3>2. Len(global[v]) <= Len(local[u])
        BY Zenon, <3>1 DEF Mailbox
      <3>. QED  BY <3>1, <3>2
    <2>2. \A u \in Workers : local'[u][i] = local[u][i]
      BY Zenon, <1>4, <2>1
    <2>. QED  BY Zenon, <2>2 DEF FixedpointInv, Result
  <1>. QED  BY Zenon, <1>5, <1>6, <1>7 DEF FixedpointInv

LEMMA SendKeeps ==
    ASSUME FixedpointInv, NEW w \in Workers, try_send_all(w)
    PROVE  FixedpointInv'
  <1>0. /\ pc[w] = "send" /\ pc' = [pc EXCEPT ![w] = "send_calls"] /\ UNCHANGED <<local, global>>
        /\ mailboxes' = [mailboxes EXCEPT ![w] = [r \in Workers |-> <<local[w][Len(local[w])]>>]]
        /\ \A r \in Workers : mailboxes[w][r] = <<>>
        /\ mailboxes \in [Workers -> [Workers -> Seq(BOOLEAN)]]
        /\ local[w] \in Seq(BOOLEAN) /\ pc \in [Workers -> Positions]
        /\ global \in [Workers -> Seq(BOOLEAN)]
    BY Zenon DEF try_send_all, ready_to_send, Goto, FixedpointInv, TypeInv
  <1>1. ASSUME NEW r \in Workers
        PROVE  Len(global[r]) = Len(local[w]) - 1 /\ Len(global[r]) \in Nat
    <2>1. Mailbox(w, r) /\ Len(global[r]) \in Nat /\ Len(local[w]) \in Nat
      BY <1>0 DEF FixedpointInv
    <2>. QED  BY <1>0, <2>1 DEF Mailbox, Sending
  <1>2. Len(local[w]) \in 1 .. Len(local[w])
    BY <1>0, <1>1
  <1>3. local[w][Len(local[w])] \in BOOLEAN
    BY <1>0, <1>2
  <1>4. TypeInv'
    <2>1. [r \in Workers |-> <<local[w][Len(local[w])]>>] \in [Workers -> Seq(BOOLEAN)]
      BY <1>3
    <2>. QED  BY Zenon, <1>0, <2>1 DEF FixedpointInv, TypeInv, Positions
  <1>5. ASSUME NEW s \in Workers, NEW r \in Workers  PROVE Mailbox(s, r)'
    <2>1. CASE s = w
      <3>1. mailboxes'[s][r] = <<local[w][Len(local[w])]>> /\ pc'[s] = "send_calls"
        BY Zenon, <1>0, <2>1
      <3>. QED  BY <1>0, <1>1, <2>1, <3>1 DEF Mailbox, Sending
    <2>2. CASE s # w
      <3>1. mailboxes'[s][r] = mailboxes[s][r] /\ pc'[s] = pc[s] /\ Mailbox(s, r)
        BY Zenon, <1>0, <2>2 DEF FixedpointInv
      <3>. QED  BY Zenon, <1>0, <3>1 DEF Mailbox, Sending
    <2>. QED  BY Zenon, <2>1, <2>2
  <1>6. \A v \in Workers : Result(v)'
    BY Zenon, <1>0 DEF FixedpointInv, Result
  <1>. QED  BY Zenon, <1>4, <1>5, <1>6 DEF FixedpointInv

LEMMA ReceiveKeeps ==
    ASSUME FixedpointInv, NEW w \in Workers, try_receive_all(w)
    PROVE  FixedpointInv'
  <1>. DEFINE all == \A s \in Workers : mailboxes[s][w][1]
  <1>0. /\ pc[w] = "receive" /\ pc' = [pc EXCEPT ![w] = "receive_calls"] /\ UNCHANGED local
        /\ mailboxes' = [s \in Workers |-> [mailboxes[s] EXCEPT ![w] = <<>>]]
        /\ \A s \in Workers : mailboxes[s][w] # <<>>
        /\ mailboxes \in [Workers -> [Workers -> Seq(BOOLEAN)]]
        /\ local \in [Workers -> Seq(BOOLEAN)] /\ pc \in [Workers -> Positions]
        /\ global \in [Workers -> Seq(BOOLEAN)]
        /\ global' = [global EXCEPT ![w] = Append(@, all)]
    BY Zenon DEF try_receive_all, ready_to_receive, Goto, FixedpointInv, TypeInv
  <1>. DEFINE next == Len(global[w]) + 1
  <1>1. ASSUME NEW s \in Workers
        PROVE  next <= Len(local[s]) /\ mailboxes[s][w] = <<local[s][next]>>
    BY Zenon, <1>0 DEF FixedpointInv, Mailbox
  <1>2. all <=> \A s \in Workers : local[s][next]
    BY <1>1
  <1>. HIDE DEF all
  <1>3. PICK e \in BOOLEAN : (e <=> all) /\ global' = [global EXCEPT ![w] = Append(@, e)]
    <2>1. CASE all
      <3>1. all = TRUE
        BY <2>1, Zenon DEF all
      <3>. QED  BY Zenon, <1>0, <3>1
    <2>2. CASE ~all
      <3>1. all = FALSE
        BY <2>2, Zenon DEF all
      <3>. QED  BY Zenon, <1>0, <3>1
    <2>. QED  BY Zenon, <2>1, <2>2
  <1>4. /\ global'[w] = Append(global[w], e) /\ global[w] \in Seq(BOOLEAN)
        /\ \A v \in Workers \ {w} : global'[v] = global[v]
    BY Zenon, <1>0, <1>3
  <1>5. Len(global'[w]) = next /\ Len(global[w]) \in Nat
    BY <1>4
  <1>6. TypeInv'
    <2>1. mailboxes' \in [Workers -> [Workers -> Seq(BOOLEAN)]]
      <3>1. ASSUME NEW s \in Workers
            PROVE  [mailboxes[s] EXCEPT ![w] = <<>>] \in [Workers -> Seq(BOOLEAN)]
        BY <1>0
      <3>. QED  BY Zenon, <1>0, <3>1
    <2>2. Append(global[w], e) \in Seq(BOOLEAN)
      BY <1>4
    <2>. QED  BY <1>0, <1>3, <2>1, <2>2 DEF FixedpointInv, TypeInv, Positions
  <1>7. ASSUME NEW s \in Workers, NEW r \in Workers  PROVE Mailbox(s, r)'
    <2>0. /\ Mailbox(s, r) /\ Len(local[s]) \in Nat /\ Len(global[r]) \in Nat
          /\ (pc'[s] = "killed") <=> (pc[s] = "killed")
          /\ Sending(s)' <=> Sending(s)
      <3>1. local[s] \in Seq(BOOLEAN) /\ global[r] \in Seq(BOOLEAN)
        BY Zenon, <1>0 DEF FixedpointInv, TypeInv
      <3>2. Len(local[s]) \in Nat /\ Len(global[r]) \in Nat
        BY <3>1
      <3>3. Mailbox(s, r)
        BY Zenon, <1>0 DEF FixedpointInv
      <3>4. (pc'[s] = "killed") <=> (pc[s] = "killed")
        BY Zenon, <1>0 DEF FixedpointInv, TypeInv
      <3>5. Sending(s)' <=> Sending(s)
        BY Zenon, <1>0 DEF FixedpointInv, TypeInv, Sending
      <3>. QED  BY Zenon, <3>2, <3>3, <3>4, <3>5
    <2>1. CASE r = w
      <3>1. mailboxes'[s][r] = <<>> /\ mailboxes[s][r] # <<>> /\ Len(global'[r]) = Len(global[r]) + 1
        BY Zenon, <1>0, <1>5, <2>1
      <3>. DEFINE n == IF Sending(s) THEN 1 ELSE 0
      <3>2. /\ Len(global[r]) + 1 <= Len(local[s])
            /\ pc[s] # "killed" => Len(global[r]) = Len(local[s]) - n - 1
        BY Zenon, <2>0, <3>1 DEF Mailbox
      <3>3. n \in Nat /\ n' = n /\ local' = local
        BY Zenon, <1>0, <2>0
      <3>. HIDE DEF n
      <3>4. /\ Len(global'[r]) <= Len(local[s])
            /\ pc[s] # "killed" => Len(global'[r]) = Len(local[s]) - n
        BY <2>0, <3>1, <3>2, <3>3
      <3>5. /\ Len(global'[r]) <= Len(local'[s])
            /\ pc'[s] # "killed" =>
                 Len(global'[r]) = Len(local'[s]) - n' - (IF mailboxes'[s][r] # <<>> THEN 1 ELSE 0)
        BY <2>0, <3>1, <3>3, <3>4
      <3>. QED  BY Zenon, <3>1, <3>5 DEF Mailbox, n
    <2>2. CASE r # w
      <3>1. mailboxes'[s][r] = mailboxes[s][r] /\ global'[r] = global[r]
        BY Zenon, <1>0, <1>4, <2>2
      <3>. QED  BY Zenon, <1>0, <2>0, <3>1 DEF Mailbox
    <2>. QED  BY Zenon, <2>1, <2>2
  <1>8. ASSUME NEW v \in Workers  PROVE Result(v)'
    <2>1. CASE v = w
      <3>. SUFFICES ASSUME NEW i \in 1 .. next
                    PROVE  global'[w][i] <=> \A u \in Workers : local[u][i]
        BY Zenon, <1>0, <1>5, <2>1 DEF Result
      <3>1. CASE i = next
        <4>1. global'[w][i] = e
          BY <1>4, <3>1
        <4>. QED  BY Zenon, <1>2, <1>3, <3>1, <4>1
      <3>2. CASE i # next
        <4>1. i \in 1 .. Len(global[w]) /\ global'[w][i] = global[w][i]
          BY <1>4, <1>5, <3>2
        <4>. QED  BY Zenon, <4>1 DEF FixedpointInv, Result
      <3>. QED  BY Zenon, <3>1, <3>2
    <2>2. CASE v # w
      BY Zenon, <1>0, <1>4, <2>2 DEF FixedpointInv, Result
    <2>. QED  BY Zenon, <2>1, <2>2
  <1>. QED  BY Zenon, <1>6, <1>7, <1>8 DEF FixedpointInv

LEMMA FixedpointStep ==
    ASSUME FixedpointInv, [Next]_vars
    PROVE  FixedpointInv'
  <1>1. ASSUME UNCHANGED <<pc, local, global, mailboxes>>  PROVE FixedpointInv'
    BY Zenon, <1>1 DEF FixedpointInv, TypeInv, Mailbox, Sending, Result
  <1>2. ASSUME NEW w \in Workers, Worker(w)  PROVE FixedpointInv'
    <2>. USE DEF Goto, Sending, Positions
    <2>1. CASE ClockStart(w)
      BY Zenon, <2>1, OnlyMoves DEF ClockStart
    <2>2. CASE step(w)
      BY Zenon, <2>2, StepKeeps
    <2>3. CASE SchedulerPark(w)
      BY Zenon, <1>1, <2>3, OnlyMoves DEF SchedulerPark
    <2>4. CASE try_send_all(w)
      BY Zenon, <2>4, SendKeeps
    <2>5. CASE SendBlocked(w)
      BY Zenon, <2>5, OnlyMoves DEF SendBlocked
    <2>6. CASE try_receive_all(w)
      BY Zenon, <2>6, ReceiveKeeps
    <2>7. CASE ReceiveBlocked(w)
      BY Zenon, <2>7, OnlyMoves DEF ReceiveBlocked
    <2>8. CASE \E v \in Workers : Callback(w, v)
      BY Zenon, <1>1, <2>8 DEF Callback
    <2>9. CASE SendReturns(w)
      BY Zenon, <2>9, OnlyMoves DEF SendReturns
    <2>10. CASE park(w)
      BY Zenon, <2>10, OnlyMoves DEF park
    <2>11. CASE CheckReturns(w)
      BY Zenon, <2>11, OnlyMoves DEF CheckReturns
    <2>12. CASE Killed(w)
      BY Zenon, <2>12, OnlyMoves DEF Killed
    <2>. QED
      BY Zenon, <1>2, <2>1, <2>2, <2>3, <2>4, <2>5, <2>6, <2>7, <2>8, <2>9, <2>10, <2>11, <2>12 DEF Worker
  <1>3. ASSUME NEW w \in Workers, KillStore(w) \/ KillUnpark(w)  PROVE FixedpointInv'
    BY Zenon, <1>1, <1>3 DEF KillStore, KillUnpark
  <1>4. CASE UNCHANGED vars
    BY Zenon, <1>1, <1>4 DEF vars
  <1>. QED  BY Zenon, <1>2, <1>3, <1>4 DEF Next

(* Any number of workers agree on every check of a nested circuit: it says  *)
(* that the fixed point is reached only if every one of them has reported   *)
(* it after this very iteration, and it says the same to all, although      *)
(* statuses overtake each other, wake-ups are spent elsewhere and the       *)
(* runtime may be killed at any moment.                                     *)
THEOREM WorkersAgree == Spec => []GlobalFixedpoint
  <1>1. FixedpointInv => GlobalFixedpoint
    <2>. SUFFICES ASSUME FixedpointInv, NEW w \in Workers, NEW i \in 1 .. Len(global[w]),
                         NEW v \in Workers
                  PROVE  /\ i <= Len(local[v])
                         /\ global[w][i] => local[v][i]
                         /\ i <= Len(global[v]) => global[v][i] = global[w][i]
      BY Zenon DEF GlobalFixedpoint
    <2>0. /\ Mailbox(v, w) /\ Result(w) /\ Result(v)
          /\ local[v] \in Seq(BOOLEAN) /\ global[w] \in Seq(BOOLEAN) /\ global[v] \in Seq(BOOLEAN)
      BY Zenon DEF FixedpointInv, TypeInv
    <2>1. Len(global[w]) <= Len(local[v])
      BY Zenon, <2>0 DEF Mailbox
    <2>2. i <= Len(local[v])
      BY <2>0, <2>1
    <2>3. global[w][i] => local[v][i]
      BY Zenon, <2>0 DEF Result
    <2>4. ASSUME i <= Len(global[v])  PROVE global[v][i] = global[w][i]
      <3>1. i \in 1 .. Len(global[v])
        BY <2>0, <2>4
      <3>2. global[v][i] <=> global[w][i]
        BY Zenon, <2>0, <3>1 DEF Result
      <3>3. global[v][i] \in BOOLEAN /\ global[w][i] \in BOOLEAN
        BY <2>0, <3>1
      <3>. QED  BY Zenon, <3>2, <3>3
    <2>. QED  BY Zenon, <2>2, <2>3, <2>4
  <1>2. FixedpointInv /\ [Next]_vars => FixedpointInv'
    BY Zenon, FixedpointStep
  <1>. QED  BY <1>1, <1>2, InitInv, PTL DEF Spec

=============================================================================
