--------------------------- MODULE ExchangeProofs ---------------------------
(***************************************************************************)
(* Proofs, for every number of peers and every number of rounds, of the    *)
(* safety properties of Exchange.                                          *)
(*                                                                         *)
(* There are three parts.  The counters are summaries of the N^2           *)
(* mailboxes: the first strengthening is the statement of which (sender,   *)
(* receiver) pairs each counter stands for at every point of the two       *)
(* loops, InOut and InArr below.  The second ties the mailboxes to the     *)
(* rounds.  The third follows the notifications.                           *)
(***************************************************************************)
EXTENDS Exchange, FiniteSetTheorems, TLAPS

\* r has taken s's message and not yet given the mailbox back to s.
Window(s, r) == pc[r] \in {"sub_receiver", "add_sender"} /\ peer[r] = s

\* The pair is missing from sender_counters[s].
InOut(s, r) ==
    \/ mailboxes[s][r] # None /\ ~(pc[s] = "sub_sender" /\ peer[s] = r)
    \/ Window(s, r)

\* The pair is counted in receiver_counters[r].
InArr(s, r) ==
    \/ /\ mailboxes[s][r] # None
       /\ ~(pc[s] \in {"sub_sender", "add_receiver"} /\ peer[s] = r)
    \/ pc[r] = "sub_receiver" /\ peer[r] = s

Outstanding(s) == {r \in Workers : InOut(s, r)}
Arrived(r) == {s \in Workers : InArr(s, r)}

\* s is committed to a send that has not reached r yet.
ToSend(s, r) ==
    \/ pc[s] = "try_send"
    \/ pc[s] \in SendPCs /\ (peer[s] < r \/ (peer[s] = r /\ pc[s] = "post"))

\* r is committed to a receive that has not reached s yet.
ToTake(s, r) ==
    \/ pc[r] = "try_receive"
    \/ pc[r] \in ReceivePCs /\ (peer[r] < s \/ (peer[r] = s /\ pc[r] = "take"))

Counters ==
    \A w \in Workers :
        /\ sender_counters[w] = npeers - Cardinality(Outstanding(w))
        /\ receiver_counters[w] = Cardinality(Arrived(w))

PairOK(s, r) ==
    /\ Window(s, r) => mailboxes[s][r] = None
    /\ pc[s] \in {"sub_sender", "add_receiver"} /\ peer[s] = r =>
         mailboxes[s][r] # None
    /\ ToSend(s, r) => ~InOut(s, r)
    /\ ToTake(s, r) => InArr(s, r)

PairsOK == \A s, r \in Workers : PairOK(s, r)

RoundsLeft == \A w \in Workers : pc[w] # "done" => round[w] < MaxRounds

IInv == TypeOK /\ Counters /\ PairsOK /\ RoundsLeft /\ NoPanic

-----------------------------------------------------------------------------
\* Facts about the sets that the counters count.

\* The workers are a finite set of npeers elements, so a counter that counts
\* workers stays between 0 and npeers and is npeers only when it counts all.
LEMMA WorkersFinite ==
    /\ IsFiniteSet(Workers)
    /\ Cardinality(Workers) = npeers
<1>1. 0 \in Int /\ npeers - 1 \in Int
  BY NPeersAssumption
<1> QED
  BY <1>1, FS_Interval, NPeersAssumption DEF Workers

\* The loop index of *_all runs through the workers.
LEMMA WorkersFacts ==
    /\ 0 \in Workers
    /\ \A w \in Workers : /\ w \in Int
                          /\ 0 <= w /\ w < npeers
                          /\ w + 1 < npeers => w + 1 \in Workers
BY NPeersAssumption DEF Workers

LEMMA CountRange ==
    ASSUME NEW S \in SUBSET Workers
    PROVE  /\ IsFiniteSet(S)
           /\ Cardinality(S) \in 0 .. npeers
           /\ Cardinality(S) = npeers => S = Workers
           /\ Cardinality(S) = 0 => S = {}
<1>1. IsFiniteSet(S) /\ Cardinality(S) <= Cardinality(Workers)
      /\ (Cardinality(S) = Cardinality(Workers) => S = Workers)
  BY Zenon, WorkersFinite, FS_Subset
<1>2. Cardinality(S) \in Nat
  BY Zenon, <1>1, FS_CardinalityType
<1>3. Cardinality(S) = 0 => S = {}
  BY Zenon, <1>1, FS_EmptySet
<1> QED
  BY <1>1, <1>2, <1>3, WorkersFinite, NPeersAssumption

\* Adding one worker to a count.
LEMMA CountAdd ==
    ASSUME NEW S \in SUBSET Workers, NEW x \in Workers, x \notin S
    PROVE  Cardinality(S \cup {x}) = Cardinality(S) + 1
BY Zenon, CountRange, FS_AddElement

\* Removing one worker from a count.
LEMMA CountRemove ==
    ASSUME NEW S \in SUBSET Workers, NEW x \in S
    PROVE  Cardinality(S \ {x}) = Cardinality(S) - 1
BY Zenon, CountRange, FS_RemoveElement

-----------------------------------------------------------------------------
\* The invariant holds initially: nothing is in flight.
LEMMA IInvInit == Init => IInv
<1> SUFFICES ASSUME Init PROVE IInv
  BY Zenon
<1>1. TypeOK
  BY NPeersAssumption, MaxRoundsAssumption
     DEF Init, TypeOK, Workers, PCs, RegisterPCs, None
<1>2. \A w \in Workers : Outstanding(w) = {} /\ Arrived(w) = {}
  BY Zenon DEF Init, Outstanding, Arrived, InOut, InArr, Window, None
<1>3. Counters
  <2>1. Cardinality({}) = 0
    BY Zenon, FS_EmptySet
  <2>2. \A w \in Workers : Cardinality(Outstanding(w)) = 0
                          /\ Cardinality(Arrived(w)) = 0
    BY Zenon, <1>2, <2>1
  <2>3. \A w \in Workers : sender_counters[w] = npeers
                          /\ receiver_counters[w] = 0
    BY Zenon DEF Init
  <2> QED
    BY <2>2, <2>3, NPeersAssumption DEF Counters
<1>4. PairsOK
  BY Zenon DEF Init, PairsOK, PairOK, ToSend, ToTake, Window, SendPCs, ReceivePCs
<1>5. RoundsLeft /\ NoPanic
  BY MaxRoundsAssumption DEF Init, RoundsLeft, NoPanic
<1> QED
  BY Zenon, <1>1, <1>3, <1>4, <1>5 DEF IInv

\* A step that changes neither the set of pairs behind a counter nor the
\* counter keeps the two in agreement.
LEMMA SameCounts ==
    ASSUME Counters,
           UNCHANGED <<sender_counters, receiver_counters>>,
           \A s, r \in Workers : (InOut(s, r)' <=> InOut(s, r))
                                /\ (InArr(s, r)' <=> InArr(s, r))
    PROVE  Counters'
<1>1. \A w \in Workers : Outstanding(w)' = Outstanding(w)
                        /\ Arrived(w)' = Arrived(w)
  BY Zenon DEF Outstanding, Arrived
<1> QED
  BY Zenon, <1>1 DEF Counters
\* A step of w that leaves the mailboxes and the counters alone, from and to a
\* point outside the four that a counter distinguishes, changes no pair.
Busy == {"sub_sender", "add_receiver", "sub_receiver", "add_sender"}

LEMMA LocalMove ==
    ASSUME NEW w \in Workers, TypeOK, Counters, PairsOK,
           UNCHANGED shared,
           \A v \in Workers : v # w => pc[v]' = pc[v] /\ peer[v]' = peer[v],
           pc[w] \notin Busy, pc[w]' \notin Busy,
           \A s, r \in Workers : (s = w /\ ToSend(s, r)' => ~InOut(s, r))
                                /\ (r = w /\ ToTake(s, r)' => InArr(s, r))
    PROVE  Counters' /\ PairsOK'
<1>1. \A s, r \in Workers : (InOut(s, r)' <=> InOut(s, r))
                           /\ (InArr(s, r)' <=> InArr(s, r))
  BY DEF InOut, InArr, Window, Busy, shared
<1>2. ASSUME NEW s \in Workers, NEW r \in Workers PROVE PairOK(s, r)'
  <2>1. ToSend(s, r)' => ~InOut(s, r)'
    <3>1. CASE s = w
      BY Zenon, <3>1, <1>1
    <3>2. CASE s # w
      <4>1. ToSend(s, r)' <=> ToSend(s, r)
        BY Zenon, <3>2 DEF ToSend
      <4> QED
        BY Zenon, <4>1, <1>1 DEF PairsOK, PairOK
    <3> QED
      BY Zenon, <3>1, <3>2
  <2>2. ToTake(s, r)' => InArr(s, r)'
    <3>1. CASE r = w
      BY Zenon, <3>1, <1>1
    <3>2. CASE r # w
      <4>1. ToTake(s, r)' <=> ToTake(s, r)
        BY Zenon, <3>2 DEF ToTake
      <4> QED
        BY Zenon, <4>1, <1>1 DEF PairsOK, PairOK
    <3> QED
      BY Zenon, <3>1, <3>2
  <2>3. Window(s, r)' => mailboxes[s][r]' = None
    BY Zenon DEF PairsOK, PairOK, Window, Busy, shared
  <2>4. pc[s]' \in {"sub_sender", "add_receiver"} /\ peer[s]' = r =>
          mailboxes[s][r]' # None
    BY Zenon DEF PairsOK, PairOK, Busy, shared
  <2> QED
    BY Zenon, <2>1, <2>2, <2>3, <2>4 DEF PairOK
<1> QED
  BY Zenon, <1>1, <1>2, SameCounts DEF PairsOK, shared

\* Counters that agree with the pairs they count are between 0 and npeers.
LEMMA CountersRange ==
    ASSUME Counters'
    PROVE  \A v \in Workers : /\ sender_counters[v]' \in 0 .. npeers
                             /\ receiver_counters[v]' \in 0 .. npeers
<1>1. \A v \in Workers : Outstanding(v)' \in SUBSET Workers
                        /\ Arrived(v)' \in SUBSET Workers
  BY Zenon DEF Outstanding, Arrived
<1>2. \A v \in Workers : Cardinality(Outstanding(v)') \in 0 .. npeers
                        /\ Cardinality(Arrived(v)') \in 0 .. npeers
  BY Zenon, <1>1, CountRange
<1>3. \A v \in Workers :
        /\ sender_counters[v]' = npeers - Cardinality(Outstanding(v)')
        /\ receiver_counters[v]' = Cardinality(Arrived(v)')
  BY Zenon DEF Counters
<1> QED
  BY <1>2, <1>3, NPeersAssumption

\* The loop over receivers keeps its index among the workers.
LEMMA NextReceiverType ==
    ASSUME TypeOK, NEW w \in Workers, NextReceiver(w)
    PROVE  pc' \in [Workers -> PCs] /\ peer' \in [Workers -> Workers]
<1>1. PICK p \in Workers : p = peer[w]
  BY Zenon DEF TypeOK
<1>2. CASE p + 1 < npeers
  <2>1. peer' = [peer EXCEPT ![w] = p + 1] /\ pc' = [pc EXCEPT ![w] = "post"]
    BY Zenon, <1>1, <1>2 DEF NextReceiver
  <2> QED
    BY Zenon, <1>2, <2>1, WorkersFacts DEF TypeOK, PCs, SendPCs
<1>3. CASE ~(p + 1 < npeers)
  BY Zenon, <1>1, <1>3 DEF NextReceiver, TypeOK, PCs
<1> QED
  BY Zenon, <1>2, <1>3

\* So does the loop over senders, which also counts the clock cycles.
LEMMA NextSenderType ==
    ASSUME TypeOK, RoundsLeft, NEW w \in Workers, pc[w] # "done", NextSender(w)
    PROVE  /\ pc' \in [Workers -> PCs] /\ peer' \in [Workers -> Workers]
           /\ round' \in [Workers -> 0 .. MaxRounds]
           /\ RoundsLeft'
<1>1. PICK p \in Workers : p = peer[w]
  BY Zenon DEF TypeOK
<1>2. CASE p + 1 < npeers
  <2>1. /\ peer' = [peer EXCEPT ![w] = p + 1]
        /\ pc' = [pc EXCEPT ![w] = "take"]
        /\ round' = round
    BY Zenon, <1>1, <1>2 DEF NextSender
  <2> QED
    BY Zenon, <1>2, <2>1, WorkersFacts DEF TypeOK, PCs, ReceivePCs, RoundsLeft
<1>3. CASE ~(p + 1 < npeers)
  <2>1. /\ peer' = peer
        /\ pc' = [pc EXCEPT ![w] = IF round[w] + 1 < MaxRounds
                                     THEN "wait_send" ELSE "done"]
        /\ round' = [round EXCEPT ![w] = round[w] + 1]
    BY Zenon, <1>1, <1>3 DEF NextSender
  <2>2. round[w] \in 0 .. MaxRounds /\ round[w] < MaxRounds
    BY Zenon DEF TypeOK, RoundsLeft
  <2>3. round[w] + 1 \in 0 .. MaxRounds
    BY <2>2, MaxRoundsAssumption
  <2>4. round' \in [Workers -> 0 .. MaxRounds]
    BY Zenon, <2>1, <2>3 DEF TypeOK
  <2>5. pc' \in [Workers -> PCs]
    BY Zenon, <2>1 DEF TypeOK, PCs
  <2>6. RoundsLeft'
    BY Zenon, <2>1 DEF TypeOK, RoundsLeft
  <2> QED
    BY Zenon, <2>1, <2>4, <2>5, <2>6 DEF TypeOK
<1> QED
  BY Zenon, <1>2, <1>3

\* Every action preserves the invariant.
LEMMA IInvStep == IInv /\ [Next]_vars => IInv'
<1> SUFFICES ASSUME IInv, [Next]_vars PROVE IInv'
  BY Zenon
<1>a. TypeOK /\ Counters /\ PairsOK /\ RoundsLeft /\ NoPanic
  BY Zenon DEF IInv
<1>1. ASSUME NEW w \in Workers, register_sender_callback(w) PROVE IInv'
  <2>1. TypeOK'
    BY Zenon, <1>1, <1>a, WorkersFacts DEF TypeOK, PCs, RegisterPCs, SendPCs, ReceivePCs, register_sender_callback, Goto, shared, callbacks, notified
  <2>2. /\ UNCHANGED shared
        /\ \A v \in Workers : v # w => pc[v]' = pc[v] /\ peer[v]' = peer[v]
        /\ pc[w] = "register_sender"
        /\ pc[w]' = "check_sender"
    BY Zenon, <1>1, <1>a DEF TypeOK, register_sender_callback, Goto, shared, callbacks, notified
  <2>3. \A s, r \in Workers : (s = w /\ ToSend(s, r)' => ~InOut(s, r))
                             /\ (r = w /\ ToTake(s, r)' => InArr(s, r))
    BY Zenon, <2>2, <1>a, WorkersFacts DEF PairsOK, PairOK, ToSend, ToTake, SendPCs, ReceivePCs
  <2>4. Counters' /\ PairsOK'
    BY Zenon, <2>2, <2>3, <1>a, LocalMove DEF Busy
  <2>5. RoundsLeft' /\ NoPanic'
    BY Zenon, <1>1, <2>2, <1>a DEF TypeOK, RoundsLeft, NoPanic, register_sender_callback, Goto, shared, callbacks, notified
  <2> QED
    BY Zenon, <2>1, <2>4, <2>5 DEF IInv
<1>2. ASSUME NEW w \in Workers, check_sender(w) PROVE IInv'
  <2>1. TypeOK'
    BY Zenon, <1>2, <1>a, WorkersFacts DEF TypeOK, PCs, RegisterPCs, SendPCs, ReceivePCs, check_sender, Goto, shared, callbacks, notified, ready_to_send
  <2>2. /\ UNCHANGED shared
        /\ \A v \in Workers : v # w => pc[v]' = pc[v] /\ peer[v]' = peer[v]
        /\ pc[w] = "check_sender"
        /\ pc[w]' = "register_receiver"
    BY Zenon, <1>2, <1>a DEF TypeOK, check_sender, Goto, shared, callbacks, notified, ready_to_send
  <2>3. \A s, r \in Workers : (s = w /\ ToSend(s, r)' => ~InOut(s, r))
                             /\ (r = w /\ ToTake(s, r)' => InArr(s, r))
    BY Zenon, <2>2, <1>a, WorkersFacts DEF PairsOK, PairOK, ToSend, ToTake, SendPCs, ReceivePCs
  <2>4. Counters' /\ PairsOK'
    BY Zenon, <2>2, <2>3, <1>a, LocalMove DEF Busy
  <2>5. RoundsLeft' /\ NoPanic'
    BY Zenon, <1>2, <2>2, <1>a DEF TypeOK, RoundsLeft, NoPanic, check_sender, Goto, shared, callbacks, notified, ready_to_send
  <2> QED
    BY Zenon, <2>1, <2>4, <2>5 DEF IInv
<1>3. ASSUME NEW w \in Workers, register_receiver_callback(w) PROVE IInv'
  <2>1. TypeOK'
    BY Zenon, <1>3, <1>a, WorkersFacts DEF TypeOK, PCs, RegisterPCs, SendPCs, ReceivePCs, register_receiver_callback, Goto, shared, callbacks, notified
  <2>2. /\ UNCHANGED shared
        /\ \A v \in Workers : v # w => pc[v]' = pc[v] /\ peer[v]' = peer[v]
        /\ pc[w] = "register_receiver"
        /\ pc[w]' = "check_receiver"
    BY Zenon, <1>3, <1>a DEF TypeOK, register_receiver_callback, Goto, shared, callbacks, notified
  <2>3. \A s, r \in Workers : (s = w /\ ToSend(s, r)' => ~InOut(s, r))
                             /\ (r = w /\ ToTake(s, r)' => InArr(s, r))
    BY Zenon, <2>2, <1>a, WorkersFacts DEF PairsOK, PairOK, ToSend, ToTake, SendPCs, ReceivePCs
  <2>4. Counters' /\ PairsOK'
    BY Zenon, <2>2, <2>3, <1>a, LocalMove DEF Busy
  <2>5. RoundsLeft' /\ NoPanic'
    BY Zenon, <1>3, <2>2, <1>a DEF TypeOK, RoundsLeft, NoPanic, register_receiver_callback, Goto, shared, callbacks, notified
  <2> QED
    BY Zenon, <2>1, <2>4, <2>5 DEF IInv
<1>4. ASSUME NEW w \in Workers, check_receiver(w) PROVE IInv'
  <2>1. TypeOK'
    BY Zenon, <1>4, <1>a, WorkersFacts DEF TypeOK, PCs, RegisterPCs, SendPCs, ReceivePCs, check_receiver, Goto, shared, callbacks, notified, ready_to_receive
  <2>2. /\ UNCHANGED shared
        /\ \A v \in Workers : v # w => pc[v]' = pc[v] /\ peer[v]' = peer[v]
        /\ pc[w] = "check_receiver"
        /\ pc[w]' = "wait_send"
    BY Zenon, <1>4, <1>a DEF TypeOK, check_receiver, Goto, shared, callbacks, notified, ready_to_receive
  <2>3. \A s, r \in Workers : (s = w /\ ToSend(s, r)' => ~InOut(s, r))
                             /\ (r = w /\ ToTake(s, r)' => InArr(s, r))
    BY Zenon, <2>2, <1>a, WorkersFacts DEF PairsOK, PairOK, ToSend, ToTake, SendPCs, ReceivePCs
  <2>4. Counters' /\ PairsOK'
    BY Zenon, <2>2, <2>3, <1>a, LocalMove DEF Busy
  <2>5. RoundsLeft' /\ NoPanic'
    BY Zenon, <1>4, <2>2, <1>a DEF TypeOK, RoundsLeft, NoPanic, check_receiver, Goto, shared, callbacks, notified, ready_to_receive
  <2> QED
    BY Zenon, <2>1, <2>4, <2>5 DEF IInv
<1>5. ASSUME NEW w \in Workers, SenderWake(w) PROVE IInv'
  <2>0. ready_to_send(w) => \A r \in Workers : ~InOut(w, r)
    <3>1. Outstanding(w) \in SUBSET Workers
      BY Zenon DEF Outstanding
    <3>2. Cardinality(Outstanding(w)) \in 0 .. npeers
          /\ (Cardinality(Outstanding(w)) = 0 => Outstanding(w) = {})
      BY Zenon, <3>1, CountRange
    <3>3. sender_counters[w] = npeers - Cardinality(Outstanding(w))
      BY Zenon, <1>a DEF Counters
    <3>4. ready_to_send(w) => Cardinality(Outstanding(w)) = 0
      BY <3>2, <3>3, NPeersAssumption DEF ready_to_send
    <3> QED
      BY Zenon, <3>2, <3>4 DEF Outstanding
  <2>1. TypeOK'
    BY Zenon, <1>5, <1>a, WorkersFacts, <2>0 DEF TypeOK, PCs, RegisterPCs, SendPCs, ReceivePCs, SenderWake, Goto, shared, callbacks, notified
  <2>2. /\ UNCHANGED shared
        /\ \A v \in Workers : v # w => pc[v]' = pc[v] /\ peer[v]' = peer[v]
        /\ pc[w] = "wait_send"
        /\ pc[w]' = IF ready_to_send(w) THEN "try_send" ELSE "wait_send"
    BY Zenon, <1>5, <1>a, <2>0 DEF TypeOK, SenderWake, Goto, shared, callbacks, notified
  <2>3. \A s, r \in Workers : (s = w /\ ToSend(s, r)' => ~InOut(s, r))
                             /\ (r = w /\ ToTake(s, r)' => InArr(s, r))
    BY <2>2, <1>a, WorkersFacts, <2>0 DEF PairsOK, PairOK, ToSend, ToTake, SendPCs, ReceivePCs
  <2>4. Counters' /\ PairsOK'
    BY Zenon, <2>2, <2>3, <1>a, LocalMove DEF Busy
  <2>5. RoundsLeft' /\ NoPanic'
    BY Zenon, <1>5, <2>2, <1>a, <2>0 DEF TypeOK, RoundsLeft, NoPanic, SenderWake, Goto, shared, callbacks, notified
  <2> QED
    BY Zenon, <2>1, <2>4, <2>5 DEF IInv
<1>6. ASSUME NEW w \in Workers, try_send_all(w) PROVE IInv'
  <2>0. ready_to_send(w)
    <3>1. \A r \in Workers : ~InOut(w, r)
      BY Zenon, <1>6, <1>a DEF PairsOK, PairOK, ToSend, try_send_all, Goto
    <3>2. Outstanding(w) = {}
      BY Zenon, <3>1 DEF Outstanding
    <3>3. Cardinality(Outstanding(w)) = 0
      BY Zenon, <3>2, FS_EmptySet
    <3> QED
      BY <3>3, <1>a, NPeersAssumption DEF Counters, ready_to_send
  <2>1. TypeOK'
    BY Zenon, <1>6, <1>a, WorkersFacts, <2>0 DEF TypeOK, PCs, RegisterPCs, SendPCs, ReceivePCs, try_send_all, Goto, shared, callbacks, notified
  <2>2. /\ UNCHANGED shared
        /\ \A v \in Workers : v # w => pc[v]' = pc[v] /\ peer[v]' = peer[v]
        /\ pc[w] = "try_send"
        /\ pc[w]' = "post" /\ peer[w]' = 0
    BY Zenon, <1>6, <1>a, <2>0 DEF TypeOK, try_send_all, Goto, shared, callbacks, notified
  <2>3. \A s, r \in Workers : (s = w /\ ToSend(s, r)' => ~InOut(s, r))
                             /\ (r = w /\ ToTake(s, r)' => InArr(s, r))
    BY Zenon, <2>2, <1>a, WorkersFacts, <2>0 DEF PairsOK, PairOK, ToSend, ToTake, SendPCs, ReceivePCs
  <2>4. Counters' /\ PairsOK'
    BY Zenon, <2>2, <2>3, <1>a, LocalMove DEF Busy
  <2>5. RoundsLeft' /\ NoPanic'
    BY Zenon, <1>6, <2>2, <1>a, <2>0 DEF TypeOK, RoundsLeft, NoPanic, try_send_all, Goto, shared, callbacks, notified
  <2> QED
    BY Zenon, <2>1, <2>4, <2>5 DEF IInv
<1>11. ASSUME NEW w \in Workers, ReceiverWake(w) PROVE IInv'
  <2>0. ready_to_receive(w) => \A s \in Workers : InArr(s, w)
    <3>1. Arrived(w) \in SUBSET Workers
      BY Zenon DEF Arrived
    <3>2. Cardinality(Arrived(w)) = npeers => Arrived(w) = Workers
      BY Zenon, <3>1, CountRange
    <3>3. receiver_counters[w] = Cardinality(Arrived(w))
      BY Zenon, <1>a DEF Counters
    <3> QED
      BY Zenon, <3>2, <3>3 DEF Arrived, ready_to_receive
  <2>1. TypeOK'
    BY Zenon, <1>11, <1>a, WorkersFacts, <2>0 DEF TypeOK, PCs, RegisterPCs, SendPCs, ReceivePCs, ReceiverWake, Goto, shared, callbacks, notified
  <2>2. /\ UNCHANGED shared
        /\ \A v \in Workers : v # w => pc[v]' = pc[v] /\ peer[v]' = peer[v]
        /\ pc[w] = "wait_receive"
        /\ pc[w]' = IF ready_to_receive(w) THEN "try_receive" ELSE "wait_receive"
    BY Zenon, <1>11, <1>a, <2>0 DEF TypeOK, ReceiverWake, Goto, shared, callbacks, notified
  <2>3. \A s, r \in Workers : (s = w /\ ToSend(s, r)' => ~InOut(s, r))
                             /\ (r = w /\ ToTake(s, r)' => InArr(s, r))
    BY <2>2, <1>a, WorkersFacts, <2>0 DEF PairsOK, PairOK, ToSend, ToTake, SendPCs, ReceivePCs
  <2>4. Counters' /\ PairsOK'
    BY Zenon, <2>2, <2>3, <1>a, LocalMove DEF Busy
  <2>5. RoundsLeft' /\ NoPanic'
    BY Zenon, <1>11, <2>2, <1>a, <2>0 DEF TypeOK, RoundsLeft, NoPanic, ReceiverWake, Goto, shared, callbacks, notified
  <2> QED
    BY Zenon, <2>1, <2>4, <2>5 DEF IInv
<1>12. ASSUME NEW w \in Workers, try_receive_all(w) PROVE IInv'
  <2>0. ready_to_receive(w)
    <3>1. \A s \in Workers : InArr(s, w)
      BY Zenon, <1>12, <1>a DEF PairsOK, PairOK, ToTake, try_receive_all, Goto
    <3>2. Arrived(w) = Workers
      BY Zenon, <3>1 DEF Arrived
    <3> QED
      BY Zenon, <3>2, <1>a, WorkersFinite DEF Counters, ready_to_receive
  <2>1. TypeOK'
    BY SMTT(30), <1>12, <1>a, WorkersFacts, <2>0 DEF TypeOK, PCs, RegisterPCs, SendPCs, ReceivePCs, try_receive_all, Goto, shared, callbacks, notified
  <2>2. /\ UNCHANGED shared
        /\ \A v \in Workers : v # w => pc[v]' = pc[v] /\ peer[v]' = peer[v]
        /\ pc[w] = "try_receive"
        /\ pc[w]' = "take" /\ peer[w]' = 0
    BY Zenon, <1>12, <1>a, <2>0 DEF TypeOK, try_receive_all, Goto, shared, callbacks, notified
  <2>3. \A s, r \in Workers : (s = w /\ ToSend(s, r)' => ~InOut(s, r))
                             /\ (r = w /\ ToTake(s, r)' => InArr(s, r))
    BY <2>2, <1>a, WorkersFacts, <2>0 DEF PairsOK, PairOK, ToSend, ToTake, SendPCs, ReceivePCs
  <2>4. Counters' /\ PairsOK'
    BY Zenon, <2>2, <2>3, <1>a, LocalMove DEF Busy
  <2>5. RoundsLeft' /\ NoPanic'
    BY Zenon, <1>12, <2>2, <1>a, <2>0 DEF TypeOK, RoundsLeft, NoPanic, try_receive_all, Goto, shared, callbacks, notified
  <2> QED
    BY Zenon, <2>1, <2>4, <2>5 DEF IInv

<1>7. ASSUME NEW w \in Workers, PostMessage(w) PROVE IInv'
  <2>1. PICK p \in Workers : p = peer[w]
    BY Zenon, <1>a DEF TypeOK
  <2>2. TypeOK'
    <3>1. Some(Msg(w, p, round[w])) \in {Some(m) : m \in Messages}
      BY Zenon, <1>a, <2>1 DEF TypeOK, Messages, Msg
    <3> QED
      BY Zenon, <1>7, <1>a, <2>1, <3>1
         DEF TypeOK, PCs, SendPCs, PostMessage, Goto, callbacks, notified
  <2>3. /\ \A v \in Workers : v # w => pc[v]' = pc[v]
        /\ \A v \in Workers : peer[v]' = peer[v]
        /\ pc[w] = "post"
        /\ pc[w]' = "sub_sender"
        /\ mailboxes[w][p]' # None
        /\ \A s, r \in Workers :
             s # w \/ r # p => mailboxes[s][r]' = mailboxes[s][r]
    BY Zenon, <1>7, <1>a, <2>1 DEF TypeOK, PostMessage, Goto, None, Some
  <2>4. ~InOut(w, p)
    BY Zenon, <2>1, <2>3, <1>a DEF PairsOK, PairOK, ToSend, SendPCs
  <2>5. mailboxes[w][p] = None /\ ~Window(w, p)
    BY Zenon, <2>3, <2>4 DEF InOut
  <2>6. \A s, r \in Workers : (InOut(s, r)' <=> InOut(s, r))
                             /\ (InArr(s, r)' <=> InArr(s, r))
    BY <2>1, <2>3, <2>5 DEF InOut, InArr, Window
  <2>7. ASSUME NEW s \in Workers, NEW r \in Workers PROVE PairOK(s, r)'
    <3>1. PairOK(s, r)
      BY Zenon, <1>a DEF PairsOK
    <3>2. ToSend(s, r)' => ToSend(s, r)
      BY Zenon, <2>1, <2>3, WorkersFacts DEF ToSend, SendPCs
    <3>3. ToTake(s, r)' => ToTake(s, r)
      BY Zenon, <2>1, <2>3 DEF ToTake, ReceivePCs
    <3>4. Window(s, r)' => mailboxes[s][r]' = None
      BY <2>1, <2>3, <2>5, <3>1 DEF PairOK, Window
    <3>5. pc[s]' \in {"sub_sender", "add_receiver"} /\ peer[s]' = r =>
            mailboxes[s][r]' # None
      BY <2>1, <2>3, <3>1 DEF PairOK
    <3> QED
      BY Zenon, <2>6, <3>1, <3>2, <3>3, <3>4, <3>5 DEF PairOK
  <2>8. Counters'
    BY Zenon, <1>7, <1>a, <2>6, SameCounts DEF PostMessage
  <2>9. RoundsLeft' /\ NoPanic'
    BY <1>7, <1>a, <2>3 DEF RoundsLeft, NoPanic, PostMessage
  <2> QED
    BY Zenon, <2>2, <2>7, <2>8, <2>9 DEF IInv, PairsOK

<1>8. ASSUME NEW w \in Workers, SubSenderCounter(w) PROVE IInv'
  <2>1. PICK p \in Workers : p = peer[w]
    BY Zenon, <1>a DEF TypeOK
  <2>2. /\ \A v \in Workers : v # w => pc[v]' = pc[v]
        /\ \A v \in Workers : peer[v]' = peer[v]
        /\ pc[w] = "sub_sender"
        /\ pc[w]' = "add_receiver"
        /\ mailboxes' = mailboxes
        /\ receiver_counters' = receiver_counters
        /\ \A v \in Workers : v # w => sender_counters[v]' = sender_counters[v]
        /\ sender_counters[w]' = sender_counters[w] - 1
    BY Zenon, <1>8, <1>a DEF TypeOK, SubSenderCounter, Goto
  <2>3. mailboxes[w][p] # None /\ ~Window(w, p)
    BY Zenon, <2>1, <2>2, <1>a DEF PairsOK, PairOK
  <2>4. /\ \A s, r \in Workers : InArr(s, r)' <=> InArr(s, r)
        /\ \A s, r \in Workers :
             s # w \/ r # p => (InOut(s, r)' <=> InOut(s, r))
        /\ ~InOut(w, p) /\ InOut(w, p)'
    BY <2>1, <2>2, <2>3 DEF InOut, InArr, Window
  <2>5. Counters'
    <3>1. /\ Outstanding(w)' = Outstanding(w) \cup {p}
          /\ p \notin Outstanding(w)
          /\ \A v \in Workers : v # w => Outstanding(v)' = Outstanding(v)
          /\ \A v \in Workers : Arrived(v)' = Arrived(v)
      <4>1. Outstanding(w)' = Outstanding(w) \cup {p}
        BY Zenon, <2>1, <2>4 DEF Outstanding
      <4>2. p \notin Outstanding(w)
        BY Zenon, <2>4 DEF Outstanding
      <4>3. \A v \in Workers : v # w => Outstanding(v)' = Outstanding(v)
        BY Zenon, <2>4 DEF Outstanding
      <4>4. \A v \in Workers : Arrived(v)' = Arrived(v)
        BY Zenon, <2>4 DEF Arrived
      <4> QED
        BY Zenon, <4>1, <4>2, <4>3, <4>4
    <3>2. Outstanding(w) \in SUBSET Workers
      BY Zenon DEF Outstanding
    <3>3. /\ Cardinality(Outstanding(w)') = Cardinality(Outstanding(w)) + 1
          /\ Cardinality(Outstanding(w)) \in 0 .. npeers
      BY Zenon, <2>1, <3>1, <3>2, CountAdd, CountRange
    <3>4. \A v \in Workers :
             sender_counters[v] = npeers - Cardinality(Outstanding(v))
             /\ receiver_counters[v] = Cardinality(Arrived(v))
      BY Zenon, <1>a DEF Counters
    <3>5. sender_counters[w]' = npeers - Cardinality(Outstanding(w)')
      BY <2>2, <3>3, <3>4, NPeersAssumption
    <3> QED
      BY Zenon, <2>2, <3>1, <3>4, <3>5 DEF Counters
  <2>6. TypeOK'
    <3>1. \A v \in Workers : sender_counters[v]' \in 0 .. npeers
      BY Zenon, <2>5, CountersRange
    <3> QED
      BY Zenon, <1>8, <1>a, <3>1
         DEF TypeOK, PCs, SendPCs, SubSenderCounter, Goto, callbacks, notified
  <2>7. ASSUME NEW s \in Workers, NEW r \in Workers PROVE PairOK(s, r)'
    <3>1. PairOK(s, r)
      BY Zenon, <1>a DEF PairsOK
    <3>2. ToSend(s, r)' => ToSend(s, r) /\ (s # w \/ r # p)
      <4>1. CASE s = w
        BY <2>1, <2>2, <4>1, WorkersFacts DEF ToSend, SendPCs
      <4>2. CASE s # w
        BY Zenon, <2>2, <4>2 DEF ToSend
      <4> QED
        BY Zenon, <4>1, <4>2
    <3>3. ToTake(s, r)' => ToTake(s, r)
      BY Zenon, <2>1, <2>2 DEF ToTake, ReceivePCs
    <3>4. Window(s, r)' => mailboxes[s][r]' = None
      BY Zenon, <2>1, <2>2, <3>1 DEF PairOK, Window
    <3>5. pc[s]' \in {"sub_sender", "add_receiver"} /\ peer[s]' = r =>
            mailboxes[s][r]' # None
      BY Zenon, <2>1, <2>2, <3>1 DEF PairOK
    <3> QED
      BY Zenon, <2>4, <3>1, <3>2, <3>3, <3>4, <3>5 DEF PairOK
  <2>8. RoundsLeft' /\ NoPanic'
    BY Zenon, <1>8, <1>a, <2>2 DEF RoundsLeft, NoPanic, SubSenderCounter
  <2> QED
    BY Zenon, <2>5, <2>6, <2>7, <2>8 DEF IInv, PairsOK
<1>9. ASSUME NEW w \in Workers, AddReceiverCounter(w) PROVE IInv'
  <2>1. PICK p \in Workers : p = peer[w]
    BY Zenon, <1>a DEF TypeOK
  <2>2. /\ \A v \in Workers : v # w => pc[v]' = pc[v] /\ peer[v]' = peer[v]
        /\ pc[w] = "add_receiver"
        /\ \/ pc[w]' = "call_receiver" /\ peer[w]' = p
           \/ pc[w]' = "post" /\ peer[w]' = p + 1 /\ p + 1 < npeers
           \/ pc[w]' = "wait_receive" /\ peer[w]' = p
        /\ mailboxes' = mailboxes
        /\ sender_counters' = sender_counters
        /\ \A v \in Workers : v # p => receiver_counters[v]' = receiver_counters[v]
        /\ receiver_counters[p]' = receiver_counters[p] + 1
    BY SMTT(30), <1>9, <1>a, <2>1 DEF TypeOK, AddReceiverCounter, NextReceiver
  <2>3. mailboxes[w][p] # None /\ ~Window(w, p)
    BY Zenon, <2>1, <2>2, <1>a DEF PairsOK, PairOK
  <2>4. /\ \A s, r \in Workers : InOut(s, r)' <=> InOut(s, r)
        /\ \A s, r \in Workers :
             s # w \/ r # p => (InArr(s, r)' <=> InArr(s, r))
        /\ ~InArr(w, p) /\ InArr(w, p)'
    BY <2>1, <2>2, <2>3 DEF InOut, InArr, Window
  <2>5. Counters'
    <3>1. Arrived(p)' = Arrived(p) \cup {w}
      BY Zenon, <2>1, <2>4 DEF Arrived
    <3>2. w \notin Arrived(p) /\ Arrived(p) \in SUBSET Workers
      BY Zenon, <2>1, <2>4 DEF Arrived
    <3>3. /\ \A v \in Workers : v # p => Arrived(v)' = Arrived(v)
          /\ \A v \in Workers : Outstanding(v)' = Outstanding(v)
      BY Zenon, <2>4 DEF Outstanding, Arrived
    <3>4. /\ Cardinality(Arrived(p)') = Cardinality(Arrived(p)) + 1
          /\ Cardinality(Arrived(p)) \in 0 .. npeers
      BY Zenon, <2>1, <3>1, <3>2, CountAdd, CountRange
    <3>5. \A v \in Workers :
             sender_counters[v] = npeers - Cardinality(Outstanding(v))
             /\ receiver_counters[v] = Cardinality(Arrived(v))
      BY Zenon, <1>a DEF Counters
    <3>6. receiver_counters[p]' = Cardinality(Arrived(p)')
      BY Zenon, <2>1, <2>2, <3>4, <3>5, NPeersAssumption
    <3> QED
      BY Zenon, <2>1, <2>2, <3>3, <3>5, <3>6 DEF Counters
  <2>6. TypeOK'
    <3>1. receiver_counters' \in [Workers -> 0 .. npeers]
      <4>1. \A v \in Workers : receiver_counters[v]' \in 0 .. npeers
        BY Zenon, <2>5, CountersRange
      <4> QED
        BY Zenon, <1>9, <1>a, <4>1 DEF TypeOK, AddReceiverCounter
    <3>2. pc' \in [Workers -> PCs] /\ peer' \in [Workers -> Workers]
      <4>1. CASE NextReceiver(w)
        BY Zenon, <1>a, <4>1, NextReceiverType
      <4>2. CASE ~NextReceiver(w)
        BY Zenon, <1>9, <1>a, <4>2 DEF TypeOK, PCs, SendPCs, AddReceiverCounter
      <4> QED
        BY Zenon, <4>1, <4>2
    <3> QED
      BY Zenon, <1>9, <1>a, <3>1, <3>2
         DEF TypeOK, AddReceiverCounter, callbacks, notified
  <2>7. ASSUME NEW s \in Workers, NEW r \in Workers PROVE PairOK(s, r)'
    <3>1. PairOK(s, r)
      BY Zenon, <1>a DEF PairsOK
    <3>2. ToSend(s, r)' => ToSend(s, r)
      <4>1. CASE s = w
        BY <2>1, <2>2, <4>1, WorkersFacts DEF ToSend, SendPCs
      <4>2. CASE s # w
        BY Zenon, <2>2, <4>2 DEF ToSend
      <4> QED
        BY Zenon, <4>1, <4>2
    <3>3. ToTake(s, r)' => ToTake(s, r)
      <4>1. CASE r = w
        BY Zenon, <2>1, <2>2, <4>1, WorkersFacts DEF ToTake, ReceivePCs
      <4>2. CASE r # w
        BY Zenon, <2>2, <4>2 DEF ToTake
      <4> QED
        BY Zenon, <4>1, <4>2
    <3>4. Window(s, r)' => mailboxes[s][r]' = None
      BY Zenon, <2>1, <2>2, <3>1 DEF PairOK, Window
    <3>5. pc[s]' \in {"sub_sender", "add_receiver"} /\ peer[s]' = r =>
            mailboxes[s][r]' # None
      BY Zenon, <2>1, <2>2, <3>1 DEF PairOK
    <3> QED
      BY Zenon, <2>4, <3>1, <3>2, <3>3, <3>4, <3>5 DEF PairOK
  <2>8. RoundsLeft' /\ NoPanic'
    BY Zenon, <1>9, <1>a, <2>2 DEF RoundsLeft, NoPanic, AddReceiverCounter
  <2> QED
    BY Zenon, <2>5, <2>6, <2>7, <2>8 DEF IInv, PairsOK

<1>10. ASSUME NEW w \in Workers, CallReceiver(w) PROVE IInv'
  <2>1. PICK p \in Workers : p = peer[w]
    BY Zenon, <1>a DEF TypeOK
  <2>2. /\ \A v \in Workers : v # w => pc[v]' = pc[v] /\ peer[v]' = peer[v]
        /\ pc[w] = "call_receiver"
        /\ \/ pc[w]' = "post" /\ peer[w]' = p + 1
           \/ pc[w]' = "wait_receive" /\ peer[w]' = p
        /\ UNCHANGED shared
    BY SMTT(30), <1>10, <1>a, <2>1 DEF TypeOK, CallReceiver, NextReceiver, shared
  <2>3. \A s, r \in Workers : (s = w /\ ToSend(s, r)' => ~InOut(s, r))
                             /\ (r = w /\ ToTake(s, r)' => InArr(s, r))
    <3>1. \A r \in Workers : ToSend(w, r)' => ToSend(w, r)
      BY <2>1, <2>2, WorkersFacts DEF ToSend, SendPCs
    <3>2. \A s \in Workers : ~ToTake(s, w)'
      BY Zenon, <2>2 DEF ToTake, ReceivePCs
    <3> QED
      BY Zenon, <3>1, <3>2, <1>a DEF PairsOK, PairOK
  <2>4. Counters' /\ PairsOK'
    BY Zenon, <2>2, <2>3, <1>a, LocalMove DEF Busy
  <2>5. TypeOK'
    <3>1. pc' \in [Workers -> PCs] /\ peer' \in [Workers -> Workers]
      BY Zenon, <1>10, <1>a, NextReceiverType DEF CallReceiver
    <3> QED
      BY Zenon, <1>10, <1>a, <3>1 DEF TypeOK, CallReceiver, shared, callbacks
  <2>6. RoundsLeft' /\ NoPanic'
    BY Zenon, <1>10, <1>a, <2>2 DEF RoundsLeft, NoPanic, CallReceiver
  <2> QED
    BY Zenon, <2>4, <2>5, <2>6 DEF IInv

<1>13. ASSUME NEW w \in Workers, TakeMessage(w) PROVE IInv'
  <2>1. PICK p \in Workers : p = peer[w]
    BY Zenon, <1>a DEF TypeOK
  <2>0. pc[w] = "take"
    BY Zenon, <1>13 DEF TakeMessage, Goto
  <2>3. /\ mailboxes[p][w] # None
        /\ ~(pc[p] \in {"sub_sender", "add_receiver"} /\ peer[p] = w)
    BY Zenon, <2>0, <2>1, <1>a DEF PairsOK, PairOK, ToTake, ReceivePCs, InArr
  <2>2. /\ \A v \in Workers : v # w => pc[v]' = pc[v]
        /\ \A v \in Workers : peer[v]' = peer[v]
        /\ pc[w]' = "sub_receiver"
        /\ mailboxes[p][w]' = None
        /\ \A s, r \in Workers :
             s # p \/ r # w => mailboxes[s][r]' = mailboxes[s][r]
    BY Zenon, <1>13, <1>a, <2>0, <2>1, <2>3 DEF TypeOK, TakeMessage, Goto
  <2>4. \A s, r \in Workers : (InOut(s, r)' <=> InOut(s, r))
                             /\ (InArr(s, r)' <=> InArr(s, r))
    BY <2>0, <2>1, <2>2, <2>3 DEF InOut, InArr, Window
  <2>5. Counters'
    BY Zenon, <1>13, <1>a, <2>4, SameCounts DEF TakeMessage
  <2>6. TypeOK'
    <3>0. mailboxes[p][w] \in {None} \cup {Some(n) : n \in Messages}
      BY <1>a, <2>1 DEF TypeOK
    <3>1. PICK m \in Messages : mailboxes[p][w] = {m}
      BY Zenon, <2>3, <3>0 DEF Some
    <3>2. (CHOOSE v \in mailboxes[p][w] : TRUE) = m
      BY Zenon, <3>1
    <3>3. combined' \in [Workers -> Seq(Messages)]
      <4>1. combined' = [combined EXCEPT ![w] = Append(combined[w], m)]
        BY Zenon, <1>13, <1>a, <2>1, <2>3, <3>2 DEF TypeOK, TakeMessage
      <4> QED
        BY SMTT(30), <1>a, <4>1 DEF TypeOK
    <3>4. mailboxes' \in [Workers -> [Workers -> {None} \cup {Some(n) : n \in Messages}]]
      BY Zenon, <1>13, <1>a, <2>1 DEF TypeOK, TakeMessage
    <3> QED
      BY Zenon, <1>13, <1>a, <2>1, <2>3, <3>3, <3>4
         DEF TypeOK, PCs, ReceivePCs, TakeMessage, Goto, callbacks, notified
  <2>7. ASSUME NEW s \in Workers, NEW r \in Workers PROVE PairOK(s, r)'
    <3>1. PairOK(s, r)
      BY Zenon, <1>a DEF PairsOK
    <3>2. ToSend(s, r)' => ToSend(s, r)
      BY Zenon, <2>0, <2>2 DEF ToSend, SendPCs
    <3>3. ToTake(s, r)' => ToTake(s, r)
      <4>1. CASE r = w
        BY Zenon, <2>0, <2>1, <2>2, <4>1, WorkersFacts DEF ToTake, ReceivePCs
      <4>2. CASE r # w
        BY Zenon, <2>2, <4>2 DEF ToTake
      <4> QED
        BY Zenon, <4>1, <4>2
    <3>4. Window(s, r)' => mailboxes[s][r]' = None
      BY SMTT(30), <2>0, <2>1, <2>2, <3>1 DEF PairOK, Window
    <3>5. pc[s]' \in {"sub_sender", "add_receiver"} /\ peer[s]' = r =>
            mailboxes[s][r]' # None
      BY <2>0, <2>1, <2>2, <2>3, <3>1 DEF PairOK
    <3> QED
      BY Zenon, <2>4, <3>1, <3>2, <3>3, <3>4, <3>5 DEF PairOK
  <2>8. RoundsLeft' /\ NoPanic'
    BY <1>13, <1>a, <2>0, <2>2 DEF RoundsLeft, NoPanic, TakeMessage
  <2> QED
    BY Zenon, <2>5, <2>6, <2>7, <2>8 DEF IInv, PairsOK

<1>14. ASSUME NEW w \in Workers, SubReceiverCounter(w) PROVE IInv'
  <2>1. PICK p \in Workers : p = peer[w]
    BY Zenon, <1>a DEF TypeOK
  <2>2. /\ \A v \in Workers : v # w => pc[v]' = pc[v]
        /\ \A v \in Workers : peer[v]' = peer[v]
        /\ pc[w] = "sub_receiver"
        /\ pc[w]' = "add_sender"
        /\ mailboxes' = mailboxes
        /\ sender_counters' = sender_counters
        /\ \A v \in Workers : v # w => receiver_counters[v]' = receiver_counters[v]
        /\ receiver_counters[w]' = receiver_counters[w] - 1
    BY Zenon, <1>14, <1>a DEF TypeOK, SubReceiverCounter, Goto
  <2>3. mailboxes[p][w] = None
    BY Zenon, <2>1, <2>2, <1>a DEF PairsOK, PairOK, Window
  <2>4. /\ \A s, r \in Workers : InOut(s, r)' <=> InOut(s, r)
        /\ \A s, r \in Workers :
             s # p \/ r # w => (InArr(s, r)' <=> InArr(s, r))
        /\ InArr(p, w) /\ ~InArr(p, w)'
    BY SMTT(30), <2>1, <2>2, <2>3 DEF InOut, InArr, Window
  <2>5. Counters'
    <3>1. Arrived(w)' = Arrived(w) \ {p}
      BY Zenon, <2>1, <2>4 DEF Arrived
    <3>2. p \in Arrived(w) /\ Arrived(w) \in SUBSET Workers
      BY Zenon, <2>1, <2>4 DEF Arrived
    <3>3. /\ \A v \in Workers : v # w => Arrived(v)' = Arrived(v)
          /\ \A v \in Workers : Outstanding(v)' = Outstanding(v)
      BY Zenon, <2>4 DEF Outstanding, Arrived
    <3>4. /\ Cardinality(Arrived(w)') = Cardinality(Arrived(w)) - 1
          /\ Cardinality(Arrived(w)) \in 0 .. npeers
      BY Zenon, <2>1, <3>1, <3>2, CountRemove, CountRange
    <3>5. \A v \in Workers :
             sender_counters[v] = npeers - Cardinality(Outstanding(v))
             /\ receiver_counters[v] = Cardinality(Arrived(v))
      BY Zenon, <1>a DEF Counters
    <3>6. receiver_counters[w]' = Cardinality(Arrived(w)')
      BY Zenon, <2>1, <2>2, <3>4, <3>5, NPeersAssumption
    <3> QED
      BY Zenon, <2>1, <2>2, <3>3, <3>5, <3>6 DEF Counters
  <2>6. TypeOK'
    <3>1. \A v \in Workers : receiver_counters[v]' \in 0 .. npeers
      BY Zenon, <2>5, CountersRange
    <3> QED
      BY Zenon, <1>14, <1>a, <3>1
         DEF TypeOK, PCs, ReceivePCs, SubReceiverCounter, Goto, callbacks, notified
  <2>7. ASSUME NEW s \in Workers, NEW r \in Workers PROVE PairOK(s, r)'
    <3>1. PairOK(s, r)
      BY Zenon, <1>a DEF PairsOK
    <3>2. ToSend(s, r)' => ToSend(s, r)
      BY Zenon, <2>2 DEF ToSend, SendPCs
    <3>3. ToTake(s, r)' => ToTake(s, r) /\ (s # p \/ r # w)
      <4>1. CASE r = w
        BY <2>1, <2>2, <4>1, WorkersFacts DEF ToTake, ReceivePCs
      <4>2. CASE r # w
        BY Zenon, <2>2, <4>2 DEF ToTake
      <4> QED
        BY Zenon, <4>1, <4>2
    <3>4. Window(s, r)' => mailboxes[s][r]' = None
      BY Zenon, <2>1, <2>2, <3>1 DEF PairOK, Window
    <3>5. pc[s]' \in {"sub_sender", "add_receiver"} /\ peer[s]' = r =>
            mailboxes[s][r]' # None
      BY Zenon, <2>1, <2>2, <3>1 DEF PairOK
    <3> QED
      BY Zenon, <2>4, <3>1, <3>2, <3>3, <3>4, <3>5 DEF PairOK
  <2>8. RoundsLeft' /\ NoPanic'
    BY Zenon, <1>14, <1>a, <2>2 DEF RoundsLeft, NoPanic, SubReceiverCounter
  <2> QED
    BY Zenon, <2>5, <2>6, <2>7, <2>8 DEF IInv, PairsOK

<1>15. ASSUME NEW w \in Workers, AddSenderCounter(w) PROVE IInv'
  <2>1. PICK p \in Workers : p = peer[w]
    BY Zenon, <1>a DEF TypeOK
  <2>2. /\ \A v \in Workers : v # w => pc[v]' = pc[v] /\ peer[v]' = peer[v]
        /\ pc[w] = "add_sender"
        /\ \/ pc[w]' = "call_sender" /\ peer[w]' = p
           \/ pc[w]' = "take" /\ peer[w]' = p + 1 /\ p + 1 < npeers
           \/ pc[w]' \in {"wait_send", "done"} /\ peer[w]' = p
        /\ mailboxes' = mailboxes
        /\ receiver_counters' = receiver_counters
        /\ \A v \in Workers : v # p => sender_counters[v]' = sender_counters[v]
        /\ sender_counters[p]' = sender_counters[p] + 1
    BY SMTT(30), <1>15, <1>a, <2>1 DEF TypeOK, AddSenderCounter, NextSender
  <2>3. mailboxes[p][w] = None
    BY Zenon, <2>1, <2>2, <1>a DEF PairsOK, PairOK, Window
  <2>4. /\ \A s, r \in Workers : InArr(s, r)' <=> InArr(s, r)
        /\ \A s, r \in Workers :
             s # p \/ r # w => (InOut(s, r)' <=> InOut(s, r))
        /\ InOut(p, w) /\ ~InOut(p, w)'
    BY <2>1, <2>2, <2>3 DEF InOut, InArr, Window
  <2>5. Counters'
    <3>1. Outstanding(p)' = Outstanding(p) \ {w}
      BY Zenon, <2>1, <2>4 DEF Outstanding
    <3>2. w \in Outstanding(p) /\ Outstanding(p) \in SUBSET Workers
      BY Zenon, <2>1, <2>4 DEF Outstanding
    <3>3. /\ \A v \in Workers : v # p => Outstanding(v)' = Outstanding(v)
          /\ \A v \in Workers : Arrived(v)' = Arrived(v)
      BY Zenon, <2>4 DEF Outstanding, Arrived
    <3>4. /\ Cardinality(Outstanding(p)') = Cardinality(Outstanding(p)) - 1
          /\ Cardinality(Outstanding(p)) \in 0 .. npeers
      BY Zenon, <2>1, <3>1, <3>2, CountRemove, CountRange
    <3>5. \A v \in Workers :
             sender_counters[v] = npeers - Cardinality(Outstanding(v))
             /\ receiver_counters[v] = Cardinality(Arrived(v))
      BY Zenon, <1>a DEF Counters
    <3>6. sender_counters[p]' = npeers - Cardinality(Outstanding(p)')
      BY <2>1, <2>2, <3>4, <3>5, NPeersAssumption
    <3> QED
      BY Zenon, <2>1, <2>2, <3>3, <3>5, <3>6 DEF Counters
  <2>6. /\ pc' \in [Workers -> PCs] /\ peer' \in [Workers -> Workers]
        /\ round' \in [Workers -> 0 .. MaxRounds]
        /\ RoundsLeft'
    <3>1. CASE NextSender(w)
      BY Zenon, <1>a, <2>2, <3>1, NextSenderType
    <3>2. CASE ~NextSender(w)
      BY Zenon, <1>15, <1>a, <3>2
         DEF TypeOK, PCs, ReceivePCs, RoundsLeft, AddSenderCounter
    <3> QED
      BY Zenon, <3>1, <3>2
  <2>7. TypeOK'
    <3>1. sender_counters' \in [Workers -> 0 .. npeers]
      <4>1. \A v \in Workers : sender_counters[v]' \in 0 .. npeers
        BY Zenon, <2>5, CountersRange
      <4> QED
        BY Zenon, <1>15, <1>a, <4>1 DEF TypeOK, AddSenderCounter
    <3> QED
      BY Zenon, <1>15, <1>a, <2>6, <3>1 DEF TypeOK, AddSenderCounter, callbacks, notified
  <2>8. ASSUME NEW s \in Workers, NEW r \in Workers PROVE PairOK(s, r)'
    <3>1. PairOK(s, r)
      BY Zenon, <1>a DEF PairsOK
    <3>2. ToSend(s, r)' => ToSend(s, r)
      <4>1. CASE s = w
        BY Zenon, <2>1, <2>2, <4>1, WorkersFacts DEF ToSend, SendPCs
      <4>2. CASE s # w
        BY Zenon, <2>2, <4>2 DEF ToSend
      <4> QED
        BY Zenon, <4>1, <4>2
    <3>3. ToTake(s, r)' => ToTake(s, r)
      <4>1. CASE r = w
        BY <2>1, <2>2, <4>1, WorkersFacts DEF ToTake, ReceivePCs
      <4>2. CASE r # w
        BY Zenon, <2>2, <4>2 DEF ToTake
      <4> QED
        BY Zenon, <4>1, <4>2
    <3>4. Window(s, r)' => mailboxes[s][r]' = None
      BY Zenon, <2>1, <2>2, <3>1 DEF PairOK, Window
    <3>5. pc[s]' \in {"sub_sender", "add_receiver"} /\ peer[s]' = r =>
            mailboxes[s][r]' # None
      BY Zenon, <2>1, <2>2, <3>1 DEF PairOK
    <3> QED
      BY Zenon, <2>4, <3>1, <3>2, <3>3, <3>4, <3>5 DEF PairOK
  <2>9. NoPanic'
    BY Zenon, <1>a, <2>2 DEF NoPanic
  <2> QED
    BY Zenon, <2>5, <2>6, <2>7, <2>8, <2>9 DEF IInv, PairsOK

<1>16. ASSUME NEW w \in Workers, CallSender(w) PROVE IInv'
  <2>1. PICK p \in Workers : p = peer[w]
    BY Zenon, <1>a DEF TypeOK
  <2>2. /\ \A v \in Workers : v # w => pc[v]' = pc[v] /\ peer[v]' = peer[v]
        /\ pc[w] = "call_sender"
        /\ \/ pc[w]' = "take" /\ peer[w]' = p + 1
           \/ pc[w]' \in {"wait_send", "done"} /\ peer[w]' = p
        /\ UNCHANGED shared
    BY SMTT(30), <1>16, <1>a, <2>1 DEF TypeOK, CallSender, NextSender, shared
  <2>3. \A s, r \in Workers : (s = w /\ ToSend(s, r)' => ~InOut(s, r))
                             /\ (r = w /\ ToTake(s, r)' => InArr(s, r))
    <3>1. \A s \in Workers : ToTake(s, w)' => ToTake(s, w)
      BY <2>1, <2>2, WorkersFacts DEF ToTake, ReceivePCs
    <3>2. \A r \in Workers : ~ToSend(w, r)'
      BY Zenon, <2>2 DEF ToSend, SendPCs
    <3> QED
      BY Zenon, <3>1, <3>2, <1>a DEF PairsOK, PairOK
  <2>4. Counters' /\ PairsOK'
    BY Zenon, <2>2, <2>3, <1>a, LocalMove DEF Busy
  <2>5. /\ pc' \in [Workers -> PCs] /\ peer' \in [Workers -> Workers]
        /\ round' \in [Workers -> 0 .. MaxRounds]
        /\ RoundsLeft'
    BY Zenon, <1>16, <1>a, <2>2, NextSenderType DEF CallSender
  <2>6. TypeOK'
    BY Zenon, <1>16, <1>a, <2>5 DEF TypeOK, CallSender, shared, callbacks
  <2>7. NoPanic'
    BY Zenon, <1>a, <2>2 DEF NoPanic
  <2> QED
    BY Zenon, <2>4, <2>5, <2>6, <2>7 DEF IInv

<1>17. CASE UNCHANGED vars
  <2>1. \A s, r \in Workers : (InOut(s, r)' <=> InOut(s, r))
                             /\ (InArr(s, r)' <=> InArr(s, r))
    BY <1>17 DEF vars, InOut, InArr, Window
  <2>2. Counters'
    BY Zenon, <1>17, <1>a, <2>1, SameCounts DEF vars
  <2>3. PairsOK'
    BY <1>17, <1>a, <2>1 DEF vars, PairsOK, PairOK, ToSend, ToTake, Window
  <2> QED
    BY Zenon, <1>17, <1>a, <2>2, <2>3 DEF vars, IInv, TypeOK, RoundsLeft, NoPanic

<1> QED
  BY Zenon, <1>1, <1>2, <1>3, <1>4, <1>5, <1>6, <1>7, <1>8, <1>9, <1>10, <1>11,
     <1>12, <1>13, <1>14, <1>15, <1>16, <1>17
     DEF Next, Worker, Attach, Send, Receive, Terminated

-----------------------------------------------------------------------------
\* The strengthened invariant holds in every reachable state.
THEOREM Inductive == Spec => []IInv
BY IInvInit, IInvStep, PTL DEF Spec

\* The counters of Exchange never leave 0 .. npeers, whatever the interleaving
\* of fetch_add and fetch_sub, and every loop index stays in range.
THEOREM TypeSafe == Spec => []TypeOK
BY Inductive, PTL DEF IInv

\* After a successful ready check, try_send_all and try_receive_all succeed
\* and every mailbox that a receiver unwraps holds a value.
THEOREM NoPanicSafe == Spec => []NoPanic
BY Inductive, PTL DEF IInv

\* try_send_all never overwrites a value that was not taken.
THEOREM NoOverwriteSafe == Spec => []NoOverwrite
<1>1. IInv => NoOverwrite
  <2> SUFFICES ASSUME IInv, NEW w \in Workers, pc[w] = "post"
               PROVE  mailboxes[w][peer[w]] = None
    BY Zenon DEF NoOverwrite
  <2>1. peer[w] \in Workers /\ ToSend(w, peer[w])
    BY Zenon DEF IInv, TypeOK, ToSend, SendPCs
  <2>2. ~InOut(w, peer[w])
    BY Zenon, <2>1 DEF IInv, PairsOK, PairOK
  <2> QED
    BY Zenon, <2>2 DEF InOut
<1> QED
  BY <1>1, Inductive, PTL

-----------------------------------------------------------------------------
(***************************************************************************)
(* Rounds: Exchange implements ExchangeRounds, a receiver combines exactly *)
(* the values of its own round, and the workers' clocks stay within one    *)
(* cycle of each other.                                                    *)
(*                                                                         *)
(* The strengthening ties a mailbox to the two ghost counters: it is empty *)
(* when they agree, and else holds the one value that was not taken.       *)
(***************************************************************************)

BoxOK(s, r) ==
    \/ Sent(s, r) = Taken(s, r) /\ mailboxes[s][r] = None
    \/ /\ Sent(s, r) = Taken(s, r) + 1
       /\ mailboxes[s][r] = Some(Msg(s, r, Taken(s, r)))

BoxesOK == \A s, r \in Workers : BoxOK(s, r)

\* The values of cycle k that the first n senders have for w.
Values(w, n, k) == [i \in 1 .. n |-> Msg(i - 1, w, k)]

CombinedOK(w) ==
    /\ pc[w] = "take" => combined[w] = Values(w, peer[w], round[w])
    /\ pc[w] \in ReceivePCs \ {"take"} =>
         combined[w] = Values(w, peer[w] + 1, round[w])
    /\ pc[w] \in {"wait_send", "done"} /\ round[w] > 0 =>
         combined[w] = Values(w, npeers, round[w] - 1)
    /\ pc[w] \in RegisterPCs => round[w] = 0

AllCombinedOK == \A w \in Workers : CombinedOK(w)

RInv == IInv /\ BoxesOK /\ AllCombinedOK

-----------------------------------------------------------------------------
\* The type of the ghost counters.
LEMMA GhostType ==
    ASSUME TypeOK
    PROVE  \A s, r \in Workers :
             /\ Sent(s, r) \in {round[s], round[s] + 1}
             /\ Taken(s, r) \in {round[r], round[r] + 1}
             /\ round[s] \in Nat /\ round[r] \in Nat
<1>1. \A w \in Workers : round[w] \in Nat
  BY MaxRoundsAssumption DEF TypeOK
<1> QED
  BY <1>1 DEF Sent, Taken

\* Only PostMessage and TakeMessage change a mailbox or a ghost counter: the
\* loop indices and the cycle counter move together.
LEMMA QuietStep ==
    ASSUME IInv, NEW w \in Workers, Worker(w), ~PostMessage(w), ~TakeMessage(w)
    PROVE  /\ mailboxes' = mailboxes
           /\ \A s, r \in Workers : /\ Sent(s, r)' = Sent(s, r)
                                    /\ Taken(s, r)' = Taken(s, r)
<1>a. TypeOK /\ NoPanic /\ NoPanic'
  <2>1. [Next]_vars
    BY Zenon DEF Next
  <2> QED
    BY Zenon, <2>1, IInvStep DEF IInv
<1>b. PICK p \in Workers : p = peer[w]
  BY Zenon, <1>a DEF TypeOK
<1>c. /\ p \in Int /\ 0 <= p /\ p < npeers
      /\ \A v \in Workers : v \in Int /\ 0 <= v /\ v < npeers
      /\ round[w] \in Int /\ npeers \in Int
  <2>1. round[w] \in 0 .. MaxRounds
    BY Zenon, <1>a DEF TypeOK
  <2> QED
    BY <2>1, WorkersFacts, MaxRoundsAssumption, NPeersAssumption
<1>1. CASE register_sender_callback(w)
  <2>1. /\ mailboxes' = mailboxes
        /\ \A v \in Workers : v # w => /\ pc[v]' = pc[v]
                                       /\ peer[v]' = peer[v]
                                       /\ round[v]' = round[v]
        /\ pc[w] = "register_sender" /\ pc[w]' = "check_sender"
        /\ peer[w]' = peer[w] /\ round[w]' = round[w]
    BY Zenon, <1>1, <1>a DEF TypeOK, NoPanic, register_sender_callback, Goto, shared
  <2> QED
    BY <2>1, <1>b, <1>c DEF Sent, Taken, HasPosted, HasTaken, SendPCs, ReceivePCs
<1>2. CASE check_sender(w)
  <2>1. /\ mailboxes' = mailboxes
        /\ \A v \in Workers : v # w => /\ pc[v]' = pc[v]
                                       /\ peer[v]' = peer[v]
                                       /\ round[v]' = round[v]
        /\ pc[w] = "check_sender" /\ pc[w]' = "register_receiver"
        /\ peer[w]' = peer[w] /\ round[w]' = round[w]
    BY Zenon, <1>2, <1>a DEF TypeOK, NoPanic, check_sender, Goto, shared
  <2> QED
    BY <2>1, <1>b, <1>c DEF Sent, Taken, HasPosted, HasTaken, SendPCs, ReceivePCs
<1>3. CASE register_receiver_callback(w)
  <2>1. /\ mailboxes' = mailboxes
        /\ \A v \in Workers : v # w => /\ pc[v]' = pc[v]
                                       /\ peer[v]' = peer[v]
                                       /\ round[v]' = round[v]
        /\ pc[w] = "register_receiver" /\ pc[w]' = "check_receiver"
        /\ peer[w]' = peer[w] /\ round[w]' = round[w]
    BY Zenon, <1>3, <1>a DEF TypeOK, NoPanic, register_receiver_callback, Goto, shared
  <2> QED
    BY <2>1, <1>b, <1>c DEF Sent, Taken, HasPosted, HasTaken, SendPCs, ReceivePCs
<1>4. CASE check_receiver(w)
  <2>1. /\ mailboxes' = mailboxes
        /\ \A v \in Workers : v # w => /\ pc[v]' = pc[v]
                                       /\ peer[v]' = peer[v]
                                       /\ round[v]' = round[v]
        /\ pc[w] = "check_receiver" /\ pc[w]' = "wait_send"
        /\ peer[w]' = peer[w] /\ round[w]' = round[w]
    BY Zenon, <1>4, <1>a DEF TypeOK, NoPanic, check_receiver, Goto, shared
  <2> QED
    BY <2>1, <1>b, <1>c DEF Sent, Taken, HasPosted, HasTaken, SendPCs, ReceivePCs
<1>5. CASE SenderWake(w)
  <2>1. /\ mailboxes' = mailboxes
        /\ \A v \in Workers : v # w => /\ pc[v]' = pc[v]
                                       /\ peer[v]' = peer[v]
                                       /\ round[v]' = round[v]
        /\ pc[w] = "wait_send" /\ pc[w]' \in {"wait_send", "try_send"}
        /\ peer[w]' = peer[w] /\ round[w]' = round[w]
    BY Zenon, <1>5, <1>a DEF TypeOK, NoPanic, SenderWake, Goto, shared
  <2> QED
    BY <2>1, <1>b, <1>c DEF Sent, Taken, HasPosted, HasTaken, SendPCs, ReceivePCs
<1>6. CASE try_send_all(w)
  <2>1. /\ mailboxes' = mailboxes
        /\ \A v \in Workers : v # w => /\ pc[v]' = pc[v]
                                       /\ peer[v]' = peer[v]
                                       /\ round[v]' = round[v]
        /\ pc[w] = "try_send" /\ pc[w]' = "post" /\ peer[w]' = 0
        /\ round[w]' = round[w]
    BY Zenon, <1>6, <1>a DEF TypeOK, NoPanic, try_send_all, Goto, shared
  <2> QED
    BY <2>1, <1>b, <1>c DEF Sent, Taken, HasPosted, HasTaken, SendPCs, ReceivePCs
<1>7. CASE SubSenderCounter(w)
  <2>1. /\ mailboxes' = mailboxes
        /\ \A v \in Workers : v # w => /\ pc[v]' = pc[v]
                                       /\ peer[v]' = peer[v]
                                       /\ round[v]' = round[v]
        /\ pc[w] = "sub_sender" /\ pc[w]' = "add_receiver"
        /\ peer[w]' = peer[w] /\ round[w]' = round[w]
    BY Zenon, <1>7, <1>a DEF TypeOK, NoPanic, SubSenderCounter, Goto, shared
  <2> QED
    BY <2>1, <1>b, <1>c DEF Sent, Taken, HasPosted, HasTaken, SendPCs, ReceivePCs
<1>8. CASE ReceiverWake(w)
  <2>1. /\ mailboxes' = mailboxes
        /\ \A v \in Workers : v # w => /\ pc[v]' = pc[v]
                                       /\ peer[v]' = peer[v]
                                       /\ round[v]' = round[v]
        /\ pc[w] = "wait_receive" /\ pc[w]' \in {"wait_receive", "try_receive"}
        /\ peer[w]' = peer[w] /\ round[w]' = round[w]
    BY Zenon, <1>8, <1>a DEF TypeOK, NoPanic, ReceiverWake, Goto, shared
  <2> QED
    BY <2>1, <1>b, <1>c DEF Sent, Taken, HasPosted, HasTaken, SendPCs, ReceivePCs
<1>9. CASE try_receive_all(w)
  <2>1. /\ mailboxes' = mailboxes
        /\ \A v \in Workers : v # w => /\ pc[v]' = pc[v]
                                       /\ peer[v]' = peer[v]
                                       /\ round[v]' = round[v]
        /\ pc[w] = "try_receive" /\ pc[w]' = "take" /\ peer[w]' = 0
        /\ round[w]' = round[w]
    BY Zenon, <1>9, <1>a DEF TypeOK, NoPanic, try_receive_all, Goto, shared
  <2> QED
    BY <2>1, <1>b, <1>c DEF Sent, Taken, HasPosted, HasTaken, SendPCs, ReceivePCs
<1>10. CASE SubReceiverCounter(w)
  <2>1. /\ mailboxes' = mailboxes
        /\ \A v \in Workers : v # w => /\ pc[v]' = pc[v]
                                       /\ peer[v]' = peer[v]
                                       /\ round[v]' = round[v]
        /\ pc[w] = "sub_receiver" /\ pc[w]' = "add_sender"
        /\ peer[w]' = peer[w] /\ round[w]' = round[w]
    BY Zenon, <1>10, <1>a DEF TypeOK, NoPanic, SubReceiverCounter, Goto, shared
  <2> QED
    BY <2>1, <1>b, <1>c DEF Sent, Taken, HasPosted, HasTaken, SendPCs, ReceivePCs
<1>11. CASE AddReceiverCounter(w)
  <2>1. /\ mailboxes' = mailboxes
        /\ \A v \in Workers : v # w => /\ pc[v]' = pc[v]
                                       /\ peer[v]' = peer[v]
                                       /\ round[v]' = round[v]
        /\ pc[w] = "add_receiver"
        /\ \/ pc[w]' = "call_receiver" /\ peer[w]' = p /\ round[w]' = round[w]
           \/ pc[w]' = "post" /\ peer[w]' = p + 1 /\ round[w]' = round[w]
           \/ /\ pc[w]' = "wait_receive" /\ p + 1 = npeers
              /\ round[w]' = round[w]
    <3>1. CASE p + 1 < npeers
      BY <1>11, <1>a, <1>b, <3>1 DEF TypeOK, AddReceiverCounter, NextReceiver, shared
    <3>2. CASE p + 1 = npeers
      BY SMTT(30), <1>11, <1>a, <1>b, <1>c, <3>2 DEF TypeOK, AddReceiverCounter, NextReceiver, shared
    <3> QED
      BY <1>c, <3>1, <3>2
  <2> QED
    BY <2>1, <1>b, <1>c DEF Sent, Taken, HasPosted, HasTaken, SendPCs, ReceivePCs
<1>12. CASE CallReceiver(w)
  <2>1. /\ mailboxes' = mailboxes
        /\ \A v \in Workers : v # w => /\ pc[v]' = pc[v]
                                       /\ peer[v]' = peer[v]
                                       /\ round[v]' = round[v]
        /\ pc[w] = "call_receiver"
        /\ \/ pc[w]' = "post" /\ peer[w]' = p + 1 /\ round[w]' = round[w]
           \/ /\ pc[w]' = "wait_receive" /\ p + 1 = npeers
              /\ round[w]' = round[w]
    <3>1. CASE p + 1 < npeers
      BY Zenon, <1>12, <1>a, <1>b, <3>1 DEF TypeOK, CallReceiver, NextReceiver, shared
    <3>2. CASE p + 1 = npeers
      BY SMTT(30), <1>12, <1>a, <1>b, <1>c, <3>2 DEF TypeOK, CallReceiver, NextReceiver, shared
    <3> QED
      BY <1>c, <3>1, <3>2
  <2> QED
    BY <2>1, <1>b, <1>c DEF Sent, Taken, HasPosted, HasTaken, SendPCs, ReceivePCs
<1>13. CASE AddSenderCounter(w)
  <2>1. /\ mailboxes' = mailboxes
        /\ \A v \in Workers : v # w => /\ pc[v]' = pc[v]
                                       /\ peer[v]' = peer[v]
                                       /\ round[v]' = round[v]
        /\ pc[w] = "add_sender"
        /\ \/ pc[w]' = "call_sender" /\ peer[w]' = p /\ round[w]' = round[w]
           \/ pc[w]' = "take" /\ peer[w]' = p + 1 /\ round[w]' = round[w]
           \/ /\ pc[w]' \in {"wait_send", "done"} /\ p + 1 = npeers
              /\ round[w]' = round[w] + 1
    <3>1. CASE p + 1 < npeers
      BY <1>13, <1>a, <1>b, <3>1 DEF TypeOK, AddSenderCounter, NextSender, shared
    <3>2. CASE p + 1 = npeers
      BY Zenon, <1>13, <1>a, <1>b, <1>c, <3>2 DEF TypeOK, AddSenderCounter, NextSender, shared
    <3> QED
      BY <1>c, <3>1, <3>2
  <2> QED
    BY <2>1, <1>b, <1>c DEF Sent, Taken, HasPosted, HasTaken, SendPCs, ReceivePCs
<1>14. CASE CallSender(w)
  <2>1. /\ mailboxes' = mailboxes
        /\ \A v \in Workers : v # w => /\ pc[v]' = pc[v]
                                       /\ peer[v]' = peer[v]
                                       /\ round[v]' = round[v]
        /\ pc[w] = "call_sender"
        /\ \/ pc[w]' = "take" /\ peer[w]' = p + 1 /\ round[w]' = round[w]
           \/ /\ pc[w]' \in {"wait_send", "done"} /\ p + 1 = npeers
              /\ round[w]' = round[w] + 1
    <3>1. CASE p + 1 < npeers
      BY Zenon, <1>14, <1>a, <1>b, <3>1 DEF TypeOK, CallSender, NextSender, shared
    <3>2. CASE p + 1 = npeers
      BY SMTT(30), <1>14, <1>a, <1>b, <1>c, <3>2 DEF TypeOK, CallSender, NextSender, shared
    <3> QED
      BY <1>c, <3>1, <3>2
  <2> QED
    BY <2>1, <1>b, <1>c DEF Sent, Taken, HasPosted, HasTaken, SendPCs, ReceivePCs
<1> QED
  BY Zenon, <1>1, <1>2, <1>3, <1>4, <1>5, <1>6, <1>7, <1>8, <1>9, <1>10, <1>11,
     <1>12, <1>13, <1>14 DEF Worker, Attach, Send, Receive

\* PostMessage puts the value of its own round in an empty mailbox, when every
\* peer has taken the value of the previous round.
LEMMA PostStep ==
    ASSUME IInv, BoxesOK, NEW w \in Workers, NEW p \in Workers, p = peer[w],
           PostMessage(w)
    PROVE  /\ Sent(w, p) = round[w] /\ Sent(w, p)' = round[w] + 1
           /\ \A s, r \in Workers : s # w \/ r # p => Sent(s, r)' = Sent(s, r)
           /\ \A s, r \in Workers : Taken(s, r)' = Taken(s, r)
           /\ Taken(w, p) = round[w]
           /\ mailboxes[w][p]' = Some(Msg(w, p, round[w]))
           /\ \A s, r \in Workers :
                s # w \/ r # p => mailboxes[s][r]' = mailboxes[s][r]
           /\ round[w] < MaxRounds
           /\ \A q \in Workers : Taken(w, q) >= round[w]
<1>a. TypeOK /\ PairsOK /\ RoundsLeft
  BY Zenon DEF IInv
<1>b. round[w] \in Nat /\ \A v \in Workers : v \in Int
  BY Zenon, <1>a, GhostType, WorkersFacts
<1>1. /\ \A v \in Workers : /\ v # w => pc[v]' = pc[v]
                            /\ peer[v]' = peer[v]
                            /\ round[v]' = round[v]
      /\ pc[w] = "post" /\ pc[w]' = "sub_sender"
      /\ mailboxes[w][p]' = Some(Msg(w, p, round[w]))
      /\ \A s, r \in Workers :
           s # w \/ r # p => mailboxes[s][r]' = mailboxes[s][r]
  BY Zenon, <1>a DEF TypeOK, PostMessage, Goto
<1>2. Sent(w, p) = round[w] /\ Sent(w, p)' = round[w] + 1
  BY <1>1, <1>b DEF Sent, HasPosted, SendPCs, ReceivePCs
<1>3. ASSUME NEW s \in Workers, NEW r \in Workers, s # w \/ r # p
      PROVE  Sent(s, r)' = Sent(s, r)
  <2>1. CASE s = w
    BY Zenon, <1>1, <1>3, <1>b, <2>1 DEF Sent, HasPosted, SendPCs, ReceivePCs
  <2>2. CASE s # w
    BY Zenon, <1>1, <2>2 DEF Sent, HasPosted
  <2> QED
    BY Zenon, <2>1, <2>2
<1>4. ASSUME NEW s \in Workers, NEW r \in Workers
      PROVE  Taken(s, r)' = Taken(s, r)
  BY Zenon, <1>1 DEF Taken, HasTaken, ReceivePCs
<1>5. ASSUME NEW q \in Workers
      PROVE  Taken(w, q) >= round[w] /\ (q = p => Taken(w, q) = round[w])
  <2>1. CASE ToSend(w, q)
    <3>1. mailboxes[w][q] = None
      BY Zenon, <1>a, <1>1, <2>1 DEF PairsOK, PairOK, InOut
    <3>2. Sent(w, q) = round[w]
      BY <1>1, <1>b, <2>1 DEF ToSend, Sent, HasPosted, SendPCs, ReceivePCs
    <3>3. Sent(w, q) = Taken(w, q)
      BY Zenon, <3>1 DEF BoxesOK, BoxOK, None, Some
    <3> QED
      BY <3>2, <3>3, <1>b
  <2>2. CASE ~ToSend(w, q)
    <3>1. Sent(w, q) = round[w] + 1 /\ q # p
      BY <1>1, <1>b, <2>2 DEF ToSend, Sent, HasPosted, SendPCs
    <3>2. Taken(w, q) \in Nat
      BY <1>a, GhostType
    <3> QED
      BY <3>1, <3>2, <1>b DEF BoxesOK, BoxOK
  <2> QED
    BY Zenon, <2>1, <2>2
<1>6. round[w] < MaxRounds
  BY Zenon, <1>1, <1>a DEF RoundsLeft
<1> QED
  BY Zenon, <1>1, <1>2, <1>3, <1>4, <1>5, <1>6

\* TakeMessage takes the value of its own round, when every peer has sent its
\* value of that round.
LEMMA TakeStep ==
    ASSUME IInv, BoxesOK, NEW w \in Workers, NEW p \in Workers, p = peer[w],
           TakeMessage(w)
    PROVE  /\ Taken(p, w) = round[w] /\ Taken(p, w)' = round[w] + 1
           /\ \A s, r \in Workers : s # p \/ r # w => Taken(s, r)' = Taken(s, r)
           /\ \A s, r \in Workers : Sent(s, r)' = Sent(s, r)
           /\ Sent(p, w) = round[w] + 1
           /\ mailboxes[p][w] = Some(Msg(p, w, round[w]))
           /\ mailboxes[p][w]' = None
           /\ \A s, r \in Workers :
                s # p \/ r # w => mailboxes[s][r]' = mailboxes[s][r]
           /\ \A q \in Workers : Sent(q, w) > round[w]
<1>a. TypeOK /\ PairsOK
  BY Zenon DEF IInv
<1>b. round[w] \in Nat /\ \A v \in Workers : v \in Int
  BY Zenon, <1>a, GhostType, WorkersFacts
<1>0. pc[w] = "take"
  BY Zenon DEF TakeMessage, Goto
<1>1. ASSUME NEW q \in Workers
      PROVE  /\ Sent(q, w) > round[w]
             /\ q = p => /\ Taken(q, w) = round[w]
                         /\ Sent(q, w) = round[w] + 1
                         /\ mailboxes[q][w] = Some(Msg(q, w, round[w]))
  <2>1. CASE ToTake(q, w)
    <3>1. mailboxes[q][w] # None
      BY Zenon, <1>a, <1>0, <2>1 DEF PairsOK, PairOK, InArr
    <3>2. Taken(q, w) = round[w]
      BY <1>0, <1>b, <2>1 DEF ToTake, Taken, HasTaken, ReceivePCs
    <3>3. Sent(q, w) = Taken(q, w) + 1
          /\ mailboxes[q][w] = Some(Msg(q, w, Taken(q, w)))
      BY Zenon, <3>1 DEF BoxesOK, BoxOK
    <3> QED
      BY <3>2, <3>3, <1>b
  <2>2. CASE ~ToTake(q, w)
    <3>1. Taken(q, w) = round[w] + 1 /\ q # p
      BY <1>0, <1>b, <2>2 DEF ToTake, Taken, HasTaken, ReceivePCs
    <3> QED
      BY <3>1, <1>b DEF BoxesOK, BoxOK
  <2> QED
    BY Zenon, <2>1, <2>2
<1>2. mailboxes[p][w] # None
  BY Zenon, <1>1 DEF Some, None
<1>3. /\ \A v \in Workers : /\ v # w => pc[v]' = pc[v]
                            /\ peer[v]' = peer[v]
                            /\ round[v]' = round[v]
      /\ pc[w]' = "sub_receiver"
      /\ mailboxes[p][w]' = None
      /\ \A s, r \in Workers :
           s # p \/ r # w => mailboxes[s][r]' = mailboxes[s][r]
  BY Zenon, <1>a, <1>0, <1>2 DEF TypeOK, TakeMessage, Goto
<1>4. Taken(p, w)' = round[w] + 1
  BY Zenon, <1>0, <1>3, <1>b DEF Taken, HasTaken, ReceivePCs
<1>5. ASSUME NEW s \in Workers, NEW r \in Workers, s # p \/ r # w
      PROVE  Taken(s, r)' = Taken(s, r)
  <2>1. CASE r = w
    BY Zenon, <1>0, <1>3, <1>5, <1>b, <2>1 DEF Taken, HasTaken, ReceivePCs
  <2>2. CASE r # w
    BY Zenon, <1>3, <2>2 DEF Taken, HasTaken
  <2> QED
    BY Zenon, <2>1, <2>2
<1>6. ASSUME NEW s \in Workers, NEW r \in Workers
      PROVE  Sent(s, r)' = Sent(s, r)
  BY Zenon, <1>0, <1>3 DEF Sent, HasPosted, SendPCs, ReceivePCs
<1> QED
  BY Zenon, <1>1, <1>3, <1>4, <1>5, <1>6

\* Every action keeps each mailbox in agreement with the ghost counters.
LEMMA BoxesStep ==
    ASSUME IInv, BoxesOK, NEW w \in Workers, Worker(w)
    PROVE  BoxesOK'
<1>a. TypeOK
  BY Zenon DEF IInv
<1>b. PICK p \in Workers : p = peer[w]
  BY Zenon, <1>a DEF TypeOK
<1>c. round[w] \in Nat
  BY Zenon, <1>a, GhostType
<1>1. CASE PostMessage(w)
  <2> SUFFICES ASSUME NEW s \in Workers, NEW r \in Workers PROVE BoxOK(s, r)'
    BY Zenon DEF BoxesOK
  <2>1. CASE s = w /\ r = p
    <3>1. /\ Sent(s, r)' = round[w] + 1 /\ Taken(s, r)' = round[w]
          /\ mailboxes[s][r]' = Some(Msg(s, r, round[w]))
      BY <1>1, <1>b, <2>1, PostStep
    <3> QED
      BY Zenon, <3>1 DEF BoxOK, Msg
  <2>2. CASE s # w \/ r # p
    <3>1. /\ Sent(s, r)' = Sent(s, r) /\ Taken(s, r)' = Taken(s, r)
          /\ mailboxes[s][r]' = mailboxes[s][r]
      BY <1>1, <1>b, <2>2, PostStep
    <3>2. BoxOK(s, r)
      BY Zenon DEF BoxesOK
    <3> QED
      BY Zenon, <3>1, <3>2 DEF BoxOK, Msg
  <2> QED
    BY Zenon, <2>1, <2>2
<1>2. CASE TakeMessage(w)
  <2> SUFFICES ASSUME NEW s \in Workers, NEW r \in Workers PROVE BoxOK(s, r)'
    BY Zenon DEF BoxesOK
  <2>1. CASE s = p /\ r = w
    <3>1. /\ Sent(s, r)' = round[w] + 1 /\ Taken(s, r)' = round[w] + 1
          /\ mailboxes[s][r]' = None
      BY <1>2, <1>b, <2>1, TakeStep
    <3> QED
      BY Zenon, <3>1 DEF BoxOK
  <2>2. CASE s # p \/ r # w
    <3>1. /\ Sent(s, r)' = Sent(s, r) /\ Taken(s, r)' = Taken(s, r)
          /\ mailboxes[s][r]' = mailboxes[s][r]
      BY <1>2, <1>b, <2>2, TakeStep
    <3>2. BoxOK(s, r)
      BY Zenon DEF BoxesOK
    <3> QED
      BY Zenon, <3>1, <3>2 DEF BoxOK, Msg
  <2> QED
    BY Zenon, <2>1, <2>2
<1>3. CASE ~PostMessage(w) /\ ~TakeMessage(w)
  BY <1>3, QuietStep DEF BoxesOK, BoxOK, Msg
<1> QED
  BY Zenon, <1>1, <1>2, <1>3

\* No value before the first sender.
LEMMA ValuesEmpty == \A w, k : Values(w, 0, k) = <<>>
BY DEF Values

\* `combine` appends the next sender's value.
LEMMA ValuesAppend ==
    ASSUME NEW w \in Workers, NEW n \in Nat, NEW k \in Nat
    PROVE  Append(Values(w, n, k), Msg(n, w, k)) = Values(w, n + 1, k)
<1> DEFINE s == Values(w, n, k)
           m == Msg(n, w, k)
<1>1. s \in Seq({Msg(i - 1, w, k) : i \in 1 .. n + 1}) /\ Len(s) = n
      /\ m \in {Msg(i - 1, w, k) : i \in 1 .. n + 1}
  <2>1. \A i \in 1 .. n : s[i] \in {Msg(j - 1, w, k) : j \in 1 .. n + 1}
    BY DEF Values
  <2>2. s \in [1 .. n -> {Msg(i - 1, w, k) : i \in 1 .. n + 1}]
    BY Zenon, <2>1 DEF Values
  <2>3. m = Msg((n + 1) - 1, w, k)
    OBVIOUS
  <2>4. s \in Seq({Msg(i - 1, w, k) : i \in 1 .. n + 1}) /\ Len(s) = n
    <3> DEFINE R == {Msg(i - 1, w, k) : i \in 1 .. n + 1}
               val(i) == Msg(i - 1, w, k)
    <3>1. s = [i \in 1 .. n |-> val(i)]
      BY Zenon DEF Values
    <3>2. \A i \in 1 .. n : val(i) \in R
      BY Zenon, <2>1 DEF Values
    <3> HIDE DEF s, R, val
    <3>3. s \in Seq(R) /\ Len(s) = n
      BY <3>1, <3>2
    <3> QED
      BY Zenon, <3>3 DEF R
  <2> QED
    BY <2>3, <2>4
<1>2. /\ Append(s, m) \in Seq({Msg(i - 1, w, k) : i \in 1 .. n + 1})
      /\ Len(Append(s, m)) = n + 1
      /\ \A i \in 1 .. n : Append(s, m)[i] = s[i]
      /\ Append(s, m)[n + 1] = m
  BY <1>1
<1>3. Append(s, m) = [i \in 1 .. n + 1 |-> IF i = n + 1 THEN m ELSE s[i]]
  <2> DEFINE t == Append(s, m)
             M == {Msg(i - 1, w, k) : i \in 1 .. n + 1}
  <2>1. t \in Seq(M) /\ Len(t) = n + 1 /\ t[n + 1] = m
        /\ \A i \in 1 .. n : t[i] = s[i]
    BY Zenon, <1>2
  <2> HIDE DEF s, m, t, M
  <2>2. t = [i \in 1 .. n + 1 |-> t[i]]
    BY <2>1
  <2>3. \A i \in 1 .. n + 1 : t[i] = IF i = n + 1 THEN m ELSE s[i]
    BY <2>1
  <2>4. t = [i \in 1 .. n + 1 |-> IF i = n + 1 THEN m ELSE s[i]]
    BY Zenon, <2>2, <2>3
  <2> QED
    BY Zenon, <2>4 DEF t
<1>4. \A i \in 1 .. n + 1 :
         (IF i = n + 1 THEN m ELSE s[i]) = Msg(i - 1, w, k)
  BY DEF Values
<1> QED
  BY Zenon, <1>3, <1>4 DEF Values

\* Every action keeps what a worker has combined equal to the values of the
\* senders it has visited in this cycle.
LEMMA CombinedStep ==
    ASSUME IInv, BoxesOK, AllCombinedOK, NEW w \in Workers, Worker(w)
    PROVE  AllCombinedOK'
<1>a. TypeOK /\ CombinedOK(w) /\ NoPanic
  BY Zenon DEF IInv, AllCombinedOK
<1>b. PICK p \in Workers : p = peer[w]
  BY Zenon, <1>a DEF TypeOK
<1>c. /\ p \in Nat /\ p < npeers /\ npeers \in Nat
      /\ round[w] \in Nat
  BY <1>a, GhostType, WorkersFacts, NPeersAssumption
<1>d. \A v \in Workers : v # w => /\ pc[v]' = pc[v]
                                 /\ peer[v]' = peer[v]
                                 /\ round[v]' = round[v]
                                 /\ combined[v]' = combined[v]
  <2>1. CASE Attach(w)
    BY Zenon, <2>1, <1>a DEF TypeOK, Attach, register_sender_callback, check_sender,
       register_receiver_callback, check_receiver, Goto
  <2>2. CASE Send(w)
    <3>1. CASE AddReceiverCounter(w) \/ CallReceiver(w)
      <4>1. CASE NextReceiver(w)
        <5>1. \A v \in Workers : v # w => /\ pc[v]' = pc[v]
                                         /\ peer[v]' = peer[v]
                                         /\ round[v]' = round[v]
          BY SMTT(30), <4>1, <3>1, <1>a DEF TypeOK, NextReceiver, AddReceiverCounter, CallReceiver
        <5> QED
          BY Zenon, <3>1, <5>1 DEF AddReceiverCounter, CallReceiver
      <4>2. CASE ~NextReceiver(w)
        BY <3>1, <4>2, <1>a DEF TypeOK, AddReceiverCounter, CallReceiver
      <4> QED
        BY Zenon, <4>1, <4>2
    <3> QED
      BY Zenon, <2>2, <3>1, <1>a DEF TypeOK, Send, SenderWake, try_send_all,
         PostMessage, SubSenderCounter, Goto
  <2>3. CASE Receive(w)
    <3>1. CASE AddSenderCounter(w) \/ CallSender(w)
      <4>1. CASE NextSender(w)
        <5>1. \A v \in Workers : v # w => /\ pc[v]' = pc[v]
                                         /\ peer[v]' = peer[v]
                                         /\ round[v]' = round[v]
          BY SMTT(30), <4>1, <3>1, <1>a DEF TypeOK, NextSender, AddSenderCounter, CallSender
        <5> QED
          BY Zenon, <3>1, <5>1 DEF AddSenderCounter, CallSender
      <4>2. CASE ~NextSender(w)
        BY <3>1, <4>2, <1>a DEF TypeOK, AddSenderCounter, CallSender
      <4> QED
        BY Zenon, <4>1, <4>2
    <3>2. CASE TakeMessage(w)
      BY Zenon, <3>2, <1>a DEF TypeOK, TakeMessage, Goto
    <3> QED
      BY ZenonT(30), <2>3, <3>1, <3>2, <1>a DEF TypeOK, Receive, ReceiverWake,
         try_receive_all, SubReceiverCounter, Goto
  <2> QED
    BY Zenon, <2>1, <2>2, <2>3 DEF Worker
<1>e. ASSUME CombinedOK(w)' PROVE AllCombinedOK'
  <2> SUFFICES ASSUME NEW v \in Workers, v # w PROVE CombinedOK(v)'
    BY Zenon, <1>e DEF AllCombinedOK
  <2>1. CombinedOK(v)
    BY Zenon DEF AllCombinedOK
  <2> QED
    BY Zenon, <1>d, <2>1 DEF CombinedOK, Values, Msg
<1>1. CASE Attach(w)
  <2>1. /\ pc[w] \in RegisterPCs /\ pc[w]' \in RegisterPCs \cup {"wait_send"}
        /\ round[w]' = round[w]
    BY <1>1, <1>a DEF TypeOK, Attach, register_sender_callback, check_sender,
       register_receiver_callback, check_receiver, Goto, RegisterPCs
  <2>2. CombinedOK(w)'
    BY <2>1, <1>a DEF CombinedOK, RegisterPCs, ReceivePCs
  <2> QED
    BY Zenon, <2>2, <1>e
<1>2. CASE SenderWake(w)
  <2>1. /\ pc[w] = "wait_send" /\ pc[w]' \in {"wait_send", "try_send"}
        /\ round[w]' = round[w] /\ combined[w]' = combined[w]
    BY Zenon, <1>2, <1>a DEF TypeOK, SenderWake, Goto
  <2>2. CombinedOK(w)'
    BY Zenon, <2>1, <1>a DEF CombinedOK, Values, Msg, RegisterPCs, ReceivePCs
  <2> QED
    BY Zenon, <2>2, <1>e
<1>3. CASE Send(w) /\ ~SenderWake(w)
  <2>1. pc[w]' \in SendPCs \cup {"wait_receive", "panicked"}
    BY <1>3, <1>a DEF TypeOK, Send, try_send_all, PostMessage,
       SubSenderCounter, AddReceiverCounter, CallReceiver, NextReceiver, Goto,
       SendPCs
  <2>2. CombinedOK(w)'
    BY Zenon, <2>1 DEF CombinedOK, RegisterPCs, ReceivePCs, SendPCs
  <2> QED
    BY Zenon, <2>2, <1>e
<1>4. CASE ReceiverWake(w)
  <2>1. pc[w]' \in {"wait_receive", "try_receive"}
    BY Zenon, <1>4, <1>a DEF TypeOK, ReceiverWake, Goto
  <2>2. CombinedOK(w)'
    BY Zenon, <2>1 DEF CombinedOK, RegisterPCs, ReceivePCs
  <2> QED
    BY Zenon, <2>2, <1>e
<1>5. CASE try_receive_all(w)
  <2>1. /\ pc[w]' \in {"take", "panicked"} /\ peer[w]' = 0
        /\ combined[w]' = <<>>
    BY Zenon, <1>5, <1>a DEF TypeOK, try_receive_all, Goto
  <2>2. CombinedOK(w)'
    BY Zenon, <2>1, ValuesEmpty DEF CombinedOK, RegisterPCs, ReceivePCs
  <2> QED
    BY Zenon, <2>2, <1>e
<1>6. CASE TakeMessage(w)
  <2>1. mailboxes[p][w] = {Msg(p, w, round[w])}
    BY Zenon, <1>6, <1>b, TakeStep DEF Some
  <2>2. /\ mailboxes[peer[w]][w] # None
        /\ (CHOOSE v \in mailboxes[peer[w]][w] : TRUE) = Msg(p, w, round[w])
    BY Zenon, <2>1, <1>b DEF None
  <2>3. /\ pc[w] = "take" /\ pc[w]' = "sub_receiver"
        /\ peer[w]' = p /\ round[w]' = round[w]
        /\ combined[w]' = Append(combined[w], Msg(p, w, round[w]))
    BY Zenon, <1>6, <1>a, <1>b, <2>2 DEF TypeOK, TakeMessage, Goto
  <2>4. combined[w] = Values(w, p, round[w])
    BY Zenon, <1>a, <1>b, <2>3 DEF CombinedOK
  <2>5. combined[w]' = Values(w, p + 1, round[w])
    <3>1. Append(Values(w, p, round[w]), Msg(p, w, round[w]))
            = Values(w, p + 1, round[w])
      BY Zenon, <1>c, ValuesAppend
    <3> QED
      BY Zenon, <2>3, <2>4, <3>1
  <2>6. CombinedOK(w)'
    BY Zenon, <2>3, <2>5 DEF CombinedOK, RegisterPCs, ReceivePCs, Values, Msg
  <2> QED
    BY Zenon, <2>6, <1>e
<1>7. CASE SubReceiverCounter(w)
  <2>1. /\ pc[w] = "sub_receiver" /\ pc[w]' = "add_sender"
        /\ peer[w]' = p /\ round[w]' = round[w] /\ combined[w]' = combined[w]
    BY Zenon, <1>7, <1>a, <1>b DEF TypeOK, SubReceiverCounter, Goto
  <2>2. CombinedOK(w)'
    BY Zenon, <2>1, <1>a, <1>b DEF CombinedOK, RegisterPCs, ReceivePCs, Values, Msg
  <2> QED
    BY Zenon, <2>2, <1>e
<1>8. CASE AddSenderCounter(w) \/ CallSender(w)
  <2>1. /\ pc[w] \in {"add_sender", "call_sender"} /\ combined[w]' = combined[w]
        /\ \/ pc[w]' = "call_sender" /\ peer[w]' = p /\ round[w]' = round[w]
           \/ pc[w]' = "take" /\ peer[w]' = p + 1 /\ round[w]' = round[w]
           \/ /\ pc[w]' \in {"wait_send", "done"} /\ p + 1 = npeers
              /\ round[w]' = round[w] + 1
    <3>1. CASE p + 1 < npeers
      BY SMTT(30), <1>8, <1>a, <1>b, <3>1
         DEF TypeOK, AddSenderCounter, CallSender, NextSender
    <3>2. CASE p + 1 = npeers
      BY SMTT(30), <1>8, <1>a, <1>b, <1>c, <3>2
         DEF TypeOK, AddSenderCounter, CallSender, NextSender
    <3> QED
      BY SMTT(30), <1>c, <3>1, <3>2
  <2>2. combined[w]' = Values(w, p + 1, round[w])
    BY Zenon, <2>1, <1>a, <1>b DEF CombinedOK, ReceivePCs
  <2>3. CASE pc[w]' \in {"call_sender", "take"}
    BY Zenon, <2>1, <2>2, <2>3, <1>e DEF CombinedOK, RegisterPCs, ReceivePCs
  <2>4. CASE pc[w]' \in {"wait_send", "done"}
    <3>1. p + 1 = npeers /\ round[w]' - 1 = round[w]
      BY <2>1, <2>4, <1>c
    <3>2. combined[w]' = Values(w, npeers, round[w]' - 1)
      BY Zenon, <2>2, <3>1
    <3>3. CombinedOK(w)'
      BY Zenon, <2>4, <3>2 DEF CombinedOK, RegisterPCs, ReceivePCs, Values, Msg
    <3> QED
      BY Zenon, <3>3, <1>e
  <2> QED
    BY Zenon, <2>1, <2>3, <2>4
<1> QED
  BY Zenon, <1>1, <1>2, <1>3, <1>4, <1>5, <1>6, <1>7, <1>8
     DEF Worker, Send, Receive

-----------------------------------------------------------------------------
\* The strengthened invariant is inductive.
LEMMA RInvInit == Init => RInv
<1> SUFFICES ASSUME Init PROVE RInv
  BY Zenon
<1>1. BoxesOK
  BY DEF Init, BoxesOK, BoxOK, Sent, Taken, HasPosted, HasTaken, SendPCs,
         ReceivePCs
<1>2. AllCombinedOK
  BY Zenon DEF Init, AllCombinedOK, CombinedOK, ReceivePCs
<1> QED
  BY Zenon, <1>1, <1>2, IInvInit DEF RInv

\* Every step preserves the strengthened invariant.
LEMMA RInvStep == RInv /\ [Next]_vars => RInv'
<1> SUFFICES ASSUME RInv, [Next]_vars PROVE RInv'
  BY Zenon
<1>1. IInv'
  BY Zenon, IInvStep DEF RInv
<1>2. CASE \E w \in Workers : Worker(w)
  BY Zenon, <1>1, <1>2, BoxesStep, CombinedStep DEF RInv
<1>3. CASE UNCHANGED vars
  <2>1. BoxesOK'
    BY <1>3 DEF vars, RInv, BoxesOK, BoxOK, Sent, Taken, HasPosted, HasTaken,
       Msg
  <2>2. AllCombinedOK'
    BY <1>3 DEF vars, RInv, AllCombinedOK, CombinedOK, Values, Msg
  <2> QED
    BY Zenon, <1>1, <2>1, <2>2 DEF RInv
<1> QED
  BY Zenon, <1>2, <1>3 DEF Next, Terminated

\* The strengthened invariant holds in every reachable state.
THEOREM RoundInductive == Spec => []RInv
BY RInvInit, RInvStep, PTL DEF Spec

\* A worker that leaves ExchangeReceiver::eval has combined, in sender order,
\* exactly the values its peers produced for it in the same clock cycle.
THEOREM RoundDeliverySafe == Spec => []RoundDelivery
<1>1. RInv => RoundDelivery
  BY Zenon DEF RInv, AllCombinedOK, CombinedOK, RoundDelivery, Values
<1> QED
  BY <1>1, RoundInductive, PTL

\* No worker's clock is more than one cycle ahead of another's: v can finish a
\* cycle only with a value that w sent in it.
THEOREM RoundSkewSafe == Spec => []RoundSkew
<1>1. RInv => RoundSkew
  <2> SUFFICES ASSUME RInv, NEW v \in Workers, NEW w \in Workers
               PROVE  round[v] <= round[w] + 1
    BY Zenon DEF RoundSkew
  <2>1. /\ Sent(w, v) \in {round[w], round[w] + 1}
        /\ Taken(w, v) \in {round[v], round[v] + 1}
        /\ round[w] \in Nat /\ round[v] \in Nat
    BY Zenon, GhostType DEF RInv, IInv
  <2>2. Taken(w, v) <= Sent(w, v)
    BY <2>1 DEF RInv, BoxesOK, BoxOK
  <2> QED
    BY <2>1, <2>2
<1> QED
  BY <1>1, RoundInductive, PTL

\* The mailboxes, the two counters and the ready checks implement the rounds
\* that the comment on `Exchange` promises: a value is put only when all
\* values of the sender's previous round were retrieved, and retrieved only
\* when all values of the receiver's round are there.
THEOREM Refinement == Spec => ImplementsRounds
<1>1. Init => Rounds!Init
  <2> SUFFICES ASSUME Init PROVE Rounds!Init
    BY Zenon
  <2>1. \A s, r \in Workers : Sent(s, r) = 0 /\ Taken(s, r) = 0
    BY DEF Init, Sent, Taken, HasPosted, HasTaken, SendPCs, ReceivePCs
  <2> QED
    BY Zenon, <2>1 DEF Rounds!Init, Rounds!Pairs, AllSent, AllTaken
<1>2. RInv /\ [Next]_vars => [Rounds!Next]_<<AllSent, AllTaken>>
  <2> SUFFICES ASSUME RInv, [Next]_vars
               PROVE  [Rounds!Next]_<<AllSent, AllTaken>>
    BY Zenon
  <2>a. IInv /\ BoxesOK /\ TypeOK
    BY Zenon DEF RInv, IInv
  <2>b. ASSUME \A s, r \in Workers : /\ Sent(s, r)' = Sent(s, r)
                                     /\ Taken(s, r)' = Taken(s, r)
        PROVE  UNCHANGED <<AllSent, AllTaken>>
    BY Zenon, <2>b DEF AllSent, AllTaken
  <2>1. CASE UNCHANGED vars
    BY <2>1, <2>b DEF vars, Sent, Taken, HasPosted, HasTaken
  <2>2. ASSUME NEW w \in Workers, PostMessage(w)
        PROVE  Rounds!Next
    <3>1. PICK p \in Workers : p = peer[w]
      BY Zenon, <2>a DEF TypeOK
    <3>2. /\ Sent(w, p) = round[w] /\ Sent(w, p)' = round[w] + 1
          /\ \A s, r \in Workers : s # w \/ r # p => Sent(s, r)' = Sent(s, r)
          /\ \A s, r \in Workers : Taken(s, r)' = Taken(s, r)
          /\ round[w] < MaxRounds
          /\ \A q \in Workers : Taken(w, q) >= round[w]
      BY Zenon, <2>a, <2>2, <3>1, PostStep
    <3>3. AllSent' = [AllSent EXCEPT ![<<w, p>>] = AllSent[<<w, p>>] + 1]
      <4>1. /\ AllSent = [x \in Workers \X Workers |-> AllSent[x]]
            /\ AllSent' = [x \in Workers \X Workers |-> AllSent[x]']
        BY Zenon DEF AllSent
      <4>2. AllSent[<<w, p>>]' = AllSent[<<w, p>>] + 1
        BY Zenon, <3>1, <3>2 DEF AllSent
      <4>3. ASSUME NEW s \in Workers, NEW r \in Workers, <<s, r>> # <<w, p>>
            PROVE  AllSent[<<s, r>>]' = AllSent[<<s, r>>]
        <5>1. Sent(s, r)' = Sent(s, r)
          BY Zenon, <3>2, <4>3
        <5> QED
          BY Zenon, <5>1 DEF AllSent
      <4>4. \A x \in Workers \X Workers : x # <<w, p>> => AllSent[x]' = AllSent[x]
        BY <4>3
      <4> QED
        BY Zenon, <4>1, <4>2, <4>4
    <3>4. AllTaken' = AllTaken
      BY Zenon, <3>2 DEF AllTaken
    <3>5. /\ AllSent[<<w, p>>] < MaxRounds
          /\ \A q \in Workers : AllTaken[<<w, q>>] >= AllSent[<<w, p>>]
      BY Zenon, <3>1, <3>2 DEF AllSent, AllTaken
    <3>6. Rounds!Put(w, p)
      BY Zenon, <3>3, <3>4, <3>5 DEF Rounds!Put
    <3> QED
      BY Zenon, <3>1, <3>6 DEF Rounds!Next
  <2>3. ASSUME NEW w \in Workers, TakeMessage(w)
        PROVE  Rounds!Next
    <3>1. PICK p \in Workers : p = peer[w]
      BY Zenon, <2>a DEF TypeOK
    <3>2. /\ Taken(p, w) = round[w] /\ Taken(p, w)' = round[w] + 1
          /\ \A s, r \in Workers : s # p \/ r # w => Taken(s, r)' = Taken(s, r)
          /\ \A s, r \in Workers : Sent(s, r)' = Sent(s, r)
          /\ \A q \in Workers : Sent(q, w) > round[w]
      BY <2>a, <2>3, <3>1, TakeStep
    <3>3. AllTaken' = [AllTaken EXCEPT ![<<p, w>>] = AllTaken[<<p, w>>] + 1]
      <4>1. /\ AllTaken = [x \in Workers \X Workers |-> AllTaken[x]]
            /\ AllTaken' = [x \in Workers \X Workers |-> AllTaken[x]']
        BY Zenon DEF AllTaken
      <4>2. AllTaken[<<p, w>>]' = AllTaken[<<p, w>>] + 1
        BY Zenon, <3>1, <3>2 DEF AllTaken
      <4>3. ASSUME NEW s \in Workers, NEW r \in Workers, <<s, r>> # <<p, w>>
            PROVE  AllTaken[<<s, r>>]' = AllTaken[<<s, r>>]
        <5>1. Taken(s, r)' = Taken(s, r)
          BY Zenon, <3>2, <4>3
        <5> QED
          BY Zenon, <5>1 DEF AllTaken
      <4>4. \A x \in Workers \X Workers : x # <<p, w>> => AllTaken[x]' = AllTaken[x]
        BY <4>3
      <4> QED
        BY Zenon, <4>1, <4>2, <4>4
    <3>4. AllSent' = AllSent
      BY Zenon, <3>2 DEF AllSent
    <3>5. \A q \in Workers : AllSent[<<q, w>>] > AllTaken[<<p, w>>]
      BY Zenon, <3>1, <3>2 DEF AllSent, AllTaken
    <3>6. Rounds!Get(p, w)
      BY Zenon, <3>3, <3>4, <3>5 DEF Rounds!Get
    <3> QED
      BY Zenon, <3>1, <3>6 DEF Rounds!Next
  <2>4. ASSUME NEW w \in Workers, Worker(w), ~PostMessage(w), ~TakeMessage(w)
        PROVE  UNCHANGED <<AllSent, AllTaken>>
    <3>1. \A s, r \in Workers : /\ Sent(s, r)' = Sent(s, r)
                                /\ Taken(s, r)' = Taken(s, r)
      BY Zenon, <2>a, <2>4, QuietStep
    <3> QED
      BY Zenon, <3>1, <2>b
  <2> QED
    BY Zenon, <2>1, <2>2, <2>3, <2>4 DEF Next, Terminated
<1> QED
  BY <1>1, <1>2, RoundInductive, PTL DEF Spec, ImplementsRounds, Rounds!Spec

-----------------------------------------------------------------------------
(***************************************************************************)
(* Notifications: none is lost (NoLostNotification).                       *)
(*                                                                         *)
(* The strengthening also speaks of the points where a worker is not       *)
(* waiting yet: a counter reaches npeers only by a step that is followed   *)
(* by the callback, and the notification stays until the worker looks.     *)
(***************************************************************************)

CallbacksSet ==
    \A w \in Workers :
        /\ pc[w] # "register_sender" => sender_callbacks[w]
        /\ pc[w] \notin {"register_sender", "check_sender", "register_receiver"}
             => receiver_callbacks[w]

\* Points at which a full sender counter is no news to the worker: before it
\* has checked the status, and from the check to the first decrement.
SendSeen == {"register_sender", "check_sender", "try_send", "post",
             "sub_sender"}
ReceiveSeen == RegisterPCs \cup {"try_receive", "take", "sub_receiver"}

SenderCallPending(w) == \E r \in Workers : pc[r] = "call_sender" /\ peer[r] = w
ReceiverCallPending(w) ==
    \E s \in Workers : pc[s] = "call_receiver" /\ peer[s] = w

SendNews ==
    \A w \in Workers : pc[w] \notin SendSeen /\ sender_counters[w] = npeers =>
        sender_notified[w] \/ SenderCallPending(w)

ReceiveNews ==
    \A w \in Workers :
        pc[w] \notin ReceiveSeen /\ receiver_counters[w] = npeers =>
            receiver_notified[w] \/ ReceiverCallPending(w)

NInv == IInv /\ CallbacksSet /\ SendNews /\ ReceiveNews

-----------------------------------------------------------------------------
\* No worker attached, all mailboxes free: nobody has to be told.
LEMMA NInvInit == Init => NInv
<1> SUFFICES ASSUME Init PROVE NInv
  BY Zenon
<1>1. CallbacksSet /\ SendNews /\ ReceiveNews
  BY Zenon DEF Init, CallbacksSet, SendNews, ReceiveNews, SendSeen, ReceiveSeen,
         RegisterPCs
<1> QED
  BY Zenon, <1>1, IInvInit DEF NInv

\* A callback is registered once and for all.
LEMMA CallbacksStep ==
    ASSUME TypeOK, CallbacksSet, NEW w \in Workers, Worker(w)
    PROVE  CallbacksSet'
<1>1. CASE Attach(w)
  BY <1>1 DEF TypeOK, CallbacksSet, Attach, register_sender_callback,
     check_sender, register_receiver_callback, check_receiver, Goto, callbacks
<1>2. CASE ~Attach(w)
  <2>1. UNCHANGED callbacks /\ pc[w] \notin RegisterPCs
    BY Zenon, <1>2 DEF Worker, Send, Receive, SenderWake, try_send_all, PostMessage,
       SubSenderCounter, AddReceiverCounter, CallReceiver, ReceiverWake,
       try_receive_all, TakeMessage, SubReceiverCounter, AddSenderCounter,
       CallSender, Goto, RegisterPCs
  <2>2. \A v \in Workers : v # w => pc[v]' = pc[v]
    <3>1. CASE Send(w)
      BY <3>1 DEF TypeOK, Send, SenderWake, try_send_all, PostMessage,
         SubSenderCounter, AddReceiverCounter, CallReceiver, NextReceiver, Goto
    <3>2. CASE Receive(w)
      BY <3>2 DEF TypeOK, Receive, ReceiverWake, try_receive_all, TakeMessage,
         SubReceiverCounter, AddSenderCounter, CallSender, NextSender, Goto
    <3> QED
      BY Zenon, <1>2, <3>1, <3>2 DEF Worker
  <2> QED
    BY Zenon, <2>1, <2>2 DEF CallbacksSet, RegisterPCs, callbacks
<1> QED
  BY Zenon, <1>1, <1>2

\* A step of w that leaves the sender counters alone and is not the invocation
\* of a callback keeps SendNews when w does not miss anything itself.
LEMMA SenderQuiet ==
    ASSUME SendNews, NEW w \in Workers,
           sender_counters' = sender_counters,
           \A v \in Workers : v # w => /\ pc[v]' = pc[v]
                                       /\ peer[v]' = peer[v]
                                       /\ sender_notified[v]' = sender_notified[v],
           pc[w] # "call_sender",
           \/ pc[w]' \in SendSeen
           \/ sender_counters[w] = npeers => sender_notified[w]'
           \/ pc[w] \notin SendSeen /\ sender_notified[w]' = sender_notified[w]
    PROVE  SendNews'
<1>1. ASSUME NEW v \in Workers, SenderCallPending(v) PROVE SenderCallPending(v)'
  <2>1. PICK x \in Workers : pc[x] = "call_sender" /\ peer[x] = v
    BY Zenon, <1>1 DEF SenderCallPending
  <2>2. pc[x]' = "call_sender" /\ peer[x]' = v
    BY Zenon, <2>1
  <2> QED
    BY Zenon, <2>2 DEF SenderCallPending
<1> SUFFICES ASSUME NEW v \in Workers, pc[v]' \notin SendSeen,
                    sender_counters[v]' = npeers, ~SenderCallPending(v)'
             PROVE  sender_notified[v]'
  BY Zenon DEF SendNews
<1>2. CASE v = w
  BY Zenon, <1>1, <1>2 DEF SendNews
<1>3. CASE v # w
  BY Zenon, <1>1, <1>3 DEF SendNews
<1> QED
  BY Zenon, <1>2, <1>3

\* A step of w that leaves the receiver counters alone and is not the invocation
\* of a callback keeps ReceiveNews when w does not miss anything itself.
LEMMA ReceiverQuiet ==
    ASSUME ReceiveNews, NEW w \in Workers,
           receiver_counters' = receiver_counters,
           \A v \in Workers : v # w => /\ pc[v]' = pc[v]
                                       /\ peer[v]' = peer[v]
                                       /\ receiver_notified[v]' = receiver_notified[v],
           pc[w] # "call_receiver",
           \/ pc[w]' \in ReceiveSeen
           \/ receiver_counters[w] = npeers => receiver_notified[w]'
           \/ pc[w] \notin ReceiveSeen /\ receiver_notified[w]' = receiver_notified[w]
    PROVE  ReceiveNews'
<1>1. ASSUME NEW v \in Workers, ReceiverCallPending(v) PROVE ReceiverCallPending(v)'
  <2>1. PICK x \in Workers : pc[x] = "call_receiver" /\ peer[x] = v
    BY Zenon, <1>1 DEF ReceiverCallPending
  <2>2. pc[x]' = "call_receiver" /\ peer[x]' = v
    BY Zenon, <2>1
  <2> QED
    BY Zenon, <2>2 DEF ReceiverCallPending
<1> SUFFICES ASSUME NEW v \in Workers, pc[v]' \notin ReceiveSeen,
                    receiver_counters[v]' = npeers, ~ReceiverCallPending(v)'
             PROVE  receiver_notified[v]'
  BY Zenon DEF ReceiveNews
<1>2. CASE v = w
  BY Zenon, <1>1, <1>2 DEF ReceiveNews
<1>3. CASE v # w
  BY Zenon, <1>1, <1>3 DEF ReceiveNews
<1> QED
  BY Zenon, <1>2, <1>3

\* No step loses the news that all mailboxes of a sender are free.
LEMMA SendNewsStep ==
    ASSUME IInv, CallbacksSet, SendNews, NEW w \in Workers, Worker(w)
    PROVE  SendNews'
<1>a. TypeOK /\ SendNews
  BY Zenon DEF IInv
<1>b. PICK p \in Workers : p = peer[w]
  BY Zenon, <1>a DEF TypeOK
<1>1. CASE register_sender_callback(w)
  <2>1. /\ sender_counters' = sender_counters
        /\ \A v \in Workers : v # w => /\ pc[v]' = pc[v]
                                       /\ peer[v]' = peer[v]
                                       /\ sender_notified[v]' = sender_notified[v]
        /\ pc[w] # "call_sender"
        /\ pc[w] = "register_sender" /\ pc[w]' = "check_sender"
        /\ sender_notified[w]' = sender_notified[w]
    BY Zenon, <1>1, <1>a DEF TypeOK, register_sender_callback, Goto, callbacks, notified, shared
  <2> QED
    BY Zenon, <2>1, <1>a, SenderQuiet DEF SendSeen
<1>2. CASE check_sender(w)
  <2>1. /\ sender_counters' = sender_counters
        /\ \A v \in Workers : v # w => /\ pc[v]' = pc[v]
                                       /\ peer[v]' = peer[v]
                                       /\ sender_notified[v]' = sender_notified[v]
        /\ pc[w] # "call_sender"
        /\ pc[w] = "check_sender" /\ pc[w]' = "register_receiver"
        /\ sender_counters[w] = npeers => sender_notified[w]'
    BY Zenon, <1>2, <1>a DEF TypeOK, check_sender, ready_to_send, Goto, callbacks, notified, shared
  <2> QED
    BY Zenon, <2>1, <1>a, SenderQuiet DEF SendSeen
<1>3. CASE register_receiver_callback(w)
  <2>1. /\ sender_counters' = sender_counters
        /\ \A v \in Workers : v # w => /\ pc[v]' = pc[v]
                                       /\ peer[v]' = peer[v]
                                       /\ sender_notified[v]' = sender_notified[v]
        /\ pc[w] # "call_sender"
        /\ pc[w] = "register_receiver" /\ pc[w]' = "check_receiver"
        /\ sender_notified[w]' = sender_notified[w]
    BY Zenon, <1>3, <1>a DEF TypeOK, register_receiver_callback, Goto, callbacks, notified, shared
  <2> QED
    BY Zenon, <2>1, <1>a, SenderQuiet DEF SendSeen
<1>4. CASE check_receiver(w)
  <2>1. /\ sender_counters' = sender_counters
        /\ \A v \in Workers : v # w => /\ pc[v]' = pc[v]
                                       /\ peer[v]' = peer[v]
                                       /\ sender_notified[v]' = sender_notified[v]
        /\ pc[w] # "call_sender"
        /\ pc[w] = "check_receiver" /\ pc[w]' = "wait_send"
        /\ sender_notified[w]' = sender_notified[w]
    BY Zenon, <1>4, <1>a DEF TypeOK, check_receiver, Goto, callbacks, notified, shared
  <2> QED
    BY Zenon, <2>1, <1>a, SenderQuiet DEF SendSeen
<1>5. CASE SenderWake(w)
  <2>1. /\ sender_counters' = sender_counters
        /\ \A v \in Workers : v # w => /\ pc[v]' = pc[v]
                                       /\ peer[v]' = peer[v]
                                       /\ sender_notified[v]' = sender_notified[v]
        /\ pc[w] # "call_sender"
        /\ pc[w] = "wait_send" /\ pc[w]' \in {"wait_send", "try_send"}
        /\ sender_counters[w] = npeers => pc[w]' = "try_send"
    BY Zenon, <1>5, <1>a DEF TypeOK, SenderWake, ready_to_send, Goto, callbacks, notified, shared
  <2> QED
    BY Zenon, <2>1, <1>a, SenderQuiet DEF SendSeen
<1>6. CASE try_send_all(w)
  <2>1. /\ sender_counters' = sender_counters
        /\ \A v \in Workers : v # w => /\ pc[v]' = pc[v]
                                       /\ peer[v]' = peer[v]
                                       /\ sender_notified[v]' = sender_notified[v]
        /\ pc[w] = "try_send" /\ pc[w]' \in {"post", "panicked"}
    BY Zenon, <1>6, <1>a DEF TypeOK, try_send_all, Goto, callbacks, notified, shared
  <2>2. pc[w]' # "panicked"
    BY Zenon, IInvStep DEF Next, IInv, NoPanic
  <2> QED
    BY Zenon, <2>1, <2>2, <1>a, SenderQuiet DEF SendSeen
<1>7. CASE PostMessage(w)
  <2>1. /\ sender_counters' = sender_counters
        /\ \A v \in Workers : v # w => /\ pc[v]' = pc[v]
                                       /\ peer[v]' = peer[v]
                                       /\ sender_notified[v]' = sender_notified[v]
        /\ pc[w] = "post" /\ pc[w]' = "sub_sender"
    BY Zenon, <1>7, <1>a DEF TypeOK, PostMessage, Goto, callbacks, notified, shared
  <2>2. pc[w]' # "panicked"
    BY Zenon, IInvStep DEF Next, IInv, NoPanic
  <2> QED
    BY Zenon, <2>1, <2>2, <1>a, SenderQuiet DEF SendSeen
<1>8. CASE SubSenderCounter(w)
  <2>1. /\ \A v \in Workers : /\ v # w => /\ pc[v]' = pc[v]
                                         /\ sender_counters[v]' = sender_counters[v]
                              /\ peer[v]' = peer[v]
                              /\ sender_notified[v]' = sender_notified[v]
        /\ pc[w] = "sub_sender"
        /\ sender_counters[w]' = sender_counters[w] - 1
        /\ sender_counters[w] \in 0 .. npeers
    BY Zenon, <1>8, <1>a DEF TypeOK, SubSenderCounter, Goto, callbacks, notified, shared
  <2>2. sender_counters[w]' # npeers
    BY <2>1, NPeersAssumption
  <2>3. ASSUME NEW v \in Workers, SenderCallPending(v) PROVE SenderCallPending(v)'
    BY Zenon, <2>1, <2>3 DEF SenderCallPending
  <2> QED
    BY Zenon, <2>1, <2>2, <2>3, <1>a DEF SendNews
<1>9. CASE ReceiverWake(w)
  <2>1. /\ sender_counters' = sender_counters
        /\ \A v \in Workers : v # w => /\ pc[v]' = pc[v]
                                       /\ peer[v]' = peer[v]
                                       /\ sender_notified[v]' = sender_notified[v]
        /\ pc[w] # "call_sender"
        /\ pc[w] = "wait_receive" /\ pc[w]' \in {"wait_receive", "try_receive"}
        /\ sender_notified[w]' = sender_notified[w]
    BY Zenon, <1>9, <1>a DEF TypeOK, ReceiverWake, Goto, callbacks, notified, shared
  <2> QED
    BY Zenon, <2>1, <1>a, SenderQuiet DEF SendSeen
<1>10. CASE try_receive_all(w)
  <2>1. /\ sender_counters' = sender_counters
        /\ \A v \in Workers : v # w => /\ pc[v]' = pc[v]
                                       /\ peer[v]' = peer[v]
                                       /\ sender_notified[v]' = sender_notified[v]
        /\ pc[w] # "call_sender"
        /\ pc[w] = "try_receive" /\ pc[w]' \in {"take", "panicked"}
        /\ sender_notified[w]' = sender_notified[w]
    BY Zenon, <1>10, <1>a DEF TypeOK, try_receive_all, Goto, callbacks, notified, shared
  <2> QED
    BY Zenon, <2>1, <1>a, SenderQuiet DEF SendSeen
<1>11. CASE TakeMessage(w)
  <2>1. /\ sender_counters' = sender_counters
        /\ \A v \in Workers : v # w => /\ pc[v]' = pc[v]
                                       /\ peer[v]' = peer[v]
                                       /\ sender_notified[v]' = sender_notified[v]
        /\ pc[w] # "call_sender"
        /\ pc[w] = "take" /\ pc[w]' \in {"sub_receiver", "panicked"}
        /\ sender_notified[w]' = sender_notified[w]
    BY Zenon, <1>11, <1>a DEF TypeOK, TakeMessage, Goto, callbacks, notified, shared
  <2> QED
    BY Zenon, <2>1, <1>a, SenderQuiet DEF SendSeen
<1>12. CASE SubReceiverCounter(w)
  <2>1. /\ sender_counters' = sender_counters
        /\ \A v \in Workers : v # w => /\ pc[v]' = pc[v]
                                       /\ peer[v]' = peer[v]
                                       /\ sender_notified[v]' = sender_notified[v]
        /\ pc[w] # "call_sender"
        /\ pc[w] = "sub_receiver" /\ pc[w]' = "add_sender"
        /\ sender_notified[w]' = sender_notified[w]
    BY Zenon, <1>12, <1>a DEF TypeOK, SubReceiverCounter, Goto, callbacks, notified, shared
  <2> QED
    BY Zenon, <2>1, <1>a, SenderQuiet DEF SendSeen
<1>13. CASE AddReceiverCounter(w)
  <2>1. /\ sender_counters' = sender_counters /\ sender_notified' = sender_notified
        /\ pc[w] = "add_receiver"
    BY Zenon, <1>13 DEF AddReceiverCounter, callbacks, notified, shared
  <2>2. /\ \A v \in Workers : v # w => pc[v]' = pc[v] /\ peer[v]' = peer[v]
        /\ pc[w]' \in {"call_receiver", "post", "wait_receive"}
    <3>1. CASE NextReceiver(w)
      BY <1>13, <3>1, <1>a DEF TypeOK, NextReceiver
    <3>2. CASE ~NextReceiver(w)
      BY Zenon, <1>13, <3>2, <1>a DEF TypeOK, AddReceiverCounter
    <3> QED
      BY Zenon, <3>1, <3>2
  <2> QED
    BY Zenon, <2>1, <2>2, <1>a, SenderQuiet DEF SendSeen
<1>14. CASE CallReceiver(w)
  <2>1. /\ sender_counters' = sender_counters /\ sender_notified' = sender_notified
        /\ pc[w] = "call_receiver"
    BY Zenon, <1>14 DEF CallReceiver, callbacks, notified, shared
  <2>2. /\ \A v \in Workers : v # w => pc[v]' = pc[v] /\ peer[v]' = peer[v]
        /\ pc[w]' \in {"post", "wait_receive"}
    <3>1. CASE NextReceiver(w)
      BY <1>14, <3>1, <1>a DEF TypeOK, NextReceiver
    <3>2. CASE ~NextReceiver(w)
      BY Zenon, <1>14, <3>2, <1>a DEF TypeOK, CallReceiver
    <3> QED
      BY Zenon, <3>1, <3>2
  <2> QED
    BY Zenon, <2>1, <2>2, <1>a, SenderQuiet DEF SendSeen
<1>15. CASE AddSenderCounter(w)
  <2>1. /\ sender_notified' = sender_notified
        /\ pc[w] = "add_sender"
        /\ sender_counters[p]' = sender_counters[p] + 1
        /\ \A v \in Workers : v # p => sender_counters[v]' = sender_counters[v]
        /\ sender_counters[p] \in 0 .. npeers
    BY Zenon, <1>15, <1>a, <1>b DEF TypeOK, AddSenderCounter, callbacks, notified
  <2>2. CASE sender_counters[p] >= npeers - 1
    <3>1. pc' = [pc EXCEPT ![w] = "call_sender"] /\ peer' = peer
      BY Zenon, <1>15, <1>b, <2>2 DEF AddSenderCounter
    <3>2. /\ \A v \in Workers : v # w => pc[v]' = pc[v]
          /\ pc[w]' = "call_sender" /\ peer[w]' = p
          /\ \A v \in Workers : peer[v]' = peer[v]
      BY Zenon, <3>1, <1>a, <1>b DEF TypeOK
    <3>3. SenderCallPending(p)'
      BY Zenon, <3>2 DEF SenderCallPending
    <3>4. ASSUME NEW v \in Workers, SenderCallPending(v) PROVE SenderCallPending(v)'
      BY Zenon, <2>1, <3>2, <3>4 DEF SenderCallPending
    <3> SUFFICES ASSUME NEW v \in Workers, v # p, pc[v]' \notin SendSeen,
                        sender_counters[v]' = npeers, ~SenderCallPending(v)'
                 PROVE  sender_notified[v]'
      BY Zenon, <3>3 DEF SendNews
    <3>5. pc[v] \notin SendSeen
      BY Zenon, <2>1, <3>2 DEF SendSeen
    <3> QED
      BY Zenon, <2>1, <3>4, <3>5, <1>a DEF SendNews
  <2>3. CASE ~(sender_counters[p] >= npeers - 1)
    <3>1. NextSender(w) /\ sender_counters[p]' # npeers
      BY <1>15, <1>b, <2>1, <2>3, NPeersAssumption DEF AddSenderCounter
    <3>2. /\ \A v \in Workers : v # w => pc[v]' = pc[v] /\ peer[v]' = peer[v]
      BY SMTT(30), <3>1, <1>a DEF TypeOK, NextSender
    <3>3. ASSUME NEW v \in Workers, SenderCallPending(v) PROVE SenderCallPending(v)'
      BY Zenon, <2>1, <3>2, <3>3 DEF SenderCallPending
    <3> SUFFICES ASSUME NEW v \in Workers, v # p, pc[v]' \notin SendSeen,
                        sender_counters[v]' = npeers, ~SenderCallPending(v)'
                 PROVE  sender_notified[v]'
      BY Zenon, <3>1 DEF SendNews
    <3>4. pc[v] \notin SendSeen
      BY Zenon, <2>1, <3>2 DEF SendSeen
    <3> QED
      BY Zenon, <2>1, <3>3, <3>4, <1>a DEF SendNews
  <2> QED
    BY Zenon, <2>2, <2>3
<1>16. CASE CallSender(w)
  <2>1. /\ sender_counters' = sender_counters
        /\ pc[w] = "call_sender"
        /\ sender_callbacks[p] => sender_notified[p]'
        /\ \A v \in Workers : v # p => sender_notified[v]' = sender_notified[v]
        /\ sender_notified[p] => sender_notified[p]'
    BY Zenon, <1>16, <1>a, <1>b DEF TypeOK, CallSender, shared
  <2>2. \A v \in Workers : v # w => pc[v]' = pc[v] /\ peer[v]' = peer[v]
    BY ZenonT(30), <1>16, <1>a DEF TypeOK, CallSender, NextSender
  <2>3. ASSUME NEW v \in Workers, v # p, SenderCallPending(v)
        PROVE  SenderCallPending(v)'
    BY Zenon, <2>2, <2>3, <1>b DEF SenderCallPending
  <2> SUFFICES ASSUME NEW v \in Workers, pc[v]' \notin SendSeen,
                      sender_counters[v]' = npeers, ~SenderCallPending(v)'
               PROVE  sender_notified[v]'
    BY Zenon DEF SendNews
  <2>4. pc[v] \notin SendSeen
    BY Zenon, <2>1, <2>2 DEF SendSeen
  <2>5. CASE v = p
    BY Zenon, <2>1, <2>4, <2>5 DEF CallbacksSet, SendSeen
  <2>6. CASE v # p
    BY Zenon, <2>1, <2>3, <2>4, <2>6, <1>a DEF SendNews
  <2> QED
    BY Zenon, <2>5, <2>6
<1> QED
  BY Zenon, <1>1, <1>2, <1>3, <1>4, <1>5, <1>6, <1>7, <1>8, <1>9, <1>10, <1>11,
     <1>12, <1>13, <1>14, <1>15, <1>16 DEF Worker, Attach, Send, Receive

\* No step loses the news that all values for a receiver are there.
LEMMA ReceiveNewsStep ==
    ASSUME IInv, CallbacksSet, ReceiveNews, NEW w \in Workers, Worker(w)
    PROVE  ReceiveNews'
<1>a. TypeOK /\ ReceiveNews
  BY Zenon DEF IInv
<1>b. PICK p \in Workers : p = peer[w]
  BY Zenon, <1>a DEF TypeOK
<1>1. CASE register_sender_callback(w)
  <2>1. /\ receiver_counters' = receiver_counters
        /\ \A v \in Workers : v # w => /\ pc[v]' = pc[v]
                                       /\ peer[v]' = peer[v]
                                       /\ receiver_notified[v]' = receiver_notified[v]
        /\ pc[w] # "call_receiver"
        /\ pc[w] = "register_sender" /\ pc[w]' = "check_sender"
        /\ receiver_notified[w]' = receiver_notified[w]
    BY Zenon, <1>1, <1>a DEF TypeOK, register_sender_callback, Goto, callbacks, notified, shared
  <2> QED
    BY Zenon, <2>1, <1>a, ReceiverQuiet DEF ReceiveSeen, RegisterPCs
<1>2. CASE check_sender(w)
  <2>1. /\ receiver_counters' = receiver_counters
        /\ \A v \in Workers : v # w => /\ pc[v]' = pc[v]
                                       /\ peer[v]' = peer[v]
                                       /\ receiver_notified[v]' = receiver_notified[v]
        /\ pc[w] # "call_receiver"
        /\ pc[w] = "check_sender" /\ pc[w]' = "register_receiver"
        /\ receiver_notified[w]' = receiver_notified[w]
    BY Zenon, <1>2, <1>a DEF TypeOK, check_sender, Goto, callbacks, notified, shared
  <2> QED
    BY Zenon, <2>1, <1>a, ReceiverQuiet DEF ReceiveSeen, RegisterPCs
<1>3. CASE register_receiver_callback(w)
  <2>1. /\ receiver_counters' = receiver_counters
        /\ \A v \in Workers : v # w => /\ pc[v]' = pc[v]
                                       /\ peer[v]' = peer[v]
                                       /\ receiver_notified[v]' = receiver_notified[v]
        /\ pc[w] # "call_receiver"
        /\ pc[w] = "register_receiver" /\ pc[w]' = "check_receiver"
        /\ receiver_notified[w]' = receiver_notified[w]
    BY Zenon, <1>3, <1>a DEF TypeOK, register_receiver_callback, Goto, callbacks, notified, shared
  <2> QED
    BY Zenon, <2>1, <1>a, ReceiverQuiet DEF ReceiveSeen, RegisterPCs
<1>4. CASE check_receiver(w)
  <2>1. /\ receiver_counters' = receiver_counters
        /\ \A v \in Workers : v # w => /\ pc[v]' = pc[v]
                                       /\ peer[v]' = peer[v]
                                       /\ receiver_notified[v]' = receiver_notified[v]
        /\ pc[w] # "call_receiver"
        /\ pc[w] = "check_receiver" /\ pc[w]' = "wait_send"
        /\ receiver_counters[w] = npeers => receiver_notified[w]'
    BY Zenon, <1>4, <1>a DEF TypeOK, check_receiver, ready_to_receive, Goto, callbacks, notified, shared
  <2> QED
    BY Zenon, <2>1, <1>a, ReceiverQuiet DEF ReceiveSeen, RegisterPCs
<1>5. CASE SenderWake(w)
  <2>1. /\ receiver_counters' = receiver_counters
        /\ \A v \in Workers : v # w => /\ pc[v]' = pc[v]
                                       /\ peer[v]' = peer[v]
                                       /\ receiver_notified[v]' = receiver_notified[v]
        /\ pc[w] # "call_receiver"
        /\ pc[w] = "wait_send" /\ pc[w]' \in {"wait_send", "try_send"}
        /\ receiver_notified[w]' = receiver_notified[w]
    BY Zenon, <1>5, <1>a DEF TypeOK, SenderWake, Goto, callbacks, notified, shared
  <2> QED
    BY Zenon, <2>1, <1>a, ReceiverQuiet DEF ReceiveSeen, RegisterPCs
<1>6. CASE try_send_all(w)
  <2>1. /\ receiver_counters' = receiver_counters
        /\ \A v \in Workers : v # w => /\ pc[v]' = pc[v]
                                       /\ peer[v]' = peer[v]
                                       /\ receiver_notified[v]' = receiver_notified[v]
        /\ pc[w] # "call_receiver"
        /\ pc[w] = "try_send" /\ pc[w]' \in {"post", "panicked"}
        /\ receiver_notified[w]' = receiver_notified[w]
    BY Zenon, <1>6, <1>a DEF TypeOK, try_send_all, Goto, callbacks, notified, shared
  <2> QED
    BY Zenon, <2>1, <1>a, ReceiverQuiet DEF ReceiveSeen, RegisterPCs
<1>7. CASE PostMessage(w)
  <2>1. /\ receiver_counters' = receiver_counters
        /\ \A v \in Workers : v # w => /\ pc[v]' = pc[v]
                                       /\ peer[v]' = peer[v]
                                       /\ receiver_notified[v]' = receiver_notified[v]
        /\ pc[w] # "call_receiver"
        /\ pc[w] = "post" /\ pc[w]' = "sub_sender"
        /\ receiver_notified[w]' = receiver_notified[w]
    BY Zenon, <1>7, <1>a DEF TypeOK, PostMessage, Goto, callbacks, notified, shared
  <2> QED
    BY Zenon, <2>1, <1>a, ReceiverQuiet DEF ReceiveSeen, RegisterPCs
<1>8. CASE SubSenderCounter(w)
  <2>1. /\ receiver_counters' = receiver_counters
        /\ \A v \in Workers : v # w => /\ pc[v]' = pc[v]
                                       /\ peer[v]' = peer[v]
                                       /\ receiver_notified[v]' = receiver_notified[v]
        /\ pc[w] # "call_receiver"
        /\ pc[w] = "sub_sender" /\ pc[w]' = "add_receiver"
        /\ receiver_notified[w]' = receiver_notified[w]
    BY Zenon, <1>8, <1>a DEF TypeOK, SubSenderCounter, Goto, callbacks, notified, shared
  <2> QED
    BY Zenon, <2>1, <1>a, ReceiverQuiet DEF ReceiveSeen, RegisterPCs
<1>9. CASE ReceiverWake(w)
  <2>1. /\ receiver_counters' = receiver_counters
        /\ \A v \in Workers : v # w => /\ pc[v]' = pc[v]
                                       /\ peer[v]' = peer[v]
                                       /\ receiver_notified[v]' = receiver_notified[v]
        /\ pc[w] # "call_receiver"
        /\ pc[w] = "wait_receive" /\ pc[w]' \in {"wait_receive", "try_receive"}
        /\ receiver_counters[w] = npeers => pc[w]' = "try_receive"
    BY Zenon, <1>9, <1>a DEF TypeOK, ReceiverWake, ready_to_receive, Goto, callbacks, notified, shared
  <2> QED
    BY Zenon, <2>1, <1>a, ReceiverQuiet DEF ReceiveSeen, RegisterPCs
<1>10. CASE try_receive_all(w)
  <2>1. /\ receiver_counters' = receiver_counters
        /\ \A v \in Workers : v # w => /\ pc[v]' = pc[v]
                                       /\ peer[v]' = peer[v]
                                       /\ receiver_notified[v]' = receiver_notified[v]
        /\ pc[w] = "try_receive" /\ pc[w]' \in {"take", "panicked"}
    BY Zenon, <1>10, <1>a DEF TypeOK, try_receive_all, Goto, callbacks, notified, shared
  <2>2. pc[w]' # "panicked"
    BY Zenon, IInvStep DEF Next, IInv, NoPanic
  <2> QED
    BY Zenon, <2>1, <2>2, <1>a, ReceiverQuiet DEF ReceiveSeen, RegisterPCs
<1>11. CASE TakeMessage(w)
  <2>1. /\ receiver_counters' = receiver_counters
        /\ \A v \in Workers : v # w => /\ pc[v]' = pc[v]
                                       /\ peer[v]' = peer[v]
                                       /\ receiver_notified[v]' = receiver_notified[v]
        /\ pc[w] = "take" /\ pc[w]' \in {"sub_receiver", "panicked"}
    BY Zenon, <1>11, <1>a DEF TypeOK, TakeMessage, Goto, callbacks, notified, shared
  <2>2. pc[w]' # "panicked"
    BY Zenon, IInvStep DEF Next, IInv, NoPanic
  <2> QED
    BY Zenon, <2>1, <2>2, <1>a, ReceiverQuiet DEF ReceiveSeen, RegisterPCs
<1>12. CASE SubReceiverCounter(w)
  <2>1. /\ \A v \in Workers : /\ v # w => /\ pc[v]' = pc[v]
                                         /\ receiver_counters[v]' = receiver_counters[v]
                              /\ peer[v]' = peer[v]
                              /\ receiver_notified[v]' = receiver_notified[v]
        /\ pc[w] = "sub_receiver"
        /\ receiver_counters[w]' = receiver_counters[w] - 1
        /\ receiver_counters[w] \in 0 .. npeers
    BY Zenon, <1>12, <1>a DEF TypeOK, SubReceiverCounter, Goto, callbacks, notified, shared
  <2>2. receiver_counters[w]' # npeers
    BY <2>1, NPeersAssumption
  <2>3. ASSUME NEW v \in Workers, ReceiverCallPending(v) PROVE ReceiverCallPending(v)'
    BY Zenon, <2>1, <2>3 DEF ReceiverCallPending
  <2> QED
    BY Zenon, <2>1, <2>2, <2>3, <1>a DEF ReceiveNews
<1>13. CASE AddSenderCounter(w)
  <2>1. /\ receiver_counters' = receiver_counters /\ receiver_notified' = receiver_notified
        /\ pc[w] = "add_sender"
    BY Zenon, <1>13 DEF AddSenderCounter, callbacks, notified, shared
  <2>2. /\ \A v \in Workers : v # w => pc[v]' = pc[v] /\ peer[v]' = peer[v]
        /\ pc[w]' \in {"call_sender", "take", "wait_send", "done"}
    <3>1. CASE NextSender(w)
      BY SMTT(30), <1>13, <3>1, <1>a DEF TypeOK, NextSender
    <3>2. CASE ~NextSender(w)
      BY Zenon, <1>13, <3>2, <1>a DEF TypeOK, AddSenderCounter
    <3> QED
      BY Zenon, <3>1, <3>2
  <2> QED
    BY Zenon, <2>1, <2>2, <1>a, ReceiverQuiet DEF ReceiveSeen, RegisterPCs
<1>14. CASE CallSender(w)
  <2>1. /\ receiver_counters' = receiver_counters /\ receiver_notified' = receiver_notified
        /\ pc[w] = "call_sender"
    BY Zenon, <1>14 DEF CallSender, callbacks, notified, shared
  <2>2. /\ \A v \in Workers : v # w => pc[v]' = pc[v] /\ peer[v]' = peer[v]
        /\ pc[w]' \in {"take", "wait_send", "done"}
    <3>1. CASE NextSender(w)
      BY SMTT(30), <1>14, <3>1, <1>a DEF TypeOK, NextSender
    <3>2. CASE ~NextSender(w)
      BY Zenon, <1>14, <3>2, <1>a DEF TypeOK, CallSender
    <3> QED
      BY Zenon, <3>1, <3>2
  <2> QED
    BY Zenon, <2>1, <2>2, <1>a, ReceiverQuiet DEF ReceiveSeen, RegisterPCs
<1>15. CASE AddReceiverCounter(w)
  <2>1. /\ receiver_notified' = receiver_notified
        /\ pc[w] = "add_receiver"
        /\ receiver_counters[p]' = receiver_counters[p] + 1
        /\ \A v \in Workers : v # p => receiver_counters[v]' = receiver_counters[v]
        /\ receiver_counters[p] \in 0 .. npeers
    BY Zenon, <1>15, <1>a, <1>b DEF TypeOK, AddReceiverCounter, callbacks, notified
  <2>2. CASE receiver_counters[p] >= npeers - 1
    <3>1. pc' = [pc EXCEPT ![w] = "call_receiver"] /\ peer' = peer
      BY Zenon, <1>15, <1>b, <2>2 DEF AddReceiverCounter
    <3>2. /\ \A v \in Workers : v # w => pc[v]' = pc[v]
          /\ pc[w]' = "call_receiver" /\ peer[w]' = p
          /\ \A v \in Workers : peer[v]' = peer[v]
      BY Zenon, <3>1, <1>a, <1>b DEF TypeOK
    <3>3. ReceiverCallPending(p)'
      BY Zenon, <3>2 DEF ReceiverCallPending
    <3>4. ASSUME NEW v \in Workers, ReceiverCallPending(v) PROVE ReceiverCallPending(v)'
      BY Zenon, <2>1, <3>2, <3>4 DEF ReceiverCallPending
    <3> SUFFICES ASSUME NEW v \in Workers, v # p, pc[v]' \notin ReceiveSeen,
                        receiver_counters[v]' = npeers, ~ReceiverCallPending(v)'
                 PROVE  receiver_notified[v]'
      BY Zenon, <3>3 DEF ReceiveNews
    <3>5. pc[v] \notin ReceiveSeen
      BY Zenon, <2>1, <3>2 DEF ReceiveSeen, RegisterPCs
    <3> QED
      BY Zenon, <2>1, <3>4, <3>5, <1>a DEF ReceiveNews
  <2>3. CASE ~(receiver_counters[p] >= npeers - 1)
    <3>1. NextReceiver(w) /\ receiver_counters[p]' # npeers
      BY SMTT(30), <1>15, <1>b, <2>1, <2>3, NPeersAssumption DEF AddReceiverCounter
    <3>2. /\ \A v \in Workers : v # w => pc[v]' = pc[v] /\ peer[v]' = peer[v]
      BY SMTT(30), <3>1, <1>a DEF TypeOK, NextReceiver
    <3>3. ASSUME NEW v \in Workers, ReceiverCallPending(v) PROVE ReceiverCallPending(v)'
      BY Zenon, <2>1, <3>2, <3>3 DEF ReceiverCallPending
    <3> SUFFICES ASSUME NEW v \in Workers, v # p, pc[v]' \notin ReceiveSeen,
                        receiver_counters[v]' = npeers, ~ReceiverCallPending(v)'
                 PROVE  receiver_notified[v]'
      BY Zenon, <3>1 DEF ReceiveNews
    <3>4. pc[v] \notin ReceiveSeen
      BY Zenon, <2>1, <3>2 DEF ReceiveSeen, RegisterPCs
    <3> QED
      BY Zenon, <2>1, <3>3, <3>4, <1>a DEF ReceiveNews
  <2> QED
    BY Zenon, <2>2, <2>3
<1>16. CASE CallReceiver(w)
  <2>1. /\ receiver_counters' = receiver_counters
        /\ pc[w] = "call_receiver"
        /\ receiver_callbacks[p] => receiver_notified[p]'
        /\ \A v \in Workers : v # p => receiver_notified[v]' = receiver_notified[v]
        /\ receiver_notified[p] => receiver_notified[p]'
    BY Zenon, <1>16, <1>a, <1>b DEF TypeOK, CallReceiver, shared
  <2>2. \A v \in Workers : v # w => pc[v]' = pc[v] /\ peer[v]' = peer[v]
    BY Zenon, <1>16, <1>a DEF TypeOK, CallReceiver, NextReceiver
  <2>3. ASSUME NEW v \in Workers, v # p, ReceiverCallPending(v)
        PROVE  ReceiverCallPending(v)'
    BY Zenon, <2>2, <2>3, <1>b DEF ReceiverCallPending
  <2> SUFFICES ASSUME NEW v \in Workers, pc[v]' \notin ReceiveSeen,
                      receiver_counters[v]' = npeers, ~ReceiverCallPending(v)'
               PROVE  receiver_notified[v]'
    BY Zenon DEF ReceiveNews
  <2>4. pc[v] \notin ReceiveSeen
    BY Zenon, <2>1, <2>2 DEF ReceiveSeen, RegisterPCs
  <2>5. CASE v = p
    BY Zenon, <2>1, <2>4, <2>5 DEF CallbacksSet, ReceiveSeen, RegisterPCs
  <2>6. CASE v # p
    BY Zenon, <2>1, <2>3, <2>4, <2>6, <1>a DEF ReceiveNews
  <2> QED
    BY Zenon, <2>5, <2>6
<1> QED
  BY Zenon, <1>1, <1>2, <1>3, <1>4, <1>5, <1>6, <1>7, <1>8, <1>9, <1>10, <1>11,
     <1>12, <1>13, <1>14, <1>15, <1>16 DEF Worker, Attach, Send, Receive

-----------------------------------------------------------------------------
\* Every step preserves the strengthened invariant.
LEMMA NInvStep == NInv /\ [Next]_vars => NInv'
<1> SUFFICES ASSUME NInv, [Next]_vars PROVE NInv'
  BY Zenon
<1>1. IInv'
  BY Zenon, IInvStep DEF NInv
<1>2. CASE \E w \in Workers : Worker(w)
  BY Zenon, <1>1, <1>2, CallbacksStep, SendNewsStep, ReceiveNewsStep DEF NInv, IInv
<1>3. CASE UNCHANGED vars
  BY Zenon, <1>1, <1>3 DEF vars, NInv, CallbacksSet, SendNews, ReceiveNews,
     SenderCallPending, ReceiverCallPending
<1> QED
  BY Zenon, <1>2, <1>3 DEF Next, Terminated

\* At-least-once notification: a worker that waits for an operator which is
\* ready has been notified, or a peer is about to invoke its callback.
THEOREM NoLostNotificationSafe == Spec => []NoLostNotification
<1>1. NInv => NoLostNotification
  <2>1. "wait_send" \notin SendSeen /\ "wait_receive" \notin ReceiveSeen
    BY Zenon DEF SendSeen, ReceiveSeen, RegisterPCs
  <2> QED
    BY <2>1 DEF NInv, SendNews, ReceiveNews, SenderCallPending,
       ReceiverCallPending, NoLostNotification, ready_to_send, ready_to_receive
<1> QED
  BY <1>1, NInvInit, NInvStep, PTL DEF Spec
=============================================================================
