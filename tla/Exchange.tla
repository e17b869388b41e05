------------------------------ MODULE Exchange ------------------------------
(***************************************************************************)
(* The N-to-N exchange of crates/dbsp/src/operator/communication/          *)
(* exchange.rs: `Exchange`, and the ExchangeSender / ExchangeReceiver      *)
(* operators that drive it, one pair per worker thread.                    *)
(*                                                                         *)
(* Every atomic access to the shared object (a mailbox lock, a counter     *)
(* fetch_add / fetch_sub / load, a callback registration or invocation) is *)
(* one action, so the runs interleave workers between any two of them.     *)
(*                                                                         *)
(* The client of the object follows the protocol its comments ask for:     *)
(* register a callback, check the ready status once because earlier        *)
(* notifications are lost, and from then on re-check only when notified.   *)
(* Its circuit evaluates ExchangeSender before ExchangeReceiver in every   *)
(* clock cycle (Circuit::add_exchange registers that dependency).          *)
(***************************************************************************)
EXTENDS Integers, Sequences, FiniteSets

CONSTANTS
    npeers,      \* the number of communicating peers (worker threads)
    MaxRounds    \* bound: clock cycles that every worker executes

ASSUME NPeersAssumption == npeers \in Nat \ {0}
ASSUME MaxRoundsAssumption == MaxRounds \in Nat \ {0}

Workers == 0 .. npeers - 1

VARIABLES
    mailboxes,           \* mailboxes[s][r]: the Option<T> from s to r
    receiver_counters,   \* messages that wait for a receiver
    sender_counters,     \* free mailboxes of a sender
    receiver_callbacks,  \* TRUE once the OnceCell is set
    sender_callbacks,
    receiver_notified,   \* a callback was invoked and not yet looked at
    sender_notified,
    pc,                  \* where each worker thread is
    peer,                \* index of the loop over peers in *_all
    round,               \* clock cycles the worker has completed
    combined             \* what `combine` has folded in this cycle

shared == <<mailboxes, receiver_counters, sender_counters>>
callbacks == <<receiver_callbacks, sender_callbacks>>
notified == <<receiver_notified, sender_notified>>
local == <<pc, peer, round, combined>>
vars == <<mailboxes, receiver_counters, sender_counters, receiver_callbacks,
          sender_callbacks, receiver_notified, sender_notified, pc, peer,
          round, combined>>

\* Option<T>: an empty mailbox or one value.
None == {}
Some(v) == {v}

\* The value that `partition` pushed for receiver r in sender s's k-th cycle.
Msg(s, r, k) == <<s, r, k>>

\* Control points of a worker.
RegisterPCs == {"register_sender", "check_sender", "register_receiver",
                "check_receiver"}
SendPCs == {"post", "sub_sender", "add_receiver", "call_receiver"}
ReceivePCs == {"take", "sub_receiver", "add_sender", "call_sender"}
PCs == RegisterPCs \cup SendPCs \cup ReceivePCs
         \cup {"wait_send", "try_send", "wait_receive", "try_receive",
               "done", "panicked"}

\* Exchange::new
Init ==
    /\ mailboxes = [s \in Workers |-> [r \in Workers |-> None]]
    /\ receiver_counters = [r \in Workers |-> 0]
    /\ sender_counters = [s \in Workers |-> npeers]
    /\ receiver_callbacks = [r \in Workers |-> FALSE]
    /\ sender_callbacks = [s \in Workers |-> FALSE]
    /\ receiver_notified = [r \in Workers |-> FALSE]
    /\ sender_notified = [s \in Workers |-> FALSE]
    /\ pc = [w \in Workers |-> "register_sender"]
    /\ peer = [w \in Workers |-> 0]
    /\ round = [w \in Workers |-> 0]
    /\ combined = [w \in Workers |-> <<>>]

\* Mutant: one free mailbox too few is taken for enough.
ready_to_send_mutant(s) == sender_counters[s] >= npeers - 1
ready_to_send(s) == sender_counters[s] = npeers

\* Mutant: the receiver does not wait for the last message.
ready_to_receive_mutant(r) == receiver_counters[r] >= npeers - 1
ready_to_receive(r) == receiver_counters[r] = npeers

Goto(w, from, to) == pc[w] = from /\ pc' = [pc EXCEPT ![w] = to]

-----------------------------------------------------------------------------
\* Attaching a scheduler: register each callback, then check the status.

register_sender_callback(w) ==
    /\ Goto(w, "register_sender", "check_sender")
    /\ sender_callbacks' = [sender_callbacks EXCEPT ![w] = TRUE]
    /\ UNCHANGED <<shared, receiver_callbacks, notified, peer, round, combined>>

check_sender(w) ==
    /\ Goto(w, "check_sender", "register_receiver")
    /\ sender_notified' =
         [sender_notified EXCEPT ![w] = @ \/ ready_to_send(w)]
    /\ UNCHANGED <<shared, callbacks, receiver_notified, peer, round, combined>>

register_receiver_callback(w) ==
    /\ Goto(w, "register_receiver", "check_receiver")
    /\ receiver_callbacks' = [receiver_callbacks EXCEPT ![w] = TRUE]
    /\ UNCHANGED <<shared, sender_callbacks, notified, peer, round, combined>>

check_receiver(w) ==
    /\ Goto(w, "check_receiver", "wait_send")
    /\ receiver_notified' =
         [receiver_notified EXCEPT ![w] = @ \/ ready_to_receive(w)]
    /\ UNCHANGED <<shared, callbacks, sender_notified, peer, round, combined>>

-----------------------------------------------------------------------------
\* ExchangeSender::eval once the worker knows that it is ready.

\* Woken by a notification, which may be spurious: re-check the status.
SenderWake(w) ==
    /\ sender_notified[w]
    /\ Goto(w, "wait_send", IF ready_to_send(w) THEN "try_send" ELSE "wait_send")
    /\ sender_notified' = [sender_notified EXCEPT ![w] = FALSE]
    /\ UNCHANGED <<shared, callbacks, receiver_notified, peer, round, combined>>

\* Entry of try_send_all; `false` trips the caller's debug_assert!(res).
try_send_all(w) ==
    /\ Goto(w, "try_send", IF ready_to_send(w) THEN "post" ELSE "panicked")
    /\ peer' = [peer EXCEPT ![w] = 0]
    /\ UNCHANGED <<shared, callbacks, notified, round, combined>>

\* *self.mailbox(sender, receiver).lock().unwrap() = data.next()
PostMessage(w) ==
    /\ Goto(w, "post", "sub_sender")
    /\ mailboxes' = [mailboxes EXCEPT ![w][peer[w]] =
                        Some(Msg(w, peer[w], round[w]))]
    /\ UNCHANGED <<receiver_counters, sender_counters, callbacks, notified,
                   peer, round, combined>>

SubSenderCounter(w) ==
    /\ Goto(w, "sub_sender", "add_receiver")
    /\ sender_counters' = [sender_counters EXCEPT ![w] = @ - 1]
    /\ UNCHANGED <<mailboxes, receiver_counters, callbacks, notified, peer,
                   round, combined>>

\* The next receiver of the loop, or the receive half of the clock cycle.
NextReceiver(w) ==
    IF peer[w] + 1 < npeers
      THEN peer' = [peer EXCEPT ![w] = @ + 1] /\ pc' = [pc EXCEPT ![w] = "post"]
      ELSE peer' = peer /\ pc' = [pc EXCEPT ![w] = "wait_receive"]

AddReceiverCounter(w) ==
    /\ pc[w] = "add_receiver"
    /\ receiver_counters' = [receiver_counters EXCEPT ![peer[w]] = @ + 1]
    /\ IF receiver_counters[peer[w]] >= npeers - 1
         THEN pc' = [pc EXCEPT ![w] = "call_receiver"] /\ peer' = peer
         ELSE NextReceiver(w)
    /\ UNCHANGED <<mailboxes, sender_counters, callbacks, notified, round,
                   combined>>

CallReceiver(w) ==
    /\ pc[w] = "call_receiver"
    /\ receiver_notified' = [receiver_notified EXCEPT
                               ![peer[w]] = @ \/ receiver_callbacks[peer[w]]]
    /\ NextReceiver(w)
    /\ UNCHANGED <<shared, callbacks, sender_notified, round, combined>>

-----------------------------------------------------------------------------
\* ExchangeReceiver::eval once the worker knows that it is ready.

\* Mutant: a pending notification is polled for ever, its outcome unused.
ReceiverWake_mutant(w) ==
    /\ receiver_notified[w]
    /\ Goto(w, "wait_receive", "wait_receive")
    /\ UNCHANGED <<shared, callbacks, notified, peer, round, combined>>

ReceiverWake(w) ==
    /\ receiver_notified[w]
    /\ Goto(w, "wait_receive",
            IF ready_to_receive(w) THEN "try_receive" ELSE "wait_receive")
    /\ receiver_notified' = [receiver_notified EXCEPT ![w] = FALSE]
    /\ UNCHANGED <<shared, callbacks, sender_notified, peer, round, combined>>

\* Mutant: the accumulator is not reset at the start of a cycle.
try_receive_all_mutant(w) ==
    /\ Goto(w, "try_receive", IF ready_to_receive(w) THEN "take" ELSE "panicked")
    /\ peer' = [peer EXCEPT ![w] = 0]
    /\ UNCHANGED <<shared, callbacks, notified, round, combined>>

try_receive_all(w) ==
    /\ Goto(w, "try_receive", IF ready_to_receive(w) THEN "take" ELSE "panicked")
    /\ peer' = [peer EXCEPT ![w] = 0]
    /\ combined' = [combined EXCEPT ![w] = <<>>]
    /\ UNCHANGED <<shared, callbacks, notified, round>>

\* .lock().unwrap().take().unwrap() panics on an empty mailbox; cb(data).
TakeMessage(w) ==
    LET box == mailboxes[peer[w]][w] IN
    /\ Goto(w, "take", IF box = None THEN "panicked" ELSE "sub_receiver")
    /\ mailboxes' = [mailboxes EXCEPT ![peer[w]][w] = None]
    /\ combined' = IF box = None
                     THEN combined
                     ELSE [combined EXCEPT ![w] =
                             Append(@, CHOOSE v \in box : TRUE)]
    /\ UNCHANGED <<receiver_counters, sender_counters, callbacks, notified,
                   peer, round>>

SubReceiverCounter(w) ==
    /\ Goto(w, "sub_receiver", "add_sender")
    /\ receiver_counters' = [receiver_counters EXCEPT ![w] = @ - 1]
    /\ UNCHANGED <<mailboxes, sender_counters, callbacks, notified, peer,
                   round, combined>>

\* The next sender of the loop, or the end of the clock cycle.
NextSender(w) ==
    IF peer[w] + 1 < npeers
      THEN /\ peer' = [peer EXCEPT ![w] = @ + 1]
           /\ pc' = [pc EXCEPT ![w] = "take"]
           /\ round' = round
      ELSE /\ peer' = peer
           /\ pc' = [pc EXCEPT ![w] = IF round[w] + 1 < MaxRounds
                                         THEN "wait_send" ELSE "done"]
           /\ round' = [round EXCEPT ![w] = @ + 1]

\* Mutant: off-by-one in the test for the last free mailbox.
AddSenderCounter_mutant(w) ==
    /\ pc[w] = "add_sender"
    /\ sender_counters' = [sender_counters EXCEPT ![peer[w]] = @ + 1]
    /\ IF sender_counters[peer[w]] >= npeers
         THEN /\ pc' = [pc EXCEPT ![w] = "call_sender"]
              /\ peer' = peer
              /\ round' = round
         ELSE NextSender(w)
    /\ UNCHANGED <<mailboxes, receiver_counters, callbacks, notified, combined>>

AddSenderCounter(w) ==
    /\ pc[w] = "add_sender"
    /\ sender_counters' = [sender_counters EXCEPT ![peer[w]] = @ + 1]
    /\ IF sender_counters[peer[w]] >= npeers - 1
         THEN /\ pc' = [pc EXCEPT ![w] = "call_sender"]
              /\ peer' = peer
              /\ round' = round
         ELSE NextSender(w)
    /\ UNCHANGED <<mailboxes, receiver_counters, callbacks, notified, combined>>

CallSender(w) ==
    /\ pc[w] = "call_sender"
    /\ sender_notified' = [sender_notified EXCEPT
                             ![peer[w]] = @ \/ sender_callbacks[peer[w]]]
    /\ NextSender(w)
    /\ UNCHANGED <<shared, callbacks, receiver_notified, combined>>

-----------------------------------------------------------------------------
Attach(w) ==
    \/ register_sender_callback(w)
    \/ check_sender(w)
    \/ register_receiver_callback(w)
    \/ check_receiver(w)

Send(w) ==
    \/ SenderWake(w)
    \/ try_send_all(w)
    \/ PostMessage(w)
    \/ SubSenderCounter(w)
    \/ AddReceiverCounter(w)
    \/ CallReceiver(w)

Receive(w) ==
    \/ ReceiverWake(w)
    \/ try_receive_all(w)
    \/ TakeMessage(w)
    \/ SubReceiverCounter(w)
    \/ AddSenderCounter(w)
    \/ CallSender(w)

Worker(w) == Attach(w) \/ Send(w) \/ Receive(w)

\* All workers have run MaxRounds cycles.
Terminated ==
    /\ \A w \in Workers : pc[w] = "done"
    /\ UNCHANGED vars

Next == (\E w \in Workers : Worker(w)) \/ Terminated

Spec == Init /\ [][Next]_vars

\* A worker thread is never descheduled for ever by the operating system.
Fairness == \A w \in Workers : WF_vars(Worker(w))

FairSpec == Spec /\ Fairness

-----------------------------------------------------------------------------
\* Ghost state: how many values s has put in r's mailbox and how many of
\* them r has taken, counted from the program counters.

HasPosted(s, r) ==
    \/ pc[s] \in SendPCs /\ (peer[s] > r \/ (peer[s] = r /\ pc[s] # "post"))
    \/ pc[s] \in ReceivePCs \cup {"wait_receive", "try_receive"}

HasTaken(s, r) ==
    pc[r] \in ReceivePCs /\ (peer[r] > s \/ (peer[r] = s /\ pc[r] # "take"))

Sent(s, r) == round[s] + (IF HasPosted(s, r) THEN 1 ELSE 0)
Taken(s, r) == round[r] + (IF HasTaken(s, r) THEN 1 ELSE 0)

-----------------------------------------------------------------------------
Messages == Workers \X Workers \X (0 .. MaxRounds)

\* The type of the state.
TypeOK ==
    /\ mailboxes \in [Workers -> [Workers -> {None} \cup {Some(m) : m \in Messages}]]
    /\ receiver_counters \in [Workers -> 0 .. npeers]
    /\ sender_counters \in [Workers -> 0 .. npeers]
    /\ receiver_callbacks \in [Workers -> BOOLEAN]
    /\ sender_callbacks \in [Workers -> BOOLEAN]
    /\ receiver_notified \in [Workers -> BOOLEAN]
    /\ sender_notified \in [Workers -> BOOLEAN]
    /\ pc \in [Workers -> PCs]
    /\ peer \in [Workers -> Workers]
    /\ round \in [Workers -> 0 .. MaxRounds]
    /\ combined \in [Workers -> Seq(Messages)]

\* Nothing the code asserts or unwraps fails: once ready_to_send (ready_to_
\* receive) has returned true, the later try_send_all (try_receive_all)
\* succeeds whatever the other workers do in between, and every mailbox a
\* receiver takes from holds a value.
NoPanic == \A w \in Workers : pc[w] # "panicked"

\* A sender never overwrites a value that its receiver has not taken: the
\* counter protocol alone guarantees it, try_send_all does not look.
NoOverwrite ==
    \A w \in Workers : pc[w] = "post" => mailboxes[w][peer[w]] = None

\* When a worker leaves ExchangeReceiver::eval it has combined, in sender
\* order, exactly one value from every peer, each the value that this peer
\* produced for this worker in the same clock cycle.
RoundDelivery ==
    \A w \in Workers : pc[w] \in {"wait_send", "done"} /\ round[w] > 0 =>
        combined[w] = [i \in 1 .. npeers |-> Msg(i - 1, w, round[w] - 1)]

\* The exchange keeps the workers' clocks within one cycle of each other.
RoundSkew == \A v, w \in Workers : round[v] <= round[w] + 1

\* At-least-once notification: a worker that waits for an operator which is
\* ready has been notified, or a peer is about to invoke its callback. This
\* covers a status change before, during and after the registration of the
\* callback, and spurious callbacks in the middle of a round.
NoLostNotification ==
    \A w \in Workers :
        /\ pc[w] = "wait_send" /\ ready_to_send(w) =>
             \/ sender_notified[w]
             \/ \E r \in Workers : pc[r] = "call_sender" /\ peer[r] = w
        /\ pc[w] = "wait_receive" /\ ready_to_receive(w) =>
             \/ receiver_notified[w]
             \/ \E s \in Workers : pc[s] = "call_receiver" /\ peer[s] = w

\* The mailboxes and counters implement synchronous rounds.
AllSent == [p \in Workers \X Workers |-> Sent(p[1], p[2])]
AllTaken == [p \in Workers \X Workers |-> Taken(p[1], p[2])]

Rounds == INSTANCE ExchangeRounds WITH
    Peers <- Workers, Rounds <- MaxRounds, sent <- AllSent, taken <- AllTaken

ImplementsRounds == Rounds!Spec

\* Every worker gets through all its clock cycles: nobody waits for ever for
\* a peer that waits for it.
AllRoundsComplete == <>(\A w \in Workers : pc[w] = "done")
=============================================================================
