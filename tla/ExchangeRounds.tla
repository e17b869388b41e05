--------------------------- MODULE ExchangeRounds ---------------------------
(***************************************************************************)
(* What `Exchange` promises (the comment that introduces the struct in     *)
(* exchange.rs): communication in rounds; in each round every peer first   *)
(* sends one value to every peer and then receives one from each; a send   *)
(* of a round starts only when all peers have retrieved what the sender    *)
(* produced in the previous round, and a receive only when all incoming    *)
(* values of the round are there.                                          *)
(***************************************************************************)
EXTENDS Integers

CONSTANTS Peers, Rounds

VARIABLES
    sent,     \* sent[<<s, r>>]: values s has put in its mailbox for r
    taken     \* taken[<<s, r>>]: how many of them r has retrieved

Pairs == Peers \X Peers

Init == sent = [p \in Pairs |-> 0] /\ taken = [p \in Pairs |-> 0]

\* s sends r its value for round sent[<<s, r>>].
Put(s, r) ==
    /\ sent[<<s, r>>] < Rounds
    /\ \A q \in Peers : taken[<<s, q>>] >= sent[<<s, r>>]
    /\ sent' = [sent EXCEPT ![<<s, r>>] = @ + 1]
    /\ UNCHANGED taken

\* r retrieves the value of round taken[<<s, r>>] that s sent it.
Get(s, r) ==
    /\ \A q \in Peers : sent[<<q, r>>] > taken[<<s, r>>]
    /\ taken' = [taken EXCEPT ![<<s, r>>] = @ + 1]
    /\ UNCHANGED sent

Next == \E s, r \in Peers : Put(s, r) \/ Get(s, r)

Spec == Init /\ [][Next]_<<sent, taken>>
=============================================================================
