------------------------------- MODULE Escrow -------------------------------
(***************************************************************************)
(* What the TAP program promises about money, with none of its mechanism:  *)
(* a deposit is locked whole, the producer's share of it only ever grows   *)
(* and never exceeds it, and it is released once, share to the producer    *)
(* and remainder to the consumer.  No clock, no commitments, no windows.   *)
(* TapChannel implements this specification.                               *)
(***************************************************************************)
EXTENDS Naturals

CONSTANTS Channel, Wallet, ConsumerOf, ProducerOf, Balances,
          Amount    \* the sums that can be locked, a set of naturals

VARIABLES held,     \* [Channel -> Nat]: micro-USDC locked for the channel
          due,      \* [Channel -> Nat]: of which is the producer's, so far
          wallet    \* [Wallet -> Nat]: micro-USDC outside any channel

vars == <<held, due, wallet>>

Init == /\ held = [c \in Channel |-> 0]
        /\ due = [c \in Channel |-> 0]
        /\ wallet = Balances

(* The consumer locks `amount`, of which `floor` is already the producer's. *)
Lock(c, amount, floor) ==
    /\ held[c] = 0
    /\ 0 < amount /\ amount <= wallet[ConsumerOf[c]]
    /\ floor <= amount
    /\ held' = [held EXCEPT ![c] = amount]
    /\ due' = [due EXCEPT ![c] = floor]
    /\ wallet' = [wallet EXCEPT ![ConsumerOf[c]] = @ - amount]

(* The producer's share grows, within what is held. *)
Raise(c, share) ==
    /\ due[c] <= share /\ share <= held[c]
    /\ due' = [due EXCEPT ![c] = share]
    /\ UNCHANGED <<held, wallet>>

Paid(balances, to, amount) == [balances EXCEPT ![to] = @ + amount]

(* The escrow is emptied: share to the producer, the rest back. *)
Release(c) ==
    /\ held[c] > 0
    /\ held' = [held EXCEPT ![c] = 0]
    /\ due' = [due EXCEPT ![c] = 0]
    /\ wallet' = Paid(Paid(wallet, ProducerOf[c], due[c]),
                      ConsumerOf[c], held[c] - due[c])

Next == \E c \in Channel :
            \/ \E amount \in Amount, floor \in Amount : Lock(c, amount, floor)
            \/ \E share \in Amount : Raise(c, share)
            \/ Release(c)

Spec == Init /\ [][Next]_vars
=============================================================================
