---------------------------- MODULE MCTapChannel ----------------------------
(* Instances of TapChannel for TLC. *)
EXTENDS TapChannel, TLC

CONSTANTS c1, c2,           \* channels
          alice, bob       \* wallets: a consumer and a producer

(* The offers: a refusal of each kind, a floor at the whole deposit, a zero  *)
(* floor with zero-length windows, and an ordinary one.                      *)
Offer(deposit, output_price, prepaid, duration, dispute, trailing) ==
    [deposit_micro |-> deposit, input_price_micro |-> 1,
     output_price_micro |-> output_price, prepaid_input_micro |-> prepaid,
     duration_secs |-> duration, dispute_secs |-> dispute,
     trailing_buffer |-> trailing]

Refused == { Offer(0, 1, 0, 1, 1, 1), Offer(2, 0, 0, 1, 1, 1),
             Offer(1, 1, 2, 1, 1, 1), Offer(1, 1, 0, 3, 1, 1),
             Offer(1, 1, 0, 1, 2, 1), Offer(1, 1, 0, 1, 1, 3),
             [Offer(2, 1, 1, 1, 1, 1) EXCEPT !.input_price_micro = 0] }

MCOffers == Refused \cup { Offer(2, 1, 1, 2, 1, 1), Offer(1, 3, 1, 1, 1, 2),
                           Offer(2, 1, 0, 0, 0, 0) }

MCProducerOf == (c1 :> bob) @@ (c2 :> bob)
SameConsumerOf == (c1 :> alice) @@ (c2 :> alice)
PairBalances == (alice :> 3) @@ (bob :> 0)
=============================================================================
