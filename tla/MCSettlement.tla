---------------------------- MODULE MCSettlement ----------------------------
(* Instances of Settlement for TLC. *)
EXTENDS Settlement, TLC

CONSTANTS c1, alice, bob, k1, k2

(* Room for two tokens above the floor. *)
Terms == [deposit_micro |-> 3, input_price_micro |-> 1, output_price_micro |-> 1,
          prepaid_input_micro |-> 1, duration_secs |-> 1, dispute_secs |-> 1,
          trailing_buffer |-> 1]

MCTermsOf == [c \in Channel |-> Terms]
MCOffers == {Terms}
MCConsumerOf == [c \in Channel |-> alice]
MCProducerOf == [c \in Channel |-> bob]
MCKeyOf == [c \in Channel |-> k1]

Commit(n, paid, key) ==
    [channel |-> c1, sequence |-> n, cumulative_paid |-> paid, signer |-> key]

(* The SDK's session signs one amount a token, from sequence 1. *)
SessionsSign == { Commit(1, 2, k1), Commit(2, 3, k1) }

(* Another client may begin at 0, go down, stay below the floor, promise     *)
(* more than the deposit or use a key of its own.                            *)
OthersSign == { Commit(0, 2, k1), Commit(2, 1, k1), Commit(1, 0, k1),
                Commit(1, 4, k1), Commit(3, 3, k2) }

MCSigned == SessionsSign \cup OthersSign

MCBalances == (alice :> 5) @@ (bob :> 0)

(* Requests are interchangeable. *)
RequestSymmetry == Permutations(Request)
=============================================================================
