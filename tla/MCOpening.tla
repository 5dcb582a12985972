----------------------------- MODULE MCOpening -----------------------------
(* Instances of Opening for TLC. *)
EXTENDS Opening, TLC

CONSTANTS c1, c2,               \* a call of each SDK
          alice, bob, k1, k2,
          tap_v1, vendor,       \* a tokenizer both sides have, one they have not
          devnet, testnet

MCConsumerOf == [c \in Channel |-> alice]
MCProducerOf == [c \in Channel |-> bob]
(* One deposit or the other, not both. *)
MCBalances == (alice :> 5) @@ (bob :> 0)
MCSdkOf == (c1 :> "python") @@ (c2 :> "typescript")
MCKeyOf == (c1 :> k1) @@ (c2 :> k2)
MCDepositOf == (c1 :> 4) @@ (c2 :> 3)

MCCountOf == (tap_v1 :> ((c1 :> 2) @@ (c2 :> 1)))
             @@ (vendor :> ((c1 :> 3) @@ (c2 :> 6)))

MCPolicy == [max_input_price_micro |-> 1, max_output_price_micro |-> 2,
             max_trailing_buffer_tokens |-> 1, min_pause_timeout_ms |-> 2,
             max_dispute_secs |-> 1, allowed_networks |-> {devnet},
             verify_input_tokens |-> TRUE]

Priced(output_price, tokenizer) ==
    [network |-> devnet, input_price_micro |-> 1,
     output_price_micro |-> output_price, tokenizer_id |-> tokenizer,
     trailing_buffer_tokens |-> 1, total_session_ms |-> 1500,
     pause_timeout_ms |-> 2]

(* A restart may change a price, or the tokenizer to one the consumer has   *)
(* not, which the TypeScript prompt's floor overflows.                       *)
MCConfigs == {Priced(1, tap_v1), Priced(2, tap_v1), Priced(1, vendor)}

Quoted == [network |-> devnet, input_price_micro |-> 1, output_price_micro |-> 1,
           tokenizer_id |-> tap_v1, input_token_count |-> 2,
           prepaid_input_micro |-> 2, trailing_buffer_tokens |-> 1,
           duration_secs |-> 1, dispute_secs |-> 1, pause_timeout_ms |-> 2]

(* One 402 for each test of the policy, for each of the program's that the  *)
(* policy leaves to it, and for each field that setUint32 or setBigUint64   *)
(* would cut to a value the program takes.                                   *)
MCMisquotes ==
    { [Quoted EXCEPT !.network = testnet],
      [Quoted EXCEPT !.input_price_micro = 2, !.prepaid_input_micro = 4],
      [Quoted EXCEPT !.output_price_micro = 3],
      [Quoted EXCEPT !.trailing_buffer_tokens = 2],
      [Quoted EXCEPT !.trailing_buffer_tokens = 0],
      [Quoted EXCEPT !.pause_timeout_ms = 1],
      [Quoted EXCEPT !.dispute_secs = 2],
      [Quoted EXCEPT !.prepaid_input_micro = 3],
      [Quoted EXCEPT !.input_token_count = 3, !.prepaid_input_micro = 3],
      [Quoted EXCEPT !.input_token_count = 0, !.prepaid_input_micro = 0],
      [Quoted EXCEPT !.duration_secs = 2],
      [Quoted EXCEPT !.duration_secs = 0],
      [Quoted EXCEPT !.duration_secs = 5],
      [Quoted EXCEPT !.dispute_secs = 5],
      [Quoted EXCEPT !.trailing_buffer_tokens = 5],
      [Quoted EXCEPT !.output_price_micro = 7] }
=============================================================================
