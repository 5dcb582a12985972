------------------------------ MODULE Opening ------------------------------
(***************************************************************************)
(* How a channel comes to be: open_session of either SDK asks the producer *)
(* for its terms, audits them, signs an open_channel transaction and POSTs *)
(* it as a payment; the producer hands it to its RPC node, which may send  *)
(* it on, and registers the channel.  The producer keeps nothing between   *)
(* the quote and the payment, and may meanwhile have been restarted with   *)
(* other prices; any request, answer or transaction may be lost.           *)
(*                                                                         *)
(* Each call of open_session makes a nonce and a session key of its own,   *)
(* so a call is named by the channel it would open.  Extends TapChannel:   *)
(* the transaction, when it lands, is the program's OpenChannel.           *)
(*                                                                         *)
(* A definition headed "Variant" belongs to no specification: it is the    *)
(* form a slip in the code would give the definition below it, kept to     *)
(* show that the properties notice the difference.                         *)
(***************************************************************************)
EXTENDS TapChannel

CONSTANTS
    SdkOf,          \* [Channel -> {"python", "typescript"}]
    KeyOf,          \* [Channel -> SessionKey]: SessionKey.generate()
    DepositOf,      \* [Channel -> U64]: the deposit_micro of the call
    Tokenizer,      \* tokenizer identifiers
    CountOf,        \* [Tokenizer -> [Channel -> Nat]]: tokens of the prompt
    Network,        \* x402 network names
    Registered,     \* the consumer's tokenizers
    Policy,         \* its ConsumerPolicy
    Configs,        \* Pricing and TimingParameters a producer may start with
    DisputeSecs,    \* _DISPUTE_SECS
    Misquotes,      \* 402s that no producer of this SDK would send
    U32Max,         \* largest u32
    SafeMax,        \* Number.MAX_SAFE_INTEGER
    MaxRestarts,    \* BOUND on restarts
    NoQuote, NoPayment, NoEntry     \* Python's None

Requirements ==
    [network : Network, input_price_micro : Nat, output_price_micro : Nat,
     tokenizer_id : Tokenizer, input_token_count : Nat,
     prepaid_input_micro : Nat, trailing_buffer_tokens : Nat,
     duration_secs : Nat, dispute_secs : Nat, pause_timeout_ms : Nat]

Config ==
    [network : Network, input_price_micro : U64 \ {0},
     output_price_micro : U64 \ {0}, tokenizer_id : Tokenizer,
     trailing_buffer_tokens : Nat, total_session_ms : Nat,
     pause_timeout_ms : Nat]

(* X-PAYMENT: the terms its JSON tells, and the arguments its transaction   *)
(* carries in bytes.                                                         *)
Payment == [session_key : SessionKey, terms : OfferType, args : OfferType]

(* What an ActiveChannel keeps of them. *)
Entry ==
    [session_key : SessionKey, deposit_micro : U64, input_price_micro : U64,
     output_price_micro : U64, prepaid_input_micro : U64,
     trailing_buffer_tokens : Nat, expires_at_ms : Nat]

ASSUME OpeningAssumption ==
    /\ SdkOf \in [Channel -> {"python", "typescript"}]
    /\ KeyOf \in [Channel -> SessionKey] /\ DepositOf \in [Channel -> U64]
    /\ CountOf \in [Tokenizer -> [Channel -> Nat]]
    /\ Registered \subseteq Tokenizer
    /\ Policy \in
        [max_input_price_micro : Nat, max_output_price_micro : Nat,
         max_trailing_buffer_tokens : Nat, min_pause_timeout_ms : Nat,
         max_dispute_secs : Nat, allowed_networks : SUBSET Network,
         verify_input_tokens : BOOLEAN]
    /\ Configs \subseteq Config /\ Configs # {}
    /\ DisputeSecs \in Nat
    /\ U32Max \in Nat /\ SafeMax \in Nat /\ SafeMax <= U64Max
    /\ Misquotes \subseteq Requirements
    /\ MaxRestarts \in Nat
    /\ NoQuote \notin Requirements
    /\ NoPayment \notin Payment /\ NoEntry \notin Entry

VARIABLES
    \* consumer
    stage,          \* [Channel -> where its open_session is]
    quote,          \* [Channel -> the requirements it holds, or NoQuote]
    payment,        \* [Channel -> the payment it signed, or NoPayment]
    \* producer
    running, config, restarts,
    post,           \* [Channel -> where the POST with the payment is]
    entry,          \* [Channel -> its ActiveChannel, or NoEntry]
    \* cluster
    open_tx         \* [Channel -> "none", "sent", "landed" or "dropped"]

chainVars == vars
consumerVars == <<stage, quote, payment>>
processVars == <<running, config, restarts>>
openingVars == <<chainVars, consumerVars, processVars, post, entry, open_tx>>

-----------------------------------------------------------------------------
(* The producer's quote: _build_requirements with a prompt. *)

BuildRequirements(p, c) ==
    [network |-> p.network, input_price_micro |-> p.input_price_micro,
     output_price_micro |-> p.output_price_micro,
     tokenizer_id |-> p.tokenizer_id,
     input_token_count |-> CountOf[p.tokenizer_id][c],
     prepaid_input_micro |-> CountOf[p.tokenizer_id][c] * p.input_price_micro,
     trailing_buffer_tokens |-> p.trailing_buffer_tokens,
     duration_secs |-> p.total_session_ms \div 1000,
     dispute_secs |-> DisputeSecs, pause_timeout_ms |-> p.pause_timeout_ms]

(* ConsumerPolicy. *)

WithinPolicy(q) ==
    /\ q.network \in Policy.allowed_networks
    /\ q.input_price_micro <= Policy.max_input_price_micro
    /\ q.output_price_micro <= Policy.max_output_price_micro
    /\ q.trailing_buffer_tokens <= Policy.max_trailing_buffer_tokens
    /\ q.pause_timeout_ms >= Policy.min_pause_timeout_ms
    /\ q.dispute_secs <= Policy.max_dispute_secs

(* Variant: the quote is not recomputed from its own count and price. *)
AuditLimitsOnly(q) == WithinPolicy(q)

Audit(q) ==
    /\ WithinPolicy(q)
    /\ q.prepaid_input_micro = q.input_token_count * q.input_price_micro

VerifyPromptTokens(q, c) ==
    \/ ~Policy.verify_input_tokens
    \/ q.input_token_count = 0
    \/ /\ q.tokenizer_id \in Registered
       /\ CountOf[q.tokenizer_id][c] = q.input_token_count

(* What open_session tests before it asks for a blockhash; TypeScript       *)
(* "trusts the producer's quote".  The last is TimingParameters' own test.  *)
Acceptable(c, q) ==
    /\ SdkOf[c] = "python" => Audit(q) /\ VerifyPromptTokens(q, c)
    /\ q.prepaid_input_micro <= DepositOf[c]
    /\ SdkOf[c] = "python" => q.pause_timeout_ms <= q.duration_secs * 1000

(* The terms the payment tells and the session holds.                       *)
TermsFrom(c, q) ==
    [deposit_micro |-> DepositOf[c], input_price_micro |-> q.input_price_micro,
     output_price_micro |-> q.output_price_micro,
     prepaid_input_micro |-> q.prepaid_input_micro,
     duration_secs |-> q.duration_secs, dispute_secs |-> q.dispute_secs,
     trailing_buffer |-> q.trailing_buffer_tokens]

U64sUpTo(t, limit) ==
    /\ t.deposit_micro <= limit /\ t.prepaid_input_micro <= limit
    /\ t.input_price_micro <= limit /\ t.output_price_micro <= limit

FitsU32(t) ==
    /\ t.duration_secs <= U32Max /\ t.dispute_secs <= U32Max
    /\ t.trailing_buffer <= U32Max

(* Variant: TypeScript's header is made of plain Numbers. *)
EncodableAsNumbers(c, q) ==
    SdkOf[c] = "python" => U64sUpTo(TermsFrom(c, q), U64Max) /\ FitsU32(TermsFrom(c, q))

(* Neither encoder raises: Python's to_bytes does at a number wider than its *)
(* field, TypeScript's header at a bigint that no double holds.              *)
Encodable(c, q) ==
    IF SdkOf[c] = "python"
    THEN U64sUpTo(TermsFrom(c, q), U64Max) /\ FitsU32(TermsFrom(c, q))
    ELSE U64sUpTo(TermsFrom(c, q), SafeMax)

(* DataView's setUint32 and setBigUint64 keep the low bits. *)
WrapU32(n) == n % (U32Max + 1)
WrapU64(n) == n % (U64Max + 1)

(* Variant: two of the fields are written in each other's place. *)
ArgsSwapped(c, q) ==
    LET t == TermsFrom(c, q) IN
    IF SdkOf[c] = "python" THEN t
    ELSE [t EXCEPT !.duration_secs = WrapU32(@),
                   !.dispute_secs = WrapU32(t.trailing_buffer),
                   !.trailing_buffer = WrapU32(t.dispute_secs)]

(* The arguments that the bytes of the transaction stand for. *)
ArgsOf(c, q) ==
    LET t == TermsFrom(c, q) IN
    IF SdkOf[c] = "python" THEN t
    ELSE [deposit_micro |-> WrapU64(t.deposit_micro),
          input_price_micro |-> WrapU64(t.input_price_micro),
          output_price_micro |-> WrapU64(t.output_price_micro),
          prepaid_input_micro |-> WrapU64(t.prepaid_input_micro),
          duration_secs |-> WrapU32(t.duration_secs),
          dispute_secs |-> WrapU32(t.dispute_secs),
          trailing_buffer |-> WrapU32(t.trailing_buffer)]

OpeningInit ==
    /\ Init
    /\ stage = [c \in Channel |-> "idle"]
    /\ quote = [c \in Channel |-> NoQuote]
    /\ payment = [c \in Channel |-> NoPayment]
    /\ running = TRUE /\ config \in Configs /\ restarts = 0
    /\ post = [c \in Channel |-> "none"]
    /\ entry = [c \in Channel |-> NoEntry]
    /\ open_tx = [c \in Channel |-> "none"]

-----------------------------------------------------------------------------
(* The consumer: open_session, from one await to the next. *)

AskQuote(c) ==
    /\ stage[c] = "idle"
    /\ stage' = [stage EXCEPT ![c] = "asking"]
    /\ UNCHANGED <<chainVars, quote, payment, processVars, post, entry, open_tx>>

(* The 402 is read and audited. *)
ReadQuote(c) ==
    /\ stage[c] = "quoted"
    /\ stage' = [stage EXCEPT ![c] = IF Acceptable(c, quote[c]) THEN "signing"
                                     ELSE "refused"]
    /\ UNCHANGED <<chainVars, quote, payment, processVars, post, entry, open_tx>>

PaymentFor(c, q) ==
    [session_key |-> KeyOf[c], terms |-> TermsFrom(c, q), args |-> ArgsOf(c, q)]

(* The blockhash is there: the transaction is built, signed and POSTed.     *)
SendPayment(c) ==
    /\ stage[c] = "signing"
    /\ Encodable(c, quote[c])
    /\ stage' = [stage EXCEPT ![c] = "paying"]
    /\ payment' = [payment EXCEPT ![c] = PaymentFor(c, quote[c])]
    /\ post' = [post EXCEPT ![c] = "request"]
    /\ UNCHANGED <<chainVars, quote, processVars, entry, open_tx>>

ReadAck(c) ==
    /\ stage[c] = "paying" /\ post[c] = "acked"
    /\ stage' = [stage EXCEPT ![c] = "open"]
    /\ UNCHANGED <<chainVars, quote, payment, processVars, post, entry, open_tx>>

(* open_session raises: the answer is an error, does not come in time, the  *)
(* connection breaks, or the terms cannot be encoded.  What was sent stays  *)
(* sent.                                                                    *)
OpenSessionRaises(c) ==
    /\ stage[c] \in {"asking", "quoted", "signing", "paying"}
    /\ stage' = [stage EXCEPT ![c] = "raised"]
    /\ UNCHANGED <<chainVars, quote, payment, processVars, post, entry, open_tx>>

-----------------------------------------------------------------------------
(* The producer. *)

(* The prompt is POSTed without payment: a 402, and nothing is kept.        *)
AnswerQuote(c) ==
    /\ running /\ stage[c] = "asking"
    /\ \E q \in Misquotes \cup {BuildRequirements(config, c)} :
           quote' = [quote EXCEPT ![c] = q]
    /\ stage' = [stage EXCEPT ![c] = "quoted"]
    /\ UNCHANGED <<chainVars, payment, processVars, post, entry, open_tx>>

(* The program's tests of what the transaction carries. *)
CanOpen(c) ==
    /\ ~Exists(c)
    /\ ValidTerms(payment[c].args)
    /\ payment[c].args.deposit_micro <= wallet[ConsumerOf[c]]

(* _open_channel_from_payment awaits send_raw: the node simulates the       *)
(* transaction and sends it on, without waiting for a confirmation.         *)
SubmitOpen(c) ==
    /\ running /\ post[c] = "request"
    /\ CanOpen(c)
    /\ post' = [post EXCEPT ![c] = "submitting"]
    /\ open_tx' = [open_tx EXCEPT ![c] = "sent"]
    /\ UNCHANGED <<chainVars, consumerVars, processVars, entry>>

ActiveChannelOf(p) ==
    [session_key |-> p.session_key, deposit_micro |-> p.terms.deposit_micro,
     input_price_micro |-> p.terms.input_price_micro,
     output_price_micro |-> p.terms.output_price_micro,
     prepaid_input_micro |-> p.terms.prepaid_input_micro,
     trailing_buffer_tokens |-> p.terms.trailing_buffer,
     expires_at_ms |-> p.terms.duration_secs * 1000]

(* Variant: the producer's own prices of the moment, not the payment's. *)
RegisterAtListPrice(c) ==
    /\ running /\ post[c] = "submitting"
    /\ post' = [post EXCEPT ![c] = "acked"]
    /\ entry' = [entry EXCEPT ![c] =
           [ActiveChannelOf(payment[c]) EXCEPT
                !.output_price_micro = config.output_price_micro]]
    /\ UNCHANGED <<chainVars, consumerVars, processVars, open_tx>>

(* send_raw returns: an ActiveChannel of the header's terms, and not of the *)
(* transaction's, is registered and acknowledged.                           *)
RegisterChannel(c) ==
    /\ running /\ post[c] = "submitting"
    /\ post' = [post EXCEPT ![c] = "acked"]
    /\ entry' = [entry EXCEPT ![c] = ActiveChannelOf(payment[c])]
    /\ UNCHANGED <<chainVars, consumerVars, processVars, open_tx>>

(* The node refuses or does not answer, although it may have sent it on.    *)
SubmitRaises(c) ==
    /\ running /\ post[c] \in {"request", "submitting"}
    /\ post' = [post EXCEPT ![c] = "failed"]
    /\ UNCHANGED <<chainVars, consumerVars, processVars, entry, open_tx>>

(* A stream on the channel ends, and its settle task removes it.            *)
ForgetChannel(c) ==
    /\ running /\ entry[c] # NoEntry
    /\ entry' = [entry EXCEPT ![c] = NoEntry]
    /\ UNCHANGED <<chainVars, consumerVars, processVars, post, open_tx>>

(* Requests on their way and the registry go with the process. *)
Crash ==
    /\ running /\ restarts < MaxRestarts
    /\ running' = FALSE
    /\ restarts' = restarts + 1
    /\ post' = [c \in Channel |-> IF post[c] = "none" THEN "none" ELSE "failed"]
    /\ entry' = [c \in Channel |-> NoEntry]
    /\ UNCHANGED <<chainVars, consumerVars, config, open_tx>>

(* Perhaps with other prices. *)
Restart ==
    /\ ~running
    /\ running' = TRUE
    /\ config' \in Configs
    /\ UNCHANGED <<chainVars, consumerVars, restarts, post, entry, open_tx>>

-----------------------------------------------------------------------------
(* The cluster. *)

offChain == <<consumerVars, processVars, post, entry>>

LandOpen(c) ==
    /\ open_tx[c] = "sent"
    /\ OpenChannel(c, payment[c].session_key, payment[c].args)
    /\ open_tx' = [open_tx EXCEPT ![c] = "landed"]
    /\ UNCHANGED offChain

(* Lost, out of date, or refused when it was executed. *)
DropOpen(c) ==
    /\ open_tx[c] = "sent"
    /\ open_tx' = [open_tx EXCEPT ![c] = "dropped"]
    /\ UNCHANGED <<chainVars, offChain>>

(* The channel runs out and somebody closes it: the deposit comes back.     *)
CloseExpired(c) == Close(c) /\ UNCHANGED <<offChain, open_tx>>

TimePasses == Tick /\ UNCHANGED <<offChain, open_tx>>

-----------------------------------------------------------------------------
ConsumerStep(c) == \/ AskQuote(c) \/ ReadQuote(c) \/ SendPayment(c) \/ ReadAck(c)
                   \/ OpenSessionRaises(c)
ProducerStep(c) == \/ AnswerQuote(c) \/ SubmitOpen(c) \/ RegisterChannel(c)
                   \/ SubmitRaises(c) \/ ForgetChannel(c)
ClusterStep(c) == LandOpen(c) \/ DropOpen(c) \/ CloseExpired(c)

OpeningNext ==
    \/ \E c \in Channel : ConsumerStep(c) \/ ProducerStep(c) \/ ClusterStep(c)
    \/ Crash \/ Restart \/ TimePasses

OpeningSpec == OpeningInit /\ [][OpeningNext]_openingVars

-----------------------------------------------------------------------------
(* Properties. *)

(* Every variable has its declared shape; a call that has read a quote holds *)
(* one, and a POST that was sent carries a payment.                          *)
OpeningTypeOK ==
    /\ TypeOK
    /\ stage \in [Channel -> {"idle", "asking", "quoted", "signing", "paying",
                              "open", "refused", "raised"}]
    /\ quote \in [Channel -> Requirements \cup {NoQuote}]
    /\ payment \in [Channel -> Payment \cup {NoPayment}]
    /\ running \in BOOLEAN /\ config \in Configs /\ restarts \in 0..MaxRestarts
    /\ post \in [Channel -> {"none", "request", "submitting", "acked", "failed"}]
    /\ entry \in [Channel -> Entry \cup {NoEntry}]
    /\ open_tx \in [Channel -> {"none", "sent", "landed", "dropped"}]
    /\ \A c \in Channel :
          /\ stage[c] \in {"quoted", "signing", "paying", "open"} =>
                quote[c] # NoQuote
          /\ post[c] # "none" \/ open_tx[c] # "none" => payment[c] # NoPayment

(* What the call's own tokenizers make of its prompt. *)
LocalCounts(c) == {CountOf[t][c] : t \in Registered}

(* "no funds are ever escrowed against terms the consumer would not accept"  *)
(* (policy.py:4-6): whatever the 402 said, whoever failed and restarted in   *)
(* between, an account the Python SDK has opened is within the policy, and   *)
(* its floor is at most the policy's price for the prompt as counted by one  *)
(* of the consumer's own tokenizers.                                         *)
AuditedOnChain ==
    \A c \in Channel : Exists(c) /\ SdkOf[c] = "python" =>
        /\ channel[c].input_price_micro <= Policy.max_input_price_micro
        /\ channel[c].output_price_micro <= Policy.max_output_price_micro
        /\ channel[c].dispute_secs <= Policy.max_dispute_secs
        /\ channel[c].trailing_buffer_micro
              <= Policy.max_trailing_buffer_tokens * Policy.max_output_price_micro
        /\ Policy.verify_input_tokens =>
              \E n \in LocalCounts(c) \cup {0} :
                  channel[c].prepaid_input_micro <= n * Policy.max_input_price_micro

(* What decides how much may be paid, in two of the three that hold it. *)
SameMoney(a, b) ==
    /\ a.deposit_micro = b.deposit_micro
    /\ a.input_price_micro = b.input_price_micro
    /\ a.output_price_micro = b.output_price_micro
    /\ a.prepaid_input_micro = b.prepaid_input_micro

(* The account of the transaction's bytes, the producer's ActiveChannel of   *)
(* the header's JSON and the consumer's session of the quote, made at three  *)
(* places at three times, agree on key, deposit, prices and floor: not even  *)
(* a producer restarted under other prices, or a quote too wide for one of   *)
(* the encodings, sets them apart.                                           *)
ViewsAgree ==
    \A c \in Channel :
        /\ Exists(c) /\ entry[c] # NoEntry =>
              /\ channel[c].session_key = entry[c].session_key
              /\ SameMoney(channel[c], entry[c])
        /\ Exists(c) /\ stage[c] = "open" =>
              /\ channel[c].session_key = KeyOf[c]
              /\ SameMoney(channel[c], TermsFrom(c, quote[c]))
        /\ stage[c] = "open" /\ entry[c] # NoEntry =>
              /\ entry[c].session_key = KeyOf[c]
              /\ SameMoney(entry[c], TermsFrom(c, quote[c]))

(* The time to dispute and the buffer of an account are those its session    *)
(* was quoted, for any quote of a Python consumer and for one of a           *)
(* TypeScript consumer as far as a u32 reaches.                              *)
WindowsAsQuoted ==
    \A c \in Channel :
        Exists(c) /\ stage[c] = "open"
          /\ (SdkOf[c] = "python" \/ FitsU32(TermsFrom(c, quote[c]))) =>
              /\ channel[c].dispute_secs = quote[c].dispute_secs
              /\ channel[c].trailing_buffer_micro =
                    SaturatingMul(quote[c].trailing_buffer_tokens,
                                  quote[c].output_price_micro)

=============================================================================
