--------------------------- MODULE Opening_proofs ---------------------------
(***************************************************************************)
(* Proofs about Opening: the copies of a channel's terms come from the one *)
(* quote that the call audited, each through an encoding of its own, and   *)
(* what the encoders let through is either the same on both sides or one   *)
(* of the three fields a TypeScript transaction wraps.  So whatever a      *)
(* Python consumer escrows has passed its audit.                           *)
(***************************************************************************)
EXTENDS Opening, TapChannel_proofs

(* A call goes on, and pays, only on an acceptable quote, and nothing can   *)
(* replace the quote once the payment is signed.                            *)
PaidAsQuoted ==
    \A c \in Channel :
        /\ stage[c] \in {"signing", "paying", "open"} \/ payment[c] # NoPayment =>
              quote[c] \in Requirements /\ Acceptable(c, quote[c])
        /\ payment[c] # NoPayment =>
              Encodable(c, quote[c]) /\ payment[c] = PaymentFor(c, quote[c])
        /\ stage[c] \in {"idle", "asking", "quoted", "signing", "refused"} =>
              payment[c] = NoPayment
        /\ stage[c] = "open" => payment[c] # NoPayment

(* An entry is made of the header it came with.                             *)
EntryAsPaid ==
    \A c \in Channel : entry[c] # NoEntry =>
        payment[c] # NoPayment /\ entry[c] = ActiveChannelOf(payment[c])

(* An account carries the arguments of the transaction it was opened by.    *)
AsArgs(account, key, t) ==
    /\ account.session_key = key
    /\ SameMoney(account, t)
    /\ account.dispute_secs = t.dispute_secs
    /\ account.trailing_buffer_micro =
          SaturatingMul(t.trailing_buffer, t.output_price_micro)

AccountAsPaid ==
    \A c \in Channel : Exists(c) =>
        /\ payment[c] # NoPayment
        /\ AsArgs(channel[c], payment[c].session_key, payment[c].args)

OInv == OpeningTypeOK /\ PaidAsQuoted /\ EntryAsPaid /\ AccountAsPaid

-----------------------------------------------------------------------------
(* Lemmas about quotes and terms. *)

(* A field keeps its value when the value fits it, and its range always.    *)
LEMMA Wraps ==
    ASSUME NEW n \in Nat, NEW m \in Nat
    PROVE  n % (m + 1) \in 0..m /\ (n <= m => n % (m + 1) = n)
OBVIOUS

(* What either encoder lets through are arguments open_channel can be given; *)
(* its u64s are the quote's, and its u32s are those that fit one.            *)
LEMMA TermsEncode ==
    ASSUME NEW c \in Channel, NEW q \in Requirements, Encodable(c, q)
    PROVE  /\ TermsFrom(c, q) \in OfferType /\ ArgsOf(c, q) \in OfferType
           /\ SameMoney(ArgsOf(c, q), TermsFrom(c, q))
           /\ SdkOf[c] = "python" => ArgsOf(c, q) = TermsFrom(c, q)
           /\ FitsU32(TermsFrom(c, q)) =>
                 /\ ArgsOf(c, q).dispute_secs = q.dispute_secs
                 /\ ArgsOf(c, q).trailing_buffer = q.trailing_buffer_tokens
<1> DEFINE t == TermsFrom(c, q)
<1>1. U64Max \in Nat /\ U32Max \in Nat /\ SafeMax \in Nat /\ SafeMax <= U64Max
    BY OpeningAssumption, ConstantsAssumption
<1>2. /\ t.deposit_micro \in Nat /\ t.input_price_micro \in Nat
      /\ t.output_price_micro \in Nat /\ t.prepaid_input_micro \in Nat
      /\ t.duration_secs \in Nat /\ t.dispute_secs \in Nat
      /\ t.trailing_buffer \in Nat
    BY <1>1, OpeningAssumption DEF TermsFrom, Requirements, U64
<1>3. t.dispute_secs = q.dispute_secs /\ t.trailing_buffer = q.trailing_buffer_tokens
    BY DEF TermsFrom
<1>4. U64sUpTo(t, U64Max)
    BY <1>1, <1>2 DEF Encodable, U64sUpTo
<1>5. t \in OfferType
    <2>1. /\ t.deposit_micro \in U64 /\ t.input_price_micro \in U64
          /\ t.output_price_micro \in U64 /\ t.prepaid_input_micro \in U64
        BY <1>1, <1>2, <1>4 DEF U64sUpTo, U64
    <2> QED
        BY <1>2, <2>1 DEF TermsFrom, OfferType
<1>6. SdkOf[c] = "python" => ArgsOf(c, q) = t
    BY DEF ArgsOf
<1>7. ASSUME SdkOf[c] # "python"
      PROVE  /\ ArgsOf(c, q) \in OfferType
             /\ SameMoney(ArgsOf(c, q), t)
             /\ FitsU32(t) => /\ ArgsOf(c, q).dispute_secs = t.dispute_secs
                              /\ ArgsOf(c, q).trailing_buffer = t.trailing_buffer
    <2> DEFINE a == ArgsOf(c, q)
    <2>1. a = [deposit_micro |-> WrapU64(t.deposit_micro),
               input_price_micro |-> WrapU64(t.input_price_micro),
               output_price_micro |-> WrapU64(t.output_price_micro),
               prepaid_input_micro |-> WrapU64(t.prepaid_input_micro),
               duration_secs |-> WrapU32(t.duration_secs),
               dispute_secs |-> WrapU32(t.dispute_secs),
               trailing_buffer |-> WrapU32(t.trailing_buffer)]
        BY <1>7 DEF ArgsOf
    <2> HIDE DEF a, t
    <2>2. \A n \in Nat : /\ WrapU64(n) \in U64 /\ (n <= U64Max => WrapU64(n) = n)
                         /\ WrapU32(n) \in Nat /\ (n <= U32Max => WrapU32(n) = n)
        BY <1>1, Wraps DEF WrapU64, WrapU32, U64
    <2>3. a \in OfferType
        BY <1>2, <2>1, <2>2 DEF OfferType
    <2>4. SameMoney(a, t)
        BY <1>2, <1>4, <2>1, <2>2 DEF SameMoney, U64sUpTo
    <2>5. FitsU32(t) => a.dispute_secs = t.dispute_secs
                        /\ a.trailing_buffer = t.trailing_buffer
        BY <1>2, <2>1, <2>2 DEF FitsU32
    <2> QED
        BY <2>3, <2>4, <2>5 DEF a
<1> HIDE DEF t
<1> QED
    BY <1>3, <1>5, <1>6, <1>7 DEF t, SameMoney

LEMMA PaymentsEncode ==
    ASSUME NEW c \in Channel, NEW q \in Requirements, Encodable(c, q)
    PROVE  PaymentFor(c, q) \in Payment
<1> QED
    BY TermsEncode, OpeningAssumption DEF PaymentFor, Payment

LEMMA EntriesFit == ASSUME NEW p \in Payment PROVE ActiveChannelOf(p) \in Entry
<1>1. p.session_key \in SessionKey /\ p.terms \in OfferType
    BY DEF Payment
<1>2. p.terms.duration_secs * 1000 \in Nat
    BY <1>1 DEF OfferType
<1> QED
    BY <1>1, <1>2 DEF ActiveChannelOf, Entry, OfferType

(* Every quote a producer of this SDK makes is a well-formed one.           *)
LEMMA QuotesAreRequirements ==
    ASSUME NEW p \in Configs, NEW c \in Channel
    PROVE  BuildRequirements(p, c) \in Requirements
<1>1. p \in Config /\ DisputeSecs \in Nat
    BY OpeningAssumption
<1>2. CountOf[p.tokenizer_id][c] \in Nat
    BY <1>1, OpeningAssumption DEF Config
<1>3. p.input_price_micro \in Nat /\ p.output_price_micro \in Nat
    BY <1>1, ConstantsAssumption DEF Config, U64
<1>4. CountOf[p.tokenizer_id][c] * p.input_price_micro \in Nat
    BY <1>2, <1>3
<1>5. p.total_session_ms \div 1000 \in Nat
    BY <1>1 DEF Config
<1> QED
    BY <1>1, <1>2, <1>3, <1>4, <1>5 DEF BuildRequirements, Requirements, Config

(* A product is at most the product of its factors' bounds.                 *)
LEMMA ProductBound ==
    ASSUME NEW a \in Nat, NEW b \in Nat, NEW A \in Nat, NEW B \in Nat, a <= A, b <= B
    PROVE  a * b <= A * B
<1>1. a * b <= A * b
    <2>1. PICK d \in Nat : A = a + d
        <3>1. A - a \in Nat /\ A = a + (A - a)
            OBVIOUS
        <3> QED
            BY <3>1
    <2>2. A * b = a * b + d * b /\ d * b \in Nat
        BY <2>1
    <2> QED
        BY <2>2
<1>2. A * b <= A * B
    <2>1. PICK d \in Nat : B = b + d
        <3>1. B - b \in Nat /\ B = b + (B - b)
            OBVIOUS
        <3> QED
            BY <3>1
    <2>2. A * B = A * b + A * d /\ A * d \in Nat
        BY <2>1
    <2> QED
        BY <2>2
<1>3. a * b \in Nat /\ A * b \in Nat /\ A * B \in Nat
    OBVIOUS
<1> QED
    BY <1>1, <1>2, <1>3

(* What the Python audit establishes of the terms made from a quote.        *)
LEMMA AuditEstablishes ==
    ASSUME NEW c \in Channel, NEW q \in Requirements, Acceptable(c, q),
           SdkOf[c] = "python"
    PROVE  /\ q.input_price_micro <= Policy.max_input_price_micro
           /\ q.output_price_micro <= Policy.max_output_price_micro
           /\ q.dispute_secs <= Policy.max_dispute_secs
           /\ SaturatingMul(q.trailing_buffer_tokens, q.output_price_micro)
                 <= Policy.max_trailing_buffer_tokens * Policy.max_output_price_micro
           /\ Policy.verify_input_tokens =>
                 \E n \in LocalCounts(c) \cup {0} :
                    q.prepaid_input_micro <= n * Policy.max_input_price_micro
<1>1. /\ q.trailing_buffer_tokens \in Nat /\ q.output_price_micro \in Nat
      /\ q.input_price_micro \in Nat /\ q.input_token_count \in Nat
      /\ q.prepaid_input_micro \in Nat /\ q.tokenizer_id \in Tokenizer
    BY DEF Requirements
<1>2. /\ Policy.max_trailing_buffer_tokens \in Nat
      /\ Policy.max_output_price_micro \in Nat /\ Policy.max_input_price_micro \in Nat
    BY OpeningAssumption
<1>3. Audit(q) /\ VerifyPromptTokens(q, c)
    BY DEF Acceptable
<1>4. q.trailing_buffer_tokens * q.output_price_micro
         <= Policy.max_trailing_buffer_tokens * Policy.max_output_price_micro
    BY <1>1, <1>2, <1>3, ProductBound DEF Audit, WithinPolicy
<1>5. SaturatingMul(q.trailing_buffer_tokens, q.output_price_micro)
         <= q.trailing_buffer_tokens * q.output_price_micro
    <2>1. q.trailing_buffer_tokens * q.output_price_micro \in Nat /\ U64Max \in Nat
        BY <1>1, ConstantsAssumption
    <2> QED
        BY <2>1 DEF SaturatingMul
<1>6. SaturatingMul(q.trailing_buffer_tokens, q.output_price_micro)
         <= Policy.max_trailing_buffer_tokens * Policy.max_output_price_micro
    <2>1. /\ q.trailing_buffer_tokens * q.output_price_micro \in Nat
          /\ Policy.max_trailing_buffer_tokens * Policy.max_output_price_micro \in Nat
          /\ SaturatingMul(q.trailing_buffer_tokens, q.output_price_micro) \in Nat
        BY <1>1, <1>2, ConstantsAssumption DEF SaturatingMul
    <2> QED
        BY <1>4, <1>5, <2>1
<1>7. q.prepaid_input_micro <= q.input_token_count * Policy.max_input_price_micro
    <2>1. q.input_token_count * q.input_price_micro
             <= q.input_token_count * Policy.max_input_price_micro
        BY <1>1, <1>2, <1>3, ProductBound DEF Audit, WithinPolicy
    <2> QED
        BY <1>3, <2>1 DEF Audit
<1>8. ASSUME Policy.verify_input_tokens
      PROVE  q.input_token_count \in LocalCounts(c) \cup {0}
    BY <1>3, <1>8 DEF VerifyPromptTokens, LocalCounts
<1> QED
    BY <1>3, <1>6, <1>7, <1>8 DEF Audit, WithinPolicy

-----------------------------------------------------------------------------
(* The invariant, one part at a time. *)

LEMMA InitOInv == OpeningInit => OInv
<1> SUFFICES ASSUME OpeningInit PROVE OInv
    OBVIOUS
<1>1. TypeOK /\ \A c \in Channel : ~Exists(c)
    BY InitIInv DEF OpeningInit, IInv, Init, Exists
<1>2. OpeningTypeOK
    BY <1>1, OpeningAssumption DEF OpeningInit, OpeningTypeOK
<1> QED
    BY <1>1, <1>2 DEF OpeningInit, OInv, PaidAsQuoted, EntryAsPaid, AccountAsPaid

(* What every step but those on the chain does to the chain: nothing.       *)
LEMMA OffChainSteps ==
    ASSUME NEW c \in Channel, ConsumerStep(c) \/ ProducerStep(c) \/ Crash \/ Restart
    PROVE  UNCHANGED vars
<1> QED
    BY DEF ConsumerStep, ProducerStep, AskQuote, ReadQuote, SendPayment, ReadAck,
           OpenSessionRaises, AnswerQuote, SubmitOpen, RegisterChannel, SubmitRaises,
           ForgetChannel, Crash, Restart, chainVars

(* The transaction lands: the account of the payment's terms appears.       *)
LEMMA LandEffect ==
    ASSUME OInv, NEW c \in Channel, LandOpen(c)
    PROVE  /\ TypeOK'
           /\ channel'[c] = OpenedAccount(payment[c].session_key, payment[c].args)
           /\ \A d \in Channel \ {c} : channel'[d] = channel[d]
           /\ payment[c] \in Payment
<1> DEFINE key == payment[c].session_key
           t == payment[c].args
<1>1. payment[c] \in Payment
    BY DEF LandOpen, OInv, OpeningTypeOK
<1>2. key \in SessionKey /\ t \in OfferType
    BY <1>1 DEF Payment
<1>3. SaturatingMul(t.trailing_buffer, t.output_price_micro) \in U64
    BY <1>2, ConstantsAssumption DEF SaturatingMul, OfferType, U64
<1>4. TypeOK
    BY DEF OInv, OpeningTypeOK
<1>5. OpenedAccount(key, t) \in ChannelType
    BY <1>2, <1>3, <1>4, ConstantsAssumption
    DEF OpenedAccount, OfferType, ChannelType, TypeOK, U64
<1>6. /\ t.deposit_micro \in Nat /\ ConsumerOf[c] \in Wallet
      /\ t.deposit_micro <= wallet[ConsumerOf[c]]
    BY <1>2, ConstantsAssumption DEF OfferType, U64, LandOpen, OpenChannel
<1>7. wallet' \in [Wallet -> Nat]
    <2>1. wallet[ConsumerOf[c]] - t.deposit_micro \in Nat
        BY <1>4, <1>6 DEF TypeOK
    <2> QED
        BY <1>4, <1>6, <2>1 DEF LandOpen, OpenChannel, TypeOK
<1>8. vault' \in [Channel -> Nat] /\ now' \in 0..MaxTime
    BY <1>4, <1>6 DEF LandOpen, OpenChannel, TypeOK
<1>9. channel' = [channel EXCEPT ![c] = OpenedAccount(key, t)]
    BY DEF LandOpen, OpenChannel
<1> QED
    BY <1>1, <1>4, <1>5, <1>7, <1>8, <1>9 DEF TypeOK

(* A close removes the one account.                                         *)
LEMMA CloseEffect ==
    ASSUME OInv, NEW c \in Channel, CloseExpired(c)
    PROVE  /\ TypeOK'
           /\ channel'[c] = NoAccount
           /\ \A d \in Channel \ {c} : channel'[d] = channel[d]
<1>1. TypeOK
    BY DEF OInv, OpeningTypeOK
<1>2. channel[c] \in ChannelType
    BY <1>1 DEF CloseExpired, Close, CloseAllowed, InStatus, Exists, TypeOK
<1>3. PaidAtClose(c) \in Nat /\ RefundAtClose(c) \in Nat
    BY <1>2, ConstantsAssumption
    DEF PaidAtClose, RefundAtClose, SaturatingSub, ChannelType, U64
<1>4. wallet' \in [Wallet -> Nat]
    BY <1>1, <1>3, CreditType, ConstantsAssumption DEF CloseExpired, Close, TypeOK
<1> QED
    BY <1>1, <1>4 DEF CloseExpired, Close, TypeOK

LEMMA ChainTypeStep ==
    ASSUME OInv, OpeningNext
    PROVE  TypeOK'
<1>0. TypeOK
    BY DEF OInv, OpeningTypeOK
<1>1. ASSUME NEW c \in Channel, LandOpen(c) \/ CloseExpired(c) PROVE TypeOK'
    BY <1>1, LandEffect, CloseEffect
<1>2. CASE TimePasses
    BY <1>0, <1>2, ConstantsAssumption DEF TimePasses, Tick, TypeOK
<1>3. CASE UNCHANGED vars
    BY <1>0, <1>3 DEF vars, TypeOK
<1>4. ASSUME NEW c \in Channel, DropOpen(c) PROVE UNCHANGED vars
    BY <1>4 DEF DropOpen, chainVars
<1>5. CASE Crash \/ Restart
    BY <1>3, <1>5 DEF Crash, Restart, chainVars
<1> QED
    BY <1>1, <1>2, <1>3, <1>4, <1>5, OffChainSteps DEF OpeningNext, ClusterStep

LEMMA OpeningTypeStep ==
    ASSUME OInv, OpeningNext
    PROVE  OpeningTypeOK'
<1>0. TypeOK'
    BY ChainTypeStep
<1> USE DEF OInv, OpeningTypeOK
<1>1. ASSUME NEW c \in Channel,
             AskQuote(c) \/ ReadQuote(c) \/ ReadAck(c) \/ OpenSessionRaises(c)
      PROVE  OpeningTypeOK'
    BY <1>0, <1>1 DEF AskQuote, ReadQuote, ReadAck, OpenSessionRaises, processVars,
                      PaidAsQuoted
<1>2. ASSUME NEW c \in Channel, SendPayment(c) PROVE OpeningTypeOK'
    <2>1. PaymentFor(c, quote[c]) \in Payment
        BY <1>2, PaymentsEncode DEF SendPayment, PaidAsQuoted
    <2> QED
        BY <1>0, <1>2, <2>1, OpeningAssumption DEF SendPayment, processVars
<1>3. ASSUME NEW c \in Channel, AnswerQuote(c) PROVE OpeningTypeOK'
    <2>1. PICK q \in Requirements : quote' = [quote EXCEPT ![c] = q]
        BY <1>3, QuotesAreRequirements, OpeningAssumption DEF AnswerQuote
    <2> QED
        BY <1>0, <1>3, <2>1, OpeningAssumption DEF AnswerQuote, processVars
<1>4. ASSUME NEW c \in Channel,
             SubmitOpen(c) \/ RegisterChannel(c) \/ SubmitRaises(c) \/ ForgetChannel(c)
      PROVE  OpeningTypeOK'
    <2>1. RegisterChannel(c) => ActiveChannelOf(payment[c]) \in Entry
        BY EntriesFit DEF RegisterChannel
    <2> QED
        BY <1>0, <1>4, <2>1 DEF SubmitOpen, RegisterChannel, SubmitRaises,
                                ForgetChannel, consumerVars, processVars
<1>5. CASE Crash
    <2>1. /\ post' \in [Channel -> {"none", "request", "submitting", "acked", "failed"}]
          /\ \A c \in Channel : post'[c] # "none" => post[c] # "none"
        BY <1>5 DEF Crash
    <2>2. restarts' \in 0..MaxRestarts
        BY <1>5, OpeningAssumption DEF Crash
    <2>3. entry' \in [Channel -> Entry \cup {NoEntry}]
        BY <1>5 DEF Crash
    <2>4. running' \in BOOLEAN /\ UNCHANGED <<stage, quote, payment, config, open_tx>>
        BY <1>5 DEF Crash, consumerVars
    <2> QED
        BY <1>0, <2>1, <2>2, <2>3, <2>4
<1>6. CASE Restart
    BY <1>0, <1>6 DEF Restart, consumerVars
<1>7. ASSUME NEW c \in Channel, LandOpen(c) \/ DropOpen(c) \/ CloseExpired(c)
      PROVE  OpeningTypeOK'
    BY <1>0, <1>7 DEF LandOpen, DropOpen, CloseExpired, offChain, consumerVars,
                      processVars
<1>8. CASE TimePasses
    BY <1>0, <1>8 DEF TimePasses, offChain, consumerVars, processVars
<1> QED
    BY <1>1, <1>2, <1>3, <1>4, <1>5, <1>6, <1>7, <1>8
    DEF OpeningNext, ConsumerStep, ProducerStep, ClusterStep

LEMMA PaidStep ==
    ASSUME OInv, OpeningNext
    PROVE  PaidAsQuoted'
<1> USE DEF OInv, OpeningTypeOK, PaidAsQuoted
<1>1. ASSUME NEW c \in Channel,
             AskQuote(c) \/ ReadAck(c) \/ OpenSessionRaises(c)
      PROVE  PaidAsQuoted'
    BY <1>1 DEF AskQuote, ReadAck, OpenSessionRaises
<1>2. ASSUME NEW c \in Channel, ReadQuote(c) PROVE PaidAsQuoted'
    BY <1>2 DEF ReadQuote
<1>3. ASSUME NEW c \in Channel, SendPayment(c) PROVE PaidAsQuoted'
    BY <1>3 DEF SendPayment
<1>4. ASSUME NEW c \in Channel, AnswerQuote(c) PROVE PaidAsQuoted'
    <2>1. PICK q : quote' = [quote EXCEPT ![c] = q]
        BY <1>4 DEF AnswerQuote
    <2>2. payment[c] = NoPayment /\ stage'[c] = "quoted"
        BY <1>4 DEF AnswerQuote
    <2> QED
        BY <1>4, <2>1, <2>2 DEF AnswerQuote
<1>5. CASE UNCHANGED consumerVars
    BY <1>5 DEF consumerVars
<1>6. ASSUME \/ \E c \in Channel : \/ SubmitOpen(c) \/ RegisterChannel(c)
                                   \/ SubmitRaises(c) \/ ForgetChannel(c)
                                   \/ ClusterStep(c)
             \/ Crash \/ Restart \/ TimePasses
      PROVE  UNCHANGED consumerVars
    BY <1>6 DEF SubmitOpen, RegisterChannel, SubmitRaises, ForgetChannel, ClusterStep,
                LandOpen, DropOpen, CloseExpired, Crash, Restart, TimePasses, offChain
<1> QED
    BY <1>1, <1>2, <1>3, <1>4, <1>5, <1>6 DEF OpeningNext, ConsumerStep, ProducerStep

LEMMA EntryStep ==
    ASSUME OInv, OpeningNext
    PROVE  EntryAsPaid'
<1> USE DEF OInv, OpeningTypeOK, EntryAsPaid
<1>1. ASSUME NEW c \in Channel, SendPayment(c) PROVE EntryAsPaid'
    <2>1. payment[c] = NoPayment
        BY <1>1 DEF SendPayment, PaidAsQuoted
    <2>2. entry[c] = NoEntry
        BY <2>1
    <2> QED
        BY <1>1, <2>2 DEF SendPayment
<1>2. ASSUME NEW c \in Channel,
             AskQuote(c) \/ ReadQuote(c) \/ ReadAck(c) \/ OpenSessionRaises(c)
                \/ AnswerQuote(c)
      PROVE  EntryAsPaid'
    BY <1>2 DEF AskQuote, ReadQuote, ReadAck, OpenSessionRaises, AnswerQuote
<1>3. ASSUME NEW c \in Channel, SubmitOpen(c) PROVE EntryAsPaid'
    BY <1>3 DEF SubmitOpen, consumerVars
<1>4. ASSUME NEW c \in Channel, RegisterChannel(c) PROVE EntryAsPaid'
    BY <1>4 DEF RegisterChannel, consumerVars
<1>5. ASSUME NEW c \in Channel, SubmitRaises(c) \/ ForgetChannel(c)
      PROVE  EntryAsPaid'
    BY <1>5 DEF SubmitRaises, ForgetChannel, consumerVars
<1>6. CASE Crash
    BY <1>6 DEF Crash, consumerVars
<1>7. ASSUME \/ Restart \/ TimePasses
             \/ \E c \in Channel : ClusterStep(c)
      PROVE  EntryAsPaid'
    BY <1>7 DEF Restart, TimePasses, ClusterStep, LandOpen, DropOpen, CloseExpired,
                offChain, consumerVars
<1> QED
    BY <1>1, <1>2, <1>3, <1>4, <1>5, <1>6, <1>7
    DEF OpeningNext, ConsumerStep, ProducerStep

LEMMA AccountStep ==
    ASSUME OInv, OpeningNext
    PROVE  AccountAsPaid'
<1> USE DEF OInv, OpeningTypeOK, AccountAsPaid
<1>1. ASSUME NEW c \in Channel, LandOpen(c) PROVE AccountAsPaid'
    <2>1. payment' = payment /\ payment[c] # NoPayment
        BY <1>1 DEF LandOpen, offChain, consumerVars
    <2>2. /\ channel'[c] = OpenedAccount(payment[c].session_key, payment[c].args)
          /\ \A d \in Channel \ {c} : channel'[d] = channel[d]
        BY <1>1, LandEffect
    <2>3. AsArgs(channel'[c], payment[c].session_key, payment[c].args)
        BY <2>2 DEF OpenedAccount, AsArgs, SameMoney
    <2>4. \A d \in Channel : Exists(d)' <=> channel'[d] # NoAccount
        BY DEF Exists
    <2> QED
        BY <2>1, <2>2, <2>3, <2>4 DEF Exists, AsArgs, SameMoney, SaturatingMul
<1>2. ASSUME NEW c \in Channel, CloseExpired(c) PROVE AccountAsPaid'
    <2>1. payment' = payment
        BY <1>2 DEF CloseExpired, offChain, consumerVars
    <2> QED
        BY <1>2, <2>1, CloseEffect DEF Exists, AsArgs, SameMoney, SaturatingMul
<1>3. ASSUME UNCHANGED channel,
             \A c \in Channel : payment[c] # NoPayment => payment'[c] = payment[c]
      PROVE  AccountAsPaid'
    BY <1>3 DEF Exists, AsArgs, SameMoney, SaturatingMul
<1>4. ASSUME NEW c \in Channel, SendPayment(c) PROVE AccountAsPaid'
    <2>1. payment[c] = NoPayment
        BY <1>4 DEF SendPayment, PaidAsQuoted
    <2> QED
        BY <1>3, <1>4, <2>1 DEF SendPayment, chainVars, vars
<1>5. ASSUME NEW c \in Channel,
             \/ AskQuote(c) \/ ReadQuote(c) \/ ReadAck(c) \/ OpenSessionRaises(c)
             \/ ProducerStep(c) \/ DropOpen(c)
      PROVE  AccountAsPaid'
    BY <1>3, <1>5 DEF AskQuote, ReadQuote, ReadAck, OpenSessionRaises, ProducerStep,
                      AnswerQuote, SubmitOpen, RegisterChannel, SubmitRaises,
                      ForgetChannel, DropOpen, consumerVars, offChain, chainVars, vars
<1>6. CASE Crash \/ Restart \/ TimePasses
    BY <1>3, <1>6 DEF Crash, Restart, TimePasses, Tick, consumerVars, offChain,
                      chainVars, vars
<1> QED
    BY <1>1, <1>2, <1>4, <1>5, <1>6 DEF OpeningNext, ConsumerStep, ClusterStep

LEMMA NextOInv == OInv /\ [OpeningNext]_openingVars => OInv'
<1> SUFFICES ASSUME OInv, [OpeningNext]_openingVars PROVE OInv'
    OBVIOUS
<1>1. CASE OpeningNext
    BY <1>1, OpeningTypeStep, PaidStep, EntryStep, AccountStep DEF OInv
<1>2. CASE UNCHANGED openingVars
    BY <1>2 DEF openingVars, chainVars, vars, consumerVars, processVars, OInv,
                OpeningTypeOK, TypeOK, PaidAsQuoted, EntryAsPaid, AccountAsPaid,
                AsArgs, SameMoney, SaturatingMul, Exists
<1> QED
    BY <1>1, <1>2

-----------------------------------------------------------------------------
(* The theorems. *)

(* The inductive invariant of consumer, producer and chain during the       *)
(* handshake, whoever fails and restarts in it.                             *)
THEOREM OpeningInvariance == OpeningSpec => []OInv
<1> QED
    BY InitOInv, NextOInv, PTL DEF OpeningSpec

(* Every variable of the handshake keeps its declared shape; above all no   *)
(* argument of open_channel leaves the range of a u64.                      *)
THEOREM OpeningTyped == OpeningSpec => []OpeningTypeOK
<1>1. OInv => OpeningTypeOK
    BY DEF OInv
<1> QED
    BY <1>1, OpeningInvariance, PTL

(* What a payment is made of, and an account opened by it.                  *)
LEMMA PaymentParts ==
    ASSUME OInv, NEW c \in Channel, payment[c] # NoPayment
    PROVE  /\ quote[c] \in Requirements /\ Acceptable(c, quote[c])
           /\ Encodable(c, quote[c])
           /\ payment[c].session_key = KeyOf[c]
           /\ payment[c].terms = TermsFrom(c, quote[c])
           /\ payment[c].args = ArgsOf(c, quote[c])
<1>1. payment[c] = PaymentFor(c, quote[c])
    BY DEF OInv, PaidAsQuoted
<1>2. quote[c] \in Requirements /\ Acceptable(c, quote[c]) /\ Encodable(c, quote[c])
    BY DEF OInv, PaidAsQuoted
<1> QED
    BY <1>1, <1>2 DEF PaymentFor

LEMMA AccountParts ==
    ASSUME OInv, NEW c \in Channel, Exists(c)
    PROVE  /\ payment[c] # NoPayment
           /\ AsArgs(channel[c], KeyOf[c], ArgsOf(c, quote[c]))
           /\ SameMoney(channel[c], TermsFrom(c, quote[c]))
<1>1. /\ payment[c] # NoPayment
      /\ AsArgs(channel[c], payment[c].session_key, payment[c].args)
    BY DEF OInv, AccountAsPaid
<1>2. AsArgs(channel[c], KeyOf[c], ArgsOf(c, quote[c]))
    BY <1>1, PaymentParts
<1>3. SameMoney(ArgsOf(c, quote[c]), TermsFrom(c, quote[c]))
    BY <1>1, PaymentParts, TermsEncode
<1> QED
    BY <1>1, <1>2, <1>3 DEF AsArgs, SameMoney

(* No account of the Python SDK's is ever outside the consumer's policy.    *)
THEOREM AuditedBeforeEscrow == OpeningSpec => []AuditedOnChain
<1>1. ASSUME OInv PROVE AuditedOnChain
    <2> SUFFICES ASSUME NEW c \in Channel, Exists(c), SdkOf[c] = "python"
                 PROVE  /\ channel[c].input_price_micro <= Policy.max_input_price_micro
                        /\ channel[c].output_price_micro <= Policy.max_output_price_micro
                        /\ channel[c].dispute_secs <= Policy.max_dispute_secs
                        /\ channel[c].trailing_buffer_micro
                              <= Policy.max_trailing_buffer_tokens
                                 * Policy.max_output_price_micro
                        /\ Policy.verify_input_tokens =>
                              \E n \in LocalCounts(c) \cup {0} :
                                 channel[c].prepaid_input_micro
                                    <= n * Policy.max_input_price_micro
        BY DEF AuditedOnChain
    <2> DEFINE q == quote[c]
    <2>1. q \in Requirements /\ Acceptable(c, q) /\ Encodable(c, q)
        BY <1>1, AccountParts, PaymentParts
    <2>2. AsArgs(channel[c], KeyOf[c], TermsFrom(c, q))
        BY <1>1, <2>1, AccountParts, TermsEncode
    <2>3. /\ channel[c].input_price_micro = q.input_price_micro
          /\ channel[c].output_price_micro = q.output_price_micro
          /\ channel[c].dispute_secs = q.dispute_secs
          /\ channel[c].prepaid_input_micro = q.prepaid_input_micro
          /\ channel[c].trailing_buffer_micro =
                SaturatingMul(q.trailing_buffer_tokens, q.output_price_micro)
        BY <2>2 DEF AsArgs, SameMoney, TermsFrom
    <2> HIDE DEF q
    <2> QED
        BY <2>1, <2>3, AuditEstablishes
<1> QED
    BY <1>1, OpeningInvariance, PTL

(* Account, ActiveChannel and session are of the same money: the encoders   *)
(* raise before a wrapped u64 leaves, and an entry is made of the header.   *)
THEOREM TermsAgree == OpeningSpec => []ViewsAgree
<1>1. ASSUME OInv PROVE ViewsAgree
    <2> SUFFICES ASSUME NEW c \in Channel
                 PROVE  /\ Exists(c) /\ entry[c] # NoEntry =>
                              /\ channel[c].session_key = entry[c].session_key
                              /\ SameMoney(channel[c], entry[c])
                        /\ Exists(c) /\ stage[c] = "open" =>
                              /\ channel[c].session_key = KeyOf[c]
                              /\ SameMoney(channel[c], TermsFrom(c, quote[c]))
                        /\ stage[c] = "open" /\ entry[c] # NoEntry =>
                              /\ entry[c].session_key = KeyOf[c]
                              /\ SameMoney(entry[c], TermsFrom(c, quote[c]))
        BY DEF ViewsAgree
    <2>1. Exists(c) => /\ channel[c].session_key = KeyOf[c]
                       /\ SameMoney(channel[c], TermsFrom(c, quote[c]))
        BY <1>1, AccountParts DEF AsArgs
    <2>2. ASSUME entry[c] # NoEntry
          PROVE  /\ entry[c].session_key = KeyOf[c]
                 /\ SameMoney(entry[c], TermsFrom(c, quote[c]))
        <3>1. payment[c] # NoPayment /\ entry[c] = ActiveChannelOf(payment[c])
            BY <1>1, <2>2 DEF OInv, EntryAsPaid
        <3>2. /\ payment[c].session_key = KeyOf[c]
              /\ payment[c].terms = TermsFrom(c, quote[c])
            BY <1>1, <3>1, PaymentParts
        <3> QED
            BY <3>1, <3>2 DEF ActiveChannelOf, SameMoney
    <2> QED
        BY <2>1, <2>2 DEF SameMoney
<1> QED
    BY <1>1, OpeningInvariance, PTL

(* Dispute time and buffer are the quoted ones: of a Python consumer always, *)
(* of a TypeScript consumer when the quote fits the fields.                  *)
THEOREM WindowsHold == OpeningSpec => []WindowsAsQuoted
<1>1. ASSUME OInv PROVE WindowsAsQuoted
    <2> SUFFICES ASSUME NEW c \in Channel, Exists(c),
                        SdkOf[c] = "python" \/ FitsU32(TermsFrom(c, quote[c]))
                 PROVE  /\ channel[c].dispute_secs = quote[c].dispute_secs
                        /\ channel[c].trailing_buffer_micro =
                              SaturatingMul(quote[c].trailing_buffer_tokens,
                                            quote[c].output_price_micro)
        BY DEF WindowsAsQuoted
    <2> DEFINE q == quote[c]
               a == ArgsOf(c, q)
    <2>1. q \in Requirements /\ Encodable(c, q)
        BY <1>1, AccountParts, PaymentParts
    <2>2. AsArgs(channel[c], KeyOf[c], a)
        BY <1>1, AccountParts
    <2>3. SameMoney(a, TermsFrom(c, q))
        BY <2>1, TermsEncode
    <2>4. a.output_price_micro = q.output_price_micro
        BY <2>3 DEF SameMoney, TermsFrom
    <2>5. a.dispute_secs = q.dispute_secs /\ a.trailing_buffer = q.trailing_buffer_tokens
        <3>1. FitsU32(TermsFrom(c, q)) =>
                 a.dispute_secs = q.dispute_secs
                 /\ a.trailing_buffer = q.trailing_buffer_tokens
            BY <2>1, TermsEncode
        <3>2. SdkOf[c] = "python" => a = TermsFrom(c, q)
            BY <2>1, TermsEncode
        <3>3. /\ TermsFrom(c, q).dispute_secs = q.dispute_secs
              /\ TermsFrom(c, q).trailing_buffer = q.trailing_buffer_tokens
            BY DEF TermsFrom
        <3> HIDE DEF a, q
        <3>4. SdkOf[c] = "python" \/ FitsU32(TermsFrom(c, q))
            BY DEF q
        <3> QED
            BY <3>1, <3>2, <3>3, <3>4
    <2> HIDE DEF a, q
    <2> QED
        BY <2>2, <2>4, <2>5 DEF AsArgs, q
<1> QED
    BY <1>1, OpeningInvariance, PTL

(* The handshake runs the program: when Offers is every argument record,    *)
(* each of its behaviours is, on the chain's variables, one of TapChannel.  *)
THEOREM OpeningRunsTheProgram == Offers = OfferType => (OpeningSpec => Spec)
<1> SUFFICES ASSUME Offers = OfferType PROVE OpeningSpec => Spec
    OBVIOUS
<1>1. OpeningInit => Init
    BY DEF OpeningInit
<1>2. ASSUME OInv, [OpeningNext]_openingVars PROVE [Next]_vars
    <2>1. ASSUME NEW c \in Channel, LandOpen(c) PROVE Next
        <3>1. payment[c] \in Payment
            BY <1>2, <2>1, LandEffect
        <3> QED
            BY <1>2, <2>1, <3>1 DEF LandOpen, Payment, Next
    <2>2. ASSUME NEW c \in Channel, CloseExpired(c) PROVE Next
        BY <2>2 DEF CloseExpired, Next
    <2>3. CASE TimePasses
        BY <2>3 DEF TimePasses, Next
    <2>4. ASSUME NEW c \in Channel, DropOpen(c) PROVE UNCHANGED vars
        BY <2>4 DEF DropOpen, chainVars
    <2>5. ASSUME Crash \/ Restart PROVE UNCHANGED vars
        BY <2>5 DEF Crash, Restart, chainVars
    <2>6. CASE UNCHANGED openingVars
        BY <2>6 DEF openingVars, chainVars
    <2> QED
        BY <1>2, <2>1, <2>2, <2>3, <2>4, <2>5, <2>6, OffChainSteps
        DEF OpeningNext, ClusterStep
<1> QED
    BY <1>1, <1>2, OpeningInvariance, PTL DEF OpeningSpec, Spec

(* So the escrow's promise holds of what the handshakes open: whatever fails *)
(* or restarts on the way, a deposit is locked whole and released once.      *)
THEOREM OpeningImplementsEscrow == Offers = OfferType => (OpeningSpec => ImplementsEscrow)
<1> SUFFICES ASSUME Offers = OfferType PROVE OpeningSpec => ImplementsEscrow
    OBVIOUS
<1>1. OpeningSpec => Spec
    BY OpeningRunsTheProgram
<1> QED
    BY <1>1, Refinement, PTL

(* However often an open is sent again, no USDC is created or lost.         *)
THEOREM OpeningConservesMoney == Offers = OfferType => (OpeningSpec => []MoneyConserved)
<1> SUFFICES ASSUME Offers = OfferType PROVE OpeningSpec => []MoneyConserved
    OBVIOUS
<1>1. OpeningSpec => Spec
    BY OpeningRunsTheProgram
<1> QED
    BY <1>1, NothingCreatedOrLost, PTL
=============================================================================
