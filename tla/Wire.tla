-------------------------------- MODULE Wire --------------------------------
(***************************************************************************)
(* The terms and one commitment of a channel on their way through every    *)
(* encoding of the repository: the open_channel data of either SDK, read   *)
(* by the program; the X-PAYMENT and X-TAP-COMMIT headers; the bytes the   *)
(* session key signs, which the producer and the program each build        *)
(* again; the settle data and the Ed25519 instruction beside it; and the   *)
(* Channel account, filtered and decoded by the settler.  Writers and      *)
(* readers move field by field, each along the layout of its own source    *)
(* file, so a field out of place or of another width garbles what follows. *)
(*                                                                         *)
(* A byte is the j-th of the w bytes of a value.  Endianness and base64    *)
(* are the same on every side and are left out; so are negative numbers.   *)
(* Whether the program likes the values is TapChannel's subject.           *)
(***************************************************************************)
EXTENDS Integers, Sequences

CONSTANTS
    U32,            \* 2^32: the first number too large for four bytes
    SafeInt,        \* Number.MAX_SAFE_INTEGER, 2^53 - 1
    U64,            \* 2^64
    Terms           \* the values whose journey is followed: what the consumer
                    \* gives, and what the program computes (bumps, clock)

ASSUME WidthAssumption ==
    /\ U32 \in Nat \ {0} /\ SafeInt \in Nat /\ U64 \in Nat
    /\ U32 <= SafeInt /\ SafeInt < U64

Names == {"discriminator", "channel", "consumer", "producer", "signature",
          "nonce", "session_key", "deposit_micro", "input_price_micro",
          "output_price_micro", "prepaid_input_micro", "duration_secs",
          "dispute_secs", "trailing_buffer", "sequence", "cumulative_paid",
          "tokens_received", "timestamp_ms", "bump", "vault_bump",
          "trailing_buffer_micro", "last_sequence", "last_cumulative_paid",
          "expires_at", "settled_at", "status"}

(* What the program works out itself fits its fields. *)
Computed == {"bump", "vault_bump", "trailing_buffer_micro", "expires_at", "settled_at"}

ASSUME TermsOfNames ==
    /\ Terms \subseteq [Names -> Nat]
    /\ \A t \in Terms : \A n \in Computed \cup {"discriminator"} : t[n] < U64

-----------------------------------------------------------------------------
(* The layouts: sequences of a field's name and its width. *)

PythonOpenData == <<
    <<"discriminator", 8>>, <<"nonce", 8>>, <<"session_key", 32>>,
    <<"deposit_micro", 8>>, <<"input_price_micro", 8>>,
    <<"output_price_micro", 8>>, <<"prepaid_input_micro", 8>>,
    <<"duration_secs", 4>>, <<"dispute_secs", 4>>, <<"trailing_buffer", 4>> >>

encodeOpenChannelData == <<
    <<"discriminator", 8>>, <<"nonce", 8>>, <<"session_key", 32>>,
    <<"deposit_micro", 8>>, <<"input_price_micro", 8>>,
    <<"output_price_micro", 8>>, <<"prepaid_input_micro", 8>>,
    <<"duration_secs", 4>>, <<"dispute_secs", 4>>, <<"trailing_buffer", 4>> >>

OpenChannelArgs == <<
    <<"discriminator", 8>>, <<"nonce", 8>>, <<"session_key", 32>>,
    <<"deposit_micro", 8>>, <<"input_price_micro", 8>>,
    <<"output_price_micro", 8>>, <<"prepaid_input_micro", 8>>,
    <<"duration_secs", 4>>, <<"dispute_secs", 4>>, <<"trailing_buffer", 4>> >>

encode_commitment_bytes == <<
    <<"channel", 32>>, <<"sequence", 8>>, <<"cumulative_paid", 8>>,
    <<"tokens_received", 4>>, <<"timestamp_ms", 8>> >>

(* At the offsets 0, 32, 40, 48 and 52. *)
encodeCommitmentBytes == <<
    <<"channel", 32>>, <<"sequence", 8>>, <<"cumulative_paid", 8>>,
    <<"tokens_received", 4>>, <<"timestamp_ms", 8>> >>

(* Variant: the timestamp before the token count. *)
message_bytes_reordered == <<
    <<"channel", 32>>, <<"sequence", 8>>, <<"cumulative_paid", 8>>,
    <<"timestamp_ms", 8>>, <<"tokens_received", 4>> >>

message_bytes == <<
    <<"channel", 32>>, <<"sequence", 8>>, <<"cumulative_paid", 8>>,
    <<"tokens_received", 4>>, <<"timestamp_ms", 8>> >>

PythonSettleData ==
    << <<"discriminator", 8>> >> \o encode_commitment_bytes
        \o << <<"signature", 64>> >>

SettleArgs == <<
    <<"discriminator", 8>>, <<"channel", 32>>, <<"sequence", 8>>,
    <<"cumulative_paid", 8>>, <<"tokens_received", 4>>, <<"timestamp_ms", 8>>,
    <<"signature", 64>> >>

Channel == <<
    <<"discriminator", 8>>, <<"bump", 1>>, <<"vault_bump", 1>>, <<"nonce", 8>>,
    <<"consumer", 32>>, <<"producer", 32>>, <<"session_key", 32>>,
    <<"deposit_micro", 8>>, <<"input_price_micro", 8>>,
    <<"output_price_micro", 8>>, <<"prepaid_input_micro", 8>>,
    <<"trailing_buffer_micro", 8>>, <<"last_sequence", 8>>,
    <<"last_cumulative_paid", 8>>, <<"expires_at", 8>>, <<"settled_at", 8>>,
    <<"dispute_secs", 4>>, <<"status", 1>> >>

decode_channel == <<
    <<"discriminator", 8>>, <<"bump", 1>>, <<"vault_bump", 1>>, <<"nonce", 8>>,
    <<"consumer", 32>>, <<"producer", 32>>, <<"session_key", 32>>,
    <<"deposit_micro", 8>>, <<"input_price_micro", 8>>,
    <<"output_price_micro", 8>>, <<"prepaid_input_micro", 8>>,
    <<"trailing_buffer_micro", 8>>, <<"last_sequence", 8>>,
    <<"last_cumulative_paid", 8>>, <<"expires_at", 8>>, <<"settled_at", 8>>,
    <<"dispute_secs", 4>>, <<"status", 1>> >>

(* Channel::SIZE, the space the program allocates. *)
SIZE == 8 + 1 + 1 + 8 + 32 + 32 + 32 + 8 + 8 + 8 + 8 + 8 + 8 + 8 + 8 + 8 + 4 + 1

(* Variant: written before the vault's bump was added. *)
PRODUCER_OFFSET_OneBump == 8 + 1 + 8 + 32

PRODUCER_OFFSET == 8 + 1 + 1 + 8 + 32
STATUS_OFFSET == 8 + 1 + 1 + 8 + 32 + 32 + 32 + 8 + 8 + 8 + 8 + 8 + 8 + 8 + 8 + 8 + 4
ACCOUNT_SIZE == STATUS_OFFSET + 1

(* The accounts an instruction lists, and those its context expects in the *)
(* same places: Anchor binds them by position.                             *)
PythonOpenAccounts == <<
    "consumer", "producer", "channel", "vault", "usdc_mint", "consumer_usdc",
    "system_program", "token_program", "associated_token_program", "rent" >>
TypeScriptOpenAccounts == <<
    "consumer", "producer", "channel", "vault", "usdc_mint", "consumer_usdc",
    "system_program", "token_program", "associated_token_program", "rent" >>
OpenChannelContext == <<
    "consumer", "producer", "channel", "vault", "usdc_mint", "consumer_usdc",
    "system_program", "token_program", "associated_token_program", "rent" >>
CommitCarryingAccounts == <<
    "caller", "channel", "consumer", "producer", "instructions_sysvar" >>
SettleContext == <<
    "caller", "channel", "consumer", "producer", "instructions_sysvar" >>
CloseAccounts == <<
    "caller", "channel", "consumer", "producer", "vault", "producer_usdc",
    "consumer_usdc", "token_program" >>
CloseContext == <<
    "caller", "channel", "consumer", "producer", "vault", "producer_usdc",
    "consumer_usdc", "token_program" >>

(* The named fields of the two JSON headers; consumer_pubkey and           *)
(* trailing_buffer_tokens go by the program's names for them.              *)
WrittenPaymentKeys == {
    "consumer", "session_key", "nonce", "deposit_micro", "input_price_micro",
    "output_price_micro", "prepaid_input_micro", "duration_secs",
    "dispute_secs", "trailing_buffer" }
ReadPaymentKeys == {
    "consumer", "session_key", "nonce", "deposit_micro", "input_price_micro",
    "output_price_micro", "prepaid_input_micro", "duration_secs",
    "dispute_secs", "trailing_buffer" }
WrittenCommitKeys == {
    "channel", "sequence", "cumulative_paid", "tokens_received",
    "timestamp_ms", "signature" }
ReadCommitKeys == {
    "channel", "sequence", "cumulative_paid", "tokens_received",
    "timestamp_ms", "signature" }

(* The bigints TypeScript turns into JSON numbers, or refuses to. *)
PaymentBigints == { "nonce", "deposit_micro", "input_price_micro",
                    "output_price_micro", "prepaid_input_micro" }
CommitBigints == { "sequence", "cumulative_paid", "timestamp_ms" }

-----------------------------------------------------------------------------
Missing == -1       \* not received yet
Garbled == -2       \* bytes that are not those of one value
Active == 0
Settling == 1

VARIABLES
    sdk,            \* the consumer's SDK
    given,          \* the values at their source
    leg,            \* the encoding or decoding under way
    at,             \* the field it has come to
    buffer,         \* the bytes written
    starts,         \* history: where each field of the buffer began
    offset,         \* the reader's place in it
    told,           \* what the producer has from the two headers
    held,           \* what the program, and then the settler, has read
    signed,         \* the bytes the session key signed
    status,         \* of the Channel account
    scanner         \* the producer whose settler scans

vars == <<sdk, given, leg, at, buffer, starts, offset, told, held, signed,
          status, scanner>>

WritingLegs == {"open", "sign", "verify", "settle", "check", "account"}
ReadingLegs == {"opened", "settled", "scan"}
Ends == {"refused", "missed", "closed"}

Layout(l) ==
    CASE l = "open" -> IF sdk = "python" THEN PythonOpenData
                       ELSE encodeOpenChannelData
      [] l = "opened" -> OpenChannelArgs
      [] l = "sign" -> IF sdk = "python" THEN encode_commitment_bytes
                       ELSE encodeCommitmentBytes
      [] l = "verify" -> encode_commitment_bytes
      [] l = "settle" -> PythonSettleData
      [] l = "settled" -> SettleArgs
      [] l = "check" -> message_bytes
      [] l = "account" -> Channel
      [] l = "scan" -> decode_channel

Name(l, i) == Layout(l)[i][1]
Width(l, i) == Layout(l)[i][2]
Complete(l) == leg = l /\ at > Len(Layout(l))

(* Variant: no width. *)
WrappedNever(v, w) == v

(* What DataView stores of a number too large; a u32 or u64 has no such. *)
Wrapped(v, w) == IF w = 4 THEN v % U32 ELSE IF w = 8 THEN v % U64 ELSE v

Fits(v, w) == Wrapped(v, w) = v

Bytes(v, w) == [j \in 1..w |-> <<v, w, j>>]

(* The value of w bytes after the first o, if they are one value's. *)
Take(b, o, w) ==
    IF o + w <= Len(b) /\ \A j \in 1..w : b[o + j] = <<b[o + 1][1], w, j>>
    THEN b[o + 1][1] ELSE Garbled

(* The account as the handlers leave it; settle fills in these four.       *)
Recorded ==
    [n \in Names |->
        CASE n = "last_sequence" -> IF status = Settling THEN held["sequence"] ELSE 0
          [] n = "last_cumulative_paid" ->
                IF status = Settling THEN held["cumulative_paid"] ELSE 0
          [] n = "settled_at" -> IF status = Settling THEN held["settled_at"] ELSE 0
          [] n = "status" -> status
          [] OTHER -> held[n]]

(* Where a writer has its values from; a discriminator is a constant of it. *)
Source(l) ==
    CASE l \in {"open", "sign"} -> given
      [] l \in {"verify", "settle"} ->
            [told EXCEPT !["discriminator"] = given["discriminator"]]
      [] l = "check" -> held
      [] l = "account" -> Recorded

Encoder(l) == IF l \in {"open", "sign"} THEN sdk
              ELSE IF l \in {"verify", "settle"} THEN "python" ELSE "rust"

Init ==
    /\ sdk \in {"python", "typescript"}
    /\ given \in Terms
    /\ leg = "open" /\ at = 1
    /\ buffer = <<>> /\ starts = <<>> /\ offset = 0
    /\ told = [n \in Names |-> Missing]
    /\ held = [n \in Names |-> Missing]
    /\ signed = <<>>
    /\ status = Active
    /\ scanner = given["producer"]

-----------------------------------------------------------------------------
(* The two engines, data += ... and o += ... *)

WriteField ==
    /\ leg \in WritingLegs /\ at <= Len(Layout(leg))
    /\ LET w == Width(leg, at)
           v == Source(leg)[Name(leg, at)]
       IN  /\ Encoder(leg) = "python" => Fits(v, w)
           /\ buffer' = buffer \o Bytes(Wrapped(v, w), w)
    /\ starts' = Append(starts, Len(buffer))
    /\ at' = at + 1
    /\ UNCHANGED <<sdk, given, leg, offset, told, held, signed, status, scanner>>

Refuse ==
    /\ leg' = "refused"
    /\ UNCHANGED <<sdk, given, at, buffer, starts, offset, told, held, signed,
                   status, scanner>>

(* int.to_bytes raises OverflowError. *)
OverflowRaised ==
    /\ leg \in WritingLegs /\ at <= Len(Layout(leg))
    /\ Encoder(leg) = "python"
    /\ ~Fits(Source(leg)[Name(leg, at)], Width(leg, at))
    /\ Refuse

ReadField ==
    /\ leg \in ReadingLegs /\ at <= Len(Layout(leg))
    /\ held' = [held EXCEPT ![Name(leg, at)] = Take(buffer, offset, Width(leg, at))]
    /\ offset' = offset + Width(leg, at)
    /\ at' = at + 1
    /\ UNCHANGED <<sdk, given, leg, buffer, starts, told, signed, status, scanner>>

StartWriting(l) ==
    /\ leg' = l /\ at' = 1 /\ buffer' = <<>> /\ starts' = <<>> /\ offset' = 0

StartReading(l) ==
    /\ leg' = l /\ at' = 1 /\ offset' = 0 /\ UNCHANGED <<buffer, starts>>

-----------------------------------------------------------------------------
(* Variant: Number(value). *)
SafeUnchecked(names) == sdk \in {"python", "typescript"} /\ names \subseteq Names

(* bigintToNumber. *)
Safe(names) == sdk = "typescript" => \A n \in names : given[n] <= SafeInt

OpenAccounts == IF sdk = "python" THEN PythonOpenAccounts ELSE TypeScriptOpenAccounts

(* Sixteen bytes of counts, offsets and sizes, the key, the signature, the *)
(* message.                                                                *)
ed25519_verify_ix(public_key, signature, message) ==
    LET pk_off == 16
        sig_off == pk_off + 32
        msg_off == sig_off + 64
        ThisInstruction == 65535
    IN  Bytes(1, 1) \o Bytes(0, 1)
        \o Bytes(sig_off, 2) \o Bytes(ThisInstruction, 2)
        \o Bytes(pk_off, 2) \o Bytes(ThisInstruction, 2)
        \o Bytes(msg_off, 2) \o Bytes(Len(message), 2) \o Bytes(ThisInstruction, 2)
        \o Bytes(public_key, 32) \o Bytes(signature, 64) \o message

verify_ed25519_sibling(data, pubkey, signature, message) ==
    LET sig_off == Take(data, 2, 2)
        pk_off == Take(data, 6, 2)
        msg_off == Take(data, 10, 2)
        msg_len == Take(data, 12, 2)
    IN  /\ Len(data) >= 16 /\ Take(data, 0, 1) = 1
        /\ msg_off + msg_len <= Len(data)
        /\ Take(data, pk_off, 32) = pubkey
        /\ Take(data, sig_off, 64) = signature
        /\ SubSeq(data, msg_off + 1, msg_off + msg_len) = message

(* The producer's copy of the signed bytes against the program's. *)
SiblingVerifies ==
    verify_ed25519_sibling(
        ed25519_verify_ix(told["session_key"], told["signature"], signed),
        held["session_key"], held["signature"], buffer)

(* What is checked when a leg is complete. *)
Passes(l) ==
    CASE l = "open" -> /\ Safe(PaymentBigints)
                       /\ ReadPaymentKeys \subseteq WrittenPaymentKeys
      [] l = "opened" -> OpenAccounts = OpenChannelContext
      [] l = "account" -> Len(buffer) <= SIZE
      [] l = "sign" -> Safe(CommitBigints) /\ ReadCommitKeys \subseteq WrittenCommitKeys
      [] l = "verify" -> buffer = signed
      [] l = "settle" -> TRUE
      [] l = "settled" -> CommitCarryingAccounts = SettleContext
      [] l = "check" -> SiblingVerifies
      [] l = "scan" -> CloseAccounts = CloseContext

Rejected == leg \notin Ends /\ Complete(leg) /\ ~Passes(leg) /\ Refuse

Tell(keys) == told' = [n \in Names |-> IF n \in keys THEN given[n] ELSE told[n]]

(* The transaction is built, X-PAYMENT around it, and both are posted. *)
SendPayment ==
    /\ Complete("open") /\ Passes("open")
    /\ Tell(ReadPaymentKeys)
    /\ StartReading("opened")
    /\ UNCHANGED <<sdk, given, held, signed, status, scanner>>

ProgramOpens ==
    /\ Complete("opened") /\ Passes("opened")
    /\ held' = [n \in Names |->
                  IF n \in {"consumer", "producer"} \cup Computed THEN given[n]
                  ELSE held[n]]
    /\ StartWriting("account")
    /\ UNCHANGED <<sdk, given, told, signed, status, scanner>>

(* The consumer goes on to its first commitment. *)
StartSession ==
    /\ Complete("account") /\ Passes("account") /\ status = Active
    /\ StartWriting("sign")
    /\ UNCHANGED <<sdk, given, told, held, signed, status, scanner>>

(* sign_commitment, encode_commitment and the POST. *)
SendCommit ==
    /\ Complete("sign") /\ Passes("sign")
    /\ signed' = buffer
    /\ Tell(ReadCommitKeys)
    /\ StartWriting("verify")
    /\ UNCHANGED <<sdk, given, held, status, scanner>>

(* verify_commitment: the bytes built again are the bytes signed. *)
CommitVerified ==
    /\ Complete("verify") /\ Passes("verify")
    /\ StartWriting("settle")
    /\ UNCHANGED <<sdk, given, told, held, signed, status, scanner>>

SubmitSettle ==
    /\ Complete("settle") /\ Passes("settle")
    /\ StartReading("settled")
    /\ UNCHANGED <<sdk, given, told, held, signed, status, scanner>>

ProgramReadsSettle ==
    /\ Complete("settled") /\ Passes("settled")
    /\ StartWriting("check")
    /\ UNCHANGED <<sdk, given, told, held, signed, status, scanner>>

ProgramSettles ==
    /\ Complete("check") /\ Passes("check")
    /\ status' = Settling
    /\ StartWriting("account")
    /\ UNCHANGED <<sdk, given, told, held, signed, scanner>>

(* The memcmp filters of a settler: another producer's key or our own. *)
Selected(us) ==
    /\ Take(buffer, STATUS_OFFSET, 1) = Settling
    /\ Take(buffer, PRODUCER_OFFSET, 32) = us
    /\ SIZE >= ACCOUNT_SIZE

PollSelects ==
    /\ Complete("account") /\ Passes("account")
    /\ \E us \in {given["producer"], given["producer"] + 1} :
          Selected(us) /\ scanner' = us
    /\ StartReading("scan")
    /\ UNCHANGED <<sdk, given, told, held, signed, status>>

PollPassesOver ==
    /\ Complete("account") /\ Passes("account")
    /\ \E us \in {given["producer"], given["producer"] + 1} :
          ~Selected(us) /\ scanner' = us
    /\ leg' = "missed"
    /\ UNCHANGED <<sdk, given, at, buffer, starts, offset, told, held, signed, status>>

SubmitClose ==
    /\ Complete("scan") /\ Passes("scan")
    /\ leg' = "closed"
    /\ UNCHANGED <<sdk, given, at, buffer, starts, offset, told, held, signed,
                   status, scanner>>

Next ==
    \/ WriteField \/ OverflowRaised \/ ReadField \/ Rejected
    \/ SendPayment \/ ProgramOpens \/ StartSession
    \/ SendCommit \/ CommitVerified
    \/ SubmitSettle \/ ProgramReadsSettle \/ ProgramSettles
    \/ PollSelects \/ PollPassesOver \/ SubmitClose

Spec == Init /\ [][Next]_vars

-----------------------------------------------------------------------------
Values == Nat \cup {Missing, Garbled}

(* Every place holds a value of its kind, and no byte belongs to a number *)
(* too large for its field.                                               *)
WireTypeOK ==
    /\ sdk \in {"python", "typescript"}
    /\ given \in Terms
    /\ leg \in WritingLegs \cup ReadingLegs \cup Ends
    /\ at \in Nat \ {0} /\ offset \in Nat /\ Len(starts) < at + SIZE
    /\ \A i \in 1..Len(buffer) :
          /\ buffer[i][1] \in Nat
          /\ buffer[i][2] = 4 => buffer[i][1] < U32
          /\ buffer[i][2] = 8 => buffer[i][1] < U64
    /\ told \in [Names -> Values] /\ held \in [Names -> Values]
    /\ status \in {Active, Settling} /\ scanner \in Nat

(* The three u32 terms of an open: only TypeScript can send them wrapped. *)
SmallTerms == {"duration_secs", "dispute_secs", "trailing_buffer"}

(* What each name stands for at its source. *)
Meant(n) == CASE n = "last_sequence" -> given["sequence"]
              [] n = "last_cumulative_paid" -> given["cumulative_paid"]
              [] n = "status" -> Settling
              [] OTHER -> given[n]

(* Whatever the producer, the program and the settler have of a channel is *)
(* what the consumer gave and signed: the prices, deposit, nonce and       *)
(* commitment cross six encodings of three languages unchanged, for every  *)
(* number the code does not refuse.  Only the three u32 terms of a         *)
(* TypeScript consumer may arrive wrapped.                                 *)
ArrivesUnchanged ==
    \A n \in Names :
        /\ told[n] \in {Missing, given[n]}
        /\ \/ held[n] \in {Missing, Meant(n)}
           \/ sdk = "typescript" /\ n \in SmallTerms /\ held[n] = given[n] % U32

TooLarge(n) ==
    \/ given[n] >= U64
    \/ n \in SmallTerms \cup {"tokens_received"} /\ given[n] >= U32
    \/ sdk = "typescript" /\ n \in PaymentBigints \cup CommitBigints
          /\ given[n] > SafeInt

(* No encoding, decoding, account list or signature check stops a channel  *)
(* whose numbers fit: the only refusals are of numbers too large.          *)
FittingNeverRefused == leg = "refused" => \E n \in Names : TooLarge(n)

(* A settler selects a channel exactly when it is its own and Settling:    *)
(* its memcmp filters look at the bytes where the program puts the         *)
(* producer and the status.                                                *)
SettlerFindsItsOwn ==
    /\ leg \in {"scan", "closed"} => scanner = given["producer"] /\ status = Settling
    /\ leg = "missed" => (scanner # given["producer"] \/ status = Active)

=============================================================================
