----------------------------- MODULE TapChannel -----------------------------
(***************************************************************************)
(* The on-chain settlement program, programs/tap: the instructions         *)
(* open_channel, settle, dispute and close over a set of channel accounts, *)
(* their USDC vaults, the parties' token accounts and the cluster clock.   *)
(*                                                                         *)
(* A transaction is atomic, so every instruction is one action; one whose  *)
(* `require!` fails changes nothing and is not a step.  Anyone may send    *)
(* any of the three permissionless instructions and may present any        *)
(* commitment; only `signer` says which key signed it.                     *)
(*                                                                         *)
(* A definition headed "Variant" belongs to no specification: it is the    *)
(* form a slip in the code would give the definition below it, kept to     *)
(* show that the properties notice the difference.                         *)
(***************************************************************************)
EXTENDS Integers, FiniteSetsExt

CONSTANTS
    Channel,        \* channel PDAs, each of one (consumer, producer, nonce)
    Wallet,         \* USDC token accounts of the parties
    ConsumerOf,     \* [Channel -> Wallet]: in the PDA's seeds
    ProducerOf,     \* [Channel -> Wallet]: in the PDA's seeds
    SessionKey,     \* ed25519 public keys
    Offers,         \* argument records open_channel is called with
    U64Max,         \* largest u64
    MaxDuration, MaxDispute, MaxTrailing,  \* constants.rs
    Balances,       \* [Wallet -> Nat]: initial token balances
    MaxTime,        \* BOUND on the clock
    NoAccount       \* an address at which no channel account exists

U64 == 0..U64Max

(* The arguments of open_channel that matter to the program's state. *)
OfferType ==
    [deposit_micro : U64, input_price_micro : U64, output_price_micro : U64,
     prepaid_input_micro : U64, duration_secs : Nat, dispute_secs : Nat,
     trailing_buffer : Nat]

ChannelType ==
    [status : {"Active", "Settling"}, session_key : SessionKey,
     deposit_micro : U64, input_price_micro : U64, output_price_micro : U64,
     prepaid_input_micro : U64, trailing_buffer_micro : U64, last_sequence : U64,
     last_cumulative_paid : U64, expires_at : Nat, settled_at : Nat,
     dispute_secs : Nat]

(* A CommitMessage with the key that signed it. *)
Commitment == [channel : Channel, sequence : U64, cumulative_paid : U64,
               signer : SessionKey]

ASSUME ConstantsAssumption ==
    /\ U64Max \in Nat /\ MaxTime \in Nat
    /\ MaxDuration \in Nat /\ MaxDispute \in Nat /\ MaxTrailing \in Nat
    /\ ConsumerOf \in [Channel -> Wallet] /\ ProducerOf \in [Channel -> Wallet]
    /\ Balances \in [Wallet -> Nat]
    /\ Offers \subseteq OfferType
    /\ NoAccount \notin ChannelType

(* A cluster holds finitely many accounts. *)
ASSUME AccountsAssumption == IsFiniteSet(Channel) /\ IsFiniteSet(Wallet)

VARIABLES
    now,        \* Clock::get().unix_timestamp
    channel,    \* [Channel -> account or NoAccount]
    vault,      \* [Channel -> Nat]: balance of the channel's vault PDA
    wallet      \* [Wallet -> Nat]

vars == <<now, channel, vault, wallet>>

-----------------------------------------------------------------------------
(* State helpers. *)

(* Variant: the product is not cut to a u64. *)
UnboundedMul(a, b) == a * b

SaturatingMul(a, b) == IF a * b > U64Max THEN U64Max ELSE a * b
SaturatingSub(a, b) == IF b > a THEN 0 ELSE a - b

(* token::transfer into the token account `to`. *)
Credit(balances, to, amount) == [balances EXCEPT ![to] = @ + amount]

Exists(c) == channel[c] # NoAccount
InStatus(c, s) == Exists(c) /\ channel[c].status = s
DisputeUntil(c) == channel[c].settled_at + channel[c].dispute_secs

(* The require!s on the arguments of open_channel. *)
ValidTerms(t) ==
    /\ t.deposit_micro > 0
    /\ t.input_price_micro > 0
    /\ t.output_price_micro > 0
    /\ t.prepaid_input_micro <= t.deposit_micro
    /\ t.duration_secs <= MaxDuration
    /\ t.dispute_secs <= MaxDispute
    /\ t.trailing_buffer <= MaxTrailing

(* verify_ed25519_sibling: the transaction carries a valid signature of     *)
(* exactly this message by the channel's session key.                       *)
SignatureVerifies(c, m) == m.signer = channel[c].session_key

(* Variant: the amount may go down. *)
SupersedesBySequence(c, m) == m.sequence > channel[c].last_sequence

(* The tests settle and dispute make of a commitment, identical in both. *)
Supersedes(c, m) ==
    /\ m.sequence > channel[c].last_sequence
    /\ m.cumulative_paid >= channel[c].last_cumulative_paid

(* Variant: the prepaid floor is not tested. *)
WithinDeposit(c, m) == m.cumulative_paid <= channel[c].deposit_micro

WithinTerms(c, m) ==
    /\ m.cumulative_paid >= channel[c].prepaid_input_micro
    /\ m.cumulative_paid <= channel[c].deposit_micro

CommitmentAcceptable(c, m) ==
    /\ m.channel = c
    /\ Supersedes(c, m)
    /\ WithinTerms(c, m)
    /\ SignatureVerifies(c, m)

(* The time windows of the three permissionless instructions. *)
SettleAllowed(c) == InStatus(c, "Active") /\ now <= channel[c].expires_at

(* Variant: no end to the window. *)
DisputeAnytime(c) == InStatus(c, "Settling")

(* Variant: the last instant is excluded. *)
DisputeBefore(c) == InStatus(c, "Settling") /\ now < DisputeUntil(c)

DisputeAllowed(c) == InStatus(c, "Settling") /\ now <= DisputeUntil(c)

(* Variant: overlaps the dispute window by an instant. *)
CloseAtDeadline(c) ==
    \/ InStatus(c, "Settling") /\ now >= DisputeUntil(c)
    \/ InStatus(c, "Active") /\ now > channel[c].expires_at

(* Variant: the Settling door is missing. *)
CloseExpiredOnly(c) == InStatus(c, "Active") /\ now > channel[c].expires_at

CloseAllowed(c) ==
    \/ InStatus(c, "Settling") /\ now > DisputeUntil(c)
    \/ InStatus(c, "Active") /\ now > channel[c].expires_at

(* Variant: pays what was settled, no floor. *)
PaidWithoutFloor(c) == channel[c].last_cumulative_paid

(* The split close pays out. *)
PaidAtClose(c) ==
    IF channel[c].last_cumulative_paid > channel[c].prepaid_input_micro
    THEN channel[c].last_cumulative_paid
    ELSE channel[c].prepaid_input_micro

RefundAtClose(c) == SaturatingSub(channel[c].deposit_micro, PaidAtClose(c))

-----------------------------------------------------------------------------
(* Instructions. *)

Init == /\ now = 0
        /\ channel = [c \in Channel |-> NoAccount]
        /\ vault = [c \in Channel |-> 0]
        /\ wallet = Balances

(* Open stops early enough that every window of the channel fits in MaxTime. *)
Horizon == now + MaxDuration + MaxDispute < MaxTime

OpenedAccount(key, t) ==
    [status |-> "Active", session_key |-> key,
     deposit_micro |-> t.deposit_micro,
     input_price_micro |-> t.input_price_micro,
     output_price_micro |-> t.output_price_micro,
     prepaid_input_micro |-> t.prepaid_input_micro,
     trailing_buffer_micro |->
        SaturatingMul(t.trailing_buffer, t.output_price_micro),
     last_sequence |-> 0, last_cumulative_paid |-> 0,
     expires_at |-> now + t.duration_secs, settled_at |-> 0,
     dispute_secs |-> t.dispute_secs]

OpenChannel(c, key, t) ==
    /\ Horizon
    /\ ~Exists(c)
    /\ ValidTerms(t)
    /\ t.deposit_micro <= wallet[ConsumerOf[c]]
    /\ wallet' = [wallet EXCEPT ![ConsumerOf[c]] = @ - t.deposit_micro]
    /\ vault' = [vault EXCEPT ![c] = @ + t.deposit_micro]
    /\ channel' = [channel EXCEPT ![c] = OpenedAccount(key, t)]
    /\ UNCHANGED now

Settle(c, m) ==
    /\ SettleAllowed(c)
    /\ CommitmentAcceptable(c, m)
    /\ channel' = [channel EXCEPT
            ![c].last_sequence = m.sequence,
            ![c].last_cumulative_paid = m.cumulative_paid,
            ![c].settled_at = now,
            ![c].status = "Settling"]
    /\ UNCHANGED <<now, vault, wallet>>

(* Variant: settled_at is stamped again, as settle does. *)
DisputeRestartingWindow(c, m) ==
    /\ DisputeAllowed(c)
    /\ CommitmentAcceptable(c, m)
    /\ channel' = [channel EXCEPT
            ![c].last_sequence = m.sequence,
            ![c].last_cumulative_paid = m.cumulative_paid,
            ![c].settled_at = now]
    /\ UNCHANGED <<now, vault, wallet>>

Dispute(c, m) ==
    /\ DisputeAllowed(c)
    /\ CommitmentAcceptable(c, m)
    /\ channel' = [channel EXCEPT
            ![c].last_sequence = m.sequence,
            ![c].last_cumulative_paid = m.cumulative_paid]
    /\ UNCHANGED <<now, vault, wallet>>

(* Variant: the refund is never transferred. *)
CloseLeavingRefund(c) ==
    /\ CloseAllowed(c)
    /\ vault[c] = PaidAtClose(c) + RefundAtClose(c)
    /\ wallet' = Credit(wallet, ProducerOf[c], PaidAtClose(c))
    /\ vault' = [vault EXCEPT ![c] = @ - PaidAtClose(c)]
    /\ channel' = [channel EXCEPT ![c] = NoAccount]
    /\ UNCHANGED now

(* Variant: the vault is emptied but the refund credited to nobody. *)
CloseLosingRefund(c) ==
    /\ CloseAllowed(c)
    /\ vault[c] = PaidAtClose(c) + RefundAtClose(c)
    /\ wallet' = Credit(wallet, ProducerOf[c], PaidAtClose(c))
    /\ vault' = [vault EXCEPT ![c] = 0]
    /\ channel' = [channel EXCEPT ![c] = NoAccount]
    /\ UNCHANGED now

(* The transfers leave the vault in turn; close_account then demands that   *)
(* it is empty, or the whole transaction fails.                             *)
Close(c) ==
    /\ CloseAllowed(c)
    /\ vault[c] = PaidAtClose(c) + RefundAtClose(c)
    /\ wallet' = Credit(Credit(wallet, ProducerOf[c], PaidAtClose(c)),
                        ConsumerOf[c], RefundAtClose(c))
    /\ vault' = [vault EXCEPT ![c] = 0]
    /\ channel' = [channel EXCEPT ![c] = NoAccount]
    /\ UNCHANGED now

Tick == /\ now < MaxTime
        /\ now' = now + 1
        /\ UNCHANGED <<channel, vault, wallet>>

Next == \/ Tick
        \/ \E c \in Channel :
              \/ \E key \in SessionKey, t \in Offers : OpenChannel(c, key, t)
              \/ \E m \in Commitment : Settle(c, m) \/ Dispute(c, m)
              \/ Close(c)

Spec == Init /\ [][Next]_vars

(* Time passes; and the producer's settler polls Settling channels and      *)
(* closes each whose window has elapsed.  Nothing in the SDK closes an      *)
(* expired Active channel, so no fairness is assumed of that.               *)
Fairness == /\ WF_vars(Tick)
            /\ \A c \in Channel : WF_vars(Close(c) /\ InStatus(c, "Settling"))

FairSpec == Spec /\ Fairness

-----------------------------------------------------------------------------
(* Properties. *)

(* Every account, balance and clock value has its declared shape. *)
TypeOK == /\ now \in 0..MaxTime
          /\ channel \in [Channel -> ChannelType \cup {NoAccount}]
          /\ vault \in [Channel -> Nat]
          /\ wallet \in [Wallet -> Nat]

(* The vault holds exactly the deposit for as long as the account exists and *)
(* nothing otherwise: "the vault balance is the single source of truth until *)
(* settlement is final" (close.rs), over re-opened channels too.             *)
VaultBacksChannel ==
    \A c \in Channel :
        vault[c] = IF Exists(c) THEN channel[c].deposit_micro ELSE 0

(* What a settlement has recorded lies within the terms, whichever           *)
(* instruction recorded it last, and it was recorded before expiry; an       *)
(* Active account carries no trace of an earlier life of the same PDA.       *)
SettledWithinTerms ==
    \A c \in Channel :
        /\ InStatus(c, "Active") =>
              /\ channel[c].last_sequence = 0
              /\ channel[c].last_cumulative_paid = 0
        /\ InStatus(c, "Settling") =>
              /\ channel[c].last_sequence > 0
              /\ channel[c].prepaid_input_micro <= channel[c].last_cumulative_paid
              /\ channel[c].last_cumulative_paid <= channel[c].deposit_micro
              /\ channel[c].settled_at <= channel[c].expires_at
              /\ channel[c].settled_at <= now

(* close never jams: from the moment an account exists the split it would    *)
(* pay out empties the vault exactly, floor and saturating refund included,  *)
(* so close_account finds a zero balance.                                    *)
CloseEmptiesVault ==
    \A c \in Channel :
        Exists(c) => /\ vault[c] = PaidAtClose(c) + RefundAtClose(c)
                     /\ PaidAtClose(c) >= channel[c].prepaid_input_micro

(* No USDC is created or lost: what is in wallets and vaults is constant.    *)
MoneyConserved ==
    MapThenSumSet(LAMBDA w : wallet[w], Wallet)
        + MapThenSumSet(LAMBDA c : vault[c], Channel)
    = MapThenSumSet(LAMBDA w : Balances[w], Wallet)

(* close is possible exactly when nothing else is: the boundaries of the     *)
(* settle, dispute and close windows, written in three files, neither        *)
(* overlap at an instant nor leave one at which the account is stuck.        *)
ExactlyOneDoor ==
    \A c \in Channel :
        Exists(c) => (CloseAllowed(c) <=> ~(SettleAllowed(c) \/ DisputeAllowed(c)))

StaysClosable(c) ==
    CloseAllowed(c) /\ Exists(c)' =>
        /\ CloseAllowed(c)'
        /\ PaidAtClose(c)' = PaidAtClose(c)

(* Once an account may be closed its split is final: no instruction changes  *)
(* what close will pay, and close stays possible until somebody sends it.    *)
SplitFinalOnceClosable == [][\A c \in Channel : StaysClosable(c)]_vars

ForwardStep(c) ==
    Exists(c) /\ Exists(c)' =>
        /\ PaidAtClose(c)' >= PaidAtClose(c)
        /\ PaidAtClose(c)' # PaidAtClose(c) =>
              channel'[c].last_sequence > channel[c].last_sequence
        /\ channel[c].status = "Settling" =>
              /\ channel'[c].status = "Settling"
              /\ DisputeUntil(c)' = DisputeUntil(c)

(* A settlement only moves forward: the payout never drops, a different      *)
(* payout needs a larger sequence number, Settling never returns to Active,  *)
(* and no dispute can move the end of the dispute window.                    *)
SettlementOnlyForward == [][\A c \in Channel : ForwardStep(c)]_vars

(* Settling with a stale commitment never shuts out a newer one: a           *)
(* commitment the program would have settled with can, the instant another   *)
(* one has been, still be disputed in, unless it is older or pays less.      *)
LatestCanStillWin ==
    [][\A m \in Commitment :
          LET c == m.channel IN
          SettleAllowed(c) /\ CommitmentAcceptable(c, m) /\ InStatus(c, "Settling")' =>
              /\ DisputeAllowed(c)'
              /\ \/ CommitmentAcceptable(c, m)'
                 \/ m.sequence <= channel'[c].last_sequence
                 \/ m.cumulative_paid < channel'[c].last_cumulative_paid]_vars

(* With the settler polling, a settled channel is eventually paid out.       *)
SettledIsClosed ==
    \A c \in Channel : InStatus(c, "Settling") ~> ~Exists(c)

(* The program implements the escrow its documentation promises.             *)
EscrowView == INSTANCE Escrow WITH
    Amount <- U64,
    held <- vault,
    due <- [c \in Channel |-> IF Exists(c) THEN PaidAtClose(c) ELSE 0]

ImplementsEscrow == EscrowView!Spec
=============================================================================
