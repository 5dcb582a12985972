-------------------------- MODULE TapChannel_proofs --------------------------
(***************************************************************************)
(* Proofs about TapChannel: type correctness, the inductive invariant      *)
(* behind the payout properties, the action properties, and the refinement *)
(* of Escrow.                                                              *)
(***************************************************************************)
EXTENDS TapChannel, FiniteSetTheorems, TLAPS

(* What open_channel's require!s establish about an account, for its life. *)
TermsKept ==
    \A c \in Channel :
        Exists(c) => /\ channel[c].deposit_micro > 0
                     /\ channel[c].prepaid_input_micro <= channel[c].deposit_micro

IInv == TypeOK /\ VaultBacksChannel /\ SettledWithinTerms /\ TermsKept

-----------------------------------------------------------------------------
(* How each instruction changes the account it is sent to. *)

(* open_channel creates the account open_channel.rs:67-84 assigns. *)
LEMMA OpenEffect ==
    ASSUME TypeOK, NEW c \in Channel, NEW key \in SessionKey, NEW t \in Offers,
           OpenChannel(c, key, t)
    PROVE  /\ OpenedAccount(key, t) \in ChannelType
           /\ channel'[c] = OpenedAccount(key, t)
           /\ \A d \in Channel \ {c} : channel'[d] = channel[d]
<1>1. t \in OfferType
    BY ConstantsAssumption
<1>2. SaturatingMul(t.trailing_buffer, t.output_price_micro) \in U64
    BY <1>1, ConstantsAssumption DEF SaturatingMul, OfferType, U64
<1>3. OpenedAccount(key, t) \in ChannelType
    BY <1>1, <1>2, ConstantsAssumption
    DEF OpenedAccount, OfferType, ChannelType, TypeOK, U64
<1> QED
    BY <1>3 DEF OpenChannel, TypeOK

(* settle and dispute record the commitment and keep every other field. *)
LEMMA SettleEffect ==
    ASSUME TypeOK, NEW c \in Channel, NEW m \in Commitment, Settle(c, m)
    PROVE  /\ channel'[c] = [channel[c] EXCEPT !.last_sequence = m.sequence,
                                !.last_cumulative_paid = m.cumulative_paid,
                                !.settled_at = now, !.status = "Settling"]
           /\ channel[c] \in ChannelType
           /\ channel'[c] \in ChannelType
           /\ \A d \in Channel \ {c} : channel'[d] = channel[d]
<1>1. channel[c] \in ChannelType
    BY DEF Settle, SettleAllowed, InStatus, Exists, TypeOK
<1>2. channel'[c] = [channel[c] EXCEPT !.last_sequence = m.sequence,
                                !.last_cumulative_paid = m.cumulative_paid,
                                !.settled_at = now, !.status = "Settling"]
    BY <1>1 DEF Settle, TypeOK, ChannelType
<1>3. m.sequence \in U64 /\ m.cumulative_paid \in U64 /\ now \in Nat
    BY ConstantsAssumption DEF Commitment, TypeOK
<1>4. channel'[c] \in ChannelType
    BY <1>1, <1>2, <1>3 DEF ChannelType
<1> QED
    BY <1>1, <1>2, <1>4 DEF Settle, TypeOK

LEMMA DisputeEffect ==
    ASSUME TypeOK, NEW c \in Channel, NEW m \in Commitment, Dispute(c, m)
    PROVE  /\ channel'[c] = [channel[c] EXCEPT !.last_sequence = m.sequence,
                                !.last_cumulative_paid = m.cumulative_paid]
           /\ channel[c] \in ChannelType
           /\ channel'[c] \in ChannelType
           /\ \A d \in Channel \ {c} : channel'[d] = channel[d]
<1>1. channel[c] \in ChannelType
    BY DEF Dispute, DisputeAllowed, InStatus, Exists, TypeOK
<1>2. channel'[c] = [channel[c] EXCEPT !.last_sequence = m.sequence,
                                !.last_cumulative_paid = m.cumulative_paid]
    BY <1>1 DEF Dispute, TypeOK, ChannelType
<1>3. channel'[c] \in ChannelType
    BY <1>1, <1>2 DEF ChannelType, Commitment
<1> QED
    BY <1>1, <1>2, <1>3 DEF Dispute, TypeOK

(* A credit keeps a table of balances one. *)
LEMMA CreditType ==
    ASSUME NEW b \in [Wallet -> Nat], NEW to \in Wallet, NEW amount \in Nat
    PROVE  Credit(b, to, amount) \in [Wallet -> Nat]
<1> QED
    BY DEF Credit

(* The payout is a u64 within the deposit, and with its refund makes up the *)
(* deposit (close.rs:43-44).                                                *)
LEMMA PayoutSplits ==
    ASSUME IInv, NEW c \in Channel, Exists(c)
    PROVE  /\ channel[c] \in ChannelType
           /\ PaidAtClose(c) \in U64 /\ RefundAtClose(c) \in U64
           /\ channel[c].prepaid_input_micro <= PaidAtClose(c)
           /\ PaidAtClose(c) <= channel[c].deposit_micro
           /\ PaidAtClose(c) + RefundAtClose(c) = channel[c].deposit_micro
           /\ RefundAtClose(c) = channel[c].deposit_micro - PaidAtClose(c)
<1>1. channel[c] \in ChannelType
    BY DEF IInv, TypeOK, Exists
<1>2. channel[c].last_cumulative_paid <= channel[c].deposit_micro
    BY <1>1, ConstantsAssumption
    DEF IInv, SettledWithinTerms, TermsKept, InStatus, ChannelType, U64
<1>3. channel[c].prepaid_input_micro <= channel[c].deposit_micro
    BY DEF IInv, TermsKept
<1> QED
    BY <1>1, <1>2, <1>3, ConstantsAssumption
    DEF PaidAtClose, RefundAtClose, SaturatingSub, ChannelType, U64

-----------------------------------------------------------------------------
(* The inductive invariant. *)

LEMMA InitIInv == Init => IInv
<1> SUFFICES ASSUME Init PROVE IInv
    OBVIOUS
<1>1. TypeOK
    BY ConstantsAssumption DEF Init, TypeOK
<1>2. \A c \in Channel : ~Exists(c)
    BY DEF Init, Exists
<1> QED
    BY <1>1, <1>2 DEF IInv, VaultBacksChannel, SettledWithinTerms, TermsKept,
                      InStatus, Init

(* A step that leaves every account but c's alone, and c's vault with it,   *)
(* preserves the invariant when the new account of c satisfies it.          *)
LEMMA OtherChannelsKept ==
    ASSUME IInv, NEW c \in Channel, TypeOK',
           now' \in Nat, now <= now',
           \A d \in Channel \ {c} : channel'[d] = channel[d] /\ vault'[d] = vault[d],
           vault'[c] = IF Exists(c)' THEN channel'[c].deposit_micro ELSE 0,
           Exists(c)' => /\ channel'[c].deposit_micro > 0
                         /\ channel'[c].prepaid_input_micro <= channel'[c].deposit_micro,
           InStatus(c, "Active")' => /\ channel'[c].last_sequence = 0
                                     /\ channel'[c].last_cumulative_paid = 0,
           InStatus(c, "Settling")' =>
              /\ channel'[c].last_sequence > 0
              /\ channel'[c].prepaid_input_micro <= channel'[c].last_cumulative_paid
              /\ channel'[c].last_cumulative_paid <= channel'[c].deposit_micro
              /\ channel'[c].settled_at <= channel'[c].expires_at
              /\ channel'[c].settled_at <= now'
    PROVE  IInv'
<1>1. VaultBacksChannel'
    BY DEF IInv, VaultBacksChannel, Exists
<1>2. TermsKept'
    BY DEF IInv, TermsKept, Exists
<1>3. ASSUME NEW d \in Channel \ {c}, InStatus(d, "Settling")
      PROVE  channel[d].settled_at <= now'
    <2>1. channel[d] \in ChannelType /\ now \in Nat
        BY <1>3 DEF IInv, TypeOK, InStatus, Exists
    <2>2. channel[d].settled_at <= now
        BY <1>3 DEF IInv, SettledWithinTerms
    <2> QED
        BY <2>1, <2>2 DEF ChannelType
<1>4. SettledWithinTerms'
    BY <1>3 DEF IInv, SettledWithinTerms, InStatus, Exists
<1> QED
    BY <1>1, <1>2, <1>4 DEF IInv

LEMMA NextIInv == IInv /\ [Next]_vars => IInv'
<1> SUFFICES ASSUME IInv, [Next]_vars PROVE IInv'
    OBVIOUS
<1>0. TypeOK /\ now \in Nat
    BY DEF IInv, TypeOK
<1>1. CASE UNCHANGED vars
    BY <1>1 DEF vars, IInv, TypeOK, VaultBacksChannel, SettledWithinTerms,
                TermsKept, InStatus, Exists
<1>2. CASE Tick
    <2>1. TypeOK' /\ now <= now' /\ now' \in Nat
        BY <1>0, <1>2, ConstantsAssumption DEF Tick, TypeOK
    <2>2. VaultBacksChannel' /\ TermsKept'
        BY <1>2 DEF Tick, IInv, VaultBacksChannel, TermsKept, Exists
    <2>3. ASSUME NEW c \in Channel, InStatus(c, "Settling")
          PROVE  channel[c].settled_at <= now'
        <3>1. channel[c] \in ChannelType /\ channel[c].settled_at <= now
            BY <2>3 DEF IInv, TypeOK, SettledWithinTerms, InStatus, Exists
        <3> QED
            BY <3>1, <2>1, <1>0 DEF ChannelType
    <2>4. SettledWithinTerms'
        BY <1>2, <2>3 DEF Tick, IInv, SettledWithinTerms, InStatus, Exists
    <2> QED
        BY <2>1, <2>2, <2>4 DEF IInv
<1>3. ASSUME NEW c \in Channel, NEW key \in SessionKey, NEW t \in Offers,
             OpenChannel(c, key, t)
      PROVE  IInv'
    <2>1. /\ channel'[c] = OpenedAccount(key, t)
          /\ OpenedAccount(key, t) \in ChannelType
          /\ \A d \in Channel \ {c} : channel'[d] = channel[d]
        BY <1>0, <1>3, OpenEffect
    <2>2. t \in OfferType /\ ValidTerms(t) /\ ~Exists(c)
        BY <1>3, ConstantsAssumption DEF OpenChannel
    <2>3. vault'[c] = t.deposit_micro /\ \A d \in Channel \ {c} : vault'[d] = vault[d]
        BY <1>0, <1>3, <2>2, ConstantsAssumption
        DEF OpenChannel, IInv, VaultBacksChannel, TypeOK, OfferType, U64
    <2>4. TypeOK'
        <3>1. wallet' \in [Wallet -> Nat]
            <4>1. ConsumerOf[c] \in Wallet /\ t.deposit_micro \in Nat
                BY <2>2, ConstantsAssumption DEF OfferType, U64
            <4>2. wallet[ConsumerOf[c]] - t.deposit_micro \in Nat
                BY <1>0, <1>3, <4>1 DEF OpenChannel, TypeOK
            <4> QED
                BY <1>0, <1>3, <4>2 DEF OpenChannel, TypeOK
        <3>2. vault' \in [Channel -> Nat]
            BY <1>0, <1>3, <2>2, ConstantsAssumption
            DEF OpenChannel, TypeOK, OfferType, U64
        <3> QED
            BY <1>0, <1>3, <2>1, <3>1, <3>2 DEF OpenChannel, TypeOK
    <2>5. Exists(c)' /\ ~InStatus(c, "Settling")'
        BY <2>1, ConstantsAssumption DEF Exists, InStatus, OpenedAccount
    <2>6. now' = now
        BY <1>3 DEF OpenChannel
    <2> QED
        BY <1>0, <2>1, <2>2, <2>3, <2>4, <2>5, <2>6, OtherChannelsKept
        DEF OpenedAccount, ValidTerms
<1>4. ASSUME NEW c \in Channel, NEW m \in Commitment, Settle(c, m)
      PROVE  IInv'
    <2>1. /\ channel'[c] = [channel[c] EXCEPT !.last_sequence = m.sequence,
                                !.last_cumulative_paid = m.cumulative_paid,
                                !.settled_at = now, !.status = "Settling"]
          /\ channel[c] \in ChannelType
          /\ channel'[c] \in ChannelType
          /\ \A d \in Channel \ {c} : channel'[d] = channel[d]
        BY <1>0, <1>4, SettleEffect
    <2>2. TypeOK' /\ now' = now /\ vault' = vault /\ Exists(c)
        BY <1>0, <1>4, <2>1 DEF Settle, TypeOK, SettleAllowed, InStatus
    <2>3. /\ channel'[c].deposit_micro = channel[c].deposit_micro
          /\ channel'[c].prepaid_input_micro = channel[c].prepaid_input_micro
          /\ channel'[c].expires_at = channel[c].expires_at
          /\ channel'[c].settled_at = now
          /\ channel'[c].last_sequence = m.sequence
          /\ channel'[c].last_cumulative_paid = m.cumulative_paid
          /\ channel'[c].status = "Settling"
        BY <2>1 DEF ChannelType
    <2>4. /\ m.sequence > 0
          /\ channel[c].prepaid_input_micro <= m.cumulative_paid
          /\ m.cumulative_paid <= channel[c].deposit_micro
          /\ now <= channel[c].expires_at
        BY <1>4, <2>1, ConstantsAssumption
        DEF Settle, SettleAllowed, CommitmentAcceptable, Supersedes, WithinTerms,
            Commitment, ChannelType, U64
    <2>5. Exists(c)' /\ ~InStatus(c, "Active")'
        BY <2>1, <2>3, ConstantsAssumption DEF Exists, InStatus
    <2>6. /\ vault'[c] = channel'[c].deposit_micro
          /\ channel'[c].deposit_micro > 0
          /\ channel'[c].prepaid_input_micro <= channel'[c].deposit_micro
        BY <2>2, <2>3 DEF IInv, VaultBacksChannel, TermsKept
    <2>7. now \in Nat /\ now' \in Nat /\ now <= now' /\ now <= now
        BY <1>0, <2>2
    <2>8. \A d \in Channel \ {c} : channel'[d] = channel[d] /\ vault'[d] = vault[d]
        BY <2>1, <2>2
    <2> QED
        BY <2>2, <2>3, <2>4, <2>5, <2>6, <2>7, <2>8, OtherChannelsKept
<1>5. ASSUME NEW c \in Channel, NEW m \in Commitment, Dispute(c, m)
      PROVE  IInv'
    <2>1. /\ channel'[c] = [channel[c] EXCEPT !.last_sequence = m.sequence,
                                !.last_cumulative_paid = m.cumulative_paid]
          /\ channel[c] \in ChannelType
          /\ channel'[c] \in ChannelType
          /\ \A d \in Channel \ {c} : channel'[d] = channel[d]
        BY <1>0, <1>5, DisputeEffect
    <2>2. TypeOK' /\ now' = now /\ vault' = vault /\ InStatus(c, "Settling")
        BY <1>0, <1>5, <2>1 DEF Dispute, TypeOK, DisputeAllowed
    <2>3. /\ channel'[c].deposit_micro = channel[c].deposit_micro
          /\ channel'[c].prepaid_input_micro = channel[c].prepaid_input_micro
          /\ channel'[c].expires_at = channel[c].expires_at
          /\ channel'[c].settled_at = channel[c].settled_at
          /\ channel'[c].last_sequence = m.sequence
          /\ channel'[c].last_cumulative_paid = m.cumulative_paid
          /\ channel'[c].status = channel[c].status
        BY <2>1 DEF ChannelType
    <2>4. /\ m.sequence > 0
          /\ channel[c].prepaid_input_micro <= m.cumulative_paid
          /\ m.cumulative_paid <= channel[c].deposit_micro
        BY <1>5, <2>1, ConstantsAssumption
        DEF Dispute, CommitmentAcceptable, Supersedes, WithinTerms,
            Commitment, ChannelType, U64
    <2>5. Exists(c) /\ Exists(c)' /\ ~InStatus(c, "Active")'
        BY <2>1, <2>2, <2>3, ConstantsAssumption DEF Exists, InStatus
    <2>6. /\ channel[c].settled_at <= channel[c].expires_at
          /\ channel[c].settled_at <= now
        BY <2>2 DEF IInv, SettledWithinTerms
    <2>7. /\ vault'[c] = channel'[c].deposit_micro
          /\ channel'[c].deposit_micro > 0
          /\ channel'[c].prepaid_input_micro <= channel'[c].deposit_micro
        BY <2>2, <2>3, <2>5 DEF IInv, VaultBacksChannel, TermsKept
    <2>8. now' \in Nat /\ now <= now'
        BY <1>0, <2>2
    <2>9. \A d \in Channel \ {c} : channel'[d] = channel[d] /\ vault'[d] = vault[d]
        BY <2>1, <2>2
    <2> QED
        BY <2>2, <2>3, <2>4, <2>5, <2>6, <2>7, <2>8, <2>9, OtherChannelsKept
<1>6. ASSUME NEW c \in Channel, Close(c)
      PROVE  IInv'
    <2>1. Exists(c)
        BY <1>6 DEF Close, CloseAllowed, InStatus
    <2>2. PaidAtClose(c) \in Nat /\ RefundAtClose(c) \in Nat
        BY <2>1, PayoutSplits, ConstantsAssumption DEF U64
    <2>3. TypeOK'
        <3>1. ConsumerOf[c] \in Wallet /\ ProducerOf[c] \in Wallet
            BY ConstantsAssumption
        <3>2. wallet' \in [Wallet -> Nat]
            BY <1>0, <1>6, <2>2, <3>1, CreditType DEF Close, TypeOK
        <3>3. vault' \in [Channel -> Nat] /\ now' \in 0..MaxTime
            BY <1>0, <1>6 DEF Close, TypeOK
        <3>4. channel' \in [Channel -> ChannelType \cup {NoAccount}]
            BY <1>0, <1>6 DEF Close, TypeOK
        <3> QED
            BY <3>2, <3>3, <3>4 DEF TypeOK
    <2>4. ~Exists(c)' /\ vault'[c] = 0 /\ now' = now
        BY <1>0, <1>6 DEF Close, TypeOK, Exists
    <2>5. \A d \in Channel \ {c} : channel'[d] = channel[d] /\ vault'[d] = vault[d]
        BY <1>0, <1>6 DEF Close, TypeOK
    <2> QED
        BY <1>0, <2>3, <2>4, <2>5, OtherChannelsKept DEF InStatus
<1> QED
    BY <1>1, <1>2, <1>3, <1>4, <1>5, <1>6 DEF Next

(* The invariant holds in every reachable state, for every set of channels, *)
(* offers and commitments.                                                  *)
THEOREM Invariance == Spec => []IInv
<1> QED
    BY InitIInv, NextIInv, PTL DEF Spec

(* No instruction leaves a field outside its width: u64 fields stay below   *)
(* 2^64 and no balance goes negative.                                       *)
THEOREM Typed == Spec => []TypeOK
<1>1. IInv => TypeOK
    BY DEF IInv
<1> QED
    BY <1>1, Invariance, PTL

(* The vault holds exactly the deposit while the account exists.            *)
THEOREM VaultBacked == Spec => []VaultBacksChannel
<1>1. IInv => VaultBacksChannel
    BY DEF IInv
<1> QED
    BY <1>1, Invariance, PTL

(* What settle or dispute recorded stays within the channel's terms.        *)
THEOREM SettledWithin == Spec => []SettledWithinTerms
<1>1. IInv => SettledWithinTerms
    BY DEF IInv
<1> QED
    BY <1>1, Invariance, PTL

(* close never jams: the split always empties the vault and honours the     *)
(* prepaid floor.                                                           *)
THEOREM CloseNeverJams == Spec => []CloseEmptiesVault
<1>1. IInv => CloseEmptiesVault
    <2> SUFFICES ASSUME IInv, NEW c \in Channel, Exists(c)
                 PROVE  /\ vault[c] = PaidAtClose(c) + RefundAtClose(c)
                        /\ PaidAtClose(c) >= channel[c].prepaid_input_micro
        BY DEF CloseEmptiesVault
    <2>1. /\ channel[c] \in ChannelType /\ PaidAtClose(c) \in U64
          /\ channel[c].prepaid_input_micro <= PaidAtClose(c)
          /\ PaidAtClose(c) + RefundAtClose(c) = channel[c].deposit_micro
        BY PayoutSplits
    <2>2. vault[c] = channel[c].deposit_micro
        BY DEF IInv, VaultBacksChannel
    <2> QED
        BY <2>1, <2>2, ConstantsAssumption DEF ChannelType, U64
<1> QED
    BY <1>1, Invariance, PTL

-----------------------------------------------------------------------------
(* Refinement: the program implements Escrow. *)

Due == [c \in Channel |-> IF Exists(c) THEN PaidAtClose(c) ELSE 0]

LEMMA InitRefines == Init => EscrowView!Init
<1> SUFFICES ASSUME Init PROVE EscrowView!Init
    OBVIOUS
<1>1. \A c \in Channel : ~Exists(c)
    BY DEF Init, Exists
<1> QED
    BY <1>1 DEF Init, EscrowView!Init

(* A settlement of c, first or superseding, is a Raise of its share.        *)
LEMMA RecordingRaises ==
    ASSUME IInv, NEW c \in Channel, Exists(c), Exists(c)', NEW share \in U64,
           channel[c] \in ChannelType,
           \A d \in Channel \ {c} : channel'[d] = channel[d],
           channel'[c].last_cumulative_paid = share,
           channel'[c].prepaid_input_micro = channel[c].prepaid_input_micro,
           channel[c].last_cumulative_paid <= share,
           channel[c].prepaid_input_micro <= share,
           share <= channel[c].deposit_micro,
           UNCHANGED <<vault, wallet>>
    PROVE  EscrowView!Raise(c, share)
<1>1. /\ Due[c] = PaidAtClose(c) /\ PaidAtClose(c) <= share
      /\ vault[c] = channel[c].deposit_micro
    BY DEF Due, PaidAtClose, ChannelType, IInv, VaultBacksChannel
<1>2. PaidAtClose(c)' = share
    BY ConstantsAssumption DEF PaidAtClose, ChannelType, U64
<1>3. \A d \in Channel \ {c} : Due'[d] = Due[d]
    BY DEF Due, Exists, PaidAtClose
<1>4. Due' = [Due EXCEPT ![c] = share]
    BY <1>2, <1>3 DEF Due
<1> QED
    BY <1>1, <1>4 DEF EscrowView!Raise, Due

LEMMA NextRefines == IInv /\ [Next]_vars => [EscrowView!Next]_(EscrowView!vars)
<1> SUFFICES ASSUME IInv, [Next]_vars
             PROVE  EscrowView!Next \/ UNCHANGED <<vault, Due, wallet>>
    BY DEF EscrowView!vars, Due
<1>0. TypeOK
    BY DEF IInv
<1>1. CASE UNCHANGED vars \/ Tick
    BY <1>1 DEF vars, Tick, Due, Exists, PaidAtClose
<1>2. ASSUME NEW c \in Channel, NEW key \in SessionKey, NEW t \in Offers,
             OpenChannel(c, key, t)
      PROVE  EscrowView!Next
    <2>1. /\ channel'[c] = OpenedAccount(key, t)
          /\ OpenedAccount(key, t) \in ChannelType
          /\ \A d \in Channel \ {c} : channel'[d] = channel[d]
        BY <1>0, <1>2, OpenEffect
    <2>2. /\ t.deposit_micro \in U64 /\ t.prepaid_input_micro \in U64
          /\ ValidTerms(t) /\ ~Exists(c)
        BY <1>2, ConstantsAssumption DEF OpenChannel, OfferType
    <2>3. Exists(c)'
        BY <2>1, ConstantsAssumption DEF Exists
    <2>4. PaidAtClose(c)' = t.prepaid_input_micro
        BY <2>1, <2>2, ConstantsAssumption DEF PaidAtClose, OpenedAccount, U64
    <2>5. \A d \in Channel \ {c} : Due'[d] = Due[d]
        BY <2>1 DEF Due, Exists, PaidAtClose
    <2>6. Due' = [Due EXCEPT ![c] = t.prepaid_input_micro]
        BY <2>3, <2>4, <2>5 DEF Due
    <2>7. vault[c] = 0
        BY <2>2 DEF IInv, VaultBacksChannel
    <2>8. vault' = [vault EXCEPT ![c] = t.deposit_micro]
        <3>1. vault' = [vault EXCEPT ![c] = vault[c] + t.deposit_micro]
            BY <1>2 DEF OpenChannel
        <3>2. vault[c] + t.deposit_micro = t.deposit_micro
            BY <2>2, <2>7, ConstantsAssumption DEF U64
        <3> QED
            BY <3>1, <3>2
    <2>9. EscrowView!Lock(c, t.deposit_micro, t.prepaid_input_micro)
        BY <1>2, <2>2, <2>6, <2>7, <2>8, ConstantsAssumption
        DEF EscrowView!Lock, OpenChannel, ValidTerms, Due, U64
    <2> QED
        BY <2>2, <2>9 DEF EscrowView!Next
<1>3. ASSUME NEW c \in Channel, NEW m \in Commitment, Settle(c, m)
      PROVE  EscrowView!Next
    <2>1. /\ channel'[c] = [channel[c] EXCEPT !.last_sequence = m.sequence,
                                !.last_cumulative_paid = m.cumulative_paid,
                                !.settled_at = now, !.status = "Settling"]
          /\ channel[c] \in ChannelType /\ channel'[c] \in ChannelType
          /\ \A d \in Channel \ {c} : channel'[d] = channel[d]
        BY <1>0, <1>3, SettleEffect
    <2>2. /\ channel'[c].last_cumulative_paid = m.cumulative_paid
          /\ channel'[c].prepaid_input_micro = channel[c].prepaid_input_micro
        BY <2>1 DEF ChannelType
    <2>3. Exists(c) /\ Exists(c)' /\ m.cumulative_paid \in U64
        BY <2>1, ConstantsAssumption DEF Exists, Commitment
    <2>4. /\ channel[c].last_cumulative_paid <= m.cumulative_paid
          /\ channel[c].prepaid_input_micro <= m.cumulative_paid
          /\ m.cumulative_paid <= channel[c].deposit_micro
          /\ UNCHANGED <<vault, wallet>>
        BY <1>3, <2>1, <2>3, ConstantsAssumption
        DEF Settle, CommitmentAcceptable, Supersedes, WithinTerms, ChannelType, U64
    <2>5. EscrowView!Raise(c, m.cumulative_paid)
        BY <2>1, <2>2, <2>3, <2>4, RecordingRaises
    <2> QED
        BY <2>3, <2>5 DEF EscrowView!Next
<1>4. ASSUME NEW c \in Channel, NEW m \in Commitment, Dispute(c, m)
      PROVE  EscrowView!Next
    <2>1. /\ channel'[c] = [channel[c] EXCEPT !.last_sequence = m.sequence,
                                !.last_cumulative_paid = m.cumulative_paid]
          /\ channel[c] \in ChannelType /\ channel'[c] \in ChannelType
          /\ \A d \in Channel \ {c} : channel'[d] = channel[d]
        BY <1>0, <1>4, DisputeEffect
    <2>2. /\ channel'[c].last_cumulative_paid = m.cumulative_paid
          /\ channel'[c].prepaid_input_micro = channel[c].prepaid_input_micro
        BY <2>1 DEF ChannelType
    <2>3. Exists(c) /\ Exists(c)' /\ m.cumulative_paid \in U64
        BY <2>1, ConstantsAssumption DEF Exists, Commitment
    <2>4. /\ channel[c].last_cumulative_paid <= m.cumulative_paid
          /\ channel[c].prepaid_input_micro <= m.cumulative_paid
          /\ m.cumulative_paid <= channel[c].deposit_micro
          /\ UNCHANGED <<vault, wallet>>
        BY <1>4, <2>1, <2>3, ConstantsAssumption
        DEF Dispute, CommitmentAcceptable, Supersedes, WithinTerms, ChannelType, U64
    <2>5. EscrowView!Raise(c, m.cumulative_paid)
        BY <2>1, <2>2, <2>3, <2>4, RecordingRaises
    <2> QED
        BY <2>3, <2>5 DEF EscrowView!Next
<1>5. ASSUME NEW c \in Channel, Close(c)
      PROVE  EscrowView!Next
    <2>1. Exists(c)
        BY <1>5 DEF Close, CloseAllowed, InStatus
    <2>2. /\ Due[c] = PaidAtClose(c) /\ vault[c] > 0
          /\ vault[c] - Due[c] = RefundAtClose(c)
        BY <2>1, PayoutSplits, ConstantsAssumption
        DEF Due, IInv, VaultBacksChannel, TermsKept, ChannelType, U64
    <2>3. ~Exists(c)' /\ \A d \in Channel \ {c} : channel'[d] = channel[d]
        BY <1>0, <1>5 DEF Close, TypeOK, Exists
    <2>4. Due' = [Due EXCEPT ![c] = 0]
        BY <2>3 DEF Due, Exists, PaidAtClose
    <2>5. EscrowView!Release(c)
        BY <1>5, <2>2, <2>4
        DEF EscrowView!Release, EscrowView!Paid, Close, Credit, Due
    <2> QED
        BY <2>5 DEF EscrowView!Next
<1> QED
    BY <1>1, <1>2, <1>3, <1>4, <1>5 DEF Next

(* The settlement program implements the escrow: every instruction locks,   *)
(* raises or releases, and nothing else ever happens to the money.          *)
THEOREM Refinement == Spec => ImplementsEscrow
<1> QED
    BY InitRefines, NextRefines, Invariance, PTL
    DEF Spec, ImplementsEscrow, EscrowView!Spec

-----------------------------------------------------------------------------
(* Action properties. *)

(* Recording a commitment the program accepts never lowers the payout.      *)
LEMMA RecordingMovesForward ==
    ASSUME IInv, NEW c \in Channel, Exists(c), Exists(c)', NEW m \in Commitment,
           channel[c] \in ChannelType,
           channel'[c].last_sequence = m.sequence,
           channel'[c].last_cumulative_paid = m.cumulative_paid,
           channel'[c].prepaid_input_micro = channel[c].prepaid_input_micro,
           Supersedes(c, m), WithinTerms(c, m)
    PROVE  /\ PaidAtClose(c)' >= PaidAtClose(c)
           /\ channel'[c].last_sequence > channel[c].last_sequence
<1>1. m.cumulative_paid \in Nat
    BY ConstantsAssumption DEF Commitment, U64
<1> QED
    BY <1>1, ConstantsAssumption
    DEF PaidAtClose, Supersedes, WithinTerms, ChannelType, U64

(* A step other than an instruction on c is harmless to c.                  *)
LEMMA UntouchedIsForward ==
    ASSUME IInv, NEW c \in Channel, channel'[c] = channel[c]
    PROVE  ForwardStep(c)
<1> SUFFICES ASSUME Exists(c) PROVE ForwardStep(c)
    BY DEF ForwardStep
<1>1. PaidAtClose(c) \in Nat /\ PaidAtClose(c)' = PaidAtClose(c)
    BY PayoutSplits, ConstantsAssumption DEF PaidAtClose, U64
<1> QED
    BY <1>1 DEF ForwardStep, DisputeUntil

(* One step moves an account's settlement forward or leaves it alone.       *)
LEMMA StepsForward ==
    ASSUME IInv, Next, NEW c \in Channel
    PROVE  ForwardStep(c)
<1>0. TypeOK
    BY DEF IInv
<1>1. CASE Tick
    BY <1>1, UntouchedIsForward DEF Tick
<1>2. ASSUME NEW d \in Channel, NEW key \in SessionKey, NEW t \in Offers,
             OpenChannel(d, key, t)
      PROVE  ForwardStep(c)
    <2>1. CASE c = d
        BY <1>2, <2>1 DEF OpenChannel, ForwardStep
    <2>2. CASE c # d
        BY <1>0, <1>2, <2>2, OpenEffect, UntouchedIsForward
    <2> QED
        BY <2>1, <2>2
<1>3. ASSUME NEW d \in Channel, NEW m \in Commitment, Settle(d, m)
      PROVE  ForwardStep(c)
    <2>1. CASE c # d
        BY <1>0, <1>3, <2>1, SettleEffect, UntouchedIsForward
    <2>2. CASE c = d
        <3>1. /\ channel'[c] = [channel[c] EXCEPT !.last_sequence = m.sequence,
                                  !.last_cumulative_paid = m.cumulative_paid,
                                  !.settled_at = now, !.status = "Settling"]
              /\ channel[c] \in ChannelType
            BY <1>0, <1>3, <2>2, SettleEffect
        <3>2. /\ channel'[c].last_sequence = m.sequence
              /\ channel'[c].last_cumulative_paid = m.cumulative_paid
              /\ channel'[c].prepaid_input_micro = channel[c].prepaid_input_micro
            BY <3>1 DEF ChannelType
        <3>3. Supersedes(c, m) /\ WithinTerms(c, m) /\ channel[c].status = "Active"
            BY <1>3, <2>2
            DEF Settle, CommitmentAcceptable, SettleAllowed, InStatus
        <3> QED
            BY <3>1, <3>2, <3>3, RecordingMovesForward DEF ForwardStep
    <2> QED
        BY <2>1, <2>2
<1>4. ASSUME NEW d \in Channel, NEW m \in Commitment, Dispute(d, m)
      PROVE  ForwardStep(c)
    <2>1. CASE c # d
        BY <1>0, <1>4, <2>1, DisputeEffect, UntouchedIsForward
    <2>2. CASE c = d
        <3>1. /\ channel'[c] = [channel[c] EXCEPT !.last_sequence = m.sequence,
                                  !.last_cumulative_paid = m.cumulative_paid]
              /\ channel[c] \in ChannelType
            BY <1>0, <1>4, <2>2, DisputeEffect
        <3>2. /\ channel'[c].last_sequence = m.sequence
              /\ channel'[c].last_cumulative_paid = m.cumulative_paid
              /\ channel'[c].prepaid_input_micro = channel[c].prepaid_input_micro
              /\ channel'[c].status = channel[c].status
              /\ DisputeUntil(c)' = DisputeUntil(c)
            BY <3>1 DEF ChannelType, DisputeUntil
        <3>3. Supersedes(c, m) /\ WithinTerms(c, m)
            BY <1>4, <2>2 DEF Dispute, CommitmentAcceptable
        <3> QED
            BY <3>1, <3>2, <3>3, RecordingMovesForward DEF ForwardStep
    <2> QED
        BY <2>1, <2>2
<1>5. ASSUME NEW d \in Channel, Close(d)
      PROVE  ForwardStep(c)
    <2>1. CASE c = d
        BY <1>0, <1>5, <2>1 DEF Close, TypeOK, Exists, ForwardStep
    <2>2. CASE c # d
        BY <1>0, <1>5, <2>2, UntouchedIsForward DEF Close, TypeOK
    <2> QED
        BY <2>1, <2>2
<1> QED
    BY <1>1, <1>2, <1>3, <1>4, <1>5 DEF Next

(* Nor does the sequence number of an account ever drop.                    *)
LEMMA SequencesForward ==
    ASSUME IInv, Next, NEW c \in Channel, Exists(c), Exists(c)'
    PROVE  channel'[c].last_sequence >= channel[c].last_sequence
<1>0. TypeOK /\ channel[c] \in ChannelType /\ channel[c].last_sequence \in Nat
    BY ConstantsAssumption DEF IInv, TypeOK, Exists, ChannelType, U64
<1>1. ASSUME channel'[c] = channel[c]
      PROVE  channel'[c].last_sequence >= channel[c].last_sequence
    BY <1>0, <1>1
<1>2. ASSUME NEW d \in Channel, NEW m \in Commitment, Settle(d, m) \/ Dispute(d, m)
      PROVE  channel'[c].last_sequence >= channel[c].last_sequence
    <2>0. /\ channel[d] \in ChannelType /\ channel'[d].last_sequence = m.sequence
          /\ \A e \in Channel \ {d} : channel'[e] = channel[e]
        <3>1. CASE Settle(d, m)
            <4>1. /\ channel'[d] = [channel[d] EXCEPT !.last_sequence = m.sequence,
                                       !.last_cumulative_paid = m.cumulative_paid,
                                       !.settled_at = now, !.status = "Settling"]
                  /\ channel[d] \in ChannelType
                  /\ \A e \in Channel \ {d} : channel'[e] = channel[e]
                BY <1>0, <3>1, SettleEffect
            <4> QED
                BY <4>1 DEF ChannelType
        <3>2. CASE Dispute(d, m)
            <4>1. /\ channel'[d] = [channel[d] EXCEPT !.last_sequence = m.sequence,
                                       !.last_cumulative_paid = m.cumulative_paid]
                  /\ channel[d] \in ChannelType
                  /\ \A e \in Channel \ {d} : channel'[e] = channel[e]
                BY <1>0, <3>2, DisputeEffect
            <4> QED
                BY <4>1 DEF ChannelType
        <3> QED
            BY <1>2, <3>1, <3>2
    <2>1. CASE c # d
        BY <1>1, <2>0, <2>1
    <2>2. CASE c = d
        <3>1. channel'[c].last_sequence = m.sequence
            BY <2>0, <2>2
        <3>2. m.sequence > channel[c].last_sequence /\ m.sequence \in Nat
            BY <1>2, <2>2, ConstantsAssumption
            DEF Settle, Dispute, CommitmentAcceptable, Supersedes, Commitment, U64
        <3> QED
            BY <1>0, <3>1, <3>2
    <2> QED
        BY <2>1, <2>2
<1>3. ASSUME NEW d \in Channel, NEW key \in SessionKey, NEW t \in Offers,
             OpenChannel(d, key, t)
      PROVE  channel'[c].last_sequence >= channel[c].last_sequence
    <2>1. c # d
        BY <1>3 DEF OpenChannel
    <2> QED
        BY <1>0, <1>1, <1>3, <2>1, OpenEffect
<1>4. ASSUME NEW d \in Channel, Close(d)
      PROVE  channel'[c].last_sequence >= channel[c].last_sequence
    BY <1>0, <1>1, <1>4 DEF Close, TypeOK, Exists
<1>5. CASE Tick
    BY <1>1, <1>5 DEF Tick
<1> QED
    BY <1>2, <1>3, <1>4, <1>5 DEF Next

(* Settlements only move forward: the payout never drops, changes only with *)
(* a larger sequence number, and no step moves the end of a dispute window. *)
THEOREM ForwardOnly == Spec => SettlementOnlyForward
<1>1. IInv /\ [Next]_vars => [\A c \in Channel : ForwardStep(c)]_vars
    BY StepsForward
<1> QED
    BY <1>1, Invariance, PTL DEF Spec, SettlementOnlyForward

(* An account that may be closed stays so, with the same split, until it is *)
(* closed: settle and dispute are both past their windows.                  *)
LEMMA ClosableStays ==
    ASSUME IInv, Next, NEW c \in Channel, CloseAllowed(c), Exists(c)'
    PROVE  CloseAllowed(c)' /\ PaidAtClose(c)' = PaidAtClose(c)
<1>0. TypeOK /\ now \in Nat /\ Exists(c) /\ channel[c] \in ChannelType
    BY DEF IInv, TypeOK, CloseAllowed, InStatus, Exists
<1>1. ~SettleAllowed(c) /\ ~DisputeAllowed(c)
    BY <1>0 DEF CloseAllowed, SettleAllowed, DisputeAllowed, InStatus,
                DisputeUntil, ChannelType
<1>2. ASSUME channel'[c] = channel[c], now' \in Nat, now <= now'
      PROVE  CloseAllowed(c)' /\ PaidAtClose(c)' = PaidAtClose(c)
    BY <1>0, <1>2 DEF CloseAllowed, InStatus, Exists, DisputeUntil,
                      PaidAtClose, ChannelType
<1>3. CASE Tick
    BY <1>0, <1>2, <1>3 DEF Tick
<1>4. ASSUME NEW d \in Channel, NEW key \in SessionKey, NEW t \in Offers,
             OpenChannel(d, key, t)
      PROVE  channel'[c] = channel[c] /\ now' = now
    BY <1>0, <1>4, OpenEffect DEF OpenChannel
<1>5. ASSUME NEW d \in Channel, NEW m \in Commitment, Settle(d, m)
      PROVE  channel'[c] = channel[c] /\ now' = now
    BY <1>0, <1>1, <1>5, SettleEffect DEF Settle
<1>6. ASSUME NEW d \in Channel, NEW m \in Commitment, Dispute(d, m)
      PROVE  channel'[c] = channel[c] /\ now' = now
    BY <1>0, <1>1, <1>6, DisputeEffect DEF Dispute
<1>7. ASSUME NEW d \in Channel, Close(d)
      PROVE  channel'[c] = channel[c] /\ now' = now
    BY <1>0, <1>7 DEF Close, TypeOK, Exists
<1> QED
    BY <1>0, <1>2, <1>3, <1>4, <1>5, <1>6, <1>7 DEF Next

(* Once an account may be closed its split is final.                        *)
THEOREM SplitFinal == Spec => SplitFinalOnceClosable
<1>1. IInv /\ [Next]_vars => [\A c \in Channel : StaysClosable(c)]_vars
    BY ClosableStays DEF StaysClosable
<1> QED
    BY <1>1, Invariance, PTL DEF Spec, SplitFinalOnceClosable

(* In every state of an account exactly one of "closable" and "settle or    *)
(* dispute still possible" holds.                                           *)
THEOREM OneDoor == Spec => []ExactlyOneDoor
<1>1. IInv => ExactlyOneDoor
    <2> SUFFICES ASSUME IInv, NEW c \in Channel, Exists(c)
                 PROVE  CloseAllowed(c) <=> ~(SettleAllowed(c) \/ DisputeAllowed(c))
        BY DEF ExactlyOneDoor
    <2>1. channel[c] \in ChannelType /\ now \in Nat
        BY DEF IInv, TypeOK, Exists
    <2> QED
        BY <2>1 DEF CloseAllowed, SettleAllowed, DisputeAllowed, InStatus,
                    DisputeUntil, ChannelType
<1> QED
    BY <1>1, Invariance, PTL

(* A settlement out of Active leaves room for every acceptable commitment:  *)
(* its dispute window is open at that very instant, and the account's key   *)
(* and terms are the ones the commitment was tested against.                *)
LEMMA SettleLeavesRoom ==
    ASSUME IInv, NEW c \in Channel, NEW n \in Commitment, Settle(c, n),
           NEW m \in Commitment, CommitmentAcceptable(c, m)
    PROVE  /\ DisputeAllowed(c)'
           /\ \/ CommitmentAcceptable(c, m)'
              \/ m.sequence <= channel'[c].last_sequence
              \/ m.cumulative_paid < channel'[c].last_cumulative_paid
<1>1. /\ channel'[c] = [channel[c] EXCEPT !.last_sequence = n.sequence,
                            !.last_cumulative_paid = n.cumulative_paid,
                            !.settled_at = now, !.status = "Settling"]
      /\ channel[c] \in ChannelType /\ channel'[c] \in ChannelType
    BY SettleEffect DEF IInv
<1>2. /\ channel'[c].status = "Settling" /\ channel'[c].settled_at = now
      /\ channel'[c].last_sequence = n.sequence
      /\ channel'[c].last_cumulative_paid = n.cumulative_paid
      /\ channel'[c].dispute_secs = channel[c].dispute_secs
      /\ channel'[c].deposit_micro = channel[c].deposit_micro
      /\ channel'[c].prepaid_input_micro = channel[c].prepaid_input_micro
      /\ channel'[c].session_key = channel[c].session_key
    BY <1>1 DEF ChannelType
<1>3. DisputeAllowed(c)'
    <2>1. Exists(c)' /\ now' = now /\ now \in Nat /\ channel[c].dispute_secs \in Nat
        BY <1>1, ConstantsAssumption
        DEF Exists, Settle, IInv, TypeOK, ChannelType
    <2> QED
        BY <1>2, <2>1 DEF DisputeAllowed, InStatus, DisputeUntil
<1>4. /\ m.sequence \in Nat /\ m.cumulative_paid \in Nat
      /\ n.sequence \in Nat /\ n.cumulative_paid \in Nat
    BY ConstantsAssumption DEF Commitment, U64
<1>5. ASSUME m.sequence > n.sequence, m.cumulative_paid >= n.cumulative_paid
      PROVE  CommitmentAcceptable(c, m)'
    BY <1>2, <1>5
    DEF CommitmentAcceptable, Supersedes, WithinTerms, SignatureVerifies
<1> QED
    BY <1>2, <1>3, <1>4, <1>5

(* Whoever settles first, with whatever commitment, cannot shut out a newer *)
(* one that the program would itself have settled with.                     *)
THEOREM LatestWins == Spec => LatestCanStillWin
<1> DEFINE StillWins(m) ==
        LET c == m.channel IN
        SettleAllowed(c) /\ CommitmentAcceptable(c, m) /\ InStatus(c, "Settling")' =>
            /\ DisputeAllowed(c)'
            /\ \/ CommitmentAcceptable(c, m)'
               \/ m.sequence <= channel'[c].last_sequence
               \/ m.cumulative_paid < channel'[c].last_cumulative_paid
<1>1. IInv /\ [Next]_vars => [\A m \in Commitment : StillWins(m)]_vars
    <2> SUFFICES ASSUME IInv, Next, NEW m \in Commitment, NEW c \in Channel,
                        c = m.channel, SettleAllowed(c),
                        CommitmentAcceptable(c, m), InStatus(c, "Settling")'
                 PROVE  StillWins(m)
        BY DEF CommitmentAcceptable, Commitment
    <2>0. TypeOK /\ InStatus(c, "Active")
        BY DEF IInv, SettleAllowed
    <2>1. channel'[c] # channel[c]
        BY <2>0 DEF InStatus, Exists
    <2>2. \A n \in Commitment : ~Dispute(c, n)
        BY <2>0 DEF Dispute, DisputeAllowed, InStatus
    <2>3. ~Close(c)
        BY <2>0 DEF Close, TypeOK, InStatus, Exists
    <2>4. ~Tick
        BY <2>1 DEF Tick
    <2>5. ASSUME NEW d \in Channel, d # c
          PROVE  /\ \A key \in SessionKey, t \in Offers : ~OpenChannel(d, key, t)
                 /\ \A n \in Commitment : ~Settle(d, n) /\ ~Dispute(d, n)
                 /\ ~Close(d)
        BY <2>0, <2>1, <2>5 DEF OpenChannel, Settle, Dispute, Close, TypeOK
    <2>6. \A key \in SessionKey, t \in Offers : ~OpenChannel(c, key, t)
        BY <2>0 DEF OpenChannel, InStatus
    <2>7. PICK n \in Commitment : Settle(c, n)
        BY <2>2, <2>3, <2>4, <2>5, <2>6 DEF Next
    <2> QED
        BY <2>7, SettleLeavesRoom
<1> QED
    BY <1>1, Invariance, PTL DEF Spec, LatestCanStillWin

-----------------------------------------------------------------------------
(* Conservation without the sum over all wallets and channels.              *)

(* What a channel and its two parties have together. *)
PartiesHave(c) ==
    vault[c] + wallet[ConsumerOf[c]]
        + IF ProducerOf[c] = ConsumerOf[c] THEN 0 ELSE wallet[ProducerOf[c]]

(* Money moves between the vault and the parties of c, and nowhere else.    *)
MovesWithin(c) ==
    /\ PartiesHave(c)' = PartiesHave(c)
    /\ \A d \in Channel \ {c} : vault'[d] = vault[d]
    /\ \A w \in Wallet \ {ConsumerOf[c], ProducerOf[c]} : wallet'[w] = wallet[w]

LEMMA OpenMovesWithin ==
    ASSUME IInv, NEW c \in Channel, NEW key \in SessionKey, NEW t \in Offers,
           OpenChannel(c, key, t)
    PROVE  MovesWithin(c)
<1> DEFINE from == ConsumerOf[c]
           to == ProducerOf[c]
           amount == t.deposit_micro
<1>1. from \in Wallet /\ to \in Wallet /\ amount \in Nat
    BY ConstantsAssumption DEF OfferType, U64
<1>2. vault \in [Channel -> Nat] /\ wallet \in [Wallet -> Nat]
    BY DEF IInv, TypeOK
<1>3. /\ vault' = [vault EXCEPT ![c] = vault[c] + amount]
      /\ wallet' = [wallet EXCEPT ![from] = wallet[from] - amount]
    BY DEF OpenChannel
<1> HIDE DEF from, to, amount
<1>4. /\ vault'[c] = vault[c] + amount /\ wallet'[from] = wallet[from] - amount
      /\ \A d \in Channel \ {c} : vault'[d] = vault[d]
      /\ \A w \in Wallet \ {from} : wallet'[w] = wallet[w]
    BY <1>1, <1>2, <1>3
<1>5. vault[c] \in Nat /\ wallet[from] \in Nat /\ wallet[to] \in Nat
    BY <1>1, <1>2
<1>6. vault'[c] + wallet'[from] + (IF to = from THEN 0 ELSE wallet'[to])
         = vault[c] + wallet[from] + (IF to = from THEN 0 ELSE wallet[to])
    BY <1>1, <1>4, <1>5
<1> QED
    BY <1>4, <1>6 DEF MovesWithin, PartiesHave, from, to

LEMMA CloseMovesWithin ==
    ASSUME IInv, NEW c \in Channel, Close(c)
    PROVE  MovesWithin(c)
<1> DEFINE consumer == ConsumerOf[c]
           producer == ProducerOf[c]
           paid == PaidAtClose(c)
           refund == RefundAtClose(c)
<1>1. consumer \in Wallet /\ producer \in Wallet
    BY ConstantsAssumption
<1>2. vault \in [Channel -> Nat] /\ wallet \in [Wallet -> Nat]
    BY DEF IInv, TypeOK
<1>3. paid \in Nat /\ refund \in Nat /\ vault[c] = paid + refund
    <2>1. Exists(c)
        BY DEF Close, CloseAllowed, InStatus
    <2> QED
        BY <2>1, PayoutSplits, ConstantsAssumption DEF Close, U64
<1>4. /\ vault' = [vault EXCEPT ![c] = 0]
      /\ wallet' = Credit(Credit(wallet, producer, paid), consumer, refund)
    BY DEF Close
<1> HIDE DEF consumer, producer, paid, refund
<1>5. /\ vault'[c] = 0 /\ \A d \in Channel \ {c} : vault'[d] = vault[d]
      /\ \A w \in Wallet \ {consumer, producer} : wallet'[w] = wallet[w]
    BY <1>1, <1>2, <1>4 DEF Credit
<1>6. /\ producer = consumer => wallet'[consumer] = wallet[consumer] + paid + refund
      /\ producer # consumer => /\ wallet'[consumer] = wallet[consumer] + refund
                                /\ wallet'[producer] = wallet[producer] + paid
    BY <1>1, <1>2, <1>4 DEF Credit
<1>7. wallet[consumer] \in Nat /\ wallet[producer] \in Nat
    BY <1>1, <1>2
<1>8. vault'[c] + wallet'[consumer]
            + (IF producer = consumer THEN 0 ELSE wallet'[producer])
         = vault[c] + wallet[consumer]
            + (IF producer = consumer THEN 0 ELSE wallet[producer])
    BY <1>3, <1>5, <1>6, <1>7
<1> QED
    BY <1>5, <1>8 DEF MovesWithin, PartiesHave, consumer, producer

(* Every step that moves money moves it between one channel's vault and the  *)
(* token accounts of its consumer and producer, to the last micro-USDC, and  *)
(* leaves all other vaults and accounts as they were; so whatever their      *)
(* number, nothing is created or lost.                                       *)
THEOREM MoneyStaysWithParties ==
    Spec => [][UNCHANGED <<vault, wallet>> \/ \E c \in Channel : MovesWithin(c)]_vars
<1>1. IInv /\ [Next]_vars =>
         [UNCHANGED <<vault, wallet>> \/ \E c \in Channel : MovesWithin(c)]_vars
    <2> SUFFICES ASSUME IInv, Next
                 PROVE  UNCHANGED <<vault, wallet>> \/ \E c \in Channel : MovesWithin(c)
        OBVIOUS
    <2>1. CASE Tick
        BY <2>1 DEF Tick
    <2>2. ASSUME NEW c \in Channel, NEW key \in SessionKey, NEW t \in Offers,
                 OpenChannel(c, key, t)
          PROVE  \E d \in Channel : MovesWithin(d)
        BY <2>2, OpenMovesWithin
    <2>3. ASSUME NEW c \in Channel, NEW m \in Commitment, Settle(c, m) \/ Dispute(c, m)
          PROVE  UNCHANGED <<vault, wallet>>
        BY <2>3 DEF Settle, Dispute
    <2>4. ASSUME NEW c \in Channel, Close(c)
          PROVE  \E d \in Channel : MovesWithin(d)
        BY <2>4, CloseMovesWithin
    <2> QED
        BY <2>1, <2>2, <2>3, <2>4 DEF Next
<1> QED
    BY <1>1, Invariance, PTL DEF Spec

-----------------------------------------------------------------------------
(* Conservation, as the sum over all wallets and vaults.                    *)

(* The element the library's sum takes next. *)
Pick(s) == CHOOSE x \in s : TRUE

(* g sums f over the subsets of S, in the order in which Pick takes them. *)
Sums(g, f, S) ==
    g = [s \in SUBSET S |->
            IF s = {} THEN 0 ELSE f[Pick(s)] + g[s \ {Pick(s)}]]

SumOver(f, S) == MapThenSumSet(LAMBDA x : f[x], S)

(* h is f, but for d more at x. *)
Raised(h, f, S, x, d) ==
    \A y \in S : h[y] = f[y] + (IF y = x THEN d ELSE 0)

(* Every nonempty set of numbers has a least one: with it, a claim about all *)
(* sizes of a set is proved by its smallest counterexample.                 *)
LEMMA LeastNumber ==
    ASSUME NEW T \in SUBSET Nat, T # {}
    PROVE  \E n \in T : \A k \in T : n <= k
<1>1. \E n \in T : \A k \in T : <<k, n>> \notin OpToRel(<, Nat)
    BY NatLessThanWellFounded, WFMin, Zenon
<1>2. ASSUME NEW n \in Nat, NEW k \in Nat, <<k, n>> \notin OpToRel(<, Nat)
      PROVE  n <= k
    <2>1. ~(k < n)
        BY <1>2, Zenon DEF OpToRel
    <2> QED
        BY <2>1
<1> QED
    BY <1>1, <1>2

(* What Pick takes from a subset leaves a smaller one. *)
LEMMA PickShrinks ==
    ASSUME NEW S, IsFiniteSet(S), NEW s \in SUBSET S, s # {}
    PROVE  /\ Pick(s) \in s /\ Pick(s) \in S
           /\ s \ {Pick(s)} \in SUBSET S
           /\ Cardinality(s) \in Nat \ {0}
           /\ Cardinality(s \ {Pick(s)}) = Cardinality(s) - 1
<1>1. Pick(s) \in s
    BY DEF Pick
<1>2. IsFiniteSet(s) /\ Cardinality(s) \in Nat
    BY FS_Subset, FS_CardinalityType
<1> QED
    BY <1>1, <1>2, FS_RemoveElement, FS_EmptySet

(* On a finite set the recursion has a solution. *)
LEMMA SumsExist ==
    ASSUME NEW S, IsFiniteSet(S), NEW f \in [S -> Int]
    PROVE  \E g \in [SUBSET S -> Int] : Sums(g, f, S)
<1> DEFINE Small(n) == {s \in SUBSET S : Cardinality(s) <= n}
           Right(g, n) == \A s \in Small(n) :
               g[s] = IF s = {} THEN 0 ELSE f[Pick(s)] + g[s \ {Pick(s)}]
           Reached(n) == \E g \in [Small(n) -> Int] : Right(g, n)
           Missed == {n \in Nat : ~Reached(n)}
<1>1. Reached(0)
    <2> DEFINE g == [s \in Small(0) |-> 0]
    <2>1. \A s \in Small(0) : s = {}
        <3> SUFFICES ASSUME NEW s \in SUBSET S, Cardinality(s) <= 0, s # {}
                     PROVE  FALSE
            OBVIOUS
        <3>1. Cardinality(s) \in Nat \ {0}
            BY PickShrinks
        <3> QED
            BY <3>1
    <2>2. g \in [Small(0) -> Int] /\ Right(g, 0)
        BY <2>1
    <2> QED
        BY <2>2
<1>2. ASSUME NEW n \in Nat, Reached(n)
      PROVE  Reached(n + 1)
    <2>1. PICK g \in [Small(n) -> Int] : Right(g, n)
        BY <1>2
    <2> DEFINE V(s) == IF s = {} THEN 0 ELSE f[Pick(s)] + g[s \ {Pick(s)}]
               h == [s \in Small(n + 1) |-> V(s)]
    <2>2. \A s \in Small(n + 1) :
             s # {} => Pick(s) \in S /\ s \ {Pick(s)} \in Small(n) /\ f[Pick(s)] \in Int
        BY PickShrinks
    <2>3. \A s \in Small(n + 1) : V(s) \in Int
        BY <2>2
    <2>4. \A s \in Small(n) : s \in Small(n + 1) /\ h[s] = g[s]
        <3>1. \A s \in Small(n) : Cardinality(s) \in Nat
            BY FS_Subset, FS_CardinalityType
        <3>2. \A s \in Small(n) : s \in Small(n + 1)
            BY <3>1
        <3> QED
            BY <2>1, <3>2
    <2>5. h \in [Small(n + 1) -> Int]
        BY <2>3
    <2>6. Right(h, n + 1)
        BY <2>2, <2>4
    <2> QED
        BY <2>5, <2>6
<1>3. Missed = {}
    <2> SUFFICES ASSUME Missed # {} PROVE FALSE
        OBVIOUS
    <2> HIDE DEF Reached
    <2>1. PICK n \in Missed : \A k \in Missed : n <= k
        BY LeastNumber
    <2>2. n # 0 /\ n - 1 \in Nat
        BY <1>1, <2>1
    <2>3. Reached(n - 1)
        BY <2>1, <2>2
    <2> QED
        BY <1>2, <2>1, <2>2, <2>3
<1>4. Cardinality(S) \in Nat /\ Small(Cardinality(S)) = SUBSET S
    BY FS_Subset, FS_CardinalityType
<1>5. PICK g \in [SUBSET S -> Int] : Right(g, Cardinality(S))
    BY <1>3, <1>4
<1>6. g = [s \in SUBSET S |-> g[s]]
    BY <1>5
<1>7. Sums(g, f, S)
    BY <1>4, <1>5, <1>6 DEF Sums
<1> QED
    BY <1>5, <1>7

(* F sums f and H sums h, which is f but for d more at x. *)
RaisedSums(S, f, h, x, d, F, H) ==
    /\ IsFiniteSet(S) /\ f \in [S -> Int] /\ x \in S /\ d \in Int
    /\ F \in [SUBSET S -> Int] /\ Sums(F, f, S)
    /\ Raised(h, f, S, x, d) /\ Sums(H, h, S)

(* What changes at one element changes in the sum. *)
LEMMA SumsFollow ==
    ASSUME NEW S, NEW f, NEW h, NEW x, NEW d, NEW F, NEW H,
           RaisedSums(S, f, h, x, d, F, H)
    PROVE  H[S] = F[S] + d
<1> USE DEF RaisedSums
<1> DEFINE Follows(s) == H[s] = F[s] + (IF x \in s THEN d ELSE 0)
           Off == {s \in SUBSET S : ~Follows(s)}
           Sizes == {Cardinality(s) : s \in Off}
<1>1. Follows({})
    BY DEF Sums
<1>2. ASSUME NEW s \in SUBSET S, s # {}, Follows(s \ {Pick(s)})
      PROVE  Follows(s)
    <2> DEFINE p == Pick(s)
               r == s \ {p}
    <2>1. p \in s /\ p \in S /\ r \in SUBSET S
        BY <1>2, PickShrinks
    <2>2. H[s] = h[p] + H[r] /\ F[s] = f[p] + F[r]
        BY <1>2 DEF Sums
    <2>3. F[r] \in Int /\ f[p] \in Int /\ F[s] \in Int
        BY <2>1
    <2>4. h[p] = f[p] + (IF p = x THEN d ELSE 0)
        BY <2>1 DEF Raised
    <2>5. H[r] = F[r] + (IF x \in r THEN d ELSE 0)
        BY <1>2
    <2>6. x \in s <=> (x = p \/ x \in r)
        BY <2>1
    <2>7. x \in r => x # p
        OBVIOUS
    <2> HIDE DEF p, r
    <2> QED
        BY <2>2, <2>3, <2>4, <2>5, <2>6, <2>7
<1>3. Off = {}
    <2> SUFFICES ASSUME Off # {} PROVE FALSE
        OBVIOUS
    <2>1. \A s \in Off : Cardinality(s) \in Nat
        BY FS_Subset, FS_CardinalityType
    <2> HIDE DEF Off
    <2>2. PICK n \in Sizes : \A k \in Sizes : n <= k
        <3>1. Sizes \in SUBSET Nat /\ Sizes # {}
            BY <2>1
        <3> QED
            BY <3>1, LeastNumber
    <2> USE DEF Off
    <2>3. PICK s \in Off : n = Cardinality(s)
        BY <2>2
    <2>4. s # {}
        BY <1>1, <2>3
    <2>5. /\ s \ {Pick(s)} \in SUBSET S /\ Cardinality(s) \in Nat
          /\ Cardinality(s \ {Pick(s)}) = Cardinality(s) - 1
        BY <2>4, PickShrinks
    <2>6. ~(n <= Cardinality(s \ {Pick(s)}))
        BY <2>3, <2>5
    <2>7. s \ {Pick(s)} \notin Off
        BY <2>2, <2>6
    <2> QED
        BY <1>2, <2>3, <2>4, <2>5, <2>7
<1> QED
    BY <1>3

(* The sum MoneyConserved is written with is one of these. *)
LEMMA SumDef ==
    ASSUME NEW S, IsFiniteSet(S), NEW f \in [S -> Int]
    PROVE  \E F : Sums(F, f, S) /\ SumOver(f, S) = F[S]
<1> DEFINE R(F) == Sums(F, f, S)
<1>1. SumOver(f, S) = (CHOOSE F : R(F))[S]
    BY DEF SumOver, MapThenSumSet, MapThenFoldSet, Sums, Pick
<1>2. \E F : R(F)
    BY SumsExist
<1>3. R(CHOOSE F : R(F))
    BY <1>2
<1> QED
    BY <1>1, <1>3

LEMMA SumIsOne ==
    ASSUME NEW S, IsFiniteSet(S), NEW f \in [S -> Int],
           NEW F \in [SUBSET S -> Int], Sums(F, f, S)
    PROVE  SumOver(f, S) = F[S]
<1>1. PICK G : Sums(G, f, S) /\ SumOver(f, S) = G[S]
    BY SumDef
<1>2. CASE S = {}
    BY <1>1, <1>2 DEF Sums
<1>3. CASE S # {}
    <2>1. PICK x \in S : TRUE
        BY <1>3
    <2>2. RaisedSums(S, f, f, x, 0, F, G)
        BY <1>1 DEF RaisedSums, Raised
    <2>3. G[S] = F[S] + 0 /\ F[S] \in Int
        BY <2>2, SumsFollow
    <2> QED
        BY <1>1, <2>3
<1> QED
    BY <1>2, <1>3

LEMMA SumIsInt ==
    ASSUME NEW S, IsFiniteSet(S), NEW f \in [S -> Int]
    PROVE  SumOver(f, S) \in Int
<1>1. PICK F \in [SUBSET S -> Int] : Sums(F, f, S)
    BY SumsExist
<1> QED
    BY <1>1, SumIsOne

LEMMA SumOfZeros ==
    ASSUME NEW S, IsFiniteSet(S)
    PROVE  SumOver([x \in S |-> 0], S) = 0
<1> DEFINE f == [x \in S |-> 0]
           F == [s \in SUBSET S |-> 0]
<1>1. f \in [S -> Int] /\ F \in [SUBSET S -> Int] /\ F[S] = 0
    OBVIOUS
<1>2. Sums(F, f, S)
    <2>1. \A s \in SUBSET S : s # {} => f[Pick(s)] = 0 /\ F[s \ {Pick(s)}] = 0
        BY PickShrinks
    <2>2. \A s \in SUBSET S : F[s] = 0
        OBVIOUS
    <2> HIDE DEF f, F
    <2>3. \A s \in SUBSET S :
             F[s] = IF s = {} THEN 0 ELSE f[Pick(s)] + F[s \ {Pick(s)}]
        BY <2>1, <2>2
    <2>4. F = [s \in SUBSET S |-> F[s]]
        BY <1>1
    <2> QED
        BY <2>3, <2>4 DEF Sums
<1> HIDE DEF f, F
<1> QED
    BY <1>1, <1>2, SumIsOne DEF f

(* So a sum over all accounts follows each transfer, whatever their number. *)
LEMMA SumChanges ==
    ASSUME NEW S, IsFiniteSet(S), NEW f \in [S -> Int], NEW h \in [S -> Int],
           NEW x \in S, NEW d \in Int, Raised(h, f, S, x, d)
    PROVE  /\ SumOver(f, S) \in Int
           /\ SumOver(h, S) = SumOver(f, S) + d
<1>1. PICK F \in [SUBSET S -> Int] : Sums(F, f, S)
    BY SumsExist
<1>2. PICK H : Sums(H, h, S) /\ SumOver(h, S) = H[S]
    BY SumDef
<1>3. RaisedSums(S, f, h, x, d, F, H)
    BY <1>1, <1>2 DEF RaisedSums
<1>4. SumOver(f, S) = F[S] /\ F[S] \in Int
    BY <1>1, SumIsOne
<1> QED
    BY <1>2, <1>3, <1>4, SumsFollow

(* What is in wallets and vaults together. *)
Total == SumOver(wallet, Wallet) + SumOver(vault, Channel)

LEMMA TotalKeptByOpen ==
    ASSUME IInv, NEW c \in Channel, NEW key \in SessionKey, NEW t \in Offers,
           OpenChannel(c, key, t), TypeOK'
    PROVE  Total' = Total
<1> DEFINE from == ConsumerOf[c]
           amount == t.deposit_micro
<1>1. from \in Wallet /\ amount \in Nat
    BY ConstantsAssumption DEF OfferType, U64
<1>2. /\ vault \in [Channel -> Int] /\ wallet \in [Wallet -> Int]
      /\ vault' \in [Channel -> Int] /\ wallet' \in [Wallet -> Int]
    BY DEF IInv, TypeOK
<1>3. /\ vault' = [vault EXCEPT ![c] = @ + amount]
      /\ wallet' = [wallet EXCEPT ![from] = @ - amount]
    BY DEF OpenChannel
<1> HIDE DEF from, amount
<1>4. Raised(vault', vault, Channel, c, amount) /\ amount \in Int
    BY <1>1, <1>2, <1>3 DEF Raised
<1>5. Raised(wallet', wallet, Wallet, from, -amount) /\ -amount \in Int
    BY <1>1, <1>2, <1>3 DEF Raised
<1>6. /\ SumOver(vault, Channel) \in Int
      /\ SumOver(vault', Channel) = SumOver(vault, Channel) + amount
    BY <1>2, <1>4, AccountsAssumption, SumChanges
<1>7. /\ SumOver(wallet, Wallet) \in Int
      /\ SumOver(wallet', Wallet) = SumOver(wallet, Wallet) + (-amount)
    BY <1>1, <1>2, <1>5, AccountsAssumption, SumChanges
<1>8. Total' = SumOver(wallet', Wallet) + SumOver(vault', Channel)
    BY DEF Total
<1> QED
    BY <1>1, <1>6, <1>7, <1>8 DEF Total

LEMMA TotalKeptByClose ==
    ASSUME IInv, NEW c \in Channel, Close(c), TypeOK'
    PROVE  Total' = Total
<1> DEFINE producer == ProducerOf[c]
           consumer == ConsumerOf[c]
           paid == PaidAtClose(c)
           refund == RefundAtClose(c)
<1>1. producer \in Wallet /\ consumer \in Wallet
    BY ConstantsAssumption
<1>2. /\ vault \in [Channel -> Int] /\ wallet \in [Wallet -> Int]
      /\ vault' \in [Channel -> Int] /\ wallet' \in [Wallet -> Int]
    BY DEF IInv, TypeOK
<1>3. paid \in Nat /\ refund \in Nat /\ vault[c] = paid + refund
    <2>1. Exists(c)
        BY DEF Close, CloseAllowed, InStatus
    <2> QED
        BY <2>1, PayoutSplits, ConstantsAssumption DEF Close, U64
<1>4. /\ vault' = [vault EXCEPT ![c] = 0]
      /\ wallet' = Credit(Credit(wallet, producer, paid), consumer, refund)
    BY DEF Close
<1> HIDE DEF producer, consumer, paid, refund
<1> DEFINE between == Credit(wallet, producer, paid)
<1>5. between \in [Wallet -> Int]
    BY <1>1, <1>2, <1>3 DEF Credit
<1>6. Raised(vault', vault, Channel, c, -(paid + refund)) /\ -(paid + refund) \in Int
    BY <1>2, <1>3, <1>4 DEF Raised
<1>7. Raised(between, wallet, Wallet, producer, paid) /\ paid \in Int
    BY <1>1, <1>2, <1>3 DEF Raised, Credit
<1>8. Raised(wallet', between, Wallet, consumer, refund) /\ refund \in Int
    BY <1>1, <1>3, <1>4, <1>5 DEF Raised, Credit
<1> HIDE DEF between
<1>9. /\ SumOver(vault, Channel) \in Int
      /\ SumOver(vault', Channel) = SumOver(vault, Channel) + (-(paid + refund))
    BY <1>2, <1>6, AccountsAssumption, SumChanges
<1>10. /\ SumOver(wallet, Wallet) \in Int
       /\ SumOver(between, Wallet) = SumOver(wallet, Wallet) + paid
    BY <1>1, <1>2, <1>5, <1>7, AccountsAssumption, SumChanges
<1>11. SumOver(wallet', Wallet) = SumOver(between, Wallet) + refund
    BY <1>1, <1>2, <1>5, <1>8, AccountsAssumption, SumChanges
<1>12. Total' = SumOver(wallet', Wallet) + SumOver(vault', Channel)
    BY DEF Total
<1> QED
    BY <1>3, <1>9, <1>10, <1>11, <1>12 DEF Total

(* No USDC is created or lost, however many wallets and channels there are: *)
(* what open_channel takes from a wallet is in a vault, and what close pays *)
(* and refunds is what was in it.                                           *)
THEOREM NothingCreatedOrLost == Spec => []MoneyConserved
<1> DEFINE Conserved == Total = SumOver(Balances, Wallet)
<1>1. Init => Conserved
    <2> SUFFICES ASSUME Init PROVE Conserved
        OBVIOUS
    <2>1. Balances \in [Wallet -> Int]
        BY ConstantsAssumption
    <2>2. wallet = Balances /\ vault = [c \in Channel |-> 0]
        BY DEF Init
    <2>3. SumOver([c \in Channel |-> 0], Channel) = 0
        BY AccountsAssumption, SumOfZeros
    <2>4. SumOver(Balances, Wallet) \in Int
        BY <2>1, AccountsAssumption, SumIsInt
    <2> QED
        BY <2>2, <2>3, <2>4 DEF Total
<1>2. IInv /\ Conserved /\ [Next]_vars => Conserved'
    <2> SUFFICES ASSUME IInv, Conserved, [Next]_vars PROVE Conserved'
        OBVIOUS
    <2>0. TypeOK'
        BY NextIInv DEF IInv
    <2>1. CASE UNCHANGED <<vault, wallet>>
        <3>1. Total' = SumOver(wallet', Wallet) + SumOver(vault', Channel)
            BY DEF Total
        <3> QED
            BY <2>1, <3>1 DEF Total
    <2>2. ASSUME NEW c \in Channel, NEW key \in SessionKey, NEW t \in Offers,
                 OpenChannel(c, key, t)
          PROVE  Conserved'
        BY <2>0, <2>2, TotalKeptByOpen
    <2>3. ASSUME NEW c \in Channel, Close(c)
          PROVE  Conserved'
        BY <2>0, <2>3, TotalKeptByClose
    <2> QED
        BY <2>1, <2>2, <2>3 DEF Next, Tick, Settle, Dispute, vars
<1>3. Conserved => MoneyConserved
    BY DEF Total, SumOver, MoneyConserved
<1> QED
    BY <1>1, <1>2, <1>3, Invariance, PTL DEF Spec
=============================================================================
