---------------------------- MODULE ActiveChannel ----------------------------
(***************************************************************************)
(* What the producer keeps in memory of one open channel, and the tests    *)
(* its generators and its /commit handler make on it.  One object serves   *)
(* every stream of the channel: Stream has one of them, SharedChannel      *)
(* several.                                                                *)
(***************************************************************************)
EXTENDS Integers

CONSTANTS
    Price,          \* output_price_micro
    Prepaid,        \* prepaid_input_micro, the settlement floor
    Deposit,        \* deposit_micro
    MaxUnpaid,      \* max_unpaid_micro, the producer's cap
    PauseTimeout,   \* pause_timeout_ms, in ticks
    MaxTokens,      \* BOUND on the tokens generated on the channel
    NoCommit        \* Python's None

ASSUME TermsAssumption ==
    /\ Price \in Nat \ {0} /\ Prepaid \in Nat /\ Deposit \in Nat
    /\ Prepaid <= Deposit
    /\ MaxUnpaid \in Nat \ {0}
    /\ PauseTimeout \in Nat /\ MaxTokens \in Nat

Commitment == [sequence : Nat, cumulative_paid : Nat]

ASSUME NoCommitAssumption == NoCommit \notin Commitment

VARIABLES
    tokens_delivered,
    last_commitment,    \* Commitment or NoCommit
    silence,            \* ticks since last_commit_at_ms
    halted

(* Before any commitment the floor counts as paid. *)
CumulativePaid == IF last_commitment = NoCommit THEN Prepaid
                  ELSE last_commitment.cumulative_paid

CommittedOutput == IF CumulativePaid > Prepaid THEN CumulativePaid - Prepaid ELSE 0

UnpaidValue == tokens_delivered * Price - CommittedOutput

ShouldPause == UnpaidValue >= MaxUnpaid

(* Variant: no pause timeout. *)
ShouldHaltIgnoringSilence == halted

ShouldHalt == halted \/ silence >= PauseTimeout

(* Variant: an equal amount is refused too. *)
AcceptableIfMore(m) ==
    /\ last_commitment # NoCommit =>
          /\ m.sequence > last_commitment.sequence
          /\ m.cumulative_paid > last_commitment.cumulative_paid
    /\ m.cumulative_paid >= Prepaid
    /\ m.cumulative_paid <= Deposit

(* Variant: no commitment may be missed. *)
AcceptableInTurn(m) ==
    /\ m.sequence = IF last_commitment = NoCommit THEN 1
                    ELSE last_commitment.sequence + 1
    /\ m.cumulative_paid >= CumulativePaid
    /\ m.cumulative_paid <= Deposit

(* accept_commitment, the signature and the channel being the right ones. *)
Acceptable(m) ==
    /\ last_commitment # NoCommit =>
          /\ m.sequence > last_commitment.sequence
          /\ m.cumulative_paid >= last_commitment.cumulative_paid
    /\ m.cumulative_paid >= Prepaid
    /\ m.cumulative_paid <= Deposit

Later(clock) == IF clock < PauseTimeout THEN clock + 1 ELSE clock

=============================================================================
