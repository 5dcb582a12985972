--------------------------- MODULE ConsumerSession ---------------------------
(***************************************************************************)
(* The state a consumer's session keeps across its reads (_SessionState    *)
(* and the batcher's k), and its pure parts.  Session and producer are of  *)
(* the same terms, which is Opening's ViewsAgree; hence the constants of   *)
(* ActiveChannel serve both.                                               *)
(***************************************************************************)
EXTENDS ActiveChannel

CONSTANT KMax       \* k_max of the batcher; TypeScript: commitEveryTokens

ASSUME BatchAssumption == KMax \in Nat \ {0}

VARIABLES
    tokens_received,
    cumulative_paid,
    since_commit,       \* tokens_since_last_commit
    k

(* Variant: off by one. *)
ShouldCommitLate == since_commit > k

ShouldCommit == since_commit >= k

(* Variant: doubles past k_max. *)
UpdatedKUncapped(unpaid) ==
    CASE unpaid * 100 >= 85 * MaxUnpaid /\ k > 1 -> k \div 2
      [] unpaid * 100 <= 30 * MaxUnpaid -> 2 * k
      [] OTHER -> k

(* AdaptiveBatcher.update. *)
UpdatedK(unpaid) ==
    CASE unpaid * 100 >= 85 * MaxUnpaid /\ k > 1 -> k \div 2
      [] unpaid * 100 <= 30 * MaxUnpaid /\ k < KMax ->
            IF 2 * k > KMax THEN KMax ELSE 2 * k
      [] OTHER -> k

ConsumerUnpaid(tokens) == tokens * Price

(* Variant: no deposit ceiling. *)
WithTokenUncapped(paid) == paid + Price

(* What a received token adds to the authorised amount. *)
WithToken(paid) == IF paid + Price > Deposit THEN Deposit ELSE paid + Price

=============================================================================
