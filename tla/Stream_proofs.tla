---------------------------- MODULE Stream_proofs ----------------------------
(***************************************************************************)
(* Proofs about Stream: the producer's exposure, the consumer's, and that  *)
(* what an honest session signs is accepted by the producer, for every     *)
(* price, cap, deposit and batch size.                                     *)
(***************************************************************************)
EXTENDS Stream, TLAPS

(* The producer's gate: a token past it was affordable, and commitments     *)
(* only lower the unpaid value after that.                                  *)
GateInv == /\ generator = "pacing" => UnpaidValue < MaxUnpaid
           /\ UnpaidValue < MaxUnpaid + Price

(* Token frames are neither lost nor duplicated on the SSE connection; the  *)
(* frame after them is written once, when the generator returns, and is     *)
(* counted as a token only by a TypeScript session.                         *)
FramesInv == /\ unread \in Nat /\ tokens_received \in Nat
             /\ tokens_delivered \in Nat
             /\ tokens_received + unread = tokens_delivered + ErrorFrames
             /\ ending = "error_read" => sdk = "typescript"
             /\ generator # "returned" => ending = "open"

(* The session's authorised amount against what it received.                *)
PaidInv == /\ cumulative_paid \in Nat
           /\ Prepaid <= cumulative_paid /\ cumulative_paid <= Deposit
           /\ cumulative_paid <= Prepaid + tokens_received * Price

(* A commitment somewhere in the system lies within the session's.          *)
Within(m) == /\ m \in Commitment
             /\ m.sequence > 0
             /\ Prepaid <= m.cumulative_paid
             /\ m.cumulative_paid <= cumulative_paid

(* The accepted commitment trails the signed one, strictly while the signed *)
(* one is still on its way.                                                 *)
CommitInv ==
    /\ posted # NoCommit => Within(posted)
    /\ last_commitment # NoCommit =>
          /\ Within(last_commitment)
          /\ posted # NoCommit
          /\ last_commitment.sequence <= posted.sequence
          /\ last_commitment.cumulative_paid <= posted.cumulative_paid
    /\ presented # NoCommit => Within(presented)
    /\ post = "request" =>
          /\ posted # NoCommit
          /\ last_commitment # NoCommit =>
                last_commitment.sequence < posted.sequence

IInv == GateInv /\ FramesInv /\ PaidInv /\ CommitInv

-----------------------------------------------------------------------------
(* Arithmetic of prices. *)

LEMMA OneMoreToken ==
    ASSUME NEW n \in Nat
    PROVE  /\ n * Price \in Nat
           /\ (n + 1) * Price = n * Price + Price
<1>1. Price \in Nat
    BY TermsAssumption, BatchAssumption
<1> QED
    BY <1>1

LEMMA FewerTokensCostLess ==
    ASSUME NEW m \in Nat, NEW n \in Nat, m <= n
    PROVE  m * Price <= n * Price
<1>1. Price \in Nat
    BY TermsAssumption, BatchAssumption
<1> QED
    BY <1>1

-----------------------------------------------------------------------------
LEMMA InitIInv == Init => IInv
<1> SUFFICES ASSUME Init PROVE IInv
    OBVIOUS
<1>1. UnpaidValue = 0
    BY TermsAssumption, BatchAssumption DEF Init, UnpaidValue, CommittedOutput, CumulativePaid
<1>2. GateInv
    BY <1>1, TermsAssumption, BatchAssumption DEF Init, GateInv
<1> QED
    BY <1>2, TermsAssumption, BatchAssumption
    DEF Init, IInv, FramesInv, ErrorFrames, PaidInv, CommitInv

(* Unpaid value is an integer, and accepting a commitment never raises it.  *)
LEMMA UnpaidIsInt ==
    ASSUME IInv PROVE UnpaidValue \in Int /\ CommittedOutput \in Nat
<1>1. CumulativePaid \in Nat
    BY TermsAssumption, BatchAssumption DEF CumulativePaid, IInv, CommitInv, Within, Commitment
<1>2. CommittedOutput \in Nat
    BY <1>1, TermsAssumption, BatchAssumption DEF CommittedOutput
<1>3. tokens_delivered * Price \in Nat
    BY OneMoreToken DEF IInv, FramesInv
<1> QED
    BY <1>2, <1>3 DEF UnpaidValue

(* The signing step shared by batch, final and evaluator commits.           *)
LEMMA SigningKeepsCommits ==
    ASSUME IInv, NEW next, SendCommit(next),
           UNCHANGED <<last_commitment, presented>>
    PROVE  CommitInv'
<1>1. NextSequence \in Nat /\ NextSequence > 0
      /\ (posted # NoCommit => posted.sequence < NextSequence)
    BY DEF NextSequence, IInv, CommitInv, Within, Commitment
<1>2. posted' \in Commitment /\ posted' # NoCommit
    BY <1>1, NoCommitAssumption DEF SendCommit, IInv, PaidInv, Commitment
<1>3. posted'.sequence = NextSequence /\ posted'.cumulative_paid = cumulative_paid
      /\ cumulative_paid' = cumulative_paid
    BY DEF SendCommit
<1>4. Within(posted)'
    BY <1>1, <1>2, <1>3 DEF Within, IInv, PaidInv
<1>5. ASSUME last_commitment # NoCommit
      PROVE  /\ Within(last_commitment)'
             /\ last_commitment'.sequence < posted'.sequence
             /\ last_commitment'.cumulative_paid <= posted'.cumulative_paid
    BY <1>1, <1>3, <1>5 DEF IInv, CommitInv, Within, Commitment
<1>6. presented # NoCommit => Within(presented)'
    BY <1>3 DEF IInv, CommitInv, Within
<1>7. last_commitment' # NoCommit => last_commitment'.sequence <= posted'.sequence
    BY <1>1, <1>2, <1>5 DEF IInv, CommitInv, Within, Commitment
<1> QED
    BY <1>2, <1>4, <1>5, <1>6, <1>7 DEF CommitInv

(* Steps that touch neither money, frames nor the gate.                     *)
LEMMA QuietStep ==
    ASSUME IInv,
           UNCHANGED <<tokens_delivered, last_commitment, unread, tokens_received,
                       cumulative_paid, posted, presented, sdk>>,
           \/ ending' = ending
           \/ ending = "open" /\ ending' # "error_read",
           generator' # "returned" => generator # "returned" /\ ending' = ending,
           post' = "request" => post = "request",
           generator' = "pacing" => generator = "pacing" \/ ~ShouldPause
    PROVE  IInv'
<1>1. UnpaidValue' = UnpaidValue
    BY DEF UnpaidValue, CommittedOutput, CumulativePaid
<1>2. UnpaidValue \in Int
    BY UnpaidIsInt
<1>3. GateInv'
    BY <1>1, <1>2, TermsAssumption, BatchAssumption DEF IInv, GateInv, ShouldPause
<1>4. FramesInv'
    BY DEF IInv, FramesInv, ErrorFrames
<1> QED
    BY <1>3, <1>4 DEF IInv, PaidInv, CommitInv, Within

LEMMA SigningStep ==
    ASSUME IInv, NEW next, SendCommit(next), UNCHANGED <<wire, producerVars, settleVars>>
    PROVE  IInv'
<1>1. CommitInv'
    BY SigningKeepsCommits DEF producerVars, settleVars
<1>2. UnpaidValue' = UnpaidValue /\ generator' = generator
    BY DEF UnpaidValue, CommittedOutput, CumulativePaid, producerVars
<1>3. GateInv' /\ FramesInv' /\ PaidInv'
    BY <1>2 DEF IInv, GateInv, FramesInv, ErrorFrames, PaidInv, SendCommit,
                producerVars, wire
<1> QED
    BY <1>1, <1>3 DEF IInv

LEMMA NextIInv == IInv /\ [Next]_vars => IInv'
<1> SUFFICES ASSUME IInv, [Next]_vars PROVE IInv'
    OBVIOUS
<1> USE DEF producerVars, settleVars, consumerVars, wire
<1>1. CASE UNCHANGED vars
    BY <1>1, QuietStep DEF vars
<1>2. CASE ModelStep
    BY <1>2, QuietStep
    DEF ModelStep, ModelYields, ModelEnds, ModelFails, EndStream, IInv, FramesInv
<1>3. CASE StartStream \/ PassGate \/ HaltStream \/ ResumeAfterYield
    BY <1>3, QuietStep
    DEF StartStream, PassGate, HaltStream, ResumeAfterYield, EndStream, IInv, FramesInv
<1>4. CASE EmitToken
    <2>1. UnpaidValue' = UnpaidValue + Price
        <3>1. (tokens_delivered + 1) * Price = tokens_delivered * Price + Price
              /\ tokens_delivered * Price \in Nat
            BY OneMoreToken DEF IInv, FramesInv
        <3>2. CommittedOutput' = CommittedOutput /\ CommittedOutput \in Nat
            BY <1>4, UnpaidIsInt DEF EmitToken, CommittedOutput, CumulativePaid
        <3> QED
            BY <1>4, <3>1, <3>2, TermsAssumption, BatchAssumption DEF EmitToken, UnpaidValue
    <2>2. GateInv'
        BY <1>4, <2>1, UnpaidIsInt, TermsAssumption, BatchAssumption DEF EmitToken, IInv, GateInv
    <2>3. FramesInv'
        BY <1>4 DEF EmitToken, IInv, FramesInv, ErrorFrames
    <2> QED
        BY <1>4, <2>2, <2>3 DEF EmitToken, IInv, PaidInv, CommitInv, Within
<1>5. CASE ClientGone
    BY <1>5, QuietStep DEF ClientGone, EndStream, IInv, FramesInv
<1>6. CASE SkipSettle \/ SettleReturns
    BY <1>6, QuietStep DEF SkipSettle, SettleReturns
<1>7. CASE SubmitSettle
    <2>1. UnpaidValue' = UnpaidValue /\ generator' = generator
        BY <1>7 DEF SubmitSettle, UnpaidValue, CommittedOutput, CumulativePaid
    <2> QED
        BY <1>7, <2>1
        DEF SubmitSettle, IInv, GateInv, FramesInv, ErrorFrames, PaidInv, CommitInv,
            Within
<1>8. CASE AcceptCommit
    <2>1. posted # NoCommit /\ Within(posted) /\ Acceptable(posted)
        BY <1>8 DEF AcceptCommit, IInv, CommitInv
    <2>2. UnpaidValue' <= UnpaidValue
        <3>1. CumulativePaid \in Nat /\ CumulativePaid <= posted.cumulative_paid
            BY <2>1, TermsAssumption, BatchAssumption
            DEF CumulativePaid, Acceptable, IInv, CommitInv, Within, Commitment
        <3>2. CumulativePaid' = posted.cumulative_paid /\ posted.cumulative_paid \in Nat
            BY <1>8, <2>1 DEF AcceptCommit, CumulativePaid, Within, Commitment
        <3>3. CommittedOutput <= CommittedOutput' /\ CommittedOutput' \in Nat
              /\ CommittedOutput \in Nat
            BY <3>1, <3>2, TermsAssumption, BatchAssumption DEF CommittedOutput
        <3>4. tokens_delivered * Price \in Nat /\ tokens_delivered' = tokens_delivered
            BY <1>8, OneMoreToken DEF AcceptCommit, IInv, FramesInv
        <3> QED
            BY <3>3, <3>4 DEF UnpaidValue
    <2>3. UnpaidValue' \in Int
        BY <1>8, <2>1, OneMoreToken, TermsAssumption, BatchAssumption
        DEF AcceptCommit, UnpaidValue, CommittedOutput, CumulativePaid, IInv,
            FramesInv, Within, Commitment
    <2>4. GateInv'
        BY <1>8, <2>2, <2>3, UnpaidIsInt, TermsAssumption, BatchAssumption DEF AcceptCommit, IInv, GateInv
    <2>5. CommitInv'
        BY <1>8, <2>1 DEF AcceptCommit, IInv, CommitInv, Within, Commitment
    <2> QED
        BY <1>8, <2>4, <2>5 DEF AcceptCommit, IInv, FramesInv, ErrorFrames, PaidInv
<1>9. CASE RefuseCommit \/ LosePost \/ Tick \/ SessionAborts
    BY <1>9, QuietStep DEF RefuseCommit, LosePost, Tick, SessionAborts
<1>10. CASE ReadToken \/ ReadErrorAsToken
    <2>1. UnpaidValue' = UnpaidValue /\ generator' = generator
        BY <1>10
        DEF ReadToken, ReadErrorAsToken, UnpaidValue, CommittedOutput, CumulativePaid
    <2>2. FramesInv'
        BY <1>10
        DEF ReadToken, ReadErrorAsToken, AbsorbToken, IInv, FramesInv, ErrorFrames
    <2>3. PaidInv' /\ cumulative_paid <= cumulative_paid'
        <3>1. (tokens_received + 1) * Price = tokens_received * Price + Price
              /\ tokens_received * Price \in Nat
            BY OneMoreToken DEF IInv, FramesInv
        <3> QED
            BY <1>10, <3>1, TermsAssumption, BatchAssumption
            DEF ReadToken, ReadErrorAsToken, AbsorbToken, WithToken, IInv, PaidInv
    <2>4. CommitInv'
        BY <1>10, <2>3
        DEF ReadToken, ReadErrorAsToken, IInv, CommitInv, Within, Commitment, PaidInv
    <2> QED
        BY <2>1, <2>2, <2>3, <2>4 DEF IInv, GateInv
<1>11. CASE ReadDone \/ EvaluatorHalts \/ BatchCommit
    BY <1>11, SigningStep DEF ReadDone, EvaluatorHalts, BatchCommit
<1>12. CASE ReadError \/ DetectorHalts \/ KeepReading \/ CommitReturns \/ FinalCommitReturns
    BY <1>12, QuietStep
    DEF ReadError, DetectorHalts, KeepReading, CommitReturns, FinalCommitReturns
<1> QED
    BY <1>1, <1>2, <1>3, <1>4, <1>5, <1>6, <1>7, <1>8, <1>9, <1>10, <1>11, <1>12
    DEF Next, GeneratorStep, SettleStep, CommitStep, SessionStep

(* The inductive invariant of the stream.                                   *)
THEOREM Invariance == Spec => []IInv
<1> QED
    BY InitIInv, NextIInv, PTL DEF Spec

(* The producer never has a full token's price beyond its cap outstanding.  *)
THEOREM Exposure == Spec => []ExposureBounded
<1>1. IInv => ExposureBounded
    BY DEF IInv, GateInv, ExposureBounded
<1> QED
    BY <1>1, Invariance, PTL

(* Nobody ever holds a commitment for more than was delivered.              *)
THEOREM NoOverpayment == Spec => []NeverPaysAhead
<1>1. IInv => NeverPaysAhead
    <2> SUFFICES ASSUME IInv,
                        NEW m \in {posted, last_commitment, presented} \ {NoCommit}
                 PROVE  /\ m.cumulative_paid
                              <= Prepaid + (tokens_delivered + ErrorFrames) * Price
                        /\ m.cumulative_paid <= Deposit
        BY DEF NeverPaysAhead
    <2>1. Within(m) /\ m.cumulative_paid \in Nat
        BY DEF IInv, CommitInv, Within, Commitment
    <2>2. /\ tokens_delivered + ErrorFrames \in Nat /\ tokens_received \in Nat
          /\ tokens_received <= tokens_delivered + ErrorFrames
        BY DEF IInv, FramesInv, ErrorFrames
    <2>3. /\ tokens_received * Price <= (tokens_delivered + ErrorFrames) * Price
          /\ tokens_received * Price \in Nat
          /\ (tokens_delivered + ErrorFrames) * Price \in Nat
        BY <2>2, FewerTokensCostLess, OneMoreToken
    <2> QED
        BY <2>1, <2>3, TermsAssumption, BatchAssumption DEF IInv, PaidInv, Within
<1> QED
    BY <1>1, Invariance, PTL

LEMMA HonestFromInvariant == IInv => HonestCommitAccepted
<1> QED
    BY TermsAssumption, BatchAssumption
    DEF IInv, CommitInv, PaidInv, Within, Commitment, HonestCommitAccepted, Acceptable

(* An honest commitment is never refused while the channel is registered.   *)
THEOREM HonestAccepted == Spec => []HonestCommitAccepted
<1> QED
    BY HonestFromInvariant, Invariance, PTL

-----------------------------------------------------------------------------
(* No mutual stall.  The strengthening says how the session's count of      *)
(* tokens since its last commitment relates to what the producer has        *)
(* accepted whenever no POST is under way.                                  *)

BatchInv == /\ since_commit \in Nat /\ since_commit <= tokens_received
            /\ k \in 1..KMax
            /\ session = "reading" => since_commit < k

OutputInv == /\ tokens_delivered <= MaxTokens
             /\ generator \in {"gated", "pacing"} => tokens_delivered < MaxTokens
             /\ generator \notin {"returned", "dropped"} =>
                   registered /\ settlement = "idle"

PostInv ==
    /\ session \in {"reading", "yielded"} => post = "none"
    /\ session = "posting" => /\ posted # NoCommit
                              /\ posted.cumulative_paid = cumulative_paid
    /\ session = "posting" /\ post = "answered" /\ registered =>
          last_commitment = posted

SyncInv ==
    DepositCoversOutput /\ ending # "error_read" =>
        /\ cumulative_paid = Prepaid + tokens_received * Price
        /\ registered /\ session \in {"reading", "yielded"} =>
              CumulativePaid = Prepaid + (tokens_received - since_commit) * Price

StallInv == BatchInv /\ OutputInv /\ PostInv /\ SyncInv

LEMMA FewerTokens ==
    ASSUME NEW m \in Nat, NEW n \in Nat, m <= n
    PROVE  (n - m) * Price = n * Price - m * Price
<1>1. Price \in Nat
    BY TermsAssumption, BatchAssumption
<1> QED
    BY <1>1

LEMMA InitStallInv == Init => StallInv
<1> SUFFICES ASSUME Init PROVE StallInv
    OBVIOUS
<1>1. 0 * Price = 0 /\ (0 - 0) * Price = 0
    BY TermsAssumption, BatchAssumption
<1>2. SyncInv
    BY <1>1, TermsAssumption, BatchAssumption DEF Init, SyncInv, CumulativePaid
<1> QED
    BY <1>2, TermsAssumption, BatchAssumption DEF Init, StallInv, BatchInv, OutputInv, PostInv

(* Steps of the generator and the settle task: the session is untouched and *)
(* a channel never comes back into the registry.                            *)
LEMMA ProducerKeepsSync ==
    ASSUME StallInv,
           UNCHANGED <<last_commitment, post, posted, session, tokens_received,
                       cumulative_paid, since_commit, k>>,
           ending = "error_read" => ending' = "error_read",
           registered' => registered,
           OutputInv'
    PROVE  StallInv'
<1>1. BatchInv' /\ PostInv'
    BY DEF StallInv, BatchInv, PostInv
<1>2. SyncInv'
    BY DEF StallInv, SyncInv, CumulativePaid, DepositCoversOutput
<1> QED
    BY <1>1, <1>2 DEF StallInv

LEMMA BatchSizeInRange ==
    ASSUME k \in 1..KMax, NEW unpaid \in Int
    PROVE  UpdatedK(unpaid) \in 1..KMax
<1>1. k > 1 => k \div 2 \in 1..KMax
    BY TermsAssumption, BatchAssumption
<1>2. (IF 2 * k > KMax THEN KMax ELSE 2 * k) \in 1..KMax
    BY TermsAssumption, BatchAssumption
<1> QED
    BY <1>1, <1>2 DEF UpdatedK

LEMMA NextStallInv == IInv /\ StallInv /\ [Next]_vars => StallInv'
<1> SUFFICES ASSUME IInv, StallInv, [Next]_vars PROVE StallInv'
    OBVIOUS
<1> USE DEF producerVars, settleVars, consumerVars, wire
<1>1. CASE UNCHANGED vars \/ Tick
    BY <1>1, ProducerKeepsSync DEF vars, Tick, StallInv, OutputInv
<1>2. CASE StartStream \/ PassGate \/ HaltStream \/ ResumeAfterYield \/ ModelStep
    <2>1. OutputInv'
        BY <1>2
        DEF StallInv, OutputInv, StartStream, PassGate, HaltStream, ResumeAfterYield,
            ModelStep, ModelYields, ModelEnds, ModelFails, EndStream
    <2> QED
        BY <1>2, <2>1, ProducerKeepsSync
        DEF StartStream, PassGate, HaltStream, ResumeAfterYield,
            ModelStep, ModelYields, ModelEnds, ModelFails, EndStream, IInv, FramesInv
<1>3. CASE EmitToken
    <2>1. OutputInv'
        BY <1>3, TermsAssumption, BatchAssumption DEF StallInv, OutputInv, EmitToken, IInv, FramesInv
    <2> QED
        BY <1>3, <2>1, ProducerKeepsSync DEF EmitToken
<1>4. CASE ClientGone \/ SettleStep
    <2>1. OutputInv' /\ (registered' => registered)
        BY <1>4
        DEF StallInv, OutputInv, ClientGone, EndStream, SettleStep, SkipSettle,
            SubmitSettle, SettleReturns
    <2> QED
        BY <1>4, <2>1, ProducerKeepsSync
        DEF ClientGone, EndStream, SettleStep, SkipSettle, SubmitSettle, SettleReturns,
            IInv, FramesInv
<1>5. CASE AcceptCommit
    <2>1. session \notin {"reading", "yielded"}
        BY <1>5 DEF AcceptCommit, StallInv, PostInv
    <2> QED
        BY <1>5, <2>1
        DEF AcceptCommit, StallInv, BatchInv, OutputInv, PostInv, SyncInv,
            DepositCoversOutput
<1>6. CASE RefuseCommit
    <2>1. session \notin {"reading", "yielded"} /\ ~registered
        BY <1>6, HonestFromInvariant
        DEF RefuseCommit, StallInv, PostInv, HonestCommitAccepted
    <2> QED
        BY <1>6, <2>1
        DEF RefuseCommit, StallInv, BatchInv, OutputInv, PostInv, SyncInv,
            DepositCoversOutput
<1>7. CASE LosePost
    <2>1. session \notin {"reading", "yielded"}
        BY <1>7 DEF LosePost, StallInv, PostInv
    <2> QED
        BY <1>7, <2>1
        DEF LosePost, StallInv, BatchInv, OutputInv, PostInv, SyncInv,
            DepositCoversOutput
<1>8. CASE SessionAborts \/ ReadError \/ DetectorHalts
    BY <1>8
    DEF SessionAborts, ReadError, DetectorHalts, StallInv, BatchInv, OutputInv,
        PostInv, SyncInv, DepositCoversOutput
<1>9. CASE KeepReading
    BY <1>9
    DEF KeepReading, ShouldCommit, StallInv, BatchInv, OutputInv, PostInv, SyncInv,
        DepositCoversOutput, CumulativePaid
<1>10. ASSUME NEW next \in {"posting", "closing"}, SendCommit(next),
              UNCHANGED <<wire, producerVars, settleVars>>
       PROVE  StallInv'
    <2>1. posted' # NoCommit /\ posted'.cumulative_paid = cumulative_paid
        <3>1. NextSequence \in Nat
            BY DEF NextSequence, IInv, CommitInv, Within, Commitment
        <3>2. posted' \in Commitment
            BY <1>10, <3>1 DEF SendCommit, Commitment, IInv, PaidInv
        <3> QED
            BY <1>10, <3>2, NoCommitAssumption DEF SendCommit
    <2> QED
        BY <1>10, <2>1
        DEF SendCommit, StallInv, BatchInv, OutputInv, PostInv, SyncInv,
            DepositCoversOutput
<1>11. CASE ReadDone \/ EvaluatorHalts \/ BatchCommit
    BY <1>10, <1>11 DEF ReadDone, EvaluatorHalts, BatchCommit
<1>12. CASE ReadToken
    <2>1. BatchInv' /\ OutputInv' /\ PostInv'
        BY <1>12
        DEF ReadToken, AbsorbToken, StallInv, BatchInv, OutputInv, PostInv, IInv, FramesInv
    <2>2. ASSUME DepositCoversOutput, ending # "error_read"
          PROVE  cumulative_paid' = Prepaid + tokens_received' * Price
        <3>1. tokens_received + 1 <= MaxTokens /\ tokens_received + 1 \in Nat
            BY <1>12, <2>2, TermsAssumption, BatchAssumption
            DEF ReadToken, IInv, FramesInv, ErrorFrames, StallInv, OutputInv
        <3>2. (tokens_received + 1) * Price <= MaxTokens * Price
            BY <3>1, FewerTokensCostLess, TermsAssumption, BatchAssumption
        <3>3. (tokens_received + 1) * Price = tokens_received * Price + Price
              /\ tokens_received * Price \in Nat
            BY OneMoreToken DEF IInv, FramesInv
        <3>4. MaxTokens * Price \in Nat
            BY OneMoreToken, TermsAssumption, BatchAssumption
        <3>5. cumulative_paid = Prepaid + tokens_received * Price
            BY <2>2 DEF StallInv, SyncInv
        <3>6. cumulative_paid' = WithToken(cumulative_paid)
              /\ tokens_received' = tokens_received + 1
            BY <1>12 DEF ReadToken, AbsorbToken
        <3> QED
            BY <2>2, <3>2, <3>3, <3>4, <3>5, <3>6, TermsAssumption, BatchAssumption
            DEF WithToken, DepositCoversOutput
    <2>3. tokens_received' - since_commit' = tokens_received - since_commit
          /\ CumulativePaid' = CumulativePaid
        BY <1>12 DEF ReadToken, AbsorbToken, CumulativePaid, IInv, FramesInv, StallInv, BatchInv
    <2>4. SyncInv'
        BY <1>12, <2>2, <2>3 DEF ReadToken, AbsorbToken, StallInv, SyncInv, DepositCoversOutput
    <2> QED
        BY <2>1, <2>4 DEF StallInv
<1>13. CASE ReadErrorAsToken
    <2>1. BatchInv' /\ OutputInv' /\ PostInv'
        BY <1>13
        DEF ReadErrorAsToken, AbsorbToken, StallInv, BatchInv, OutputInv, PostInv, IInv,
            FramesInv
    <2> QED
        BY <1>13, <2>1 DEF ReadErrorAsToken, StallInv, SyncInv
<1>14. CASE CommitReturns
    <2>1. k' \in 1..KMax
        <3>1. ConsumerUnpaid(since_commit') \in Int
            BY <1>14, TermsAssumption, BatchAssumption DEF CommitReturns, ConsumerUnpaid
        <3> QED
            BY <1>14, <3>1, BatchSizeInRange DEF CommitReturns, StallInv, BatchInv
    <2>2. BatchInv' /\ OutputInv' /\ PostInv'
        BY <1>14, <2>1
        DEF CommitReturns, StallInv, BatchInv, OutputInv, PostInv, IInv, FramesInv
    <2>3. registered => CumulativePaid' = cumulative_paid
        BY <1>14 DEF CommitReturns, StallInv, PostInv, CumulativePaid
    <2>4. tokens_received' - since_commit' = tokens_received'
        BY <1>14 DEF CommitReturns, IInv, FramesInv
    <2>5. SyncInv'
        BY <1>14, <2>3, <2>4 DEF CommitReturns, StallInv, SyncInv, DepositCoversOutput
    <2> QED
        BY <2>2, <2>5 DEF StallInv
<1>15. CASE FinalCommitReturns
    BY <1>15
    DEF FinalCommitReturns, StallInv, BatchInv, OutputInv, PostInv, SyncInv,
        DepositCoversOutput, IInv, FramesInv
<1> QED
    BY <1>1, <1>2, <1>3, <1>4, <1>5, <1>6, <1>7, <1>8, <1>9, <1>11, <1>12, <1>13, <1>14,
       <1>15
    DEF Next, GeneratorStep, CommitStep, SessionStep

(* With a cap that covers a full batch and a deposit that covers the output *)
(* a paused producer is never waiting for a consumer that waits for it.     *)
THEOREM NoStall == Spec => []NoMutualStall
<1>1. IInv /\ StallInv => NoMutualStall
    <2> SUFFICES ASSUME IInv, StallInv, CapCoversBatch, DepositCoversOutput,
                        generator = "gated", session = "reading", unread = 0,
                        post = "none"
                 PROVE  ~ShouldPause
        BY DEF NoMutualStall
    <2>1. tokens_received = tokens_delivered /\ tokens_delivered \in Nat
          /\ since_commit \in Nat /\ since_commit <= tokens_delivered
          /\ since_commit + 1 <= KMax
        BY TermsAssumption, BatchAssumption DEF IInv, FramesInv, ErrorFrames, StallInv, BatchInv
    <2>2. CumulativePaid = Prepaid + (tokens_delivered - since_commit) * Price
        BY <2>1 DEF IInv, FramesInv, StallInv, OutputInv, SyncInv
    <2>3. /\ (tokens_delivered - since_commit) * Price
                = tokens_delivered * Price - since_commit * Price
          /\ (tokens_delivered - since_commit) * Price \in Nat
          /\ tokens_delivered * Price \in Nat /\ since_commit * Price \in Nat
        <3>1. tokens_delivered - since_commit \in Nat
            BY <2>1
        <3>2. (tokens_delivered - since_commit) * Price \in Nat
            BY <3>1, OneMoreToken
        <3>3. tokens_delivered * Price \in Nat /\ since_commit * Price \in Nat
            BY <2>1, OneMoreToken
        <3>4. (tokens_delivered - since_commit) * Price
                = tokens_delivered * Price - since_commit * Price
            BY <2>1, FewerTokens
        <3> QED
            BY <3>2, <3>3, <3>4
    <2>4. UnpaidValue = since_commit * Price
        <3>1. CommittedOutput = (tokens_delivered - since_commit) * Price
            BY <2>2, <2>3, TermsAssumption, BatchAssumption DEF CommittedOutput
        <3> QED
            BY <2>3, <3>1 DEF UnpaidValue
    <2>5. (since_commit + 1) * Price <= KMax * Price
          /\ (since_commit + 1) * Price = since_commit * Price + Price
          /\ KMax * Price \in Nat
        BY <2>1, FewerTokensCostLess, OneMoreToken, TermsAssumption, BatchAssumption
    <2> QED
        BY <2>3, <2>4, <2>5, TermsAssumption, BatchAssumption DEF CapCoversBatch, ShouldPause
<1> QED
    BY <1>1, Invariance, InitStallInv, NextStallInv, PTL DEF Spec

-----------------------------------------------------------------------------
(* Types.  What the invariants above leave unsaid are the places a task can *)
(* be in, the clocks, and that the error frame is the last one read.        *)

PlaceInv ==
    /\ generator \in {"unstarted", "pulling", "gated", "pacing", "sent",
                      "returned", "dropped"}
    /\ settlement \in {"idle", "spawned", "submitted", "skipped", "settled", "failed"}
    /\ ending \in {"open", "done", "error", "error_read"}
    /\ ending = "error_read" => unread = 0
    /\ post \in {"none", "request", "answered", "lost"}
    /\ sdk \in {"python", "typescript"}
    /\ session \in {"reading", "yielded", "posting", "closing", "finished",
                    "halt_error", "aborted"}

ClockInv == silence \in 0..PauseTimeout /\ since_token \in 0..PauseTimeout

FlagInv == halted \in BOOLEAN /\ registered \in BOOLEAN

LEMMA PlaceStep == IInv /\ PlaceInv /\ [Next]_vars => PlaceInv'
<1> SUFFICES ASSUME IInv, PlaceInv, [Next]_vars PROVE PlaceInv'
    OBVIOUS
<1> USE DEF PlaceInv, producerVars, settleVars, consumerVars, wire
<1>1. CASE UNCHANGED vars \/ Tick \/ LosePost \/ SessionAborts
    BY <1>1 DEF vars, Tick, LosePost, SessionAborts
<1>2. CASE ModelStep \/ ClientGone
    BY <1>2 DEF ModelStep, ModelYields, ModelEnds, ModelFails, ClientGone, EndStream
<1>3. CASE StartStream \/ PassGate \/ HaltStream \/ ResumeAfterYield
    BY <1>3 DEF StartStream, PassGate, HaltStream, ResumeAfterYield, EndStream
<1>4. CASE EmitToken
    BY <1>4 DEF EmitToken, IInv, FramesInv
<1>5. CASE SettleStep \/ CommitStep
    BY <1>5 DEF SettleStep, SkipSettle, SubmitSettle, SettleReturns, CommitStep,
                AcceptCommit, RefuseCommit
<1>6. CASE ReadToken
    BY <1>6 DEF ReadToken, AbsorbToken, IInv, FramesInv
<1>7. CASE ReadDone \/ ReadError \/ ReadErrorAsToken \/ EvaluatorHalts
    BY <1>7 DEF ReadDone, ReadError, ReadErrorAsToken, EvaluatorHalts, AbsorbToken,
                SendCommit
<1>8. CASE \/ DetectorHalts \/ BatchCommit \/ KeepReading \/ CommitReturns
           \/ FinalCommitReturns
    BY <1>8 DEF DetectorHalts, BatchCommit, KeepReading, CommitReturns,
                FinalCommitReturns, SendCommit
<1> QED
    BY <1>1, <1>2, <1>3, <1>4, <1>5, <1>6, <1>7, <1>8
    DEF Next, GeneratorStep, SessionStep

LEMMA ClockStep == ClockInv /\ [Next]_vars => ClockInv'
<1> SUFFICES ASSUME ClockInv, [Next]_vars PROVE ClockInv'
    OBVIOUS
<1>0. PauseTimeout \in Nat /\ 0 \in 0..PauseTimeout
    BY TermsAssumption
<1> USE DEF ClockInv
<1>1. CASE Tick
    BY <1>0, <1>1 DEF Tick, Later
<1>2. ASSUME ~Tick
      PROVE  silence' \in {silence, 0} /\ since_token' \in {since_token, 0}
    BY <1>2
    DEF Next, ModelStep, ModelYields, ModelEnds, ModelFails, ClientGone, EndStream,
        GeneratorStep, StartStream, PassGate, HaltStream, EmitToken, ResumeAfterYield,
        SettleStep, SkipSettle, SubmitSettle, SettleReturns, CommitStep, AcceptCommit,
        RefuseCommit, LosePost, SessionStep, ReadToken, ReadDone, ReadError,
        ReadErrorAsToken, EvaluatorHalts, DetectorHalts, BatchCommit, KeepReading,
        CommitReturns, FinalCommitReturns, AbsorbToken, SendCommit, SessionAborts,
        producerVars, settleVars, consumerVars, wire, vars
<1> QED
    BY <1>0, <1>1, <1>2

LEMMA FlagStep == FlagInv /\ [Next]_vars => FlagInv'
<1> SUFFICES ASSUME FlagInv, [Next]_vars PROVE FlagInv'
    OBVIOUS
<1>1. /\ halted' = halted \/ halted' = TRUE
      /\ registered' = registered \/ registered' = FALSE
    BY Zenon
    DEF Next, ModelStep, ModelYields, ModelEnds, ModelFails, ClientGone, EndStream,
        GeneratorStep, StartStream, PassGate, HaltStream, EmitToken, ResumeAfterYield,
        SettleStep, SkipSettle, SubmitSettle, SettleReturns, CommitStep, AcceptCommit,
        RefuseCommit, LosePost, SessionStep, ReadToken, ReadDone, ReadError,
        ReadErrorAsToken, EvaluatorHalts, DetectorHalts, BatchCommit, KeepReading,
        CommitReturns, FinalCommitReturns, AbsorbToken, SendCommit, SessionAborts, Tick,
        producerVars, settleVars, consumerVars, wire, vars
<1> QED
    BY <1>1, Zenon DEF FlagInv

(* Counters stay within the tokens generated, the batch size within k_max.  *)
THEOREM Typed == Spec => []TypeOK
<1> DEFINE ShapeInv == PlaceInv /\ ClockInv /\ FlagInv
<1>1. Init => ShapeInv
    <2> SUFFICES ASSUME Init PROVE ShapeInv
        OBVIOUS
    <2>1. PlaceInv /\ ClockInv
        BY TermsAssumption DEF Init, PlaceInv, ClockInv
    <2>2. FlagInv
        BY Zenon DEF Init, FlagInv
    <2> QED
        BY <2>1, <2>2
<1>2. IInv /\ StallInv /\ ShapeInv => TypeOK
    <2> SUFFICES ASSUME IInv, StallInv, ShapeInv PROVE TypeOK
        OBVIOUS
    <2>1. /\ tokens_received + unread = tokens_delivered + ErrorFrames
          /\ ErrorFrames \in {0, 1} /\ (ErrorFrames = 1 => unread = 0)
          /\ tokens_received \in Nat /\ unread \in Nat
          /\ tokens_delivered \in 0..MaxTokens /\ MaxTokens \in Nat
        BY TermsAssumption
        DEF IInv, FramesInv, StallInv, OutputInv, PlaceInv, ErrorFrames
    <2>2. unread \in 0..MaxTokens /\ tokens_received \in 0..(MaxTokens + 1)
        BY <2>1
    <2>3. since_commit \in 0..(MaxTokens + 1) /\ k \in 1..KMax
        BY <2>1, <2>2 DEF StallInv, BatchInv
    <2>4. /\ posted \in Commitment \cup {NoCommit}
          /\ last_commitment \in Commitment \cup {NoCommit}
          /\ presented \in Commitment \cup {NoCommit}
          /\ cumulative_paid \in Nat
        BY DEF IInv, CommitInv, PaidInv, Within
    <2> QED
        BY <2>1, <2>2, <2>3, <2>4, Zenon DEF PlaceInv, ClockInv, FlagInv, TypeOK
<1> QED
    BY <1>1, <1>2, PlaceStep, ClockStep, FlagStep, Invariance, InitStallInv, NextStallInv, PTL DEF Spec
=============================================================================
