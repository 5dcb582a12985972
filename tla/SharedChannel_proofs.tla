------------------------ MODULE SharedChannel_proofs ------------------------
(***************************************************************************)
(* Proofs about SharedChannel, for every number of streams: what a         *)
(* producer risks on one channel, that the order in which commitments      *)
(* reach it does not matter, and that the two sides never both wait.       *)
(***************************************************************************)
EXTENDS SharedChannel, FiniteSetTheorems, TLAPS

(* A generator past the gate has one token's price reserved.                *)
ReserveInv ==
    UnpaidValue + Cardinality(Affording) * Price < MaxUnpaid + SharedCount * Price

(* The commitments somewhere in the system. *)
Signed == ({posted[s] : s \in Streams} \cup {last_commitment}) \ {NoCommit}

(* They are of sequences already given out, within the amount the session   *)
(* authorises by now, and in the same order by sequence and by amount.      *)
SignedInv ==
    /\ \A m \in Signed : /\ m.sequence <= sequence
                         /\ Prepaid <= m.cumulative_paid
                         /\ m.cumulative_paid <= cumulative_paid
    /\ \A m, n \in Signed :
          m.sequence <= n.sequence => m.cumulative_paid <= n.cumulative_paid
    /\ \A s \in Streams : post[s] = "request" => posted[s] # NoCommit

SharedInv == SharedTypeOK /\ ReserveInv /\ SignedInv

-----------------------------------------------------------------------------
LEMMA PricesAddUp ==
    ASSUME NEW n \in Nat
    PROVE  /\ n * Price \in Nat
           /\ (n + 1) * Price = n * Price + Price
<1>1. Price \in Nat
    BY TermsAssumption
<1> QED
    BY <1>1

LEMMA FewerCostLess ==
    ASSUME NEW m \in Nat, NEW n \in Nat, m <= n
    PROVE  m * Price <= n * Price
<1>1. Price \in Nat
    BY TermsAssumption
<1> QED
    BY <1>1

LEMMA AffordingFinite ==
    /\ IsFiniteSet(Affording) /\ Cardinality(Affording) \in Nat
    /\ Cardinality(Affording) <= SharedCount /\ SharedCount \in Nat
<1>1. Affording \subseteq Streams
    BY DEF Affording
<1> QED
    BY <1>1, StreamsAssumption, FS_Subset, FS_CardinalityType DEF SharedCount

LEMMA SmallerReserve ==
    ASSUME Affording' \subseteq Affording
    PROVE  /\ Cardinality(Affording') \in Nat
           /\ Cardinality(Affording') * Price <= Cardinality(Affording) * Price
           /\ Cardinality(Affording') * Price \in Nat
           /\ Cardinality(Affording) * Price \in Nat
<1>1. Cardinality(Affording') \in Nat /\ Cardinality(Affording) \in Nat
      /\ Cardinality(Affording') <= Cardinality(Affording)
    BY AffordingFinite, FS_Subset, FS_CardinalityType
<1> QED
    BY <1>1, FewerCostLess, PricesAddUp

LEMMA UnpaidIsInteger ==
    ASSUME SharedTypeOK
    PROVE  UnpaidValue \in Int /\ CommittedOutput \in Nat
<1>1. CumulativePaid \in Nat
    BY TermsAssumption DEF SharedTypeOK, Commitment, CumulativePaid
<1>2. CommittedOutput \in Nat
    BY <1>1, TermsAssumption DEF CommittedOutput
<1> QED
    BY <1>2, PricesAddUp DEF UnpaidValue, SharedTypeOK

(* Steps in which nothing more is owed and nobody newly passes the gate.    *)
LEMMA ReserveKept ==
    ASSUME SharedInv, SharedTypeOK', UnpaidValue' <= UnpaidValue,
           Affording' \subseteq Affording
    PROVE  ReserveInv'
<1>1. UnpaidValue \in Int /\ UnpaidValue' \in Int
    <2>1. UnpaidValue \in Int
        BY UnpaidIsInteger DEF SharedInv
    <2>2. CommittedOutput' \in Nat
        BY TermsAssumption DEF SharedTypeOK, Commitment, CumulativePaid, CommittedOutput
    <2>3. tokens_delivered' * Price \in Nat
        BY PricesAddUp DEF SharedTypeOK
    <2> QED
        BY <2>1, <2>2, <2>3 DEF UnpaidValue
<1>2. SharedCount * Price \in Nat
    BY AffordingFinite, PricesAddUp
<1> QED
    BY <1>1, <1>2, SmallerReserve, TermsAssumption
    DEF SharedInv, ReserveInv, SharedCount

LEMMA FewerSigned ==
    ASSUME SignedInv, Signed' \subseteq Signed, sequence' = sequence,
           SharedTypeOK, SharedTypeOK', cumulative_paid <= cumulative_paid',
           \A s \in Streams : post'[s] = "request" => posted'[s] # NoCommit
    PROVE  SignedInv'
<1>1. \A m \in Signed : m.cumulative_paid \in Nat
    BY DEF Signed, SharedTypeOK, Commitment
<1> QED
    BY <1>1, TermsAssumption DEF SignedInv, SharedTypeOK

LEMMA SignedKept ==
    ASSUME SignedInv, UNCHANGED <<posted, last_commitment, sequence>>,
           SharedTypeOK, SharedTypeOK', cumulative_paid <= cumulative_paid',
           \A s \in Streams : post'[s] = "request" => post[s] = "request"
    PROVE  SignedInv'
<1>1. Signed' = Signed
    BY DEF Signed
<1> QED
    BY <1>1, FewerSigned DEF SignedInv

(* A commitment that was answered or lost is gone. *)
LEMMA PostGone ==
    ASSUME SharedInv, NEW s \in Streams, UNCHANGED last_commitment,
           post' = [post EXCEPT ![s] = "none"],
           posted' = [posted EXCEPT ![s] = NoCommit]
    PROVE  /\ Signed' \subseteq Signed
           /\ posted' \in [Streams -> Commitment \cup {NoCommit}]
           /\ post' \in [Streams -> {"none", "request", "answered"}]
           /\ \A t \in Streams : post'[t] = "request" =>
                 post[t] = "request" /\ posted'[t] = posted[t] /\ posted'[t] # NoCommit
<1>1. /\ posted \in [Streams -> Commitment \cup {NoCommit}]
      /\ post \in [Streams -> {"none", "request", "answered"}]
    BY DEF SharedInv, SharedTypeOK
<1>2. \A t \in Streams : posted'[t] = posted[t] \/ posted'[t] = NoCommit
    BY <1>1
<1>3. Signed' \subseteq Signed
    BY <1>2 DEF Signed
<1>4. \A t \in Streams \ {s} : post'[t] = post[t] /\ posted'[t] = posted[t]
    BY <1>1
<1>5. post'[s] = "none"
    BY <1>1
<1> QED
    BY <1>1, <1>3, <1>4, <1>5 DEF SharedInv, SignedInv

(* The signing step shared by batch, final and evaluator commits.           *)
LEMMA SigningKeepsOrder ==
    ASSUME SharedInv, SharedTypeOK', NEW s \in Streams, SendCommit(s)
    PROVE  SignedInv'
<1> DEFINE new == [sequence |-> sequence + 1, cumulative_paid |-> cumulative_paid]
<1>1. /\ posted' = [posted EXCEPT ![s] = new] /\ sequence' = sequence + 1
      /\ cumulative_paid' = cumulative_paid /\ last_commitment' = last_commitment
      /\ post' = [post EXCEPT ![s] = "request"]
    BY DEF SendCommit, producerVars, channelVars
<1>2. new \in Commitment /\ new # NoCommit
    BY NoCommitAssumption, TermsAssumption DEF SharedInv, SharedTypeOK, Commitment
<1>3. \A m \in Signed' : m \in Signed \/ m = new
    BY <1>1 DEF Signed, SharedInv, SharedTypeOK
<1>4. \A m \in Signed : m \in Commitment
    BY DEF Signed, SharedInv, SharedTypeOK
<1> HIDE DEF new
<1>5. new.sequence = sequence + 1 /\ new.cumulative_paid = cumulative_paid
    BY DEF new
<1>6. sequence \in Nat /\ cumulative_paid \in Nat /\ Prepaid <= cumulative_paid
    BY TermsAssumption DEF SharedInv, SharedTypeOK
<1>7. \A m \in Signed' : /\ m.sequence <= sequence'
                         /\ Prepaid <= m.cumulative_paid
                         /\ m.cumulative_paid <= cumulative_paid'
    BY <1>1, <1>3, <1>4, <1>5, <1>6 DEF SharedInv, SignedInv, Commitment
<1>8. \A m, n \in Signed' :
         m.sequence <= n.sequence => m.cumulative_paid <= n.cumulative_paid
    BY <1>3, <1>4, <1>5, <1>6 DEF SharedInv, SignedInv, Commitment
<1>9. \A t \in Streams : post'[t] = "request" => posted'[t] # NoCommit
    BY <1>1, <1>2 DEF SharedInv, SignedInv, SharedTypeOK
<1> QED
    BY <1>7, <1>8, <1>9 DEF SignedInv

-----------------------------------------------------------------------------
LEMMA InitSharedInv == SharedInit => SharedInv
<1> SUFFICES ASSUME SharedInit PROVE SharedInv
    OBVIOUS
<1>1. SharedTypeOK
    <2>1. k \in 1..KMax /\ silence \in 0..PauseTimeout /\ cumulative_paid \in Prepaid..Deposit
        BY TermsAssumption, BatchAssumption DEF SharedInit
    <2> QED
        BY <2>1 DEF SharedInit, SharedTypeOK
<1>2. Affording = {} /\ UnpaidValue = 0
    BY TermsAssumption
    DEF SharedInit, Affording, UnpaidValue, CommittedOutput, CumulativePaid
<1>3. Cardinality(Affording) = 0
    BY <1>2, FS_EmptySet
<1>4. ReserveInv
    <2>1. 0 * Price = 0 /\ SharedCount * Price \in Nat
        BY AffordingFinite, PricesAddUp, TermsAssumption
    <2> QED
        BY <1>2, <1>3, <2>1, TermsAssumption DEF ReserveInv
<1>5. SignedInv
    BY DEF SharedInit, SignedInv, Signed
<1> QED
    BY <1>1, <1>4, <1>5 DEF SharedInv

LEMMA BatchStaysInRange ==
    ASSUME k \in 1..KMax, NEW unpaid \in Int
    PROVE  UpdatedK(unpaid) \in 1..KMax
<1>1. k > 1 => k \div 2 \in 1..KMax
    BY BatchAssumption
<1>2. (IF 2 * k > KMax THEN KMax ELSE 2 * k) \in 1..KMax
    BY BatchAssumption
<1> QED
    BY <1>1, <1>2 DEF UpdatedK

-----------------------------------------------------------------------------
(* Steps, grouped by what they touch. *)

(* The producer's steps that count no token and accept no commitment.       *)
QuietProducerStep(s) ==
    \/ StartStream(s) \/ ModelYields(s) \/ ModelStops(s) \/ HaltStream(s)
    \/ ResumeAfterYield(s) \/ ClientGone(s) \/ SettleTaskEnds(s) \/ OpenStream(s)

LEMMA QuietProducer ==
    ASSUME SharedInv, NEW s \in Streams, QuietProducerStep(s)
    PROVE  SharedInv'
<1>1. /\ UNCHANGED <<tokens_delivered, last_commitment, posts, stateVars>>
      /\ Affording' \subseteq Affording
    BY DEF QuietProducerStep, StartStream, ModelYields, ModelStops, HaltStream,
           ResumeAfterYield, ClientGone, SettleTaskEnds, OpenStream, Moves, EndStream,
           channelVars, producerVars, posts, stateVars, Affording, SharedInv, SharedTypeOK
<1>2. SharedTypeOK'
    <2>1. generator' \in [Streams -> {"none", "unstarted", "pulling", "gated",
                                      "pacing", "sent", "returned"}]
        BY DEF QuietProducerStep, StartStream, ModelYields, ModelStops, HaltStream,
            ResumeAfterYield, ClientGone, SettleTaskEnds, OpenStream, Moves, EndStream,
            SharedInv, SharedTypeOK
    <2>2. silence' \in 0..PauseTimeout
        BY TermsAssumption
        DEF QuietProducerStep, StartStream, ModelYields, ModelStops, HaltStream,
            ResumeAfterYield, ClientGone, SettleTaskEnds, OpenStream, Moves, EndStream,
            channelVars, wire, SharedInv, SharedTypeOK
    <2>3. halted' \in BOOLEAN
        BY DEF QuietProducerStep, StartStream, ModelYields, ModelStops, HaltStream,
               ResumeAfterYield, ClientGone, SettleTaskEnds, OpenStream, channelVars,
               SharedInv, SharedTypeOK
    <2>4. registered' \in BOOLEAN
        BY DEF QuietProducerStep, StartStream, ModelYields, ModelStops, HaltStream,
               EndStream, ResumeAfterYield, ClientGone, SettleTaskEnds, OpenStream,
               SharedInv, SharedTypeOK
    <2>5. /\ settling' \subseteq Streams /\ finished' \subseteq Streams
          /\ unread' = unread
        BY TermsAssumption
        DEF QuietProducerStep, StartStream, ModelYields, ModelStops, HaltStream,
            ResumeAfterYield, ClientGone, SettleTaskEnds, OpenStream, Moves, EndStream,
            channelVars, wire, SharedInv, SharedTypeOK
    <2>6. session' \in [Streams -> {"idle", "reading", "yielded", "posting", "telling",
                                    "closing", "finished", "aborted"}]
        BY TermsAssumption
        DEF QuietProducerStep, StartStream, ModelYields, ModelStops, HaltStream,
            ResumeAfterYield, ClientGone, SettleTaskEnds, OpenStream, Moves, EndStream,
            channelVars, wire, SharedInv, SharedTypeOK
    <2> QED
        BY <1>1, <2>1, <2>2, <2>3, <2>4, <2>5, <2>6 DEF posts, stateVars, SharedInv, SharedTypeOK
<1>3. UnpaidValue' = UnpaidValue /\ UnpaidValue \in Int
    BY <1>1, UnpaidIsInteger DEF UnpaidValue, CommittedOutput, CumulativePaid, SharedInv
<1>4. SignedInv'
    <2>1. cumulative_paid \in Int /\ post' = post
        BY <1>1, TermsAssumption DEF SharedInv, SharedTypeOK, posts
    <2> QED
        BY <1>1, <1>2, <2>1, SignedKept DEF SharedInv, posts, stateVars
<1> QED
    BY <1>1, <1>2, <1>3, <1>4, ReserveKept DEF SharedInv

LEMMA Gate ==
    ASSUME SharedInv, NEW s \in Streams, PassGate(s)
    PROVE  SharedInv'
<1>1. /\ generator' = [generator EXCEPT ![s] = "pacing"] /\ generator[s] = "gated"
      /\ UNCHANGED <<channelVars, settling, registered, wire, posts, session, stateVars>>
    BY DEF PassGate, Moves
<1>2. SharedTypeOK'
    BY <1>1 DEF channelVars, wire, posts, stateVars, SharedInv, SharedTypeOK
<1>3. UnpaidValue' = UnpaidValue /\ UnpaidValue \in Int /\ UnpaidValue < MaxUnpaid
    BY <1>1, UnpaidIsInteger, TermsAssumption
    DEF UnpaidValue, CommittedOutput, CumulativePaid, SharedInv, PassGate, ShouldPause,
        channelVars
<1>4. Cardinality(Affording') * Price <= SharedCount * Price
      /\ Cardinality(Affording') * Price \in Nat /\ SharedCount * Price \in Nat
    <2>1. Affording' \subseteq Streams
        BY DEF Affording
    <2>2. Cardinality(Affording') <= SharedCount /\ Cardinality(Affording') \in Nat
        BY <2>1, StreamsAssumption, FS_Subset, FS_CardinalityType DEF SharedCount
    <2> QED
        BY <2>2, AffordingFinite, FewerCostLess, PricesAddUp
<1>5. ReserveInv'
    BY <1>3, <1>4, TermsAssumption DEF ReserveInv, SharedCount
<1>6. SignedInv'
    <2>1. cumulative_paid \in Int /\ post' = post
        BY <1>1, TermsAssumption DEF SharedInv, SharedTypeOK, posts
    <2> QED
        BY <1>1, <1>2, <2>1, SignedKept DEF SharedInv, channelVars, posts, stateVars
<1> QED
    BY <1>2, <1>5, <1>6 DEF SharedInv

LEMMA Emission ==
    ASSUME SharedInv, NEW s \in Streams, EmitToken(s)
    PROVE  SharedInv'
<1>1. /\ generator' = [generator EXCEPT ![s] = "sent"] /\ generator[s] = "pacing"
      /\ tokens_delivered' = tokens_delivered + 1
      /\ unread' = [unread EXCEPT ![s] = @ + 1]
      /\ UNCHANGED <<last_commitment, silence, halted, settling, registered, finished,
                     posts, session, stateVars>>
    BY DEF EmitToken, Moves
<1>2. SharedTypeOK'
    BY <1>1 DEF posts, stateVars, SharedInv, SharedTypeOK
<1>3. UnpaidValue' = UnpaidValue + Price /\ UnpaidValue \in Int
    <2>1. CommittedOutput' = CommittedOutput /\ CommittedOutput \in Nat
          /\ UnpaidValue \in Int
        BY <1>1, UnpaidIsInteger DEF CommittedOutput, CumulativePaid, SharedInv
    <2>2. /\ tokens_delivered' * Price = tokens_delivered * Price + Price
          /\ tokens_delivered * Price \in Nat
        BY <1>1, PricesAddUp DEF SharedInv, SharedTypeOK
    <2> QED
        BY <2>1, <2>2, TermsAssumption DEF UnpaidValue
<1>4. /\ Cardinality(Affording) * Price = Cardinality(Affording') * Price + Price
      /\ Cardinality(Affording') * Price \in Nat
    <2>1. s \in Affording /\ Affording' = Affording \ {s}
        BY <1>1 DEF Affording, SharedInv, SharedTypeOK
    <2>2. /\ Cardinality(Affording') = Cardinality(Affording) - 1
          /\ Cardinality(Affording') \in Nat /\ Cardinality(Affording) \in Nat
        BY <2>1, AffordingFinite, FS_RemoveElement, FS_CardinalityType
    <2>3. Cardinality(Affording) = Cardinality(Affording') + 1
        BY <2>2
    <2> QED
        BY <2>2, <2>3, PricesAddUp
<1>5. ReserveInv'
    BY <1>3, <1>4, AffordingFinite, PricesAddUp, TermsAssumption
    DEF SharedInv, ReserveInv, SharedCount
<1>6. SignedInv'
    <2>1. cumulative_paid \in Int /\ post' = post
        BY <1>1, TermsAssumption DEF SharedInv, SharedTypeOK, posts
    <2> QED
        BY <1>1, <1>2, <2>1, SignedKept DEF SharedInv, posts, stateVars
<1> QED
    BY <1>2, <1>5, <1>6 DEF SharedInv

LEMMA Acceptance ==
    ASSUME SharedInv, NEW s \in Streams, AcceptCommit(s)
    PROVE  SharedInv'
<1>1. /\ last_commitment' = posted[s] /\ posted[s] \in Signed /\ Acceptable(posted[s])
      /\ silence' = 0 /\ post' = [post EXCEPT ![s] = "answered"]
      /\ UNCHANGED <<generator, tokens_delivered, halted, settling, registered, wire,
                     posted, session, stateVars>>
    BY DEF AcceptCommit, Signed, SharedInv, SignedInv
<1>2. posted[s] \in Commitment
    BY <1>1 DEF Signed, SharedInv, SharedTypeOK
<1>3. SharedTypeOK'
    BY <1>1, <1>2, TermsAssumption DEF wire, stateVars, SharedInv, SharedTypeOK
<1>4. UnpaidValue' <= UnpaidValue
    <2>1. CumulativePaid \in Nat /\ CumulativePaid <= posted[s].cumulative_paid
        BY <1>1, <1>2, TermsAssumption
        DEF CumulativePaid, Acceptable, SharedInv, SharedTypeOK, Commitment
    <2>2. CumulativePaid' = posted[s].cumulative_paid /\ posted[s].cumulative_paid \in Nat
        BY <1>1, <1>2, NoCommitAssumption DEF CumulativePaid, Commitment
    <2>3. CommittedOutput <= CommittedOutput' /\ CommittedOutput' \in Nat
          /\ CommittedOutput \in Nat
        BY <2>1, <2>2, TermsAssumption DEF CommittedOutput
    <2>4. tokens_delivered * Price \in Nat /\ tokens_delivered' = tokens_delivered
        BY <1>1, PricesAddUp DEF SharedInv, SharedTypeOK
    <2> QED
        BY <2>3, <2>4 DEF UnpaidValue
<1>5. SignedInv'
    <2>1. Signed' \subseteq Signed
        BY <1>1 DEF Signed
    <2>2. \A t \in Streams : post'[t] = "request" => posted'[t] # NoCommit
        BY <1>1 DEF SharedInv, SignedInv, SharedTypeOK
    <2> QED
        BY <1>1, <2>1, <2>2 DEF SharedInv, SignedInv, stateVars
<1> QED
    BY <1>1, <1>3, <1>4, <1>5, ReserveKept DEF SharedInv, Affording

(* Refusals, losses, and the session's reads and returns.                   *)
QuietSessionStep(s) ==
    \/ RefuseCommit(s) \/ LosePost(s) \/ ReadToken(s) \/ KeepReading(s)
    \/ CommitReturns(s) \/ BatcherUpdates(s) \/ SessionAborts(s)

LEMMA QuietSession ==
    ASSUME SharedInv, NEW s \in Streams, QuietSessionStep(s)
    PROVE  SharedInv'
<1>1. UNCHANGED <<generator, channelVars, settling, registered, finished, sequence>>
    BY DEF QuietSessionStep, RefuseCommit, LosePost, ReadToken, KeepReading,
           CommitReturns, BatcherUpdates, SessionAborts, producerVars, wire, stateVars
<1>2. /\ Signed' \subseteq Signed
      /\ posted' \in [Streams -> Commitment \cup {NoCommit}]
      /\ post' \in [Streams -> {"none", "request", "answered"}]
      /\ \A t \in Streams : post'[t] = "request" => posted'[t] # NoCommit
    <2>1. last_commitment' = last_commitment
        BY <1>1 DEF channelVars
    <2>2. CASE LosePost(s) \/ CommitReturns(s)
        <3>1. /\ post' = [post EXCEPT ![s] = "none"]
              /\ posted' = [posted EXCEPT ![s] = NoCommit]
            BY <2>2 DEF LosePost, CommitReturns
        <3> QED
            BY <2>1, <3>1, PostGone
    <2>3. CASE ~(LosePost(s) \/ CommitReturns(s))
        <3>1. /\ posted' = posted
              /\ post' = post \/ post' = [post EXCEPT ![s] = "answered"]
            BY <2>3
            DEF QuietSessionStep, RefuseCommit, ReadToken, KeepReading, BatcherUpdates,
                SessionAborts, posts
        <3>2. Signed' = Signed
            BY <2>1, <3>1 DEF Signed
        <3> QED
            BY <3>1, <3>2 DEF SharedInv, SharedTypeOK, SignedInv
    <2> QED
        BY <2>2, <2>3
<1>3. /\ unread' \in [Streams -> Nat]
      /\ tokens_received' \in Nat /\ since_commit' \in Nat
    BY DEF QuietSessionStep, RefuseCommit, LosePost, ReadToken, KeepReading,
           CommitReturns, BatcherUpdates, SessionAborts, wire, stateVars, SharedInv,
           SharedTypeOK
<1>4. session' \in [Streams -> {"idle", "reading", "yielded", "posting", "telling",
                               "closing", "finished", "aborted"}]
    BY DEF QuietSessionStep, RefuseCommit, LosePost, ReadToken, KeepReading,
           CommitReturns, BatcherUpdates, SessionAborts, SessionMoves, SessionOver,
           SharedInv, SharedTypeOK
<1>5. cumulative_paid' \in Prepaid..Deposit /\ cumulative_paid <= cumulative_paid'
    BY TermsAssumption
    DEF QuietSessionStep, RefuseCommit, LosePost, ReadToken, KeepReading,
        CommitReturns, BatcherUpdates, SessionAborts, WithToken, stateVars, SharedInv,
        SharedTypeOK
<1>6. k' \in 1..KMax
    <2>1. CASE BatcherUpdates(s)
        <3>1. ConsumerUnpaid(since_commit) \in Int
            BY TermsAssumption DEF ConsumerUnpaid, SharedInv, SharedTypeOK
        <3> QED
            BY <2>1, <3>1, BatchStaysInRange DEF BatcherUpdates, SharedInv, SharedTypeOK
    <2>2. CASE ~BatcherUpdates(s)
        BY <2>2
        DEF QuietSessionStep, RefuseCommit, LosePost, ReadToken, KeepReading,
            CommitReturns, SessionAborts, stateVars, SharedInv, SharedTypeOK
    <2> QED
        BY <2>1, <2>2
<1>7. SharedTypeOK'
    BY <1>1, <1>2, <1>3, <1>4, <1>5, <1>6 DEF channelVars, SharedInv, SharedTypeOK
<1>8. UnpaidValue' = UnpaidValue /\ UnpaidValue \in Int /\ Affording' = Affording
    BY <1>1, UnpaidIsInteger
    DEF UnpaidValue, CommittedOutput, CumulativePaid, SharedInv, channelVars, Affording
<1>9. SignedInv'
    BY <1>1, <1>2, <1>5, <1>7, FewerSigned DEF SharedInv
<1> QED
    BY <1>7, <1>8, <1>9, ReserveKept DEF SharedInv

LEMMA Signing ==
    ASSUME SharedInv, NEW s \in Streams, ReadDone(s) \/ EvaluatorHalts(s) \/ BatchCommit(s)
    PROVE  SharedInv'
<1>1. SendCommit(s)
    BY DEF ReadDone, EvaluatorHalts, BatchCommit
<1>2. session' \in [Streams -> {"idle", "reading", "yielded", "posting", "telling",
                               "closing", "finished", "aborted"}]
    BY DEF ReadDone, EvaluatorHalts, BatchCommit, SessionMoves, SharedInv, SharedTypeOK
<1>3. /\ sequence' \in Nat
      /\ posted' \in [Streams -> Commitment \cup {NoCommit}]
      /\ post' \in [Streams -> {"none", "request", "answered"}]
    <2>1. [sequence |-> sequence', cumulative_paid |-> cumulative_paid] \in Commitment
          /\ sequence' \in Nat
        BY <1>1, TermsAssumption DEF SendCommit, SharedInv, SharedTypeOK, Commitment
    <2> QED
        BY <1>1, <2>1 DEF SendCommit, SharedInv, SharedTypeOK
<1>4. SharedTypeOK'
    BY <1>1, <1>2, <1>3
    DEF SendCommit, SharedInv, SharedTypeOK, producerVars, channelVars, wire
<1>5. UnpaidValue' = UnpaidValue /\ UnpaidValue \in Int /\ Affording' = Affording
    BY <1>1, UnpaidIsInteger
    DEF UnpaidValue, CommittedOutput, CumulativePaid, SharedInv, SendCommit,
        producerVars, channelVars, Affording
<1> QED
    BY <1>1, <1>4, <1>5, ReserveKept, SigningKeepsOrder DEF SharedInv

LEMMA Idle ==
    ASSUME SharedInv, UNCHANGED vars \/ Tick
    PROVE  SharedInv'
<1>1. UNCHANGED <<generator, tokens_delivered, last_commitment, halted, settling,
                  registered, wire, posts, session, stateVars>>
    BY DEF vars, Tick, producerVars, channelVars
<1>2. silence' \in 0..PauseTimeout
    BY TermsAssumption
    DEF vars, Tick, Later, producerVars, channelVars, SharedInv, SharedTypeOK
<1>3. SharedTypeOK'
    BY <1>1, <1>2 DEF SharedInv, SharedTypeOK, wire, posts, stateVars
<1>4. UnpaidValue' = UnpaidValue /\ UnpaidValue \in Int /\ Affording' = Affording
    BY <1>1, UnpaidIsInteger
    DEF UnpaidValue, CommittedOutput, CumulativePaid, SharedInv, Affording
<1>5. SignedInv'
    <2>1. cumulative_paid \in Int /\ post' = post
        BY <1>1, TermsAssumption DEF SharedInv, SharedTypeOK, posts
    <2> QED
        BY <1>1, <1>3, <2>1, SignedKept DEF SharedInv, posts, stateVars
<1> QED
    BY <1>3, <1>4, <1>5, ReserveKept DEF SharedInv

LEMMA NextSharedInv == SharedInv /\ [SharedNext]_vars => SharedInv'
<1> SUFFICES ASSUME SharedInv, [SharedNext]_vars PROVE SharedInv'
    OBVIOUS
<1>1. CASE UNCHANGED vars \/ Tick
    BY <1>1, Idle
<1>2. ASSUME NEW s \in Streams,
             \/ OpenStream(s) \/ GeneratorStep(s) \/ ModelStep(s)
             \/ ClientGone(s) \/ SettleTaskEnds(s) \/ CommitStep(s)
             \/ SessionStep(s) \/ SessionAborts(s)
      PROVE  SharedInv'
    BY <1>2, QuietProducer, Gate, Emission, Acceptance, QuietSession, Signing
    DEF GeneratorStep, ModelStep, CommitStep, SessionStep, QuietProducerStep,
        QuietSessionStep
<1> QED
    BY <1>1, <1>2 DEF SharedNext

(* The inductive invariant of a channel shared by any number of streams.    *)
THEOREM SharedInvariance == SharedSpec => []SharedInv
<1> QED
    BY InitSharedInv, NextSharedInv, PTL DEF SharedSpec

(* Every variable keeps its shape; the batch size stays within k_max and    *)
(* the authorised amount between floor and deposit, whoever adds to it.     *)
THEOREM SharedTyped == SharedSpec => []SharedTypeOK
<1> QED
    BY SharedInvariance, PTL DEF SharedInv

(* What a producer risks on one channel grows with the streams it serves on *)
(* it: the cap and one token's price for each.                              *)
THEOREM SharedExposure == SharedSpec => []SharedExposureBounded
<1>1. SharedInv => SharedExposureBounded
    <2> SUFFICES ASSUME SharedInv PROVE SharedExposureBounded
        OBVIOUS
    <2>1. UnpaidValue \in Int /\ Cardinality(Affording) * Price \in Nat
          /\ SharedCount * Price \in Nat
        BY UnpaidIsInteger, AffordingFinite, PricesAddUp DEF SharedInv
    <2> QED
        BY <2>1, TermsAssumption DEF SharedInv, ReserveInv, SharedExposureBounded
<1> QED
    BY <1>1, SharedInvariance, PTL

(* A commitment refused because another overtook it is covered by that one. *)
THEOREM OvertakingIsHarmless == SharedSpec => []RefusalCostsNothing
<1>1. SharedInv => RefusalCostsNothing
    <2> SUFFICES ASSUME SharedInv, NEW s \in Streams, post[s] = "request",
                        ~Acceptable(posted[s])
                 PROVE  /\ last_commitment # NoCommit
                        /\ posted[s].cumulative_paid <= last_commitment.cumulative_paid
        BY DEF RefusalCostsNothing
    <2>1. posted[s] \in Signed /\ posted[s] \in Commitment
        BY DEF SharedInv, SignedInv, Signed, SharedTypeOK
    <2>2. /\ Prepaid <= posted[s].cumulative_paid
          /\ posted[s].cumulative_paid <= Deposit
        BY <2>1, TermsAssumption DEF SharedInv, SignedInv, SharedTypeOK, Commitment
    <2>3. last_commitment # NoCommit
        BY <2>2 DEF Acceptable
    <2>4. last_commitment \in Signed /\ last_commitment \in Commitment
        BY <2>3 DEF Signed, SharedInv, SharedTypeOK
    <2>5. \/ posted[s].sequence <= last_commitment.sequence
          \/ posted[s].cumulative_paid <= last_commitment.cumulative_paid
        BY <2>1, <2>2, <2>4 DEF Acceptable, Commitment
    <2> QED
        BY <2>1, <2>3, <2>4, <2>5 DEF SharedInv, SignedInv
<1> QED
    BY <1>1, SharedInvariance, PTL

-----------------------------------------------------------------------------
(* However many streams share a channel, their producer and their consumer  *)
(* do not end up waiting for each other.  The invariant counts the tokens   *)
(* that no commitment covers, although each answer sets the count that is   *)
(* to bound them back to zero.                                              *)


(* No stream has been given up, the channel is still there, and the deposit *)
(* covers all that the model can produce.                                   *)
Whole == /\ DepositCoversOutput /\ registered
         /\ \A s \in Streams : session[s] # "aborted"

(* The frames on their way, each counted for itself. *)
Frames == UNION {{s} \X (1..unread[s]) : s \in Streams}

OutputInv ==
    /\ IsFiniteSet(Frames)
    /\ tokens_delivered = tokens_received + Cardinality(Frames)
    /\ tokens_delivered + Cardinality(Holding) <= MaxTokens

(* What the session authorises is what it has received, and whoever has a   *)
(* commitment on its way waits for it.                                      *)
AuthorisedInv ==
    /\ DepositCoversOutput => cumulative_paid = Prepaid + tokens_received * Price
    /\ \A s \in Streams : post[s] # "none" => session[s] \in {"posting", "closing", "aborted"}

(* The sessions that wait for no answer, and those that have taken a token  *)
(* and not yet looked at the count.                                         *)
Free == {s \in Streams : session[s] \notin {"posting", "closing"}}
Yielded == {s \in Streams : session[s] = "yielded"}

(* What the answers that brought q sessions back may have taken off the     *)
(* count: k-1 tokens each after the first, and one of each session that was *)
(* back already.                                                            *)
Slack(q) == (q - 1) * (KMax - 1) + (q * (q - 1)) \div 2

(* So many tokens at most are in no commitment: those on the count besides  *)
(* what answers took off it, and, whatever the count says, a batch and the  *)
(* tokens of those that have not looked.                                    *)
Unsigned(u) ==
    /\ Free = {} => u = 0
    /\ Free # {} =>
          /\ u <= Slack(Cardinality(Free)) + since_commit
          /\ u <= Slack(Cardinality(Free)) + (KMax - 1) + Cardinality(Yielded)

(* The largest amount signed is `amount`, and the producer has it or will.  *)
Reaches(amount) ==
    /\ \A m \in Signed : m.cumulative_paid <= amount
    /\ \/ CumulativePaid = amount
       \/ \E s \in Streams : post[s] = "request" /\ posted[s].cumulative_paid = amount

UnsignedInv ==
    Whole => \E t, u \in Nat : /\ tokens_received = t + u
                               /\ Reaches(Prepaid + t * Price)
                               /\ Unsigned(u)

StallInv == SharedInv /\ OutputInv /\ AuthorisedInv /\ UnsignedInv

-----------------------------------------------------------------------------
LEMMA SlackGrows ==
    ASSUME NEW q \in Nat, q > 0
    PROVE  /\ Slack(q) \in Nat
           /\ Slack(q + 1) = Slack(q) + (KMax - 1) + q
<1> DEFINE pairs == q * (q - 1)
           batches == (q - 1) * (KMax - 1)
<1>1. pairs \in Nat /\ batches \in Nat /\ KMax - 1 \in Nat
    BY BatchAssumption
<1>2. (q + 1) * (q + 1 - 1) = pairs + 2 * q
    OBVIOUS
<1>3. (q + 1 - 1) * (KMax - 1) = batches + (KMax - 1)
    BY BatchAssumption
<1> HIDE DEF pairs, batches
<1>4. (pairs + 2 * q) \div 2 = pairs \div 2 + q /\ pairs \div 2 \in Nat
    BY <1>1
<1>5. Slack(q) = batches + pairs \div 2
    BY DEF Slack, pairs, batches
<1>6. Slack(q + 1) = batches + (KMax - 1) + (pairs + 2 * q) \div 2
    BY <1>2, <1>3 DEF Slack
<1> QED
    BY <1>1, <1>4, <1>5, <1>6

LEMMA FirstSlack == Slack(1) = 0
<1>1. (1 - 1) * (KMax - 1) = 0
    BY BatchAssumption
<1> QED
    BY <1>1 DEF Slack

LEMMA SetsOfStreams ==
    /\ IsFiniteSet(Free) /\ Cardinality(Free) \in Nat
    /\ IsFiniteSet(Yielded) /\ Cardinality(Yielded) \in Nat
    /\ IsFiniteSet(Holding) /\ Cardinality(Holding) \in Nat
    /\ Yielded \subseteq Free /\ Cardinality(Yielded) <= Cardinality(Free)
    /\ Free # {} <=> Cardinality(Free) > 0
<1>1. Free \subseteq Streams /\ Yielded \subseteq Free /\ Holding \subseteq Streams
    BY DEF Free, Yielded, Holding
<1>2. IsFiniteSet(Free) /\ IsFiniteSet(Holding)
    BY <1>1, StreamsAssumption, FS_Subset
<1>3. IsFiniteSet(Yielded) /\ Cardinality(Yielded) <= Cardinality(Free)
    BY <1>1, <1>2, FS_Subset
<1> QED
    BY <1>1, <1>2, <1>3, FS_CardinalityType, FS_EmptySet

-----------------------------------------------------------------------------
(* The tokens between the generators and the sessions. *)

LEMMA InitOutput == SharedInit => OutputInv
<1> SUFFICES ASSUME SharedInit PROVE OutputInv
    OBVIOUS
<1>1. Frames = {}
    BY DEF SharedInit, Frames
<1>2. Holding = {}
    BY DEF SharedInit, Holding
<1> QED
    BY <1>1, <1>2, FS_EmptySet, TermsAssumption DEF SharedInit, OutputInv

LEMMA OutputKept ==
    ASSUME OutputInv, UNCHANGED <<unread, tokens_delivered, tokens_received>>,
           Holding' \subseteq Holding, tokens_delivered \in Nat
    PROVE  OutputInv'
<1>1. Frames' = Frames
    BY DEF Frames
<1>2. Cardinality(Holding') <= Cardinality(Holding) /\ Cardinality(Holding') \in Nat
      /\ Cardinality(Holding) \in Nat
    BY SetsOfStreams, FS_Subset, FS_CardinalityType
<1> QED
    BY <1>1, <1>2, TermsAssumption DEF OutputInv

LEMMA OutputGenerated ==
    ASSUME SharedInv, OutputInv, NEW s \in Streams, ModelYields(s)
    PROVE  OutputInv'
<1>1. /\ generator[s] = "pulling" /\ generator' = [generator EXCEPT ![s] = "gated"]
      /\ UNCHANGED <<unread, tokens_delivered, tokens_received>>
      /\ tokens_delivered + Cardinality(Holding) < MaxTokens
    BY DEF ModelYields, Moves, channelVars, wire, stateVars
<1>2. Frames' = Frames
    BY <1>1 DEF Frames
<1>3. s \notin Holding /\ Holding' = Holding \cup {s}
    BY <1>1 DEF Holding, SharedInv, SharedTypeOK
<1>4. Cardinality(Holding') = Cardinality(Holding) + 1
    BY <1>3, SetsOfStreams, FS_AddElement
<1> QED
    BY <1>1, <1>2, <1>4, SetsOfStreams, TermsAssumption
    DEF OutputInv, SharedInv, SharedTypeOK

LEMMA FramesAreUnread ==
    /\ \A f : f \in Frames <=> \E t \in Streams : \E i \in 1..unread[t] : f = <<t, i>>
    /\ \A f : f \in Frames' <=> \E t \in Streams : \E i \in 1..unread'[t] : f = <<t, i>>
<1> QED
    BY DEF Frames

LEMMA OutputSent ==
    ASSUME SharedInv, OutputInv, NEW s \in Streams, EmitToken(s)
    PROVE  OutputInv'
<1>1. /\ generator[s] = "pacing" /\ generator' = [generator EXCEPT ![s] = "sent"]
      /\ unread' = [unread EXCEPT ![s] = @ + 1] /\ unread \in [Streams -> Nat]
      /\ tokens_delivered' = tokens_delivered + 1 /\ tokens_received' = tokens_received
    BY DEF EmitToken, Moves, stateVars, SharedInv, SharedTypeOK
<1> DEFINE frame == <<s, unread[s] + 1>>
<1>2. frame \notin Frames
    BY <1>1 DEF Frames
<1>3. Frames' = Frames \cup {frame}
    <2>1. 1..(unread[s] + 1) = 1..unread[s] \cup {unread[s] + 1}
        BY <1>1
    <2>2. \A t \in Streams : 1..unread'[t] = IF t = s THEN 1..unread[s] \cup {unread[s] + 1}
                                             ELSE 1..unread[t]
        BY <1>1, <2>1
    <2>3. Frames' \subseteq Frames \cup {frame}
        BY <2>2, FramesAreUnread
    <2>4. Frames \cup {frame} \subseteq Frames'
        BY <2>2, FramesAreUnread
    <2> QED
        BY <2>3, <2>4
<1> HIDE DEF frame
<1>4. IsFiniteSet(Frames') /\ Cardinality(Frames') = Cardinality(Frames) + 1
      /\ Cardinality(Frames) \in Nat
    BY <1>2, <1>3, FS_AddElement, FS_CardinalityType DEF OutputInv
<1>5. s \in Holding /\ Holding' = Holding \ {s}
    BY <1>1 DEF Holding, SharedInv, SharedTypeOK
<1>6. Cardinality(Holding') = Cardinality(Holding) - 1
    BY <1>5, SetsOfStreams, FS_RemoveElement
<1> QED
    BY <1>1, <1>4, <1>6, SetsOfStreams, TermsAssumption
    DEF OutputInv, SharedInv, SharedTypeOK

LEMMA OutputRead ==
    ASSUME SharedInv, OutputInv, NEW s \in Streams, ReadToken(s)
    PROVE  OutputInv'
<1>1. /\ unread[s] > 0 /\ unread' = [unread EXCEPT ![s] = @ - 1]
      /\ unread \in [Streams -> Nat]
      /\ tokens_received' = tokens_received + 1
      /\ UNCHANGED <<tokens_delivered, generator>>
    BY DEF ReadToken, producerVars, channelVars, SharedInv, SharedTypeOK
<1> DEFINE frame == <<s, unread[s]>>
<1>2. frame \in Frames
    BY <1>1 DEF Frames
<1>3. Frames' = Frames \ {frame}
    <2>1. 1..(unread[s] - 1) = 1..unread[s] \ {unread[s]}
        BY <1>1
    <2>2. \A t \in Streams : 1..unread'[t] = IF t = s THEN 1..unread[s] \ {unread[s]}
                                             ELSE 1..unread[t]
        BY <1>1, <2>1
    <2>3. Frames' \subseteq Frames \ {frame}
        BY <2>2, FramesAreUnread
    <2>4. Frames \ {frame} \subseteq Frames'
        BY <2>2, FramesAreUnread
    <2> QED
        BY <2>3, <2>4
<1> HIDE DEF frame
<1>4. IsFiniteSet(Frames') /\ Cardinality(Frames') = Cardinality(Frames) - 1
      /\ Cardinality(Frames) \in Nat
    BY <1>2, <1>3, FS_RemoveElement, FS_CardinalityType DEF OutputInv
<1>5. Holding' = Holding
    BY <1>1 DEF Holding
<1> QED
    BY <1>1, <1>4, <1>5 DEF OutputInv, SharedInv, SharedTypeOK

-----------------------------------------------------------------------------
(* What the session authorises, and who waits. *)

LEMMA InitAuthorised == SharedInit => AuthorisedInv
<1> SUFFICES ASSUME SharedInit PROVE AuthorisedInv
    OBVIOUS
<1>1. cumulative_paid = Prepaid + tokens_received * Price
    BY TermsAssumption DEF SharedInit
<1> QED
    BY <1>1 DEF SharedInit, AuthorisedInv

LEMMA AuthorisedKept ==
    ASSUME AuthorisedInv, UNCHANGED <<cumulative_paid, tokens_received>>,
           \A s \in Streams :
              post'[s] # "none" => session'[s] \in {"posting", "closing", "aborted"}
    PROVE  AuthorisedInv'
<1> QED
    BY DEF AuthorisedInv, DepositCoversOutput

(* While no POST appears, a session may leave its wait only by losing its   *)
(* own, or by giving up.                                                    *)
LEMMA WaitsKept ==
    ASSUME SharedInv, AuthorisedInv, NEW s \in Streams,
           \A t \in Streams \ {s} : post'[t] = post[t] /\ session'[t] = session[t],
           post'[s] # "none" => session'[s] \in {"posting", "closing", "aborted"},
           UNCHANGED <<cumulative_paid, tokens_received>>
    PROVE  AuthorisedInv'
<1>1. \A t \in Streams :
         post'[t] # "none" => session'[t] \in {"posting", "closing", "aborted"}
    BY DEF AuthorisedInv
<1> QED
    BY <1>1, AuthorisedKept

LEMMA AuthorisedRead ==
    ASSUME SharedInv, OutputInv, AuthorisedInv, NEW s \in Streams, ReadToken(s), OutputInv'
    PROVE  AuthorisedInv'
<1>1. /\ session[s] = "reading" /\ session' = [session EXCEPT ![s] = "yielded"]
      /\ tokens_received' = tokens_received + 1
      /\ cumulative_paid' = WithToken(cumulative_paid)
      /\ post' = post
    BY DEF ReadToken, SessionMoves, posts
<1>2. ASSUME DepositCoversOutput
      PROVE  cumulative_paid' = Prepaid + tokens_received' * Price
    <2>1. cumulative_paid = Prepaid + tokens_received * Price /\ tokens_received \in Nat
        BY <1>2 DEF AuthorisedInv, SharedInv, SharedTypeOK
    <2>2. tokens_received + 1 <= MaxTokens
        BY <1>1, <2>1, SetsOfStreams, FS_CardinalityType, TermsAssumption
        DEF OutputInv, ReadToken, producerVars, channelVars, SharedInv, SharedTypeOK,
            Holding
    <2>3. (tokens_received + 1) * Price <= MaxTokens * Price
        BY <2>1, <2>2, FewerCostLess, TermsAssumption
    <2>4. (tokens_received + 1) * Price = tokens_received * Price + Price
          /\ tokens_received * Price \in Nat /\ MaxTokens * Price \in Nat
        BY <2>1, PricesAddUp, TermsAssumption
    <2>5. cumulative_paid + Price <= Deposit
        BY <1>2, <2>1, <2>3, <2>4, TermsAssumption DEF DepositCoversOutput
    <2> QED
        BY <1>1, <2>1, <2>4, <2>5, TermsAssumption DEF WithToken
<1>3. \A t \in Streams :
         post'[t] # "none" => session'[t] \in {"posting", "closing", "aborted"}
    BY <1>1 DEF AuthorisedInv, SharedInv, SharedTypeOK
<1> QED
    BY <1>2, <1>3 DEF AuthorisedInv, DepositCoversOutput

(* The steps of stream s other than its reads. *)
Step(s) ==
    \/ OpenStream(s) \/ GeneratorStep(s) \/ ModelStep(s) \/ ClientGone(s)
    \/ SettleTaskEnds(s) \/ CommitStep(s) \/ SessionStep(s) \/ SessionAborts(s)

LEMMA AuthorisedStep ==
    ASSUME SharedInv, AuthorisedInv, NEW s \in Streams, Step(s), ~ReadToken(s)
    PROVE  AuthorisedInv'
<1>1. UNCHANGED <<cumulative_paid, tokens_received>>
    BY DEF Step, GeneratorStep, ModelStep, CommitStep, SessionStep, OpenStream, StartStream,
           PassGate, HaltStream, EmitToken, ResumeAfterYield, ModelYields, ModelStops,
           ClientGone, SettleTaskEnds, EndStream, AcceptCommit, RefuseCommit, LosePost,
           ReadDone, EvaluatorHalts, BatchCommit, KeepReading, CommitReturns,
           BatcherUpdates, SessionAborts, SendCommit, stateVars
<1>2. \A t \in Streams \ {s} : post'[t] = post[t] /\ session'[t] = session[t]
    BY DEF Step, GeneratorStep, ModelStep, CommitStep, SessionStep, OpenStream, StartStream,
           PassGate, HaltStream, EmitToken, ResumeAfterYield, ModelYields, ModelStops,
           ClientGone, SettleTaskEnds, EndStream, AcceptCommit, RefuseCommit, LosePost,
           ReadDone, EvaluatorHalts, BatchCommit, KeepReading, CommitReturns,
           BatcherUpdates, SessionAborts, SendCommit, SessionMoves, posts, SharedInv, SharedTypeOK
<1>3. post'[s] # "none" => session'[s] \in {"posting", "closing", "aborted"}
    <2>1. CASE post' = post /\ session' = session
        BY <2>1 DEF AuthorisedInv
    <2>2. CASE \/ OpenStream(s) \/ CommitStep(s) \/ SessionStep(s) \/ SessionAborts(s)
        BY <2>2
        DEF CommitStep, SessionStep, OpenStream, AcceptCommit, RefuseCommit, LosePost,
            ReadDone, EvaluatorHalts, BatchCommit, KeepReading, CommitReturns,
            BatcherUpdates, SessionAborts, SendCommit, SessionMoves, SessionOver, posts, SharedInv,
            SharedTypeOK, AuthorisedInv
    <2> QED
        BY <2>1, <2>2
        DEF Step, GeneratorStep, ModelStep, StartStream, PassGate, HaltStream, EmitToken,
            ResumeAfterYield, ModelYields, ModelStops, ClientGone, SettleTaskEnds,
            EndStream, posts
<1> QED
    BY <1>1, <1>2, <1>3, WaitsKept

-----------------------------------------------------------------------------
(* The largest amount signed. *)

LEMMA AmountsSigned ==
    ASSUME SharedInv
    PROVE  /\ \A m \in Signed : /\ m \in Commitment
                                /\ Prepaid <= m.cumulative_paid
                                /\ m.cumulative_paid <= Deposit
           /\ last_commitment # NoCommit => last_commitment \in Signed
           /\ \A s \in Streams : post[s] = "request" => posted[s] \in Signed
<1>1. \A m \in Signed : m \in Commitment
    BY DEF Signed, SharedInv, SharedTypeOK
<1>2. cumulative_paid \in Nat /\ cumulative_paid <= Deposit
    BY TermsAssumption DEF SharedInv, SharedTypeOK
<1>3. \A m \in Signed : m.cumulative_paid <= Deposit
    BY <1>1, <1>2, TermsAssumption DEF SharedInv, SignedInv, Commitment
<1> QED
    BY <1>1, <1>3 DEF Signed, SharedInv, SignedInv

(* Accepting a commitment leaves the largest amount within reach: either it *)
(* is this one's, or nothing larger was outstanding.                        *)
LEMMA AcceptanceReaches ==
    ASSUME SharedInv, NEW s \in Streams, AcceptCommit(s), NEW amount, Reaches(amount)
    PROVE  Reaches(amount)'
<1>1. /\ post[s] = "request" /\ Acceptable(posted[s]) /\ last_commitment' = posted[s]
      /\ post' = [post EXCEPT ![s] = "answered"] /\ posted' = posted
    BY DEF AcceptCommit
<1>2. posted[s] \in Signed /\ posted[s] \in Commitment /\ posted[s] # NoCommit
      /\ Prepaid <= posted[s].cumulative_paid
    BY <1>1, AmountsSigned, NoCommitAssumption
<1>3. \A m \in Signed' : m \in Signed
    BY <1>1, <1>2 DEF Signed
<1>4. CumulativePaid' = posted[s].cumulative_paid
    BY <1>1, <1>2 DEF CumulativePaid
<1>5. CASE CumulativePaid = amount
    <2>1. amount <= posted[s].cumulative_paid
        BY <1>1, <1>2, <1>5 DEF Acceptable, CumulativePaid
    <2>2. posted[s].cumulative_paid <= amount
        BY <1>2 DEF Reaches
    <2>3. amount \in Nat
        BY <1>5, TermsAssumption
        DEF CumulativePaid, SharedInv, SharedTypeOK, Commitment
    <2>4. posted[s].cumulative_paid = amount
        BY <1>2, <2>1, <2>2, <2>3 DEF Commitment
    <2> QED
        BY <1>3, <1>4, <2>4 DEF Reaches
<1>6. ASSUME NEW t \in Streams, post[t] = "request", posted[t].cumulative_paid = amount
      PROVE  Reaches(amount)'
    <2>1. CASE t = s
        BY <1>3, <1>4, <1>6, <2>1 DEF Reaches
    <2>2. CASE t # s
        <3>1. post'[t] = "request" /\ posted'[t].cumulative_paid = amount
            BY <1>1, <1>6, <2>2 DEF SharedInv, SharedTypeOK
        <3> QED
            BY <1>3, <3>1 DEF Reaches
    <2> QED
        BY <2>1, <2>2
<1> QED
    BY <1>5, <1>6 DEF Reaches

(* What is refused while the channel is there is covered already.           *)
LEMMA RefusalReaches ==
    ASSUME SharedInv, NEW s \in Streams, RefuseCommit(s), registered,
           NEW amount, Reaches(amount)
    PROVE  Reaches(amount)'
<1>1. /\ post[s] = "request" /\ ~Acceptable(posted[s])
      /\ post' = [post EXCEPT ![s] = "answered"]
      /\ UNCHANGED <<posted, last_commitment>>
    BY DEF RefuseCommit, producerVars, channelVars
<1>2. Signed' = Signed /\ CumulativePaid' = CumulativePaid
    BY <1>1 DEF Signed, CumulativePaid
<1>3. /\ posted[s] \in Signed /\ posted[s] \in Commitment
      /\ last_commitment \in Signed /\ last_commitment \in Commitment
      /\ last_commitment # NoCommit
      /\ posted[s].cumulative_paid <= last_commitment.cumulative_paid
    <2>1. /\ posted[s] \in Signed /\ posted[s] \in Commitment
          /\ Prepaid <= posted[s].cumulative_paid
          /\ posted[s].cumulative_paid <= Deposit
        BY <1>1, AmountsSigned
    <2>2. last_commitment # NoCommit
        BY <1>1, <2>1 DEF Acceptable
    <2>3. last_commitment \in Signed /\ last_commitment \in Commitment
        BY <2>2, AmountsSigned
    <2>4. \/ posted[s].sequence <= last_commitment.sequence
          \/ posted[s].cumulative_paid <= last_commitment.cumulative_paid
        BY <1>1, <2>1, <2>3 DEF Acceptable, Commitment
    <2> QED
        BY <2>1, <2>2, <2>3, <2>4 DEF SharedInv, SignedInv
<1>4. CASE CumulativePaid = amount
    BY <1>2, <1>4 DEF Reaches
<1>5. ASSUME NEW t \in Streams, post[t] = "request", posted[t].cumulative_paid = amount
      PROVE  Reaches(amount)'
    <2>1. CASE t = s
        <3>1. last_commitment.cumulative_paid = amount
            BY <1>3, <1>5, <2>1 DEF Reaches, Commitment
        <3> QED
            BY <1>2, <1>3, <3>1 DEF Reaches, CumulativePaid
    <2>2. CASE t # s
        <3>1. post'[t] = "request" /\ posted'[t].cumulative_paid = amount
            BY <1>1, <1>5, <2>2 DEF SharedInv, SharedTypeOK
        <3> QED
            BY <1>2, <3>1 DEF Reaches
    <2> QED
        BY <2>1, <2>2
<1> QED
    BY <1>4, <1>5 DEF Reaches

LEMMA ReachKept ==
    ASSUME Signed' \subseteq Signed, UNCHANGED last_commitment,
           \A s \in Streams :
              post[s] = "request" => post'[s] = "request" /\ posted'[s] = posted[s],
           NEW amount, Reaches(amount)
    PROVE  Reaches(amount)'
<1>1. CumulativePaid' = CumulativePaid
    BY DEF CumulativePaid
<1> QED
    BY <1>1 DEF Reaches

(* The one who signs signs all that is authorised. *)
LEMMA SigningReaches ==
    ASSUME SharedInv, NEW s \in Streams, SendCommit(s), NEW amount, amount = cumulative_paid
    PROVE  Reaches(amount)'
<1> DEFINE new == [sequence |-> sequence + 1, cumulative_paid |-> cumulative_paid]
<1>1. /\ posted' = [posted EXCEPT ![s] = new] /\ last_commitment' = last_commitment
      /\ post' = [post EXCEPT ![s] = "request"] /\ cumulative_paid' = cumulative_paid
    BY DEF SendCommit, producerVars, channelVars
<1>2. \A m \in Signed' : m \in Signed \/ m = new
    BY <1>1 DEF Signed, SharedInv, SharedTypeOK
<1>3. new.cumulative_paid = cumulative_paid /\ cumulative_paid \in Nat
    BY TermsAssumption DEF SharedInv, SharedTypeOK
<1>4. post'[s] = "request" /\ posted'[s] = new
    BY <1>1 DEF SharedInv, SharedTypeOK
<1> HIDE DEF new
<1>5. \A m \in Signed' : m.cumulative_paid <= cumulative_paid
    BY <1>2, <1>3 DEF SharedInv, SignedInv
<1> QED
    BY <1>1, <1>3, <1>4, <1>5 DEF Reaches

-----------------------------------------------------------------------------
(* The count of the tokens in no commitment. *)

LEMMA InitUnsigned == SharedInit => UnsignedInv
<1> SUFFICES ASSUME SharedInit PROVE UnsignedInv
    OBVIOUS
<1>1. Signed = {} /\ CumulativePaid = Prepaid /\ Prepaid + 0 * Price = Prepaid
    BY TermsAssumption DEF SharedInit, Signed, CumulativePaid
<1>2. Reaches(Prepaid + 0 * Price)
    BY <1>1 DEF Reaches
<1>3. Unsigned(0)
    <2>1. Free # {} => Slack(Cardinality(Free)) \in Nat
        BY SetsOfStreams, SlackGrows
    <2> QED
        BY <2>1, SetsOfStreams, BatchAssumption DEF SharedInit, Unsigned
<1> QED
    BY <1>2, <1>3 DEF SharedInit, UnsignedInv

(* Steps that leave the sessions where they are, and their count.           *)
LEMMA CountKept ==
    ASSUME UNCHANGED <<tokens_received, since_commit>>, Free' = Free, Yielded' = Yielded,
           NEW u, Unsigned(u)
    PROVE  Unsigned(u)'
<1> QED
    BY DEF Unsigned

LEMMA UnsignedKept ==
    ASSUME StallInv, Whole' => Whole,
           UNCHANGED <<posted, last_commitment, tokens_received, since_commit>>,
           \A s \in Streams : post[s] = "request" => post'[s] = "request",
           Whole' => Free' = Free /\ Yielded' = Yielded
    PROVE  UnsignedInv'
<1> SUFFICES ASSUME Whole'
             PROVE  \E t, u \in Nat : /\ tokens_received' = t + u
                                      /\ Reaches(Prepaid + t * Price)'
                                      /\ Unsigned(u)'
    BY DEF UnsignedInv
<1>1. PICK t \in Nat, u \in Nat : /\ tokens_received = t + u
                                  /\ Reaches(Prepaid + t * Price)
                                  /\ Unsigned(u)
    BY DEF StallInv, UnsignedInv
<1>2. Signed' = Signed
    BY DEF Signed
<1>3. Reaches(Prepaid + t * Price)'
    BY <1>1, <1>2, ReachKept
<1>4. Unsigned(u)'
    BY <1>1, CountKept
<1> QED
    BY <1>1, <1>3, <1>4

(* The producer's steps, and those of a request.                            *)
LEMMA UnsignedProducer ==
    ASSUME StallInv, NEW s \in Streams,
           \/ OpenStream(s) \/ GeneratorStep(s) \/ ModelStep(s) \/ ClientGone(s)
           \/ SettleTaskEnds(s)
    PROVE  UnsignedInv'
<1>1. /\ UNCHANGED <<last_commitment, posts, stateVars>>
      /\ registered' => registered
      /\ \/ session' = session
         \/ /\ session[s] = "idle"
            /\ session' = [session EXCEPT ![s] = "reading"]
         \/ session' = [session EXCEPT ![s] = "aborted"]
    BY DEF GeneratorStep, ModelStep, OpenStream, StartStream, PassGate, HaltStream,
           EmitToken, ResumeAfterYield, ModelYields, ModelStops, ClientGone,
           SettleTaskEnds, EndStream, channelVars
<1>2. session \in [Streams -> {"idle", "reading", "yielded", "posting", "telling",
                               "closing", "finished", "aborted"}]
    BY DEF StallInv, SharedInv, SharedTypeOK
<1>3. CASE session' = session
    <2>1. Free' = Free /\ Yielded' = Yielded /\ (Whole' => Whole)
        BY <1>1, <1>3 DEF Free, Yielded, Whole, DepositCoversOutput
    <2> QED
        BY <1>1, <2>1, UnsignedKept DEF posts, stateVars
<1>4. CASE session[s] = "idle" /\ session' = [session EXCEPT ![s] = "reading"]
    <2>1. Free' = Free /\ Yielded' = Yielded /\ (Whole' => Whole)
        BY <1>1, <1>2, <1>4 DEF Free, Yielded, Whole, DepositCoversOutput
    <2> QED
        BY <1>1, <2>1, UnsignedKept DEF posts, stateVars
<1>5. CASE session' = [session EXCEPT ![s] = "aborted"]
    BY <1>2, <1>5 DEF Whole, UnsignedInv
<1> QED
    BY <1>1, <1>3, <1>4, <1>5

(* The /commit handler; a lost POST aborts the session that waits for it.   *)
LEMMA UnsignedHandler ==
    ASSUME StallInv, NEW s \in Streams, CommitStep(s)
    PROVE  UnsignedInv'
<1> SUFFICES ASSUME Whole'
             PROVE  \E t, u \in Nat : /\ tokens_received' = t + u
                                      /\ Reaches(Prepaid + t * Price)'
                                      /\ Unsigned(u)'
    BY DEF UnsignedInv
<1>1. session \in [Streams -> {"idle", "reading", "yielded", "posting", "telling",
                               "closing", "finished", "aborted"}]
    BY DEF StallInv, SharedInv, SharedTypeOK
<1>2. ~LosePost(s)
    <2> SUFFICES ASSUME LosePost(s) PROVE FALSE
        OBVIOUS
    <2>1. session[s] \in {"posting", "closing", "aborted"}
        BY DEF LosePost, StallInv, AuthorisedInv
    <2>2. session'[s] = "aborted"
        BY <1>1, <2>1 DEF LosePost, SessionOver
    <2> QED
        BY <2>2 DEF Whole
<1>3. AcceptCommit(s) \/ RefuseCommit(s)
    BY <1>2 DEF CommitStep
<1>4. UNCHANGED <<session, stateVars, registered>>
    BY <1>3 DEF AcceptCommit, RefuseCommit, producerVars
<1>5. Free' = Free /\ Yielded' = Yielded /\ Whole
    BY <1>4 DEF Free, Yielded, Whole, DepositCoversOutput
<1>6. PICK t \in Nat, u \in Nat : /\ tokens_received = t + u
                                  /\ Reaches(Prepaid + t * Price)
                                  /\ Unsigned(u)
    BY <1>5 DEF StallInv, UnsignedInv
<1>7. Reaches(Prepaid + t * Price)'
    BY <1>3, <1>5, <1>6, AcceptanceReaches, RefusalReaches DEF StallInv, Whole
<1>8. Unsigned(u)'
    BY <1>4, <1>5, <1>6, CountKept DEF stateVars
<1> QED
    BY <1>4, <1>6, <1>7, <1>8 DEF stateVars

(* One more token, on the count and in nobody's commitment.                 *)
LEMMA UnsignedRead ==
    ASSUME StallInv, NEW s \in Streams, ReadToken(s)
    PROVE  UnsignedInv'
<1> SUFFICES ASSUME Whole'
             PROVE  \E t, u \in Nat : /\ tokens_received' = t + u
                                      /\ Reaches(Prepaid + t * Price)'
                                      /\ Unsigned(u)'
    BY DEF UnsignedInv
<1>1. /\ session[s] = "reading" /\ session' = [session EXCEPT ![s] = "yielded"]
      /\ session \in [Streams -> {"idle", "reading", "yielded", "posting", "telling",
                                  "closing", "finished", "aborted"}]
      /\ since_commit' = since_commit + 1 /\ tokens_received' = tokens_received + 1
      /\ UNCHANGED <<k, posts, last_commitment, registered>>
      /\ since_commit \in Nat /\ tokens_received \in Nat /\ k \in 1..KMax
    BY DEF ReadToken, SessionMoves, producerVars, channelVars, StallInv, SharedInv,
           SharedTypeOK
<1>2. Free' = Free /\ s \in Free /\ Yielded' = Yielded \cup {s} /\ s \notin Yielded /\ Whole
    BY <1>1 DEF Free, Yielded, Whole, DepositCoversOutput
<1>3. Cardinality(Yielded') = Cardinality(Yielded) + 1 /\ Cardinality(Yielded) \in Nat
    BY <1>2, SetsOfStreams, FS_AddElement
<1>4. PICK t \in Nat, u \in Nat : /\ tokens_received = t + u
                                  /\ Reaches(Prepaid + t * Price)
                                  /\ Unsigned(u)
    BY <1>2 DEF StallInv, UnsignedInv
<1>5. Reaches(Prepaid + t * Price)'
    <2>1. Signed' = Signed
        BY <1>1 DEF Signed, posts
    <2> QED
        BY <1>1, <1>4, <2>1, ReachKept DEF posts
<1>6. Slack(Cardinality(Free)) \in Nat
    BY <1>2, SetsOfStreams, SlackGrows
<1>7. Unsigned(u + 1)'
    <2>1. /\ u <= Slack(Cardinality(Free)) + since_commit
          /\ u <= Slack(Cardinality(Free)) + (KMax - 1) + Cardinality(Yielded)
        BY <1>2, <1>4 DEF Unsigned
    <2>2. u + 1 <= Slack(Cardinality(Free)) + (since_commit + 1)
        BY <1>1, <1>4, <1>6, <2>1
    <2>3. u + 1 <= Slack(Cardinality(Free)) + (KMax - 1) + (Cardinality(Yielded) + 1)
        BY <1>3, <1>4, <1>6, <2>1, BatchAssumption
    <2> QED
        BY <1>1, <1>2, <1>3, <2>2, <2>3 DEF Unsigned
<1>8. tokens_received' = t + (u + 1) /\ u + 1 \in Nat
    BY <1>1, <1>4
<1> QED
    BY <1>5, <1>7, <1>8, <1>4

(* A session goes on: the count it has looked at is below the batch.        *)
LEMMA UnsignedGoesOn ==
    ASSUME StallInv, NEW s \in Streams, KeepReading(s)
    PROVE  UnsignedInv'
<1> SUFFICES ASSUME Whole'
             PROVE  \E t, u \in Nat : /\ tokens_received' = t + u
                                      /\ Reaches(Prepaid + t * Price)'
                                      /\ Unsigned(u)'
    BY DEF UnsignedInv
<1>1. /\ session[s] = "yielded" /\ session' = [session EXCEPT ![s] = "reading"]
      /\ session \in [Streams -> {"idle", "reading", "yielded", "posting", "telling",
                                  "closing", "finished", "aborted"}]
      /\ UNCHANGED <<since_commit, tokens_received, k, posts, last_commitment, registered>>
      /\ since_commit \in Nat /\ k \in 1..KMax /\ since_commit < k
    BY BatchAssumption
    DEF KeepReading, ShouldCommit, SessionMoves, producerVars, channelVars, stateVars,
        StallInv, SharedInv, SharedTypeOK
<1>2. Free' = Free /\ Whole
    BY <1>1 DEF Free, Whole, DepositCoversOutput
<1>3. PICK t \in Nat, u \in Nat : /\ tokens_received = t + u
                                  /\ Reaches(Prepaid + t * Price)
                                  /\ Unsigned(u)
    BY <1>2 DEF StallInv, UnsignedInv
<1>4. Reaches(Prepaid + t * Price)'
    <2>1. Signed' = Signed
        BY <1>1 DEF Signed, posts
    <2> QED
        BY <1>1, <1>3, <2>1, ReachKept DEF posts
<1>5. Unsigned(u)'
    <2>1. /\ Cardinality(Yielded') \in Nat
          /\ Free # {} => Slack(Cardinality(Free)) \in Nat
        <3>1. Yielded' \subseteq Streams
            BY DEF Yielded
        <3> QED
            BY <3>1, StreamsAssumption, FS_Subset, FS_CardinalityType, SetsOfStreams,
               SlackGrows
    <2>2. Free # {} =>
             u <= Slack(Cardinality(Free)) + (KMax - 1) + Cardinality(Yielded')
        BY <1>1, <1>3, <2>1, BatchAssumption DEF Unsigned
    <2> QED
        BY <1>1, <1>2, <1>3, <2>2 DEF Unsigned
<1> QED
    BY <1>1, <1>3, <1>4, <1>5

(* An answer: the session is back, with the count at zero.                  *)
LEMMA UnsignedReturns ==
    ASSUME StallInv, NEW s \in Streams, CommitReturns(s), SharedInv'
    PROVE  UnsignedInv'
<1> SUFFICES ASSUME Whole'
             PROVE  \E t, u \in Nat : /\ tokens_received' = t + u
                                      /\ Reaches(Prepaid + t * Price)'
                                      /\ Unsigned(u)'
    BY DEF UnsignedInv
<1>1. /\ \/ /\ session[s] = "posting"
            /\ session' = [session EXCEPT ![s] = "telling"]
         \/ /\ session[s] = "closing"
            /\ session' = [session EXCEPT ![s] = "finished"]
      /\ session \in [Streams -> {"idle", "reading", "yielded", "posting", "telling",
                                  "closing", "finished", "aborted"}]
      /\ post[s] = "answered" /\ post' = [post EXCEPT ![s] = "none"]
      /\ post \in [Streams -> {"none", "request", "answered"}]
      /\ posted' = [posted EXCEPT ![s] = NoCommit]
      /\ since_commit' = 0
      /\ UNCHANGED <<tokens_received, last_commitment, registered>>
    BY DEF CommitReturns, SessionMoves, producerVars, channelVars, StallInv, SharedInv,
           SharedTypeOK
<1>2. Yielded' = Yielded
    BY <1>1 DEF Yielded
<1>3. Free' = Free \cup {s} /\ s \notin Free /\ Whole
    BY <1>1 DEF Free, Whole, DepositCoversOutput
<1>4. Cardinality(Free') = Cardinality(Free) + 1 /\ Cardinality(Free) \in Nat
    BY <1>3, SetsOfStreams, FS_AddElement
<1>5. PICK t \in Nat, u \in Nat : /\ tokens_received = t + u
                                  /\ Reaches(Prepaid + t * Price)
                                  /\ Unsigned(u)
    BY <1>3 DEF StallInv, UnsignedInv
<1>6. Reaches(Prepaid + t * Price)'
    <2>1. /\ Signed' \subseteq Signed
          /\ \A r \in Streams : post[r] = "request" =>
                post'[r] = "request" /\ posted'[r] = posted[r]
        BY <1>1, PostGone DEF StallInv, SharedInv, SharedTypeOK
    <2> QED
        BY <1>1, <1>5, <2>1, ReachKept
<1>7. u <= Slack(Cardinality(Free) + 1)
    <2>1. CASE Free = {}
        <3>1. u = 0 /\ Cardinality(Free) = 0
            BY <1>5, <2>1, FS_EmptySet DEF Unsigned
        <3> QED
            BY <3>1, FirstSlack
    <2>2. CASE Free # {}
        <3>1. /\ Slack(Cardinality(Free)) \in Nat
              /\ Slack(Cardinality(Free) + 1)
                    = Slack(Cardinality(Free)) + (KMax - 1) + Cardinality(Free)
            BY <2>2, SetsOfStreams, SlackGrows
        <3>2. Cardinality(Yielded) <= Cardinality(Free) /\ Cardinality(Yielded) \in Nat
            BY SetsOfStreams
        <3>3. u <= Slack(Cardinality(Free)) + (KMax - 1) + Cardinality(Yielded)
            BY <1>5, <2>2 DEF Unsigned
        <3> QED
            BY <1>4, <1>5, <3>1, <3>2, <3>3, BatchAssumption
    <2> QED
        BY <2>1, <2>2
<1>8. Unsigned(u)'
    <2>1. Slack(Cardinality(Free) + 1) \in Int
        <3>1. CASE Cardinality(Free) = 0
            BY <3>1, FirstSlack
        <3>2. CASE Cardinality(Free) # 0
            BY <1>4, <3>2, SlackGrows, BatchAssumption
        <3> QED
            BY <3>1, <3>2
    <2>2. u <= Slack(Cardinality(Free')) + since_commit'
        BY <1>1, <1>4, <1>5, <1>7, <2>1
    <2>3. Cardinality(Yielded') \in Nat
        BY <1>2, SetsOfStreams
    <2>4. u <= Slack(Cardinality(Free')) + (KMax - 1) + Cardinality(Yielded')
        BY <1>4, <1>5, <1>7, <2>1, <2>3, BatchAssumption
    <2>5. Free' # {}
        BY <1>3
    <2> QED
        BY <2>2, <2>4, <2>5 DEF Unsigned
<1> QED
    BY <1>1, <1>5, <1>6, <1>8

(* The batch size has no part in the count. *)
LEMMA UnsignedUpdates ==
    ASSUME StallInv, NEW s \in Streams, BatcherUpdates(s)
    PROVE  UnsignedInv'
<1>1. /\ session[s] = "telling" /\ session' = [session EXCEPT ![s] = "reading"]
      /\ session \in [Streams -> {"idle", "reading", "yielded", "posting", "telling",
                                  "closing", "finished", "aborted"}]
      /\ UNCHANGED <<since_commit, tokens_received, posts, last_commitment, registered>>
    BY DEF BatcherUpdates, SessionMoves, producerVars, channelVars, StallInv, SharedInv,
           SharedTypeOK
<1>2. Free' = Free /\ Yielded' = Yielded /\ (Whole' => Whole)
    BY <1>1 DEF Free, Yielded, Whole, DepositCoversOutput
<1> QED
    BY <1>1, <1>2, UnsignedKept DEF posts

(* Signing covers every token received so far.                              *)
LEMMA UnsignedSigned ==
    ASSUME StallInv, NEW s \in Streams, ReadDone(s) \/ EvaluatorHalts(s) \/ BatchCommit(s)
    PROVE  UnsignedInv'
<1> SUFFICES ASSUME Whole'
             PROVE  \E t, u \in Nat : /\ tokens_received' = t + u
                                      /\ Reaches(Prepaid + t * Price)'
                                      /\ Unsigned(u)'
    BY DEF UnsignedInv
<1>1. /\ SendCommit(s)
      /\ UNCHANGED <<since_commit, tokens_received, cumulative_paid, k>>
      /\ tokens_received \in Nat /\ since_commit \in Nat /\ k \in 1..KMax
    BY DEF ReadDone, EvaluatorHalts, BatchCommit, SendCommit, StallInv, SharedInv,
           SharedTypeOK
<1>2. PICK t \in Nat : t = tokens_received
    BY <1>1
<1>3. cumulative_paid = Prepaid + t * Price
    BY <1>2 DEF Whole, DepositCoversOutput, StallInv, AuthorisedInv
<1>4. Reaches(Prepaid + t * Price)'
    BY <1>1, <1>3, SigningReaches DEF StallInv
<1>5. Unsigned(0)'
    <2>1. /\ Cardinality(Free') \in Nat /\ Cardinality(Yielded') \in Nat
          /\ Free' # {} <=> Cardinality(Free') > 0
        <3>1. Free' \subseteq Streams /\ Yielded' \subseteq Streams
            BY DEF Free, Yielded
        <3> QED
            BY <3>1, StreamsAssumption, FS_Subset, FS_CardinalityType, FS_EmptySet
    <2>2. Free' # {} => Slack(Cardinality(Free')) \in Nat
        BY <2>1, SlackGrows
    <2> QED
        BY <1>1, <2>1, <2>2, BatchAssumption DEF Unsigned
<1>6. tokens_received' = t + 0
    BY <1>1, <1>2
<1> QED
    BY <1>4, <1>5, <1>6

-----------------------------------------------------------------------------
LEMMA OutputStep ==
    ASSUME SharedInv, OutputInv, NEW s \in Streams, Step(s)
    PROVE  OutputInv'
<1>1. CASE ModelYields(s) \/ EmitToken(s) \/ ReadToken(s)
    BY <1>1, OutputGenerated, OutputSent, OutputRead
<1>2. CASE ~(ModelYields(s) \/ EmitToken(s) \/ ReadToken(s))
    <2>1. UNCHANGED <<unread, tokens_delivered, tokens_received>>
        BY <1>2
        DEF Step, GeneratorStep, ModelStep, CommitStep, SessionStep, OpenStream,
            StartStream, PassGate, HaltStream, ResumeAfterYield, ModelStops, ClientGone,
            SettleTaskEnds, EndStream, AcceptCommit, RefuseCommit, LosePost, ReadDone,
            EvaluatorHalts, BatchCommit, KeepReading, CommitReturns, BatcherUpdates,
            SessionAborts, SendCommit, stateVars, producerVars, channelVars, wire
    <2>2. Holding' \subseteq Holding
        BY <1>2
        DEF Step, GeneratorStep, ModelStep, CommitStep, SessionStep, OpenStream,
            StartStream, PassGate, HaltStream, ResumeAfterYield, ModelStops, ClientGone,
            SettleTaskEnds, EndStream, Moves, AcceptCommit, RefuseCommit, LosePost,
            ReadDone, EvaluatorHalts, BatchCommit, KeepReading, CommitReturns,
            BatcherUpdates, SessionAborts, SendCommit, producerVars, Holding, SharedInv, SharedTypeOK
    <2>3. tokens_delivered \in Nat
        BY DEF SharedInv, SharedTypeOK
    <2> QED
        BY <2>1, <2>2, <2>3, OutputKept
<1> QED
    BY <1>1, <1>2

LEMMA InitStallInv == SharedInit => StallInv
<1> QED
    BY InitSharedInv, InitOutput, InitAuthorised, InitUnsigned DEF StallInv

LEMMA StallStep ==
    ASSUME StallInv, NEW s \in Streams, Step(s), SharedInv'
    PROVE  StallInv'
<1>1. OutputInv'
    BY OutputStep DEF StallInv
<1>2. AuthorisedInv'
    BY <1>1, AuthorisedRead, AuthorisedStep DEF StallInv
<1>3. UnsignedInv'
    <2>1. CASE SessionAborts(s)
        <3>1. session'[s] = "aborted"
            BY <2>1 DEF SessionAborts, StallInv, SharedInv, SharedTypeOK
        <3> QED
            BY <3>1 DEF UnsignedInv, Whole
    <2>2. CASE SessionStep(s)
        BY <2>2, UnsignedRead, UnsignedGoesOn, UnsignedReturns,
           UnsignedUpdates, UnsignedSigned
        DEF SessionStep
    <2> QED
        BY <2>1, <2>2, UnsignedProducer, UnsignedHandler DEF Step
<1> QED
    BY <1>1, <1>2, <1>3 DEF StallInv

LEMMA StallIdle ==
    ASSUME StallInv, Tick \/ UNCHANGED vars, SharedInv'
    PROVE  StallInv'
<1>1. UNCHANGED <<generator, tokens_delivered, last_commitment, registered, unread,
                  posts, session, stateVars>>
    BY DEF Tick, vars, producerVars, channelVars, wire
<1>2. OutputInv'
    <2>1. Holding' \subseteq Holding /\ tokens_delivered \in Nat
        BY <1>1 DEF Holding, StallInv, SharedInv, SharedTypeOK
    <2> QED
        BY <1>1, <2>1, OutputKept DEF StallInv, stateVars
<1>3. AuthorisedInv'
    BY <1>1, AuthorisedKept DEF StallInv, AuthorisedInv, posts, stateVars
<1>4. UnsignedInv'
    <2>1. Free' = Free /\ Yielded' = Yielded /\ (Whole' => Whole)
        BY <1>1 DEF Free, Yielded, Whole, DepositCoversOutput
    <2> QED
        BY <1>1, <2>1, UnsignedKept DEF posts, stateVars
<1> QED
    BY <1>2, <1>3, <1>4 DEF StallInv

LEMMA NextStallInv == StallInv /\ [SharedNext]_vars => StallInv'
<1> SUFFICES ASSUME StallInv, [SharedNext]_vars PROVE StallInv'
    OBVIOUS
<1>1. SharedInv'
    BY NextSharedInv DEF StallInv
<1>2. ASSUME NEW s \in Streams, Step(s) PROVE StallInv'
    BY <1>1, <1>2, StallStep
<1>3. CASE Tick \/ UNCHANGED vars
    BY <1>1, <1>3, StallIdle
<1> QED
    BY <1>2, <1>3 DEF SharedNext, Step

(* The count of unsigned tokens is an invariant of any number of streams.   *)
THEOREM StallInvariance == SharedSpec => []StallInv
<1> QED
    BY InitStallInv, NextStallInv, PTL DEF SharedSpec

(* However many streams share a channel, with a cap above what they may     *)
(* leave unsigned no generator is paused when every session is idle: one    *)
(* side of the channel is always able to go on.                             *)
THEOREM SharedChannelNeverStalls == SharedSpec => []NoSharedStall
<1>1. StallInv => NoSharedStall
    <2> SUFFICES ASSUME StallInv, CapCoversUnsigned, DepositCoversOutput, registered,
                        \A s \in Streams : Quiet(s)
                 PROVE  ~ShouldPause
        BY DEF NoSharedStall
    <2>1. Whole /\ Free = Streams /\ Yielded = {} /\ Streams # {}
        BY StreamsAssumption DEF Whole, Quiet, Free, Yielded
    <2>2. PICK t \in Nat, u \in Nat : /\ tokens_received = t + u
                                      /\ Reaches(Prepaid + t * Price)
                                      /\ Unsigned(u)
        BY <2>1 DEF StallInv, UnsignedInv
    <2>3. tokens_delivered = t + u
        <3>1. Frames = {}
            BY DEF Frames, Quiet
        <3> QED
            BY <2>2, <3>1, FS_EmptySet DEF StallInv, OutputInv
    <2>4. CommittedOutput = t * Price /\ t * Price \in Nat
        <3>1. CumulativePaid = Prepaid + t * Price
            BY <2>2 DEF Reaches, Quiet
        <3>2. t * Price \in Nat
            BY PricesAddUp
        <3> QED
            BY <3>1, <3>2, TermsAssumption DEF CommittedOutput
    <2>5. u <= MostUnsigned /\ MostUnsigned \in Nat
        <3>1. /\ SharedCount \in Nat /\ SharedCount > 0 /\ Slack(SharedCount) \in Nat
              /\ Cardinality(Yielded) = 0 /\ Cardinality(Free) = SharedCount
            BY <2>1, SetsOfStreams, SlackGrows, FS_EmptySet DEF SharedCount
        <3>2. MostUnsigned = Slack(SharedCount) + (KMax - 1)
            <4>1. SharedCount * (KMax - 1) = (SharedCount - 1) * (KMax - 1) + (KMax - 1)
                BY <3>1, BatchAssumption
            <4>2. /\ (SharedCount - 1) * (KMax - 1) \in Int
                  /\ (SharedCount * (SharedCount - 1)) \div 2 \in Int
                BY <3>1, BatchAssumption
            <4> QED
                BY <4>1, <4>2, BatchAssumption DEF MostUnsigned, Slack
        <3>3. u <= Slack(SharedCount) + (KMax - 1)
            BY <2>1, <2>2, <3>1, BatchAssumption DEF Unsigned
        <3> QED
            BY <2>2, <3>1, <3>2, <3>3, BatchAssumption
    <2>6. UnpaidValue = u * Price /\ u * Price \in Nat
        <3>1. (t + u) * Price = t * Price + u * Price
            BY <2>2, TermsAssumption
        <3>2. u * Price \in Nat
            BY <2>2, PricesAddUp
        <3> QED
            BY <2>3, <2>4, <3>1, <3>2 DEF UnpaidValue
    <2>7. u * Price <= MostUnsigned * Price /\ MostUnsigned * Price \in Nat
        BY <2>2, <2>5, FewerCostLess, PricesAddUp
    <2> QED
        BY <2>6, <2>7, TermsAssumption DEF CapCoversUnsigned, ShouldPause
<1> QED
    BY <1>1, StallInvariance, PTL
=============================================================================
