-------------------------- MODULE Settlement_proofs --------------------------
(***************************************************************************)
(* Proofs about Settlement: every step of the producer and the cluster is  *)
(* a step of the program or leaves the chain alone, so that what is proved *)
(* of TapChannel holds here; a settlement of the producer is never undone; *)
(* and the settler never closes too early.                                 *)
(***************************************************************************)
EXTENDS Settlement, TapChannel_proofs

(* A commitment that was accepted, now or before a newer one was.           *)
Committed(c, m) == /\ m \in Signed
                   /\ accepted[c] # NoCommit
                   /\ m.sequence <= accepted[c].sequence

(* What accept_commitment tests that no later commitment changes.           *)
Sound(c, m) == /\ m \in Signed
               /\ m.channel = c /\ Payable(c, m) /\ m.signer = KeyOf[c]

(* What the process remembers of a channel it still knows is what it        *)
(* accepted; nothing is accepted before the channel is acknowledged.        *)
MemoryFaithful ==
    \A c \in Channel :
        /\ last_commitment[c] \in {NoCommit, accepted[c]}
        /\ c \in registry => /\ last_commitment[c] = accepted[c]
                             /\ handshake[c] = "acked"
        /\ handshake[c] # "acked" => accepted[c] = NoCommit
        /\ accepted[c] # NoCommit => Sound(c, accepted[c])

(* A settle task, and a transaction that outlived it, carries a commitment  *)
(* its channel's producer accepted; it has none before it reads one.        *)
PresentedCommitted ==
    \A r \in Request :
        /\ phase[r] \in {"idle", "preparing", "running", "spawned"} =>
              presented[r] = NoCommit
        /\ settle_tx[r] # "none" => presented[r] # NoCommit
        /\ presented[r] # NoCommit => /\ serves[r] \in Channel
                                      /\ Committed(serves[r], presented[r])

(* An account has the terms and the key its producer was told of.           *)
AsAgreed(c) ==
    Exists(c) =>
        /\ channel[c].deposit_micro = TermsOf[c].deposit_micro
        /\ channel[c].prepaid_input_micro = TermsOf[c].prepaid_input_micro
        /\ channel[c].session_key = KeyOf[c]

AllAsAgreed == \A c \in Channel : AsAgreed(c)

(* Each nonce is fresh: a channel exists only between the one open that     *)
(* landed and its close, and what the settler holds has been opened.        *)
OpenedOnce ==
    /\ \A c \in Channel : /\ Exists(c) => open_tx[c] = "landed"
                          /\ handshake[c] = "none" => open_tx[c] = "none"
    /\ \A c \in scan \cup close_sent : open_tx[c] = "landed"

(* Why a commitment is abandoned for three reasons only: a task that ends   *)
(* otherwise either had nothing to present or has seen its transaction      *)
(* processed, and a transaction that passed the preflight is refused only   *)
(* because the account can no longer be settled, for good.                  *)
Attended(c) == \E r \in Request : Attends(r, c)

SettleOver(c) == open_tx[c] = "landed" /\ ~SettleAllowed(c)

Causes(r, c) == /\ serves[r] = c
                /\ \/ phase[r] \in {"lost", "failed"}
                   \/ presented[r] \notin {NoCommit, accepted[c]}

ServedKnown ==
    \A r \in Request : serves[r] \in Channel =>
        /\ handshake[serves[r]] = "acked"
        /\ phase[r] # "idle"
        /\ phase[r] \in {"skipped", "settled", "failed"} => serves[r] \notin registry
        /\ phase[r] \in Running => last_commitment[serves[r]] = accepted[serves[r]]

Tracked(r) ==
    /\ settle_tx[r] # "none" =>
          /\ serves[r] \in Channel /\ open_tx[serves[r]] = "landed"
          /\ phase[r] \notin {"idle", "preparing", "running", "spawned", "submitting"}
    /\ settle_tx[r] = "sent" /\ SettleAllowed(serves[r]) =>
          CommitmentAcceptable(serves[r], presented[r])
    /\ settle_tx[r] \in {"landed", "refused"} => ~SettleAllowed(serves[r])

SettleTracked == \A r \in Request : Tracked(r)

AllAttended ==
    \A c \in Channel :
        accepted[c] # NoCommit =>
            Attended(c) \/ SettleOver(c) \/ \E r \in Request : Causes(r, c)

AttendedInv == ServedKnown /\ SettleTracked /\ SettlementHolds /\ AllAttended

SysInv == /\ IInv /\ SystemTypeOK
          /\ MemoryFaithful /\ PresentedCommitted /\ OpenedOnce
          /\ AllAsAgreed /\ ReadyMeansClosable

-----------------------------------------------------------------------------
(* The system's steps, seen by the program.                                 *)
LEMMA ChainStep == SysInv /\ [SystemNext]_systemVars => [Next]_vars
<1> SUFFICES ASSUME SysInv, SystemNext, ~ UNCHANGED vars PROVE Next
    BY DEF systemVars, chainVars
<1>1. ASSUME NEW c \in Channel, LandOpen(c) PROVE Next
    BY <1>1, SettlementAssumption DEF LandOpen, Next
<1>2. ASSUME NEW r \in Request, LandSettle(r) PROVE Next
    <2>1. serves[r] \in Channel /\ presented[r] \in Commitment
        BY <1>2, SettlementAssumption
        DEF LandSettle, SysInv, PresentedCommitted, Committed
    <2> QED
        BY <1>2, <2>1 DEF LandSettle, Next
<1>2a. ASSUME NEW c \in Channel, NEW m \in Signed,
              OthersSettle(c, m) \/ OthersDispute(c, m)
       PROVE  Next
    BY <1>2a, SettlementAssumption DEF OthersSettle, OthersDispute, Next
<1>3. ASSUME NEW c \in Channel, LandClose(c) \/ OthersClose(c) PROVE Next
    BY <1>3 DEF LandClose, OthersClose, Next
<1>4. CASE TimePasses
    BY <1>4 DEF TimePasses, Next
<1>5. ASSUME \/ OpenStep \/ SettlerStep \/ Crash \/ Restart
             \/ \E c \in Channel : DropOpen(c) \/ DropClose(c)
             \/ \E r \in Request : RefuseSettle(r) \/ DropSettle(r) \/ TaskStep(r)
             \/ \E c \in Channel, r \in Request : StartRequest(r, c)
             \/ \E c \in Channel : \E m \in Signed : AcceptCommit(c, m)
      PROVE  FALSE
    <2>1. ASSUME NEW r \in Request, TaskStep(r) PROVE FALSE
        BY <2>1 DEF TaskStep, StartStream, EndStream, SkipSettle, TakeCommitment,
                    SendSettle, SettleConfirmed, SettleRaises, FinishTask, chainVars
    <2>2. CASE OpenStep \/ Crash \/ Restart
        BY <2>2 DEF OpenStep, SendOpen, AckOpen, OpenRaises, Crash, Restart, chainVars
    <2>3. CASE SettlerStep
        BY <2>3 DEF SettlerStep, Poll, SendClose, CloseRaises, CloseReturns, chainVars
    <2>4. ASSUME \/ \E c \in Channel : DropOpen(c) \/ DropClose(c)
                 \/ \E r \in Request : RefuseSettle(r) \/ DropSettle(r)
          PROVE  FALSE
        BY <2>4 DEF DropOpen, DropClose, RefuseSettle, DropSettle, chainVars
    <2>5. ASSUME \/ \E c \in Channel, r \in Request : StartRequest(r, c)
                 \/ \E c \in Channel : \E m \in Signed : AcceptCommit(c, m)
          PROVE  FALSE
        BY <2>5 DEF StartRequest, AcceptCommit, chainVars
    <2> QED
        BY <1>5, <2>1, <2>2, <2>3, <2>4, <2>5
<1> QED
    BY <1>1, <1>2, <1>2a, <1>3, <1>4, <1>5 DEF SystemNext, ClusterStep

(* The system's initial state satisfies the invariant.                      *)
LEMMA SystemInitInv == SystemInit => SysInv
<1> SUFFICES ASSUME SystemInit PROVE SysInv
    OBVIOUS
<1>1. IInv /\ TypeOK
    BY InitIInv DEF SystemInit, IInv
<1>2. \A c \in Channel : ~Exists(c)
    BY DEF SystemInit, Init, Exists
<1>3. SystemTypeOK
    BY <1>1, SettlementAssumption DEF SystemInit, SystemTypeOK, Running
<1>4. MemoryFaithful /\ PresentedCommitted
    BY DEF SystemInit, MemoryFaithful, PresentedCommitted
<1>5. OpenedOnce /\ AllAsAgreed /\ ReadyMeansClosable
    BY <1>2 DEF SystemInit, OpenedOnce, AllAsAgreed, AsAgreed, ReadyMeansClosable
<1> QED
    BY <1>1, <1>3, <1>4, <1>5 DEF SysInv

-----------------------------------------------------------------------------
(* The parts of the invariant, one at a time.                               *)

LEMMA TypeStep ==
    ASSUME SysInv, SystemNext, TypeOK'
    PROVE  SystemTypeOK'
<1> USE DEF SystemTypeOK, SysInv
<1>1. ASSUME NEW c \in Channel, SendOpen(c) \/ AckOpen(c) \/ OpenRaises(c)
      PROVE  SystemTypeOK'
    BY <1>1 DEF SendOpen, AckOpen, OpenRaises, storeVars, requestVars, settlerVars,
                txVars
<1>2. ASSUME NEW c \in Channel, NEW r \in Request, StartRequest(r, c)
      PROVE  SystemTypeOK'
    BY <1>2, SettlementAssumption
    DEF StartRequest, storeVars, settlerVars, txVars, Running
<1>3. ASSUME NEW c \in Channel, NEW m \in Signed, AcceptCommit(c, m)
      PROVE  SystemTypeOK'
    BY <1>3, SettlementAssumption DEF AcceptCommit, requestVars, settlerVars, txVars
<1>4. ASSUME NEW r \in Request, StartStream(r) \/ EndStream(r) \/ SendSettle(r)
      PROVE  SystemTypeOK'
    BY <1>4 DEF StartStream, EndStream, SendSettle, storeVars, requestVars,
                settlerVars, txVars, Running
<1>5. ASSUME NEW r \in Request, TakeCommitment(r)
      PROVE  SystemTypeOK'
    <2>1. serves[r] \in Channel
        BY <1>5 DEF TakeCommitment
    <2>2. last_commitment[serves[r]] \in Commitment
        BY <1>5, <2>1 DEF TakeCommitment
    <2> QED
        BY <1>5, <2>1, <2>2, SettlementAssumption
        DEF TakeCommitment, storeVars, settlerVars, txVars, Running
<1>6. ASSUME NEW r \in Request, SkipSettle(r) \/ SettleConfirmed(r) \/ SettleRaises(r)
      PROVE  SystemTypeOK'
    BY <1>6 DEF SkipSettle, SettleConfirmed, SettleRaises, FinishTask, settlerVars,
                txVars, Running
<1>7. CASE SettlerStep
    BY <1>7 DEF SettlerStep, Poll, Ready, SendClose, CloseRaises, CloseReturns,
                storeVars, requestVars, txVars
<1>8. CASE Crash
    <2>1. /\ phase' \in [Request -> Running \cup {"idle", "skipped", "settled",
                                                 "failed", "lost"}]
          /\ handshake' \in [Channel -> {"none", "sending", "acked", "raised"}]
        BY <1>8 DEF Crash
    <2>2. \A r \in Request :
              /\ phase'[r] # "idle" => serves'[r] # NoChannel
              /\ phase'[r] \in {"submitting", "confirming", "settled"} =>
                    presented'[r] # NoCommit
        BY <1>8 DEF Crash, Running
    <2>3. crashes' \in 0..MaxCrashes
        BY <1>8, SettlementAssumption DEF Crash
    <2>4. /\ up' \in BOOLEAN /\ registry' \in SUBSET Channel
          /\ scan' \in SUBSET Channel /\ closing' \in Channel \cup {NoChannel}
          /\ last_commitment' \in [Channel -> Commitment \cup {NoCommit}]
          /\ UNCHANGED <<accepted, serves, presented, open_tx, settle_tx, close_sent>>
        BY <1>8 DEF Crash, txVars
    <2> QED
        BY <2>1, <2>2, <2>3, <2>4
<1>9. CASE Restart
    BY <1>9 DEF Restart, storeVars, requestVars, settlerVars, txVars
<1>10. CASE ClusterStep
    BY <1>10 DEF ClusterStep, TimePasses, LandOpen, DropOpen, LandClose, DropClose,
                 OthersClose, OthersSettle, OthersDispute, LandSettle,
                 RefuseSettle, DropSettle, offChain, storeVars, requestVars,
                 settlerVars, txVars
<1> QED
    BY <1>1, <1>2, <1>3, <1>4, <1>5, <1>6, <1>7, <1>8, <1>9, <1>10
    DEF SystemNext, OpenStep, TaskStep

(* What the process remembers stays what it accepted.                       *)
LEMMA MemoryStep ==
    ASSUME SysInv, SystemNext
    PROVE  MemoryFaithful'
<1> USE DEF SystemTypeOK, SysInv, MemoryFaithful
<1>1. ASSUME NEW c \in Channel, SendOpen(c) \/ AckOpen(c) \/ OpenRaises(c)
      PROVE  MemoryFaithful'
    BY <1>1 DEF SendOpen, AckOpen, OpenRaises, storeVars, Sound, Payable
<1>2. ASSUME NEW c \in Channel, NEW m \in Signed, AcceptCommit(c, m)
      PROVE  MemoryFaithful'
    BY <1>2 DEF AcceptCommit, Verifies, Sound, Payable
<1>3. ASSUME NEW r \in Request, TaskStep(r)
      PROVE  MemoryFaithful'
    BY <1>3 DEF TaskStep, StartStream, EndStream, SkipSettle, TakeCommitment,
                SendSettle, SettleConfirmed, SettleRaises, FinishTask, storeVars,
                Sound, Payable
<1>4. CASE Crash
    BY <1>4 DEF Crash, Sound, Payable
<1>5. CASE \/ SettlerStep \/ Restart \/ ClusterStep
           \/ \E c \in Channel, r \in Request : StartRequest(r, c)
    BY <1>5 DEF SettlerStep, Poll, SendClose, CloseRaises, CloseReturns, Restart,
                ClusterStep, TimePasses, LandOpen, DropOpen, LandClose, DropClose,
                OthersClose, OthersSettle, OthersDispute, LandSettle, RefuseSettle,
                DropSettle, StartRequest, offChain, storeVars, Sound, Payable
<1> QED
    BY <1>1, <1>2, <1>3, <1>4, <1>5 DEF SystemNext, OpenStep

(* A settle in flight keeps carrying an accepted commitment.                *)
LEMMA PresentedStep ==
    ASSUME SysInv, SystemNext
    PROVE  PresentedCommitted'
<1> USE DEF SystemTypeOK, SysInv, PresentedCommitted, Committed
<1>1. ASSUME NEW c \in Channel, NEW m \in Signed, AcceptCommit(c, m)
      PROVE  PresentedCommitted'
    <2>1. accepted[c] # NoCommit => accepted[c].sequence < m.sequence
        BY <1>1, SettlementAssumption, ConstantsAssumption
        DEF AcceptCommit, MemoryFaithful, Verifies, Newer, Commitment, U64
    <2>2. /\ \A n \in Commitment \cup {NoCommit} : n # NoCommit => n.sequence \in Nat
          /\ m \in Commitment /\ m # NoCommit
        BY SettlementAssumption, ConstantsAssumption
        DEF Commitment, U64
    <2> QED
        BY <1>1, <2>1, <2>2 DEF AcceptCommit, requestVars, txVars, Sound, Payable
<1>2. ASSUME NEW r \in Request, TakeCommitment(r)
      PROVE  PresentedCommitted'
    <2>1. serves[r] \in Channel
        BY <1>2 DEF TakeCommitment
    <2>2. /\ last_commitment[serves[r]] = accepted[serves[r]]
          /\ accepted[serves[r]] \in Signed
          /\ accepted[serves[r]].sequence \in Nat
        BY <1>2, <2>1, SettlementAssumption, ConstantsAssumption
        DEF TakeCommitment, MemoryFaithful, Sound, Commitment, U64
    <2> QED
        BY <1>2, <2>1, <2>2 DEF TakeCommitment, storeVars, txVars, Sound, Payable
<1>3. ASSUME NEW r \in Request, TaskStep(r), ~TakeCommitment(r)
      PROVE  PresentedCommitted'
    BY <1>3 DEF TaskStep, StartStream, EndStream, SkipSettle, SendSettle,
                SettleConfirmed, SettleRaises, FinishTask, storeVars, requestVars,
                txVars, Sound, Payable
<1>4. CASE Crash \/ \E c \in Channel, r \in Request : StartRequest(r, c)
    BY <1>4 DEF Crash, StartRequest, storeVars, txVars, Running, Sound, Payable
<1>5. CASE OpenStep \/ SettlerStep \/ Restart
    BY <1>5 DEF OpenStep, SendOpen, AckOpen, OpenRaises, SettlerStep, Poll, SendClose,
                CloseRaises, CloseReturns, Restart, storeVars, requestVars, txVars,
                Sound, Payable
<1>6. CASE ClusterStep
    BY <1>6 DEF ClusterStep, TimePasses, LandOpen, DropOpen, LandClose, DropClose,
                OthersClose, OthersSettle, OthersDispute, LandSettle, RefuseSettle,
                DropSettle, offChain, storeVars, requestVars, txVars, Sound, Payable
<1> QED
    BY <1>1, <1>2, <1>3, <1>4, <1>5, <1>6 DEF SystemNext

(* The one open of a channel lands before anything else happens to it.      *)
LEMMA OpenedStep ==
    ASSUME SysInv, SystemNext
    PROVE  OpenedOnce'
<1> USE DEF SystemTypeOK, SysInv, OpenedOnce
<1>0. channel \in [Channel -> ChannelType \cup {NoAccount}]
    BY DEF TypeOK
<1>1. ASSUME NEW c \in Channel, LandOpen(c) PROVE OpenedOnce'
    BY <1>0, <1>1 DEF LandOpen, OpenChannel, Exists, offChain, settlerVars
<1>2. ASSUME NEW c \in Channel, LandClose(c) \/ OthersClose(c) PROVE OpenedOnce'
    BY <1>0, <1>2 DEF LandClose, OthersClose, Close, Exists, offChain, settlerVars,
                      txVars
<1>2a. ASSUME NEW c \in Channel, NEW m \in Signed,
              OthersSettle(c, m) \/ OthersDispute(c, m)
       PROVE  OpenedOnce'
    BY <1>0, <1>2a DEF OthersSettle, OthersDispute, Settle, Dispute, SettleAllowed,
                       DisputeAllowed, InStatus, Exists, offChain, settlerVars, txVars
<1>3. ASSUME NEW r \in Request, LandSettle(r) PROVE OpenedOnce'
    BY <1>0, <1>3 DEF LandSettle, Settle, SettleAllowed, InStatus, Exists, offChain,
                      settlerVars
<1>4. ASSUME NEW c \in Channel, SendOpen(c) \/ AckOpen(c) \/ OpenRaises(c)
      PROVE  OpenedOnce'
    BY <1>4 DEF SendOpen, AckOpen, OpenRaises, chainVars, vars, Exists,
                settlerVars, txVars
<1>5. CASE SettlerStep
    <2>1. CASE Poll
        <3>1. \A c \in scan' : c \in Channel /\ Exists(c)
            BY <2>1 DEF Poll, Ready, InStatus
        <3>2. UNCHANGED <<channel, open_tx, close_sent, handshake>>
            BY <2>1 DEF Poll, chainVars, vars, txVars
        <3> QED
            BY <3>1, <3>2 DEF Exists
    <2>2. ASSUME \/ CloseReturns
                 \/ \E c \in Channel : SendClose(c) \/ CloseRaises(c)
          PROVE  OpenedOnce'
        BY <2>2 DEF SendClose, CloseRaises, CloseReturns, chainVars, vars, Exists,
                    txVars
    <2> QED
        BY <1>5, <2>1, <2>2 DEF SettlerStep
<1>6. CASE Crash \/ Restart \/ TimePasses
    BY <1>6 DEF Crash, Restart, TimePasses, Tick, chainVars, vars, Exists, offChain,
                settlerVars, txVars
<1>7. ASSUME NEW c \in Channel, DropOpen(c) \/ DropClose(c) PROVE OpenedOnce'
    BY <1>7 DEF DropOpen, DropClose, chainVars, vars, Exists, offChain, settlerVars
<1>8. ASSUME \/ \E r \in Request : RefuseSettle(r) \/ DropSettle(r) \/ TaskStep(r)
             \/ \E c \in Channel, r \in Request : StartRequest(r, c)
             \/ \E c \in Channel : \E m \in Signed : AcceptCommit(c, m)
      PROVE  OpenedOnce'
    BY <1>8 DEF RefuseSettle, DropSettle, TaskStep, StartStream, EndStream,
                SkipSettle, TakeCommitment, SendSettle, SettleConfirmed,
                SettleRaises, FinishTask, StartRequest, AcceptCommit, chainVars,
                vars, Exists, offChain, settlerVars, txVars
<1> QED
    BY <1>1, <1>2, <1>2a, <1>3, <1>4, <1>5, <1>6, <1>7, <1>8
    DEF SystemNext, OpenStep, ClusterStep

(* settle and dispute leave an account's terms alone.                       *)
LEMMA AgreedStep ==
    ASSUME SysInv, SystemNext
    PROVE  AllAsAgreed'
<1> USE DEF SystemTypeOK, SysInv
<1> SUFFICES ASSUME NEW c \in Channel PROVE AsAgreed(c)'
    BY DEF AllAsAgreed
<1>0. TypeOK /\ AsAgreed(c)
    BY DEF AllAsAgreed
<1>1. ASSUME channel'[c] = channel[c] PROVE AsAgreed(c)'
    BY <1>0, <1>1 DEF AsAgreed, Exists
<1>2. ASSUME NEW d \in Channel, NEW m \in Commitment, Settle(d, m) PROVE AsAgreed(c)'
    <2>1. /\ channel'[d] = [channel[d] EXCEPT !.last_sequence = m.sequence,
                               !.last_cumulative_paid = m.cumulative_paid,
                               !.settled_at = now, !.status = "Settling"]
          /\ channel[d] \in ChannelType
          /\ \A e \in Channel \ {d} : channel'[e] = channel[e]
        BY <1>0, <1>2, SettleEffect
    <2>2. Exists(d)
        BY <1>2 DEF Settle, SettleAllowed, InStatus
    <2>3. CASE c = d
        BY <1>0, <2>1, <2>2, <2>3 DEF AsAgreed, ChannelType
    <2> QED
        BY <1>1, <2>1, <2>3
<1>3. ASSUME NEW d \in Channel, NEW m \in Commitment, Dispute(d, m) PROVE AsAgreed(c)'
    <2>1. /\ channel'[d] = [channel[d] EXCEPT !.last_sequence = m.sequence,
                               !.last_cumulative_paid = m.cumulative_paid]
          /\ channel[d] \in ChannelType
          /\ \A e \in Channel \ {d} : channel'[e] = channel[e]
        BY <1>0, <1>3, DisputeEffect
    <2>2. Exists(d)
        BY <1>3 DEF Dispute, DisputeAllowed, InStatus
    <2>3. CASE c = d
        BY <1>0, <2>1, <2>2, <2>3 DEF AsAgreed, ChannelType
    <2> QED
        BY <1>1, <2>1, <2>3
<1>4. ASSUME NEW d \in Channel, LandOpen(d) PROVE AsAgreed(c)'
    <2>1. /\ channel'[d] = OpenedAccount(KeyOf[d], TermsOf[d])
          /\ \A e \in Channel \ {d} : channel'[e] = channel[e]
        <3>1. KeyOf[d] \in SessionKey /\ TermsOf[d] \in Offers
            BY SettlementAssumption
        <3>2. OpenChannel(d, KeyOf[d], TermsOf[d])
            BY <1>4 DEF LandOpen
        <3> QED
            BY <1>0, <3>1, <3>2, OpenEffect
    <2>2. CASE c = d
        BY <2>1, <2>2 DEF AsAgreed, OpenedAccount
    <2> QED
        BY <1>1, <2>1, <2>2
<1>5. ASSUME NEW d \in Channel, Close(d) PROVE AsAgreed(c)'
    <2>1. CASE c = d
        BY <1>0, <1>5, <2>1 DEF Close, TypeOK, AsAgreed, Exists
    <2> QED
        BY <1>0, <1>1, <1>5, <2>1 DEF Close, TypeOK
<1>6. CASE ClusterStep
    <2>1. ASSUME NEW r \in Request, LandSettle(r) PROVE AsAgreed(c)'
        <3>1. serves[r] \in Channel /\ presented[r] \in Commitment
            BY <2>1, SettlementAssumption DEF LandSettle, PresentedCommitted,
                                              Committed
        <3>2. Settle(serves[r], presented[r])
            BY <2>1 DEF LandSettle
        <3> QED
            BY <1>2, <3>1, <3>2
    <2>2. ASSUME NEW d \in Channel, NEW m \in Signed,
                 OthersSettle(d, m) \/ OthersDispute(d, m)
          PROVE  AsAgreed(c)'
        BY <1>2, <1>3, <2>2, SettlementAssumption DEF OthersSettle, OthersDispute
    <2>3. ASSUME NEW d \in Channel, LandClose(d) \/ OthersClose(d) PROVE AsAgreed(c)'
        BY <1>5, <2>3 DEF LandClose, OthersClose
    <2>4. ASSUME \/ TimePasses
                 \/ \E d \in Channel : DropOpen(d) \/ DropClose(d)
                 \/ \E r \in Request : RefuseSettle(r) \/ DropSettle(r)
          PROVE  AsAgreed(c)'
        BY <1>1, <2>4 DEF TimePasses, Tick, DropOpen, DropClose, RefuseSettle,
                          DropSettle, chainVars, vars
    <2> QED
        BY <1>4, <1>6, <2>1, <2>2, <2>3, <2>4 DEF ClusterStep
<1>7. CASE OpenStep \/ SettlerStep \/ Crash \/ Restart
    BY <1>1, <1>7 DEF OpenStep, SendOpen, AckOpen, OpenRaises, SettlerStep, Poll,
                      SendClose, CloseRaises, CloseReturns, Crash, Restart, chainVars,
                      vars
<1>8. ASSUME \/ \E r \in Request : TaskStep(r)
             \/ \E d \in Channel, r \in Request : StartRequest(r, d)
             \/ \E d \in Channel : \E m \in Signed : AcceptCommit(d, m)
      PROVE  AsAgreed(c)'
    BY <1>1, <1>8 DEF TaskStep, StartStream, EndStream, SkipSettle, TakeCommitment,
                      SendSettle, SettleConfirmed, SettleRaises, FinishTask,
                      StartRequest, AcceptCommit, chainVars, vars
<1> QED
    BY <1>6, <1>7, <1>8 DEF SystemNext

(* Only the landing of its open brings an account into being.               *)
LEMMA CreatedByOpenOnly ==
    ASSUME SysInv, SystemNext, NEW c \in Channel, ~Exists(c), ~LandOpen(c)
    PROVE  ~Exists(c)'
<1> USE DEF SysInv
<1>0. /\ channel \in [Channel -> ChannelType \cup {NoAccount}]
    BY DEF IInv, TypeOK
<1>1. ASSUME NEW d \in Channel, LandOpen(d) PROVE ~Exists(c)'
    BY <1>0, <1>1 DEF LandOpen, OpenChannel, Exists
<1>2. ASSUME NEW d \in Channel, LandClose(d) \/ OthersClose(d) PROVE ~Exists(c)'
    BY <1>0, <1>2 DEF LandClose, OthersClose, Close, Exists
<1>2a. ASSUME NEW d \in Channel, NEW m \in Signed,
              OthersSettle(d, m) \/ OthersDispute(d, m)
       PROVE  ~Exists(c)'
    BY <1>0, <1>2a DEF OthersSettle, OthersDispute, Settle, Dispute, SettleAllowed,
                       DisputeAllowed, InStatus, Exists
<1>3. ASSUME NEW r \in Request, LandSettle(r) PROVE ~Exists(c)'
    BY <1>0, <1>3 DEF LandSettle, Settle, SettleAllowed, InStatus, Exists
<1>4. CASE TimePasses
    BY <1>4 DEF TimePasses, Tick, Exists
<1>5. ASSUME NEW r \in Request, TaskStep(r) PROVE ~Exists(c)'
    BY <1>5 DEF TaskStep, StartStream, EndStream, SkipSettle, TakeCommitment,
                SendSettle, SettleConfirmed, SettleRaises, FinishTask, chainVars,
                vars, Exists
<1>6. CASE OpenStep \/ SettlerStep \/ Crash \/ Restart
    BY <1>6 DEF OpenStep, SendOpen, AckOpen, OpenRaises, SettlerStep, Poll, SendClose,
                CloseRaises, CloseReturns, Crash, Restart, chainVars, vars, Exists
<1>7. ASSUME \/ \E d \in Channel : DropOpen(d) \/ DropClose(d)
             \/ \E r \in Request : RefuseSettle(r) \/ DropSettle(r)
             \/ \E d \in Channel, r \in Request : StartRequest(r, d)
             \/ \E d \in Channel : \E m \in Signed : AcceptCommit(d, m)
      PROVE  ~Exists(c)'
    BY <1>7 DEF DropOpen, DropClose, RefuseSettle, DropSettle, StartRequest,
                AcceptCommit, chainVars, vars, Exists
<1> QED
    BY <1>1, <1>2, <1>2a, <1>3, <1>4, <1>5, <1>6, <1>7 DEF SystemNext, ClusterStep

(* Nothing the settler holds or has sent becomes too early again.           *)
LEMMA ClosableStep ==
    ASSUME SysInv, SystemNext, [Next]_vars
    PROVE  ReadyMeansClosable'
<1> SUFFICES ASSUME MaxSkew < ClockSlack,
                    NEW c \in (scan \cup close_sent)', Exists(c)'
             PROVE  CloseAllowed(c)'
    BY DEF ReadyMeansClosable
<1> USE DEF SystemTypeOK, SysInv
<1>0. /\ c \in Channel
      /\ channel \in [Channel -> ChannelType \cup {NoAccount}]
      /\ now \in Nat /\ \A t \in ChannelType : t.settled_at \in Nat /\ t.dispute_secs \in Nat
    <2>1. (scan \cup close_sent)' \subseteq Channel
        BY TypeStep, ChainStep, NextIInv DEF IInv
    <2> QED
        BY <2>1 DEF TypeOK, ChannelType
<1>1. ASSUME c \in scan \cup close_sent
      PROVE  CloseAllowed(c)'
    <2>1. CASE Exists(c)
        <3>1. CloseAllowed(c)
            BY <1>1, <2>1 DEF ReadyMeansClosable
        <3> QED
            BY <1>0, <3>1, ClosableStays
            DEF vars, CloseAllowed, InStatus, Exists, DisputeUntil
    <2>2. CASE ~Exists(c)
        <3>1. open_tx[c] = "landed"
            BY <1>1 DEF OpenedOnce
        <3>2. \A d \in Channel : LandOpen(d) => d # c
            BY <3>1 DEF LandOpen
        <3>3. ~Exists(c)'
            BY <1>0, <2>2, <3>2, CreatedByOpenOnly
        <3> QED
            BY <3>3
    <2> QED
        BY <2>1, <2>2
<1>2. CASE Poll
    <2>1. PICK skew \in (-MaxSkew)..MaxSkew :
              scan' = Ready(now + skew) /\ UNCHANGED <<now, channel, close_sent>>
        BY <1>2 DEF Poll, chainVars, vars, txVars
    <2>2. CASE c \in Ready(now + skew)
        <3>1. /\ InStatus(c, "Settling") /\ channel[c] \in ChannelType
              /\ now + skew >= DisputeUntil(c) + ClockSlack
            BY <1>0, <2>2 DEF Ready, InStatus, Exists
        <3>2. now > DisputeUntil(c)
            BY <1>0, <3>1, SettlementAssumption DEF DisputeUntil
        <3> QED
            BY <2>1, <3>1, <3>2 DEF CloseAllowed, InStatus, Exists, DisputeUntil
    <2> QED
        BY <1>1, <2>1, <2>2
<1>3. ASSUME NEW d \in Channel, SendClose(d) PROVE CloseAllowed(c)'
    BY <1>1, <1>3 DEF SendClose
<1>4. ASSUME ~Poll, \A d \in Channel : ~SendClose(d)
      PROVE  c \in scan \cup close_sent
    BY <1>4 DEF SystemNext, OpenStep, SendOpen, AckOpen, OpenRaises, SettlerStep,
                CloseRaises, CloseReturns, ClusterStep, TimePasses, LandOpen,
                DropOpen, LandClose, DropClose, OthersClose, OthersSettle,
                OthersDispute, LandSettle, RefuseSettle, DropSettle, Crash, Restart,
                StartRequest, AcceptCommit, TaskStep, StartStream, EndStream,
                SkipSettle, TakeCommitment, SendSettle, SettleConfirmed,
                SettleRaises, FinishTask, offChain, settlerVars, txVars
<1> QED
    BY <1>1, <1>2, <1>3, <1>4

-----------------------------------------------------------------------------
LEMMA SystemStepInv == SysInv /\ [SystemNext]_systemVars => SysInv'
<1> SUFFICES ASSUME SysInv, [SystemNext]_systemVars PROVE SysInv'
    OBVIOUS
<1>1. [Next]_vars
    BY ChainStep
<1>2. IInv'
    BY <1>1, NextIInv DEF SysInv
<1>3. CASE SystemNext
    <2>1. SystemTypeOK'
        BY <1>2, <1>3, TypeStep DEF IInv
    <2> QED
        BY <1>1, <1>2, <1>3, <2>1, MemoryStep, PresentedStep, OpenedStep, AgreedStep,
           ClosableStep DEF SysInv
<1>4. CASE UNCHANGED systemVars
    <2>1. /\ SystemTypeOK' /\ ReadyMeansClosable'
        BY <1>2, <1>4
        DEF SysInv, IInv, SystemTypeOK, ReadyMeansClosable, systemVars, chainVars,
            vars, storeVars, requestVars, settlerVars, txVars, CloseAllowed,
            InStatus, Exists, DisputeUntil
    <2>2. MemoryFaithful' /\ PresentedCommitted'
        BY <1>4
        DEF SysInv, MemoryFaithful, PresentedCommitted, Committed, systemVars,
            storeVars, requestVars, txVars, Sound, Payable
    <2>3. OpenedOnce' /\ AllAsAgreed'
        BY <1>4
        DEF SysInv, OpenedOnce, AllAsAgreed, AsAgreed, systemVars, chainVars, vars,
            storeVars, settlerVars, txVars, Exists
    <2> QED
        BY <1>2, <2>1, <2>2, <2>3 DEF SysInv
<1> QED
    BY <1>3, <1>4

(* The inductive invariant of producer and program together.                *)
THEOREM SystemInvariance == SystemSpec => []SysInv
<1> QED
    BY SystemInitInv, SystemStepInv, PTL DEF SystemSpec

(* The producer and the cluster only ever do what the program does: every   *)
(* behaviour of Settlement is, on the chain's variables, one of TapChannel, *)
(* whose theorems (money backed, split final, escrow implemented) carry     *)
(* over.                                                                    *)
THEOREM RunsTheProgram == SystemSpec => Spec
<1>1. SystemInit => Init
    BY DEF SystemInit
<1> QED
    BY <1>1, SystemInvariance, ChainStep, PTL DEF SystemSpec, Spec

(* Whoever settles or disputes, what the producer accepted passes every     *)
(* test of the program but those on what has been recorded before: the two  *)
(* sets of tests, and the terms each is made with, agree.                   *)
THEOREM AcceptedIsAcceptable == SystemSpec => []AcceptedMeetsProgram
<1>1. SysInv => AcceptedMeetsProgram
    <2> SUFFICES ASSUME SysInv, NEW c \in Channel, accepted[c] # NoCommit,
                        SettleAllowed(c) \/ DisputeAllowed(c),
                        Supersedes(c, accepted[c])
                 PROVE  CommitmentAcceptable(c, accepted[c])
        BY DEF AcceptedMeetsProgram
    <2>1. Sound(c, accepted[c]) /\ AsAgreed(c) /\ Exists(c)
        BY DEF SysInv, MemoryFaithful, AllAsAgreed, SettleAllowed, DisputeAllowed,
               InStatus
    <2> QED
        BY <2>1 DEF Sound, Payable, AsAgreed, CommitmentAcceptable, WithinTerms,
                    SignatureVerifies
<1> QED
    BY <1>1, SystemInvariance, PTL

(* A clock off by less than the slack never makes the settler close early.  *)
THEOREM NeverTooEarly == SystemSpec => []ReadyMeansClosable
<1>1. SysInv => ReadyMeansClosable
    BY DEF SysInv
<1> QED
    BY <1>1, SystemInvariance, PTL

(* The escrow's promise holds of the whole: producer, cluster and program.  *)
THEOREM SystemImplementsEscrow == SystemSpec => ImplementsEscrow
<1> QED
    BY RunsTheProgram, Refinement, PTL

(* Nor do lost answers, retries and restarts create or lose any USDC.       *)
THEOREM SystemConservesMoney == SystemSpec => []MoneyConserved
<1> QED
    BY RunsTheProgram, NothingCreatedOrLost, PTL

-----------------------------------------------------------------------------
(* Settlements that hold, and commitments nobody presents. *)

(* Every variable of producer, settler and cluster keeps its shape; a task  *)
(* that is submitting has something to submit.                              *)
THEOREM SystemTyped == SystemSpec => []SystemTypeOK
<1>1. SysInv => SystemTypeOK
    BY DEF SysInv
<1> QED
    BY <1>1, SystemInvariance, PTL

(* Once its open has landed, an account that may be settled has been so all *)
(* along, and nothing about it has changed.                                 *)
LEMMA NoRevival ==
    ASSUME SysInv, SystemNext, NEW c \in Channel, open_tx[c] = "landed",
           SettleAllowed(c)'
    PROVE  SettleAllowed(c) /\ channel'[c] = channel[c]
<1>0. /\ channel \in [Channel -> ChannelType \cup {NoAccount}] /\ now \in Nat
      /\ NoAccount \notin ChannelType
    BY ConstantsAssumption DEF SysInv, IInv, TypeOK
<1>1. ASSUME channel'[c] = channel[c], now' \in Nat, now <= now'
      PROVE  SettleAllowed(c) /\ channel'[c] = channel[c]
    <2>1. /\ channel[c] \in ChannelType /\ channel[c].status = "Active"
          /\ now' <= channel[c].expires_at
        BY <1>0, <1>1 DEF SettleAllowed, InStatus, Exists
    <2> QED
        BY <1>0, <1>1, <2>1 DEF SettleAllowed, InStatus, Exists, ChannelType
<1>2. ASSUME NEW d \in Channel, LandOpen(d)
      PROVE  SettleAllowed(c) /\ channel'[c] = channel[c]
    BY <1>0, <1>1, <1>2 DEF LandOpen, OpenChannel
<1>3. ASSUME NEW d \in Channel, LandClose(d) \/ OthersClose(d)
      PROVE  SettleAllowed(c) /\ channel'[c] = channel[c]
    BY <1>0, <1>1, <1>3
    DEF LandClose, OthersClose, Close, SettleAllowed, InStatus, Exists
<1>4. ASSUME NEW s \in Channel, NEW m \in Commitment, Settle(s, m)
      PROVE  SettleAllowed(c) /\ channel'[c] = channel[c]
    <2>1. TypeOK
        BY DEF SysInv, IInv
    <2>2. /\ channel'[s].status = "Settling"
          /\ \A d \in Channel \ {s} : channel'[d] = channel[d]
        BY <1>4, <2>1, SettleEffect DEF ChannelType
    <2>3. c # s
        BY <2>2 DEF SettleAllowed, InStatus
    <2> QED
        BY <1>0, <1>1, <1>4, <2>2, <2>3 DEF Settle
<1>4a. ASSUME NEW s \in Channel, NEW m \in Commitment, Dispute(s, m)
       PROVE  SettleAllowed(c) /\ channel'[c] = channel[c]
    <2>1. TypeOK
        BY DEF SysInv, IInv
    <2>2. /\ channel'[s].status = "Settling"
          /\ \A d \in Channel \ {s} : channel'[d] = channel[d]
        <3>1. channel[s].status = "Settling"
            BY <1>4a DEF Dispute, DisputeAllowed, InStatus
        <3>2. /\ channel'[s] = [channel[s] EXCEPT !.last_sequence = m.sequence,
                                   !.last_cumulative_paid = m.cumulative_paid]
              /\ channel[s] \in ChannelType
              /\ \A d \in Channel \ {s} : channel'[d] = channel[d]
            BY <1>4a, <2>1, DisputeEffect
        <3> QED
            BY <3>1, <3>2 DEF ChannelType
    <2>3. c # s
        BY <2>2 DEF SettleAllowed, InStatus
    <2> QED
        BY <1>0, <1>1, <1>4a, <2>2, <2>3 DEF Dispute
<1>4b. ASSUME \/ \E r \in Request : LandSettle(r)
              \/ \E s \in Channel : \E m \in Signed :
                    OthersSettle(s, m) \/ OthersDispute(s, m)
       PROVE  SettleAllowed(c) /\ channel'[c] = channel[c]
    <2>1. ASSUME NEW r \in Request, LandSettle(r)
          PROVE  \E s \in Channel, m \in Commitment : Settle(s, m)
        BY <2>1, SettlementAssumption DEF LandSettle, SysInv, PresentedCommitted,
                                          Committed
    <2>2. ASSUME NEW s \in Channel, NEW m \in Signed,
                 OthersSettle(s, m) \/ OthersDispute(s, m)
          PROVE  \E d \in Channel, n \in Commitment : Settle(d, n) \/ Dispute(d, n)
        BY <2>2, SettlementAssumption DEF OthersSettle, OthersDispute
    <2> QED
        BY <1>4, <1>4a, <1>4b, <2>1, <2>2
<1>5. CASE TimePasses
    BY <1>0, <1>1, <1>5 DEF TimePasses, Tick
<1>6. ASSUME NEW r \in Request, TaskStep(r)
      PROVE  SettleAllowed(c) /\ channel'[c] = channel[c]
    BY <1>0, <1>1, <1>6
    DEF TaskStep, StartStream, EndStream, SkipSettle, TakeCommitment, SendSettle,
        SettleConfirmed, SettleRaises, FinishTask, chainVars, vars
<1>7. CASE OpenStep \/ SettlerStep \/ Crash \/ Restart
    BY <1>0, <1>1, <1>7
    DEF OpenStep, SendOpen, AckOpen, OpenRaises, SettlerStep, Poll, SendClose,
        CloseRaises, CloseReturns, Crash, Restart, chainVars, vars
<1>8. ASSUME \/ \E d \in Channel : DropOpen(d) \/ DropClose(d)
             \/ \E r \in Request : RefuseSettle(r) \/ DropSettle(r)
             \/ \E d \in Channel, r \in Request : StartRequest(r, d)
             \/ \E d \in Channel : \E m \in Signed : AcceptCommit(d, m)
      PROVE  SettleAllowed(c) /\ channel'[c] = channel[c]
    BY <1>0, <1>1, <1>8
    DEF DropOpen, DropClose, RefuseSettle, DropSettle, StartRequest, AcceptCommit,
        chainVars, vars
<1> QED
    BY <1>2, <1>3, <1>4b, <1>5, <1>6, <1>7, <1>8 DEF SystemNext, ClusterStep

(* An open that landed stays so.                                            *)
LEMMA LandedStays ==
    ASSUME SysInv, SystemNext, NEW c \in Channel, open_tx[c] = "landed"
    PROVE  open_tx'[c] = "landed"
<1> USE DEF SysInv, SystemTypeOK, OpenedOnce
<1>1. ASSUME NEW d \in Channel, SendOpen(d) PROVE open_tx'[c] = "landed"
    BY <1>1 DEF SendOpen
<1>2. ASSUME NEW d \in Channel, LandOpen(d) \/ DropOpen(d)
      PROVE  open_tx'[c] = "landed"
    BY <1>2 DEF LandOpen, DropOpen
<1>3. ASSUME \A d \in Channel : ~SendOpen(d) /\ ~LandOpen(d) /\ ~DropOpen(d)
      PROVE  open_tx' = open_tx
    BY <1>3
    DEF SystemNext, OpenStep, AckOpen, OpenRaises, SettlerStep, Poll, SendClose,
        CloseRaises, CloseReturns, ClusterStep, TimePasses, LandClose, DropClose,
        OthersClose, OthersSettle, OthersDispute, LandSettle, RefuseSettle,
        DropSettle, Crash, Restart, StartRequest, AcceptCommit, TaskStep,
        StartStream, EndStream, SkipSettle, TakeCommitment, SendSettle,
        SettleConfirmed, SettleRaises, FinishTask, txVars
<1> QED
    BY <1>1, <1>2, <1>3

(* A served channel was acknowledged, and whoever finished a task on it has *)
(* taken it from the registry, where nothing puts it back.                  *)
LEMMA ServedStep ==
    ASSUME SysInv, ServedKnown, SystemNext
    PROVE  ServedKnown'
<1> USE DEF SysInv, SystemTypeOK, ServedKnown
<1>1. ASSUME NEW c \in Channel, SendOpen(c) \/ AckOpen(c) \/ OpenRaises(c)
      PROVE  ServedKnown'
    BY <1>1 DEF SendOpen, AckOpen, OpenRaises, storeVars, requestVars
<1>2. ASSUME NEW c \in Channel, NEW r \in Request, StartRequest(r, c)
      PROVE  ServedKnown'
    <2>1. handshake[c] = "acked" /\ last_commitment[c] = accepted[c]
        BY <1>2 DEF StartRequest, MemoryFaithful
    <2> QED
        BY <1>2, <2>1 DEF StartRequest, storeVars
<1>3. ASSUME NEW c \in Channel, NEW m \in Signed, AcceptCommit(c, m)
      PROVE  ServedKnown'
    BY <1>3 DEF AcceptCommit, requestVars
<1>4. ASSUME NEW r \in Request, TaskStep(r)
      PROVE  ServedKnown'
    BY <1>4 DEF TaskStep, StartStream, EndStream, SkipSettle, TakeCommitment,
                SendSettle, SettleConfirmed, SettleRaises, FinishTask, storeVars,
                Running
<1>5. CASE Crash
    <2>1. registry' = {} /\ serves' = serves
        BY <1>5 DEF Crash
    <2>2. ASSUME NEW r \in Request, serves[r] \in Channel
          PROVE  /\ handshake'[serves[r]] = "acked"
                 /\ phase'[r] # "idle" /\ phase'[r] \notin Running
        BY <1>5, <2>2 DEF Crash, Running
    <2> QED
        BY <2>1, <2>2
<1>6. CASE SettlerStep \/ Restart \/ ClusterStep
    BY <1>6 DEF SettlerStep, Poll, SendClose, CloseRaises, CloseReturns, Restart,
                ClusterStep, TimePasses, LandOpen, DropOpen, LandClose, DropClose,
                OthersClose, OthersSettle, OthersDispute, LandSettle, RefuseSettle,
                DropSettle, offChain, storeVars, requestVars
<1> QED
    BY <1>1, <1>2, <1>3, <1>4, <1>5, <1>6 DEF SystemNext, OpenStep

(* A request whose settle was sent keeps its channel and its commitment.    *)
LEMMA SentIsKept ==
    ASSUME SysInv, SettleTracked, SystemNext, NEW r \in Request,
           settle_tx[r] # "none"
    PROVE  /\ serves'[r] = serves[r] /\ presented'[r] = presented[r]
           /\ phase'[r] \notin {"idle", "preparing", "running", "spawned", "submitting"}
<1> USE DEF SysInv, SystemTypeOK, SettleTracked, Tracked
<1>1. ASSUME NEW c \in Channel, NEW q \in Request, StartRequest(q, c)
      PROVE  UNCHANGED <<serves[r], presented[r], phase[r]>>
    BY <1>1 DEF StartRequest
<1>2. ASSUME NEW q \in Request, TaskStep(q)
      PROVE  /\ UNCHANGED <<serves[r], presented[r]>>
             /\ phase'[r] \in {phase[r], "settled", "failed", "skipped"}
    BY <1>2 DEF TaskStep, StartStream, EndStream, SkipSettle, TakeCommitment,
                SendSettle, SettleConfirmed, SettleRaises, FinishTask
<1>3. CASE Crash
    <2>1. phase'[r] \in {phase[r], "lost"}
        BY <1>3 DEF Crash
    <2> QED
        BY <1>3, <2>1 DEF Crash
<1>4. CASE \/ OpenStep \/ SettlerStep \/ Restart \/ ClusterStep
           \/ \E c \in Channel : \E m \in Signed : AcceptCommit(c, m)
    BY <1>4 DEF OpenStep, SendOpen, AckOpen, OpenRaises, AcceptCommit, SettlerStep,
                Poll, SendClose, CloseRaises, CloseReturns, Restart, ClusterStep,
                TimePasses, LandOpen, DropOpen, LandClose, DropClose, OthersClose,
                OthersSettle, OthersDispute, LandSettle, RefuseSettle, DropSettle,
                offChain, requestVars
<1> QED
    BY <1>1, <1>2, <1>3, <1>4 DEF SystemNext

(* What was sent is acceptable for as long as the account may be settled;   *)
(* once it is processed the account may not be settled any more.            *)
LEMMA TrackedStep ==
    ASSUME SysInv, SettleTracked, SystemNext
    PROVE  SettleTracked'
<1>0. /\ \A r \in Request : Tracked(r)
      /\ settle_tx \in [Request -> {"none", "sent", "landed", "refused", "dropped"}]
      /\ serves \in [Request -> Channel \cup {NoChannel}]
      /\ phase \in [Request -> Running \cup {"idle", "skipped", "settled", "failed",
                                               "lost"}]
    BY DEF SettleTracked, SysInv, SystemTypeOK
<1> SUFFICES ASSUME NEW r \in Request PROVE Tracked(r)'
    BY DEF SettleTracked
<1>1. ASSUME settle_tx[r] # "none", settle_tx'[r] \in {settle_tx[r], "dropped"}
      PROVE  Tracked(r)'
    <2>1. /\ serves'[r] = serves[r] /\ presented'[r] = presented[r]
          /\ phase'[r] \notin {"idle", "preparing", "running", "spawned", "submitting"}
        BY <1>1, SentIsKept
    <2>2. serves[r] \in Channel /\ open_tx'[serves[r]] = "landed"
        BY <1>0, <1>1, LandedStays DEF Tracked
    <2>3. ASSUME SettleAllowed(serves[r])'
          PROVE  SettleAllowed(serves[r]) /\ channel'[serves[r]] = channel[serves[r]]
        <3>1. PICK s \in Channel : s = serves[r] /\ s = serves'[r]
            BY <2>1, <2>2
        <3>2. SettleAllowed(s)' /\ open_tx[s] = "landed"
            BY <1>0, <1>1, <2>3, <3>1 DEF Tracked, SettleAllowed, InStatus, Exists
        <3> QED
            BY <3>1, <3>2, NoRevival
    <2> QED
        BY <1>0, <1>1, <2>1, <2>2, <2>3
        DEF Tracked, CommitmentAcceptable, Supersedes, WithinTerms, SignatureVerifies,
            SettleAllowed, InStatus, Exists
<1>2. CASE SendSettle(r)
    <2>1. /\ settle_tx'[r] = "sent" /\ phase'[r] = "confirming"
          /\ UNCHANGED <<serves, presented, channel, now, open_tx>>
        BY <1>0, <1>2 DEF SendSettle, chainVars, vars
    <2>2. serves[r] \in Channel /\ CanSettle(r)
        BY <1>2 DEF SendSettle, SysInv, SystemTypeOK
    <2>3. open_tx[serves[r]] = "landed"
        BY <2>2 DEF CanSettle, SettleAllowed, InStatus, SysInv, OpenedOnce
    <2> QED
        BY <2>1, <2>2, <2>3
        DEF Tracked, CanSettle, CommitmentAcceptable, Supersedes, WithinTerms,
            SignatureVerifies
<1>3. CASE LandSettle(r)
    <2> DEFINE s == serves[r]
               m == presented[r]
    <2>1. TypeOK /\ s \in Channel /\ m \in Commitment /\ Settle(s, m)
        BY <1>3, SettlementAssumption
        DEF LandSettle, SysInv, IInv, PresentedCommitted, Committed
    <2>2. /\ settle_tx'[r] = "landed"
          /\ UNCHANGED <<serves, phase, open_tx>>
        BY <1>0, <1>3 DEF LandSettle, offChain, requestVars
    <2>3. ~SettleAllowed(serves[r])'
        <3>1. channel'[s].status = "Settling"
            <4> HIDE DEF s, m
            <4> QED  BY <2>1, SettleEffect DEF ChannelType
        <3> QED
            BY <2>2, <3>1 DEF SettleAllowed, InStatus
    <2> QED
        BY <1>0, <1>3, <2>2, <2>3 DEF Tracked, LandSettle
<1>4. CASE RefuseSettle(r)
    <2>1. /\ settle_tx'[r] = "refused" /\ ~SettleAllowed(serves[r])
          /\ UNCHANGED <<serves, phase, open_tx, channel, now>>
        BY <1>0, <1>4
        DEF Tracked, RefuseSettle, CanSettle, offChain, requestVars, chainVars, vars
    <2> QED
        BY <1>0, <1>4, <2>1 DEF Tracked, RefuseSettle, SettleAllowed, InStatus, Exists
<1>5. CASE DropSettle(r)
    <2>1. settle_tx'[r] = "dropped" /\ settle_tx[r] # "none"
        BY <1>0, <1>5 DEF DropSettle
    <2> QED
        BY <1>1, <2>1
<1>6. ASSUME ~SendSettle(r), ~LandSettle(r), ~RefuseSettle(r), ~DropSettle(r)
      PROVE  settle_tx'[r] = settle_tx[r]
    <2>1. ASSUME NEW q \in Request,
                 SendSettle(q) \/ LandSettle(q) \/ RefuseSettle(q) \/ DropSettle(q)
          PROVE  settle_tx'[r] = settle_tx[r]
        BY <1>0, <1>6, <2>1 DEF SendSettle, LandSettle, RefuseSettle, DropSettle
    <2>2. ASSUME \A q \in Request : /\ ~SendSettle(q) /\ ~LandSettle(q)
                                    /\ ~RefuseSettle(q) /\ ~DropSettle(q)
          PROVE  settle_tx' = settle_tx
        BY <2>2
        DEF SystemNext, OpenStep, SendOpen, AckOpen, OpenRaises, SettlerStep, Poll,
            SendClose, CloseRaises, CloseReturns, ClusterStep, TimePasses, LandOpen,
            DropOpen, LandClose, DropClose, OthersClose, OthersSettle, OthersDispute,
            Crash, Restart, StartRequest, AcceptCommit, TaskStep, StartStream,
            EndStream, SkipSettle, TakeCommitment, SettleConfirmed, SettleRaises,
            FinishTask, txVars
    <2> QED
        BY <2>1, <2>2
<1>7. ASSUME settle_tx[r] = "none", settle_tx'[r] = "none" PROVE Tracked(r)'
    BY <1>7 DEF Tracked
<1> QED
    BY <1>1, <1>2, <1>3, <1>4, <1>5, <1>6, <1>7

(* Only its landing makes a settle landed.                                  *)
LEMMA LandedOrStill ==
    ASSUME SysInv, SystemNext, NEW r \in Request, settle_tx'[r] = "landed"
    PROVE  settle_tx[r] = "landed" \/ LandSettle(r)
<1> USE DEF SysInv, SystemTypeOK
<1>1. ASSUME NEW q \in Request,
             SendSettle(q) \/ LandSettle(q) \/ RefuseSettle(q) \/ DropSettle(q)
      PROVE  settle_tx[r] = "landed" \/ LandSettle(r)
    BY <1>1 DEF SendSettle, LandSettle, RefuseSettle, DropSettle
<1>2. ASSUME \A q \in Request : /\ ~SendSettle(q) /\ ~LandSettle(q)
                                /\ ~RefuseSettle(q) /\ ~DropSettle(q)
      PROVE  settle_tx' = settle_tx
    BY <1>2
    DEF SystemNext, OpenStep, SendOpen, AckOpen, OpenRaises, SettlerStep, Poll,
        SendClose, CloseRaises, CloseReturns, ClusterStep, TimePasses, LandOpen,
        DropOpen, LandClose, DropClose, OthersClose, OthersSettle, OthersDispute,
        Crash, Restart, StartRequest, AcceptCommit, TaskStep, StartStream, EndStream,
        SkipSettle, TakeCommitment, SettleConfirmed, SettleRaises, FinishTask, txVars
<1> QED
    BY <1>1, <1>2

(* What the producer got onto the chain stays there or is improved upon:    *)
(* the instructions only move an account's settlement forward.              *)
HoldsFor(r) ==
    settle_tx[r] = "landed" /\ Exists(serves[r]) =>
        /\ InStatus(serves[r], "Settling")
        /\ presented[r].sequence <= channel[serves[r]].last_sequence
        /\ presented[r].cumulative_paid <= PaidAtClose(serves[r])

LEMMA HoldsStep ==
    ASSUME SysInv, SettleTracked, SettlementHolds, SystemNext
    PROVE  SettlementHolds'
<1> SUFFICES ASSUME NEW r \in Request, settle_tx'[r] = "landed", Exists(serves[r])'
             PROVE  HoldsFor(r)'
    BY DEF SettlementHolds, HoldsFor, InStatus, Exists, PaidAtClose
<1>0. /\ TypeOK /\ IInv /\ IInv' /\ TypeOK' /\ [Next]_vars
      /\ channel \in [Channel -> ChannelType \cup {NoAccount}]
    BY ChainStep, NextIInv DEF SysInv, IInv, TypeOK
<1>1. PICK c \in Channel : c = serves[r]
    <2>1. settle_tx[r] # "none"
        BY LandedOrStill DEF LandSettle
    <2> QED
        BY <2>1 DEF SysInv, PresentedCommitted
<1>2. PICK m \in Commitment : m = presented[r]
    <2>1. settle_tx[r] # "none"
        BY LandedOrStill DEF LandSettle
    <2> QED
        BY <2>1, SettlementAssumption DEF SysInv, PresentedCommitted, Committed
<1>3. m.sequence \in Nat /\ m.cumulative_paid \in Nat
    BY ConstantsAssumption DEF Commitment, U64
<1>4. CASE LandSettle(r)
    <2>1. Settle(c, m) /\ serves'[r] = c /\ presented'[r] = m
        BY <1>1, <1>2, <1>4 DEF LandSettle, offChain, requestVars
    <2>2. /\ channel'[c] = [channel[c] EXCEPT !.last_sequence = m.sequence,
                               !.last_cumulative_paid = m.cumulative_paid,
                               !.settled_at = now, !.status = "Settling"]
          /\ channel[c] \in ChannelType /\ channel'[c] \in ChannelType
        BY ONLY <1>0, <2>1, SettleEffect
    <2>3. /\ channel'[c].status = "Settling" /\ channel'[c].last_sequence = m.sequence
          /\ channel'[c].last_cumulative_paid = m.cumulative_paid
          /\ channel'[c].prepaid_input_micro \in Nat
        BY <2>2, ConstantsAssumption DEF ChannelType, U64
    <2>4. InStatus(c, "Settling")' /\ m.cumulative_paid <= PaidAtClose(c)'
        BY <1>3, <2>1, <2>3 DEF InStatus, Exists, PaidAtClose
    <2> QED
        BY <1>3, <2>1, <2>3, <2>4 DEF HoldsFor, InStatus, Exists, PaidAtClose
<1>5. CASE settle_tx[r] = "landed"
    <2>1. serves'[r] = c /\ presented'[r] = m
        BY <1>1, <1>2, <1>5, SentIsKept
    <2>2. Exists(c)
        <3>1. open_tx[c] = "landed"
            BY <1>1, <1>5 DEF SettleTracked, Tracked
        <3>2. ~LandOpen(c)
            BY <3>1 DEF LandOpen
        <3> QED
            BY <2>1, <3>2, CreatedByOpenOnly DEF Exists
    <2>3. /\ InStatus(c, "Settling") /\ m.sequence <= channel[c].last_sequence
          /\ m.cumulative_paid <= PaidAtClose(c)
        BY <1>1, <1>2, <1>5, <2>2 DEF SettlementHolds
    <2>4. /\ PaidAtClose(c) \in Nat /\ PaidAtClose(c)' \in Nat
          /\ channel[c].last_sequence \in Nat /\ channel'[c].last_sequence \in Nat
        <3>1. Exists(c)'
            BY <2>1 DEF Exists
        <3>2. PaidAtClose(c) \in U64 /\ channel[c] \in ChannelType
            BY <1>0, <2>2, PayoutSplits
        <3>3. channel'[c] \in ChannelType
            BY <1>0, <3>1 DEF TypeOK, Exists
        <3>4. channel'[c].last_sequence \in Nat /\ channel[c].last_sequence \in Nat
            BY <3>2, <3>3, ConstantsAssumption DEF ChannelType, U64
        <3>5. PaidAtClose(c)' \in Nat
            BY <3>3, ConstantsAssumption DEF ChannelType, PaidAtClose, U64
        <3> QED
            BY <3>2, <3>4, <3>5, ConstantsAssumption DEF U64
    <2>5. CASE UNCHANGED vars
        BY <2>1, <2>3, <2>5 DEF vars, HoldsFor, InStatus, Exists, PaidAtClose
    <2>6. CASE Next
        <3>1. Exists(c)'
            BY <2>1 DEF Exists
        <3>2. ForwardStep(c) /\ channel'[c].last_sequence >= channel[c].last_sequence
            BY <1>0, <2>2, <2>6, <3>1, StepsForward, SequencesForward
        <3>3. /\ channel'[c].status = "Settling"
              /\ PaidAtClose(c)' >= PaidAtClose(c)
            BY <2>2, <2>3, <3>1, <3>2 DEF ForwardStep, InStatus
        <3>4. /\ m.cumulative_paid <= PaidAtClose(c)'
              /\ m.sequence <= channel'[c].last_sequence
            BY <1>3, <2>3, <2>4, <3>2, <3>3
        <3> QED
            BY <2>1, <3>1, <3>3, <3>4 DEF HoldsFor, InStatus, Exists, PaidAtClose
    <2> QED
        BY <1>0, <2>5, <2>6
<1> QED
    BY <1>4, <1>5, LandedOrStill

(* A newer commitment is another commitment than any presented so far.      *)
LEMMA NewerIsOther ==
    ASSUME SysInv, NEW c \in Channel, NEW m \in Signed, AcceptCommit(c, m),
           NEW r \in Request, serves[r] = c, presented[r] # NoCommit
    PROVE  presented[r] # m /\ accepted'[c] = m
<1>1. /\ accepted[c] # NoCommit /\ presented[r].sequence <= accepted[c].sequence
      /\ presented[r] \in Commitment /\ accepted[c] \in Commitment
    BY SettlementAssumption
    DEF SysInv, PresentedCommitted, Committed, MemoryFaithful, Sound
<1>2. last_commitment[c] = accepted[c]
    BY DEF AcceptCommit, SysInv, MemoryFaithful
<1>3. m.sequence > accepted[c].sequence
    BY <1>1, <1>2 DEF AcceptCommit, Verifies, Newer
<1>4. /\ presented[r].sequence \in Nat /\ accepted[c].sequence \in Nat
      /\ m.sequence \in Nat
    BY <1>1, SettlementAssumption, ConstantsAssumption DEF Commitment, U64
<1>5. presented[r] # m
    BY <1>1, <1>3, <1>4
<1> QED
    BY <1>5 DEF AcceptCommit, SysInv, SystemTypeOK

(* A request that attends to a channel goes on doing so, unless its task    *)
(* ends, with its settle processed, or it becomes a cause itself.           *)
LEMMA AttendanceKept ==
    ASSUME SysInv, ServedKnown, SettleTracked, SystemNext,
           NEW c \in Channel, accepted[c] # NoCommit,
           NEW r \in Request, Attends(r, c)
    PROVE  Attends(r, c)' \/ SettleOver(c)' \/ Causes(r, c)'
<1> USE DEF SysInv, SystemTypeOK
<1>0. /\ serves[r] = c /\ phase[r] \in Running
      /\ last_commitment[c] = accepted[c]
      /\ phase[r] \in {"submitting", "confirming"} => presented[r] = accepted[c]
    BY DEF Attends, Running, ServedKnown
<1>1. CASE SkipSettle(r)
    BY <1>0, <1>1 DEF SkipSettle
<1>2. CASE SettleConfirmed(r)
    <2>1. settle_tx[r] \in {"landed", "refused"}
        BY <1>2 DEF SettleConfirmed
    <2>2. open_tx[c] = "landed" /\ ~SettleAllowed(c)
        BY <1>0, <2>1 DEF SettleTracked, Tracked
    <2>3. ~SettleAllowed(c)'
        BY <2>2, NoRevival
    <2>4. open_tx'[c] = "landed"
        BY <2>2, LandedStays
    <2> QED
        BY <2>3, <2>4 DEF SettleOver
<1>3. CASE SettleRaises(r)
    BY <1>0, <1>3 DEF SettleRaises, FinishTask, Causes
<1>4. CASE Crash
    BY <1>0, <1>4 DEF Crash, Causes
<1>5. CASE \/ StartStream(r) \/ EndStream(r) \/ TakeCommitment(r) \/ SendSettle(r)
    BY <1>0, <1>5 DEF StartStream, EndStream, TakeCommitment, SendSettle, Attends,
                      storeVars, requestVars
<1>6. ASSUME NEW q \in Request, q # r, TaskStep(q)
      PROVE  UNCHANGED <<serves[r], phase[r], presented[r], accepted[c]>>
    BY <1>6 DEF TaskStep, StartStream, EndStream, SkipSettle, TakeCommitment,
                SendSettle, SettleConfirmed, SettleRaises, FinishTask, storeVars
<1>7. ASSUME NEW q \in Request, NEW d \in Channel, StartRequest(q, d)
      PROVE  UNCHANGED <<serves[r], phase[r], presented[r], accepted[c]>>
    BY <1>0, <1>7 DEF StartRequest, Running, storeVars
<1>8. CASE OpenStep \/ SettlerStep \/ Restart \/ ClusterStep
    BY <1>8 DEF OpenStep, SendOpen, AckOpen, OpenRaises, SettlerStep,
                Poll, SendClose, CloseRaises, CloseReturns, Restart, ClusterStep,
                TimePasses, LandOpen, DropOpen, LandClose, DropClose, OthersClose,
                OthersSettle, OthersDispute, LandSettle, RefuseSettle, DropSettle,
                offChain, storeVars, requestVars, Attends
<1>9. ASSUME NEW d \in Channel, NEW m \in Signed, AcceptCommit(d, m)
      PROVE  Attends(r, c)' \/ Causes(r, c)'
    <2>1. UNCHANGED <<serves, phase, presented>>
        BY <1>9 DEF AcceptCommit, requestVars
    <2>2. CASE d # c
        BY <1>9, <2>1, <2>2 DEF AcceptCommit, Attends
    <2>3. CASE d = c /\ phase[r] \in {"preparing", "running", "spawned"}
        BY <1>0, <2>1, <2>3 DEF Attends
    <2>4. CASE d = c /\ phase[r] \in {"submitting", "confirming"}
        <3>1. presented[r] # NoCommit
            BY <1>0, <2>4
        <3>2. presented[r] # m /\ accepted'[c] = m
            BY <1>0, <1>9, <2>4, <3>1, NewerIsOther
        <3> QED
            BY <1>0, <2>1, <3>1, <3>2 DEF Causes
    <2> QED
        BY <1>0, <2>2, <2>3, <2>4 DEF Attends
<1>10. ASSUME UNCHANGED <<serves[r], phase[r], presented[r], accepted[c]>>
       PROVE  Attends(r, c)'
    BY <1>10 DEF Attends
<1> QED
    BY <1>1, <1>2, <1>3, <1>4, <1>5, <1>6, <1>7, <1>8, <1>9, <1>10
    DEF SystemNext, TaskStep

(* A cause remains one.                                                     *)
LEMMA CauseKept ==
    ASSUME SysInv, SystemNext, NEW c \in Channel, accepted[c] # NoCommit,
           NEW r \in Request, Causes(r, c)
    PROVE  Causes(r, c)'
<1> USE DEF SysInv, SystemTypeOK
<1>0. /\ serves[r] = c
      /\ phase[r] \notin {"idle", "preparing", "running", "spawned"}
      /\ phase[r] \in {"lost", "failed"} \/ presented[r] \notin {NoCommit, accepted[c]}
    BY DEF Causes, PresentedCommitted
<1>1. ASSUME NEW q \in Request, TaskStep(q)
      PROVE  /\ UNCHANGED <<serves[r], presented[r], accepted[c]>>
             /\ phase[r] \in {"lost", "failed"} => phase'[r] = phase[r]
    BY <1>0, <1>1 DEF TaskStep, StartStream, EndStream, SkipSettle, TakeCommitment,
                      SendSettle, SettleConfirmed, SettleRaises, FinishTask, storeVars
<1>2. ASSUME NEW q \in Request, NEW d \in Channel, StartRequest(q, d)
      PROVE  UNCHANGED <<serves[r], phase[r], presented[r], accepted[c]>>
    BY <1>0, <1>2 DEF StartRequest, storeVars
<1>3. CASE Crash
    BY <1>0, <1>3 DEF Crash, Causes, Running
<1>4. CASE OpenStep \/ SettlerStep \/ Restart \/ ClusterStep
    BY <1>4 DEF OpenStep, SendOpen, AckOpen, OpenRaises, SettlerStep,
                Poll, SendClose, CloseRaises, CloseReturns, Restart, ClusterStep,
                TimePasses, LandOpen, DropOpen, LandClose, DropClose, OthersClose,
                OthersSettle, OthersDispute, LandSettle, RefuseSettle, DropSettle,
                offChain, storeVars, requestVars, Causes
<1>5. ASSUME NEW d \in Channel, NEW m \in Signed, AcceptCommit(d, m)
      PROVE  Causes(r, c)'
    <2>1. UNCHANGED <<serves, phase, presented>>
        BY <1>5 DEF AcceptCommit, requestVars
    <2>2. CASE d # c
        BY <1>5, <2>1, <2>2 DEF AcceptCommit, Causes
    <2>3. CASE phase[r] \in {"lost", "failed"}
        BY <1>0, <2>1, <2>3 DEF Causes
    <2>4. CASE d = c /\ presented[r] # NoCommit
        BY <1>0, <1>5, <2>1, <2>4, NewerIsOther DEF Causes
    <2> QED
        BY <1>0, <2>2, <2>3, <2>4
<1>6. ASSUME UNCHANGED <<serves[r], presented[r], accepted[c]>>,
             phase[r] \in {"lost", "failed"} => phase'[r] = phase[r]
      PROVE  Causes(r, c)'
    BY <1>0, <1>6 DEF Causes
<1> QED
    BY <1>1, <1>2, <1>3, <1>4, <1>5, <1>6 DEF SystemNext

(* Every accepted commitment stays attended to, or its account is past      *)
(* settling, or there is a cause.                                           *)
LEMMA AllAttendedStep ==
    ASSUME SysInv, AttendedInv, SystemNext
    PROVE  AllAttended'
<1> SUFFICES ASSUME NEW c \in Channel, accepted'[c] # NoCommit
             PROVE  \/ \E r \in Request : Attends(r, c)' \/ Causes(r, c)'
                    \/ SettleOver(c)'
    BY DEF AllAttended, Attended
<1> USE DEF AttendedInv
<1>1. CASE SettleOver(c)
    BY <1>1, NoRevival, LandedStays DEF SettleOver
<1>2. ASSUME accepted[c] # NoCommit, NEW r \in Request, Attends(r, c)
      PROVE  Attends(r, c)' \/ SettleOver(c)' \/ Causes(r, c)'
    BY <1>2, AttendanceKept
<1>3. ASSUME accepted[c] # NoCommit, NEW r \in Request, Causes(r, c)
      PROVE  Causes(r, c)'
    BY <1>3, CauseKept
<1>4. CASE accepted[c] = NoCommit
    <2>1. PICK d \in Channel, m \in Signed : AcceptCommit(d, m)
        BY <1>4
        DEF SystemNext, OpenStep, SendOpen, AckOpen, OpenRaises, SettlerStep, Poll,
            SendClose, CloseRaises, CloseReturns, ClusterStep, TimePasses, LandOpen,
            DropOpen, LandClose, DropClose, OthersClose, OthersSettle, OthersDispute,
            LandSettle, RefuseSettle, DropSettle, Crash, Restart, StartRequest,
            TaskStep, StartStream, EndStream, SkipSettle, TakeCommitment, SendSettle,
            SettleConfirmed, SettleRaises, FinishTask, offChain, storeVars
    <2>2. d = c
        BY <1>4, <2>1 DEF AcceptCommit, SysInv, SystemTypeOK
    <2>3. PICK r \in Request : serves[r] = c /\ phase[r] \notin {"preparing", "lost"}
        BY <2>1, <2>2 DEF AcceptCommit
    <2>4. phase[r] \in {"running", "spawned"}
        <3>1. c \in registry
            BY <2>1, <2>2 DEF AcceptCommit
        <3>2. phase[r] # "idle" /\ phase[r] \notin {"skipped", "settled", "failed"}
            BY <2>3, <3>1 DEF ServedKnown
        <3>3. phase[r] \notin {"submitting", "confirming"}
            BY <1>4, <2>3 DEF SysInv, SystemTypeOK, PresentedCommitted, Committed
        <3> QED
            BY <2>3, <3>2, <3>3 DEF SysInv, SystemTypeOK, Running
    <2>5. serves'[r] = c /\ phase'[r] = phase[r]
        BY <2>1, <2>3 DEF AcceptCommit, requestVars
    <2> QED
        BY <2>4, <2>5 DEF Attends
<1> QED
    BY <1>1, <1>2, <1>3, <1>4 DEF AllAttended, Attended

LEMMA AttendedInit == SystemInit => AttendedInv
<1> SUFFICES ASSUME SystemInit PROVE AttendedInv
    OBVIOUS
<1>1. NoChannel \notin Channel
    BY SettlementAssumption
<1> QED
    BY <1>1 DEF SystemInit, AttendedInv, ServedKnown, SettleTracked, Tracked,
                SettlementHolds, AllAttended

LEMMA AttendedStep == SysInv /\ AttendedInv /\ [SystemNext]_systemVars => AttendedInv'
<1> SUFFICES ASSUME SysInv, AttendedInv, [SystemNext]_systemVars
             PROVE  AttendedInv'
    OBVIOUS
<1>1. CASE SystemNext
    BY <1>1, ServedStep, TrackedStep, HoldsStep, AllAttendedStep DEF AttendedInv
<1>2. CASE UNCHANGED systemVars
    <2>1. ServedKnown'
        BY <1>2 DEF AttendedInv, ServedKnown, systemVars, storeVars, requestVars
    <2>2. SettleTracked'
        BY <1>2
        DEF AttendedInv, SettleTracked, Tracked, systemVars, chainVars, vars,
            requestVars, txVars, SettleAllowed, InStatus, Exists,
            CommitmentAcceptable, Supersedes, WithinTerms, SignatureVerifies
    <2>3. AllAttended'
        BY <1>2
        DEF AttendedInv, AllAttended, Attended, Causes, SettleOver, Attends,
            systemVars, chainVars, vars, storeVars, requestVars, txVars,
            SettleAllowed, InStatus, Exists
    <2>4. SettlementHolds'
        BY <1>2
        DEF AttendedInv, SettlementHolds, systemVars, chainVars, vars, requestVars,
            txVars, InStatus, Exists, PaidAtClose
    <2> QED
        BY <2>1, <2>2, <2>3, <2>4 DEF AttendedInv
<1> QED
    BY <1>1, <1>2

(* A settlement the producer got onto the chain is never undone, whoever    *)
(* settles or disputes with whatever was signed.                            *)
THEOREM SettlementsHold == SystemSpec => []SettlementHolds
<1>1. AttendedInv => SettlementHolds
    BY DEF AttendedInv
<1> QED
    BY <1>1, AttendedInit, AttendedStep, SystemInvariance, PTL DEF SystemSpec

(* An accepted commitment nobody will present, on an account that could     *)
(* still be settled, has one of three causes: a crash, a failed task, or a  *)
(* task that read an older commitment before this one was accepted.         *)
THEOREM AbandonedOnlyForCause == SystemSpec => []AbandonedForCause
<1>1. AttendedInv => AbandonedForCause
    BY DEF AttendedInv, AllAttended, Attended, SettleOver, Causes, Abandoned,
           AbandonedForCause
<1> QED
    BY <1>1, AttendedInit, AttendedStep, SystemInvariance, PTL DEF SystemSpec
=============================================================================
