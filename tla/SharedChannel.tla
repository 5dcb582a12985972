---------------------------- MODULE SharedChannel ----------------------------
(***************************************************************************)
(* Several streams over one channel at once: every request that names the  *)
(* channel gets a generator of its own over the one ActiveChannel, and     *)
(* every stream() of the consumer's session runs over the one              *)
(* _SessionState, batcher and halt detector.  Nothing on either side makes *)
(* one stream wait for another: their steps interleave at every await,     *)
(* their POSTs overtake one another, and the first response to end settles *)
(* the channel and takes it out of the registry under the others.          *)
(*                                                                         *)
(* Both sides are Python.  What Stream has already settled for one stream  *)
(* is coarser here: the detector is one of the ways a session may raise,   *)
(* and the settle task is its two visible ends.                            *)
(***************************************************************************)
EXTENDS ConsumerSession, FiniteSets

CONSTANT Streams        \* the requests made on the channel

ASSUME StreamsAssumption == IsFiniteSet(Streams) /\ Streams # {}

VARIABLES
    generator,      \* per stream: where its wrap_stream is suspended
    settling,       \* the streams whose settle task is running
    registered,     \* the channel is in the registry
    unread,         \* per stream: token frames written and not yet read
    finished,       \* the streams whose [DONE] has been written
    post,           \* per stream: where its outstanding commit POST is
    posted,         \* per stream: the commitment it posts
    session,        \* per stream: where its session loop is suspended
    sequence        \* _SessionState.sequence

channelVars == <<tokens_delivered, last_commitment, silence, halted>>
stateVars == <<sequence, tokens_received, cumulative_paid, since_commit, k>>
producerVars == <<generator, channelVars, settling, registered>>
wire == <<unread, finished>>
posts == <<post, posted>>
vars == <<producerVars, wire, posts, session, stateVars>>

SharedCount == Cardinality(Streams)

(* Generators past the gate, their token not yet counted. *)
Affording == {s \in Streams : generator[s] = "pacing"}

(* Generators with a token in hand that is not yet counted. *)
Holding == {s \in Streams : generator[s] \in {"gated", "pacing"}}

SessionOver(s) == session[s] \in {"finished", "aborted"}

SharedInit ==
    /\ generator = [s \in Streams |-> "none"]
    /\ tokens_delivered = 0 /\ last_commitment = NoCommit
    /\ silence = 0 /\ halted = FALSE
    /\ settling = {} /\ registered = TRUE
    /\ unread = [s \in Streams |-> 0] /\ finished = {}
    /\ post = [s \in Streams |-> "none"] /\ posted = [s \in Streams |-> NoCommit]
    /\ session = [s \in Streams |-> "idle"]
    /\ sequence = 0 /\ tokens_received = 0 /\ cumulative_paid = Prepaid
    /\ since_commit = 0 /\ k = 1

-----------------------------------------------------------------------------
(* The request. *)

(* The registry is looked up before anything is streamed; a channel that    *)
(* has been settled meanwhile is a 404, which raise_for_status raises.      *)
OpenStream(s) ==
    /\ session[s] = "idle"
    /\ \/ /\ registered
          /\ generator' = [generator EXCEPT ![s] = "unstarted"]
          /\ session' = [session EXCEPT ![s] = "reading"]
       \/ /\ ~registered
          /\ session' = [session EXCEPT ![s] = "aborted"]
          /\ UNCHANGED generator
    /\ UNCHANGED <<channelVars, settling, registered, wire, posts, stateVars>>

-----------------------------------------------------------------------------
(* The producer's generators. *)

(* The generator of s goes from one await to another. *)
Moves(s, from, to) ==
    /\ generator[s] = from
    /\ generator' = [generator EXCEPT ![s] = to]

StartStream(s) ==
    /\ Moves(s, "unstarted", "pulling")
    /\ silence' = 0
    /\ UNCHANGED <<tokens_delivered, last_commitment, halted, settling, registered,
                   wire, posts, session, stateVars>>

(* The generator of s returns, having written [DONE] or an error frame, on  *)
(* which the session raises; its settle task is spawned.                    *)
EndStream(s, done) ==
    /\ generator' = [generator EXCEPT ![s] = "returned"]
    /\ finished' = IF done THEN finished \cup {s} ELSE finished
    /\ settling' = settling \cup {s}
    /\ UNCHANGED <<tokens_delivered, last_commitment, silence, registered, unread,
                   posts, session, stateVars>>

ModelYields(s) ==
    /\ tokens_delivered + Cardinality(Holding) < MaxTokens
    /\ Moves(s, "pulling", "gated")
    /\ UNCHANGED <<channelVars, settling, registered, wire, posts, session, stateVars>>

ModelStops(s) ==
    /\ generator[s] = "pulling"
    /\ \E done \in BOOLEAN : EndStream(s, done)
    /\ UNCHANGED halted

(* Variant: no pause at the cap. *)
PassGateUnpaid(s) ==
    /\ ~ShouldHalt
    /\ Moves(s, "gated", "pacing")
    /\ UNCHANGED <<channelVars, settling, registered, wire, posts, session, stateVars>>

(* The unpaid value tested is of the tokens counted so far, which those     *)
(* that other generators are about to send are not.                         *)
PassGate(s) ==
    /\ ~ShouldPause /\ ~ShouldHalt
    /\ Moves(s, "gated", "pacing")
    /\ UNCHANGED <<channelVars, settling, registered, wire, posts, session, stateVars>>

(* mark_halted marks the channel: every other generator of it will return   *)
(* at its next gate.                                                        *)
HaltStream(s) ==
    /\ generator[s] = "gated"
    /\ ShouldHalt
    /\ halted' = TRUE
    /\ EndStream(s, TRUE)

EmitToken(s) ==
    /\ Moves(s, "pacing", "sent")
    /\ tokens_delivered' = tokens_delivered + 1
    /\ unread' = [unread EXCEPT ![s] = @ + 1]
    /\ UNCHANGED <<last_commitment, silence, halted, settling, registered, finished,
                   posts, session, stateVars>>

(* Any stream's token restarts the silence clock of the channel. *)
ResumeAfterYield(s) ==
    /\ Moves(s, "sent", "pulling")
    /\ silence' = 0
    /\ UNCHANGED <<tokens_delivered, last_commitment, halted, settling, registered,
                   wire, posts, session, stateVars>>

ClientGone(s) ==
    /\ SessionOver(s)
    /\ generator[s] \in {"pulling", "gated", "pacing", "sent"}
    /\ EndStream(s, FALSE)
    /\ UNCHANGED halted

(* Settled, failed or skipped, the channel leaves the registry, whether or  *)
(* not other streams run on it.                                             *)
SettleTaskEnds(s) ==
    /\ s \in settling
    /\ settling' = settling \ {s}
    /\ registered' = FALSE
    /\ UNCHANGED <<generator, channelVars, wire, posts, session, stateVars>>

-----------------------------------------------------------------------------
(* The /commit handler, which the POSTs of the streams reach in any order. *)

AcceptCommit(s) ==
    /\ post[s] = "request"
    /\ registered /\ Acceptable(posted[s])
    /\ last_commitment' = posted[s]
    /\ silence' = 0
    /\ post' = [post EXCEPT ![s] = "answered"]
    /\ UNCHANGED <<generator, tokens_delivered, halted, settling, registered, wire,
                   posted, session, stateVars>>

RefuseCommit(s) ==
    /\ post[s] = "request"
    /\ ~(registered /\ Acceptable(posted[s]))
    /\ post' = [post EXCEPT ![s] = "answered"]
    /\ UNCHANGED <<producerVars, wire, posted, session, stateVars>>

(* The request or its answer is lost and the session that waits for it, if  *)
(* it still does, raises.                                                   *)
LosePost(s) ==
    /\ post[s] \in {"request", "answered"}
    /\ post' = [post EXCEPT ![s] = "none"]
    /\ posted' = [posted EXCEPT ![s] = NoCommit]
    /\ session' = [session EXCEPT ![s] = IF SessionOver(s) THEN @ ELSE "aborted"]
    /\ UNCHANGED <<producerVars, wire, stateVars>>

-----------------------------------------------------------------------------
(* The session loops, over one _SessionState. *)

SessionMoves(s, from, to) ==
    /\ session[s] = from
    /\ session' = [session EXCEPT ![s] = to]

ReadToken(s) ==
    /\ SessionMoves(s, "reading", "yielded")
    /\ unread[s] > 0
    /\ unread' = [unread EXCEPT ![s] = @ - 1]
    /\ tokens_received' = tokens_received + 1
    /\ since_commit' = since_commit + 1
    /\ cumulative_paid' = WithToken(cumulative_paid)
    /\ UNCHANGED <<sequence, k, finished, posts, producerVars>>

(* Variant: the number follows the last one that was accepted. *)
SendCommitAfterAccepted(s) ==
    /\ posted' = [posted EXCEPT ![s] =
                    [sequence |-> IF last_commitment = NoCommit THEN 1
                                  ELSE last_commitment.sequence + 1,
                     cumulative_paid |-> cumulative_paid]]
    /\ post' = [post EXCEPT ![s] = "request"]
    /\ UNCHANGED <<stateVars, wire, producerVars>>

(* _send_commit up to its await. *)
SendCommit(s) ==
    /\ sequence' = sequence + 1
    /\ posted' = [posted EXCEPT ![s] = [sequence |-> sequence',
                                        cumulative_paid |-> cumulative_paid]]
    /\ post' = [post EXCEPT ![s] = "request"]
    /\ UNCHANGED <<tokens_received, cumulative_paid, since_commit, k, wire, producerVars>>

ReadDone(s) ==
    /\ SessionMoves(s, "reading", "closing")
    /\ unread[s] = 0 /\ s \in finished
    /\ SendCommit(s)

EvaluatorHalts(s) ==
    /\ SessionMoves(s, "yielded", "closing")
    /\ SendCommit(s)

BatchCommit(s) ==
    /\ SessionMoves(s, "yielded", "posting")
    /\ ShouldCommit
    /\ SendCommit(s)

KeepReading(s) ==
    /\ SessionMoves(s, "yielded", "reading")
    /\ ~ShouldCommit
    /\ UNCHANGED <<stateVars, wire, posts, producerVars>>

(* The count is set to zero when the answer is there, whatever the other    *)
(* streams have added to it since the commitment was signed.                *)
CommitReturns(s) ==
    /\ post[s] = "answered"
    /\ post' = [post EXCEPT ![s] = "none"]
    /\ posted' = [posted EXCEPT ![s] = NoCommit]
    /\ since_commit' = 0
    /\ SessionMoves(s, "posting", "telling") \/ SessionMoves(s, "closing", "finished")
    /\ UNCHANGED <<sequence, tokens_received, cumulative_paid, k, wire,
                   producerVars>>

(* The application's on_commit has returned; the other streams have been    *)
(* counting again while it ran.                                             *)
BatcherUpdates(s) ==
    /\ SessionMoves(s, "telling", "reading")
    /\ k' = UpdatedK(ConsumerUnpaid(since_commit))
    /\ UNCHANGED <<sequence, tokens_received, cumulative_paid, since_commit, wire, posts,
                   producerVars>>

(* An error frame, a halted detector, a failed POST or read, a cancelled    *)
(* application.                                                             *)
SessionAborts(s) ==
    /\ session[s] \in {"reading", "yielded", "posting", "telling", "closing"}
    /\ session' = [session EXCEPT ![s] = "aborted"]
    /\ UNCHANGED <<stateVars, wire, posts, producerVars>>

Tick ==
    /\ silence < PauseTimeout
    /\ silence' = Later(silence)
    /\ UNCHANGED <<generator, tokens_delivered, last_commitment, halted, settling,
                   registered, wire, posts, session, stateVars>>

-----------------------------------------------------------------------------
GeneratorStep(s) == \/ StartStream(s) \/ PassGate(s) \/ HaltStream(s)
                    \/ EmitToken(s) \/ ResumeAfterYield(s)
ModelStep(s) == ModelYields(s) \/ ModelStops(s)
CommitStep(s) == AcceptCommit(s) \/ RefuseCommit(s) \/ LosePost(s)
SessionStep(s) == \/ ReadToken(s) \/ ReadDone(s) \/ EvaluatorHalts(s)
                  \/ BatchCommit(s) \/ KeepReading(s) \/ CommitReturns(s)
                  \/ BatcherUpdates(s)

SharedNext == \/ Tick
              \/ \E s \in Streams :
                    \/ OpenStream(s) \/ GeneratorStep(s) \/ ModelStep(s)
                    \/ ClientGone(s) \/ SettleTaskEnds(s) \/ CommitStep(s)
                    \/ SessionStep(s) \/ SessionAborts(s)

SharedSpec == SharedInit /\ [][SharedNext]_vars

-----------------------------------------------------------------------------
(* Properties. *)

(* Every variable has its declared shape. *)
SharedTypeOK ==
    /\ generator \in [Streams -> {"none", "unstarted", "pulling", "gated", "pacing",
                                  "sent", "returned"}]
    /\ tokens_delivered \in Nat /\ silence \in 0..PauseTimeout
    /\ last_commitment \in Commitment \cup {NoCommit}
    /\ halted \in BOOLEAN /\ registered \in BOOLEAN /\ settling \subseteq Streams
    /\ unread \in [Streams -> Nat]
    /\ finished \subseteq Streams
    /\ post \in [Streams -> {"none", "request", "answered"}]
    /\ posted \in [Streams -> Commitment \cup {NoCommit}]
    /\ session \in [Streams -> {"idle", "reading", "yielded", "posting", "telling",
                                "closing", "finished", "aborted"}]
    /\ sequence \in Nat /\ tokens_received \in Nat /\ since_commit \in Nat
    /\ cumulative_paid \in Prepaid..Deposit
    /\ k \in 1..KMax

(* Every stream may pass the gate on the same unpaid value: the producer's   *)
(* exposure on one channel is its cap plus one token's price per stream, not *)
(* one in all.                                                               *)
SharedExposureBounded == UnpaidValue < MaxUnpaid + SharedCount * Price

(* Commitments that overtake one another on the side channel cost nobody     *)
(* anything: one the producer refuses while it knows the channel is covered  *)
(* by the one it has accepted.                                               *)
RefusalCostsNothing ==
    \A s \in Streams :
        post[s] = "request" /\ registered /\ ~Acceptable(posted[s]) =>
            /\ last_commitment # NoCommit
            /\ posted[s].cumulative_paid <= last_commitment.cumulative_paid

(* Each answer sets the shared count of uncommitted tokens to zero, the      *)
(* other streams' tokens included.  Where n streams have all signed, each of *)
(* the answers after the first may find k-1 tokens counted, and one more of  *)
(* every stream that is not waiting itself: it takes its token before it     *)
(* looks at the count.  So the tokens nobody has signed for when all are     *)
(* quiet may be as many as this, which from three streams on is more than a  *)
(* batch each; a cap above them is what keeps producer and consumer from     *)
(* waiting for each other.  Streams that were given up leave tokens nobody   *)
(* will pay for.                                                             *)
MostUnsigned == SharedCount * (KMax - 1) + (SharedCount * (SharedCount - 1)) \div 2
CapCoversUnsigned == MostUnsigned * Price < MaxUnpaid
DepositCoversOutput == Prepaid + MaxTokens * Price <= Deposit
Quiet(s) == /\ session[s] \in {"idle", "reading", "finished"}
            /\ unread[s] = 0 /\ post[s] = "none"

NoSharedStall ==
    CapCoversUnsigned /\ DepositCoversOutput /\ registered =>
        ~ /\ ShouldPause
          /\ \A s \in Streams : Quiet(s)
          /\ \E s \in Streams : generator[s] = "gated"

=============================================================================
