----------------------------- MODULE Settlement -----------------------------
(***************************************************************************)
(* The producer process around the settlement program: the HTTP handlers   *)
(* that open a channel and stream on it, the registry, the settle task     *)
(* spawned at the end of every stream, and the background Settler that     *)
(* closes channels.  The process may crash and be started again; whatever  *)
(* it sent to the cluster stays in flight and may land late, fail or be    *)
(* dropped, and a submission may be reported failed although it lands.     *)
(* Settle, dispute and close are permissionless: whoever holds a           *)
(* commitment, the consumer first of all, may send them too.               *)
(*                                                                         *)
(* Extends TapChannel: every step either is one of the program's           *)
(* instructions (or the clock) or leaves the chain alone.                  *)
(*                                                                         *)
(* A definition headed "Variant" belongs to no specification: it is the    *)
(* form a slip in the code would give the definition below it, kept to     *)
(* show that the properties notice the difference.                         *)
(***************************************************************************)
EXTENDS TapChannel

CONSTANTS
    Request,        \* streaming POSTs, each sent once
    KeyOf,          \* [Channel -> SessionKey]: the key its consumer made
    TermsOf,        \* [Channel -> Offers]: what its consumer agreed to
    Signed,         \* the commitments consumers ever sign
    ClockSlack,     \* clock_slack_secs
    MaxSkew,        \* how far the producer's clock is from the cluster's
    MaxCrashes,     \* BOUND on crashes
    NoCommit,       \* Python's None
    NoChannel       \* no channel

ASSUME SettlementAssumption ==
    /\ KeyOf \in [Channel -> SessionKey] /\ TermsOf \in [Channel -> Offers]
    /\ Signed \subseteq Commitment
    /\ ClockSlack \in Nat /\ MaxSkew \in Nat /\ MaxCrashes \in Nat
    /\ NoCommit \notin Commitment /\ NoChannel \notin Channel

VARIABLES
    \* the process, and what dies with it
    up,                 \* it runs, its settler with it
    registry,           \* channels ChannelRegistry knows
    last_commitment,    \* [Channel -> Commitment or NoCommit]
    handshake,          \* [Channel -> where the channel-open POST is]
    phase,              \* [Request -> where the stream, then its settle task, is]
    serves,             \* [Request -> Channel or NoChannel]
    presented,          \* [Request -> the commitment its task read, or NoCommit]
    scan,               \* run_once: channels found ready and not yet tried
    closing,            \* the channel whose close it awaits, or NoChannel
    \* transactions sent
    open_tx,            \* [Channel -> ...]
    settle_tx,          \* [Request -> ...]
    close_sent,         \* channels with a close in flight
    \* read by no action: what the properties need to remember
    accepted,           \* last_commitment, as a process that never dies saw it
    crashes

chainVars == vars
storeVars == <<registry, last_commitment, accepted>>
requestVars == <<phase, serves, presented>>
settlerVars == <<scan, closing>>
txVars == <<open_tx, settle_tx, close_sent>>
systemVars == <<chainVars, up, crashes, storeVars, handshake, requestVars,
                settlerVars, txVars>>

-----------------------------------------------------------------------------
(* What accept_commitment tests: the program's tests, but for the sequence  *)
(* number of a first commitment, which may be 0.                            *)
Newer(c, m) ==
    last_commitment[c] # NoCommit =>
        /\ m.sequence > last_commitment[c].sequence
        /\ m.cumulative_paid >= last_commitment[c].cumulative_paid

(* Variant: the prepaid floor is left to the program. *)
PayableAnyFloor(c, m) == m.cumulative_paid <= TermsOf[c].deposit_micro

Payable(c, m) == /\ m.cumulative_paid >= TermsOf[c].prepaid_input_micro
                 /\ m.cumulative_paid <= TermsOf[c].deposit_micro

Verifies(c, m) == m.channel = c /\ Newer(c, m) /\ Payable(c, m) /\ m.signer = KeyOf[c]

(* Every window of the channel, and the settler's margin after it, must fit. *)
RoomToSettle == now + MaxDuration + MaxDispute + ClockSlack + MaxSkew < MaxTime

SystemInit ==
    /\ Init
    /\ up = TRUE /\ crashes = 0
    /\ registry = {} /\ handshake = [c \in Channel |-> "none"]
    /\ last_commitment = [c \in Channel |-> NoCommit]
    /\ accepted = [c \in Channel |-> NoCommit]
    /\ phase = [r \in Request |-> "idle"]
    /\ serves = [r \in Request |-> NoChannel]
    /\ presented = [r \in Request |-> NoCommit]
    /\ scan = {} /\ closing = NoChannel
    /\ open_tx = [c \in Channel |-> "none"]
    /\ settle_tx = [r \in Request |-> "none"]
    /\ close_sent = {}

-----------------------------------------------------------------------------
(* Channel open: _open_channel_from_payment. *)

(* The POST arrives and the transaction is handed to the RPC node, which    *)
(* sends it on: send_raw does not wait for a confirmation.                  *)
SendOpen(c) ==
    /\ up /\ handshake[c] = "none"
    /\ handshake' = [handshake EXCEPT ![c] = "sending"]
    /\ open_tx' = [open_tx EXCEPT ![c] = "sent"]
    /\ UNCHANGED <<chainVars, up, crashes, storeVars, requestVars, settlerVars,
                   settle_tx, close_sent>>

(* send_raw returns; a fresh ActiveChannel is put into the registry and the *)
(* consumer gets its acknowledgement.                                       *)
AckOpen(c) ==
    /\ up /\ handshake[c] = "sending"
    /\ handshake' = [handshake EXCEPT ![c] = "acked"]
    /\ registry' = registry \cup {c}
    /\ UNCHANGED <<chainVars, up, crashes, last_commitment, accepted, requestVars,
                   settlerVars, txVars>>

(* send_raw raises, though the node may have sent the transaction on. *)
OpenRaises(c) ==
    /\ up /\ handshake[c] = "sending"
    /\ handshake' = [handshake EXCEPT ![c] = "raised"]
    /\ UNCHANGED <<chainVars, up, crashes, storeVars, requestVars, settlerVars,
                   txVars>>

-----------------------------------------------------------------------------
(* Streaming and commitments. *)

(* The channel is looked up; the handler is then awaited. *)
StartRequest(r, c) ==
    /\ up /\ phase[r] = "idle"
    /\ c \in registry
    /\ phase' = [phase EXCEPT ![r] = "preparing"]
    /\ serves' = [serves EXCEPT ![r] = c]
    /\ UNCHANGED <<chainVars, up, crashes, storeVars, handshake, presented,
                   settlerVars, txVars>>

StartStream(r) ==
    /\ up /\ phase[r] = "preparing"
    /\ phase' = [phase EXCEPT ![r] = "running"]
    /\ UNCHANGED <<chainVars, up, crashes, storeVars, handshake, serves, presented,
                   settlerVars, txVars>>

(* A commitment POST: the consumer has a stream and the registry the        *)
(* channel.  One that fails a test changes nothing.                         *)
AcceptCommit(c, m) ==
    /\ up /\ c \in registry
    /\ \E r \in Request : serves[r] = c /\ phase[r] \notin {"preparing", "lost"}
    /\ Verifies(c, m)
    /\ last_commitment' = [last_commitment EXCEPT ![c] = m]
    /\ accepted' = [accepted EXCEPT ![c] = m]
    /\ UNCHANGED <<chainVars, up, crashes, registry, handshake, requestVars,
                   settlerVars, txVars>>

(* Variant: settled inline, and dropped when the generator is closed. *)
EndStreamInline(r) ==
    /\ up /\ phase[r] = "running"
    /\ phase' = [phase EXCEPT ![r] = "skipped"]
    /\ UNCHANGED <<chainVars, up, crashes, storeVars, handshake, serves, presented,
                   settlerVars, txVars>>

(* However the stream ends, event_source's finally spawns the settle task. *)
EndStream(r) ==
    /\ up /\ phase[r] = "running"
    /\ phase' = [phase EXCEPT ![r] = "spawned"]
    /\ UNCHANGED <<chainVars, up, crashes, storeVars, handshake, serves, presented,
                   settlerVars, txVars>>

-----------------------------------------------------------------------------
(* _settle_and_cleanup. *)

(* Every way out of the task takes the channel from the registry. *)
FinishTask(r, outcome) ==
    /\ phase' = [phase EXCEPT ![r] = outcome]
    /\ registry' = registry \ {serves[r]}
    /\ UNCHANGED <<chainVars, up, crashes, last_commitment, accepted, handshake,
                   serves, presented, settlerVars, txVars>>

SkipSettle(r) ==
    /\ up /\ phase[r] = "spawned" /\ last_commitment[serves[r]] = NoCommit
    /\ FinishTask(r, "skipped")

(* Variant: it is not asked whether there is a commitment. *)
TakeAnything(r) ==
    /\ up /\ phase[r] = "spawned"
    /\ phase' = [phase EXCEPT ![r] = "submitting"]
    /\ presented' = [presented EXCEPT ![r] = last_commitment[serves[r]]]
    /\ UNCHANGED <<chainVars, up, crashes, storeVars, handshake, serves,
                   settlerVars, txVars>>

(* settle_channel builds the transaction from the latest commitment, then   *)
(* awaits a blockhash.                                                      *)
TakeCommitment(r) ==
    /\ up /\ phase[r] = "spawned" /\ last_commitment[serves[r]] # NoCommit
    /\ phase' = [phase EXCEPT ![r] = "submitting"]
    /\ presented' = [presented EXCEPT ![r] = last_commitment[serves[r]]]
    /\ UNCHANGED <<chainVars, up, crashes, storeVars, handshake, serves,
                   settlerVars, txVars>>

CanSettle(r) ==
    SettleAllowed(serves[r]) /\ CommitmentAcceptable(serves[r], presented[r])

(* The node's preflight simulation passes and it sends the transaction on. *)
SendSettle(r) ==
    /\ up /\ phase[r] = "submitting" /\ CanSettle(r)
    /\ phase' = [phase EXCEPT ![r] = "confirming"]
    /\ settle_tx' = [settle_tx EXCEPT ![r] = "sent"]
    /\ UNCHANGED <<chainVars, up, crashes, storeVars, handshake, serves, presented,
                   settlerVars, open_tx, close_sent>>

(* The wait for the confirmation ends, whether or not the program accepted it. *)
SettleConfirmed(r) ==
    /\ up /\ phase[r] = "confirming" /\ settle_tx[r] \in {"landed", "refused"}
    /\ FinishTask(r, "settled")

(* Variant: no finally clause. *)
SettleRaisesUncaught(r) ==
    /\ up /\ phase[r] \in {"submitting", "confirming"}
    /\ phase' = [phase EXCEPT ![r] = "failed"]
    /\ UNCHANGED <<chainVars, up, crashes, storeVars, handshake, serves, presented,
                   settlerVars, txVars>>

(* A refused preflight, an RPC error, or a confirmation that does not come  *)
(* in time; logged, and the task is over.                                   *)
SettleRaises(r) ==
    /\ up /\ phase[r] \in {"submitting", "confirming"}
    /\ FinishTask(r, "failed")

-----------------------------------------------------------------------------
(* The Settler. *)

(* Variant: the slack is not added. *)
ReadyWithoutSlack(local) ==
    {c \in Channel : InStatus(c, "Settling") /\ local >= DisputeUntil(c)}

(* Variant: only at the instant itself. *)
ReadyOnTheDot(local) ==
    {c \in Channel : /\ InStatus(c, "Settling")
                     /\ local = DisputeUntil(c) + ClockSlack}

(* _find_ready at the producer's local time. *)
Ready(local) == {c \in Channel : /\ InStatus(c, "Settling")
                                 /\ local >= DisputeUntil(c) + ClockSlack}

(* A poll that finds nothing, or whose RPC call fails, changes nothing. *)
Poll == \E skew \in (-MaxSkew)..MaxSkew :
    /\ up /\ scan = {} /\ closing = NoChannel
    /\ Ready(now + skew) # {}
    /\ scan' = Ready(now + skew)
    /\ UNCHANGED <<chainVars, up, crashes, storeVars, handshake, requestVars,
                   closing, txVars>>

(* _submit_close: preflight passes, the transaction is sent. *)
SendClose(c) ==
    /\ up /\ closing = NoChannel /\ c \in scan
    /\ CloseAllowed(c)
    /\ scan' = scan \ {c}
    /\ closing' = c
    /\ close_sent' = close_sent \cup {c}
    /\ UNCHANGED <<chainVars, up, crashes, storeVars, handshake, requestVars,
                   open_tx, settle_tx>>

(* It raises before anything is sent: logged, on to the next entry. *)
CloseRaises(c) ==
    /\ up /\ closing = NoChannel /\ c \in scan
    /\ scan' = scan \ {c}
    /\ UNCHANGED <<chainVars, up, crashes, storeVars, handshake, requestVars,
                   closing, txVars>>

(* Confirmed or given up on: either way on to the next entry. *)
CloseReturns ==
    /\ up /\ closing # NoChannel
    /\ closing' = NoChannel
    /\ UNCHANGED <<chainVars, up, crashes, storeVars, handshake, requestVars, scan,
                   txVars>>

-----------------------------------------------------------------------------
(* The process. *)

Running == {"preparing", "running", "spawned", "submitting", "confirming"}

(* It is killed or shut down: the registry, the commitments, the streams,   *)
(* the settle tasks and the settler's pass go with it.                      *)
Crash ==
    /\ up /\ crashes < MaxCrashes
    /\ up' = FALSE /\ crashes' = crashes + 1
    /\ registry' = {}
    /\ last_commitment' = [c \in Channel |-> NoCommit]
    /\ phase' = [r \in Request |-> IF phase[r] \in Running THEN "lost" ELSE phase[r]]
    /\ handshake' = [c \in Channel |-> IF handshake[c] = "sending" THEN "raised"
                                       ELSE handshake[c]]
    /\ scan' = {} /\ closing' = NoChannel
    /\ UNCHANGED <<chainVars, accepted, serves, presented, txVars>>

Restart ==
    /\ ~up /\ up' = TRUE
    /\ UNCHANGED <<chainVars, crashes, storeVars, handshake, requestVars,
                   settlerVars, txVars>>

-----------------------------------------------------------------------------
(* The cluster. *)

offChain == <<up, crashes, storeVars, handshake, requestVars, settlerVars>>

LandOpen(c) ==
    /\ open_tx[c] = "sent" /\ RoomToSettle
    /\ OpenChannel(c, KeyOf[c], TermsOf[c])
    /\ open_tx' = [open_tx EXCEPT ![c] = "landed"]
    /\ UNCHANGED <<offChain, settle_tx, close_sent>>

(* Dropped, or refused when it was processed. *)
DropOpen(c) ==
    /\ open_tx[c] = "sent"
    /\ open_tx' = [open_tx EXCEPT ![c] = "dropped"]
    /\ UNCHANGED <<chainVars, offChain, settle_tx, close_sent>>

LandSettle(r) ==
    /\ settle_tx[r] = "sent"
    /\ Settle(serves[r], presented[r])
    /\ settle_tx' = [settle_tx EXCEPT ![r] = "landed"]
    /\ UNCHANGED <<offChain, open_tx, close_sent>>

(* Too late, or overtaken by another settle. *)
RefuseSettle(r) ==
    /\ settle_tx[r] = "sent" /\ ~CanSettle(r)
    /\ settle_tx' = [settle_tx EXCEPT ![r] = "refused"]
    /\ UNCHANGED <<chainVars, offChain, open_tx, close_sent>>

DropSettle(r) ==
    /\ settle_tx[r] = "sent"
    /\ settle_tx' = [settle_tx EXCEPT ![r] = "dropped"]
    /\ UNCHANGED <<chainVars, offChain, open_tx, close_sent>>

LandClose(c) ==
    /\ c \in close_sent
    /\ Close(c)
    /\ close_sent' = close_sent \ {c}
    /\ UNCHANGED <<offChain, open_tx, settle_tx>>

DropClose(c) ==
    /\ c \in close_sent
    /\ close_sent' = close_sent \ {c}
    /\ UNCHANGED <<chainVars, offChain, open_tx, settle_tx>>

(* Any payer may send the three permissionless instructions: the consumer,  *)
(* settler_cli or a third party, with any commitment that was signed.       *)
OthersSettle(c, m) == Settle(c, m) /\ UNCHANGED <<offChain, txVars>>
OthersDispute(c, m) == Dispute(c, m) /\ UNCHANGED <<offChain, txVars>>
OthersClose(c) == Close(c) /\ UNCHANGED <<offChain, txVars>>

TimePasses == Tick /\ UNCHANGED <<offChain, txVars>>

-----------------------------------------------------------------------------
OpenStep == \E c \in Channel : SendOpen(c) \/ AckOpen(c) \/ OpenRaises(c)

TaskStep(r) == \/ StartStream(r) \/ EndStream(r) \/ SkipSettle(r)
               \/ TakeCommitment(r) \/ SendSettle(r) \/ SettleConfirmed(r)
               \/ SettleRaises(r)

SettlerStep == \/ Poll \/ CloseReturns
               \/ \E c \in Channel : SendClose(c) \/ CloseRaises(c)

ClusterStep ==
    \/ TimePasses
    \/ \E c \in Channel : \/ LandOpen(c) \/ DropOpen(c)
                          \/ LandClose(c) \/ DropClose(c) \/ OthersClose(c)
                          \/ \E m \in Signed : OthersSettle(c, m) \/ OthersDispute(c, m)
    \/ \E r \in Request : LandSettle(r) \/ RefuseSettle(r) \/ DropSettle(r)

SystemNext ==
    \/ OpenStep \/ SettlerStep \/ ClusterStep \/ Crash \/ Restart
    \/ \E c \in Channel : \/ \E r \in Request : StartRequest(r, c)
                          \/ \E m \in Signed : AcceptCommit(c, m)
    \/ \E r \in Request : TaskStep(r)

SystemSpec == SystemInit /\ [][SystemNext]_systemVars

(* Time passes; a stopped process is started again; its event loop runs the *)
(* streams, the settle tasks and the settler; and RPC node and cluster do   *)
(* not refuse for ever a close that is sent again and again.                *)
SystemFairness ==
    /\ WF_systemVars(TimePasses) /\ WF_systemVars(Restart)
    /\ WF_systemVars(SettlerStep) /\ WF_systemVars(Poll)
    /\ \A r \in Request : WF_systemVars(TaskStep(r))
    /\ \A c \in Channel : SF_systemVars(SendClose(c)) /\ SF_systemVars(LandClose(c))

FairSystemSpec == SystemSpec /\ SystemFairness

-----------------------------------------------------------------------------
(* Properties. *)

(* Every variable has its declared shape; a request that is under way has a  *)
(* channel, and a settle task that is submitting has something to submit.    *)
SystemTypeOK ==
    /\ TypeOK
    /\ up \in BOOLEAN /\ crashes \in 0..MaxCrashes
    /\ registry \in SUBSET Channel
    /\ last_commitment \in [Channel -> Commitment \cup {NoCommit}]
    /\ accepted \in [Channel -> Commitment \cup {NoCommit}]
    /\ handshake \in [Channel -> {"none", "sending", "acked", "raised"}]
    /\ phase \in [Request -> Running \cup {"idle", "skipped", "settled", "failed",
                                           "lost"}]
    /\ serves \in [Request -> Channel \cup {NoChannel}]
    /\ presented \in [Request -> Commitment \cup {NoCommit}]
    /\ \A r \in Request :
          /\ phase[r] # "idle" => serves[r] # NoChannel
          /\ phase[r] \in {"submitting", "confirming", "settled"} =>
                presented[r] # NoCommit
    /\ scan \in SUBSET Channel /\ closing \in Channel \cup {NoChannel}
    /\ open_tx \in [Channel -> {"none", "sent", "landed", "dropped"}]
    /\ settle_tx \in [Request -> {"none", "sent", "landed", "refused", "dropped"}]
    /\ close_sent \in SUBSET Channel

(* The producer never pays a fee for a close that comes too early: what the  *)
(* settler's snapshot holds, read with a clock that is off by less than the  *)
(* slack and acted on an await or several later, may be closed or is gone    *)
(* already; and so it is with a close in flight, from before a crash too.    *)
ReadyMeansClosable ==
    MaxSkew < ClockSlack =>
        \A c \in scan \cup close_sent : Exists(c) => CloseAllowed(c)

(* A settlement the producer got onto the chain is never undone: whatever    *)
(* the consumer settles or disputes with, and however late the transaction   *)
(* landed, the account pays at least what that commitment is worth until it  *)
(* is closed.                                                                *)
SettlementHolds ==
    \A r \in Request :
        LET c == serves[r] IN
        settle_tx[r] = "landed" /\ Exists(c) =>
            /\ InStatus(c, "Settling")
            /\ presented[r].sequence <= channel[c].last_sequence
            /\ presented[r].cumulative_paid <= PaidAtClose(c)

(* The producer and the program test a commitment alike: as long as the      *)
(* account can be settled or disputed, the program will take what the        *)
(* producer accepted, unless something at least as new, or worth more, has   *)
(* been recorded; the sequence number 0 of a new account is "as new" as 0.   *)
AcceptedMeetsProgram ==
    \A c \in Channel :
        /\ accepted[c] # NoCommit
        /\ SettleAllowed(c) \/ DisputeAllowed(c)
        /\ Supersedes(c, accepted[c])
        => CommitmentAcceptable(c, accepted[c])

(* A stream that will end in a task reading the latest commitment, or a task *)
(* that has read it, and not an older one.                                   *)
Attends(r, c) ==
    /\ serves[r] = c
    /\ \/ phase[r] \in {"preparing", "running", "spawned"}
       \/ phase[r] \in {"submitting", "confirming"} /\ presented[r] = accepted[c]

(* An accepted commitment no one is going to present, on an account that     *)
(* could still be settled.                                                   *)
Abandoned(c) == /\ SettleAllowed(c) /\ accepted[c] # NoCommit
                /\ \A r \in Request : ~Attends(r, c)

(* An accepted commitment is abandoned for three reasons only: the process   *)
(* died under the stream or the task, a settle task failed, or one had read  *)
(* an older commitment when this one was accepted.                           *)
AbandonedForCause ==
    \A c \in Channel :
        Abandoned(c) =>
            \E r \in Request :
                /\ serves[r] = c
                /\ \/ phase[r] \in {"lost", "failed"}
                   \/ presented[r] \notin {NoCommit, accepted[c]}

(* "A producer that crashes mid-window will still close the channel on next  *)
(* startup" (settler.py): a settled channel is paid out whatever crashes,    *)
(* failed polls, lost transactions and rival closes come between.            *)
SettledIsPaidOut == \A c \in Channel : InStatus(c, "Settling") ~> ~Exists(c)

(* Every task ends, and with it the channel's entry in the registry. *)
TaskCleansUp ==
    \A r \in Request : phase[r] = "spawned" ~> serves[r] \notin registry

-----------------------------------------------------------------------------
(* What a comment says and the code does not do. *)

(* "The on-chain program enforces the same bound at settle time, but         *)
(* rejecting low commits here means the producer never advances state past   *)
(* one that would on-chain-fail anyway" (verifier.py): a new account can be  *)
(* settled with whatever its producer accepted.                              *)
AcceptedWouldSettle ==
    \A c \in Channel :
        SettleAllowed(c) /\ accepted[c] # NoCommit =>
            CommitmentAcceptable(c, accepted[c])

=============================================================================
