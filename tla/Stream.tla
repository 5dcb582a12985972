------------------------------- MODULE Stream -------------------------------
(***************************************************************************)
(* One streamed response over one open channel: the producer's generator   *)
(* (wrap_stream behind event_source), its /commit handler and the settle   *)
(* task it spawns, the consumer's session loop, and the two connections    *)
(* between them: the SSE body, a FIFO, and the side channel on which       *)
(* commitments are POSTed, which may lose a request or its answer.         *)
(*                                                                         *)
(* Both sides are asyncio programs, so an action is the code from one      *)
(* await to the next.  Time is in ticks; both silence clocks stop at the   *)
(* pause timeout, beyond which the code does not tell values apart.        *)
(*                                                                         *)
(* The consumer is built with either SDK.  The TypeScript session          *)
(* (sdk/typescript/src/consumer/session.ts) runs the same loop with a      *)
(* batch of fixed size and no halt detector, and does not tell the error   *)
(* frame from a token.                                                     *)
(*                                                                         *)
(* A definition headed "Variant" belongs to no specification: it is the    *)
(* form a slip in the code would give the definition below it, kept to     *)
(* show that the properties notice the difference.                         *)
(***************************************************************************)
EXTENDS ConsumerSession

VARIABLES
    \* producer: the generator, whose ActiveChannel is that module's, and
    generator,          \* where wrap_stream is suspended
    registered,         \* the channel is in the registry
    \* producer: the settle task
    settlement,
    presented,          \* the commitment it submitted, or NoCommit
    \* connections
    unread,             \* token frames written and not yet read
    ending,             \* the frame after them: "open" while there is none
    post,               \* where the one outstanding commit POST is
    posted,             \* the last commitment the consumer signed
    \* consumer: the session loop, whose state is ConsumerSession's, and
    sdk,                \* "python" or "typescript", throughout
    session,
    since_token         \* ticks since the last token (HaltDetector.note_token)

producerVars == <<generator, tokens_delivered, last_commitment, silence, halted>>
settleVars == <<registered, settlement, presented>>
consumerVars == <<sdk, session, tokens_received, cumulative_paid, since_commit,
                  k, since_token>>
wire == <<unread, ending>>
vars == <<producerVars, settleVars, wire, post, posted, consumerVars>>

SessionOver == session \in {"finished", "halt_error", "aborted"}

-----------------------------------------------------------------------------
Init ==
    /\ generator = "unstarted" /\ tokens_delivered = 0
    /\ last_commitment = NoCommit /\ silence = 0 /\ halted = FALSE
    /\ registered = TRUE /\ settlement = "idle" /\ presented = NoCommit
    /\ unread = 0 /\ ending = "open" /\ post = "none" /\ posted = NoCommit
    /\ session = "reading" /\ tokens_received = 0 /\ cumulative_paid = Prepaid
    /\ since_commit = 0 /\ since_token = 0
    /\ \/ sdk = "python" /\ k = 1
       \/ sdk = "typescript" /\ k = KMax

-----------------------------------------------------------------------------
(* The producer's generator. *)

(* The response body is first iterated. *)
StartStream ==
    /\ generator = "unstarted"
    /\ generator' = "pulling"
    /\ silence' = 0
    /\ UNCHANGED <<tokens_delivered, last_commitment, halted, settleVars, wire,
                   post, posted, consumerVars>>

(* Variant: the final frame is never written. *)
EndStreamSilently(frame) ==
    /\ generator' = "returned"
    /\ settlement' = "spawned"
    /\ UNCHANGED <<wire, tokens_delivered, last_commitment, silence, registered,
                   presented, post, posted, consumerVars>>

(* The generator is finished: its last frame goes out (an error frame is    *)
(* followed by [DONE], which nobody reads past the error) and event_source's *)
(* finally clause spawns the settle task.                                   *)
EndStream(frame) ==
    /\ generator' = "returned"
    /\ settlement' = "spawned"
    /\ ending' = frame
    /\ UNCHANGED <<unread, tokens_delivered, last_commitment, silence, registered,
                   presented, post, posted, consumerVars>>

ModelYields ==
    /\ generator = "pulling"
    /\ tokens_delivered < MaxTokens
    /\ generator' = "gated"
    /\ UNCHANGED <<tokens_delivered, last_commitment, silence, halted, settleVars,
                   wire, post, posted, consumerVars>>

ModelEnds ==
    /\ generator = "pulling"
    /\ EndStream("done")
    /\ UNCHANGED halted

ModelFails ==
    /\ generator = "pulling"
    /\ EndStream("error")
    /\ UNCHANGED halted

(* Variant: no pause at the cap. *)
PassGateUnpaid ==
    /\ generator = "gated"
    /\ ~ShouldHalt
    /\ generator' = "pacing"
    /\ UNCHANGED <<tokens_delivered, last_commitment, silence, halted, settleVars,
                   wire, post, posted, consumerVars>>

(* Neither paused nor halted: on to the pacing sleep, an await.             *)
PassGate ==
    /\ generator = "gated"
    /\ ~ShouldPause /\ ~ShouldHalt
    /\ generator' = "pacing"
    /\ UNCHANGED <<tokens_delivered, last_commitment, silence, halted, settleVars,
                   wire, post, posted, consumerVars>>

(* mark_halted and return, out of the pause loop or after it.  The loop     *)
(* looks every grace_ms, so how long it takes to notice is left open.       *)
HaltStream ==
    /\ generator = "gated"
    /\ ShouldHalt
    /\ halted' = TRUE
    /\ EndStream("done")

EmitToken ==
    /\ generator = "pacing"
    /\ tokens_delivered' = tokens_delivered + 1
    /\ unread' = unread + 1
    /\ generator' = "sent"
    /\ UNCHANGED <<ending, last_commitment, silence, halted, settleVars, post, posted,
                   consumerVars>>

ResumeAfterYield ==
    /\ generator = "sent"
    /\ silence' = 0
    /\ generator' = "pulling"
    /\ UNCHANGED <<tokens_delivered, last_commitment, halted, settleVars, wire,
                   post, posted, consumerVars>>

(* The server notices that the consumer hung up and closes the generator.   *)
(* A generator that never ran has no finally clause to run.                 *)
ClientGone ==
    /\ SessionOver
    /\ \/ /\ generator \in {"pulling", "gated", "pacing", "sent"}
          /\ EndStream("open")
          /\ UNCHANGED halted
       \/ /\ generator = "unstarted"
          /\ generator' = "dropped"
          /\ UNCHANGED <<tokens_delivered, last_commitment, silence, halted,
                         settleVars, wire, post, posted, consumerVars>>

-----------------------------------------------------------------------------
(* The /commit handler and the settle task. *)

AcceptCommit ==
    /\ post = "request"
    /\ registered
    /\ Acceptable(posted)
    /\ last_commitment' = posted
    /\ silence' = 0
    /\ post' = "answered"
    /\ UNCHANGED <<generator, tokens_delivered, halted, settleVars, wire, posted,
                   consumerVars>>

(* 404 or 409; the consumer does not look at the status. *)
RefuseCommit ==
    /\ post = "request"
    /\ ~(registered /\ Acceptable(posted))
    /\ post' = "answered"
    /\ UNCHANGED <<producerVars, settleVars, wire, posted, consumerVars>>

LosePost ==
    /\ post \in {"request", "answered"}
    /\ post' = "lost"
    /\ UNCHANGED <<producerVars, settleVars, wire, posted, consumerVars>>

(* Nothing to settle: the channel leaves the registry at once. *)
SkipSettle ==
    /\ settlement = "spawned"
    /\ last_commitment = NoCommit
    /\ settlement' = "skipped"
    /\ registered' = FALSE
    /\ UNCHANGED <<presented, producerVars, wire, post, posted, consumerVars>>

(* settle_channel reads the latest commitment, then awaits the submission. *)
SubmitSettle ==
    /\ settlement = "spawned"
    /\ last_commitment # NoCommit
    /\ presented' = last_commitment
    /\ settlement' = "submitted"
    /\ UNCHANGED <<registered, producerVars, wire, post, posted, consumerVars>>

(* Whether it succeeded or raised, the channel leaves the registry. *)
SettleReturns ==
    /\ settlement = "submitted"
    /\ settlement' \in {"settled", "failed"}
    /\ registered' = FALSE
    /\ UNCHANGED <<presented, producerVars, wire, post, posted, consumerVars>>

-----------------------------------------------------------------------------
(* The consumer's session loop. *)

(* _absorb_token, note_token, and the chunk handed to the application. *)
AbsorbToken ==
    /\ tokens_received' = tokens_received + 1
    /\ since_commit' = since_commit + 1
    /\ cumulative_paid' = WithToken(cumulative_paid)
    /\ since_token' = 0
    /\ session' = "yielded"
    /\ UNCHANGED <<sdk, k>>

ReadToken ==
    /\ session = "reading"
    /\ unread > 0
    /\ unread' = unread - 1
    /\ AbsorbToken
    /\ UNCHANGED <<ending, post, posted, producerVars, settleVars>>

NextSequence == IF posted = NoCommit THEN 1 ELSE posted.sequence + 1

(* _send_commit up to its await; `next` is where the loop is waiting. *)
SendCommit(next) ==
    /\ posted' = [sequence |-> NextSequence, cumulative_paid |-> cumulative_paid]
    /\ post' = "request"
    /\ session' = next
    /\ UNCHANGED <<sdk, tokens_received, cumulative_paid, since_commit, k,
                   since_token>>

ReadDone ==
    /\ session = "reading"
    /\ unread = 0 /\ ending \in {"done", "error_read"}
    /\ SendCommit("closing")
    /\ UNCHANGED <<wire, producerVars, settleVars>>

(* iter_sse raises what the frame says. *)
ReadError ==
    /\ sdk = "python"
    /\ session = "reading"
    /\ unread = 0 /\ ending = "error"
    /\ session' = "aborted"
    /\ UNCHANGED <<sdk, tokens_received, cumulative_paid, since_commit, k,
                   since_token, wire, post, posted, producerVars, settleVars>>

(* parseFrame makes a chunk without text of it; [DONE] follows. *)
ReadErrorAsToken ==
    /\ sdk = "typescript"
    /\ session = "reading"
    /\ unread = 0 /\ ending = "error"
    /\ ending' = "error_read"
    /\ AbsorbToken
    /\ UNCHANGED <<unread, post, posted, producerVars, settleVars>>

(* The application asks for the next chunk: evaluator, halt detector and    *)
(* batcher are consulted, in that order.                                    *)
EvaluatorHalts ==
    /\ session = "yielded"
    /\ SendCommit("closing")
    /\ UNCHANGED <<wire, producerVars, settleVars>>

(* Only the Python session has a detector. *)
Silent == sdk = "python" /\ since_token >= PauseTimeout

DetectorHalts ==
    /\ session = "yielded"
    /\ Silent
    /\ session' = "halt_error"
    /\ UNCHANGED <<sdk, tokens_received, cumulative_paid, since_commit, k,
                   since_token, wire, post, posted, producerVars, settleVars>>

BatchCommit ==
    /\ session = "yielded"
    /\ ~Silent
    /\ ShouldCommit
    /\ SendCommit("posting")
    /\ UNCHANGED <<wire, producerVars, settleVars>>

KeepReading ==
    /\ session = "yielded"
    /\ ~Silent
    /\ ~ShouldCommit
    /\ session' = "reading"
    /\ UNCHANGED <<sdk, tokens_received, cumulative_paid, since_commit, k,
                   since_token, wire, post, posted, producerVars, settleVars>>

(* The POST returns: the count is reset, and the batcher is then updated    *)
(* with the value of the tokens since this commit; TypeScript has none.     *)
CommitReturns ==
    /\ session = "posting"
    /\ post = "answered"
    /\ post' = "none"
    /\ since_commit' = 0
    /\ k' = IF sdk = "python" THEN UpdatedK(ConsumerUnpaid(since_commit')) ELSE k
    /\ session' = "reading"
    /\ UNCHANGED <<sdk, tokens_received, cumulative_paid, since_token, wire, posted,
                   producerVars, settleVars>>

FinalCommitReturns ==
    /\ session = "closing"
    /\ post = "answered"
    /\ post' = "none"
    /\ since_commit' = 0
    /\ session' = "finished"
    /\ UNCHANGED <<sdk, tokens_received, cumulative_paid, k, since_token, wire,
                   posted, producerVars, settleVars>>

(* An exception out of the loop: a failed POST or read, a cancelled         *)
(* application.  A request already sent stays in flight.                    *)
SessionAborts ==
    /\ ~SessionOver
    /\ session' = "aborted"
    /\ UNCHANGED <<sdk, tokens_received, cumulative_paid, since_commit, k,
                   since_token, wire, post, posted, producerVars, settleVars>>

Tick ==
    /\ silence < PauseTimeout \/ since_token < PauseTimeout
    /\ silence' = Later(silence)
    /\ since_token' = Later(since_token)
    /\ UNCHANGED <<generator, tokens_delivered, last_commitment, halted, settleVars,
                   wire, post, posted, sdk, session, tokens_received,
                   cumulative_paid, since_commit, k>>

-----------------------------------------------------------------------------
ModelStep == ModelYields \/ ModelEnds \/ ModelFails
GeneratorStep == \/ StartStream \/ PassGate \/ HaltStream \/ EmitToken
                 \/ ResumeAfterYield
SettleStep == SkipSettle \/ SubmitSettle \/ SettleReturns
CommitStep == AcceptCommit \/ RefuseCommit
SessionStep == \/ ReadToken \/ ReadDone \/ ReadError \/ ReadErrorAsToken
               \/ EvaluatorHalts \/ DetectorHalts \/ BatchCommit \/ KeepReading
               \/ CommitReturns \/ FinalCommitReturns

Next == \/ ModelStep \/ GeneratorStep \/ ClientGone \/ SettleStep \/ CommitStep
        \/ SessionStep \/ SessionAborts \/ LosePost \/ Tick

Spec == Init /\ [][Next]_vars

(* The producer's event loop runs its tasks, the model adapter answers or   *)
(* fails, and time passes.  Nothing is assumed of the consumer.             *)
ProducerFairness == /\ WF_vars(GeneratorStep) /\ WF_vars(ModelStep)
                    /\ WF_vars(SettleStep) /\ WF_vars(Tick)

ProducerFairSpec == Spec /\ ProducerFairness

(* The consumer's event loop runs too, and httpx, or fetch, gives up on a   *)
(* lost POST.                                                               *)
FairSpec ==
    /\ Spec /\ ProducerFairness
    /\ WF_vars(CommitStep) /\ WF_vars(SessionStep)
    /\ WF_vars(SessionAborts /\ session \in {"posting", "closing"} /\ post = "lost")

-----------------------------------------------------------------------------
(* Properties. *)

(* Every variable has its declared shape. *)
TypeOK ==
    /\ generator \in {"unstarted", "pulling", "gated", "pacing", "sent",
                      "returned", "dropped"}
    /\ tokens_delivered \in 0..MaxTokens
    /\ last_commitment \in Commitment \cup {NoCommit}
    /\ silence \in 0..PauseTimeout
    /\ halted \in BOOLEAN
    /\ registered \in BOOLEAN
    /\ settlement \in {"idle", "spawned", "submitted", "skipped", "settled", "failed"}
    /\ presented \in Commitment \cup {NoCommit}
    /\ unread \in 0..MaxTokens /\ ending \in {"open", "done", "error", "error_read"}
    /\ post \in {"none", "request", "answered", "lost"}
    /\ posted \in Commitment \cup {NoCommit}
    /\ sdk \in {"python", "typescript"}
    /\ session \in {"reading", "yielded", "posting", "closing", "finished",
                    "halt_error", "aborted"}
    /\ tokens_received \in 0..(MaxTokens + 1)
    /\ cumulative_paid \in Nat
    /\ since_commit \in 0..(MaxTokens + 1)
    /\ k \in 1..KMax
    /\ since_token \in 0..PauseTimeout

(* The producer never has more than one token's price beyond its cap         *)
(* outstanding, whatever the consumer does and whenever its commitments      *)
(* arrive between the gate and the emission.                                 *)
ExposureBounded == UnpaidValue < MaxUnpaid + Price

(* No commitment, signed, accepted or presented, authorises more than the    *)
(* floor plus the tokens delivered, nor more than the deposit: the consumer  *)
(* never pays ahead of what it received, but for the one error frame that    *)
(* the TypeScript session counts as a token.                                 *)
ErrorFrames == IF sdk = "typescript" /\ ending = "error_read" THEN 1 ELSE 0

NeverPaysAhead ==
    \A m \in {posted, last_commitment, presented} \ {NoCommit} :
        /\ m.cumulative_paid <= Prepaid + (tokens_delivered + ErrorFrames) * Price
        /\ m.cumulative_paid <= Deposit

(* "advances `cumulativePaid` (starting at `prepaidInputMicro`) per output   *)
(* token" (session.ts:5): a frame that reports a failure is no output token. *)
PaysOnlyForTokens ==
    posted # NoCommit => posted.cumulative_paid <= Prepaid + tokens_delivered * Price

(* What the session signs is always acceptable while the producer knows the  *)
(* channel: a request that was lost, delayed past a hang-up or overtaken by  *)
(* the end of the stream never turns a later commitment into a 409.          *)
HonestCommitAccepted == post = "request" /\ registered => Acceptable(posted)

(* The two sides never wait for one another: when the cap covers a full      *)
(* batch and the deposit covers the output, a paused producer has a token,   *)
(* a commitment or an answer on its way.                                     *)
CapCoversBatch == KMax * Price <= MaxUnpaid
DepositCoversOutput == Prepaid + MaxTokens * Price <= Deposit

NoMutualStall ==
    CapCoversBatch /\ DepositCoversOutput =>
        ~ /\ generator = "gated" /\ ShouldPause
          /\ session = "reading" /\ unread = 0 /\ post = "none"

(* Whatever the consumer does, the producer's side of the stream ends and    *)
(* the channel leaves the registry; only a body never iterated is forgotten. *)
StreamReleased == <>(~registered \/ generator = "dropped")

(* A consumer that keeps running comes to the end of its session.            *)
SessionEnds == <>SessionOver

(* "High pressure (unpaid_value/cap above `_high_water`) means commitments   *)
(* are arriving too slowly - back off K toward 1" (batching.py:37-39).       *)
BacksOffUnderPressure ==
    [][session = "posting" /\ session' = "reading"
       /\ ConsumerUnpaid(since_commit) * 100 >= 85 * MaxUnpaid => k' <= k]_vars

=============================================================================
