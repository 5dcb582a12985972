------------------------------- MODULE Delivery -------------------------------
(***************************************************************************)
(* A demo run from the model to the browser: stream_gemini, iterated by    *)
(* the producer's event_source; its frames; the consumer's session with an *)
(* evaluator; the driver task around it, which puts events on a queue; and *)
(* the relay that turns the queue into the browser's event stream.         *)
(*                                                                         *)
(* What the gate, the batcher and the /commit handler do is Stream's       *)
(* subject: here the gate may halt before any piece, a commitment may      *)
(* follow any token, and any request may fail.  queue.put never waits      *)
(* (the queue is unbounded), so an action of the driver is its code from   *)
(* one await of the network to the next.                                   *)
(***************************************************************************)
EXTENDS GeminiAdapter, Evaluators

CONSTANTS
    MaxFrames           \* bound: frames on their way

ASSUME DeliveryAssumption == Texts \subseteq Seq(Alphabet) /\ MaxFrames \in Nat

VARIABLES
    server,             \* event_source: "idle", "pulling" or "over"
    gated,              \* the gate halted the stream
    frames,             \* written and not yet read: pieces, "done", "error"
    enforce_schema,     \* of the RunRequest
    driver,             \* where the task awaits
    failed,             \* an exception is on its way out of it
    cancelled,          \* task.cancel() was called
    accumulated, tokens, halted,    \* of the session
    queue,
    relay,              \* "waiting", "ended", or "left" by the browser
    shown               \* the events the browser has received

sessionVars == <<accumulated, tokens, halted>>
driverVars == <<driver, failed, sessionVars>>
vars == <<adapterVars, server, gated, frames, enforce_schema, driverVars,
          cancelled, queue, relay, shown>>

Event(type) == [type |-> type, tokens |-> tokens', text |-> <<>>]
Frame(kind, text) == [kind |-> kind, text |-> text]
None == [type |-> "None"]

Put(events) == queue' = queue \o events

DeliveryInit ==
    /\ AdapterInit
    /\ server = "idle" /\ gated = FALSE /\ frames = <<>>
    /\ enforce_schema \in BOOLEAN
    /\ driver = "new" /\ failed = FALSE /\ cancelled = FALSE
    /\ accumulated = <<>> /\ tokens = 0 /\ halted = FALSE
    /\ queue = <<>> /\ relay = "waiting" /\ shown = <<>>

-----------------------------------------------------------------------------
(* The producer: event_source, as long as somebody reads. *)

consumerSide == <<enforce_schema, driverVars, cancelled, queue, relay, shown>>

HungUp == driver \in {"leaving", "closing", "ended"}

Pulling == server = "pulling" /\ ~HungUp

PullNext ==
    /\ Pulling
    /\ AdapterRuns
    /\ UNCHANGED <<server, gated, frames, consumerSide>>

EmitPiece ==
    /\ Pulling /\ Len(frames) < MaxFrames
    /\ YieldPiece
    /\ frames' = Append(frames, Frame("text", Head(pieces)))
    /\ UNCHANGED <<server, gated, consumerSide>>

GateHalts ==
    /\ Pulling /\ pieces # <<>>
    /\ AdapterClosed
    /\ server' = "over" /\ gated' = TRUE
    /\ frames' = Append(frames, Frame("done", <<>>))
    /\ UNCHANGED consumerSide

EmitDone ==
    /\ Pulling /\ adapter = "returned"
    /\ server' = "over"
    /\ frames' = Append(frames, Frame("done", <<>>))
    /\ UNCHANGED <<adapterVars, gated, consumerSide>>

EmitError ==
    /\ Pulling /\ adapter = "raised"
    /\ server' = "over"
    /\ frames' = Append(frames, Frame("error", <<>>))
    /\ UNCHANGED <<adapterVars, gated, consumerSide>>

(* The server notices and closes the generators. *)
ServerReleased ==
    /\ HungUp /\ server = "pulling"
    /\ server' = "over"
    /\ AdapterClosed
    /\ UNCHANGED <<gated, frames, consumerSide>>

-----------------------------------------------------------------------------
(* The driver and the session it iterates. *)

producerSide == <<adapterVars, gated>>
browserSide == <<relay, shown, cancelled, enforce_schema>>

DriverStarts ==
    /\ driver = "new" /\ ~cancelled
    /\ driver' = "opening"
    /\ UNCHANGED <<failed, sessionVars>>
    /\ Put(<<Event("phase")>>)
    /\ UNCHANGED <<producerSide, server, frames, browserSide>>

SessionOpens ==
    /\ driver = "opening" /\ ~cancelled
    /\ driver' = "reading" /\ server' = "pulling"
    /\ UNCHANGED <<failed, sessionVars>>
    /\ Put(<<Event("session_open"), Event("phase")>>)
    /\ UNCHANGED <<producerSide, frames, browserSide>>

eval_chain(text) ==
    compose({enforce_schema /\ json_schema(text), length_cap(text)})

ReadToken ==
    /\ driver = "reading" /\ ~cancelled
    /\ frames # <<>> /\ Head(frames).kind = "text"
    /\ frames' = Tail(frames)
    /\ tokens' = tokens + 1
    /\ accumulated' = accumulated \o Head(frames).text
    /\ halted' = eval_chain(accumulated')
    /\ driver' \in IF halted' THEN {"finishing"} ELSE {"reading", "committing"}
    /\ Put(<<[Event("token") EXCEPT !.text = Head(frames).text]>>)
    /\ UNCHANGED <<failed, producerSide, server, browserSide>>

ReadDone ==
    /\ driver = "reading" /\ ~cancelled
    /\ frames # <<>> /\ Head(frames).kind = "done"
    /\ frames' = Tail(frames)
    /\ driver' = "finishing"
    /\ UNCHANGED <<failed, sessionVars, queue, producerSide, server, browserSide>>

(* iter_sse raises; but so may any request, and the halt detector. *)
ReadError ==
    /\ driver = "reading" /\ ~cancelled
    /\ frames # <<>> /\ Head(frames).kind = "error"
    /\ frames' = Tail(frames)
    /\ driver' = "closing" /\ failed' = TRUE
    /\ UNCHANGED <<sessionVars, queue, producerSide, server, browserSide>>

SessionRaises ==
    /\ driver \in {"opening", "reading", "committing", "finishing", "leaving"}
    /\ ~cancelled
    /\ driver' = "closing" /\ failed' = TRUE
    /\ UNCHANGED <<sessionVars, queue, producerSide, server, frames, browserSide>>

(* on_commit. *)
CommitReturns ==
    /\ driver = "committing" /\ ~cancelled
    /\ driver' = "reading"
    /\ UNCHANGED <<failed, sessionVars>>
    /\ Put(<<Event("commit_signed")>>)
    /\ UNCHANGED <<producerSide, server, frames, browserSide>>

FinalCommitReturns ==
    /\ driver = "finishing" /\ ~cancelled
    /\ driver' = "leaving"
    /\ UNCHANGED <<failed, sessionVars>>
    /\ Put(<<Event("commit_signed")>>)
    /\ UNCHANGED <<producerSide, server, frames, browserSide>>

(* Out of the session's own async with, and so of the async for. *)
ResponseClosed ==
    /\ driver = "leaving" /\ ~cancelled
    /\ driver' = "closing"
    /\ UNCHANGED <<failed, sessionVars>>
    /\ Put(<<Event("complete")>>)
    /\ UNCHANGED <<producerSide, server, frames, browserSide>>

(* Variant: the sentinel inside the try, and not in the finally clause. *)
ClientsClosedInTry ==
    /\ driver = "closing" /\ ~cancelled
    /\ driver' = "ended"
    /\ UNCHANGED <<failed, sessionVars>>
    /\ Put(IF failed THEN <<Event("error")>> ELSE <<None>>)
    /\ UNCHANGED <<producerSide, server, frames, browserSide>>

(* Out of both async with blocks. *)
ClientsClosed ==
    /\ driver = "closing" /\ ~cancelled
    /\ driver' = "ended"
    /\ UNCHANGED <<failed, sessionVars>>
    /\ Put(IF failed THEN <<Event("error"), None>> ELSE <<None>>)
    /\ UNCHANGED <<producerSide, server, frames, browserSide>>

ClosingRaises ==
    /\ driver = "closing" /\ ~cancelled
    /\ driver' = "ended" /\ failed' = TRUE
    /\ UNCHANGED sessionVars
    /\ Put(<<Event("error"), None>>)
    /\ UNCHANGED <<producerSide, server, frames, browserSide>>

(* CancelledError, which is no Exception, at the driver's await.  A task   *)
(* that never ran has no finally clause to run.                            *)
DriverCancelled ==
    /\ cancelled /\ driver # "ended"
    /\ driver' = "ended"
    /\ Put(IF driver = "new" THEN <<>> ELSE <<None>>)
    /\ UNCHANGED <<failed, sessionVars, producerSide, server, frames, browserSide>>

-----------------------------------------------------------------------------
(* The relay: _run_session's own loop. *)

otherSides == <<producerSide, server, frames, driverVars, enforce_schema>>

RelayForwards ==
    /\ relay = "waiting" /\ queue # <<>> /\ Head(queue) # None
    /\ shown' = Append(shown, Head(queue))
    /\ queue' = Tail(queue)
    /\ UNCHANGED <<relay, cancelled, otherSides>>

RelayEnds ==
    /\ relay = "waiting" /\ queue # <<>> /\ Head(queue) = None
    /\ relay' = "ended" /\ cancelled' = TRUE
    /\ queue' = Tail(queue)
    /\ UNCHANGED <<shown, otherSides>>

(* The generator is closed at its yield or cancelled at queue.get. *)
BrowserLeaves ==
    /\ relay = "waiting"
    /\ relay' = "left" /\ cancelled' = TRUE
    /\ UNCHANGED <<queue, shown, otherSides>>

Producer ==
    \/ PullNext \/ EmitPiece \/ EmitDone \/ EmitError \/ ServerReleased
Driver ==
    \/ DriverStarts \/ SessionOpens \/ ReadToken \/ ReadDone \/ ReadError
    \/ CommitReturns \/ FinalCommitReturns \/ ResponseClosed
    \/ ClientsClosed \/ DriverCancelled
Relay == RelayForwards \/ RelayEnds

DeliveryNext ==
    \/ Producer \/ GateHalts
    \/ Driver \/ SessionRaises \/ ClosingRaises
    \/ Relay \/ BrowserLeaves

(* Tasks that can go on do; requests are answered or time out. *)
DeliverySpec ==
    /\ DeliveryInit /\ [][DeliveryNext]_vars
    /\ WF_vars(Producer) /\ WF_vars(Driver) /\ WF_vars(Relay)

-----------------------------------------------------------------------------
Visible(text) ==
    FoldLeft(LAMBDA seen, c : IF c = " " THEN seen ELSE Append(seen, c), <<>>, text)

TextOf(events) == FoldLeft(LAMBDA text, e : text \o e.text, <<>>, events)

TokensIn(events) ==
    Cardinality({i \in DOMAIN events : events[i].type = "token"})

(* Whatever was retried, cut or lost on the way, what the browser shows is *)
(* the beginning of one single response, blanks aside: no attempt's text   *)
(* follows another's, nothing is shown twice or out of order; and no empty *)
(* piece was billed as a token.                                            *)
ShownIsOneResponse ==
    /\ IsPrefix(Visible(TextOf(shown)), Visible(response))
    /\ \A i \in DOMAIN shown : shown[i].type = "token" => shown[i].text # <<>>

(* A browser that stays is told how the run ended, last: an error, or that *)
(* it is complete; then it has seen every token counted, a commitment for  *)
(* all of them was posted before, and unless evaluator or gate cut it      *)
(* short the text is the whole of the response.  Only an error of the      *)
(* clean-up may follow a complete.                                         *)
OutcomeToldTruly ==
    relay = "ended" =>
        /\ shown # <<>> /\ Last(shown).type \in {"complete", "error"}
        /\ \A i \in DOMAIN shown :
              /\ shown[i].type = "error" => i = Len(shown)
              /\ shown[i].type = "complete" =>
                    LET before == SubSeq(shown, 1, i - 1)
                    IN  /\ \A j \in (i + 1)..Len(shown) : shown[j].type = "error"
                        /\ shown[i].tokens = TokensIn(before)
                        /\ Last(before).type = "commit_signed"
                        /\ Last(before).tokens = shown[i].tokens
                        /\ \/ halted \/ gated
                           \/ /\ adapter = "returned" /\ answers = 1
                              /\ Visible(TextOf(shown)) = Visible(response)

(* The schema evaluator stops, and so saves the price of, only answers     *)
(* nothing could have made usable, except where blanks follow the line of  *)
(* an opening fence (json_schema strips the text before the fence only).   *)
HaltIsJustified ==
    halted => \/ Len(accumulated) >= MaxChars
              \/ ~MayBecomeUsable(accumulated)
              \/ BlankAfterFence(accumulated)

(* Every run ends on all three machines: the relay's stream, the driver's  *)
(* task, and the model's, whose output is not paid for once nobody reads.  *)
RunEnds ==
    <>(relay \in {"ended", "left"} /\ driver = "ended" /\ server # "pulling")

=============================================================================
