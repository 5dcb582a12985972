# TAP, in TLA+

TAP streams the output of a language model over HTTP and pays for it token by
token: the consumer escrows a deposit in a Solana program, signs a growing
cumulative amount while it reads, and the producer settles with the latest
signature. This directory holds TLA+ models of the on-chain program, the two
off-chain parties and the handshake between them; the TLC configurations that
check them on small instances; and TLAPS proofs of the main results for all
instances. Paths below are relative to the repository's root.

    tlc -workers 2 -config TapChannelPair.cfg MCTapChannel.tla
    tlapm TapChannel_proofs.tla

`PROJECT.json` lists the runs, the source lines each definition stands for, the
hazards, and for each property of a passing run one change of the model (a
"Variant" in the module) that breaks it. A Variant is in no specification.

## 1. Inventory

### The parts

**On-chain program** (`programs/tap/src`). State: per channel an account
(status, session key, terms, last sequence and amount, `expires_at`,
`settled_at`) and a vault; the parties' token accounts; the clock. Operations:
`open_channel`, `settle`, `dispute`, `close`; all but the first are
permissionless. Each is atomic; the difficulty lies in the order of calls and in
the three time windows, written in three files. Correct when: vault and account
agree and no money is lost; a settlement stays within the terms and only moves
forward; a later commitment can displace an earlier one; exactly one of
{settle, dispute} and {close} is possible at any instant; close never jams.

**Streaming session, producer side** (`sdk/python/tap/producer/wrap_stream.py`,
`channel.py`, `halt.py`, `verifier.py`, `sse.py`, `server.py:242-258,332-392`).
State: `ActiveChannel` (tokens delivered, latest commitment, time of the last
one, halted). Operations: the generator behind the SSE body, the `/commit`
handler, the spawning of the settle task. Hard: generator and handler interleave
at every await, the consumer may hang up at any of them, and the pause timeout
races commitments on their way. Correct when: exposure is bounded, and the
stream always ends and lets go of the channel.

**Streaming session, consumer side** (`sdk/python/tap/consumer/session.py`,
`batching.py`, `halt.py`, `stream.py`; `sdk/typescript/src/consumer/session.ts`,
`sse.ts`). State: sequence, tokens received, cumulative amount, tokens since the
last commitment, batch size K, time of the last token. Hard: a commit POST or its
answer is lost; the loop only looks at its detector and batcher when the
application asks for the next chunk. Correct when: it never authorises more than
it received or than the deposit, what it signs is acceptable, and it cannot
wait for a producer that waits for it.

**Producer process** (`server.py`, `registry.py`, `settle.py`, `chain/rpc.py`).
State: the registry and its commitments, in memory only, and the pending settle
tasks. Hard: crashes; transactions that land although they were reported failed;
two requests on one channel; a settle task that reads a commitment and then
waits; a client that signs what no session would, and settles or disputes with it
itself. Correct when: what it accepted the program would take, a settlement it got
onto the chain is not undone, and an accepted commitment is left without anybody to
present it only for known causes.

**Settler** (`settler.py`, `settler_cli.py`). State: the snapshot of the pass it
is in. Polls the chain for Settling accounts and closes each that is past its
window. Hard: a clock that is not the cluster's, rivals that close first, a close
that fails mid-pass, a crash between settle and close. Correct when: it never
closes too early and every settled channel is paid out.

**Channel-open handshake** (`consumer/client.py`, `opener.py`, `discovery.py`,
`policy.py`, `session_key.py`; `producer/pricing.py`; `x402/`;
`server.py:163-330`; `sdk/typescript/src/consumer/client.ts`, `discovery.ts`,
`openChannelTx.ts`). The consumer keeps the quote it audited; the producer keeps
nothing between quote and payment. Hard: the producer may be restarted at other
prices in between; a call may fail after its transaction was sent; two opens
share one wallet. Correct when: nothing is escrowed on terms that were not
audited, and account, `ActiveChannel` and session have the same terms.

**Encodings and account layout** (`sdk/python/tap/protocol`, `chain/`, `x402/`; their
TypeScript counterparts; the program's `instructions/` and `state/channel.rs`).
State: a buffer and the place a writer or reader has come to. Three languages write
and read the same bytes by hand-kept offsets and widths, and numbers pass through
u32, u64 and JavaScript's doubles. Correct when: what arrives is what was given, what
fits is not refused, and the settler's byte filters look where the program writes.

**Evaluators** (`evaluators/`). Predicates on the text so far that end a paid stream.
Hard: they decide on a prefix. Correct when: they halt only what can no longer become
usable.

**Model adapters** (`adapters/`). The Gemini one keeps a model, an attempt and the
pieces of a line; it retries the opening call, falls back to another model and cuts
what it reads into the pieces that are billed. Hard: a retry after something was
yielded, a break in the middle. Correct when: the pieces are those of one response, in
order.

**Demo runner** (`demo/runner.py`). State: per `/api/run` a driver task, a queue and
the relay to the browser. Hard: failure at every await of the driver, a browser that
leaves at any time, the sentinel that ends the relay. Correct when: what is shown is
what was delivered, the outcome is told truly, and all tasks end.

**Demo producer, dashboard, documentation site, deployment; key files and program
IDs**: no protocol state.

### How they interact

    consumer session --SSE body (FIFO)------------- generator
          |                                             |  shares ActiveChannel
          +----X-TAP-COMMIT POST (may be lost)--- /commit handler
          |                                             |
     open_session --402 / X-PAYMENT / ack------ open handler -- registry
          |  (signs)                                    |
          |                      send_raw, submit       v
          +--------------> program <------------- settle task, Settler

    browser <--SSE-- relay <--queue-- driver task (iterates a consumer session,
                                      evaluators in its loop)
    generator --asks for the next piece--> model adapter --HTTP--> model

## 2. Modules

| module | models | composes |
|---|---|---|
| `Escrow` | what the program promises: deposits are held, what is due only grows, is final once closing is possible, and is paid out exactly | |
| `TapChannel` | the four instructions over channels, vaults, wallets, clock | refines `Escrow` |
| `ActiveChannel` | what the producer keeps of a channel, and the tests made on it | |
| `ConsumerSession` | what a session keeps, and its batcher | EXTENDS `ActiveChannel` |
| `Stream` | one response over one open channel: generator, `/commit`, settle task, session loop of either SDK, both connections | EXTENDS `ConsumerSession` |
| `SharedChannel` | any number of responses at once over one `ActiveChannel` and one session | EXTENDS `ConsumerSession` |
| `Settlement` | producer process, settler and cluster around the program | EXTENDS `TapChannel` |
| `Opening` | the open handshake of either SDK, producer restarts, cluster | EXTENDS `TapChannel` |
| `Wire` | terms and a commitment through every encoding, field by field | |
| `GeminiAdapter` | the adapter with retries, fallback and re-chunking | |
| `Evaluators` | json_schema, length_cap, compose, and what a usable answer is | |
| `Delivery` | a demo run: adapter, SSE frames, session with evaluators, driver, queue, relay | EXTENDS `GeminiAdapter`, `Evaluators` |
| `MC*` | instances for TLC | |
| `*_proofs` | theorems | |

### TapChannel
One action per instruction; a failing `require!` is no step. `channel[c]` is the
account or `NoAccount`; close returns it to `NoAccount`, after which the same PDA
may be opened again. `Supersedes`, `WithinTerms`, `SignatureVerifies` are the
tests that `settle.rs` and `dispute.rs` share; `SettleAllowed`, `DisputeAllowed`,
`CloseAllowed` are the windows. A transaction's signer is part of the commitment
(`signer`): the program compares a key, so that is all signatures are here. u64
products saturate at `U64Max`. `Close` keeps close_account's demand of an empty
vault as a guard; that it always holds is `CloseEmptiesVault`. Assumed: nobody
transfers tokens into a vault from outside; rent and events are left out.

### Stream
Each action is the code from one await to the next. The producer's `generator`
is where `wrap_stream` is suspended; `unread`/`ending` are the SSE body;
`post`/`posted` the one outstanding commit POST (the loop awaits it). Clocks are
ticks that stop at the pause timeout, beyond which the code tells nothing apart;
how long the polling loop (10 ms sleeps, in rounds of `grace_ms`) takes to notice is left open. The pacing
sleep exists in the code from the second token on; the model has it always,
which only adds interleavings. `sdk` selects the session loop: TypeScript has a
fixed batch, no detector, and takes the error frame for a token
(`ReadErrorAsToken`). The model of the language model yields, ends or fails
whenever it is asked. One stream per channel (several are in `SharedChannel`).

### SharedChannel
`generator`, `unread`, `post`, `posted`, `session` are per stream; everything of
`ActiveChannel` and of the session (`sequence` included, one `_SessionState` for all
its `stream()` calls) there is once. After the answer to a commitment the session awaits
its application's `on_commit` (`telling`) before the batcher reads the unpaid value
(`BatcherUpdates`); other streams count tokens in between. The halt detector is one of the ways a session
may raise, and a settle task is visible by its end only, when it takes the channel from
the registry under the others. Both sides are Python.

### Settlement
A request goes idle, preparing, running, spawned, submitting, confirming, then
settled, failed, skipped or lost (crash). Transactions in flight are their own
variables (`open_tx`, `settle_tx`, `close_sent`): they outlive the process, land
late, fail or vanish; a `settle_tx` that was processed has `landed` or was `refused`.
`accepted` and `crashes` are history variables. `Signed` is whatever consumers ever
sign: commitments of the SDK's session, and those of another client, which begin at
sequence 0, go down, stay below the floor, exceed the deposit or have a foreign key.
`Verifies` is `accept_commitment` on any of them (a first sequence may be 0). The three
permissionless instructions may also come from anybody else, the consumer first of all:
`OthersSettle` and `OthersDispute` with any member of `Signed`, `OthersClose`. Assumed:
a nonce is opened once (`opener.py:85` draws 64 random bits); X-PAYMENT is what
the consumer SDK sends; the producer itself never disputes (no SDK code does); finishing
a task and removing the registry entry is one step, the registry lock never being
held across an await; `SettleConfirmed` also when the transaction failed on
chain, since `submit` does not look at the status of the confirmation. A poll
that fails is a stutter.

### Opening
A call of `open_session` is named by the channel it would open (own nonce, own
session key). `ReadQuote` is audit, re-tokenization and deposit test of the
Python client with the last test of `TimingParameters`, and the deposit test alone of the
TypeScript one, which "trusts the producer's quote". A `Payment` holds the same terms
twice: `terms`, as the JSON of X-PAYMENT tells them, and `args`, as the bytes of the
transaction carry them (`ArgsOf`). Python's encoder raises at a number too wide for its
field; TypeScript's header refuses a bigint that no double holds (`SafeMax`), while its
transaction keeps the low bits of the three 32-bit fields. The producer reads the header
(`ActiveChannelOf`), the program the transaction (`LandOpen`), and the session goes by
the quote. `SubmitOpen` has the node's simulation as its guard,
`SubmitRaises` leaves a transaction that may still land, `LandOpen` is the
program's `OpenChannel`. `Misquotes` are answers of a producer with some other
implementation or configuration, one for each test that could refuse them. The
combined open-and-stream POST (`server.py:218-229`), which neither client sends,
and the generic GET quote are left out. JSON and base64 carry every field both
ways; the layouts themselves are the subject of `Wire`.

### Wire
A layout is a sequence of (field, width), one for each place in the source that writes
or reads it. `leg` is the encoding or decoding under way and two engines serve them
all: `WriteField` appends the bytes of a field (Python raises on overflow, a DataView
wraps, JavaScript's `bigintToNumber` refuses beyond 2^53 - 1), `ReadField` takes a
width of bytes at the running offset. A byte is (value, width, position), so that a
field read in another's place is `Garbled`. The legs are: open data, written and read;
`X-PAYMENT`; the account; the signed bytes, written by consumer, producer and program;
`X-TAP-COMMIT`; the settle data with its Ed25519 sibling; the settler's memcmp filters
and its decoder. The offsets 0, 32, 40, 48, 52 of the TypeScript commitment are the
sums of the widths. Left out: endianness and base64 (the same everywhere), negative
numbers, PDA seeds (the same on all sides), what the program thinks of the values
(`TapChannel`).

### GeminiAdapter, Evaluators, Delivery
`GeminiAdapter` keeps the text of the answer (`response`) beside what it cuts it into.
`split_chunk` is the code's own folding of words. `Evaluators` works on texts of seven
kinds of character, among them an array's beginning that nothing ends; a fence is two ticks, shorter than the warm-up, as three are than
32. `Delivery` leaves gate, batcher and commits to `Stream`: the gate may halt before
any piece, a commitment may follow any token, any request may fail. A session that leaves awaits
the answer to its final commitment and then the end of the response (`leaving`). The driver's
actions go from one await to the next (`queue.put` never waits); `cancelled` is
`task.cancel()`, delivered at the driver's next await; a task that never ran has no
finally clause. `shown` is what the browser has received.

## 3. Runs

### Passing

| run | states | shows |
|---|---|---|
| `TapChannelPair` | 93 k | two channels of one wallet, two keys, ten offers of which seven are refused each for its own reason: types, conservation, backing, terms, windows, forward-only settlement, `LatestCanStillWin`, payout (liveness), and `Escrow` implemented |
| `StreamRoomy` | 44 k | the cap covers a batch and the deposit the output: honest commitments are always acceptable, no mutual stall, the session ends |
| `StreamTight` | 33 k | the cap below a batch, the deposit below the output, the consumer stops anywhere: exposure and payment stay bounded, the producer's side ends |
| `SettlementRivals` | 551 k | two requests on one channel, a crash, a skewed clock, a client that signs anything and others who settle, dispute and close with it: never closed early, a settlement that landed holds, what was accepted the program takes while it is news, a commitment is abandoned only for cause |
| `SettlementPayout` | 174 k | one channel, two crashes, a skewed clock, lost closes, rivals: a settled channel is paid out, every task cleans up |
| `SharedChannelPair` | 8.3 M | two streams on one channel: exposure grows by a token a stream, a commitment refused because another overtook it costs nothing, and with a cap above `MostUnsigned` the two sides do not wait for each other |
| `WireProbes` | 29 k | each field in turn at every numeric boundary, through both SDKs' encoders, the producer, the program and the settler: what arrives is what was given, what fits is never refused, a settler selects its own |
| `DeliveryRun` | 498 k | two models with two attempts each, a stream that breaks, a gate and evaluators that halt, failing requests, a browser that leaves: one response is shown, the outcome told truly, halts justified, every task ends |
| `OpeningPair` | 2.8 M | a Python and a TypeScript call for one wallet that covers one deposit, sixteen misquotes, three configurations, a restart: audited terms only; account, producer and session agree on key, deposit, prices and floor; dispute time and buffer are those quoted as far as a u32 reaches |

CHECK_DEADLOCK is off everywhere because every model may end: the clock reaches
its bound, the stream is over, the calls have returned.

### Violations

Each is one property that a comment or document states and the code does not keep.

* `StreamErrorFrame` / `PaysOnlyForTokens`. `sse.ts` makes a token of the
  `{"error": ...}` frame and the TypeScript session signs for it; `session.ts:5`
  counts output tokens. Python raises.
* `StreamPressure` / `BacksOffUnderPressure`. `_send_commit` resets the token
  count before the batcher is fed the unpaid value, so K only ever grows (with one stream
  on the channel; another's tokens may be counted in between);
  `batching.py:37-39` says it backs off.
* `SettlementFirstZero` / `AcceptedWouldSettle`. `verifier.py:23-29` asks nothing of the
  sequence of a first commitment, and 0 is taken; the program wants it above the new
  account's 0. The comment (`verifier.py:33-36`) has the producer never go past a
  commitment that would fail on chain. What holds is `AcceptedMeetsProgram`.

### Divergences recorded here only

Plain from the code once the model is written; they have no run of their own.

* `programs/tap/src/state/channel.rs:61-62` and
  `docs/docs/concepts/halt-and-bounded-loss.md:46-48`: after `expires_at` close is
  permitted regardless of the dispute window. `close.rs:26` makes a Settling
  account wait for its window.
* `x402/response.py:3`: the ack comes once the open transaction confirms.
  `server.py:310` only sends it, and answers "confirmed"; the comment at
  `server.py:307-309` concedes part of this.
* `pricing.py:26-27`, `halt.py:4`: delivered value never exceeds the cap. The
  gate tests before it counts; what holds is cap plus one token
  (`ExposureBounded`).
* `TAP_Whitepaper.txt:211`: a batch is chosen within the cap. `client.py:81` takes
  `k_max = 16` whatever the cap is; when a batch exceeds it the stream stalls
  until the pause timeout (the precondition of `NoMutualStall`).
* `timing/parameters.py:6`: `total_session_ms` bounds the session. `expires_at_ms`
  is stored and never read.
* `docs/docs/sdk/consumer.md:128-129`: a halt error means the producer fell silent.
  The detector runs when the application asks for the next chunk
  (`session.py:183`), so a slow application trips it.
* `wrap_stream.py:38-43`: the clock starts with the first byte, so a slow model does
  not halt the stream before it; the test at `:58` applies before it too.
* `Pricing.min_deposit_micro`/`max_deposit_micro` are compared with each other and
  with no deposit.
* A producer restarted with another `max_unpaid_micro` or pause timeout applies its
  own; the session keeps the quote's.
* `TAP_Whitepaper.txt:228-231`: a channel runs many sessions. The first response to end
  settles it and takes it from the registry, so that the next request is refused and one
  still streaming can commit no more.
* `docs/docs/concepts/session-lifecycle.md:84-85`: the producer submits the latest commit.
  `settle.py:32-38` reads it once, before its first await; one accepted meanwhile, the
  consumer's final one perhaps, is acknowledged and never presented, and
  `server.py:408-413` logs its amount as the settled one (a cause in `AbandonedForCause`).
* `server.py:416-417`: the settler retries a settle that failed. It looks at Settling
  accounts only, and the entry has left the registry (the other cause).
* `docs/docs/protocol/trust-model.md:68-70`: who sees a stale settlement submits a newer
  commitment in the dispute window. No code of either SDK watches or disputes, and the
  producer's settle task finds the account Settling and fails. What holds is that the
  window is there for whoever does (`LatestCanStillWin`).
* `docs/docs/sdk/typescript.md:15`: the wire format is identical to Python's.
  `openChannelInstruction.ts:99-101` writes duration, dispute time and trailing buffer with
  `setUint32`, which keeps the low 32 bits where Python raises, while header and session keep
  the whole number: account and session then differ in these (`WindowsAsQuoted` excepts it).
* `gemini.py:63-66`: pieces are split "without changing the rendered text". `_split_chunk`
  takes an empty piece for no piece and drops the blank after it, and with it a leading or a
  doubled blank (`ShownIsOneResponse` is blanks aside).
* `docs/docs/architecture.md:128-129`, `producer/channel.py:5-7`: a crash forfeits up to a
  batch and the buffer, and what was persisted is settled. Nothing is persisted: a crash
  forfeits whatever was accepted.
* `server.py:310`: `send_raw` may raise although the node has the transaction; the deposit
  is then escrowed in a channel nobody registered, until close refunds it.
* `test_evaluators.py:22` has `json_schema` halt on `hello`; its warm-up of 32 characters
  (`json_schema.py:50`) lets that pass. Its docstring halts on a character that can stand
  in no valid document; the code looks at the first one only. And a good document whose
  fence is followed by blanks is halted, since the text behind the fence is not stripped
  again (`json_schema.py:54-55`; `HaltIsJustified` excepts it as `BlankAfterFence`).
* `repetition.py:19-20` speaks of the share of the window; overlapping grams are counted,
  and 17 equal characters make up "40 %" of 200.
* `topic_drift.py:29`: the overlap is divided by the length of the output, so that any
  answer long enough drifts.
* A stream the producer's gate ends is terminated by `[DONE]` like a complete one: a
  consumer cannot tell (`OutcomeToldTruly` says only what can be told).
* `runner.py:274`: leaving the session may fail after `complete` was queued, and an
  `error` then follows it.

## 4. Bounds, and why they are enough

* `TapChannel`: `MaxTime` bounds the clock, `Horizon` stops opens early enough that
  every window of the last one still closes; there is room for a second life of a
  PDA. `U64Max = 3` so that amounts meet at every boundary and the trailing buffer
  saturates. Two channels are what sharing (a wallet) takes; windows are compared
  by `<=`, so 0, 1 and 2 ticks give every order.
* `Stream`: `MaxTokens` (4 to 6) exceeds cap, deposit and two full batches, so the gate
  shuts, K reaches `KMax` and the deposit is exhausted. `PauseTimeout = 2` separates
  before, during and at the timeout. Sequences are bounded by the tokens.
* `Settlement`: `SessionsSign` are two commitments of one channel; `OthersSign` adds one for
  each test of the producer or the program that a session never meets. `MaxCrashes` is one
  or two (none for the violation), `MaxTime` works through `RoomToSettle`, which keeps opens
  early enough for the settler to be due. Slack 2 and skew 1 are the smallest that differ.
  Requests are interchangeable in `SettlementRivals` (no property names one and there is no
  fairness), hence the symmetry; runs with liveness use none. All runs have one channel:
  what two share is the wallet, which `TapChannelPair` has, and the settler's pass. The
  theorems are for any number of channels; that a failed close does not hold up the
  next in its pass is exercised by no run.
* `Opening`: `MaxRestarts = 1` is the one between quote and payment. Prices 1 and 2,
  counts 1 to 6 with `U64Max = 5` put a floor above the deposit and above a u64;
  `U32Max = 3 < SafeMax = 4 < U64Max` keep the order of the real limits, and the misquotes
  of 5 (durations, dispute, buffer) and 7 (a price) would wrap to a value the program takes.

* `SharedChannel`: two streams are what sharing takes, and are interchangeable (no
  liveness is checked). A batch of two at price 1 makes `MostUnsigned` 3 tokens, and a cap
  of 4 is the smallest that `NoSharedStall` allows (at 3 the two sides do stall); six
  tokens on the channel are the cap and one for each stream, and use up the deposit. From three streams on a
  batch for each is not enough: with `k_max` 1, one more token of every stream that is
  not waiting slips in at each answer, and three streams stall at a cap of 3. Three
  streams are beyond an exhaustive run of all actions; the proof is for any number.
* `Wire`: `U32 = 3 < SafeInt = 5 < U64 = 8` keep the order of the real limits and leave
  a value between any two. One field at a time is not zero and takes every value at and
  around the limits; fields are independent of one another in every codec, so that a
  second one would add nothing.
* `Delivery`: two models and two attempts give every order of retry and fallback. Of two
  lines one may be read and one be lost; a fence of two ticks is shorter than the
  warm-up of 3, and a piece of 3 characters shorter than a text of 4, which is thus cut.
  `MCDelivery` has TLC check that the endings by which `MayBecomeUsable` judges a prefix
  leave out none of up to four characters that would save it.

## 5. Fairness, and why the code justifies it

* `TapChannel!FairSpec`: time passes; a Settling account that may be closed is closed,
  since the settler polls. Nothing is assumed of Active accounts past their
  expiry: no code closes them.
* `Stream!ProducerFairSpec`: the event loop runs the generator and the settle task,
  the model adapter answers or fails, time passes; nothing of the consumer.
  `FairSpec` adds the consumer's event loop and that httpx, or fetch, gives up on a
  lost POST.
* `Settlement!FairSystemSpec`: weak fairness of time, restart, settler steps, poll and
  each task; strong fairness of `SendClose` and `LandClose`, for RPC nodes and
  cluster may refuse a close often but not for ever, and the settler tries again on
  each pass.
* `Delivery!DeliverySpec`: weak fairness of the producer's requests, the driver and the
  relay: tasks of an event loop that can go on do, and requests are answered or time
  out. Nothing of the browser's leaving, the gate's halting or an exception.
* `Opening`, `SharedChannel` and `Wire` have safety only.

## 6. Proofs

Every theorem is for all values of the constants under the named ASSUMEs: naturals,
offers that are argument records, prices above zero, a floor within the deposit,
finitely many channels and wallets (`AccountsAssumption`); for a demo run, lines of the
alphabet that are not empty (`AdapterAssumption`, `DeliveryAssumption`) and a warm-up
longer than a fence (`EvaluatorAssumption`; 32 characters and 3 in the code).

**TapChannel_proofs.** `IInv` = types, vault backing, settled-within-terms, and
`TermsKept` (a live account has a positive deposit and a floor within it). The last
is what makes it inductive: the payout of an account nobody settled is its floor, and
only open_channel's tests say that it is covered. From it: `Typed`, `VaultBacked`,
`SettledWithin`, `CloseNeverJams`, `OneDoor`, and `LatestWins`, which lemma
`SettleLeavesRoom` reduces to the windows; `NothingCreatedOrLost` (`MoneyConserved`); the action properties `ForwardOnly` and
`SplitFinal`; and `Refinement`, step by step: open is the escrow's deposit, a recording
that raises the payout is its raise, others stutter, close pays out. `MoneyStaysWithParties`
is the step behind it: whatever moves, moves between one vault and the accounts of its two
parties. The sum is a fold over a set; that a change at one element changes it by as much
(`SumsFollow`, `SumChanges`) is shown on the smallest subset where it would not, as in
Delivery_proofs.

**Stream_proofs.** `IInv` relates the accepted amount to the tokens delivered,
received and in transit, and orders the sequence numbers of what is posted and what is
accepted; each is needed since what is in flight when one side moves is accepted
later. From it: `Exposure`, `NoOverpayment`, `HonestAccepted`.
`NoStall` needs a second invariant: unless a commitment is on its way, what the
producer counts as unpaid is what is unread and what the session has not signed for,
and the latter stays below a batch. `Typed` is inductive in three parts: the sequences
and records, the clocks, the flags.

**SharedChannel_proofs.** `ReserveInv`: each stream past the gate holds a place for the one
token it may still deliver, so that what is unpaid beyond the cap is at most a token a
stream. `SignedInv`: commitments on their way and the one accepted have sequences already
given out, amounts within what the session authorises by now, and the same order by
sequence and by amount. From them `SharedExposure`, `OvertakingIsHarmless` and
`SharedTyped`. `SharedChannelNeverStalls` needs more: `CommitReturns` sets the one count of
uncommitted tokens to zero with other streams' tokens on it, so the count bounds nothing by
itself, and a size of K only tells what the next batch will be. `UnsignedInv` therefore
bounds the tokens in no commitment twice, by the number q of sessions that
wait for no answer: none if q = 0; otherwise at most `Slack(q)`, what q - 1 answers may have taken
off the count, plus the count itself; and at most `Slack(q)` plus a batch less one, plus one for each
session that has its token and has
not looked at the count yet. An answer raises q by one, and `SlackGrows` is the arithmetic
of that step; a commitment that was answered or lost is no longer on its way (`PostGone`). `Reaches` says that the largest amount signed is the producer's or on its
way, whichever order the POSTs arrive in: an acceptance can only raise to it, and a refusal
means it is there. `OutputInv` counts the frames in transit, `AuthorisedInv` ties the
amount to the tokens received.

**Wire_proofs.** The invariant says of each leg that the bytes written so far lie where the
layout puts them, each field with the value that belongs to it, and that what was read is
what lay there. From it `WireTyped`, `TermsArriveUnchanged` and `SettlerSelectsItsOwn`. It
is shown field by field, the layouts being short tuples.

**WireFitting_proofs.** `FittingPassesThrough`. `FitInv` adds that consumer, producer and
program have written the same `Message` so far, field by field (`MessageGrows`), and sign,
verify and check the whole of it. Then no writer overflows (`WritersFit`) and each leg's
test passes (`FittingPasses`): the keys read are among those written, the account fits its
size, and `SiblingFound` follows the eight offsets of the Ed25519 instruction to the key,
signature and message that the SDK put there.

**Settlement_proofs.** `SysInv` adds to TapChannel's `IInv`: the process remembers what it
accepted (`MemoryFaithful`), a task presents what was accepted (`PresentedCommitted`), a
channel is opened once (`OpenedOnce`), every account has the terms and key its producer
tests against (`AllAsAgreed`), and the settler's snapshot is closable or gone. From it
`AcceptedIsAcceptable`, since accepted commitments are `Sound`; `NeverTooEarly`,
`SystemTyped`; and `RunsTheProgram`, that the system's behaviours are TapChannel's, with
which its theorems carry over (`SystemImplementsEscrow`, `SystemConservesMoney`). Two more
need `AttendedInv`. `SettlementsHold`: a settle that landed is the first on its account, and
later recordings only raise it, whoever sends them. `AbandonedOnlyForCause`: for an accepted
commitment there is a stream or task that will present it (`Attends`), or the account can no
longer be settled, or there is one of the three `Causes`; each step that ends a task leaves one
of them. The crux (`Tracked`, `NoRevival`, `LandedStays`) is that
a settle which passed preflight is refused later only because the account can no longer
be settled, and that this is for good: a nonce is opened once, so no second life begins.

**Opening_proofs.** `OInv`: a payment is made of the one acceptable quote, which nothing
replaces after that, and which its SDK's encoder let through (`PaidAsQuoted`); the entry is
made of the header (`EntryAsPaid`), the account of the transaction (`AccountAsPaid`).
`AuditedBeforeEscrow` then follows from what the audit
establishes of a quote (`AuditEstablishes`, with `ProductBound` for the products of
price and count). `TermsAgree` and `WindowsHold` are about what the two encodings of one
quote have in common: a field that fits keeps its value and one that does not keeps the low
bits (`Wraps`), the u64s fit since both encoders refuse others, and the u32s fit in Python
(`TermsEncode`). `OpeningTyped` says
that no argument leaves the u64 range. `OpeningRunsTheProgram`, and with it
`OpeningImplementsEscrow` and `OpeningConservesMoney`, has a hypothesis, `Offers = OfferType`: `Offers` is
TapChannel's finite stand-in for all arguments.

**Delivery_proofs.** `DeliveryInv` has seven parts. `TextKept` is the heart: what the browser
was told, what is queued, what is in frames and what waits in the generator are, in this
order and blanks aside, the response; a generator that was closed early leaves a beginning
of it. It holds since a retry is possible only while nothing has come (`AdapterOK`), done
and error are the last frame (`FrameOK`), and the sentinel is the last thing queued
(`QueueOK`). `TokensOK` counts token events; `SessionOK` says a halt was ordered by an
evaluator; `OutcomeOK` says for each await of the driver which outcomes it may have told
and why, which the finally clause and a cancellation must keep. From it
`BrowserSeesOneResponse`, `BrowserToldTheOutcome` and `HaltedForGood`. The last is more than
the run can check: no ending at all, of whatever length, saves a text that `json_schema`
halted on, while `HaltIsJustified` (`HaltsAreJustified`) tries eight. It rests on what
`json_schema` reads: a first character that is not a brace stays the first; a document that
parses ends with its closing brace, behind which nothing but a fence may follow
(`StaysUseless`, `FenceStripped`); and that exactly blanks behind the line of the fence break
this. That pieces keep the text as it is, is false (section 3); the theorems say that blanks are all that is
lost (`SplitKeepsText`, `WordsKeepText`).

What these and `MoneyConserved` speak of are folds, for which the library's induction
theorems would need an operator as a parameter. Here induction is over a set: a set of
numbers that has 0 and the successor of each of its members is all of Nat, or else the
least number it lacks (`LeastNumber`, from the well-foundedness of `<`) would have a
predecessor in it. `SequencesReached` says the same of sequences; a statement is put as
the set of the sequences it holds of. `FoldExists` and `FoldIsEnd` then show FoldLeft to be the
iteration of its step (`Ends`), and each operator gets its equations: empty, and one longer.

**Model-checked only.** All liveness (`SettledIsClosed`, `StreamReleased`, `SessionEnds`,
`SettledIsPaidOut`, `TaskCleansUp`, `RunEnds`), out of the prover's reach under fairness.
Every invariant and action property of a passing run is stated by a theorem. That the
endings `MayBecomeUsable` tries are enough is TLC's (`MCDelivery`, up to four characters).

## 7. Not modelled, and the plan

Not modelled:

* `content_policy`, `repetition_guard`, `topic_drift`: windows, regular expressions and
  scores over real text, with no state and no promise that could fail on small ones.
  What the reading of them showed is in section 3.
* The OpenAI, Anthropic and other adapters, which hand on a client library's iterator.
* The demo's producer set-up, its read-only endpoints and access gate; dashboard,
  documentation site, deployment, key files, program IDs; the cryptography itself.
* Two TypeScript streams on one channel (`SharedChannel` is Python on both sides; the loop
  of the other SDK is in `Stream`).
* The combined open-and-stream POST (`server.py:218-229`) and a retried X-PAYMENT that
  replaces an `ActiveChannel`: neither SDK sends either.

Done, in this order: `TapChannel` with `Escrow` (the money), `Stream` (the session),
`Settlement` (processes and crashes), `Opening` (the handshake); then `SharedChannel`,
`Wire`, and `Delivery` with `GeminiAdapter` and `Evaluators`. What is left:

1. Liveness of an open under httpx's timeouts.
2. The other evaluators against a reference, should they be changed as section 3 suggests.
