---------------------------- MODULE GeminiAdapter ----------------------------
(***************************************************************************)
(* stream_gemini: the open call with its retries and its fallback model,   *)
(* then one response read line by line, each line's text cut into pieces   *)
(* that are yielded, and billed, one by one.                               *)
(*                                                                         *)
(* A text is a sequence of characters; of these " " matters to the         *)
(* cutting.  Lines without a text (comments, [DONE], JSON that does not    *)
(* parse) are skipped and change nothing.                                  *)
(***************************************************************************)
EXTENDS Integers, Sequences, SequencesExt

CONSTANTS
    Attempts,           \* how many models are tried, the fallback included
    MAX_OPEN_ATTEMPTS,
    MaxChunkChars,      \* max_chunk_chars
    Texts,              \* the texts a line may carry
    MaxLines            \* bound: lines of a response

ASSUME AdapterAssumption ==
    /\ Attempts \in 1..2 /\ MAX_OPEN_ATTEMPTS \in Nat \ {0}
    /\ MaxChunkChars \in Nat /\ MaxLines \in Nat
    /\ \A text \in Texts : Len(text) > 0

VARIABLES
    adapter,            \* the generator: "opening", "streaming", "returned",
                        \* "raised", or "closed" by whoever iterated it
    which, attempt,     \* the model tried, and how often before
    pieces,             \* pieces of the last line, not yet yielded
    answers,            \* responses with status 200 so far
    response,           \* history: the text of the last of them
    lines               \* how many lines of it had one

adapterVars == <<adapter, which, attempt, pieces, answers, response, lines>>

AdapterInit ==
    /\ adapter = "opening" /\ which = 1 /\ attempt = 0
    /\ pieces = <<>> /\ answers = 0 /\ response = <<>> /\ lines = 0

-----------------------------------------------------------------------------
(* text.split(" ") *)
Words(text) ==
    FoldLeft(LAMBDA words, c :
                IF c = " " THEN Append(words, <<>>)
                ELSE [words EXCEPT ![Len(words)] = Append(@, c)],
             << <<>> >>, text)

AddWord(cut, word) ==
    LET prospective == IF cut.current = <<>> THEN word
                       ELSE cut.current \o <<" ">> \o word
    IN  IF Len(prospective) > MaxChunkChars /\ cut.current # <<>>
        THEN [pieces |-> Append(cut.pieces, Append(cut.current, " ")),
              current |-> word]
        ELSE [cut EXCEPT !.current = prospective]

split_chunk(text) ==
    LET cut == FoldLeft(AddWord, [pieces |-> <<>>, current |-> <<>>], Words(text))
    IN  IF Len(text) <= MaxChunkChars THEN <<text>>
        ELSE IF cut.current = <<>> THEN cut.pieces
        ELSE Append(cut.pieces, cut.current)

PiecesOf == [text \in Texts |-> split_chunk(text)]

-----------------------------------------------------------------------------
(* Variant: no raise after the last attempt. *)
NextAttemptOrReturn ==
    \/ /\ attempt + 1 < MAX_OPEN_ATTEMPTS
       /\ attempt' = attempt + 1 /\ UNCHANGED <<adapter, which>>
    \/ /\ attempt + 1 = MAX_OPEN_ATTEMPTS
       /\ IF which < Attempts
          THEN which' = which + 1 /\ attempt' = 0 /\ UNCHANGED adapter
          ELSE adapter' = "returned" /\ UNCHANGED <<which, attempt>>

(* The same model again, the fallback, or raise last_error. *)
NextAttempt ==
    \/ /\ attempt + 1 < MAX_OPEN_ATTEMPTS
       /\ attempt' = attempt + 1 /\ UNCHANGED <<adapter, which>>
    \/ /\ attempt + 1 = MAX_OPEN_ATTEMPTS
       /\ IF which < Attempts
          THEN which' = which + 1 /\ attempt' = 0 /\ UNCHANGED adapter
          ELSE adapter' = "raised" /\ UNCHANGED <<which, attempt>>

(* One of TRANSIENT_STATUSES, before anything was yielded. *)
OpenTransient ==
    /\ adapter = "opening"
    /\ NextAttempt
    /\ UNCHANGED <<pieces, answers, response, lines>>

(* Another status, or no connection. *)
OpenRaises ==
    /\ adapter = "opening"
    /\ adapter' = "raised"
    /\ UNCHANGED <<which, attempt, pieces, answers, response, lines>>

OpenSucceeds ==
    /\ adapter = "opening"
    /\ adapter' = "streaming"
    /\ answers' = answers + 1 /\ response' = <<>> /\ lines' = 0
    /\ which' = 1 /\ attempt' = 0       \* not read again
    /\ UNCHANGED pieces

LineArrives ==
    /\ adapter = "streaming" /\ pieces = <<>> /\ lines < MaxLines
    /\ \E text \in Texts : /\ response' = response \o text
                           /\ pieces' = PiecesOf[text]
    /\ lines' = lines + 1
    /\ UNCHANGED <<adapter, which, attempt, answers>>

LinesEnd ==
    /\ adapter = "streaming" /\ pieces = <<>>
    /\ adapter' = "returned"
    /\ UNCHANGED <<which, attempt, pieces, answers, response, lines>>

(* Variant: a stream that breaks is opened again, like one that never began. *)
LinesBreakRetried ==
    /\ adapter = "streaming" /\ pieces = <<>>
    /\ adapter' = "opening" /\ answers < 2
    /\ UNCHANGED <<which, attempt, pieces, answers, response, lines>>

(* The connection breaks, or 120 seconds pass: no HTTPStatusError. *)
LinesBreak ==
    /\ adapter = "streaming" /\ pieces = <<>>
    /\ adapter' = "raised"
    /\ UNCHANGED <<which, attempt, pieces, answers, response, lines>>

(* yield piece, to whoever iterates. *)
YieldPiece ==
    /\ pieces # <<>>
    /\ pieces' = Tail(pieces)
    /\ UNCHANGED <<adapter, which, attempt, answers, response, lines>>

(* The iterator is dropped where it stands. *)
AdapterClosed ==
    /\ adapter' = IF adapter \in {"opening", "streaming"} THEN "closed" ELSE adapter
    /\ pieces' = <<>>
    /\ UNCHANGED <<which, attempt, answers, response, lines>>

(* What goes on while somebody awaits the next piece. *)
AdapterRuns ==
    \/ OpenTransient \/ OpenRaises \/ OpenSucceeds
    \/ LineArrives \/ LinesEnd \/ LinesBreak

=============================================================================
