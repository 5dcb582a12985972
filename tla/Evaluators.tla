------------------------------ MODULE Evaluators ------------------------------
(***************************************************************************)
(* The evaluators a demo run watches its answer with: json_schema for an   *)
(* object, length_cap, and compose.  TRUE is HALT.                         *)
(*                                                                         *)
(* Characters are of seven kinds: the two braces, the bracket that opens   *)
(* an array, a tick "t", a newline "n", the blank " ", and "x", any other. *)
(* A document is braces around blanks and at least one "x"; braces around  *)
(* blanks alone lack what the schema requires, and an array never comes to *)
(* its end.  A markdown fence is two ticks here, so it is shorter than the *)
(* warm-up, as three are shorter than 32 characters.                       *)
(***************************************************************************)
EXTENDS Integers, Sequences, SequencesExt, FiniteSetsExt

CONSTANTS
    WarmUp,             \* characters before json_schema decides anything
    MaxChars            \* max_chars of the length cap

Blanks == {" ", "n"}
Fence == <<"t", "t">>
Openers == {"{", "["}
Alphabet == Openers \cup {"}", "t", "n", " ", "x"}

ASSUME EvaluatorAssumption ==
    /\ WarmUp \in Nat /\ WarmUp > Len(Fence)
    /\ MaxChars \in Nat \ {0}

Inked(text) == {i \in DOMAIN text : text[i] \notin Blanks}

rstrip(text) == IF Inked(text) = {} THEN <<>>
                ELSE SubSeq(text, 1, Max(Inked(text)))
strip(text) == IF Inked(text) = {} THEN <<>>
               ELSE SubSeq(text, Min(Inked(text)), Max(Inked(text)))

(* The text after the line of an opening fence, without the closing one. *)
strip_markdown_fence(text) ==
    LET newlines == {i \in DOMAIN text : text[i] = "n"}
        body == SubSeq(text, Min(newlines) + 1, Len(text))
    IN  IF ~IsPrefix(Fence, text) THEN text
        ELSE IF newlines = {} THEN <<>>
        ELSE IF IsSuffix(Fence, body)
             THEN rstrip(SubSeq(body, 1, Len(body) - Len(Fence)))
             ELSE body

(* json.loads returns. *)
Parses(text) ==
    LET json == strip(text)
    IN  /\ Len(json) >= 2 /\ json[1] = "{" /\ Last(json) = "}"
        /\ \A i \in 2..(Len(json) - 1) : json[i] \in Blanks \cup {"x"}

(* validator.validate returns. *)
Validates(text) == \E i \in DOMAIN text : text[i] = "x"

(* Variant: without the warm-up. *)
json_schema_at_once(accumulated) ==
    LET text == strip_markdown_fence(strip(accumulated))
    IN  /\ text # <<>>
        /\ \/ text[1] \notin Openers
           \/ Parses(text) /\ ~Validates(text)

json_schema(accumulated) ==
    LET text == strip_markdown_fence(strip(accumulated))
    IN  /\ text # <<>> /\ Len(text) >= WarmUp
        /\ \/ text[1] \notin Openers
           \/ Parses(text) /\ ~Validates(text)

length_cap(accumulated) == Len(accumulated) >= MaxChars

compose(decisions) == TRUE \in decisions

-----------------------------------------------------------------------------
(* The reference: an answer the application can use, and a beginning that  *)
(* may still become one.                                                   *)
Usable(text) ==
    LET json == strip_markdown_fence(strip(text))
    IN  Parses(json) /\ Validates(json)

Endings == { <<>>, <<"}">>, <<"x", "}">>, <<"{", "x", "}">>,
             <<"n", "{", "x", "}">>, <<"t", "n", "{", "x", "}">>,
             <<"t">>, <<"t", "t">> }

MayBecomeUsable(text) == \E rest \in Endings : Usable(text \o rest)

(* A fence whose first line is followed by blanks. *)
BlankAfterFence(text) ==
    LET body == strip_markdown_fence(strip(text))
    IN  body # strip(text) /\ body # <<>> /\ body[1] \in Blanks

=============================================================================
