------------------------------ MODULE MCDelivery ------------------------------
(* Instances of Delivery for TLC. *)
EXTENDS Delivery

(* A beginning and an end of a document, the beginning of an array, an     *)
(* empty object, prose that is cut in two pieces, the line of a fence, and *)
(* the beginning of one.                                                   *)
MCTexts == { <<"{">>, <<" ", "x", "}">>, <<"[">>, <<"{", " ", "}">>,
             <<"x", " ", "x", "}">>, <<"t", "t", "n">>, <<"t">> }

(* Words with blanks around and between them. *)
MCWords == { <<"x", " ", " ", "x">>, <<" ", "x", "x", "x">>, <<"x">> }

(* No other ending of up to four characters makes anything usable. *)
ShortTexts(n) == UNION {[1..k -> Alphabet] : k \in 0..n}
ASSUME \A text \in ShortTexts(3) :
    (\E rest \in ShortTexts(4) : Usable(text \o rest)) => MayBecomeUsable(text)
=============================================================================
