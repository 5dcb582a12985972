------------------------------- MODULE MCWire -------------------------------
EXTENDS Wire

(* One value at a time is not zero, at and around every limit: a field read *)
(* in another's place shows, and so does one cut short.                     *)
Probes == {1, U32 - 1, U32, SafeInt, SafeInt + 1, U64 - 1, U64}

MCTerms ==
    {[n \in Names |-> IF n = f THEN v ELSE 0] :
        <<f, v>> \in (Names \ ({"discriminator"} \cup Computed)) \X Probes}
      \cup {[n \in Names |-> IF n = f THEN 1 ELSE 0] : f \in Computed}

=============================================================================
