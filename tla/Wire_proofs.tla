----------------------------- MODULE Wire_proofs -----------------------------
(***************************************************************************)
(* For every 2^32, 2^53 and 2^64 and every set of terms: what is read is   *)
(* what was given, and a settler selects its own Settling channels.        *)
(***************************************************************************)
EXTENDS Wire, SequenceTheorems, TLAPS

Keys == {"channel", "consumer", "producer", "session_key"}
FourBytes == SmallTerms \cup {"tokens_received"}
OneByte == {"bump", "vault_bump", "status"}

WidthOf(n) == IF n \in FourBytes THEN 4
              ELSE IF n \in Keys THEN 32
              ELSE IF n = "signature" THEN 64
              ELSE IF n \in OneByte THEN 1 ELSE 8

OpenNames == {"discriminator", "session_key"} \cup PaymentBigints \cup SmallTerms

Legs == WritingLegs \cup ReadingLegs

(* A layout names fields of the widths their values have everywhere. *)
Regular(layout) ==
    /\ Len(layout) \in Nat \ {0}
    /\ \A i \in 1..Len(layout) :
          layout[i][1] \in Names /\ layout[i][2] = WidthOf(layout[i][1])

LEMMA ModRange ==
    ASSUME NEW v \in Int, NEW m \in Nat \ {0} PROVE v % m \in 0..(m - 1)
OBVIOUS

LEMMA ModIdentity ==
    ASSUME NEW v \in Nat, NEW m \in Nat \ {0}, v < m PROVE v % m = v
OBVIOUS

(* The three open_channel layouts are one. *)
LEMMA OpenLayout ==
    /\ PythonOpenData = OpenChannelArgs /\ encodeOpenChannelData = OpenChannelArgs
    /\ Layout("open") = OpenChannelArgs /\ Layout("opened") = OpenChannelArgs
    /\ Regular(OpenChannelArgs)
    /\ \A i \in 1..Len(OpenChannelArgs) : OpenChannelArgs[i][1] \in OpenNames
    /\ \A n \in OpenNames : \E i \in 1..Len(OpenChannelArgs) : OpenChannelArgs[i][1] = n
<1>1. PythonOpenData = OpenChannelArgs /\ encodeOpenChannelData = OpenChannelArgs
  BY DEF PythonOpenData, encodeOpenChannelData, OpenChannelArgs
<1>2. Layout("open") = OpenChannelArgs /\ Layout("opened") = OpenChannelArgs
  BY <1>1 DEF Layout
<1>3. Len(OpenChannelArgs) = 10
  BY DEF OpenChannelArgs
<1>4. \A i \in 1..10 : OpenChannelArgs[i][1] \in OpenNames \cap Names
  BY DEF OpenChannelArgs, OpenNames, Names, PaymentBigints, SmallTerms
<1>5. \A i \in 1..10 : OpenChannelArgs[i][2] = WidthOf(OpenChannelArgs[i][1])
  BY DEF OpenChannelArgs, WidthOf, FourBytes, SmallTerms, Keys, OneByte
<1>6. \A n \in OpenNames : \E i \in 1..10 : OpenChannelArgs[i][1] = n
  BY DEF OpenChannelArgs, OpenNames, PaymentBigints, SmallTerms
<1>7. QED
  BY <1>1, <1>2, <1>3, <1>4, <1>5, <1>6 DEF Regular

(* A tuple of seven, put together of one, five and one. *)
LEMMA ConcatOneFiveOne ==
    ASSUME NEW a, NEW b, NEW c, NEW d, NEW e, NEW f, NEW g
    PROVE  << a >> \o << b, c, d, e, f >> \o << g >> = <<a,b,c,d,e,f,g>>
<1> DEFINE S == {a, b, c, d, e, f, g}
           p == <<a>>
           q == <<b, c, d, e, f>>
           r == <<g>>
           t == <<a, b, c, d, e, f, g>>
<1>1. p \in Seq(S) /\ q \in Seq(S) /\ r \in Seq(S) /\ t \in Seq(S)
  OBVIOUS
<1>2. Len(p) = 1 /\ Len(q) = 5 /\ Len(r) = 1 /\ Len(t) = 7
  OBVIOUS
<1>3. /\ p[1] = t[1] /\ \A i \in 1..5 : q[i] = t[i+1]
      /\ r[1] = t[7]
  OBVIOUS
<1> HIDE DEF p, q, r, t, S
<1>4. /\ p \o q \in Seq(S) /\ Len(p \o q) = 6
      /\ \A i \in 1..6 : (p \o q)[i] = IF i <= 1 THEN p[i] ELSE q[i-1]
  <2>1. p \o q \in Seq(S) /\ Len(p \o q) = Len(p) + Len(q)
    BY <1>1, ConcatProperties
  <2>2. \A i \in 1..Len(p)+Len(q) :
          (p \o q)[i] = IF i <= Len(p) THEN p[i] ELSE q[i-Len(p)]
    BY <1>1, ConcatProperties
  <2>3. QED
    BY <2>1, <2>2, <1>2
<1>5. /\ (p \o q) \o r \in Seq(S) /\ Len((p \o q) \o r) = 7
      /\ \A i \in 1..7 : ((p \o q) \o r)[i] = IF i <= 6 THEN (p \o q)[i] ELSE r[i-6]
  <2>1. (p \o q) \o r \in Seq(S) /\ Len((p \o q) \o r) = Len(p \o q) + Len(r)
    BY <1>1, <1>4, ConcatProperties
  <2>2. \A i \in 1..Len(p \o q)+Len(r) :
          ((p \o q) \o r)[i] = IF i <= Len(p \o q) THEN (p \o q)[i] ELSE r[i-Len(p \o q)]
    BY <1>1, <1>4, ConcatProperties
  <2>3. QED
    BY <2>1, <2>2, <1>2, <1>4
<1>6. \A i \in 1..7 : ((p \o q) \o r)[i] = t[i]
  BY <1>3, <1>4, <1>5
<1>7. (p \o q) \o r = t
  BY <1>1, <1>2, <1>5, <1>6, SeqEqual
<1>8. QED
  BY <1>7 DEF p, q, r, t

(* So are the settle data and its reading. *)
LEMMA SettleLayout ==
    /\ PythonSettleData = SettleArgs
    /\ Layout("settle") = SettleArgs /\ Layout("settled") = SettleArgs
    /\ Regular(SettleArgs)
    /\ \A i \in 1..Len(SettleArgs) :
          SettleArgs[i][1] \in ReadCommitKeys \cup {"discriminator"}
    /\ \A n \in ReadCommitKeys : \E i \in 1..Len(SettleArgs) : SettleArgs[i][1] = n
<1>1. PythonSettleData = SettleArgs
  BY ConcatOneFiveOne DEF PythonSettleData, encode_commitment_bytes, SettleArgs
<1>2. Layout("settle") = SettleArgs /\ Layout("settled") = SettleArgs
  BY <1>1 DEF Layout
<1>3. Len(SettleArgs) = 7
  BY DEF SettleArgs
<1>4. \A i \in 1..7 : /\ SettleArgs[i][1] \in ReadCommitKeys \cup {"discriminator"}
                      /\ SettleArgs[i][1] \in Names
  BY DEF SettleArgs, ReadCommitKeys, Names
<1>5. \A i \in 1..7 : SettleArgs[i][2] = WidthOf(SettleArgs[i][1])
  BY DEF SettleArgs, WidthOf, FourBytes, SmallTerms, Keys, OneByte
<1>6. \A n \in ReadCommitKeys : \E i \in 1..7 : SettleArgs[i][1] = n
  BY DEF SettleArgs, ReadCommitKeys
<1>7. QED
  BY <1>1, <1>2, <1>3, <1>4, <1>5, <1>6 DEF Regular

(* And the three forms of the bytes that are signed. *)
LEMMA CommitLayout ==
    /\ \A l \in {"sign", "verify", "check"} : Layout(l) = message_bytes
    /\ Regular(message_bytes)
    /\ \A i \in 1..Len(message_bytes) : message_bytes[i][1] \in ReadCommitKeys
<1>1. encode_commitment_bytes = message_bytes /\ encodeCommitmentBytes = message_bytes
  BY DEF encode_commitment_bytes, encodeCommitmentBytes, message_bytes
<1>2. \A l \in {"sign", "verify", "check"} : Layout(l) = message_bytes
  BY <1>1 DEF Layout
<1>3. Len(message_bytes) = 5
  BY DEF message_bytes
<1>4. \A i \in 1..5 : /\ message_bytes[i][1] \in ReadCommitKeys
                      /\ message_bytes[i][1] \in Names
  BY DEF message_bytes, ReadCommitKeys, Names
<1>5. \A i \in 1..5 : message_bytes[i][2] = WidthOf(message_bytes[i][1])
  BY DEF message_bytes, WidthOf, FourBytes, SmallTerms, Keys, OneByte
<1>6. QED
  BY <1>2, <1>3, <1>4, <1>5 DEF Regular

(* And the account and its decoder. *)
LEMMA AccountLayout ==
    /\ Layout("account") = Channel /\ Layout("scan") = Channel
    /\ Len(Channel) = 18
    /\ Regular(Channel)
    /\ \A i \in 1..18 : Channel[i][1] \notin ReadCommitKeys
<1>1. decode_channel = Channel
  BY DEF decode_channel, Channel
<1>2. Layout("account") = Channel /\ Layout("scan") = Channel
  BY <1>1 DEF Layout
<1>3. Len(Channel) = 18
  BY DEF Channel
<1>4. \A i \in 1..18 : Channel[i][1] \in Names /\ Channel[i][1] \notin ReadCommitKeys
  BY DEF Channel, Names, ReadCommitKeys
<1>5. \A i \in 1..18 : Channel[i][2] = WidthOf(Channel[i][1])
  BY DEF Channel, WidthOf, FourBytes, SmallTerms, Keys, OneByte
<1>6. QED
  BY <1>2, <1>3, <1>4, <1>5 DEF Regular

-----------------------------------------------------------------------------
TracedLegs == {"open", "opened", "settle", "settled", "account", "scan"}

InRange(n, x) ==
    /\ x \in Nat
    /\ WidthOf(n) = 4 => x < U32
    /\ WidthOf(n) = 8 => x < U64

Arrived(n, x) ==
    \/ x = Meant(n)
    \/ sdk = "typescript" /\ n \in SmallTerms /\ x = given[n] % U32

(* The value in the buffer under a name. *)
Content(n, x) ==
    IF leg = "open" THEN /\ x = Wrapped(given[n], WidthOf(n))
                         /\ sdk = "python" => x = given[n]
    ELSE IF leg = "account" THEN x = Recorded[n]
    ELSE Arrived(n, x)

Cell == {c \in Nat \X Nat \X Nat : /\ c[2] = 4 => c[1] < U32
                                   /\ c[2] = 8 => c[1] < U64}

Placed(i, x, w) ==
    /\ starts[i] + w <= Len(buffer)
    /\ \A j \in 1..w : buffer[starts[i] + j] = <<x, w, j>>

(* Where field i begins, the one after the last included. *)
Start(i) == IF i <= Len(starts) THEN starts[i] ELSE Len(buffer)

TypeInv ==
    /\ sdk \in {"python", "typescript"}
    /\ given \in Terms
    /\ leg \in Legs \cup Ends
    /\ at \in Nat \ {0} /\ offset \in Nat
    /\ buffer \in Seq(Cell) /\ starts \in Seq(Nat)
    /\ told \in [Names -> Values] /\ held \in [Names -> Values]
    /\ status \in {Active, Settling} /\ scanner \in Nat

(* The buffer of a traced leg: its fields lie end to end, each with a value *)
(* that belongs to its name.                                                *)
BufferInv ==
    leg \in TracedLegs =>
        /\ Len(starts) = IF leg \in WritingLegs THEN at - 1 ELSE Len(Layout(leg))
        /\ Start(1) = 0
        /\ \A i \in 1..Len(starts) :
              /\ Start(i + 1) = starts[i] + Width(leg, i)
              /\ \E x \in Nat : /\ Placed(i, x, Width(leg, i))
                                /\ Content(Name(leg, i), x)
                                /\ InRange(Name(leg, i), x)

PositionInv ==
    /\ leg \in Legs => at <= Len(Layout(leg)) + 1
    /\ leg \in ReadingLegs => offset = Start(at)

KnownInv ==
    /\ \A n \in Names : told[n] \in {Missing, given[n]}
    /\ leg \in {"verify", "settle", "settled", "check"} =>
          \A n \in ReadCommitKeys : told[n] = given[n]
    /\ \A n \in Names : held[n] = Missing \/ (Arrived(n, held[n]) /\ InRange(n, held[n]))
    /\ leg \in {"opened", "settled"} =>
          \A i \in 1..(at - 1) : held[Name(leg, i)] # Missing
    /\ leg \notin {"open", "opened", "refused"} =>
          \A n \in OpenNames \cup Computed \cup {"consumer", "producer"} :
              held[n] # Missing
    /\ leg # "refused" /\ (leg = "check" \/ status = Settling) =>
          \A n \in ReadCommitKeys : held[n] # Missing

WireInv == TypeInv /\ BufferInv /\ PositionInv /\ KnownInv /\ SettlerFindsItsOwn

LEMMA LayoutsRegular == \A l \in Legs : Regular(Layout(l))
BY OpenLayout, SettleLayout, CommitLayout, AccountLayout
   DEF Legs, WritingLegs, ReadingLegs

LEMMA FieldOf ==
    ASSUME leg \in Legs, at \in Nat \ {0}, at <= Len(Layout(leg))
    PROVE  /\ Name(leg, at) \in Names
           /\ Width(leg, at) = WidthOf(Name(leg, at))
           /\ Width(leg, at) \in Nat \ {0}
<1>1. Regular(Layout(leg)) /\ at \in 1..Len(Layout(leg))
  BY LayoutsRegular DEF Regular
<1>2. QED
  BY <1>1 DEF Regular, Name, Width, WidthOf

LEMMA WrappedInRange ==
    ASSUME NEW n, NEW v \in Nat
    PROVE  InRange(n, Wrapped(v, WidthOf(n)))
<1>1. v % U32 \in 0..(U32 - 1) /\ v % U64 \in 0..(U64 - 1)
  BY ModRange, WidthAssumption
<1>2. CASE WidthOf(n) = 4
  BY <1>1, <1>2, WidthAssumption DEF InRange, Wrapped
<1>3. CASE WidthOf(n) = 8
  BY <1>1, <1>3, WidthAssumption DEF InRange, Wrapped
<1>4. CASE WidthOf(n) \notin {4, 8}
  BY <1>4 DEF InRange, Wrapped
<1>5. QED
  BY <1>2, <1>3, <1>4

LEMMA InRangeUnwrapped ==
    ASSUME NEW n, NEW v \in Nat, InRange(n, v)
    PROVE  Wrapped(v, WidthOf(n)) = v
<1>1. WidthOf(n) = 4 => v % U32 = v
  BY ModIdentity, WidthAssumption DEF InRange
<1>2. WidthOf(n) = 8 => v % U64 = v
  BY ModIdentity, WidthAssumption DEF InRange
<1>3. QED
  BY <1>1, <1>2 DEF Wrapped

LEMMA BytesOfValue ==
    ASSUME NEW n, NEW x \in Nat, InRange(n, x)
    PROVE  /\ Bytes(x, WidthOf(n)) \in Seq(Cell)
           /\ Len(Bytes(x, WidthOf(n))) = WidthOf(n)
           /\ \A j \in 1..WidthOf(n) :
                 Bytes(x, WidthOf(n))[j] = <<x, WidthOf(n), j>>
<1>1. WidthOf(n) \in Nat
  BY DEF WidthOf
<1>2. \A j \in 1..WidthOf(n) : <<x, WidthOf(n), j>> \in Cell
  BY <1>1 DEF InRange, Cell
<1>3. QED
  BY <1>1, <1>2 DEF Bytes

LEMMA GivenNat ==
    ASSUME given \in Terms
    PROVE  /\ \A n \in Names : given[n] \in Nat
           /\ given["discriminator"] < U64
           /\ \A n \in Computed : given[n] < U64
BY TermsOfNames DEF Names

(* The decoder's offset and the writer's meet. *)
LEMMA TakeWhatIsPlaced ==
    ASSUME TypeInv, NEW i \in 1..Len(starts), NEW x \in Nat, NEW w \in Nat \ {0},
           Placed(i, x, w)
    PROVE  Take(buffer, starts[i], w) = x
<1>1. starts[i] \in Nat /\ 1 \in 1..w
  BY ElementOfSeq DEF TypeInv
<1>2. buffer[starts[i] + 1][1] = x
  BY <1>1 DEF Placed
<1>3. QED
  BY <1>1, <1>2 DEF Take, Placed

(* What a writer takes from its source is a number; the producer's is what *)
(* the consumer gave, and the account's fits its field.                    *)
LEMMA SourceValue ==
    ASSUME WireInv, leg \in WritingLegs, at <= Len(Layout(leg)),
           NEW n, n = Name(leg, at), NEW v, v = Source(leg)[n]
    PROVE  /\ v \in Nat
           /\ leg \in {"open", "sign", "settle"} => v = given[n]
           /\ leg = "account" => v = Recorded[n] /\ InRange(n, v)
<1> USE DEF WireInv
<1>1. n \in Names /\ at \in 1..Len(Layout(leg))
  BY FieldOf DEF TypeInv, Legs
<1>2. CASE leg \in {"open", "sign"}
  BY <1>1, <1>2, GivenNat DEF Source, TypeInv
<1>3. CASE leg = "verify"
  <2>1. n \in ReadCommitKeys
    BY <1>1, <1>3, CommitLayout DEF Name
  <2>2. n # "discriminator"
    BY <2>1 DEF ReadCommitKeys
  <2>3. QED
    BY <1>1, <1>3, <2>1, <2>2, GivenNat DEF Source, TypeInv, KnownInv
<1>4. CASE leg = "settle"
  <2>1. n \in ReadCommitKeys \cup {"discriminator"}
    BY <1>1, <1>4, SettleLayout DEF Name
  <2>2. v = given[n]
    BY <1>1, <1>4, <2>1 DEF Source, TypeInv, KnownInv
  <2>3. QED
    BY <1>1, <1>4, <2>2, GivenNat DEF TypeInv
<1>5. CASE leg = "check"
  <2>1. n \in ReadCommitKeys
    BY <1>1, <1>5, CommitLayout DEF Name
  <2>2. v = held[n] /\ held[n] # Missing
    BY <1>5, <2>1 DEF Source, KnownInv
  <2>3. QED
    BY <1>1, <1>5, <2>2 DEF KnownInv, InRange
<1>6. CASE leg = "account"
  <2>1. n \in Names /\ n \notin ReadCommitKeys /\ n \in {Channel[i][1] : i \in 1..18}
    BY <1>1, <1>6, AccountLayout DEF Name
  <2>2. v = Recorded[n]
    BY <1>6 DEF Source
  <2>3. CASE n = "last_sequence"
    <3>1. v = IF status = Settling THEN held["sequence"] ELSE 0
      BY <2>1, <2>2, <2>3 DEF Recorded
    <3>2. status = Settling => held["sequence"] # Missing
      BY <1>6 DEF KnownInv, ReadCommitKeys
    <3>3. status = Settling => InRange("sequence", held["sequence"])
      BY <3>2 DEF KnownInv, Names
    <3>4. QED
      BY <1>6, <2>2, <2>3, <3>1, <3>3, WidthAssumption
         DEF InRange, WidthOf, FourBytes, SmallTerms, Keys, OneByte
  <2>4. CASE n = "last_cumulative_paid"
    <3>1. v = IF status = Settling THEN held["cumulative_paid"] ELSE 0
      BY <2>1, <2>2, <2>4 DEF Recorded
    <3>2. status = Settling => held["cumulative_paid"] # Missing
      BY <1>6 DEF KnownInv, ReadCommitKeys
    <3>3. status = Settling => InRange("cumulative_paid", held["cumulative_paid"])
      BY <3>2 DEF KnownInv, Names
    <3>4. QED
      BY <1>6, <2>2, <2>4, <3>1, <3>3, WidthAssumption
         DEF InRange, WidthOf, FourBytes, SmallTerms, Keys, OneByte
  <2>5. CASE n = "status"
    BY <1>6, <2>1, <2>2, <2>5
       DEF Recorded, TypeInv, Active, Settling, InRange, WidthOf, FourBytes,
           SmallTerms, Keys, OneByte
  <2>6. CASE n = "settled_at"
    <3>1. v = IF status = Settling THEN held["settled_at"] ELSE 0
      BY <2>1, <2>2, <2>6 DEF Recorded
    <3>2. held["settled_at"] # Missing /\ "settled_at" \in Names
      BY <1>6 DEF KnownInv, Computed, Names
    <3>3. InRange("settled_at", held["settled_at"])
      BY <3>2 DEF KnownInv
    <3>4. QED
      BY <1>6, <2>1, <2>2, <2>6, <3>1, <3>3, WidthAssumption
         DEF InRange, WidthOf, FourBytes, SmallTerms, Keys, OneByte
  <2>7. CASE n \notin {"last_sequence", "last_cumulative_paid", "settled_at", "status"}
    <3>1. v = held[n]
      BY <2>1, <2>2, <2>7 DEF Recorded
    <3>2. n \in OpenNames \cup Computed \cup {"consumer", "producer"}
      BY <2>1, <2>7 DEF Channel, OpenNames, Computed, PaymentBigints, SmallTerms
    <3>3. held[n] # Missing
      BY <1>6, <3>2 DEF KnownInv
    <3>4. QED
      BY <1>6, <2>1, <2>2, <3>1, <3>3 DEF KnownInv, InRange
  <2>8. QED
    BY <2>3, <2>4, <2>5, <2>6, <2>7
<1>7. QED
  BY <1>2, <1>3, <1>4, <1>5, <1>6 DEF WritingLegs

(* Writing on keeps every field that is written, and adds one. *)
LEMMA WriteStep == ASSUME WireInv, WriteField PROVE WireInv'
<1>n. PICK n : n = Name(leg, at)
  OBVIOUS
<1>w. PICK w : w = Width(leg, at)
  OBVIOUS
<1>v. PICK v : v = Source(leg)[n]
  OBVIOUS
<1>x. PICK x : x = Wrapped(v, w)
  OBVIOUS
<1>k. PICK k : k = Len(starts)
  OBVIOUS
<1> USE DEF WireInv
<1>1. leg \in Legs /\ at <= Len(Layout(leg)) /\ leg \in WritingLegs
  BY DEF WriteField, Legs
<1>2. n \in Names /\ w = WidthOf(n) /\ w \in Nat \ {0}
  BY <1>1, <1>n, <1>w, FieldOf DEF TypeInv
<1>3. /\ v \in Nat
      /\ leg \in {"open", "sign", "settle"} => v = given[n]
      /\ leg = "account" => v = Recorded[n] /\ InRange(n, v)
  BY <1>1, <1>n, <1>v, SourceValue
<1>4. x \in Nat /\ InRange(n, x)
  BY <1>2, <1>3, <1>x, WrappedInRange DEF InRange
<1>5. /\ Bytes(x, w) \in Seq(Cell) /\ Len(Bytes(x, w)) = w
      /\ \A j \in 1..w : Bytes(x, w)[j] = <<x, w, j>>
  BY <1>2, <1>4, BytesOfValue
<1>6. /\ buffer' = buffer \o Bytes(x, w) /\ starts' = Append(starts, Len(buffer))
      /\ at' = at + 1
      /\ sdk' = sdk /\ given' = given /\ leg' = leg /\ offset' = offset
      /\ told' = told /\ held' = held /\ signed' = signed
      /\ status' = status /\ scanner' = scanner
  BY <1>n, <1>w, <1>v, <1>x DEF WriteField
<1>7. Encoder(leg) = "python" => x = v
  BY <1>n, <1>w, <1>v, <1>x DEF WriteField, Fits
<1>8. /\ buffer' \in Seq(Cell) /\ Len(buffer') = Len(buffer) + w
      /\ \A j \in 1..Len(buffer) : buffer'[j] = buffer[j]
      /\ \A j \in 1..w : buffer'[Len(buffer) + j] = <<x, w, j>>
  <2>1. buffer \in Seq(Cell) /\ Len(buffer) \in Nat
    BY LenProperties DEF TypeInv
  <2>2. /\ buffer \o Bytes(x, w) \in Seq(Cell)
        /\ Len(buffer \o Bytes(x, w)) = Len(buffer) + Len(Bytes(x, w))
        /\ \A i \in 1..Len(buffer) + Len(Bytes(x, w)) :
              (buffer \o Bytes(x, w))[i] =
                  IF i <= Len(buffer) THEN buffer[i]
                  ELSE Bytes(x, w)[i - Len(buffer)]
    BY <1>5, <2>1, ConcatProperties
  <2>3. QED
    BY <1>2, <1>5, <1>6, <2>1, <2>2
<1>9. /\ starts' \in Seq(Nat) /\ Len(starts') = k + 1 /\ k \in Nat
      /\ \A i \in 1..k : starts'[i] = starts[i] /\ starts[i] \in Nat
      /\ starts'[k + 1] = Len(buffer) /\ Len(buffer) \in Nat
  BY <1>6, <1>k DEF TypeInv
<1>10. TypeInv'
  BY <1>6, <1>8, <1>9 DEF TypeInv
<1>11. PositionInv'
  <2>1. Layout(leg)' = Layout(leg) /\ leg \notin ReadingLegs
    BY <1>1, <1>6 DEF Layout, WritingLegs, ReadingLegs
  <2>2. QED
    BY <1>1, <1>6, <2>1 DEF TypeInv, PositionInv
<1>12. KnownInv'
  <2>1. \A m, y : Arrived(m, y)' <=> Arrived(m, y)
    BY <1>6 DEF Arrived, Meant
  <2>2. leg \notin {"opened", "settled"}
    BY <1>1 DEF WritingLegs
  <2>3. QED
    BY <1>6, <2>1, <2>2 DEF KnownInv, InRange
<1>13. SettlerFindsItsOwn'
  BY <1>6 DEF SettlerFindsItsOwn
<1>14. BufferInv'
  <2> SUFFICES ASSUME leg \in TracedLegs PROVE BufferInv'
    BY <1>6 DEF BufferInv
  <2>1. Layout(leg)' = Layout(leg)
    BY <1>6 DEF Layout
  <2>2. k = at - 1 /\ at \in Nat
    BY <1>1, <1>k DEF BufferInv, TypeInv
  <2>3. \A m, y : Content(m, y)' <=> Content(m, y)
    BY <1>6 DEF Content, Arrived, Meant, Recorded
  <2>4. Start(1)' = 0
    <3>1. CASE k = 0
      BY <1>9, <1>k, <3>1 DEF BufferInv, Start
    <3>2. CASE k > 0
      BY <1>9, <1>k, <3>2 DEF BufferInv, Start
    <3>3. QED
      BY <1>9, <3>1, <3>2
  <2>5. ASSUME NEW i \in 1..(k + 1)
        PROVE  /\ Start(i + 1)' = starts'[i] + Width(leg, i)
               /\ \E y \in Nat : /\ Placed(i, y, Width(leg, i))'
                                 /\ Content(Name(leg, i), y)
                                 /\ InRange(Name(leg, i), y)
    <3>1. CASE i <= k
      <4>1. i \in 1..k
        BY <1>9, <3>1
      <4>2. Start(i + 1)' = Start(i + 1)
        BY <1>9, <1>k, <4>1 DEF Start
      <4>3. starts'[i] = starts[i] /\ Start(i + 1) = starts[i] + Width(leg, i)
        BY <1>9, <1>k, <4>1 DEF BufferInv
      <4>4. PICK y \in Nat : /\ Placed(i, y, Width(leg, i))
                             /\ Content(Name(leg, i), y)
                             /\ InRange(Name(leg, i), y)
        BY <1>k, <4>1 DEF BufferInv
      <4>5. Width(leg, i) \in Nat
        <5>1. i \in 1..Len(Layout(leg)) /\ Regular(Layout(leg))
          BY <1>1, <2>2, <4>1, LayoutsRegular
        <5>2. QED
          BY <5>1 DEF Regular, Width, WidthOf
      <4>6. starts[i] \in Nat
        BY <1>9, <4>1
      <4>7. Placed(i, y, Width(leg, i))'
        <5>1. Width(leg, i)' = Width(leg, i)
          BY <1>6 DEF Width, Layout
        <5>2. PICK m \in Nat : m = Width(leg, i)
          BY <4>5
        <5>3. PICK z \in Nat : z = starts[i]
          BY <4>6
        <5>4. z + m <= Len(buffer) /\ \A j \in 1..m : buffer[z + j] = <<y, m, j>>
          BY <4>4, <5>2, <5>3 DEF Placed
        <5>5. Len(buffer') \in Nat /\ Len(buffer) <= Len(buffer')
          BY <1>2, <1>8, <1>9
        <5>6. z + m <= Len(buffer') /\ \A j \in 1..m : buffer'[z + j] = <<y, m, j>>
          <6>1. /\ Len(buffer) \in Nat
                /\ \A j \in 1..Len(buffer) : buffer'[j] = buffer[j]
            BY <1>8, <1>9
          <6>2. z + m <= Len(buffer)
            BY <5>4
          <6>3. \A j \in 1..m : buffer[z + j] = <<y, m, j>>
            BY <5>4
          <6>4. \A j \in 1..m : z + j \in 1..Len(buffer)
            BY <6>1, <6>2
          <6>5. \A j \in 1..m : buffer'[z + j] = buffer[z + j]
            BY <6>1, <6>4
          <6>6. \A j \in 1..m : buffer'[z + j] = <<y, m, j>>
            BY <6>3, <6>5, Zenon
          <6>7. z + m <= Len(buffer')
            BY <5>5, <6>1, <6>2
          <6>8. QED
            BY <6>6, <6>7
        <5>7. QED
          BY <4>3, <5>1, <5>2, <5>3, <5>6 DEF Placed
      <4>8. QED
        BY <4>2, <4>3, <4>4, <4>7
    <3>2. CASE i = k + 1
      <4>1. i = at
        BY <2>2, <3>2
      <4>2. Start(i + 1)' = starts'[i] + w
        BY <1>8, <1>9, <3>2 DEF Start
      <4>3. Placed(i, x, w)'
        <5>1. starts'[i] = Len(buffer) /\ Len(buffer') = Len(buffer) + w
          BY <1>8, <1>9, <3>2
        <5>2. starts'[i] + w <= Len(buffer')
          BY <1>2, <1>9, <5>1
        <5>3. \A j \in 1..w : buffer'[starts'[i] + j] = <<x, w, j>>
          BY <1>8, <5>1
        <5>4. QED
          BY <5>2, <5>3 DEF Placed
      <4>4. Content(n, x)
        <5>1. CASE leg = "open"
          BY <1>2, <1>3, <1>7, <1>x, <5>1 DEF Content, Encoder
        <5>2. CASE leg = "settle"
          <6>1. x = given[n]
            BY <1>3, <1>7, <5>2 DEF Encoder
          <6>2. n \in ReadCommitKeys \cup {"discriminator"}
            BY <1>1, <1>n, <5>2, SettleLayout DEF Name, TypeInv
          <6>3. QED
            BY <5>2, <6>1, <6>2 DEF Content, Arrived, Meant, ReadCommitKeys
        <5>3. CASE leg = "account"
          BY <1>2, <1>3, <1>x, <5>3, InRangeUnwrapped DEF Content
        <5>4. QED
          BY <1>1, <5>1, <5>2, <5>3 DEF TracedLegs, WritingLegs
      <4>5. Placed(i, x, Width(leg, i))'
        BY <1>6, <1>w, <4>1, <4>3 DEF Width, Layout
      <4>6. QED
        BY <1>4, <1>n, <1>w, <4>1, <4>2, <4>4, <4>5
    <3>3. QED
      BY <1>9, <3>1, <3>2
  <2>6. \A i : Width(leg, i)' = Width(leg, i) /\ Name(leg, i)' = Name(leg, i)
    BY <1>6, <2>1 DEF Width, Name
  <2>7. Len(starts') = IF leg' \in WritingLegs THEN at' - 1 ELSE Len(Layout(leg)')
    BY <1>1, <1>6, <1>9, <2>2
  <2>8. ASSUME NEW i \in 1..Len(starts')
        PROVE  /\ Start(i + 1)' = starts'[i] + Width(leg, i)'
               /\ \E y \in Nat : /\ Placed(i, y, Width(leg, i))'
                                 /\ Content(Name(leg, i), y)'
                                 /\ InRange(Name(leg, i), y)'
    <3>1. /\ Start(i + 1)' = starts'[i] + Width(leg, i)
          /\ \E y \in Nat : /\ Placed(i, y, Width(leg, i))'
                            /\ Content(Name(leg, i), y)
                            /\ InRange(Name(leg, i), y)
      BY <1>9, <2>5
    <3>2. PICK y \in Nat : /\ Placed(i, y, Width(leg, i))'
                           /\ Content(Name(leg, i), y)
                           /\ InRange(Name(leg, i), y)
      BY <3>1
    <3>3. Content(Name(leg, i), y)'
      BY <1>6, <2>1, <3>2 DEF Content, Arrived, Meant, Recorded, Name
    <3>4. InRange(Name(leg, i), y)'
      BY <1>6, <2>6, <3>2 DEF InRange
    <3>5. QED
      BY <2>6, <3>1, <3>2, <3>3, <3>4
  <2>9. QED
    BY <1>6, <2>4, <2>7, <2>8 DEF BufferInv
<1>15. QED
  BY <1>10, <1>11, <1>12, <1>13, <1>14

(* A field of a complete buffer, where the reader stands. *)
LEMMA ReadValue ==
    ASSUME WireInv, leg \in ReadingLegs, at <= Len(Layout(leg))
    PROVE  \E x \in Nat : /\ Take(buffer, offset, Width(leg, at)) = x
                          /\ Arrived(Name(leg, at), x)
                          /\ InRange(Name(leg, at), x)
                          /\ Start(at + 1) = offset + Width(leg, at)
<1> USE DEF WireInv
<1>1. leg \in Legs /\ leg \in TracedLegs /\ leg \notin {"open", "account"}
  BY DEF Legs, ReadingLegs, TracedLegs
<1>2. at \in 1..Len(Layout(leg)) /\ Len(starts) = Len(Layout(leg))
  <2>1. leg \notin WritingLegs
    BY DEF ReadingLegs, WritingLegs
  <2>2. Len(Layout(leg)) \in Nat
    BY <1>1, LayoutsRegular DEF Regular
  <2>3. QED
    BY <1>1, <2>1, <2>2 DEF BufferInv, TypeInv
<1>3. at \in 1..Len(starts)
  BY <1>2
<1>4. PICK x \in Nat : /\ Placed(at, x, Width(leg, at))
                       /\ Content(Name(leg, at), x)
                       /\ InRange(Name(leg, at), x)
  BY <1>1, <1>3 DEF BufferInv
<1>5. Start(at + 1) = starts[at] + Width(leg, at)
  BY <1>1, <1>3 DEF BufferInv
<1>6. offset = starts[at]
  BY <1>3 DEF PositionInv, Start
<1>7. Width(leg, at) \in Nat \ {0}
  BY <1>1, <1>2, FieldOf DEF TypeInv
<1>8. Take(buffer, offset, Width(leg, at)) = x
  BY <1>3, <1>4, <1>6, <1>7, TakeWhatIsPlaced
<1>9. QED
  BY <1>1, <1>4, <1>5, <1>6, <1>8 DEF Content

LEMMA ReadStep == ASSUME WireInv, ReadField PROVE WireInv'
<1> USE DEF WireInv
<1>1. leg \in ReadingLegs /\ leg \in Legs /\ at <= Len(Layout(leg))
  BY DEF ReadField, Legs
<1>2. PICK x \in Nat : /\ Take(buffer, offset, Width(leg, at)) = x
                       /\ Arrived(Name(leg, at), x)
                       /\ InRange(Name(leg, at), x)
                       /\ Start(at + 1) = offset + Width(leg, at)
  BY <1>1, ReadValue
<1>3. PICK n \in Names : n = Name(leg, at)
  BY <1>1, FieldOf DEF TypeInv
<1>4. Width(leg, at) \in Nat
  BY <1>1, FieldOf DEF TypeInv
<1>5. /\ held' = [held EXCEPT ![n] = x]
      /\ offset' = offset + Width(leg, at) /\ at' = at + 1
      /\ sdk' = sdk /\ given' = given /\ leg' = leg
      /\ buffer' = buffer /\ starts' = starts /\ told' = told
      /\ signed' = signed /\ status' = status /\ scanner' = scanner
  BY <1>2, <1>3 DEF ReadField
<1>6. TypeInv'
  BY <1>4, <1>5 DEF TypeInv, Values
<1>7. Layout(leg)' = Layout(leg) /\ \A m, y : Arrived(m, y)' <=> Arrived(m, y)
  BY <1>5 DEF Layout, Arrived, Meant
<1>8. leg \notin WritingLegs /\ leg \notin {"open", "account"}
  BY <1>1 DEF ReadingLegs, WritingLegs
<1>9. BufferInv'
  <2>1. \A i : Start(i)' = Start(i) /\ Width(leg, i)' = Width(leg, i)
               /\ Name(leg, i)' = Name(leg, i)
    BY <1>5, <1>7 DEF Start, Width, Name
  <2>2. \A m, y : Content(m, y)' <=> Content(m, y)
    BY <1>5, <1>7, <1>8 DEF Content
  <2>3. \A i, y : Placed(i, y, Width(leg, i))' <=> Placed(i, y, Width(leg, i))
    BY <1>5, <2>1 DEF Placed
  <2>4. ASSUME leg \in TracedLegs, NEW i \in 1..Len(starts)
        PROVE  /\ Start(i + 1)' = starts[i] + Width(leg, i)'
               /\ \E y \in Nat : /\ Placed(i, y, Width(leg, i))'
                                 /\ Content(Name(leg, i), y)'
                                 /\ InRange(Name(leg, i), y)'
    <3>1. PICK y \in Nat : /\ Placed(i, y, Width(leg, i))
                           /\ Content(Name(leg, i), y)
                           /\ InRange(Name(leg, i), y)
      BY <2>4 DEF BufferInv
    <3>2. Content(Name(leg, i), y)'
      BY <1>5, <1>7, <1>8, <3>1 DEF Content, Name
    <3>3. InRange(Name(leg, i), y)'
      BY <2>1, <3>1 DEF InRange
    <3>4. Placed(i, y, Width(leg, i))'
      BY <2>3, <3>1
    <3>5. Start(i + 1)' = starts[i] + Width(leg, i)'
      BY <2>1, <2>4 DEF BufferInv
    <3>6. QED
      BY <3>2, <3>3, <3>4, <3>5
  <2>5. leg \in TracedLegs => Start(1)' = 0 /\ Len(starts) = Len(Layout(leg))
    BY <1>8, <2>1 DEF BufferInv
  <2>6. QED
    BY <1>5, <1>7, <1>8, <2>4, <2>5 DEF BufferInv
<1>10. PositionInv'
  <2>1. Start(at)' = Start(at + 1)
    BY <1>5 DEF Start
  <2>2. offset' = Start(at)'
    BY <1>2, <1>5, <2>1
  <2>3. Len(Layout(leg)) \in Nat
    BY <1>1, LayoutsRegular DEF Regular
  <2>4. QED
    BY <1>1, <1>5, <1>7, <2>2, <2>3 DEF PositionInv, TypeInv
<1>11. KnownInv'
  <2>1. \A m \in Names : held'[m] = IF m = n THEN x ELSE held[m]
    BY <1>5 DEF TypeInv
  <2>2. \A m \in Names : held'[m] = Missing \/ (Arrived(m, held'[m]) /\ InRange(m, held'[m]))
    BY <1>2, <1>3, <2>1 DEF KnownInv
  <2>3. \A m \in Names : held[m] # Missing => held'[m] # Missing
    BY <2>1 DEF Missing
  <2>4. ASSUME leg \in {"opened", "settled"}, NEW i \in 1..(at' - 1)
        PROVE  held'[Name(leg, i)'] # Missing
    <3>1. Name(leg, i)' = Name(leg, i)
      BY <1>5, <1>7 DEF Name
    <3>2. CASE i = at
      BY <1>3, <2>1, <3>1, <3>2 DEF Missing
    <3>3. CASE i \in 1..(at - 1)
      <4>1. held[Name(leg, i)] # Missing
        BY <2>4, <3>3 DEF KnownInv
      <4>2. i \in 1..Len(Layout(leg))
        BY <1>1, <3>3, LayoutsRegular DEF Regular, TypeInv
      <4>3. Name(leg, i) \in Names
        BY <1>1, <4>2, LayoutsRegular DEF Regular, Name
      <4>4. QED
        BY <2>3, <3>1, <4>1, <4>3
    <3>4. QED
      BY <1>5, <3>2, <3>3 DEF TypeInv
  <2>5. OpenNames \cup Computed \cup {"consumer", "producer"} \subseteq Names
        /\ ReadCommitKeys \subseteq Names
    BY DEF OpenNames, Computed, Names, ReadCommitKeys, PaymentBigints, SmallTerms
  <2>6. \A m \in Names : told'[m] \in {Missing, given'[m]}
    BY <1>5 DEF KnownInv
  <2>7. leg \in {"verify", "settle", "settled", "check"} =>
           \A m \in ReadCommitKeys : told'[m] = given'[m]
    BY <1>5 DEF KnownInv
  <2>8. leg \notin {"open", "opened", "refused"} =>
           \A m \in OpenNames \cup Computed \cup {"consumer", "producer"} :
              held'[m] # Missing
    BY <2>3, <2>5 DEF KnownInv
  <2>9. leg # "refused" /\ (leg = "check" \/ status = Settling) =>
           \A m \in ReadCommitKeys : held'[m] # Missing
    BY <2>3, <2>5 DEF KnownInv
  <2>10. \A m \in Names : held'[m] = Missing
                          \/ (Arrived(m, held[m])' /\ InRange(m, held[m])')
    <3> SUFFICES ASSUME NEW m \in Names, held'[m] # Missing
        PROVE  Arrived(m, held[m])' /\ InRange(m, held[m])'
      OBVIOUS
    <3>1. Arrived(m, held'[m]) /\ InRange(m, held'[m])
      BY <2>2
    <3>2. QED
      BY <1>5, <3>1 DEF Arrived, InRange, Meant
  <2>11. QED
    BY <1>5, <2>4, <2>6, <2>7, <2>8, <2>9, <2>10 DEF KnownInv
<1>12. SettlerFindsItsOwn'
  BY <1>5 DEF SettlerFindsItsOwn
<1>13. QED
  BY <1>6, <1>9, <1>10, <1>11, <1>12

LEMMA InitInv == Init => WireInv
<1> SUFFICES ASSUME Init PROVE WireInv
  OBVIOUS
<1> USE DEF Init
<1>1. given \in [Names -> Nat] /\ given["producer"] \in Nat
  BY TermsOfNames DEF Names
<1>2. TypeInv
  BY <1>1 DEF TypeInv, Legs, WritingLegs, Values, Missing
<1>3. leg = "open" /\ leg \in WritingLegs /\ leg \notin ReadingLegs
  BY DEF WritingLegs, ReadingLegs
<1>4. BufferInv
  BY <1>3 DEF BufferInv, Start
<1>5. Len(Layout(leg)) \in Nat \ {0}
  BY <1>3, LayoutsRegular DEF Regular, Legs
<1>6. PositionInv
  BY <1>3, <1>5 DEF PositionInv
<1>7. KnownInv
  BY DEF KnownInv, Active, Settling
<1>8. SettlerFindsItsOwn
  BY DEF SettlerFindsItsOwn
<1>9. QED
  BY <1>2, <1>4, <1>6, <1>7, <1>8 DEF WireInv

(* A leg begins with an empty buffer, or at the front of a full one. *)
LEMMA FreshWriting ==
    ASSUME NEW l \in WritingLegs, StartWriting(l), sdk' = sdk
    PROVE  BufferInv' /\ PositionInv'
<1>1. /\ leg' = l /\ at' = 1 /\ buffer' = <<>> /\ starts' = <<>> /\ offset' = 0
      /\ l \in Legs /\ l \notin ReadingLegs
  BY DEF StartWriting, Legs, WritingLegs, ReadingLegs
<1>2. Layout(leg)' = Layout(l)
  BY <1>1 DEF Layout
<1>3. Len(Layout(l)) \in Nat
  BY <1>1, LayoutsRegular DEF Regular
<1>4. BufferInv'
  BY <1>1 DEF BufferInv, Start
<1>5. PositionInv'
  BY <1>1, <1>2, <1>3 DEF PositionInv
<1>6. QED
  BY <1>4, <1>5

LEMMA FreshReading ==
    ASSUME NEW l \in ReadingLegs, StartReading(l), sdk' = sdk, WireInv,
           leg \in TracedLegs \cap WritingLegs,
           Layout(l) = Layout(leg), at > Len(Layout(leg))
    PROVE  /\ PositionInv'
           /\ Start(1)' = 0 /\ Len(starts') = Len(Layout(leg)')
           /\ \A i \in 1..Len(starts') :
                 /\ Start(i + 1)' = starts'[i] + Width(leg, i)'
                 /\ \E x \in Nat : /\ Placed(i, x, Width(leg, i))'
                                   /\ Content(Name(leg, i), x)
                                   /\ InRange(Name(leg, i), x)
                                   /\ Name(leg, i)' = Name(leg, i)
                                   /\ i \in 1..Len(Layout(leg))
<1> USE DEF WireInv
<1>1. /\ leg' = l /\ at' = 1 /\ offset' = 0 /\ buffer' = buffer /\ starts' = starts
      /\ l \in Legs /\ leg \in Legs
  BY DEF StartReading, Legs
<1>2. Layout(leg)' = Layout(l)
  BY <1>1 DEF Layout
<1>3. Len(Layout(leg)) \in Nat
  BY <1>1, LayoutsRegular DEF Regular
<1>4. Len(starts) = at - 1 /\ at <= Len(Layout(leg)) + 1
  BY <1>1 DEF BufferInv, PositionInv
<1>5. Len(starts) = Len(Layout(leg))
  BY <1>3, <1>4 DEF TypeInv
<1>6. Start(1)' = 0
  BY <1>1 DEF BufferInv, Start
<1>7. PositionInv'
  <2>1. Start(at)' = 0
    BY <1>1, <1>6 DEF Start
  <2>2. QED
    BY <1>1, <1>2, <1>3, <2>1 DEF PositionInv
<1>8. ASSUME NEW i \in 1..Len(starts')
      PROVE  /\ Start(i + 1)' = starts'[i] + Width(leg, i)'
             /\ \E x \in Nat : /\ Placed(i, x, Width(leg, i))'
                               /\ Content(Name(leg, i), x)
                               /\ InRange(Name(leg, i), x)
                               /\ Name(leg, i)' = Name(leg, i)
                               /\ i \in 1..Len(Layout(leg))
  <2>1. i \in 1..Len(starts) /\ i \in 1..Len(Layout(leg))
    BY <1>1, <1>5
  <2>2. PICK x \in Nat : /\ Placed(i, x, Width(leg, i))
                         /\ Content(Name(leg, i), x)
                         /\ InRange(Name(leg, i), x)
    BY <2>1 DEF BufferInv
  <2>3. Width(leg, i)' = Width(leg, i) /\ Name(leg, i)' = Name(leg, i)
    BY <1>2 DEF Width, Name
  <2>4. Placed(i, x, Width(leg, i))'
    BY <1>1, <2>2, <2>3 DEF Placed
  <2>5. Start(i + 1)' = starts'[i] + Width(leg, i)'
    BY <1>1, <2>1, <2>3 DEF BufferInv, Start
  <2>6. QED
    BY <2>1, <2>2, <2>3, <2>4, <2>5
<1>9. QED
  BY <1>1, <1>2, <1>5, <1>6, <1>7, <1>8

LEMMA ArrivedPreserved ==
    ASSUME sdk' = sdk, given' = given, NEW m, NEW y
    PROVE  (Arrived(m, y) <=> Arrived(m, y)') /\ (InRange(m, y) <=> InRange(m, y)')
BY DEF Arrived, Meant, InRange

LEMMA SendPaymentStep == ASSUME WireInv, SendPayment PROVE WireInv'
<1> USE DEF WireInv
<1>1. /\ leg = "open" /\ at > Len(Layout(leg)) /\ Safe(PaymentBigints)
      /\ StartReading("opened") /\ Tell(ReadPaymentKeys)
      /\ sdk' = sdk /\ given' = given /\ held' = held /\ signed' = signed
      /\ status' = status /\ scanner' = scanner
  BY DEF SendPayment, Complete, Passes
<1>2. /\ leg' = "opened" /\ at' = 1 /\ offset' = 0 /\ buffer' = buffer
      /\ starts' = starts
  BY <1>1 DEF StartReading
<1>3. /\ "opened" \in ReadingLegs /\ leg \in TracedLegs \cap WritingLegs
      /\ leg' \in Legs /\ leg' \notin WritingLegs /\ leg' \in TracedLegs
  BY <1>1, <1>2 DEF ReadingLegs, TracedLegs, WritingLegs, Legs
<1>4. Layout("opened") = Layout(leg)
  BY <1>1, OpenLayout
<1>5. /\ PositionInv'
      /\ Start(1)' = 0 /\ Len(starts') = Len(Layout(leg)')
      /\ \A i \in 1..Len(starts') :
            /\ Start(i + 1)' = starts'[i] + Width(leg, i)'
            /\ \E x \in Nat : /\ Placed(i, x, Width(leg, i))'
                              /\ Content(Name(leg, i), x)
                              /\ InRange(Name(leg, i), x)
                              /\ Name(leg, i)' = Name(leg, i)
                              /\ i \in 1..Len(Layout(leg))
  BY <1>1, <1>3, <1>4, FreshReading
<1>6. ASSUME NEW n \in OpenNames, NEW x \in Nat, Content(n, x), InRange(n, x)
      PROVE  Arrived(n, x)
  <2>1. x = Wrapped(given[n], WidthOf(n)) /\ (sdk = "python" => x = given[n])
    BY <1>1, <1>6 DEF Content
  <2>2. n \in Names /\ given[n] \in Nat
    BY GivenNat DEF TypeInv, OpenNames, Names, PaymentBigints, SmallTerms
  <2>3. Meant(n) = given[n]
    BY DEF Meant, OpenNames, PaymentBigints, SmallTerms
  <2>4. CASE sdk = "python"
    BY <2>1, <2>3, <2>4 DEF Arrived
  <2>5. CASE sdk = "typescript"
    <3>1. CASE n \in SmallTerms
      BY <2>1, <2>5, <3>1 DEF Arrived, Wrapped, WidthOf, FourBytes
    <3>2. CASE n \in PaymentBigints
      <4>1. given[n] < U64
        BY <1>1, <2>2, <2>5, <3>2, WidthAssumption DEF Safe
      <4>2. WidthOf(n) = 8
        BY <3>2 DEF WidthOf, FourBytes, SmallTerms, Keys, OneByte, PaymentBigints
      <4>3. InRange(n, given[n])
        BY <2>2, <4>1, <4>2 DEF InRange
      <4>4. QED
        BY <2>1, <2>2, <2>3, <4>3, InRangeUnwrapped DEF Arrived
    <3>3. CASE n = "discriminator"
      <4>1. given[n] < U64
        BY <3>3, GivenNat DEF TypeInv
      <4>2. WidthOf(n) = 8
        BY <3>3 DEF WidthOf, FourBytes, SmallTerms, Keys, OneByte
      <4>3. InRange(n, given[n])
        BY <2>2, <4>1, <4>2 DEF InRange
      <4>4. QED
        BY <2>1, <2>2, <2>3, <4>3, InRangeUnwrapped DEF Arrived
    <3>4. CASE n = "session_key"
      BY <2>1, <2>3, <3>4
         DEF Arrived, Wrapped, WidthOf, FourBytes, SmallTerms, Keys
    <3>5. QED
      BY <3>1, <3>2, <3>3, <3>4 DEF OpenNames
  <2>6. QED
    BY <2>4, <2>5 DEF TypeInv
<1>7. BufferInv'
  <2>1. ASSUME NEW i \in 1..Len(starts')
        PROVE  \E x \in Nat : /\ Placed(i, x, Width(leg, i))'
                              /\ Content(Name(leg, i), x)'
                              /\ InRange(Name(leg, i), x)'
    <3>1. PICK x \in Nat : /\ Placed(i, x, Width(leg, i))'
                           /\ Content(Name(leg, i), x)
                           /\ InRange(Name(leg, i), x)
                           /\ Name(leg, i)' = Name(leg, i)
                           /\ i \in 1..Len(Layout(leg))
      BY <1>5
    <3>2. Name(leg, i) \in OpenNames
      BY <1>1, <3>1, OpenLayout DEF Name
    <3>3. PICK m \in OpenNames : m = Name(leg, i)
      BY <3>2
    <3>4. Arrived(m, x)' /\ InRange(m, x)'
      BY <1>1, <1>6, <3>1, <3>3, ArrivedPreserved
    <3>5. Content(m, x)'
      BY <1>2, <3>4 DEF Content
    <3>6. Name(leg, i)' = m
      BY <3>1, <3>3
    <3>7. Content(Name(leg, i), x)' /\ InRange(Name(leg, i), x)'
      BY <3>4, <3>5, <3>6 DEF Content, Arrived, Meant, Recorded, InRange
    <3>8. QED
      BY <3>1, <3>7
  <2>2. QED
    BY <1>3, <1>5, <2>1 DEF BufferInv
<1>8. TypeInv' /\ KnownInv'
  <2>1. told' \in [Names -> Values] /\ \A n \in Names : told'[n] \in {Missing, given[n]}
    BY <1>1, GivenNat DEF Tell, TypeInv, KnownInv, Values
  <2>2. TypeInv'
    BY <1>1, <1>2, <1>3, <2>1 DEF TypeInv
  <2>3. \A n \in Names : held'[n] = Missing \/ (Arrived(n, held'[n]) /\ InRange(n, held'[n]))
    BY <1>1 DEF KnownInv
  <2>4. \A n \in Names : held'[n] = Missing \/ (Arrived(n, held[n])' /\ InRange(n, held[n])')
    BY <1>1, <2>3 DEF Arrived, Meant, InRange
  <2>5. KnownInv'
    BY <1>1, <1>2, <2>1, <2>4 DEF KnownInv
  <2>6. QED
    BY <2>2, <2>5
<1>9. SettlerFindsItsOwn'
  BY <1>2 DEF SettlerFindsItsOwn
<1>10. QED
  BY <1>5, <1>7, <1>8, <1>9

LEMMA RefuseStep == ASSUME WireInv, Refuse PROVE WireInv'
<1> USE DEF WireInv, Refuse
<1>1. TypeInv' /\ BufferInv' /\ PositionInv'
  BY DEF TypeInv, BufferInv, PositionInv, TracedLegs, Legs, WritingLegs,
         ReadingLegs, Ends
<1>2. \A n \in Names : held'[n] = Missing \/ (Arrived(n, held[n])' /\ InRange(n, held[n])')
  BY DEF KnownInv, Arrived, Meant, InRange
<1>3. KnownInv'
  BY <1>2 DEF KnownInv
<1>4. QED
  BY <1>1, <1>3 DEF SettlerFindsItsOwn

(* Until the program has settled the account is Active. *)
UnsettledInv ==
    leg \in {"open", "opened", "sign", "verify", "settle", "settled", "check"} =>
        status = Active

LEMMA ProgramOpensStep == ASSUME WireInv, UnsettledInv, ProgramOpens PROVE WireInv'
<1> DEFINE Bound == {"consumer", "producer"} \cup Computed
<1> USE DEF WireInv
<1>1. /\ leg = "opened" /\ at > Len(Layout(leg)) /\ StartWriting("account")
      /\ held' = [n \in Names |-> IF n \in Bound THEN given[n] ELSE held[n]]
      /\ sdk' = sdk /\ given' = given /\ told' = told /\ signed' = signed
      /\ status' = status /\ scanner' = scanner
  BY DEF ProgramOpens, Complete
<1>2. leg' = "account" /\ at' = 1 /\ offset' = 0 /\ buffer' = <<>> /\ starts' = <<>>
  BY <1>1 DEF StartWriting
<1>3. BufferInv' /\ PositionInv'
  BY <1>1, FreshWriting DEF WritingLegs
<1>4. \A n \in Bound : n \in Names /\ given[n] \in Nat /\ held'[n] = given[n]
  BY <1>1, GivenNat DEF TypeInv, Computed, Names
<1>5. TypeInv'
  <2>1. held' \in [Names -> Values]
    BY <1>1, <1>4 DEF TypeInv, Values
  <2>2. QED
    BY <1>1, <1>2, <2>1 DEF TypeInv, Legs, WritingLegs
<1>6. \A n \in Bound : Arrived(n, given[n]) /\ InRange(n, given[n])
  <2>1. \A n \in Bound : Meant(n) = given[n]
    BY DEF Meant, Computed
  <2>2. \A n \in Bound : WidthOf(n) # 4 /\ (n \notin Computed => WidthOf(n) = 32)
    BY DEF WidthOf, FourBytes, SmallTerms, Keys, OneByte, Computed
  <2>3. \A n \in Computed : given[n] < U64
    BY GivenNat DEF TypeInv
  <2>4. QED
    BY <1>4, <2>1, <2>2, <2>3 DEF Arrived, InRange
<1>7. ASSUME NEW n \in OpenNames \cup Bound PROVE held'[n] # Missing
  <2>1. CASE n \in Bound
    BY <1>4, <2>1 DEF Missing
  <2>2. CASE n \in OpenNames \ Bound
    <3>1. PICK i \in 1..Len(OpenChannelArgs) : OpenChannelArgs[i][1] = n
      BY <2>2, OpenLayout
    <3>2. Layout(leg) = OpenChannelArgs /\ Len(OpenChannelArgs) \in Nat
      BY <1>1, OpenLayout DEF Regular
    <3>3. i \in 1..(at - 1) /\ Name(leg, i) = n
      BY <1>1, <3>1, <3>2 DEF TypeInv, Name
    <3>4. held[n] # Missing
      BY <1>1, <3>3 DEF KnownInv
    <3>5. n \in Names
      BY <2>2 DEF OpenNames, Names, PaymentBigints, SmallTerms
    <3>6. QED
      BY <1>1, <2>2, <3>4, <3>5
  <2>3. QED
    BY <2>1, <2>2
<1>8. \A n \in Names : held'[n] = Missing \/ (Arrived(n, held[n])' /\ InRange(n, held[n])')
  <2>1. \A n \in Names :
           held'[n] = Missing \/ (Arrived(n, held'[n]) /\ InRange(n, held'[n]))
    BY <1>1, <1>4, <1>6 DEF KnownInv
  <2>2. QED
    BY <1>1, <2>1 DEF Arrived, Meant, InRange
<1>9. KnownInv'
  <2>1. status = Active
    BY <1>1 DEF UnsettledInv
  <2>2. QED
    BY <1>1, <1>2, <1>7, <1>8, <2>1 DEF KnownInv, Active, Settling
<1>10. QED
  BY <1>1, <1>2, <1>3, <1>5, <1>9 DEF SettlerFindsItsOwn

LEMMA StartSessionStep == ASSUME WireInv, StartSession PROVE WireInv'
<1> USE DEF WireInv
<1>1. /\ leg = "account" /\ status = Active /\ StartWriting("sign")
      /\ sdk' = sdk /\ given' = given /\ told' = told /\ held' = held
      /\ signed' = signed /\ status' = status /\ scanner' = scanner
  BY DEF StartSession, Complete
<1>2. leg' = "sign" /\ at' = 1 /\ offset' = 0 /\ buffer' = <<>> /\ starts' = <<>>
  BY <1>1 DEF StartWriting
<1>3. BufferInv' /\ PositionInv'
  BY <1>1, FreshWriting DEF WritingLegs
<1>4. TypeInv'
  BY <1>1, <1>2 DEF TypeInv, Legs, WritingLegs
<1>5. \A n \in Names : held'[n] = Missing \/ (Arrived(n, held[n])' /\ InRange(n, held[n])')
  BY <1>1 DEF KnownInv, Arrived, Meant, InRange
<1>6. KnownInv'
  BY <1>1, <1>2, <1>5 DEF KnownInv, Active, Settling
<1>7. QED
  BY <1>1, <1>2, <1>3, <1>4, <1>6 DEF SettlerFindsItsOwn

LEMMA SendCommitStep == ASSUME WireInv, SendCommit PROVE WireInv'
<1> USE DEF WireInv
<1>1. /\ leg = "sign" /\ StartWriting("verify") /\ Tell(ReadCommitKeys)
      /\ sdk' = sdk /\ given' = given /\ held' = held
      /\ status' = status /\ scanner' = scanner
  BY DEF SendCommit, Complete
<1>2. leg' = "verify" /\ at' = 1 /\ offset' = 0 /\ buffer' = <<>> /\ starts' = <<>>
  BY <1>1 DEF StartWriting
<1>3. BufferInv' /\ PositionInv'
  BY <1>1, FreshWriting DEF WritingLegs
<1>4. told' \in [Names -> Values] /\ \A n \in Names : told'[n] \in {Missing, given[n]}
  BY <1>1, GivenNat DEF Tell, TypeInv, KnownInv, Values
<1>5. \A n \in ReadCommitKeys : told'[n] = given[n]
  BY <1>1 DEF Tell, ReadCommitKeys, Names
<1>6. TypeInv'
  BY <1>1, <1>2, <1>4 DEF TypeInv, Legs, WritingLegs
<1>7. \A n \in Names : held'[n] = Missing \/ (Arrived(n, held[n])' /\ InRange(n, held[n])')
  BY <1>1 DEF KnownInv, Arrived, Meant, InRange
<1>8. KnownInv'
  BY <1>1, <1>2, <1>4, <1>5, <1>7 DEF KnownInv
<1>9. QED
  BY <1>1, <1>2, <1>3, <1>6, <1>8 DEF SettlerFindsItsOwn

LEMMA CommitVerifiedStep == ASSUME WireInv, CommitVerified PROVE WireInv'
<1> USE DEF WireInv
<1>1. /\ leg = "verify" /\ StartWriting("settle")
      /\ sdk' = sdk /\ given' = given /\ told' = told /\ held' = held
      /\ signed' = signed /\ status' = status /\ scanner' = scanner
  BY DEF CommitVerified, Complete
<1>2. leg' = "settle" /\ at' = 1 /\ offset' = 0 /\ buffer' = <<>> /\ starts' = <<>>
  BY <1>1 DEF StartWriting
<1>3. BufferInv' /\ PositionInv'
  BY <1>1, FreshWriting DEF WritingLegs
<1>4. TypeInv'
  BY <1>1, <1>2 DEF TypeInv, Legs, WritingLegs
<1>5. \A n \in Names : held'[n] = Missing \/ (Arrived(n, held[n])' /\ InRange(n, held[n])')
  BY <1>1 DEF KnownInv, Arrived, Meant, InRange
<1>6. KnownInv'
  BY <1>1, <1>2, <1>5 DEF KnownInv
<1>7. QED
  BY <1>1, <1>2, <1>3, <1>4, <1>6 DEF SettlerFindsItsOwn

LEMMA SubmitSettleStep == ASSUME WireInv, SubmitSettle PROVE WireInv'
<1> USE DEF WireInv
<1>1. /\ leg = "settle" /\ at > Len(Layout(leg)) /\ StartReading("settled")
      /\ sdk' = sdk /\ given' = given /\ told' = told /\ held' = held
      /\ signed' = signed /\ status' = status /\ scanner' = scanner
  BY DEF SubmitSettle, Complete
<1>2. /\ leg' = "settled" /\ at' = 1 /\ offset' = 0 /\ buffer' = buffer
      /\ starts' = starts
  BY <1>1 DEF StartReading
<1>3. /\ "settled" \in ReadingLegs /\ leg \in TracedLegs \cap WritingLegs
      /\ leg' \in Legs /\ leg' \notin WritingLegs /\ leg' \in TracedLegs
  BY <1>1, <1>2 DEF ReadingLegs, TracedLegs, WritingLegs, Legs
<1>4. Layout("settled") = Layout(leg)
  BY <1>1, SettleLayout
<1>5. /\ PositionInv'
      /\ Start(1)' = 0 /\ Len(starts') = Len(Layout(leg)')
      /\ \A i \in 1..Len(starts') :
            /\ Start(i + 1)' = starts'[i] + Width(leg, i)'
            /\ \E x \in Nat : /\ Placed(i, x, Width(leg, i))'
                              /\ Content(Name(leg, i), x)
                              /\ InRange(Name(leg, i), x)
                              /\ Name(leg, i)' = Name(leg, i)
                              /\ i \in 1..Len(Layout(leg))
  BY <1>1, <1>3, <1>4, FreshReading
<1>6. ASSUME NEW i \in 1..Len(starts')
      PROVE  \E x \in Nat : /\ Placed(i, x, Width(leg, i))'
                            /\ Content(Name(leg, i), x)'
                            /\ InRange(Name(leg, i), x)'
  <2>1. PICK x \in Nat : /\ Placed(i, x, Width(leg, i))'
                         /\ Content(Name(leg, i), x)
                         /\ InRange(Name(leg, i), x)
                         /\ Name(leg, i)' = Name(leg, i)
    BY <1>5
  <2>2. Arrived(Name(leg, i), x)
    BY <1>1, <2>1 DEF Content
  <2>3. Content(Name(leg, i), x)' /\ InRange(Name(leg, i), x)'
    BY <1>1, <1>2, <2>1, <2>2 DEF Content, Arrived, Meant, InRange
  <2>4. QED
    BY <2>1, <2>3
<1>7. BufferInv'
  BY <1>3, <1>5, <1>6 DEF BufferInv
<1>8. TypeInv'
  BY <1>1, <1>2, <1>3 DEF TypeInv
<1>9. \A n \in Names : held'[n] = Missing \/ (Arrived(n, held[n])' /\ InRange(n, held[n])')
  BY <1>1 DEF KnownInv, Arrived, Meant, InRange
<1>10. KnownInv'
  BY <1>1, <1>2, <1>9 DEF KnownInv
<1>11. QED
  BY <1>1, <1>2, <1>5, <1>7, <1>8, <1>10 DEF SettlerFindsItsOwn

LEMMA ProgramReadsSettleStep ==
    ASSUME WireInv, ProgramReadsSettle PROVE WireInv'
<1> USE DEF WireInv
<1>1. /\ leg = "settled" /\ at > Len(Layout(leg)) /\ StartWriting("check")
      /\ sdk' = sdk /\ given' = given /\ told' = told /\ held' = held
      /\ signed' = signed /\ status' = status /\ scanner' = scanner
  BY DEF ProgramReadsSettle, Complete
<1>2. leg' = "check" /\ at' = 1 /\ offset' = 0 /\ buffer' = <<>> /\ starts' = <<>>
  BY <1>1 DEF StartWriting
<1>3. BufferInv' /\ PositionInv'
  BY <1>1, FreshWriting DEF WritingLegs
<1>4. TypeInv'
  BY <1>1, <1>2 DEF TypeInv, Legs, WritingLegs
<1>5. \A n \in Names : held'[n] = Missing \/ (Arrived(n, held[n])' /\ InRange(n, held[n])')
  BY <1>1 DEF KnownInv, Arrived, Meant, InRange
<1>6. ASSUME NEW n \in ReadCommitKeys PROVE held[n] # Missing
  <2>1. PICK i \in 1..Len(SettleArgs) : SettleArgs[i][1] = n
    BY SettleLayout
  <2>2. Layout(leg) = SettleArgs /\ Len(SettleArgs) \in Nat
    BY <1>1, SettleLayout DEF Regular
  <2>3. i \in 1..(at - 1) /\ Name(leg, i) = n
    BY <1>1, <2>1, <2>2 DEF TypeInv, Name
  <2>4. QED
    BY <1>1, <2>3 DEF KnownInv
<1>7. KnownInv'
  BY <1>1, <1>2, <1>5, <1>6 DEF KnownInv
<1>8. QED
  BY <1>1, <1>2, <1>3, <1>4, <1>7 DEF SettlerFindsItsOwn

LEMMA ProgramSettlesStep == ASSUME WireInv, ProgramSettles PROVE WireInv'
<1> USE DEF WireInv
<1>1. /\ leg = "check" /\ status' = Settling /\ StartWriting("account")
      /\ sdk' = sdk /\ given' = given /\ told' = told /\ held' = held
      /\ signed' = signed /\ scanner' = scanner
  BY DEF ProgramSettles, Complete
<1>2. leg' = "account" /\ at' = 1 /\ offset' = 0 /\ buffer' = <<>> /\ starts' = <<>>
  BY <1>1 DEF StartWriting
<1>3. BufferInv' /\ PositionInv'
  BY <1>1, FreshWriting DEF WritingLegs
<1>4. TypeInv'
  BY <1>1, <1>2 DEF TypeInv, Legs, WritingLegs
<1>5. \A n \in Names : held'[n] = Missing \/ (Arrived(n, held[n])' /\ InRange(n, held[n])')
  BY <1>1 DEF KnownInv, Arrived, Meant, InRange
<1>6. KnownInv'
  BY <1>1, <1>2, <1>5 DEF KnownInv
<1>7. QED
  BY <1>1, <1>2, <1>3, <1>4, <1>6 DEF SettlerFindsItsOwn

(* Where a complete account's fields lie. *)
LEMMA AccountPlaces ==
    ASSUME WireInv, Complete("account")
    PROVE  /\ leg = "account" /\ Layout(leg) = Channel /\ Len(Channel) = 18
           /\ Len(starts) = 18 /\ Len(buffer) = SIZE
           /\ starts[6] = PRODUCER_OFFSET /\ starts[18] = STATUS_OFFSET
<1> USE DEF WireInv
<1>1. leg = "account" /\ Layout(leg) = Channel /\ Len(Channel) = 18 /\ at = 19
  <2>1. leg = "account" /\ at > Len(Layout(leg))
    BY DEF Complete
  <2>2. Layout(leg) = Channel /\ Len(Channel) = 18
    BY <2>1, AccountLayout, Zenon
  <2>3. at <= Len(Layout(leg)) + 1 /\ at \in Nat
    BY <2>1 DEF PositionInv, TypeInv, Legs, WritingLegs
  <2>4. at > 18 /\ at <= 19 /\ at \in Nat
    <3>1. Len(Layout(leg)) = 18
      BY <2>2, Zenon
    <3>2. PICK m : m = Len(Layout(leg))
      OBVIOUS
    <3>3. at > m /\ at <= m + 1 /\ m = 18
      BY <2>1, <2>3, <3>1, <3>2
    <3>4. QED
      BY <2>3, <3>3
  <2>5. at = 19
    BY <2>4
  <2>6. QED
    BY <2>1, <2>2, <2>5, Zenon
<1>2. Len(starts) = 18 /\ Start(1) = 0
  BY <1>1 DEF BufferInv, TracedLegs, WritingLegs
<1>3. \A i \in 1..18 : /\ Start(i + 1) = starts[i] + Channel[i][2]
                        /\ starts[i] = Start(i)
  <2>1. \A i \in 1..18 : Start(i + 1) = starts[i] + Width(leg, i)
    BY <1>1, <1>2 DEF BufferInv, TracedLegs
  <2>2. \A i \in 1..18 : Width(leg, i) = Channel[i][2]
    BY <1>1 DEF Width
  <2>3. \A i \in 1..18 : starts[i] = Start(i)
    BY <1>2 DEF Start
  <2>4. QED
    BY <2>1, <2>2, <2>3
<1>4. \A i \in 1..18 : Start(i + 1) = Start(i) + Channel[i][2]
  BY <1>3
<1>5. /\ Channel[1][2] = 8 /\ Channel[2][2] = 1 /\ Channel[3][2] = 1
      /\ Channel[4][2] = 8 /\ Channel[5][2] = 32 /\ Channel[6] = <<"producer", 32>>
      /\ Channel[7][2] = 32 /\ Channel[8][2] = 8 /\ Channel[9][2] = 8
  BY DEF Channel
<1>6. /\ Channel[10][2] = 8 /\ Channel[11][2] = 8 /\ Channel[12][2] = 8
      /\ Channel[13][2] = 8 /\ Channel[14][2] = 8 /\ Channel[15][2] = 8
      /\ Channel[16][2] = 8 /\ Channel[17][2] = 4 /\ Channel[18] = <<"status", 1>>
  BY DEF Channel
<1>7. Start(5) = 18
  <2>1. Start(2) = 8
    BY <1>2, <1>4, <1>5
  <2>2. Start(3) = 9
    BY <2>1, <1>4, <1>5
  <2>3. Start(4) = 10
    BY <2>2, <1>4, <1>5
  <2>4. QED
    BY <2>3, <1>4, <1>5
<1>8. Start(6) = 50
  BY <1>4, <1>5, <1>7
<1>9. Start(9) = 122
  <2>1. Start(7) = 82
    BY <1>4, <1>5, <1>8
  <2>2. Start(8) = 114
    BY <2>1, <1>4, <1>5
  <2>3. QED
    BY <2>2, <1>4, <1>5
<1>10. Start(13) = 154
  <2>1. Start(10) = 130
    BY <1>4, <1>5, <1>9
  <2>2. Start(11) = 138
    BY <2>1, <1>4, <1>6
  <2>3. Start(12) = 146
    BY <2>2, <1>4, <1>6
  <2>4. QED
    BY <2>3, <1>4, <1>6
<1>11. Start(18) = 190
  <2>1. Start(14) = 162
    BY <1>4, <1>6, <1>10
  <2>2. Start(15) = 170
    BY <2>1, <1>4, <1>6
  <2>3. Start(16) = 178
    BY <2>2, <1>4, <1>6
  <2>4. Start(17) = 186
    BY <2>3, <1>4, <1>6
  <2>5. QED
    BY <2>4, <1>4, <1>6
<1>12. starts[6] = PRODUCER_OFFSET /\ starts[18] = STATUS_OFFSET
  BY <1>3, <1>8, <1>11 DEF PRODUCER_OFFSET, STATUS_OFFSET
<1>13. Len(buffer) = SIZE
  <2>1. Channel[18][2] = 1
    BY <1>6
  <2>2. Start(19) = 191
    BY <1>4, <1>11, <2>1
  <2>3. Start(19) = Len(buffer)
    BY <1>2 DEF Start
  <2>4. SIZE = 191
    BY DEF SIZE
  <2>5. QED
    BY <2>2, <2>3, <2>4
<1>14. QED
  BY <1>1, <1>2, <1>12, <1>13

(* The settler's memcmp offsets are those at which Borsh puts the two      *)
(* fields.                                                                 *)
LEMMA AccountOffsets ==
    ASSUME WireInv, Complete("account")
    PROVE  /\ Take(buffer, PRODUCER_OFFSET, 32) = given["producer"]
           /\ Take(buffer, STATUS_OFFSET, 1) = status
<1> USE DEF WireInv
<1>1. /\ leg = "account" /\ Layout(leg) = Channel /\ Len(Channel) = 18
      /\ Len(starts) = 18
      /\ starts[6] = PRODUCER_OFFSET /\ starts[18] = STATUS_OFFSET
  BY AccountPlaces
<1>2. Channel[6] = <<"producer", 32>> /\ Channel[18] = <<"status", 1>>
  BY DEF Channel
<1>3. Take(buffer, starts[6], 32) = given["producer"]
  <2>1. Width(leg, 6) = 32 /\ Name(leg, 6) = "producer"
    BY <1>1, <1>2 DEF Width, Name
  <2>2. PICK x \in Nat : Placed(6, x, 32) /\ Content("producer", x)
    BY <1>1, <2>1 DEF BufferInv, TracedLegs
  <2>3. x = held["producer"]
    BY <1>1, <2>2 DEF Content, Recorded, Names
  <2>4. held["producer"] = given["producer"]
    BY <1>1 DEF KnownInv, Arrived, Meant, SmallTerms, Names
  <2>5. QED
    BY <1>1, <2>2, <2>3, <2>4, TakeWhatIsPlaced
<1>4. Take(buffer, starts[18], 1) = status
  <2>1. Width(leg, 18) = 1 /\ Name(leg, 18) = "status"
    BY <1>1, <1>2 DEF Width, Name
  <2>2. PICK x \in Nat : Placed(18, x, 1) /\ Content("status", x)
    BY <1>1, <2>1 DEF BufferInv, TracedLegs
  <2>3. x = status
    BY <1>1, <2>2 DEF Content, Recorded, Names
  <2>4. QED
    BY <1>1, <2>2, <2>3, TakeWhatIsPlaced
<1>5. QED
  BY <1>1, <1>3, <1>4

LEMMA PollSelectsStep == ASSUME WireInv, PollSelects PROVE WireInv'
<1> USE DEF WireInv
<1>1. /\ Complete("account") /\ leg = "account" /\ at > Len(Layout(leg))
      /\ StartReading("scan")
      /\ sdk' = sdk /\ given' = given /\ told' = told /\ held' = held
      /\ signed' = signed /\ status' = status
      /\ scanner' \in {given["producer"], given["producer"] + 1}
      /\ Selected(scanner')
  BY DEF PollSelects, Complete
<1>2. /\ leg' = "scan" /\ at' = 1 /\ offset' = 0 /\ buffer' = buffer
      /\ starts' = starts
  BY <1>1 DEF StartReading
<1>3. /\ "scan" \in ReadingLegs /\ leg \in TracedLegs \cap WritingLegs
      /\ leg' \in Legs /\ leg' \notin WritingLegs /\ leg' \in TracedLegs
  BY <1>1, <1>2 DEF ReadingLegs, TracedLegs, WritingLegs, Legs
<1>4. Layout("scan") = Layout(leg)
  BY <1>1, AccountLayout
<1>5. /\ PositionInv'
      /\ Start(1)' = 0 /\ Len(starts') = Len(Layout(leg)')
      /\ \A i \in 1..Len(starts') :
            /\ Start(i + 1)' = starts'[i] + Width(leg, i)'
            /\ \E x \in Nat : /\ Placed(i, x, Width(leg, i))'
                              /\ Content(Name(leg, i), x)
                              /\ InRange(Name(leg, i), x)
                              /\ Name(leg, i)' = Name(leg, i)
                              /\ i \in 1..Len(Layout(leg))
  BY <1>1, <1>3, <1>4, FreshReading
<1>6. status = Settling /\ scanner' = given["producer"]
  BY <1>1, AccountOffsets DEF Selected
<1>7. given["producer"] \in Nat
  BY GivenNat DEF TypeInv, Names
<1>8. ASSUME NEW n, n \in {Channel[i][1] : i \in 1..18} PROVE Arrived(n, Recorded[n])
  <2>1. n \in Names /\ n \notin ReadCommitKeys
    BY <1>8, AccountLayout DEF Regular
  <2>2. \A m \in ReadCommitKeys : held[m] = given[m]
    <3>1. \A m \in ReadCommitKeys : m \in Names /\ Arrived(m, held[m])
      BY <1>1, <1>6 DEF KnownInv, ReadCommitKeys, Names
    <3>2. \A m \in ReadCommitKeys : Meant(m) = given[m] /\ m \notin SmallTerms
      BY DEF Meant, ReadCommitKeys, SmallTerms
    <3>3. QED
      BY <3>1, <3>2 DEF Arrived
  <2>3. CASE n = "last_sequence"
    BY <1>6, <2>1, <2>2, <2>3 DEF Recorded, Arrived, Meant, ReadCommitKeys
  <2>4. CASE n = "last_cumulative_paid"
    BY <1>6, <2>1, <2>2, <2>4 DEF Recorded, Arrived, Meant, ReadCommitKeys
  <2>5. CASE n = "status"
    BY <1>6, <2>1, <2>5 DEF Recorded, Arrived, Meant
  <2>6. CASE n = "settled_at"
    <3>1. Recorded["settled_at"] = held["settled_at"]
      BY <1>6, <2>1, <2>6 DEF Recorded
    <3>2. held["settled_at"] # Missing
      BY <1>1 DEF KnownInv, Computed
    <3>3. QED
      BY <1>1, <2>1, <2>6, <3>1, <3>2 DEF KnownInv
  <2>7. CASE n \notin {"last_sequence", "last_cumulative_paid", "settled_at", "status"}
    <3>1. Recorded[n] = held[n]
      BY <2>1, <2>7 DEF Recorded
    <3>2. n \in OpenNames \cup Computed \cup {"consumer", "producer"}
      BY <1>8, <2>7 DEF Channel, OpenNames, Computed, PaymentBigints, SmallTerms
    <3>3. QED
      BY <1>1, <2>1, <3>1, <3>2 DEF KnownInv
  <2>8. QED
    BY <2>3, <2>4, <2>5, <2>6, <2>7
<1>9. ASSUME NEW i \in 1..Len(starts')
      PROVE  \E x \in Nat : /\ Placed(i, x, Width(leg, i))'
                            /\ Content(Name(leg, i), x)'
                            /\ InRange(Name(leg, i), x)'
  <2>1. PICK x \in Nat : /\ Placed(i, x, Width(leg, i))'
                         /\ Content(Name(leg, i), x)
                         /\ InRange(Name(leg, i), x)
                         /\ Name(leg, i)' = Name(leg, i)
                         /\ i \in 1..Len(Layout(leg))
    BY <1>5
  <2>2. PICK n : n = Name(leg, i)
    OBVIOUS
  <2>3. x = Recorded[n] /\ n \in {Channel[j][1] : j \in 1..18}
    BY <1>1, <2>1, <2>2, AccountLayout DEF Content, Name
  <2>4. Arrived(n, x)
    BY <1>8, <2>3
  <2>5. Content(n, x)' /\ InRange(n, x)'
    BY <1>1, <1>2, <2>1, <2>2, <2>4 DEF Content, Arrived, Meant, InRange
  <2>6. Name(leg, i)' = n
    BY <2>1, <2>2
  <2>7. Content(Name(leg, i), x)' /\ InRange(Name(leg, i), x)'
    BY <2>5, <2>6 DEF Content, Arrived, Meant, Recorded, InRange
  <2>8. QED
    BY <2>1, <2>7
<1>10. BufferInv'
  BY <1>3, <1>5, <1>9 DEF BufferInv
<1>11. TypeInv'
  BY <1>1, <1>2, <1>3, <1>6, <1>7 DEF TypeInv
<1>12. \A n \in Names : held'[n] = Missing \/ (Arrived(n, held[n])' /\ InRange(n, held[n])')
  BY <1>1 DEF KnownInv, Arrived, Meant, InRange
<1>13. KnownInv'
  BY <1>1, <1>2, <1>12 DEF KnownInv
<1>14. SettlerFindsItsOwn'
  BY <1>1, <1>2, <1>6 DEF SettlerFindsItsOwn
<1>15. QED
  BY <1>5, <1>10, <1>11, <1>13, <1>14

(* The legs at which nothing more is read or written. *)
LEMMA EndStep ==
    ASSUME WireInv, leg' \in {"missed", "closed"},
           leg \notin {"open", "opened", "refused"},
           UNCHANGED <<sdk, given, at, buffer, starts, offset, told, held,
                       signed, status>>,
           scanner' \in Nat, SettlerFindsItsOwn'
    PROVE  WireInv'
<1> USE DEF WireInv
<1>1. TypeInv' /\ BufferInv' /\ PositionInv'
  BY DEF TypeInv, BufferInv, PositionInv, TracedLegs, Legs, WritingLegs,
         ReadingLegs, Ends
<1>2. \A n \in Names : held'[n] = Missing \/ (Arrived(n, held[n])' /\ InRange(n, held[n])')
  BY DEF KnownInv, Arrived, Meant, InRange
<1>3. KnownInv'
  BY <1>2 DEF KnownInv
<1>4. QED
  BY <1>1, <1>3

LEMMA PollPassesOverStep == ASSUME WireInv, PollPassesOver PROVE WireInv'
<1>1. /\ Complete("account") /\ leg = "account" /\ leg' = "missed"
      /\ UNCHANGED <<sdk, given, at, buffer, starts, offset, told, held,
                     signed, status>>
      /\ scanner' \in {given["producer"], given["producer"] + 1}
      /\ ~Selected(scanner')
  BY DEF PollPassesOver, Complete
<1>2. given["producer"] \in Nat
  BY GivenNat DEF WireInv, TypeInv, Names
<1>3. scanner' # given["producer"] \/ status # Settling
  <2>1. SIZE >= ACCOUNT_SIZE
    BY DEF SIZE, ACCOUNT_SIZE, STATUS_OFFSET
  <2>2. QED
    BY <1>1, <2>1, AccountOffsets DEF Selected
<1>4. SettlerFindsItsOwn'
  BY <1>1, <1>3 DEF SettlerFindsItsOwn, WireInv, TypeInv
<1>5. QED
  BY <1>1, <1>2, <1>4, EndStep

LEMMA SubmitCloseStep == ASSUME WireInv, SubmitClose PROVE WireInv'
<1>1. /\ leg = "scan" /\ leg' = "closed"
      /\ UNCHANGED <<sdk, given, at, buffer, starts, offset, told, held,
                     signed, status, scanner>>
  BY DEF SubmitClose, Complete
<1>2. SettlerFindsItsOwn' /\ scanner' \in Nat
  BY <1>1 DEF SettlerFindsItsOwn, WireInv, TypeInv
<1>3. QED
  BY <1>1, <1>2, EndStep

LEMMA StutterStep == ASSUME WireInv, UNCHANGED vars PROVE WireInv'
<1> USE DEF WireInv, vars
<1>1. TypeInv' /\ PositionInv' /\ SettlerFindsItsOwn'
  BY DEF TypeInv, PositionInv, SettlerFindsItsOwn, Start, Layout
<1>2. \A n, y : /\ Arrived(n, y) => Arrived(n, y)'
                /\ InRange(n, y) => InRange(n, y)'
                /\ Content(n, y) => Content(n, y)'
  BY DEF Arrived, Meant, InRange, Content, Recorded
<1>3. \A i : /\ Start(i)' = Start(i) /\ Name(leg, i)' = Name(leg, i)
             /\ Width(leg, i)' = Width(leg, i)
  BY DEF Start, Name, Width, Layout
<1>4. BufferInv'
  <2>1. ASSUME leg \in TracedLegs, NEW i \in 1..Len(starts)
        PROVE  \E x \in Nat : /\ Placed(i, x, Width(leg, i))'
                              /\ Content(Name(leg, i), x)'
                              /\ InRange(Name(leg, i), x)'
    <3>1. PICK x \in Nat : /\ Placed(i, x, Width(leg, i))
                           /\ Content(Name(leg, i), x)
                           /\ InRange(Name(leg, i), x)
      BY <2>1 DEF BufferInv
    <3>2. Content(Name(leg, i), x)' /\ InRange(Name(leg, i), x)'
      BY <3>1 DEF Content, Arrived, Meant, Recorded, InRange, Name, Layout
    <3>3. Placed(i, x, Width(leg, i))'
      BY <1>3, <3>1 DEF Placed
    <3>4. QED
      BY <3>2, <3>3
  <2>2. QED
    BY <1>3, <2>1 DEF BufferInv, Layout
<1>5. \A n \in Names : held'[n] = Missing \/ (Arrived(n, held[n])' /\ InRange(n, held[n])')
  BY DEF KnownInv, Arrived, Meant, InRange
<1>6. KnownInv'
  BY <1>3, <1>5 DEF KnownInv
<1>7. QED
  BY <1>1, <1>4, <1>6

-----------------------------------------------------------------------------
(* An account is Active until the program has settled it. *)
THEOREM UnsettledInvariance == Spec => []UnsettledInv
<1>1. Init => UnsettledInv
  BY DEF Init, UnsettledInv
<1>2. UnsettledInv /\ [Next]_vars => UnsettledInv'
  BY DEF UnsettledInv, Next, vars, WriteField, OverflowRaised, ReadField,
         Rejected, Refuse, SendPayment, ProgramOpens, StartSession, SendCommit,
         CommitVerified, SubmitSettle, ProgramReadsSettle, ProgramSettles,
         PollSelects, PollPassesOver, SubmitClose, StartWriting, StartReading,
         Complete
<1>3. QED
  BY <1>1, <1>2, PTL DEF Spec

(* Every buffer holds the fields of its layout end to end, each with the   *)
(* value that belongs to it, and the reader's offset stands where the      *)
(* writer's did.                                                           *)
THEOREM WireInvariance == Spec => []WireInv
<1>1. Init => WireInv
  BY InitInv
<1>2. WireInv /\ UnsettledInv /\ [Next]_vars => WireInv'
  <2> SUFFICES ASSUME WireInv, UnsettledInv, [Next]_vars PROVE WireInv'
    OBVIOUS
  <2>1. CASE WriteField
    BY <2>1, WriteStep
  <2>2. CASE OverflowRaised \/ Rejected
    BY <2>2, RefuseStep DEF OverflowRaised, Rejected
  <2>3. CASE ReadField
    BY <2>3, ReadStep
  <2>4. CASE SendPayment
    BY <2>4, SendPaymentStep
  <2>5. CASE ProgramOpens
    BY <2>5, ProgramOpensStep
  <2>6. CASE StartSession
    BY <2>6, StartSessionStep
  <2>7. CASE SendCommit
    BY <2>7, SendCommitStep
  <2>8. CASE CommitVerified
    BY <2>8, CommitVerifiedStep
  <2>9. CASE SubmitSettle
    BY <2>9, SubmitSettleStep
  <2>10. CASE ProgramReadsSettle
    BY <2>10, ProgramReadsSettleStep
  <2>11. CASE ProgramSettles
    BY <2>11, ProgramSettlesStep
  <2>12. CASE PollSelects
    BY <2>12, PollSelectsStep
  <2>13. CASE PollPassesOver
    BY <2>13, PollPassesOverStep
  <2>14. CASE SubmitClose
    BY <2>14, SubmitCloseStep
  <2>15. CASE UNCHANGED vars
    BY <2>15, StutterStep
  <2>16. QED
    BY <2>1, <2>2, <2>3, <2>4, <2>5, <2>6, <2>7, <2>8, <2>9, <2>10, <2>11,
       <2>12, <2>13, <2>14, <2>15 DEF Next
<1>3. QED
  BY <1>1, <1>2, UnsettledInvariance, PTL DEF Spec

(* For every number the code does not refuse, the producer, the program    *)
(* and the settler have what the consumer gave and signed, whatever the    *)
(* sizes of the machine's integers.                                        *)
THEOREM TermsArriveUnchanged == Spec => []ArrivesUnchanged
<1>1. WireInv => ArrivesUnchanged
  BY DEF WireInv, KnownInv, Arrived, ArrivesUnchanged
<1>2. QED
  BY <1>1, WireInvariance, PTL

(* A settler's filters select a channel exactly when it is its own and     *)
(* Settling.                                                               *)
THEOREM SettlerSelectsItsOwn == Spec => []SettlerFindsItsOwn
<1>1. WireInv => SettlerFindsItsOwn
  BY DEF WireInv
<1>2. QED
  BY <1>1, WireInvariance, PTL

(* The history of starts never runs ahead of the fields that are left. *)
StartsInv ==
    /\ leg \in WritingLegs => Len(starts) = at - 1
    /\ Len(starts) <= at + 18

LEMMA StartsStep ==
    ASSUME WireInv, StartsInv, [Next]_vars PROVE StartsInv'
<1> USE DEF StartsInv
<1>1. at \in Nat \ {0} /\ starts \in Seq(Nat) /\ Len(starts) \in Nat
  BY DEF WireInv, TypeInv
<1>2. CASE WriteField
  <2>1. leg' = leg /\ at' = at + 1 /\ Len(starts') = Len(starts) + 1
    BY <1>1, <1>2 DEF WriteField
  <2>2. QED
    BY <1>1, <2>1
<1>3. CASE ReadField
  <2>1. leg' = leg /\ leg \notin WritingLegs /\ at' = at + 1 /\ starts' = starts
    BY <1>3 DEF ReadField, ReadingLegs, WritingLegs
  <2>2. QED
    BY <1>1, <2>1
<1>4. CASE leg' \in Ends /\ UNCHANGED <<at, starts>>
  BY <1>4 DEF Ends, WritingLegs
<1>5. CASE \E l \in WritingLegs : StartWriting(l)
  BY <1>5 DEF StartWriting
<1>6. CASE (SendPayment \/ SubmitSettle \/ PollSelects)
  <2>1. /\ leg \in {"open", "settle", "account"} /\ leg \in WritingLegs
        /\ leg' \in ReadingLegs /\ at' = 1 /\ starts' = starts
    BY <1>6 DEF SendPayment, SubmitSettle, PollSelects, Complete, StartReading,
                ReadingLegs, WritingLegs
  <2>2. Len(Layout(leg)) \in {10, 7, 18}
    BY <2>1, OpenLayout, SettleLayout, AccountLayout
       DEF OpenChannelArgs, SettleArgs
  <2>3. at <= Len(Layout(leg)) + 1
    BY <2>1 DEF WireInv, PositionInv, Legs
  <2>4. Len(starts) <= 18
    <3>1. PICK m : m = Len(Layout(leg))
      OBVIOUS
    <3>2. m \in {10, 7, 18} /\ at <= m + 1
      BY <2>2, <2>3, <3>1
    <3>3. Len(starts) = at - 1
      BY <2>1
    <3>4. QED
      BY <1>1, <3>2, <3>3
  <2>5. leg' \notin WritingLegs
    BY <2>1 DEF ReadingLegs, WritingLegs
  <2>6. QED
    BY <2>1, <2>4, <2>5
<1>7. CASE UNCHANGED vars
  BY <1>7 DEF vars
<1>8. QED
  <2>1. OverflowRaised \/ Rejected \/ PollPassesOver \/ SubmitClose =>
            leg' \in Ends /\ UNCHANGED <<at, starts>>
    BY DEF OverflowRaised, Rejected, Refuse, PollPassesOver, SubmitClose, Ends
  <2>2. ProgramOpens \/ StartSession \/ SendCommit \/ CommitVerified
        \/ ProgramReadsSettle \/ ProgramSettles =>
            \E l \in WritingLegs : StartWriting(l)
    BY DEF ProgramOpens, StartSession, SendCommit, CommitVerified,
           ProgramReadsSettle, ProgramSettles, WritingLegs
  <2>3. QED
    BY <1>2, <1>3, <1>4, <1>5, <1>6, <1>7, <2>1, <2>2 DEF Next

(* No byte of any buffer belongs to a number too large for its field, and  *)
(* every place holds a value of its kind.                                  *)
THEOREM WireTyped == Spec => []WireTypeOK
<1>1. Init => StartsInv
  BY DEF Init, StartsInv
<1>2. WireInv /\ StartsInv /\ [Next]_vars => StartsInv'
  BY StartsStep
<1>3. WireInv /\ StartsInv => WireTypeOK
  <2> SUFFICES ASSUME WireInv, StartsInv PROVE WireTypeOK
    OBVIOUS
  <2>1. Len(starts) < at + SIZE
    BY DEF StartsInv, WireInv, TypeInv, SIZE
  <2>2. \A i \in 1..Len(buffer) : buffer[i] \in Cell
    BY DEF WireInv, TypeInv
  <2>3. \A i \in 1..Len(buffer) :
            /\ buffer[i][1] \in Nat
            /\ buffer[i][2] = 4 => buffer[i][1] < U32
            /\ buffer[i][2] = 8 => buffer[i][1] < U64
    <3> TAKE i \in 1..Len(buffer)
    <3>1. PICK c \in Cell : c = buffer[i]
      BY <2>2, Zenon
    <3>2. /\ c[1] \in Nat
          /\ c[2] = 4 => c[1] < U32
          /\ c[2] = 8 => c[1] < U64
      BY DEF Cell
    <3>3. QED
      BY <3>1, <3>2, Zenon
  <2>4. QED
    BY <2>1, <2>3 DEF WireInv, TypeInv, WireTypeOK, Legs
<1>4. QED
  BY <1>1, <1>2, <1>3, WireInvariance, PTL DEF Spec

=============================================================================
