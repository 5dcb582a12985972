------------------------- MODULE WireFitting_proofs -------------------------
(***************************************************************************)
(* For every 2^32, 2^53 and 2^64: nothing on the way refuses numbers that  *)
(* fit.  The writers do not overflow, the bytes that the producer and the  *)
(* program build again are the bytes signed, the Ed25519 instruction says  *)
(* where they lie, and the account has the size allocated.                 *)
(***************************************************************************)
EXTENDS Wire_proofs

Byte == Nat \X Nat \X Nat

LEMMA BytesAreBytes ==
    ASSUME NEW v \in Nat, NEW w \in Nat
    PROVE  /\ Bytes(v, w) \in Seq(Byte)
           /\ Len(Bytes(v, w)) = w
           /\ \A j \in 1..w : Bytes(v, w)[j] = <<v, w, j>>
<1>1. \A j \in 1..w : <<v, w, j>> \in Byte
  BY DEF Byte
<1> QED
  BY <1>1 DEF Bytes

(* b is a, and behind it v in w bytes. *)
Extends(b, a, v, w) ==
    /\ b \in Seq(Byte) /\ Len(b) = Len(a) + w
    /\ Take(b, Len(a), w) = v
    /\ \A o \in Nat, u \in Nat \ {0} :
          o + u <= Len(a) => Take(b, o, u) = Take(a, o, u)

(* What is read of a sequence stays when more is written behind it. *)
LEMMA TakeKept ==
    ASSUME NEW a \in Seq(Byte), NEW c \in Seq(Byte),
           NEW o \in Nat, NEW u \in Nat \ {0}, o + u <= Len(a)
    PROVE  Take(a \o c, o, u) = Take(a, o, u)
<1>1. /\ a \o c \in Seq(Byte) /\ Len(a \o c) = Len(a) + Len(c)
      /\ \A i \in 1..Len(a) + Len(c) : (a \o c)[i] = IF i <= Len(a) THEN a[i] ELSE c[i - Len(a)]
  BY ConcatProperties
<1>2. Len(a) \in Nat /\ Len(c) \in Nat
  BY LenProperties
<1>3. \A j \in 1..u : (a \o c)[o + j] = a[o + j]
  BY <1>1, <1>2
<1>4. (a \o c)[o + 1] = a[o + 1] /\ o + u <= Len(a \o c)
  BY <1>1, <1>2, <1>3
<1> QED
  BY <1>3, <1>4 DEF Take

LEMMA LengthsAdd ==
    ASSUME NEW a \in Seq(Byte), NEW c \in Seq(Byte)
    PROVE  Len(a \o c) = Len(a) + Len(c)
BY ConcatProperties

(* A value can be read where it was written last. *)
LEMMA TakeLast ==
    ASSUME NEW a \in Seq(Byte), NEW v \in Nat, NEW w \in Nat \ {0}
    PROVE  Extends(a \o Bytes(v, w), a, v, w)
<1> DEFINE b == Bytes(v, w)
<1>1. b \in Seq(Byte) /\ Len(b) = w /\ \A j \in 1..w : b[j] = <<v, w, j>>
  BY BytesAreBytes
<1> HIDE DEF b
<1>2. /\ a \o b \in Seq(Byte) /\ Len(a \o b) = Len(a) + w
      /\ \A i \in 1..Len(a) + w : (a \o b)[i] = IF i <= Len(a) THEN a[i] ELSE b[i - Len(a)]
  BY <1>1, ConcatProperties
<1>3. Len(a) \in Nat
  BY LenProperties
<1>4. \A j \in 1..w : (a \o b)[Len(a) + j] = <<v, w, j>>
  <2> SUFFICES ASSUME NEW j \in 1..w PROVE (a \o b)[Len(a) + j] = <<v, w, j>>
    OBVIOUS
  <2>1. Len(a) + j \in 1..Len(a) + w /\ ~(Len(a) + j <= Len(a)) /\ Len(a) + j - Len(a) = j
    BY <1>3
  <2> QED
    BY <1>1, <1>2, <2>1
<1>5. (a \o b)[Len(a) + 1][1] = v
  <2>1. 1 \in 1..w
    OBVIOUS
  <2>2. (a \o b)[Len(a) + 1] = <<v, w, 1>>
    BY <1>4, <2>1
  <2> QED
    BY <2>2
<1>6. Take(a \o b, Len(a), w) = v
  BY <1>2, <1>3, <1>4, <1>5 DEF Take
<1>7. \A o \in Nat, u \in Nat \ {0} :
          o + u <= Len(a) => Take(a \o b, o, u) = Take(a, o, u)
  BY <1>1, TakeKept
<1> QED
  BY <1>2, <1>6, <1>7 DEF Extends, b

(* And so can all of a sequence. *)
LEMMA TailOfConcat ==
    ASSUME NEW a \in Seq(Byte), NEW m \in Seq(Byte)
    PROVE  SubSeq(a \o m, Len(a) + 1, Len(a) + Len(m)) = m
<1> DEFINE t == SubSeq(a \o m, Len(a) + 1, Len(a) + Len(m))
<1>1. Len(a) \in Nat /\ Len(m) \in Nat
  BY LenProperties
<1>2. \A i \in 1..Len(a) + Len(m) :
          /\ (a \o m)[i] = IF i <= Len(a) THEN a[i] ELSE m[i - Len(a)]
          /\ (a \o m)[i] \in Byte
  <2>1. a \o m \in Seq(Byte) /\ Len(a \o m) = Len(a) + Len(m)
    BY ConcatProperties
  <2>2. \A i \in 1..Len(a) + Len(m) : (a \o m)[i] \in Byte
    BY <2>1, ElementOfSeq
  <2> QED
    BY <2>2, ConcatProperties
<1>3. \A i \in (Len(a) + 1)..(Len(a) + Len(m)) : (a \o m)[i] \in Byte
  BY <1>1, <1>2
<1>4. /\ t \in Seq(Byte)
      /\ Len(t) = IF Len(a) + 1 <= Len(a) + Len(m) THEN Len(a) + Len(m) - (Len(a) + 1) + 1 ELSE 0
      /\ \A i \in 1..(Len(a) + Len(m) - (Len(a) + 1) + 1) : t[i] = (a \o m)[Len(a) + 1 + i - 1]
  BY <1>1, <1>3, SubSeqProperties
<1> HIDE DEF t
<1>5. Len(t) = Len(m)
  BY <1>1, <1>4
<1>6. \A i \in 1..Len(m) : t[i] = m[i]
  <2> SUFFICES ASSUME NEW i \in 1..Len(m) PROVE t[i] = m[i]
    OBVIOUS
  <2>1. t[i] = (a \o m)[Len(a) + i]
    <3>1. i \in 1..(Len(a) + Len(m) - (Len(a) + 1) + 1) /\ Len(a) + 1 + i - 1 = Len(a) + i
      BY <1>1
    <3> QED
      BY <1>4, <3>1
  <2>2. Len(a) + i \in 1..Len(a) + Len(m) /\ ~(Len(a) + i <= Len(a)) /\ Len(a) + i - Len(a) = i
    BY <1>1
  <2> QED
    BY <1>2, <2>1, <2>2
<1>7. t = m
  BY <1>4, <1>5, <1>6, SeqEqual
<1> QED
  BY <1>7 DEF t

(* The Ed25519 instruction the SDK writes is the one the program accepts   *)
(* for the same key, signature and message.                                *)
LEMMA SiblingFound ==
    ASSUME NEW key \in Nat, NEW sig \in Nat, NEW m \in Seq(Byte)
    PROVE  verify_ed25519_sibling(ed25519_verify_ix(key, sig, m), key, sig, m)
<1> DEFINE ThisInstruction == 65535
           p1 == Bytes(1, 1)
           p2 == p1 \o Bytes(0, 1)
           p3 == p2 \o Bytes(48, 2)
           p4 == p3 \o Bytes(ThisInstruction, 2)
           p5 == p4 \o Bytes(16, 2)
           p6 == p5 \o Bytes(ThisInstruction, 2)
           p7 == p6 \o Bytes(112, 2)
           p8 == p7 \o Bytes(Len(m), 2)
           p9 == p8 \o Bytes(ThisInstruction, 2)
           p10 == p9 \o Bytes(key, 32)
           p11 == p10 \o Bytes(sig, 64)
           data == p11 \o m
<1>0. ed25519_verify_ix(key, sig, m) = data
  BY DEF ed25519_verify_ix
<1>l. Len(m) \in Nat
  BY LenProperties
<1>t. ThisInstruction \in Nat
  OBVIOUS
<1> HIDE DEF ThisInstruction
<1>1. p1 \in Seq(Byte) /\ Len(p1) = 1 /\ Take(p1, 0, 1) = 1
  <2>1. p1 \in Seq(Byte) /\ Len(p1) = 1 /\ \A j \in 1..1 : p1[j] = <<1, 1, j>>
    BY BytesAreBytes
  <2>2. p1[1] = <<1, 1, 1>> /\ \A j \in 1..1 : p1[0 + j] = <<1, 1, j>>
    BY <2>1
  <2> HIDE DEF p1
  <2> QED
    BY <2>1, <2>2 DEF Take
<1> HIDE DEF p1
<1>2. p2 \in Seq(Byte) /\ Len(p2) = 2 /\ Take(p2, 0, 1) = 1
  <2>1. 0 \in Nat /\ 1 \in Nat \ {0}
    OBVIOUS
  <2>2. Extends(p2, p1, 0, 1)
    BY <1>1, <2>1, TakeLast, Zenon
  <2> HIDE DEF p2
  <2> QED
    BY <1>1, <2>2 DEF Extends
<1> HIDE DEF p2
<1>3. p3 \in Seq(Byte) /\ Len(p3) = 4 /\ Take(p3, 0, 1) = 1 /\ Take(p3, 2, 2) = 48
  <2>1. 48 \in Nat /\ 2 \in Nat \ {0}
    OBVIOUS
  <2>2. Extends(p3, p2, 48, 2)
    BY <1>2, <2>1, TakeLast, Zenon
  <2> HIDE DEF p3
  <2> QED
    BY <1>2, <2>2 DEF Extends
<1> HIDE DEF p3
<1>4. p4 \in Seq(Byte) /\ Len(p4) = 6 /\ Take(p4, 0, 1) = 1 /\ Take(p4, 2, 2) = 48
  <2>1. ThisInstruction \in Nat /\ 2 \in Nat \ {0}
    BY <1>t
  <2>2. Extends(p4, p3, ThisInstruction, 2)
    BY <1>3, <2>1, TakeLast, Zenon
  <2> HIDE DEF p4
  <2> QED
    BY <1>3, <2>2 DEF Extends
<1> HIDE DEF p4
<1>5. /\ p5 \in Seq(Byte) /\ Len(p5) = 8 /\ Take(p5, 0, 1) = 1 /\ Take(p5, 2, 2) = 48
      /\ Take(p5, 6, 2) = 16
  <2>1. 16 \in Nat /\ 2 \in Nat \ {0}
    OBVIOUS
  <2>2. Extends(p5, p4, 16, 2)
    BY <1>4, <2>1, TakeLast, Zenon
  <2> HIDE DEF p5
  <2> QED
    BY <1>4, <2>2 DEF Extends
<1> HIDE DEF p5
<1>6. /\ p6 \in Seq(Byte) /\ Len(p6) = 10 /\ Take(p6, 0, 1) = 1 /\ Take(p6, 2, 2) = 48
      /\ Take(p6, 6, 2) = 16
  <2>1. ThisInstruction \in Nat /\ 2 \in Nat \ {0}
    BY <1>t
  <2>2. Extends(p6, p5, ThisInstruction, 2)
    BY <1>5, <2>1, TakeLast, Zenon
  <2> HIDE DEF p6
  <2> QED
    BY <1>5, <2>2 DEF Extends
<1> HIDE DEF p6
<1>7. /\ p7 \in Seq(Byte) /\ Len(p7) = 12 /\ Take(p7, 0, 1) = 1 /\ Take(p7, 2, 2) = 48
      /\ Take(p7, 6, 2) = 16 /\ Take(p7, 10, 2) = 112
  <2>1. 112 \in Nat /\ 2 \in Nat \ {0}
    OBVIOUS
  <2>2. Extends(p7, p6, 112, 2)
    BY <1>6, <2>1, TakeLast, Zenon
  <2> HIDE DEF p7
  <2> QED
    BY <1>6, <2>2 DEF Extends
<1> HIDE DEF p7
<1>8. /\ p8 \in Seq(Byte) /\ Len(p8) = 14 /\ Take(p8, 0, 1) = 1 /\ Take(p8, 2, 2) = 48
      /\ Take(p8, 6, 2) = 16 /\ Take(p8, 10, 2) = 112 /\ Take(p8, 12, 2) = Len(m)
  <2>1. Len(m) \in Nat /\ 2 \in Nat \ {0}
    BY <1>l
  <2>2. Extends(p8, p7, Len(m), 2)
    BY <1>7, <2>1, TakeLast, Zenon
  <2> HIDE DEF p8
  <2> QED
    BY <1>7, <2>2 DEF Extends
<1> HIDE DEF p8
<1>9. /\ p9 \in Seq(Byte) /\ Len(p9) = 16 /\ Take(p9, 0, 1) = 1 /\ Take(p9, 2, 2) = 48
      /\ Take(p9, 6, 2) = 16 /\ Take(p9, 10, 2) = 112 /\ Take(p9, 12, 2) = Len(m)
  <2>1. ThisInstruction \in Nat /\ 2 \in Nat \ {0}
    BY <1>t
  <2>2. Extends(p9, p8, ThisInstruction, 2)
    BY <1>8, <2>1, TakeLast, Zenon
  <2> HIDE DEF p9
  <2> QED
    BY <1>8, <2>2 DEF Extends
<1> HIDE DEF p9
<1>10. /\ p10 \in Seq(Byte) /\ Len(p10) = 48 /\ Take(p10, 0, 1) = 1 /\ Take(p10, 2, 2) = 48
       /\ Take(p10, 6, 2) = 16 /\ Take(p10, 10, 2) = 112 /\ Take(p10, 12, 2) = Len(m)
       /\ Take(p10, 16, 32) = key
  <2>1. key \in Nat /\ 32 \in Nat \ {0}
    OBVIOUS
  <2>2. Extends(p10, p9, key, 32)
    BY <1>9, <2>1, TakeLast, Zenon
  <2> HIDE DEF p10
  <2> QED
    BY <1>9, <2>2 DEF Extends
<1> HIDE DEF p10
<1>11. /\ p11 \in Seq(Byte) /\ Len(p11) = 112 /\ Take(p11, 0, 1) = 1 /\ Take(p11, 2, 2) = 48
       /\ Take(p11, 6, 2) = 16 /\ Take(p11, 10, 2) = 112 /\ Take(p11, 12, 2) = Len(m)
       /\ Take(p11, 16, 32) = key /\ Take(p11, 48, 64) = sig
  <2>1. sig \in Nat /\ 64 \in Nat \ {0}
    OBVIOUS
  <2>2. Extends(p11, p10, sig, 64)
    BY <1>10, <2>1, TakeLast, Zenon
  <2> HIDE DEF p11
  <2> QED
    BY <1>10, <2>2 DEF Extends
<1> HIDE DEF p11
<1>12. /\ Take(data, 0, 1) = 1 /\ Take(data, 2, 2) = 48
       /\ Take(data, 6, 2) = 16 /\ Take(data, 10, 2) = 112 /\ Take(data, 12, 2) = Len(m)
       /\ Take(data, 16, 32) = key /\ Take(data, 48, 64) = sig
  <2>1. \A o \in Nat, u \in Nat \ {0} :
            o + u <= Len(p11) => Take(data, o, u) = Take(p11, o, u)
    BY <1>11, TakeKept, Zenon
  <2> HIDE DEF data
  <2> QED
    BY <1>11, <2>1
<1>13. Len(data) = 112 + Len(m)
  <2>1. Len(data) = Len(p11) + Len(m)
    BY <1>11, LengthsAdd, Zenon
  <2> QED
    BY <1>11, <2>1
<1>14. SubSeq(data, 112 + 1, 112 + Len(m)) = m
  <2>1. SubSeq(data, Len(p11) + 1, Len(p11) + Len(m)) = m
    BY <1>11, TailOfConcat, Zenon
  <2>2. Len(p11) = 112
    BY <1>11
  <2> QED
    BY <2>1, <2>2, Zenon
<1> HIDE DEF data
<1>15. verify_ed25519_sibling(data, key, sig, m)
  BY <1>l, <1>12, <1>13, <1>14 DEF verify_ed25519_sibling
<1> QED
  BY <1>0, <1>15

-----------------------------------------------------------------------------
Fitting == \A n \in Names : ~TooLarge(n)

Nothing == <<>>

(* The bytes of the commitment, up to its i-th field. *)
Message(i) ==
    LET m2 == Nothing \o Bytes(given["channel"], 32)
        m3 == m2 \o Bytes(given["sequence"], 8)
        m4 == m3 \o Bytes(given["cumulative_paid"], 8)
        m5 == m4 \o Bytes(given["tokens_received"], 4)
        m6 == m5 \o Bytes(given["timestamp_ms"], 8)
    IN  CASE i = 1 -> Nothing [] i = 2 -> m2 [] i = 3 -> m3
          [] i = 4 -> m4 [] i = 5 -> m5 [] i = 6 -> m6

CommitLegs == {"sign", "verify", "check"}

FitInv ==
    Fitting =>
        /\ leg # "refused"
        /\ leg \in CommitLegs => buffer = Message(at)
        /\ leg \in {"verify", "settle", "settled", "check"} => signed = Message(6)
        /\ leg # "open" => told["session_key"] = given["session_key"]

LEMMA MessageGrows ==
    ASSUME NEW i \in 1..5
    PROVE  Message(i + 1) = Message(i) \o Bytes(given[message_bytes[i][1]], message_bytes[i][2])
<1>1. /\ message_bytes[1][1] = "channel" /\ message_bytes[1][2] = 32
      /\ message_bytes[2][1] = "sequence" /\ message_bytes[2][2] = 8
      /\ message_bytes[3][1] = "cumulative_paid" /\ message_bytes[3][2] = 8
      /\ message_bytes[4][1] = "tokens_received" /\ message_bytes[4][2] = 4
      /\ message_bytes[5][1] = "timestamp_ms" /\ message_bytes[5][2] = 8
  BY DEF message_bytes
<1>2. Message(2) = Message(1) \o Bytes(given["channel"], 32)
  BY DEF Message
<1>3. Message(3) = Message(2) \o Bytes(given["sequence"], 8)
  BY DEF Message
<1>4. Message(4) = Message(3) \o Bytes(given["cumulative_paid"], 8)
  BY DEF Message
<1>5. Message(5) = Message(4) \o Bytes(given["tokens_received"], 4)
  BY DEF Message
<1>6. Message(6) = Message(5) \o Bytes(given["timestamp_ms"], 8)
  BY DEF Message
<1>7. i \in {1, 2, 3, 4, 5}
  OBVIOUS
<1>8. 1 + 1 = 2 /\ 2 + 1 = 3 /\ 3 + 1 = 4 /\ 4 + 1 = 5 /\ 5 + 1 = 6
  OBVIOUS
<1> QED
  <2>1. CASE i = 1
    BY <1>1, <1>2, <1>8, <2>1
  <2>2. CASE i = 2
    BY <1>1, <1>3, <1>8, <2>2
  <2>3. CASE i = 3
    BY <1>1, <1>4, <1>8, <2>3
  <2>4. CASE i = 4
    BY <1>1, <1>5, <1>8, <2>4
  <2>5. CASE i = 5
    BY <1>1, <1>6, <1>8, <2>5
  <2> QED
    BY <1>7, <2>1, <2>2, <2>3, <2>4, <2>5

LEMMA MessageIsBytes == ASSUME given \in Terms PROVE Message(6) \in Seq(Byte)
<1>1. \A a \in Seq(Byte), v \in Nat, w \in Nat : a \o Bytes(v, w) \in Seq(Byte)
  <2> TAKE a \in Seq(Byte), v \in Nat, w \in Nat
  <2>1. Bytes(v, w) \in Seq(Byte)
    BY BytesAreBytes
  <2> QED
    BY <2>1, ConcatProperties
<1>2. \A i \in 1..5 : given[message_bytes[i][1]] \in Nat /\ message_bytes[i][2] \in Nat
  BY GivenNat DEF message_bytes, Names
<1>3. Message(1) \in Seq(Byte)
  BY EmptySeq DEF Message, Nothing
<1>4. \A i \in 1..5 : Message(i) \in Seq(Byte) => Message(i + 1) \in Seq(Byte)
  <2> TAKE i \in 1..5
  <2> HAVE Message(i) \in Seq(Byte)
  <2>1. Message(i) \o Bytes(given[message_bytes[i][1]], message_bytes[i][2]) \in Seq(Byte)
    BY <1>1, <1>2, Zenon
  <2> QED
    BY <2>1, MessageGrows, Zenon
<1> QED
  BY <1>3, <1>4

(* A number that fits is in the range of its field. *)
LEMMA FittingInRange ==
    ASSUME Fitting, given \in Terms, NEW n \in Names
    PROVE  given[n] \in Nat /\ InRange(n, given[n])
<1>1. given[n] \in Nat /\ ~TooLarge(n)
  BY GivenNat DEF Fitting
<1>2. WidthOf(n) = 4 => n \in SmallTerms \cup {"tokens_received"}
  BY DEF WidthOf, FourBytes
<1> QED
  BY <1>1, <1>2, WidthAssumption DEF TooLarge, InRange

(* No writer overflows on such numbers, and the three that write the       *)
(* commitment all write what was given.                                    *)
LEMMA WritersFit ==
    ASSUME WireInv, Fitting, leg \in WritingLegs, leg # "account", at <= Len(Layout(leg))
    PROVE  /\ Source(leg)[Name(leg, at)] = given[Name(leg, at)]
           /\ Wrapped(given[Name(leg, at)], Width(leg, at)) = given[Name(leg, at)]
<1>n. PICK n : n = Name(leg, at)
  OBVIOUS
<1>1. leg \in Legs /\ n \in Names /\ Width(leg, at) = WidthOf(n) /\ given \in Terms
      /\ at \in 1..Len(Layout(leg))
  BY <1>n, FieldOf DEF Legs, WireInv, TypeInv
<1>2. Wrapped(given[n], WidthOf(n)) = given[n]
  BY <1>1, FittingInRange, InRangeUnwrapped
<1>3. CASE leg \in {"open", "sign", "settle"}
  <2>1. Source(leg)[n] = given[n]
    BY <1>n, <1>3, SourceValue
  <2> QED
    BY <1>n, <1>1, <1>2, <2>1
<1>4. CASE leg \in {"verify", "check"}
  <2>1. n \in ReadCommitKeys
    BY <1>1, <1>4, CommitLayout, <1>n DEF Name
  <2>2. n # "discriminator" /\ n \notin SmallTerms /\ Meant(n) = given[n]
    BY <2>1 DEF ReadCommitKeys, SmallTerms, Meant
  <2>3. ASSUME leg = "verify" PROVE Source(leg)[n] = given[n]
    BY <1>1, <2>1, <2>2, <2>3 DEF Source, WireInv, TypeInv, KnownInv
  <2>4. ASSUME leg = "check" PROVE Source(leg)[n] = given[n]
    <3>1. held[n] # Missing /\ leg # "refused"
      BY <2>1, <2>4 DEF WireInv, KnownInv
    <3>2. Arrived(n, held[n])
      BY <1>1, <3>1 DEF WireInv, KnownInv
    <3> QED
      BY <2>2, <2>4, <3>2 DEF Source, Arrived
  <2>5. Source(leg)[n] = given[n]
    BY <1>4, <2>3, <2>4
  <2> QED
    BY <1>n, <1>1, <1>2, <2>5
<1> QED
  BY <1>3, <1>4 DEF WritingLegs

LEMMA CommitComplete ==
    ASSUME WireInv, NEW l \in CommitLegs, Complete(l)
    PROVE  leg = l /\ at = 6
<1>1. leg = l /\ at > Len(Layout(leg)) /\ at \in Nat
  BY DEF Complete, WireInv, TypeInv
<1>2. Layout(leg) = message_bytes /\ Len(message_bytes) = 5
  BY <1>1, CommitLayout DEF CommitLegs, message_bytes
<1>3. at <= Len(Layout(leg)) + 1
  BY <1>1 DEF WireInv, PositionInv, CommitLegs, Legs, WritingLegs
<1>4. Len(Layout(leg)) = 5
  BY <1>2, Zenon
<1> QED
  BY <1>1, <1>3, <1>4

(* So every check on the way passes. *)
LEMMA FittingPasses ==
    ASSUME WireInv, FitInv, Fitting, leg \in Legs, Complete(leg)
    PROVE  Passes(leg)
<1>g. given \in Terms
  BY DEF WireInv, TypeInv
<1>1. CASE leg \in {"open", "sign"}
  <2>1. \A n \in PaymentBigints \cup CommitBigints : n \in Names
    BY DEF PaymentBigints, CommitBigints, Names
  <2>2. sdk = "typescript" =>
            \A n \in PaymentBigints \cup CommitBigints : given[n] <= SafeInt
    <3> SUFFICES ASSUME sdk = "typescript", NEW n \in PaymentBigints \cup CommitBigints
                 PROVE  given[n] <= SafeInt
      OBVIOUS
    <3>1. given[n] \in Nat /\ ~(given[n] > SafeInt)
      BY <1>g, <2>1, GivenNat DEF Fitting, TooLarge
    <3> QED
      BY <3>1, WidthAssumption
  <2>3. Safe(PaymentBigints) /\ Safe(CommitBigints)
    BY <2>2 DEF Safe
  <2>4. ReadPaymentKeys \subseteq WrittenPaymentKeys /\ ReadCommitKeys \subseteq WrittenCommitKeys
    BY DEF ReadPaymentKeys, WrittenPaymentKeys, ReadCommitKeys, WrittenCommitKeys
  <2> QED
    BY <1>1, <2>3, <2>4 DEF Passes
<1>2. CASE leg = "opened"
  <2>1. OpenAccounts = OpenChannelContext
    BY DEF OpenAccounts, PythonOpenAccounts, TypeScriptOpenAccounts, OpenChannelContext
  <2> QED
    BY <1>2, <2>1 DEF Passes
<1>3. CASE leg = "account"
  <2>1. Len(buffer) <= SIZE
    <3>1. Len(buffer) = SIZE
      BY <1>3, AccountPlaces, Zenon
    <3>2. SIZE = 191
      BY DEF SIZE
    <3> QED
      BY <3>1, <3>2
  <2> QED
    BY <1>3, <2>1 DEF Passes
<1>4. CASE leg = "verify"
  <2>1. at = 6
    BY <1>4, CommitComplete DEF CommitLegs
  <2>2. buffer = signed
    BY <1>4, <2>1 DEF FitInv, CommitLegs
  <2> QED
    BY <1>4, <2>2 DEF Passes
<1>5. CASE leg = "settle"
  BY <1>5 DEF Passes
<1>6. CASE leg = "settled"
  <2>1. CommitCarryingAccounts = SettleContext
    BY DEF CommitCarryingAccounts, SettleContext
  <2> QED
    BY <1>6, <2>1 DEF Passes
<1>7. CASE leg = "check"
  <2>1. at = 6
    BY <1>7, CommitComplete DEF CommitLegs
  <2>2. buffer = signed /\ signed = Message(6) /\ told["session_key"] = given["session_key"]
    BY <1>7, <2>1 DEF FitInv, CommitLegs
  <2>3. told["signature"] = given["signature"]
    BY <1>7 DEF WireInv, KnownInv, ReadCommitKeys
  <2>4. ASSUME NEW n \in {"session_key", "signature"} PROVE held[n] = given[n]
    <3>1. n \in Names /\ n \notin SmallTerms /\ Meant(n) = given[n]
      BY DEF Names, SmallTerms, Meant
    <3>2. held[n] # Missing
      BY <1>7 DEF WireInv, KnownInv, OpenNames, ReadCommitKeys
    <3>3. Arrived(n, held[n])
      BY <3>1, <3>2 DEF WireInv, KnownInv
    <3> QED
      BY <3>1, <3>3 DEF Arrived
  <2>5. given["session_key"] \in Nat /\ given["signature"] \in Nat /\ signed \in Seq(Byte)
    BY <1>g, <2>2, GivenNat, MessageIsBytes DEF Names
  <2>6. SiblingVerifies
    BY <2>2, <2>3, <2>4, <2>5, SiblingFound DEF SiblingVerifies
  <2> QED
    BY <1>7, <2>6 DEF Passes
<1>8. CASE leg = "scan"
  <2>1. CloseAccounts = CloseContext
    BY DEF CloseAccounts, CloseContext
  <2> QED
    BY <1>8, <2>1 DEF Passes
<1> QED
  BY <1>1, <1>2, <1>3, <1>4, <1>5, <1>6, <1>7, <1>8 DEF Legs, WritingLegs, ReadingLegs

LEMMA FitStep ==
    ASSUME WireInv, FitInv, [Next]_vars
    PROVE  FitInv'
<1> SUFFICES ASSUME Fitting' PROVE FitInv'
  BY DEF FitInv
<1>g. /\ given' = given /\ given \in Terms
      /\ \A i : Message(i)' = Message(i)
  <2>1. given' = given
    BY DEF Next, vars, WriteField, OverflowRaised, ReadField, Rejected, Refuse,
           SendPayment, ProgramOpens, StartSession, SendCommit, CommitVerified,
           SubmitSettle, ProgramReadsSettle, ProgramSettles, PollSelects,
           PollPassesOver, SubmitClose
  <2> QED
    BY <2>1 DEF WireInv, TypeInv, Message
<1>s. sdk' = sdk
  BY DEF Next, vars, WriteField, OverflowRaised, ReadField, Rejected, Refuse,
         SendPayment, ProgramOpens, StartSession, SendCommit, CommitVerified,
         SubmitSettle, ProgramReadsSettle, ProgramSettles, PollSelects,
         PollPassesOver, SubmitClose
<1>f. Fitting
  BY <1>g, <1>s DEF Fitting, TooLarge
<1>i. /\ leg # "refused"
      /\ leg \in CommitLegs => buffer = Message(at)
      /\ leg \in {"verify", "settle", "settled", "check"} => signed = Message(6)
      /\ leg # "open" => told["session_key"] = given["session_key"]
  BY <1>f DEF FitInv
<1>1. CASE WriteField
  <2>1. leg' = leg /\ told' = told /\ signed' = signed /\ at' = at + 1
    BY <1>1 DEF WriteField
  <2>2. ASSUME leg \in CommitLegs PROVE buffer' = Message(at + 1)
    <3>1. Layout(leg) = message_bytes /\ at \in 1..5
      <4>1. Layout(leg) = message_bytes /\ at <= Len(Layout(leg)) /\ at \in Nat \ {0}
        BY <1>1, <2>2, CommitLayout DEF CommitLegs, WriteField, WireInv, TypeInv
      <4>2. Len(message_bytes) = 5
        BY DEF message_bytes
      <4>3. Len(Layout(leg)) = 5
        BY <4>1, <4>2, Zenon
      <4> QED
        BY <4>1, <4>3
    <3>2. Name(leg, at) = message_bytes[at][1] /\ Width(leg, at) = message_bytes[at][2]
      BY <3>1 DEF Name, Width
    <3>3. /\ Source(leg)[Name(leg, at)] = given[Name(leg, at)]
          /\ Wrapped(given[Name(leg, at)], Width(leg, at)) = given[Name(leg, at)]
      BY <1>1, <1>f, <2>2, WritersFit DEF WriteField, CommitLegs
    <3>4. buffer' = buffer \o Bytes(Wrapped(Source(leg)[Name(leg, at)], Width(leg, at)),
                                    Width(leg, at))
      BY <1>1 DEF WriteField
    <3>5. buffer' = Message(at) \o Bytes(given[message_bytes[at][1]], message_bytes[at][2])
      BY <1>i, <2>2, <3>2, <3>3, <3>4, Zenon
    <3> QED
      BY <3>1, <3>5, MessageGrows, Zenon
  <2> QED
    BY <1>g, <1>i, <2>1, <2>2 DEF FitInv
<1>2. CASE OverflowRaised
  <2>1. /\ leg \in WritingLegs /\ at <= Len(Layout(leg)) /\ leg # "account"
        /\ ~Fits(Source(leg)[Name(leg, at)], Width(leg, at))
    BY <1>2 DEF OverflowRaised, Encoder
  <2> QED
    BY <1>f, <2>1, WritersFit DEF Fits
<1>3. CASE Rejected
  <2>1. leg \in Legs /\ Complete(leg) /\ ~Passes(leg)
    BY <1>3 DEF Rejected, WireInv, TypeInv
  <2> QED
    BY <1>f, <2>1, FittingPasses
<1>4. CASE ReadField
  <2>1. leg' = leg /\ leg \notin CommitLegs /\ told' = told /\ signed' = signed
    BY <1>4 DEF ReadField, ReadingLegs, CommitLegs
  <2> QED
    BY <1>g, <1>i, <2>1 DEF FitInv
<1>5. CASE SendPayment
  <2>1. leg' = "opened" /\ told' = [n \in Names |-> IF n \in ReadPaymentKeys THEN given[n] ELSE told[n]]
    BY <1>5 DEF SendPayment, Tell, StartReading
  <2>2. told'["session_key"] = given["session_key"]
    BY <2>1 DEF ReadPaymentKeys, Names
  <2> QED
    BY <1>g, <2>1, <2>2 DEF FitInv, CommitLegs
<1>6. CASE SendCommit
  <2>1. /\ leg = "sign" /\ at = 6 /\ signed' = buffer
        /\ leg' = "verify" /\ at' = 1 /\ buffer' = <<>>
        /\ told' = [n \in Names |-> IF n \in ReadCommitKeys THEN given[n] ELSE told[n]]
    BY <1>6, CommitComplete DEF SendCommit, Tell, StartWriting, CommitLegs
  <2>2. told'["session_key"] = given["session_key"]
    BY <1>i, <2>1 DEF ReadCommitKeys, Names
  <2>3. signed' = Message(6) /\ buffer' = Message(1)
    BY <1>i, <2>1 DEF CommitLegs, Message, Nothing
  <2> QED
    BY <1>g, <2>1, <2>2, <2>3 DEF FitInv
<1>7. CASE ProgramReadsSettle \/ StartSession
  <2>1. /\ leg \in {"settled", "account"} /\ leg' \in {"check", "sign"}
        /\ leg' = "check" => leg = "settled"
        /\ at' = 1 /\ buffer' = <<>> /\ told' = told /\ signed' = signed
    BY <1>7 DEF ProgramReadsSettle, StartSession, StartWriting, Complete
  <2>2. buffer' = Message(1)
    BY <2>1 DEF Message, Nothing
  <2> QED
    BY <1>g, <1>i, <2>1, <2>2 DEF FitInv
<1>8. CASE CommitVerified \/ SubmitSettle
  <2>1. /\ leg \in {"verify", "settle"} /\ leg' \in {"settle", "settled"}
        /\ told' = told /\ signed' = signed
    BY <1>8 DEF CommitVerified, SubmitSettle, StartWriting, StartReading, Complete
  <2> QED
    BY <1>g, <1>i, <2>1 DEF FitInv, CommitLegs
<1>9. CASE ProgramOpens \/ ProgramSettles \/ PollSelects \/ PollPassesOver \/ SubmitClose
  <2>1. /\ leg \in {"opened", "check", "account", "scan"}
        /\ leg' \in {"account", "scan", "missed", "closed"}
        /\ told' = told
    BY <1>9 DEF ProgramOpens, ProgramSettles, PollSelects, PollPassesOver,
                SubmitClose, StartWriting, StartReading, Complete
  <2> QED
    BY <1>g, <1>i, <2>1 DEF FitInv, CommitLegs
<1>10. CASE UNCHANGED vars
  BY <1>g, <1>i, <1>10 DEF FitInv, vars
<1> QED
  BY <1>1, <1>2, <1>3, <1>4, <1>5, <1>6, <1>7, <1>8, <1>9, <1>10 DEF Next

(* No encoder, header, account list, signature check or account size stops *)
(* a channel whose numbers fit their fields, whatever the machine's limits *)
(* are: the three languages agree on every byte.                           *)
THEOREM FittingPassesThrough == Spec => []FittingNeverRefused
<1>1. Init => FitInv
  BY DEF Init, FitInv, CommitLegs
<1>2. WireInv /\ FitInv /\ [Next]_vars => FitInv'
  BY FitStep
<1>3. FitInv => FittingNeverRefused
  BY DEF FitInv, Fitting, FittingNeverRefused
<1> QED
  BY <1>1, <1>2, <1>3, WireInvariance, PTL DEF Spec

=============================================================================
