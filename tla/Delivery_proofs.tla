--------------------------- MODULE Delivery_proofs ---------------------------
(***************************************************************************)
(* Proofs about Delivery, for every set of texts, every number of attempts *)
(* and every bound: what the browser shows, what it is told at the end,    *)
(* and what the evaluators halt.                                           *)
(*                                                                         *)
(* Half of it is about operators: FoldLeft, by which Visible, TextOf,      *)
(* Words and split_chunk are written, is shown to be the iteration of its  *)
(* step (by the smallest counterexample, as LeastNumber gives it), and     *)
(* then each of them what it keeps of a text.                              *)
(***************************************************************************)
EXTENDS Delivery, FiniteSetTheorems, SequenceTheorems, TLAPS

-----------------------------------------------------------------------------
(* Induction over numbers and sequences, and folds. *)

(* A set of numbers that is not empty has a least one.                      *)
LEMMA LeastNumber ==
    ASSUME NEW T \in SUBSET Nat, T # {}
    PROVE  \E n \in T : \A k \in T : n <= k
<1>1. \E n \in T : \A k \in T : <<k, n>> \notin OpToRel(<, Nat)
    BY NatLessThanWellFounded, WFMin, Zenon
<1>2. ASSUME NEW n \in Nat, NEW k \in Nat, <<k, n>> \notin OpToRel(<, Nat)
      PROVE  n <= k
    <2>1. ~(k < n)
        BY <1>2, Zenon DEF OpToRel
    <2> QED
        BY <2>1
<1> QED
    BY <1>1, <1>2

(* A set that has 0 and, with a number below n, the next has every          *)
(* number up to n: else the least it lacks would have a predecessor in      *)
(* it.                                                                      *)
LEMMA NumbersReached ==
    ASSUME NEW G, NEW n \in Nat, 0 \in G, \A k \in 0..(n - 1) : k \in G => k + 1 \in G
    PROVE  \A k \in 0..n : k \in G
<1> DEFINE Missed == {k \in 0..n : k \notin G}
<1> SUFFICES ASSUME Missed # {} PROVE FALSE
    OBVIOUS
<1>0. Missed \in SUBSET Nat
    OBVIOUS
<1>1. PICK k \in Missed : \A j \in Missed : k <= j
    <2> HIDE DEF Missed
    <2> QED
        BY <1>0, LeastNumber
<1>2. k # 0 /\ k - 1 \in 0..(n - 1) /\ k - 1 \notin Missed
    BY <1>1
<1> QED
    BY <1>1, <1>2

(* A set that has the empty sequence and, with a sequence, all that are     *)
(* one longer has every sequence.                                           *)
LEMMA SequencesReached ==
    ASSUME NEW A, NEW G, <<>> \in G,
           \A s \in Seq(A), e \in A : s \in G => Append(s, e) \in G
    PROVE  \A s \in Seq(A) : s \in G
<1> DEFINE L == {n \in Nat : \A s \in Seq(A) : Len(s) = n => s \in G}
<1>1. 0 \in L
    BY EmptySeq
<1>2. ASSUME NEW n \in Nat, n \in L PROVE n + 1 \in L
    <2> SUFFICES ASSUME NEW s \in Seq(A), Len(s) = n + 1 PROVE s \in G
        OBVIOUS
    <2>1. s # <<>>
        OBVIOUS
    <2>2. PICK r \in Seq(A), e \in A : s = Append(r, e)
        BY <2>1, SequenceEmptyOrAppend
    <2>3. Len(r) = n
        BY <2>2
    <2> QED
        BY <1>2, <2>2, <2>3
<1> SUFFICES ASSUME NEW s \in Seq(A) PROVE s \in G
    OBVIOUS
<1>3. Len(s) \in Nat
    OBVIOUS
<1> HIDE DEF L
<1>4. \A k \in 0..(Len(s) - 1) : k \in L => k + 1 \in L
    BY <1>2, <1>3
<1>5. Len(s) \in 0..Len(s)
    BY <1>3
<1>6. Len(s) \in L
    BY <1>1, <1>3, <1>4, <1>5, NumbersReached
<1> QED
    BY <1>3, <1>6 DEF L

-----------------------------------------------------------------------------
IsRun(r, T, b, s) ==
    /\ r[0] = b
    /\ \A k \in 1..Len(s) : r[k] = T[<<r[k - 1], s[k]>>]

End(T, b, s) == (CHOOSE r : IsRun(r, T, b, s))[Len(s)]

(* T takes a state of B over an element of A to a state; b is the first.    *)
Machine(T, A, B, b) == b \in B /\ T \in [B \X A -> B]

(* A machine has a run over every sequence.                                 *)
LEMMA RunExists ==
    ASSUME NEW A, NEW B, NEW b, NEW T, Machine(T, A, B, b), NEW s \in Seq(A)
    PROVE  \E r \in [0..Len(s) -> B] : IsRun(r, T, b, s)
<1> DEFINE Goes(t) == \E r \in [0..Len(t) -> B] : IsRun(r, T, b, t)
           G == {t \in Seq(A) : Goes(t)}
<1>1. <<>> \in G
    <2> DEFINE r == [k \in 0..0 |-> b]
    <2>1. r \in [0..Len(<<>>) -> B] /\ IsRun(r, T, b, <<>>)
        BY DEF IsRun, Machine
    <2> QED
        BY <2>1
<1>2. ASSUME NEW t \in Seq(A), NEW e \in A, t \in G
      PROVE  Append(t, e) \in G
    <2>1. PICK r \in [0..Len(t) -> B] : IsRun(r, T, b, t)
        BY <1>2
    <2> DEFINE n == Len(t)
               q == [k \in 0..(n + 1) |-> IF k <= n THEN r[k] ELSE T[<<r[n], e>>]]
    <2>2. n \in Nat /\ Len(Append(t, e)) = n + 1 /\ Append(t, e) \in Seq(A)
        OBVIOUS
    <2>3. r[n] \in B /\ T[<<r[n], e>>] \in B
        BY <2>2 DEF Machine
    <2>4. q \in [0..(n + 1) -> B]
        BY <2>2, <2>3
    <2>5. \A k \in 1..(n + 1) : q[k] = T[<<q[k - 1], Append(t, e)[k]>>]
        <3> SUFFICES ASSUME NEW k \in 1..(n + 1)
                     PROVE  q[k] = T[<<q[k - 1], Append(t, e)[k]>>]
            OBVIOUS
        <3>1. CASE k <= n
            <4>0. k \in 1..Len(t)
                BY <2>2, <3>1
            <4>1. q[k] = r[k] /\ q[k - 1] = r[k - 1] /\ Append(t, e)[k] = t[k]
                <5>1. Append(t, e)[k] = t[k]
                    BY <4>0, AppendProperties
                <5>2. k \in 0..(n + 1) /\ k - 1 \in 0..(n + 1) /\ k - 1 <= n
                    BY <2>2, <3>1
                <5> QED
                    BY <5>1, <5>2, <3>1
            <4>2. r[k] = T[<<r[k - 1], t[k]>>]
                BY <2>1, <4>0 DEF IsRun
            <4> HIDE DEF q
            <4> QED
                BY <4>1, <4>2
        <3>2. CASE k = n + 1
            <4>1. q[k] = T[<<r[n], e>>] /\ q[k - 1] = r[n] /\ Append(t, e)[k] = e
                <5>1. Append(t, e)[k] = e
                    BY <3>2, AppendProperties
                <5>2. k \in 0..(n + 1) /\ k - 1 \in 0..(n + 1) /\ k - 1 = n /\ ~(k <= n)
                    BY <2>2, <3>2
                <5> QED
                    BY <5>1, <5>2
            <4> QED
                BY <4>1
        <3>3. k <= n \/ k = n + 1
            BY <2>2
        <3> HIDE DEF q, n
        <3> QED
            BY <3>1, <3>2, <3>3
    <2>6. q[0] = b
        BY <2>1, <2>2 DEF IsRun
    <2> HIDE DEF q, n
    <2>7. IsRun(q, T, b, Append(t, e))
        BY <2>2, <2>5, <2>6 DEF IsRun
    <2> QED
        BY <2>2, <2>4, <2>7
<1> HIDE DEF G
<1>3. s \in G
    BY <1>1, <1>2, SequencesReached
<1> QED
    BY <1>3 DEF G

(* Two runs agree on what the sequences have in common.                     *)
LEMMA RunsAgree ==
    ASSUME NEW T, NEW b, NEW s, NEW r, NEW q, Len(s) \in Nat,
           NEW t, Len(t) \in Nat, Len(s) <= Len(t), \A k \in 1..Len(s) : s[k] = t[k],
           IsRun(r, T, b, s), IsRun(q, T, b, t)
    PROVE  r[Len(s)] = q[Len(s)]
<1> DEFINE G == {k \in 0..Len(s) : r[k] = q[k]}
<1>1. 0 \in G
    BY DEF IsRun
<1>2. ASSUME NEW k \in 0..(Len(s) - 1), k \in G PROVE k + 1 \in G
    <2>1. k + 1 \in 1..Len(s) /\ k + 1 \in 1..Len(t) /\ (k + 1) - 1 = k
        OBVIOUS
    <2>2. r[k + 1] = T[<<r[k], s[k + 1]>>] /\ q[k + 1] = T[<<q[k], t[k + 1]>>]
        BY <2>1 DEF IsRun
    <2> QED
        BY <1>2, <2>1, <2>2
<1> HIDE DEF G
<1>3. Len(s) \in 0..Len(s)
    OBVIOUS
<1>4. Len(s) \in G
    BY <1>1, <1>2, <1>3, NumbersReached
<1> QED
    BY <1>4 DEF G

(* A run ends where the machine does.                                       *)
LEMMA EndIsRun ==
    ASSUME NEW A, NEW B, NEW b, NEW T, Machine(T, A, B, b), NEW s \in Seq(A),
           NEW r, IsRun(r, T, b, s)
    PROVE  End(T, b, s) = r[Len(s)]
<1> DEFINE R(q) == IsRun(q, T, b, s)
<1>1. R(CHOOSE q : R(q))
    BY Zenon
<1> DEFINE q == CHOOSE q : R(q)
<1>2. R(q)
    BY <1>1
<1> HIDE DEF q
<1>3. q[Len(s)] = r[Len(s)]
    BY <1>2, RunsAgree
<1> QED
    BY <1>3 DEF q, End

(* So End is the iteration of T: it has the equations a recursive           *)
(* definition would have.                                                   *)
LEMMA Ends ==
    ASSUME NEW A, NEW B, NEW b, NEW T, Machine(T, A, B, b)
    PROVE  /\ End(T, b, <<>>) = b
           /\ \A s \in Seq(A) : End(T, b, s) \in B
           /\ \A s \in Seq(A), e \in A :
                 End(T, b, Append(s, e)) = T[<<End(T, b, s), e>>]
<1>1. ASSUME NEW s \in Seq(A) PROVE End(T, b, s) \in B
    <2>1. PICK r \in [0..Len(s) -> B] : IsRun(r, T, b, s)
        BY RunExists
    <2>2. r[Len(s)] \in B
        OBVIOUS
    <2> QED
        BY <2>1, <2>2, EndIsRun
<1>2. End(T, b, <<>>) = b
    <2>1. <<>> \in Seq(A) /\ Len(<<>>) = 0
        OBVIOUS
    <2>2. PICK r \in [0..Len(<<>>) -> B] : IsRun(r, T, b, <<>>)
        BY <2>1, RunExists
    <2>3. End(T, b, <<>>) = r[Len(<<>>)]
        BY <2>1, <2>2, EndIsRun
    <2> QED
        BY <2>1, <2>2, <2>3 DEF IsRun
<1>3. ASSUME NEW s \in Seq(A), NEW e \in A
      PROVE  End(T, b, Append(s, e)) = T[<<End(T, b, s), e>>]
    <2> DEFINE t == Append(s, e)
               n == Len(s)
    <2>1. t \in Seq(A) /\ n \in Nat /\ Len(t) = n + 1 /\ t[n + 1] = e
          /\ \A k \in 1..n : t[k] = s[k]
        OBVIOUS
    <2> HIDE DEF t, n
    <2>2. PICK r : IsRun(r, T, b, t)
        BY <2>1, RunExists
    <2>3. IsRun(r, T, b, s)
        BY <2>1, <2>2 DEF IsRun, n
    <2>4. End(T, b, t) = r[n + 1] /\ End(T, b, s) = r[n]
        BY <2>1, <2>2, <2>3, EndIsRun DEF n
    <2>5. r[n + 1] = T[<<r[n], e>>]
        BY <2>1, <2>2 DEF IsRun
    <2> QED
        BY <2>4, <2>5 DEF t
<1> QED
    BY <1>1, <1>2, <1>3

-----------------------------------------------------------------------------
(* FoldLeft *)

(* Max of a set of positions, and the set without it (the domains           *)
(* MapThenFoldSet recurs through).                                          *)
LEMMA MaxTaken ==
    ASSUME NEW n \in Nat, NEW u \in SUBSET (1..n), u # {}
    PROVE  /\ Max(u) \in u /\ \A i \in u : i <= Max(u)
           /\ IsFiniteSet(u) /\ Cardinality(u) \in Nat \ {0}
           /\ Cardinality(u \ {Max(u)}) = Cardinality(u) - 1
<1> DEFINE Below == {n - i : i \in u}
<1>0. \A i \in u : i \in 1..n /\ n - i \in Nat
    OBVIOUS
<1>1. Below \in SUBSET Nat /\ Below # {}
    BY <1>0
<1>2. PICK d \in Below : \A k \in Below : d <= k
    <2> HIDE DEF Below
    <2> QED
        BY <1>1, LeastNumber
<1>3. PICK m \in u : d = n - m
    BY <1>2
<1>4. \A i \in u : m >= i
    <2> SUFFICES ASSUME NEW i \in u PROVE m >= i
        OBVIOUS
    <2>1. n - m <= n - i
        BY <1>2, <1>3
    <2> QED
        BY <1>0, <2>1
<1>5. Max(u) \in u /\ \A i \in u : Max(u) >= i
    BY <1>3, <1>4, Zenon DEF Max
<1>6. \A i \in u : i <= Max(u)
    BY <1>5
<1>7. IsFiniteSet(u) /\ Cardinality(u) \in Nat
    <2>1. IsFiniteSet(1..n)
        BY FS_Interval
    <2> QED
        BY <2>1, FS_Subset, FS_CardinalityType
<1> QED
    BY <1>5, <1>6, <1>7, FS_RemoveElement, FS_EmptySet

(* The function by which FoldLeft is defined, for the step T. *)
Folds(g, T, b, s) ==
    \A u \in SUBSET (1..Len(s)) :
       g[u] = IF u = {} THEN b ELSE T[<<g[u \ {Max(u)}], s[Max(u)]>>]

(* The recursive function under FoldLeft exists for a machine.              *)
LEMMA FoldExists ==
    ASSUME NEW A, NEW B, NEW b, NEW T, Machine(T, A, B, b), NEW s \in Seq(A)
    PROVE  \E g \in [SUBSET (1..Len(s)) -> B] : Folds(g, T, b, s)
<1> DEFINE S == 1..Len(s)
           Small(n) == {u \in SUBSET S : Cardinality(u) <= n}
           V(g, u) == IF u = {} THEN b ELSE T[<<g[u \ {Max(u)}], s[Max(u)]>>]
           Reached(n) == \E g \in [Small(n) -> B] : \A u \in Small(n) : g[u] = V(g, u)
           Gone == {n \in Nat : Reached(n)}
<1>0. Len(s) \in Nat /\ b \in B /\ \A u \in SUBSET S : Cardinality(u) \in Nat
    <2>1. Len(s) \in Nat /\ b \in B
        BY DEF Machine
    <2>2. IsFiniteSet(S)
        BY <2>1, FS_Interval
    <2> QED
        BY <2>1, <2>2, FS_Subset, FS_CardinalityType
<1>1. 0 \in Gone
    <2> DEFINE g == [u \in Small(0) |-> b]
    <2>1. \A u \in Small(0) : u = {}
        <3> SUFFICES ASSUME NEW u \in SUBSET S, Cardinality(u) <= 0, u # {}
                     PROVE  FALSE
            OBVIOUS
        <3>1. Cardinality(u) \in Nat \ {0}
            BY <1>0, MaxTaken
        <3> QED
            BY <3>1
    <2>2. g \in [Small(0) -> B] /\ \A u \in Small(0) : g[u] = V(g, u)
        BY <1>0, <2>1
    <2> QED
        BY <2>2
<1>2. ASSUME NEW n \in Nat, n \in Gone
      PROVE  n + 1 \in Gone
    <2>1. PICK g \in [Small(n) -> B] : \A u \in Small(n) : g[u] = V(g, u)
        BY <1>2
    <2> DEFINE h == [u \in Small(n + 1) |-> V(g, u)]
    <2>2. ASSUME NEW u \in Small(n + 1), u # {}
          PROVE  u \ {Max(u)} \in Small(n) /\ Max(u) \in S
        <3>1. /\ Max(u) \in u /\ Cardinality(u) \in Nat
              /\ Cardinality(u \ {Max(u)}) = Cardinality(u) - 1
            BY <1>0, <2>2, MaxTaken
        <3>2. u \in SUBSET S /\ Cardinality(u) <= n + 1
            OBVIOUS
        <3>3. u \ {Max(u)} \in SUBSET S /\ Max(u) \in S
            BY <3>1, <3>2
        <3> DEFINE m == Cardinality(u)
                   k == Cardinality(u \ {Max(u)})
        <3>4. k <= n
            <4>1. m \in Nat /\ m <= n + 1 /\ k = m - 1
                BY <3>1, <3>2
            <4> HIDE DEF m, k
            <4> QED
                BY <4>1
        <3> QED
            BY <3>3, <3>4
    <2>3. \A u \in Small(n + 1) : V(g, u) \in B
        <3> SUFFICES ASSUME NEW u \in Small(n + 1), u # {}
                     PROVE  T[<<g[u \ {Max(u)}], s[Max(u)]>>] \in B
            BY <1>0
        <3>1. g[u \ {Max(u)}] \in B /\ s[Max(u)] \in A
            BY <2>2
        <3> QED
            BY <3>1 DEF Machine
    <2>4. \A u \in Small(n) : u \in Small(n + 1) /\ h[u] = g[u]
        <3>1. \A u \in Small(n) : Cardinality(u) \in Nat
            BY <1>0
        <3>2. \A u \in Small(n) : u \in Small(n + 1)
            BY <3>1
        <3> QED
            BY <2>1, <3>2
    <2>5. h \in [Small(n + 1) -> B]
        BY <2>3
    <2>6. ASSUME NEW u \in Small(n + 1) PROVE h[u] = V(h, u)
        <3>1. CASE u = {}
            BY <3>1
        <3>2. CASE u # {}
            <4>1. h[u \ {Max(u)}] = g[u \ {Max(u)}]
                BY <2>2, <2>4, <3>2
            <4> QED
                BY <3>2, <4>1
        <3> QED
            BY <3>1, <3>2
    <2> HIDE DEF h, V, Small
    <2> QED
        BY <2>5, <2>6
<1> DEFINE N == Cardinality(S)
<1>3. N \in Nat /\ Small(N) = SUBSET S
    <2>1. IsFiniteSet(S)
        BY <1>0, FS_Interval
    <2> QED
        BY <1>0, <2>1, FS_Subset
<1>4. N \in Gone
    <2> HIDE DEF Gone, N
    <2>1. N \in 0..N /\ \A k \in 0..(N - 1) : k \in Gone => k + 1 \in Gone
        BY <1>2, <1>3
    <2> QED
        BY <1>1, <1>3, <2>1, NumbersReached
<1> QED
    BY <1>3, <1>4 DEF Folds

(* Any function that satisfies the equation gives the end of the run.       *)
LEMMA FoldIsEnd ==
    ASSUME NEW A, NEW B, NEW b, NEW T, Machine(T, A, B, b), NEW s \in Seq(A),
           NEW g, g[{}] = b,
           \A k \in 1..Len(s) :
              g[1..(k - 1)] \in B => g[1..k] = T[<<g[1..(k - 1)], s[k]>>]
    PROVE  g[1..Len(s)] = End(T, b, s)
<1>1. PICK r \in [0..Len(s) -> B] : IsRun(r, T, b, s)
    BY RunExists
<1>2. Len(s) \in Nat
    OBVIOUS
<1> DEFINE G == {k \in 0..Len(s) : g[1..k] = r[k]}
<1>3. 0 \in G
    <2>1. 1..0 = {}
        OBVIOUS
    <2> QED
        BY <1>1, <1>2, <2>1 DEF IsRun
<1>4. ASSUME NEW k \in 0..(Len(s) - 1), k \in G PROVE k + 1 \in G
    <2> DEFINE j == k + 1
    <2>1. j \in 1..Len(s) /\ j - 1 = k /\ r[k] \in B
        BY <1>2
    <2>2. g[1..(j - 1)] = r[j - 1]
        BY <1>4, <2>1
    <2>3. r[j] = T[<<r[j - 1], s[j]>>]
        BY <1>1, <2>1 DEF IsRun
    <2> HIDE DEF j
    <2>4. g[1..j] = r[j]
        BY <2>1, <2>2, <2>3
    <2> QED
        BY <1>2, <2>1, <2>4 DEF j
<1> HIDE DEF G
<1>5. Len(s) \in 0..Len(s)
    BY <1>2
<1>6. Len(s) \in G
    BY <1>2, <1>3, <1>4, <1>5, NumbersReached
<1> QED
    BY <1>1, <1>6, EndIsRun DEF G

(* Of a prefix of numbers the greatest is the last.                         *)
LEMMA LastOfPrefix ==
    ASSUME NEW k \in Nat \ {0}
    PROVE  Max(1..k) = k /\ (1..k) \ {k} = 1..(k - 1) /\ 1..k # {}
<1>1. 1..k \in SUBSET (1..k) /\ 1..k # {} /\ k \in 1..k
    OBVIOUS
<1>2. Max(1..k) \in 1..k /\ \A i \in 1..k : i <= Max(1..k)
    BY <1>1, MaxTaken
<1>3. Max(1..k) = k
    BY <1>1, <1>2
<1> QED
    BY <1>1, <1>3

-----------------------------------------------------------------------------
(* Texts: what is visible of them, and of records that carry them. *)

Text == Seq(Alphabet)

(* Concatenation of texts.                                                  *)
LEMMA TextFacts ==
    /\ <<>> \in Text
    /\ \A s \in Text : s \o <<>> = s /\ <<>> \o s = s
    /\ \A s, t \in Text : s \o t \in Text
    /\ \A s, t, u \in Text : (s \o t) \o u = s \o (t \o u)
    /\ \A s \in Text, c \in Alphabet : Append(s, c) \in Text
<1> HIDE DEF Alphabet
<1> QED
    BY ConcatEmptySeq, ConcatAssociative DEF Text

VisibleStep ==
    [p \in Text \X Alphabet |-> IF p[2] = " " THEN p[1] ELSE Append(p[1], p[2])]

(* Visible is the machine that drops blanks.                                *)
LEMMA VisibleMachine == Machine(VisibleStep, Alphabet, Text, <<>>)
<1> HIDE DEF Alphabet
<1>1. \A t \in Text, c \in Alphabet : Append(t, c) \in Text
    BY DEF Text
<1>2. <<>> \in Text
    BY DEF Text
<1> HIDE DEF Text
<1> QED
    BY <1>1, <1>2 DEF Machine, VisibleStep

(* So Visible, a fold, is its iteration.                                    *)
LEMMA VisibleIsEnd ==
    ASSUME NEW s \in Text
    PROVE  Visible(s) = End(VisibleStep, <<>>, s)
<1> DEFINE S == 1..Len(s)
           R(g) == g = [u \in SUBSET S |->
                          IF u = {} THEN <<>>
                          ELSE IF s[Max(u)] = " " THEN g[u \ {Max(u)}]
                               ELSE Append(g[u \ {Max(u)}], s[Max(u)])]
<1>0. Len(s) \in Nat /\ DOMAIN s = S /\ \A i \in S : s[i] \in Alphabet
    BY DEF Text
<1>1. Visible(s) = (CHOOSE g : R(g))[S]
    BY <1>0, Zenon DEF Visible, FoldLeft, MapThenFoldSet
<1>2. \E g : R(g)
    <2>1. PICK g \in [SUBSET S -> Text] : Folds(g, VisibleStep, <<>>, s)
        BY VisibleMachine, FoldExists DEF Text
    <2>2. \A u \in SUBSET S : u # {} => g[u \ {Max(u)}] \in Text /\ s[Max(u)] \in Alphabet
        BY <1>0, MaxTaken
    <2>3. \A u \in SUBSET S :
             g[u] = IF u = {} THEN <<>>
                    ELSE IF s[Max(u)] = " " THEN g[u \ {Max(u)}]
                         ELSE Append(g[u \ {Max(u)}], s[Max(u)])
        BY <2>1, <2>2 DEF VisibleStep, Folds
    <2>4. g = [u \in SUBSET S |-> g[u]]
        OBVIOUS
    <2>5. R(g)
        BY <2>3, <2>4
    <2> QED
        BY <2>5
<1> DEFINE g == CHOOSE g : R(g)
<1>3. R(g)
    BY <1>2
<1> HIDE DEF g
<1>4. g[{}] = <<>>
    BY <1>3
<1>5. ASSUME NEW k \in 1..Len(s), g[1..(k - 1)] \in Text
      PROVE  g[1..k] = VisibleStep[<<g[1..(k - 1)], s[k]>>]
    <2>1. Max(1..k) = k /\ (1..k) \ {k} = 1..(k - 1) /\ 1..k # {}
        BY <1>0, LastOfPrefix
    <2>2. 1..k \in SUBSET S /\ s[k] \in Alphabet
        BY <1>0
    <2>3. g[1..k] = IF s[k] = " " THEN g[1..(k - 1)] ELSE Append(g[1..(k - 1)], s[k])
        BY <1>3, <2>1, <2>2
    <2> QED
        BY <1>5, <2>2, <2>3 DEF VisibleStep
<1>6. g[S] = End(VisibleStep, <<>>, s)
    BY <1>4, <1>5, VisibleMachine, FoldIsEnd DEF Text
<1> QED
    BY <1>1, <1>6 DEF g

(* What Visible computes, one character after the other.                    *)
LEMMA VisibleParts ==
    /\ Visible(<<>>) = <<>>
    /\ \A s \in Text : Visible(s) \in Text
    /\ \A s \in Text, c \in Alphabet :
          Visible(Append(s, c)) = IF c = " " THEN Visible(s) ELSE Append(Visible(s), c)
<1>1. /\ End(VisibleStep, <<>>, <<>>) = <<>>
      /\ \A s \in Text : End(VisibleStep, <<>>, s) \in Text
      /\ \A s \in Text, c \in Alphabet : End(VisibleStep, <<>>, Append(s, c))
            = VisibleStep[<<End(VisibleStep, <<>>, s), c>>]
    BY VisibleMachine, Ends DEF Text
<1>2. \A s \in Text, c \in Alphabet : Append(s, c) \in Text
    BY DEF Text
<1>3. <<>> \in Text
    BY DEF Text
<1>4. ASSUME NEW s \in Text, NEW c \in Alphabet
      PROVE  Visible(Append(s, c)) = IF c = " " THEN Visible(s) ELSE Append(Visible(s), c)
    <2>1. Visible(Append(s, c)) = VisibleStep[<<Visible(s), c>>] /\ Visible(s) \in Text
        BY <1>1, <1>2, VisibleIsEnd
    <2> HIDE DEF Alphabet
    <2> QED
        BY <2>1 DEF VisibleStep
<1> QED
    BY <1>1, <1>3, <1>4, VisibleIsEnd

(* Blanks are dropped in each part of a concatenation.                      *)
LEMMA VisibleConcat ==
    ASSUME NEW s \in Text, NEW t \in Text
    PROVE  Visible(s \o t) = Visible(s) \o Visible(t)
<1> DEFINE G == {r \in Text : Visible(s \o r) = Visible(s) \o Visible(r)}
<1> HIDE DEF Alphabet
<1>1. <<>> \in G
    <2>1. s \o <<>> = s /\ <<>> \in Text
        BY TextFacts
    <2>2. Visible(s) \o <<>> = Visible(s)
        BY VisibleParts, TextFacts
    <2> QED
        BY <2>1, <2>2, VisibleParts
<1>2. ASSUME NEW r \in Text, NEW c \in Alphabet, r \in G
      PROVE  Append(r, c) \in G
    <2>1. s \o Append(r, c) = Append(s \o r, c) /\ s \o r \in Text /\ Append(r, c) \in Text
        BY DEF Text
    <2>2. Visible(s) \in Text /\ Visible(r) \in Text
        BY VisibleParts
    <2>3. Visible(s) \o Append(Visible(r), c) = Append(Visible(s) \o Visible(r), c)
        BY <2>2 DEF Text
    <2>4. /\ Visible(Append(s \o r, c))
                = IF c = " " THEN Visible(s \o r) ELSE Append(Visible(s \o r), c)
          /\ Visible(Append(r, c)) = IF c = " " THEN Visible(r) ELSE Append(Visible(r), c)
        BY <2>1, VisibleParts
    <2> QED
        BY <1>2, <2>1, <2>3, <2>4
<1> HIDE DEF G
<1>3. t \in G
    BY <1>1, <1>2, SequencesReached DEF Text
<1> QED
    BY <1>3 DEF G

-----------------------------------------------------------------------------
(* Records that carry a text. *)
Carriers(E) == \A e \in E : e.text \in Text

TextStep(E) == [p \in Text \X E |-> p[1] \o p[2].text]

(* The machine that appends the text of a record.                           *)
LEMMA TextMachine ==
    ASSUME NEW E, Carriers(E)
    PROVE  Machine(TextStep(E), E, Text, <<>>)
<1>1. \A t \in Text, e \in E : t \o e.text \in Text
    BY TextFacts DEF Carriers
<1> QED
    BY <1>1, TextFacts DEF Machine, TextStep

(* TextOf is the machine that appends the texts of the records.             *)
LEMMA TextOfIsEnd ==
    ASSUME NEW E, Carriers(E), NEW s \in Seq(E)
    PROVE  TextOf(s) = End(TextStep(E), <<>>, s)
<1> DEFINE S == 1..Len(s)
           R(g) == g = [u \in SUBSET S |->
                          IF u = {} THEN <<>>
                          ELSE g[u \ {Max(u)}] \o s[Max(u)].text]
<1>0. Len(s) \in Nat /\ DOMAIN s = S /\ \A i \in S : s[i] \in E
    OBVIOUS
<1>1. TextOf(s) = (CHOOSE g : R(g))[S]
    BY <1>0, Zenon DEF TextOf, FoldLeft, MapThenFoldSet
<1>2. \E g : R(g)
    <2>1. PICK g \in [SUBSET S -> Text] : Folds(g, TextStep(E), <<>>, s)
        BY TextMachine, FoldExists
    <2>2. \A u \in SUBSET S : u # {} => g[u \ {Max(u)}] \in Text /\ s[Max(u)] \in E
        BY <1>0, MaxTaken
    <2>3. \A u \in SUBSET S :
             g[u] = IF u = {} THEN <<>> ELSE g[u \ {Max(u)}] \o s[Max(u)].text
        BY <2>1, <2>2 DEF TextStep, Folds
    <2>4. g = [u \in SUBSET S |-> g[u]]
        OBVIOUS
    <2>5. R(g)
        BY <2>3, <2>4
    <2> QED
        BY <2>5
<1> DEFINE g == CHOOSE g : R(g)
<1>3. R(g)
    BY <1>2
<1> HIDE DEF g
<1>4. g[{}] = <<>>
    BY <1>3
<1>5. ASSUME NEW k \in 1..Len(s), g[1..(k - 1)] \in Text
      PROVE  g[1..k] = TextStep(E)[<<g[1..(k - 1)], s[k]>>]
    <2>1. Max(1..k) = k /\ (1..k) \ {k} = 1..(k - 1) /\ 1..k # {}
        BY <1>0, LastOfPrefix
    <2>2. 1..k \in SUBSET S /\ s[k] \in E
        BY <1>0
    <2>3. g[1..k] = g[1..(k - 1)] \o s[k].text
        BY <1>3, <2>1, <2>2
    <2> QED
        BY <1>5, <2>2, <2>3 DEF TextStep
<1>6. g[S] = End(TextStep(E), <<>>, s)
    BY <1>4, <1>5, TextMachine, FoldIsEnd
<1> QED
    BY <1>1, <1>6 DEF g

(* So it has these equations.                                               *)
LEMMA TextOfParts ==
    ASSUME NEW E, Carriers(E)
    PROVE  /\ TextOf(<<>>) = <<>>
           /\ \A s \in Seq(E) : TextOf(s) \in Text
           /\ \A s \in Seq(E), e \in E : TextOf(Append(s, e)) = TextOf(s) \o e.text
<1>1. /\ End(TextStep(E), <<>>, <<>>) = <<>>
      /\ \A s \in Seq(E) : End(TextStep(E), <<>>, s) \in Text
      /\ \A s \in Seq(E), e \in E : End(TextStep(E), <<>>, Append(s, e))
            = TextStep(E)[<<End(TextStep(E), <<>>, s), e>>]
    BY TextMachine, Ends
<1>2. <<>> \in Seq(E) /\ \A s \in Seq(E), e \in E : Append(s, e) \in Seq(E)
    OBVIOUS
<1>3. ASSUME NEW s \in Seq(E), NEW e \in E
      PROVE  TextOf(Append(s, e)) = TextOf(s) \o e.text
    <2>1. TextOf(Append(s, e)) = TextStep(E)[<<TextOf(s), e>>] /\ TextOf(s) \in Text
        BY <1>1, <1>2, TextOfIsEnd
    <2> QED
        BY <2>1 DEF TextStep
<1> QED
    BY <1>1, <1>2, <1>3, TextOfIsEnd

(* TextOf of a concatenation is the concatenation of both.                  *)
LEMMA TextOfConcat ==
    ASSUME NEW E, Carriers(E), NEW s \in Seq(E), NEW t \in Seq(E)
    PROVE  TextOf(s \o t) = TextOf(s) \o TextOf(t)
<1> DEFINE G == {r \in Seq(E) : TextOf(s \o r) = TextOf(s) \o TextOf(r)}
<1>1. <<>> \in G
    <2>1. s \o <<>> = s /\ <<>> \in Seq(E)
        BY ConcatEmptySeq
    <2>2. TextOf(s) \o <<>> = TextOf(s)
        BY TextOfParts, TextFacts
    <2> QED
        BY <2>1, <2>2, TextOfParts
<1>2. ASSUME NEW r \in Seq(E), NEW e \in E, r \in G
      PROVE  Append(r, e) \in G
    <2>1. s \o Append(r, e) = Append(s \o r, e) /\ s \o r \in Seq(E) /\ Append(r, e) \in Seq(E)
        OBVIOUS
    <2>2. TextOf(s) \in Text /\ TextOf(r) \in Text /\ e.text \in Text
        BY TextOfParts DEF Carriers
    <2>3. (TextOf(s) \o TextOf(r)) \o e.text = TextOf(s) \o (TextOf(r) \o e.text)
        BY <2>2, TextFacts
    <2>4. /\ TextOf(Append(s \o r, e)) = TextOf(s \o r) \o e.text
          /\ TextOf(Append(r, e)) = TextOf(r) \o e.text
        BY <2>1, TextOfParts
    <2> QED
        BY <1>2, <2>1, <2>3, <2>4
<1> HIDE DEF G
<1>3. t \in G
    BY <1>1, <1>2, SequencesReached
<1> QED
    BY <1>3 DEF G

-----------------------------------------------------------------------------
(* Pieces and words. *)

(* Pieces, put together again. *)
JoinStep == [p \in Text \X Text |-> p[1] \o p[2]]
Joined(parts) == End(JoinStep, <<>>, parts)

(* Pieces put together, one after the other.                                *)
LEMMA JoinedParts ==
    /\ Joined(<<>>) = <<>>
    /\ \A s \in Seq(Text) : Joined(s) \in Text
    /\ \A s \in Seq(Text), t \in Text : Joined(Append(s, t)) = Joined(s) \o t
<1>1. Machine(JoinStep, Text, Text, <<>>)
    BY TextFacts DEF Machine, JoinStep
<1>2. /\ Joined(<<>>) = <<>>
      /\ \A s \in Seq(Text) : Joined(s) \in Text
      /\ \A s \in Seq(Text), t \in Text : Joined(Append(s, t)) = JoinStep[<<Joined(s), t>>]
    BY <1>1, Ends DEF Joined
<1> QED
    BY <1>2 DEF JoinStep

(* One piece is its own text.                                               *)
LEMMA JoinedOne ==
    ASSUME NEW t \in Text
    PROVE  Joined(<<t>>) = t
<1>1. <<t>> = Append(<<>>, t) /\ <<>> \in Seq(Text)
    OBVIOUS
<1>2. Joined(Append(<<>>, t)) = <<>> \o t
    BY <1>1, JoinedParts
<1> QED
    BY <1>1, <1>2, TextFacts

(* The first piece stands first.                                            *)
LEMMA JoinedFirst ==
    ASSUME NEW s \in Seq(Text), s # <<>>
    PROVE  Joined(s) = Head(s) \o Joined(Tail(s))
<1> DEFINE h == Head(s)
           G == {r \in Seq(Text) : Joined(<<h>> \o r) = h \o Joined(r)}
<1>0. h \in Text /\ Tail(s) \in Seq(Text) /\ s = <<h>> \o Tail(s)
    <2>1. h \in Text /\ Tail(s) \in Seq(Text)
        OBVIOUS
    <2> DEFINE t == Tail(s)
    <2>2. Len(s) \in Nat \ {0} /\ Len(t) = Len(s) - 1
          /\ \A i \in 1..Len(t) : t[i] = s[i + 1]
        BY EmptySeq, HeadTailProperties
    <2>3. s[1] = h
        OBVIOUS
    <2> HIDE DEF h, t
    <2>4. /\ <<h>> \o t \in Seq(Text) /\ Len(<<h>> \o t) = 1 + Len(t)
          /\ \A i \in 1..(1 + Len(t)) : (<<h>> \o t)[i] = IF i <= 1 THEN h ELSE t[i - 1]
        <3>1. <<h>> \in Seq(Text) /\ t \in Seq(Text) /\ Len(<<h>>) = 1 /\ <<h>>[1] = h
            BY <2>1 DEF h, t
        <3>2. /\ <<h>> \o t \in Seq(Text)
              /\ Len(<<h>> \o t) = Len(<<h>>) + Len(t)
              /\ \A i \in 1..(Len(<<h>>) + Len(t)) : (<<h>> \o t)[i] =
                     IF i <= Len(<<h>>) THEN <<h>>[i] ELSE t[i - Len(<<h>>)]
            BY <3>1, ConcatProperties
        <3>3. \A i \in 1..(1 + Len(t)) : i <= 1 => i = 1
            OBVIOUS
        <3> QED
            BY <3>1, <3>2, <3>3
    <2>5. s = <<h>> \o t
        <3>1. Len(s) = Len(<<h>> \o t)
            BY <2>2, <2>4
        <3>2. ASSUME NEW i \in 1..Len(s) PROVE s[i] = (<<h>> \o t)[i]
            <4>1. CASE i = 1
                BY <4>1, <2>2, <2>3, <2>4
            <4>2. CASE i # 1
                <5>1. i - 1 \in 1..Len(t) /\ (i - 1) + 1 = i /\ ~(i <= 1)
                    BY <4>2, <2>2
                <5> QED
                    BY <5>1, <2>2, <2>4
            <4> QED
                BY <4>1, <4>2
        <3> QED
            BY <2>4, <3>1, <3>2, SeqEqual
    <2> QED
        BY <2>1, <2>5 DEF t
<1> HIDE DEF h
<1>1. <<>> \in G
    <2>1. <<h>> \o <<>> = <<h>> /\ h \o <<>> = h
        BY <1>0, TextFacts, ConcatEmptySeq
    <2>2. <<>> \in Seq(Text)
        OBVIOUS
    <2>3. Joined(<<h>> \o <<>>) = h /\ h \o Joined(<<>>) = h
        BY <1>0, <2>1, JoinedParts, JoinedOne
    <2> QED
        BY <2>2, <2>3
<1>2. ASSUME NEW r \in Seq(Text), NEW t \in Text, r \in G
      PROVE  Append(r, t) \in G
    <2>1. /\ <<h>> \o Append(r, t) = Append(<<h>> \o r, t)
          /\ <<h>> \o r \in Seq(Text) /\ Append(r, t) \in Seq(Text)
        BY <1>0
    <2>2. Joined(Append(<<h>> \o r, t)) = (h \o Joined(r)) \o t
        BY <1>2, <2>1, JoinedParts
    <2>3. (h \o Joined(r)) \o t = h \o (Joined(r) \o t)
        <3>1. Joined(r) \in Text
            BY JoinedParts
        <3> QED
            BY <1>0, <3>1, TextFacts
    <2> QED
        BY <2>1, <2>2, <2>3, JoinedParts
<1> HIDE DEF G
<1>3. Tail(s) \in G
    BY <1>0, <1>1, <1>2, SequencesReached
<1> QED
    BY <1>0, <1>3 DEF G, h

-----------------------------------------------------------------------------
NonBlank == Alphabet \ {" "}
Ink == Seq(NonBlank)

(* Text without blanks.                                                     *)
LEMMA InkFacts ==
    /\ <<>> \in Ink
    /\ \A t \in Ink : t \in Text /\ Visible(t) = t
    /\ \A t \in Ink, c \in Alphabet : c # " " => Append(t, c) \in Ink
<1> HIDE DEF Alphabet
<1>1. NonBlank \subseteq Alphabet /\ \A c \in Alphabet : c # " " <=> c \in NonBlank
    BY DEF NonBlank
<1>2. \A t \in Ink : t \in Text
    BY <1>1, SeqMonotonic DEF Ink, Text
<1>3. <<>> \in Ink /\ \A t \in Ink, c \in NonBlank : Append(t, c) \in Ink
    BY EmptySeq, AppendProperties DEF Ink
<1> DEFINE G == {t \in Ink : Visible(t) = t}
<1>4. <<>> \in G
    BY <1>3, VisibleParts
<1>5. ASSUME NEW t \in Ink, NEW c \in NonBlank, t \in G
      PROVE  Append(t, c) \in G
    <2>1. c \in Alphabet /\ c # " " /\ t \in Text
        BY <1>1, <1>2
    <2>2. Visible(Append(t, c)) = Append(Visible(t), c)
        BY <2>1, VisibleParts
    <2> QED
        BY <1>3, <1>5, <2>2
<1> HIDE DEF G
<1>6. \A t \in Ink : t \in G
    BY <1>4, <1>5, SequencesReached DEF Ink
<1> QED
    BY <1>1, <1>2, <1>3, <1>6 DEF G

Replaced(s, e) == [s EXCEPT ![Len(s)] = e]

(* The last word replaced.                                                  *)
LEMMA LastReplaced ==
    ASSUME NEW r \in Seq(Ink), NEW e \in Ink, NEW f \in Ink,
           NEW w, w = Append(r, e)
    PROVE  w[Len(w)] = e /\ Replaced(w, f) = Append(r, f)
<1> DEFINE a == Append(r, e)
           b == Append(r, f)
           n == Len(r)
           x == [a EXCEPT ![n + 1] = f]
<1>1. /\ n \in Nat /\ a \in Seq(Ink) /\ b \in Seq(Ink) /\ Len(a) = n + 1 /\ Len(b) = n + 1
      /\ \A i \in 1..n : a[i] = b[i]
      /\ a[n + 1] = e /\ b[n + 1] = f
    BY AppendProperties
<1> HIDE DEF a, b, n
<1>2. n + 1 \in 1..Len(a) /\ \A i \in 1..Len(a) : i = n + 1 \/ i \in 1..n
    BY <1>1
<1>3. x \in Seq(Ink) /\ Len(x) = n + 1
      /\ \A i \in 1..Len(a) : x[i] = IF i = n + 1 THEN f ELSE a[i]
    BY <1>1, <1>2, ExceptSeq
<1> HIDE DEF x
<1>4. \A i \in 1..Len(x) : x[i] = b[i]
    BY <1>1, <1>2, <1>3
<1>5. x = b
    BY <1>1, <1>3, <1>4, SeqEqual
<1> QED
    BY <1>1, <1>5 DEF x, a, b, Replaced

WordLists == Seq(Ink) \ {<<>>}

WordStep ==
    [p \in WordLists \X Alphabet |->
        IF p[2] = " " THEN Append(p[1], <<>>)
        ELSE [p[1] EXCEPT ![Len(p[1])] = Append(@, p[2])]]

(* A character that is not blank goes to the end of the last word.          *)
LEMMA LastWordGrows ==
    ASSUME NEW w \in WordLists, NEW c \in Alphabet, c # " "
    PROVE  /\ [w EXCEPT ![Len(w)] = Append(@, c)] \in WordLists
           /\ \E r \in Seq(Ink), e \in Ink :
                 /\ w = Append(r, e)
                 /\ [w EXCEPT ![Len(w)] = Append(@, c)] = Append(r, Append(e, c))
<1> HIDE DEF Alphabet
<1>1. PICK r \in Seq(Ink), e \in Ink : w = Append(r, e)
    BY SequenceEmptyOrAppend DEF WordLists
<1>2. Append(e, c) \in Ink
    BY InkFacts
<1> DEFINE n == Len(w)
<1>3. w[n] = e /\ [w EXCEPT ![n] = Append(e, c)] = Append(r, Append(e, c))
    <2> DEFINE f == Append(e, c)
    <2>1. f \in Ink
        BY <1>2
    <2> HIDE DEF f, n
    <2>2. w[Len(w)] = e /\ Replaced(w, f) = Append(r, f)
        BY <1>1, <2>1, LastReplaced
    <2>3. w[n] = e /\ [w EXCEPT ![n] = f] = Append(r, f)
        BY <2>2 DEF n, Replaced
    <2> QED
        BY <2>3 DEF f
<1> HIDE DEF n
<1>4. [w EXCEPT ![n] = Append(@, c)] = Append(r, Append(e, c))
    BY <1>3
<1>5. Append(r, Append(e, c)) \in WordLists
    <2> DEFINE f == Append(e, c)
    <2> HIDE DEF f
    <2>1. f \in Ink
        BY <1>2 DEF f
    <2>2. Append(r, f) \in Seq(Ink) /\ Append(r, f) # <<>>
        BY <2>1, AppendProperties
    <2> QED
        BY <2>2 DEF WordLists, f
<1> QED
    BY <1>1, <1>4, <1>5 DEF n

(* Words (str.split) is the machine that begins a word at each blank.       *)
LEMMA WordMachine == Machine(WordStep, Alphabet, WordLists, << <<>> >>)
<1> HIDE DEF Alphabet
<1>1. << <<>> >> \in WordLists
    <2>1. << <<>> >> = Append(<<>>, <<>>) /\ <<>> \in Seq(Ink)
        OBVIOUS
    <2>2. Append(<<>>, <<>>) \in Seq(Ink) /\ Append(<<>>, <<>>) # <<>>
        BY <2>1, InkFacts, AppendProperties
    <2> QED
        BY <2>1, <2>2 DEF WordLists
<1>2. \A w \in WordLists : Append(w, <<>>) \in WordLists
    BY InkFacts, AppendProperties DEF WordLists
<1>3. \A w \in WordLists, c \in Alphabet :
         (IF c = " " THEN Append(w, <<>>)
          ELSE [w EXCEPT ![Len(w)] = Append(@, c)]) \in WordLists
    BY <1>2, LastWordGrows
<1> HIDE DEF WordLists
<1> QED
    BY <1>1, <1>3 DEF Machine, WordStep

(* So Words, a fold, is its iteration.                                      *)
LEMMA WordsIsEnd ==
    ASSUME NEW s \in Text
    PROVE  Words(s) = End(WordStep, << <<>> >>, s)
<1> DEFINE S == 1..Len(s)
           W(words, c) == IF c = " " THEN Append(words, <<>>)
                          ELSE [words EXCEPT ![Len(words)] = Append(@, c)]
           R(g) == g = [u \in SUBSET S |->
                          IF u = {} THEN << <<>> >>
                          ELSE W(g[u \ {Max(u)}], s[Max(u)])]
<1>0. Len(s) \in Nat /\ DOMAIN s = S /\ \A i \in S : s[i] \in Alphabet
    BY DEF Text
<1>1. Words(s) = (CHOOSE g : R(g))[S]
    BY <1>0, Zenon DEF Words, FoldLeft, MapThenFoldSet
<1>s. \A w \in WordLists, c \in Alphabet : WordStep[<<w, c>>] = W(w, c)
    <2> HIDE DEF Alphabet, WordLists
    <2> QED
        BY DEF WordStep
<1> HIDE DEF W, Alphabet, WordLists
<1>2. \E g : R(g)
    <2>1. PICK g \in [SUBSET S -> WordLists] : Folds(g, WordStep, << <<>> >>, s)
        BY WordMachine, FoldExists DEF Text
    <2>2. \A u \in SUBSET S : u # {} => g[u \ {Max(u)}] \in WordLists /\ s[Max(u)] \in Alphabet
        BY <1>0, MaxTaken
    <2>3. \A u \in SUBSET S :
             g[u] = IF u = {} THEN << <<>> >> ELSE W(g[u \ {Max(u)}], s[Max(u)])
        BY <2>1, <2>2, <1>s DEF Folds
    <2>4. g = [u \in SUBSET S |-> g[u]]
        OBVIOUS
    <2>5. R(g)
        BY <2>3, <2>4
    <2> QED
        BY <2>5
<1> DEFINE g == CHOOSE g : R(g)
<1>3. R(g)
    BY <1>2
<1> HIDE DEF g
<1>4. g[{}] = << <<>> >>
    BY <1>3
<1>5. ASSUME NEW k \in 1..Len(s), g[1..(k - 1)] \in WordLists
      PROVE  g[1..k] = WordStep[<<g[1..(k - 1)], s[k]>>]
    <2>1. Max(1..k) = k /\ (1..k) \ {k} = 1..(k - 1) /\ 1..k # {}
        BY <1>0, LastOfPrefix
    <2>2. 1..k \in SUBSET S /\ s[k] \in Alphabet
        BY <1>0
    <2>3. g[1..k] = W(g[1..(k - 1)], s[k])
        BY <1>3, <2>1, <2>2
    <2> QED
        BY <1>5, <2>2, <2>3, <1>s
<1>6. g[S] = End(WordStep, << <<>> >>, s)
    BY <1>4, <1>5, WordMachine, FoldIsEnd DEF Text
<1> QED
    BY <1>1, <1>6 DEF g

(* What Words computes, one character after the other.                      *)
LEMMA WordsParts ==
    /\ Words(<<>>) = << <<>> >>
    /\ \A s \in Text : Words(s) \in WordLists
    /\ \A s \in Text, c \in Alphabet :
          Words(Append(s, c)) = IF c = " " THEN Append(Words(s), <<>>)
                                ELSE Replaced(Words(s), Append(Words(s)[Len(Words(s))], c))
<1> DEFINE b == << <<>> >>
<1> HIDE DEF b
<1>0. b = << <<>> >>
    BY DEF b
<1>1. /\ End(WordStep, b, <<>>) = b
      /\ \A s \in Text : End(WordStep, b, s) \in WordLists
      /\ \A s \in Text, c \in Alphabet : End(WordStep, b, Append(s, c))
            = WordStep[<<End(WordStep, b, s), c>>]
    BY WordMachine, <1>0, Ends DEF Text
<1>2. <<>> \in Text /\ \A s \in Text, c \in Alphabet : Append(s, c) \in Text
    BY TextFacts
<1>4. ASSUME NEW w \in WordLists, NEW c \in Alphabet
      PROVE  WordStep[<<w, c>>] = IF c = " " THEN Append(w, <<>>)
                                ELSE Replaced(w, Append(w[Len(w)], c))
    <2> HIDE DEF Alphabet, WordLists
    <2> QED
        BY DEF WordStep, Replaced
<1>5. \A s \in Text : Words(s) = End(WordStep, b, s)
    BY WordsIsEnd, <1>0
<1> HIDE DEF Alphabet, WordLists
<1>6. ASSUME NEW s \in Text, NEW c \in Alphabet
      PROVE  Words(Append(s, c)) = IF c = " " THEN Append(Words(s), <<>>)
                                ELSE Replaced(Words(s), Append(Words(s)[Len(Words(s))], c))
    <2> DEFINE w == Words(s)
    <2>1. Words(Append(s, c)) = WordStep[<<w, c>>] /\ w \in WordLists
        BY <1>1, <1>2, <1>5
    <2> HIDE DEF w
    <2> QED
        BY <2>1, <1>4 DEF w
<1> QED
    BY <1>0, <1>1, <1>2, <1>5, <1>6

(* Nothing but the blanks is lost by cutting a text into words.             *)
LEMMA WordsKeepText ==
    ASSUME NEW s \in Text
    PROVE  Words(s) \in WordLists /\ Joined(Words(s)) = Visible(s)
<1> DEFINE G == {t \in Text : Joined(Words(t)) = Visible(t)}
<1> HIDE DEF Alphabet
<1>1. <<>> \in G
    BY WordsParts, JoinedOne, VisibleParts, TextFacts
<1>2. ASSUME NEW t \in Text, NEW c \in Alphabet, t \in G
      PROVE  Append(t, c) \in G
    <2> DEFINE w == Words(t)
    <2>1. w \in WordLists /\ Joined(w) = Visible(t) /\ Append(t, c) \in Text
        BY <1>2, WordsParts, TextFacts
    <2>2. w \in Seq(Text) /\ <<>> \in Text
        BY <2>1, InkFacts, SeqMonotonic DEF WordLists
    <2>3. Words(Append(t, c)) = IF c = " " THEN Append(w, <<>>)
                                ELSE Replaced(w, Append(w[Len(w)], c))
        BY WordsParts
    <2> HIDE DEF w
    <2>4. CASE c = " "
        <3>1. Joined(Append(w, <<>>)) = Joined(w) \o <<>> /\ Joined(w) \in Text
            BY <2>2, JoinedParts
        <3>2. Joined(w) \o <<>> = Joined(w)
            BY <3>1, TextFacts
        <3> QED
            BY <2>1, <2>3, <2>4, <3>1, <3>2, VisibleParts
    <2>5. CASE c # " "
        <3>1. PICK r \in Seq(Ink), e \in Ink :
                 w = Append(r, e) /\ Replaced(w, Append(w[Len(w)], c)) = Append(r, Append(e, c))
            BY <2>1, <2>5, LastWordGrows DEF Replaced
        <3>2. e \in Text /\ Append(e, c) \in Text /\ Append(e, c) = e \o <<c>> /\ <<c>> \in Text
            <4>1. e \in Text
                BY InkFacts
            <4>2. <<c>> \in Text
                BY DEF Text
            <4>3. Append(e, c) = e \o <<c>>
                BY <4>1, AppendIsConcat DEF Text
            <4> QED
                BY <4>1, <4>2, <4>3, TextFacts
        <3>3. r \in Seq(Text)
            BY InkFacts, SeqMonotonic
        <3>4. Joined(w) = Joined(r) \o e /\ Joined(r) \in Text
            BY <3>1, <3>2, <3>3, JoinedParts
        <3>5. Joined(Append(r, Append(e, c))) = Joined(r) \o Append(e, c)
            BY <3>2, <3>3, JoinedParts
        <3>6. Joined(r) \o (e \o <<c>>) = (Joined(r) \o e) \o <<c>>
            <4> DEFINE j == Joined(r)
                       u == <<c>>
            <4>1. j \in Text /\ u \in Text /\ e \in Text
                BY <3>2, <3>4
            <4> HIDE DEF j, u
            <4>2. j \o (e \o u) = (j \o e) \o u
                BY <4>1, TextFacts
            <4> QED
                BY <4>2 DEF j, u
        <3>7. (Joined(r) \o e) \o <<c>> = Append(Joined(r) \o e, c)
            BY <3>2, <3>4, AppendIsConcat, TextFacts DEF Text
        <3>8. Visible(Append(t, c)) = Append(Visible(t), c)
            BY <2>5, VisibleParts
        <3> QED
            BY <2>1, <2>3, <2>5, <3>1, <3>2, <3>4, <3>5, <3>6, <3>7, <3>8
    <2> QED
        BY <2>4, <2>5
<1> HIDE DEF G
<1>3. s \in G
    BY <1>1, <1>2, SequencesReached DEF Text
<1> QED
    BY <1>3, WordsParts DEF G

NonEmpty == Text \ {<<>>}
Cuts == [pieces : Seq(NonEmpty), current : Text]
Uncut == [pieces |-> <<>>, current |-> <<>>]
AddStep == [p \in Cuts \X Ink |-> AddWord(p[1], p[2])]
VisibleOfCut(cut) == Visible(Joined(cut.pieces)) \o Visible(cut.current)

(* Lists of pieces that are not empty.                                      *)
LEMMA NonEmptyFacts ==
    /\ \A p \in Seq(NonEmpty) : p \in Seq(Text)
    /\ \A p \in Seq(NonEmpty), t \in NonEmpty : Append(p, t) \in Seq(NonEmpty)
    /\ <<>> \in Seq(NonEmpty)
<1> HIDE DEF Text
<1> QED
    BY SeqMonotonic, AppendProperties, EmptySeq DEF NonEmpty

(* A blank at the end is not seen.                                          *)
LEMMA BlankFacts ==
    ASSUME NEW t \in Text
    PROVE  /\ Append(t, " ") \in NonEmpty /\ Visible(Append(t, " ")) = Visible(t)
           /\ <<" ">> \in Text /\ t \o <<" ">> = Append(t, " ")
<1> DEFINE b == " "
<1>1. b \in Alphabet /\ b = " "
    BY DEF Alphabet
<1> HIDE DEF Alphabet, b
<1>2. Append(t, b) \in Text /\ Append(t, b) # <<>> /\ t \o <<b>> = Append(t, b)
    <2>1. t \in Seq(Alphabet)
        BY DEF Text
    <2>2. Append(t, b) \in Seq(Alphabet) /\ Append(t, b) # <<>>
        BY <1>1, <2>1, AppendProperties
    <2>3. Append(t, b) = t \o <<b>>
        BY <1>1, <2>1, AppendIsConcat
    <2> QED
        BY <2>2, <2>3 DEF Text
<1>3. <<b>> \in Text
    <2>1. \A c \in Alphabet : <<c>> \in Text
        BY DEF Text
    <2> QED
        BY <1>1, <2>1
<1>4. Visible(Append(t, b)) = Visible(t)
    BY <1>1, VisibleParts
<1> QED
    BY <1>1, <1>2, <1>3, <1>4 DEF NonEmpty

(* A word put on the current piece, or behind it, adds its own text and     *)
(* nothing else; no empty piece is cut off (gemini.py, split_chunk).        *)
LEMMA WordAdded ==
    ASSUME NEW cut \in Cuts, NEW word \in Ink
    PROVE  /\ AddWord(cut, word) \in Cuts
           /\ VisibleOfCut(AddWord(cut, word)) = VisibleOfCut(cut) \o word
<1> DEFINE c == cut.current
           p == cut.pieces
           long == IF c = <<>> THEN word ELSE c \o <<" ">> \o word
           V == Visible(Joined(p))
<1>1. c \in Text /\ p \in Seq(NonEmpty) /\ p \in Seq(Text) /\ cut = [pieces |-> p, current |-> c]
    BY NonEmptyFacts DEF Cuts
<1>2. word \in Text /\ Visible(word) = word
    BY InkFacts
<1>3. Joined(p) \in Text /\ V \in Text /\ Visible(c) \in Text
    BY <1>1, JoinedParts, VisibleParts
<1>4. AddWord(cut, word) =
         IF Len(long) > MaxChunkChars /\ c # <<>>
         THEN [pieces |-> Append(p, Append(c, " ")), current |-> word]
         ELSE [pieces |-> p, current |-> long]
    <2>1. [cut EXCEPT !.current = long] = [pieces |-> p, current |-> long]
        <3> HIDE DEF long, c, p
        <3> QED
            BY <1>1
    <2> QED
        BY <2>1 DEF AddWord
<1>5. long \in Text /\ Visible(long) = Visible(c) \o word
    <2>1. CASE c = <<>>
        BY <2>1, <1>2, VisibleParts, TextFacts
    <2>2. CASE c # <<>>
        <3>1. long = Append(c, " ") \o word /\ Append(c, " ") \in Text
            BY <2>2, <1>1, BlankFacts DEF NonEmpty
        <3> HIDE DEF long
        <3>2. Visible(Append(c, " ") \o word) = Visible(Append(c, " ")) \o Visible(word)
            BY <3>1, <1>2, VisibleConcat
        <3> QED
            BY <3>1, <3>2, <1>1, <1>2, BlankFacts, TextFacts
    <2> QED
        BY <2>1, <2>2
<1>6. Append(p, Append(c, " ")) \in Seq(NonEmpty)
    BY <1>1, BlankFacts, NonEmptyFacts
<1>7. Visible(Joined(Append(p, Append(c, " ")))) = V \o Visible(c)
    <2>1. Append(c, " ") \in Text /\ Visible(Append(c, " ")) = Visible(c)
        BY <1>1, BlankFacts DEF NonEmpty
    <2>2. Joined(Append(p, Append(c, " "))) = Joined(p) \o Append(c, " ")
        BY <1>1, <2>1, JoinedParts
    <2> HIDE DEF c, p
    <2>3. Visible(Joined(p) \o Append(c, " ")) = Visible(Joined(p)) \o Visible(Append(c, " "))
        BY <1>3, <2>1, VisibleConcat
    <2> QED
        BY <2>1, <2>2, <2>3
<1>8. VisibleOfCut(cut) = V \o Visible(c)
    BY DEF VisibleOfCut
<1>9. (V \o Visible(c)) \o word = V \o (Visible(c) \o word)
    <2> HIDE DEF V, c
    <2> QED
        BY <1>2, <1>3, TextFacts
<1> HIDE DEF c, p, long, V
<1>10. ASSUME NEW q \in Seq(NonEmpty), NEW t \in Text,
              AddWord(cut, word) = [pieces |-> q, current |-> t],
              Visible(Joined(q)) \o Visible(t) = (V \o Visible(c)) \o word
       PROVE  /\ AddWord(cut, word) \in Cuts
              /\ VisibleOfCut(AddWord(cut, word)) = VisibleOfCut(cut) \o word
    <2>1. AddWord(cut, word) \in Cuts
        BY <1>10 DEF Cuts
    <2>2. VisibleOfCut(AddWord(cut, word)) = Visible(Joined(q)) \o Visible(t)
        BY <1>10 DEF VisibleOfCut
    <2> QED
        BY <1>8, <1>10, <2>1, <2>2
<1>11. CASE Len(long) > MaxChunkChars /\ c # <<>>
    <2> DEFINE q == Append(p, Append(c, " "))
    <2>1. q \in Seq(NonEmpty) /\ Visible(Joined(q)) = V \o Visible(c)
        BY <1>6, <1>7
    <2>2. AddWord(cut, word) = [pieces |-> q, current |-> word]
        BY <1>4, <1>11
    <2> HIDE DEF q
    <2> QED
        BY <1>2, <1>10, <2>1, <2>2
<1>12. CASE ~(Len(long) > MaxChunkChars /\ c # <<>>)
    <2>1. AddWord(cut, word) = [pieces |-> p, current |-> long]
        BY <1>4, <1>12
    <2>2. Visible(Joined(p)) \o Visible(long) = (V \o Visible(c)) \o word
        BY <1>5, <1>9 DEF V
    <2> QED
        BY <1>1, <1>5, <1>10, <2>1, <2>2
<1> QED
    BY <1>11, <1>12

(* Adding words is a machine on cuts.                                       *)
LEMMA AddMachine == Machine(AddStep, Ink, Cuts, Uncut)
<1>1. Uncut \in Cuts
    BY NonEmptyFacts, TextFacts DEF Cuts, Uncut
<1> QED
    BY <1>1, WordAdded DEF Machine, AddStep

(* The fold over the words in split_chunk is a machine too.                 *)
LEMMA CutIsEnd ==
    ASSUME NEW s \in Seq(Ink)
    PROVE  FoldLeft(AddWord, Uncut, s) = End(AddStep, Uncut, s)
<1> DEFINE S == 1..Len(s)
           R(g) == g = [u \in SUBSET S |->
                          IF u = {} THEN Uncut
                          ELSE AddWord(g[u \ {Max(u)}], s[Max(u)])]
<1>0. Len(s) \in Nat /\ DOMAIN s = S /\ \A i \in S : s[i] \in Ink
    OBVIOUS
<1>1. FoldLeft(AddWord, Uncut, s) = (CHOOSE g : R(g))[S]
    BY <1>0, Zenon DEF FoldLeft, MapThenFoldSet
<1>s. \A c \in Cuts, w \in Ink : AddStep[<<c, w>>] = AddWord(c, w)
    BY DEF AddStep
<1> HIDE DEF Uncut
<1>2. \E g : R(g)
    <2>1. PICK g \in [SUBSET S -> Cuts] : Folds(g, AddStep, Uncut, s)
        BY AddMachine, FoldExists
    <2>2. \A u \in SUBSET S : u # {} => g[u \ {Max(u)}] \in Cuts /\ s[Max(u)] \in Ink
        BY <1>0, MaxTaken
    <2>3. \A u \in SUBSET S :
             g[u] = IF u = {} THEN Uncut ELSE AddWord(g[u \ {Max(u)}], s[Max(u)])
        BY <2>1, <2>2, <1>s DEF Folds
    <2>4. g = [u \in SUBSET S |-> g[u]]
        OBVIOUS
    <2>5. R(g)
        BY <2>3, <2>4
    <2> QED
        BY <2>5
<1> DEFINE g == CHOOSE g : R(g)
<1>3. R(g)
    BY <1>2
<1> HIDE DEF g
<1>4. g[{}] = Uncut
    BY <1>3
<1>5. ASSUME NEW k \in 1..Len(s), g[1..(k - 1)] \in Cuts
      PROVE  g[1..k] = AddStep[<<g[1..(k - 1)], s[k]>>]
    <2>1. Max(1..k) = k /\ (1..k) \ {k} = 1..(k - 1) /\ 1..k # {}
        BY <1>0, LastOfPrefix
    <2>2. 1..k \in SUBSET S /\ s[k] \in Ink
        BY <1>0
    <2>3. g[1..k] = AddWord(g[1..(k - 1)], s[k])
        BY <1>3, <2>1, <2>2
    <2> QED
        BY <1>5, <2>2, <2>3, <1>s
<1>6. g[S] = End(AddStep, Uncut, s)
    BY <1>4, <1>5, AddMachine, FoldIsEnd
<1> QED
    BY <1>1, <1>6 DEF g

(* What is cut off and what is left, together, is the words put             *)
(* together.                                                                *)
LEMMA CutKeepsText ==
    ASSUME NEW s \in Seq(Ink)
    PROVE  /\ FoldLeft(AddWord, Uncut, s) \in Cuts
           /\ VisibleOfCut(FoldLeft(AddWord, Uncut, s)) = Joined(s)
<1> DEFINE cut(r) == End(AddStep, Uncut, r)
           G == {r \in Seq(Ink) : VisibleOfCut(cut(r)) = Joined(r)}
<1>0. /\ cut(<<>>) = Uncut
      /\ \A r \in Seq(Ink) : cut(r) \in Cuts
      /\ \A r \in Seq(Ink), w \in Ink : cut(Append(r, w)) = AddWord(cut(r), w)
    <2>1. \A c \in Cuts, w \in Ink : AddStep[<<c, w>>] = AddWord(c, w)
        BY DEF AddStep
    <2>2. /\ cut(<<>>) = Uncut
          /\ \A r \in Seq(Ink) : cut(r) \in Cuts
          /\ \A r \in Seq(Ink), w \in Ink : cut(Append(r, w)) = AddStep[<<cut(r), w>>]
        <3> HIDE DEF Uncut, Cuts, Ink
        <3> QED
            BY AddMachine, Ends
    <2> HIDE DEF cut, Cuts
    <2> QED
        BY <2>1, <2>2
<1>1. <<>> \in G
    <2>1. VisibleOfCut(Uncut) = <<>>
        BY JoinedParts, VisibleParts, TextFacts DEF VisibleOfCut, Uncut
    <2> QED
        BY <1>0, <2>1, JoinedParts
<1>2. ASSUME NEW r \in Seq(Ink), NEW w \in Ink, r \in G
      PROVE  Append(r, w) \in G
    <2>1. VisibleOfCut(cut(Append(r, w))) = VisibleOfCut(cut(r)) \o w
        BY <1>0, WordAdded
    <2>2. r \in Seq(Text) /\ w \in Text
        BY InkFacts, SeqMonotonic
    <2>3. Joined(Append(r, w)) = Joined(r) \o w
        BY <2>2, JoinedParts
    <2>4. Append(r, w) \in Seq(Ink)
        BY AppendProperties
    <2> QED
        BY <1>2, <2>1, <2>3, <2>4
<1> HIDE DEF G
<1>3. s \in G
    BY <1>1, <1>2, SequencesReached
<1> QED
    BY <1>0, <1>3, CutIsEnd DEF G

(* Split_chunk: pieces that are not empty, and put together the text,       *)
(* blanks aside.                                                            *)
THEOREM SplitKeepsText ==
    ASSUME NEW text \in NonEmpty
    PROVE  /\ split_chunk(text) \in Seq(NonEmpty)
           /\ Visible(Joined(split_chunk(text))) = Visible(text)
<1> DEFINE cut == FoldLeft(AddWord, Uncut, Words(text))
<1>0. text \in Text
    BY DEF NonEmpty
<1>1. cut \in Cuts /\ VisibleOfCut(cut) = Visible(text)
    <2>1. Words(text) \in Seq(Ink) /\ Joined(Words(text)) = Visible(text)
        BY <1>0, WordsKeepText DEF WordLists
    <2> QED
        BY <2>1, CutKeepsText
<1>2. split_chunk(text) =
         IF Len(text) <= MaxChunkChars THEN <<text>>
         ELSE IF cut.current = <<>> THEN cut.pieces
         ELSE Append(cut.pieces, cut.current)
    BY Zenon DEF split_chunk, Uncut
<1> HIDE DEF cut
<1>3. /\ cut.pieces \in Seq(NonEmpty) /\ cut.pieces \in Seq(Text) /\ cut.current \in Text
      /\ Joined(cut.pieces) \in Text
    BY <1>1, NonEmptyFacts, JoinedParts DEF Cuts
<1>4. CASE Len(text) <= MaxChunkChars
    <2>1. <<text>> \in Seq(NonEmpty)
        <3> HIDE DEF NonEmpty
        <3> QED
            OBVIOUS
    <2> QED
        BY <1>0, <1>2, <1>4, <2>1, JoinedOne
<1>5. CASE cut.current = <<>> /\ ~(Len(text) <= MaxChunkChars)
    <2>1. VisibleOfCut(cut) = Visible(Joined(cut.pieces))
        <3>1. Visible(Joined(cut.pieces)) \o <<>> = Visible(Joined(cut.pieces))
            BY <1>3, VisibleParts, TextFacts
        <3> QED
            BY <1>5, <3>1, VisibleParts DEF VisibleOfCut
    <2> QED
        BY <1>1, <1>2, <1>3, <1>5, <2>1
<1>6. CASE cut.current # <<>> /\ ~(Len(text) <= MaxChunkChars)
    <2>1. split_chunk(text) = Append(cut.pieces, cut.current)
        BY <1>2, <1>6
    <2>2. cut.current \in NonEmpty
        BY <1>3, <1>6 DEF NonEmpty
    <2>3. Append(cut.pieces, cut.current) \in Seq(NonEmpty)
        BY <1>3, <2>2, NonEmptyFacts
    <2>4. Joined(Append(cut.pieces, cut.current)) = Joined(cut.pieces) \o cut.current
        BY <1>3, JoinedParts
    <2>5. Visible(Joined(cut.pieces) \o cut.current) = VisibleOfCut(cut)
        BY <1>3, VisibleConcat DEF VisibleOfCut
    <2> QED
        BY <1>1, <2>1, <2>3, <2>4, <2>5
<1> QED
    BY <1>4, <1>5, <1>6

-----------------------------------------------------------------------------
(* The evaluators: parts of a text. *)

(* Min of a set of positions.                                               *)
LEMMA MinTaken ==
    ASSUME NEW n \in Nat, NEW u \in SUBSET (1..n), u # {}
    PROVE  Min(u) \in u /\ \A i \in u : Min(u) <= i
<1>1. u \in SUBSET Nat
    OBVIOUS
<1>2. PICK m \in u : \A i \in u : m <= i
    BY <1>1, LeastNumber
<1> QED
    BY <1>2, Zenon DEF Min

(* IsPrefix, position by position.                                          *)
LEMMA PrefixIs ==
    ASSUME NEW A, NEW s \in Seq(A), NEW t \in Seq(A)
    PROVE  IsPrefix(s, t) <=> Len(s) <= Len(t) /\ \A i \in 1..Len(s) : s[i] = t[i]
<1> DEFINE n == Len(s)
<1>1. n \in Nat /\ Len(t) \in Nat
    OBVIOUS
<1>2. ASSUME n <= Len(t)
      PROVE  SubSeq(s, 1, n) = SubSeq(t, 1, n) <=> \A i \in 1..n : s[i] = t[i]
    <2> DEFINE a == SubSeq(s, 1, n)
               b == SubSeq(t, 1, n)
    <2>1. /\ \A i \in 1..n : s[i] \in A /\ t[i] \in A
          /\ 1 \in Int /\ n \in Int
        BY <1>1, <1>2
    <2>2. a \in Seq(A) /\ b \in Seq(A) /\ Len(a) = Len(b)
        BY <2>1, SubSeqProperties
    <2>3. Len(a) = n
        <3>1. Len(a) = IF 1 <= n THEN n - 1 + 1 ELSE 0
            BY <2>1, SubSeqProperties
        <3> HIDE DEF a
        <3> QED
            BY <1>1, <3>1
    <2>4. \A i \in 1..n : a[i] = s[i] /\ b[i] = t[i]
        <3> SUFFICES ASSUME NEW i \in 1..n PROVE a[i] = s[i] /\ b[i] = t[i]
            OBVIOUS
        <3>1. i \in 1..(n - 1 + 1) /\ 1 + i - 1 = i
            BY <1>1
        <3>2. a[i] = s[1 + i - 1] /\ b[i] = t[1 + i - 1]
            BY <2>1, <3>1, SubSeqProperties
        <3> QED
            BY <3>1, <3>2
    <2> HIDE DEF a, b
    <2>5. ASSUME \A i \in 1..n : a[i] = b[i] PROVE a = b
        <3>1. \A i \in 1..Len(a) : a[i] = b[i]
            BY <2>3, <2>5
        <3> QED
            BY <2>2, <3>1, SeqEqual
    <2> QED
        BY <2>4, <2>5 DEF a, b
<1> QED
    BY <1>2 DEF IsPrefix

(* t is what stands from lo to hi in s. *)
IsPart(t, s, lo, hi) ==
    /\ t \in Text /\ Len(t) = hi - lo + 1
    /\ \A i \in 1..Len(t) : t[i] = s[lo + i - 1]

(* SubSeq, position by position.                                            *)
LEMMA PartIs ==
    ASSUME NEW s \in Text, NEW lo \in 1..(Len(s) + 1), NEW hi \in (lo - 1)..Len(s)
    PROVE  IsPart(SubSeq(s, lo, hi), s, lo, hi)
<1> DEFINE t == SubSeq(s, lo, hi)
<1>1. Len(s) \in Nat /\ lo \in Int /\ hi \in Int /\ \A i \in lo..hi : s[i] \in Alphabet
    BY DEF Text
<1>2. /\ t \in Text /\ Len(t) = IF lo <= hi THEN hi - lo + 1 ELSE 0
      /\ \A i \in 1..(hi - lo + 1) : t[i] = s[lo + i - 1]
    BY <1>1, SubSeqProperties DEF Text
<1> HIDE DEF t
<1>3. Len(t) = hi - lo + 1
    BY <1>1, <1>2
<1> QED
    BY <1>2, <1>3 DEF IsPart, t

(* Strip and rstrip keep what stands between the outermost characters       *)
(* that are not blank.                                                      *)
LEMMA InkedEnds ==
    ASSUME NEW s \in Text, Inked(s) # {}
    PROVE  /\ Min(Inked(s)) \in Inked(s) /\ Max(Inked(s)) \in Inked(s)
           /\ \A i \in Inked(s) : Min(Inked(s)) <= i /\ i <= Max(Inked(s))
           /\ IsPart(strip(s), s, Min(Inked(s)), Max(Inked(s)))
           /\ IsPart(rstrip(s), s, 1, Max(Inked(s)))
<1> DEFINE I == Inked(s)
<1>1. I \in SUBSET (1..Len(s)) /\ Len(s) \in Nat
    BY DEF Inked, Text
<1>2. Min(I) \in I /\ Max(I) \in I /\ \A i \in I : Min(I) <= i /\ i <= Max(I)
    BY <1>1, MinTaken, MaxTaken
<1> HIDE DEF I
<1>a. Min(I) \in 1..Len(s) /\ Max(I) \in 1..Len(s) /\ Min(I) <= Max(I)
    BY <1>1, <1>2
<1>b. \A l, lo, hi \in Nat : lo \in 1..l /\ hi \in 1..l /\ lo <= hi =>
         /\ 1 \in 1..(l + 1) /\ lo \in 1..(l + 1)
         /\ hi \in (lo - 1)..l /\ hi \in (1 - 1)..l
    OBVIOUS
<1>3. 1 \in 1..(Len(s) + 1) /\ Min(I) \in 1..(Len(s) + 1)
      /\ Max(I) \in (Min(I) - 1)..Len(s) /\ Max(I) \in (1 - 1)..Len(s)
    BY <1>1, <1>a, <1>b
<1>4. IsPart(SubSeq(s, Min(I), Max(I)), s, Min(I), Max(I))
    BY <1>3, PartIs
<1>5. IsPart(SubSeq(s, 1, Max(I)), s, 1, Max(I))
    BY <1>3, PartIs
<1> QED
    BY <1>2, <1>4, <1>5 DEF I, strip, rstrip

(* Inked is the positions that are not blank.                               *)
LEMMA InkedIs ==
    ASSUME NEW s \in Text
    PROVE  \A i : i \in Inked(s) <=> i \in 1..Len(s) /\ s[i] \notin Blanks
BY DEF Inked, Text

(* Characters that have no plain name, and what tells them from others. *)
Open == "{"
Close == "}"

(* The characters that json_schema tells from each other do differ.         *)
LEMMA Characters ==
    /\ Open \notin Blanks /\ Close \notin Blanks /\ "x" \notin Blanks /\ "t" \notin Blanks
    /\ "n" \in Blanks /\ " " \in Blanks
    /\ Close # "x" /\ Open # "x" /\ Close # "t"
BY Zenon DEF Open, Close, Blanks

(* A text that parses, its first character not blank: braces, at its        *)
(* beginning and before the blanks it ends with.                            *)
LEMMA ParsesIs ==
    ASSUME NEW s \in Text, s # <<>>, s[1] \notin Blanks, Parses(s)
    PROVE  /\ Inked(s) # {} /\ Max(Inked(s)) \in 2..Len(s)
           /\ s[1] = Open /\ s[Max(Inked(s))] = Close
           /\ \A i \in 2..(Max(Inked(s)) - 1) : s[i] \in Blanks \cup {"x"}
<1> DEFINE I == Inked(s)
           m == Max(I)
           j == strip(s)
<1>1. Len(s) \in Nat \ {0}
    BY EmptySeq DEF Text
<1>2. 1 \in I /\ I # {}
    BY <1>1, InkedIs
<1>3. /\ Min(I) \in I /\ m \in I /\ \A i \in I : Min(I) <= i /\ i <= m
      /\ IsPart(j, s, Min(I), m)
    BY <1>2, InkedEnds
<1>4. \A i \in I : i \in 1..Len(s)
    BY InkedIs
<1>5. Len(j) >= 2 /\ j[1] = Open /\ Last(j) = Close
      /\ \A i \in 2..(Len(j) - 1) : j[i] \in Blanks \cup {"x"}
    BY Zenon DEF Parses, Open, Close
<1> HIDE DEF I, m, j
<1>6. Min(I) = 1 /\ m \in 1..Len(s)
    BY <1>1, <1>2, <1>3, <1>4
<1>7. Len(j) = m /\ \A i \in 1..m : j[i] = s[i]
    BY <1>1, <1>3, <1>6 DEF IsPart
<1>8. m \in 2..Len(s) /\ s[1] = Open
    BY <1>1, <1>5, <1>6, <1>7
<1>9. s[m] = Close
    BY <1>5, <1>7, <1>8 DEF Last
<1>10. \A i \in 2..(m - 1) : s[i] \in Blanks \cup {"x"}
    BY <1>1, <1>5, <1>6, <1>7
<1> QED
    BY <1>2, <1>8, <1>9, <1>10 DEF I, m

(* What is the same up to the closing brace is as useless.                  *)
LEMMA StaysUseless ==
    ASSUME NEW b \in Text, NEW c \in Text, b # <<>>, b[1] \notin Blanks,
           c # <<>> => c[1] = b[1],
           \A m \in 1..Len(b) :
              b[m] = Close => m <= Len(c) /\ \A i \in 1..m : c[i] = b[i],
           b[1] # Open \/ (Parses(b) /\ ~Validates(b))
    PROVE  ~(Parses(c) /\ Validates(c))
<1> SUFFICES ASSUME Parses(c), Validates(c) PROVE FALSE
    OBVIOUS
<1>1. Len(b) \in Nat /\ Len(c) \in Nat
    BY DEF Text
<1>2. PICK i \in 1..Len(c) : c[i] = "x"
    BY DEF Validates, Text
<1>3. c # <<>> /\ c[1] = b[1]
    BY <1>1, <1>2
<1> DEFINE I == Inked(b)
           J == Inked(c)
           m == Max(I)
           k == Max(J)
<1>4. /\ J # {} /\ k \in 2..Len(c) /\ c[1] = Open /\ c[k] = Close
      /\ \A h \in 2..(k - 1) : c[h] \in Blanks \cup {"x"}
    BY <1>3, ParsesIs
<1>5. Parses(b) /\ ~Validates(b)
    BY <1>3, <1>4
<1>6. m \in 2..Len(b) /\ b[m] = Close
    BY <1>5, ParsesIs
<1>7. m <= Len(c) /\ \A h \in 1..m : c[h] = b[h]
    <2> HIDE DEF m
    <2> QED
        BY <1>1, <1>6
<1>8. \A h \in J : h <= k
    BY <1>4, InkedEnds
<1>9. \A h : h \in J <=> h \in 1..Len(c) /\ c[h] \notin Blanks
    BY InkedIs
<1>10. Close \notin Blanks \cup {"x"} /\ "x" \notin Blanks /\ Close \notin Blanks
    BY Characters
<1> HIDE DEF I, J, m, k
<1>11. m \in 1..Len(c) /\ c[m] = Close
    BY <1>1, <1>6, <1>7
<1>12. m <= k
    BY <1>8, <1>9, <1>10, <1>11
<1>13. m = k
    <2> SUFFICES ASSUME m # k PROVE FALSE
        OBVIOUS
    <2>1. m \in 2..(k - 1)
        BY <1>1, <1>4, <1>6, <1>12
    <2> QED
        BY <1>4, <1>10, <1>11, <2>1
<1>14. i <= k
    BY <1>2, <1>8, <1>9, <1>10
<1>15. i \in 1..Len(b) /\ b[i] = "x"
    BY <1>1, <1>2, <1>6, <1>7, <1>13, <1>14
<1>16. Validates(b)
    BY <1>15 DEF Validates, Text
<1> QED
    BY <1>5, <1>16

-----------------------------------------------------------------------------
(* The fence. *)

FenceAhead(s) == Len(s) >= 2 /\ s[1] = "t" /\ s[2] = "t"
Newlines(s) == {i \in DOMAIN s : s[i] = "n"}
Offset(s) == IF FenceAhead(s) THEN Min(Newlines(s)) ELSE 0

(* The fence is two marks.                                                  *)
LEMMA FenceIsText == Fence \in Text /\ Len(Fence) = 2 /\ Fence[1] = "t" /\ Fence[2] = "t"
<1>1. "t" \in Alphabet
    BY Zenon DEF Alphabet
<1> HIDE DEF Alphabet
<1> QED
    BY <1>1 DEF Fence, Text

(* Startswith the fence.                                                    *)
LEMMA FenceAtBeginning ==
    ASSUME NEW s \in Text
    PROVE  IsPrefix(Fence, s) <=> FenceAhead(s)
<1> HIDE DEF Alphabet
<1>1. IsPrefix(Fence, s) <=> Len(Fence) <= Len(s) /\ \A i \in 1..Len(Fence) : Fence[i] = s[i]
    BY FenceIsText, PrefixIs DEF Text
<1>2. (\A i \in 1..2 : Fence[i] = s[i]) <=> Fence[1] = s[1] /\ Fence[2] = s[2]
    <2>1. \A i \in 1..2 : i = 1 \/ i = 2
        OBVIOUS
    <2> QED
        BY <2>1
<1> QED
    BY <1>1, <1>2, FenceIsText DEF FenceAhead, Text

(* IsSuffix is IsPrefix of what is reversed.                                *)
LEMMA ReverseIs ==
    ASSUME NEW s \in Text
    PROVE  /\ Reverse(s) \in Text /\ Len(Reverse(s)) = Len(s)
           /\ \A i \in 1..Len(s) : Reverse(s)[i] = s[(Len(s) - i) + 1]
<1> HIDE DEF Alphabet
<1>1. Len(s) \in Nat /\ \A i \in 1..Len(s) : (Len(s) - i) + 1 \in 1..Len(s)
    BY DEF Text
<1>2. \A i \in 1..Len(s) : s[i] \in Alphabet
    BY DEF Text
<1> DEFINE r == [i \in 1..Len(s) |-> s[(Len(s) - i) + 1]]
<1>3. r \in [1..Len(s) -> Alphabet]
    BY <1>1, <1>2
<1>4. r \in Seq(Alphabet)
    BY <1>1, <1>3, SeqDef
<1>5. DOMAIN r = 1..Len(s) /\ DOMAIN r = 1..Len(r) /\ Len(r) \in Nat
    <2>1. DOMAIN r = 1..Len(s)
        OBVIOUS
    <2> HIDE DEF r
    <2> QED
        BY <1>4, <2>1, LenProperties
<1>6. \A a, b \in Nat : 1..a = 1..b => a = b
    <2> SUFFICES ASSUME NEW a \in Nat, NEW b \in Nat, 1..a = 1..b PROVE a = b
        OBVIOUS
    <2>1. a \in 1..b \/ a = 0
        OBVIOUS
    <2>2. b \in 1..a \/ b = 0
        OBVIOUS
    <2> QED
        BY <2>1, <2>2
<1>7. \A i \in 1..Len(s) : r[i] = s[(Len(s) - i) + 1]
    OBVIOUS
<1> HIDE DEF r
<1>8. Len(r) = Len(s)
    BY <1>1, <1>5, <1>6
<1> QED
    BY <1>4, <1>7, <1>8 DEF r, Reverse, Text

(* Endswith the fence.                                                      *)
LEMMA FenceAtEnd ==
    ASSUME NEW s \in Text, IsSuffix(Fence, s)
    PROVE  Len(s) >= 2 /\ s[Len(s)] = "t" /\ s[Len(s) - 1] = "t"
<1> DEFINE f == Reverse(Fence)
           r == Reverse(s)
<1>1. f \in Text /\ r \in Text /\ IsPrefix(f, r) /\ Len(f) = 2 /\ Len(r) = Len(s)
    BY FenceIsText, ReverseIs DEF IsSuffix
<1>2. f[1] = "t" /\ f[2] = "t"
    <2>1. f[1] = Fence[(2 - 1) + 1] /\ f[2] = Fence[(2 - 2) + 1]
        BY FenceIsText, ReverseIs
    <2> HIDE DEF f
    <2> QED
        BY <2>1, FenceIsText
<1>3. \A i \in 1..Len(s) : r[i] = s[(Len(s) - i) + 1]
    BY ReverseIs
<1> HIDE DEF f, r, Alphabet
<1>4. Len(f) <= Len(r) /\ \A i \in 1..Len(f) : f[i] = r[i]
    BY <1>1, PrefixIs DEF Text
<1>5. Len(s) \in Nat /\ Len(s) >= 2 /\ r[1] = "t" /\ r[2] = "t"
    BY <1>1, <1>2, <1>4 DEF Text
<1>6. r[1] = s[(Len(s) - 1) + 1] /\ r[2] = s[(Len(s) - 2) + 1]
    BY <1>3, <1>5
<1>7. (Len(s) - 1) + 1 = Len(s) /\ (Len(s) - 2) + 1 = Len(s) - 1
    BY <1>5
<1> QED
    BY <1>5, <1>6, <1>7

(* b is what stands after o in s, without an end that has no brace.        *)
Stripped(b, s, o) ==
    /\ b \in Text /\ o \in 0..Len(s) /\ Len(b) <= Len(s) - o
    /\ \A i \in 1..Len(b) : b[i] = s[o + i]
    /\ \A m \in 1..(Len(s) - o) : s[o + m] = Close => m <= Len(b)

(* The first newline, which ends the line of the fence.                     *)
LEMMA FirstNewline ==
    ASSUME NEW s \in Text, Newlines(s) # {}
    PROVE  /\ Min(Newlines(s)) \in Newlines(s) /\ Min(Newlines(s)) \in 1..Len(s)
           /\ \A i \in Newlines(s) : Min(Newlines(s)) <= i
<1>1. Newlines(s) \in SUBSET (1..Len(s)) /\ Len(s) \in Nat
    BY DEF Newlines, Text
<1> QED
    BY <1>1, MinTaken

(* What strip_markdown_fence leaves is a part of the text that begins       *)
(* behind the line of the fence, and lacks at most an end that is a         *)
(* fence.                                                                   *)
LEMMA FenceStripped ==
    ASSUME NEW s \in Text, ~(FenceAhead(s) /\ Newlines(s) = {})
    PROVE  /\ Stripped(strip_markdown_fence(s), s, Offset(s))
           /\ FenceAhead(s) => Offset(s) > 0
<1> DEFINE nl == Min(Newlines(s))
           body == SubSeq(s, nl + 1, Len(s))
           open == SubSeq(body, 1, Len(body) - Len(Fence))
           b == strip_markdown_fence(s)
<1>1. Len(s) \in Nat
    BY DEF Text
<1>2. CASE ~FenceAhead(s)
    <2>1. b = s /\ Offset(s) = 0
        BY <1>2, FenceAtBeginning DEF strip_markdown_fence, Offset
    <2> HIDE DEF b
    <2>2. Stripped(b, s, 0)
        BY <1>1, <2>1 DEF Stripped
    <2> QED
        BY <1>2, <2>1, <2>2 DEF b
<1>3. CASE FenceAhead(s)
    <2>1. Newlines(s) # {} /\ Offset(s) = nl
        BY <1>3 DEF Offset
    <2>2. nl \in 1..Len(s)
        BY <2>1, FirstNewline
    <2>3. b = IF IsSuffix(Fence, body) THEN rstrip(open) ELSE body
        BY <1>3, <2>1, FenceAtBeginning, Zenon DEF strip_markdown_fence, Newlines
    <2> HIDE DEF b, nl
    <2>4. IsPart(body, s, nl + 1, Len(s))
        <3>1. nl + 1 \in 1..(Len(s) + 1) /\ Len(s) \in ((nl + 1) - 1)..Len(s)
            BY <1>1, <2>2
        <3> QED
            BY <3>1, PartIs
    <2> HIDE DEF body
    <2>5. /\ body \in Text /\ Len(body) = Len(s) - nl /\ Len(body) \in Nat
          /\ \A i \in 1..Len(body) : body[i] = s[nl + i]
        <3>1. body \in Text /\ Len(body) = Len(s) - (nl + 1) + 1
              /\ \A i \in 1..Len(body) : body[i] = s[(nl + 1) + i - 1]
            BY <2>4 DEF IsPart
        <3>2. \A i \in 1..Len(body) : (nl + 1) + i - 1 = nl + i
            BY <2>2
        <3> QED
            BY <1>1, <2>2, <3>1, <3>2
    <2>6. ASSUME b \in Text, Len(b) <= Len(body), \A i \in 1..Len(b) : b[i] = body[i],
                 \A m \in 1..Len(body) : body[m] = Close => m <= Len(b)
          PROVE  Stripped(b, s, nl)
        <3>1. Len(b) \in Nat
            BY <2>6 DEF Text
        <3>2. nl \in 0..Len(s) /\ Len(b) <= Len(s) - nl
            BY <1>1, <2>2, <2>5, <2>6
        <3>3. ASSUME NEW i \in 1..Len(b) PROVE b[i] = s[nl + i]
            <4>1. i \in 1..Len(body)
                BY <2>5, <2>6, <3>1
            <4> QED
                BY <2>5, <2>6, <4>1
        <3>4. ASSUME NEW m \in 1..(Len(s) - nl), s[nl + m] = Close PROVE m <= Len(b)
            <4>1. m \in 1..Len(body)
                BY <2>5
            <4>2. body[m] = Close
                BY <2>5, <3>4, <4>1
            <4> QED
                BY <2>6, <4>1, <4>2
        <3> QED
            BY <2>6, <3>2, <3>3, <3>4 DEF Stripped
    <2>7. CASE ~IsSuffix(Fence, body)
        <3>1. b = body
            BY <2>3, <2>7
        <3>2. Stripped(b, s, nl)
            BY <2>5, <2>6, <3>1
        <3> QED
            BY <2>1, <2>2, <3>2 DEF b
    <2>8. CASE IsSuffix(Fence, body)
        <3>1. Len(body) >= 2 /\ body[Len(body)] = "t" /\ body[Len(body) - 1] = "t"
            BY <2>5, <2>8, FenceAtEnd
        <3>2. b = rstrip(open)
            BY <2>3, <2>8
        <3>3. IsPart(open, body, 1, Len(body) - 2)
            <4>1. 1 \in 1..(Len(body) + 1) /\ Len(body) - 2 \in (1 - 1)..Len(body)
                BY <2>5, <3>1
            <4> QED
                BY <2>5, <4>1, PartIs, FenceIsText
        <3> HIDE DEF open
        <3>4. /\ open \in Text /\ Len(open) = Len(body) - 2 /\ Len(open) \in Nat
              /\ \A i \in 1..Len(open) : open[i] = body[i]
            <4>1. open \in Text /\ Len(open) = Len(body) - 2 - 1 + 1
                  /\ \A i \in 1..Len(open) : open[i] = body[1 + i - 1]
                BY <3>3 DEF IsPart
            <4>2. \A i \in 1..Len(open) : 1 + i - 1 = i
                BY <2>5
            <4> QED
                BY <2>5, <3>1, <4>1, <4>2
        <3>5. \A m \in 1..Len(body) : body[m] = Close => m \in 1..Len(open) /\ m \in Inked(open)
            <4> SUFFICES ASSUME NEW m \in 1..Len(body), body[m] = Close
                         PROVE  m \in 1..Len(open) /\ m \in Inked(open)
                OBVIOUS
            <4>1. m # Len(body) /\ m # Len(body) - 1
                BY <3>1, Characters
            <4>2. m \in 1..Len(open)
                BY <2>5, <3>4, <4>1
            <4>3. open[m] = Close
                BY <3>4, <4>2
            <4> QED
                BY <3>4, <4>2, <4>3, Characters, InkedIs
        <3>6. CASE Inked(open) = {}
            <4>1. b = <<>>
                BY <3>2, <3>6, Zenon DEF rstrip
            <4>2. b \in Text /\ Len(b) = 0
                BY <4>1, TextFacts
            <4>3. Stripped(b, s, nl)
                BY <2>5, <2>6, <3>5, <3>6, <4>2
            <4> QED
                BY <2>1, <2>2, <4>3 DEF b
        <3>7. CASE Inked(open) # {}
            <4> DEFINE k == Max(Inked(open))
            <4>1. k \in Inked(open) /\ (\A i \in Inked(open) : i <= k) /\ IsPart(b, open, 1, k)
                BY <3>2, <3>4, <3>7, InkedEnds
            <4>2. k \in 1..Len(open)
                BY <3>4, <4>1, InkedIs
            <4> HIDE DEF k
            <4>3. b \in Text /\ Len(b) = k /\ \A i \in 1..Len(b) : b[i] = open[i]
                <5>1. b \in Text /\ Len(b) = k - 1 + 1
                      /\ \A i \in 1..Len(b) : b[i] = open[1 + i - 1]
                    BY <4>1 DEF IsPart
                <5>2. Len(b) = k /\ \A i \in 1..Len(b) : 1 + i - 1 = i
                    BY <4>2, <5>1
                <5> QED
                    BY <5>1, <5>2
            <4>4. Len(b) <= Len(body) /\ \A i \in 1..Len(b) : b[i] = body[i]
                BY <2>5, <3>4, <4>2, <4>3
            <4>5. \A m \in 1..Len(body) : body[m] = Close => m <= Len(b)
                BY <3>5, <4>1, <4>3
            <4>6. Stripped(b, s, nl)
                BY <2>6, <4>3, <4>4, <4>5
            <4> QED
                BY <2>1, <2>2, <4>6 DEF b
        <3> QED
            BY <3>6, <3>7
    <2> QED
        BY <2>7, <2>8
<1> QED
    BY <1>2, <1>3

(* What answers json_schema halts on, whatever follows them.                *)
LEMMA HaltedStaysUseless ==
    ASSUME NEW text \in Text, NEW rest \in Text,
           json_schema(text), ~BlankAfterFence(text)
    PROVE  ~Usable(text \o rest)
<1> DEFINE all == text \o rest
           s == strip(text)
           t == strip(all)
           b == strip_markdown_fence(s)
           c == strip_markdown_fence(t)
           lo == Min(Inked(text))
           hi == Max(Inked(text))
           hj == Max(Inked(all))
<1> HIDE DEF Alphabet
<1>1. /\ all \in Text /\ Len(all) = Len(text) + Len(rest)
      /\ Len(text) \in Nat /\ Len(rest) \in Nat
      /\ \A i \in 1..Len(text) : all[i] = text[i]
    <2>1. /\ all \in Text /\ Len(all) = Len(text) + Len(rest)
          /\ \A i \in 1..(Len(text) + Len(rest)) :
                all[i] = IF i <= Len(text) THEN text[i] ELSE rest[i - Len(text)]
        BY ConcatProperties DEF Text
    <2>2. Len(text) \in Nat /\ Len(rest) \in Nat
        BY DEF Text
    <2> HIDE DEF all
    <2> QED
        BY <2>1, <2>2
<1>2. b # <<>> /\ Len(b) >= WarmUp /\ (b[1] # Open \/ (Parses(b) /\ ~Validates(b)))
    BY Zenon DEF json_schema, Openers, Open
<1>3. b = s \/ b = <<>> \/ b[1] \notin Blanks
    BY Zenon DEF BlankAfterFence
<1>4. WarmUp \in Nat /\ WarmUp > 2
    BY EvaluatorAssumption, FenceIsText
<1> HIDE DEF all
<1>5. Inked(text) # {}
    <2> SUFFICES ASSUME Inked(text) = {} PROVE FALSE
        OBVIOUS
    <2>1. s = <<>>
        BY Zenon DEF strip
    <2>2. ~IsPrefix(Fence, <<>>)
        BY FenceAtBeginning, TextFacts DEF FenceAhead
    <2>3. b = <<>>
        BY <2>1, <2>2, Zenon DEF strip_markdown_fence
    <2> QED
        BY <1>2, <2>3
<1>6. /\ lo \in 1..Len(text) /\ hi \in 1..Len(text) /\ lo <= hi
      /\ text[lo] \notin Blanks
      /\ s \in Text /\ Len(s) = hi - lo + 1
      /\ \A i \in 1..Len(s) : s[i] = text[lo + i - 1]
    <2>1. /\ lo \in Inked(text) /\ hi \in Inked(text) /\ lo <= hi
          /\ IsPart(s, text, lo, hi)
        BY <1>5, InkedEnds
    <2> HIDE DEF lo, hi, s
    <2> QED
        BY <2>1, InkedIs DEF IsPart
<1>7. \A i \in Inked(text) : i \in Inked(all)
    BY <1>1, InkedIs
<1>8. /\ Inked(all) # {} /\ hi <= hj /\ hj \in 1..Len(all)
      /\ t \in Text /\ Len(t) = hj - lo + 1
      /\ \A i \in 1..Len(t) : t[i] = all[lo + i - 1]
    <2> DEFINE lj == Min(Inked(all))
    <2>1. lo \in Inked(text) /\ hi \in Inked(text) /\ \A i \in Inked(text) : lo <= i
        BY <1>5, InkedEnds
    <2>2. Inked(all) # {}
        BY <1>7, <2>1
    <2>3. /\ lj \in Inked(all) /\ hj \in Inked(all)
          /\ \A i \in Inked(all) : lj <= i /\ i <= hj
          /\ IsPart(t, all, lj, hj)
        BY <1>1, <2>2, InkedEnds
    <2>4. lj \in 1..Len(all) /\ hj \in 1..Len(all) /\ all[lj] \notin Blanks
        BY <1>1, <2>3, InkedIs
    <2> HIDE DEF lo, hi, lj, hj, t
    <2>5. lj <= lo /\ hi <= hj
        BY <1>7, <2>1, <2>3
    <2>6. lj \in 1..Len(text) /\ lj \in Inked(text)
        <3>1. lj \in 1..Len(text)
            BY <1>1, <1>6, <2>4, <2>5
        <3> QED
            BY <1>1, <2>4, <3>1, InkedIs
    <2>7. lj = lo
        BY <1>6, <2>1, <2>5, <2>6
    <2> QED
        BY <2>2, <2>3, <2>4, <2>5, <2>7 DEF IsPart
<1> HIDE DEF lo, hi, hj, s, t
<1>9. Len(s) \in Nat /\ Len(t) \in Nat /\ Len(s) <= Len(t) /\ s # <<>>
      /\ (\A i \in 1..Len(s) : t[i] = s[i]) /\ s[1] = text[lo]
    <2>1. Len(s) \in Nat \ {0} /\ Len(t) \in Nat /\ Len(s) <= Len(t)
        BY <1>1, <1>6, <1>8
    <2>2. ASSUME NEW i \in 1..Len(s) PROVE t[i] = s[i]
        <3>1. i \in 1..Len(t) /\ lo + i - 1 \in 1..Len(text)
            BY <1>1, <1>6, <2>1
        <3> QED
            BY <1>1, <1>6, <1>8, <3>1
    <2>3. s[1] = text[lo]
        <3>1. 1 \in 1..Len(s) /\ lo + 1 - 1 = lo
            BY <1>6, <2>1
        <3> QED
            BY <1>6, <3>1
    <2> QED
        BY <2>1, <2>2, <2>3, EmptySeq
<1>10. ~(FenceAhead(s) /\ Newlines(s) = {})
    <2> SUFFICES ASSUME FenceAhead(s), Newlines(s) = {} PROVE FALSE
        OBVIOUS
    <2>1. b = <<>>
        BY <1>6, FenceAtBeginning, Zenon DEF strip_markdown_fence, Newlines
    <2> QED
        BY <1>2, <2>1
<1> DEFINE o == Offset(s)
<1>11. Stripped(b, s, o) /\ (FenceAhead(s) => o > 0)
    BY <1>6, <1>10, FenceStripped
<1> HIDE DEF b
<1>12. /\ b \in Text /\ Len(b) \in Nat /\ Len(b) > 2 /\ o \in 0..Len(s)
       /\ Len(b) <= Len(s) - o /\ Len(s) > 2
    <2>1. b \in Text /\ o \in 0..Len(s) /\ Len(b) <= Len(s) - o
        BY <1>11 DEF Stripped
    <2>2. Len(b) \in Nat
        BY <2>1 DEF Text
    <2> HIDE DEF o
    <2> QED
        BY <1>2, <1>4, <1>9, <2>1, <2>2
<1>13. FenceAhead(t) <=> FenceAhead(s)
    <2>1. 1 \in 1..Len(s) /\ 2 \in 1..Len(s) /\ Len(t) >= 2 /\ Len(s) >= 2
        BY <1>9, <1>12
    <2>2. t[1] = s[1] /\ t[2] = s[2]
        BY <1>9, <2>1
    <2> QED
        BY <2>1, <2>2 DEF FenceAhead
<1>14. Offset(t) = o /\ ~(FenceAhead(t) /\ Newlines(t) = {})
    <2>1. CASE ~FenceAhead(s)
        BY <1>13, <2>1 DEF Offset
    <2>2. CASE FenceAhead(s)
        <3> DEFINE m == Min(Newlines(s))
                   k == Min(Newlines(t))
        <3>1. m \in Newlines(s) /\ m \in 1..Len(s) /\ \A i \in Newlines(s) : m <= i
            BY <1>6, <1>10, <2>2, FirstNewline
        <3>2. /\ \A i : i \in Newlines(s) <=> i \in 1..Len(s) /\ s[i] = "n"
              /\ \A i : i \in Newlines(t) <=> i \in 1..Len(t) /\ t[i] = "n"
            <4>1. DOMAIN s = 1..Len(s) /\ DOMAIN t = 1..Len(t)
                BY <1>6, <1>8 DEF Text
            <4> QED
                BY <4>1 DEF Newlines
        <3> HIDE DEF m
        <3>3. m \in Newlines(t)
            BY <1>9, <3>1, <3>2
        <3>4. k \in Newlines(t) /\ k \in 1..Len(t) /\ k <= m
            BY <1>8, <3>3, FirstNewline
        <3> HIDE DEF k
        <3>5. k \in Newlines(s)
            BY <1>9, <3>1, <3>2, <3>4
        <3>6. k = m
            BY <1>9, <3>1, <3>4, <3>5
        <3> QED
            BY <1>13, <2>2, <3>3, <3>6 DEF Offset, m, k
    <2> QED
        BY <2>1, <2>2
<1>15. Stripped(c, t, o)
    BY <1>8, <1>14, FenceStripped
<1> HIDE DEF c
<1>16. b[1] \notin Blanks
    <2>1. CASE FenceAhead(s)
        <3>1. Len(b) < Len(s)
            BY <1>9, <1>11, <1>12, <2>1
        <3>2. b # s
            BY <1>9, <1>12, <3>1
        <3> QED
            BY <1>2, <1>3, <3>2
    <2>2. CASE ~FenceAhead(s)
        <3>1. o = 0
            BY <2>2 DEF Offset
        <3>2. b[1] = s[0 + 1]
            BY <1>11, <1>12, <3>1 DEF Stripped
        <3> QED
            BY <1>6, <1>9, <3>2
    <2> QED
        BY <2>1, <2>2
<1> HIDE DEF o
<1>17. ASSUME NEW i \in 1..Len(b)
       PROVE  b[i] = s[o + i] /\ t[o + i] = s[o + i] /\ i \in 1..(Len(t) - o)
    <2>1. b[i] = s[o + i]
        BY <1>11 DEF Stripped
    <2>2. o + i \in 1..Len(s) /\ i \in 1..(Len(t) - o)
        BY <1>9, <1>12
    <2> QED
        BY <1>9, <2>1, <2>2
<1>18. c \in Text /\ Len(c) \in Nat
    BY <1>15 DEF Stripped, Text
<1>19. c # <<>> => c[1] = b[1]
    <2> SUFFICES ASSUME c # <<>> PROVE c[1] = b[1]
        OBVIOUS
    <2>1. 1 \in 1..Len(c) /\ 1 \in 1..Len(b)
        BY <1>12, <1>18, EmptySeq DEF Text
    <2>2. c[1] = t[o + 1]
        BY <1>15, <2>1 DEF Stripped
    <2> QED
        BY <1>17, <2>1, <2>2
<1>20. ASSUME NEW m \in 1..Len(b), b[m] = Close
       PROVE  m <= Len(c) /\ \A i \in 1..m : c[i] = b[i]
    <2>1. m <= Len(c)
        BY <1>15, <1>17, <1>20 DEF Stripped
    <2>2. \A i \in 1..m : i \in 1..Len(b) /\ i \in 1..Len(c)
        BY <1>12, <1>18, <2>1
    <2>3. \A i \in 1..Len(c) : c[i] = t[o + i]
        BY <1>15 DEF Stripped
    <2> QED
        BY <1>17, <2>1, <2>2, <2>3
<1>21. ~(Parses(c) /\ Validates(c))
    BY <1>2, <1>12, <1>16, <1>18, <1>19, <1>20, StaysUseless
<1> QED
    BY <1>21 DEF Usable, c, t, all

-----------------------------------------------------------------------------
(* Events, frames and the queue. *)

EventTypes == {"phase", "session_open", "token", "commit_signed", "complete", "error"}
Events == [type : EventTypes, tokens : Nat, text : Text]
Frames == [kind : {"text", "done", "error"}, text : Text]

Seen(s) == Visible(TextOf(s))

(* Events and frames carry texts; no event is the sentinel.                 *)
LEMMA BothCarry ==
    /\ Carriers(Events) /\ Carriers(Frames)
    /\ \A e \in Events : e # None
BY DEF Carriers, Events, Frames, EventTypes, None

(* What the driver puts on the queue is an event.                           *)
LEMMA EventsAre ==
    ASSUME NEW t \in EventTypes, NEW n \in Nat, NEW x \in Text
    PROVE  [type |-> t, tokens |-> n, text |-> x] \in Events
BY DEF Events

(* What is seen of a concatenation.                                         *)
LEMMA SeenParts ==
    ASSUME NEW E, Carriers(E)
    PROVE  /\ Seen(<<>>) = <<>>
           /\ \A s \in Seq(E) : Seen(s) \in Text
           /\ \A s \in Seq(E), e \in E :
                 Seen(Append(s, e)) = Seen(s) \o Visible(e.text)
           /\ \A s \in Seq(E), t \in Seq(E) : Seen(s \o t) = Seen(s) \o Seen(t)
<1>1. /\ TextOf(<<>>) = <<>>
      /\ \A s \in Seq(E) : TextOf(s) \in Text
      /\ \A s \in Seq(E), e \in E : TextOf(Append(s, e)) = TextOf(s) \o e.text
    BY TextOfParts
<1>2. \A e \in E : e.text \in Text
    BY DEF Carriers
<1>3. ASSUME NEW s \in Seq(E), NEW e \in E
      PROVE  Seen(Append(s, e)) = Seen(s) \o Visible(e.text)
    BY <1>1, <1>2, VisibleConcat DEF Seen
<1>4. ASSUME NEW s \in Seq(E), NEW t \in Seq(E)
      PROVE  Seen(s \o t) = Seen(s) \o Seen(t)
    <2>1. TextOf(s \o t) = TextOf(s) \o TextOf(t)
        BY TextOfConcat
    <2>2. TextOf(s) \in Text /\ TextOf(t) \in Text
        BY <1>1
    <2>3. Visible(TextOf(s) \o TextOf(t)) = Visible(TextOf(s)) \o Visible(TextOf(t))
        BY <2>2, VisibleConcat
    <2> QED
        BY <2>1, <2>3 DEF Seen
<1>5. Seen(<<>>) = <<>> /\ \A s \in Seq(E) : Seen(s) \in Text
    BY <1>1, VisibleParts DEF Seen
<1> QED
    BY <1>3, <1>4, <1>5

(* Head and Tail of any sequence that is not empty.                         *)
LEMMA FirstOf ==
    ASSUME NEW A, NEW s \in Seq(A), s # <<>>
    PROVE  /\ Head(s) \in A /\ Tail(s) \in Seq(A)
           /\ Len(s) \in Nat \ {0} /\ Len(Tail(s)) = Len(s) - 1
           /\ s[1] = Head(s) /\ \A i \in 1..Len(Tail(s)) : Tail(s)[i] = s[i + 1]
           /\ s = <<Head(s)>> \o Tail(s)
<1>1. Head(s) \in A /\ Tail(s) \in Seq(A)
    OBVIOUS
<1> DEFINE t == Tail(s)
           h == Head(s)
<1>2. Len(s) \in Nat \ {0} /\ Len(t) = Len(s) - 1
      /\ \A i \in 1..Len(t) : t[i] = s[i + 1]
    BY EmptySeq, HeadTailProperties
<1>3. s[1] = h
    OBVIOUS
<1> HIDE DEF h, t
<1>4. /\ <<h>> \o t \in Seq(A) /\ Len(<<h>> \o t) = 1 + Len(t)
      /\ \A i \in 1..(1 + Len(t)) : (<<h>> \o t)[i] = IF i <= 1 THEN h ELSE t[i - 1]
    <2>1. <<h>> \in Seq(A) /\ t \in Seq(A) /\ Len(<<h>>) = 1 /\ <<h>>[1] = h
        BY <1>1 DEF h, t
    <2>2. /\ <<h>> \o t \in Seq(A)
          /\ Len(<<h>> \o t) = Len(<<h>>) + Len(t)
          /\ \A i \in 1..(Len(<<h>>) + Len(t)) : (<<h>> \o t)[i] =
                 IF i <= Len(<<h>>) THEN <<h>>[i] ELSE t[i - Len(<<h>>)]
        BY <2>1, ConcatProperties
    <2>3. \A i \in 1..(1 + Len(t)) : i <= 1 => i = 1
        OBVIOUS
    <2> QED
        BY <2>1, <2>2, <2>3
<1>5. Len(s) = Len(<<h>> \o t)
    BY <1>2, <1>4
<1>6. ASSUME NEW i \in 1..Len(s) PROVE s[i] = (<<h>> \o t)[i]
    <2>1. CASE i = 1
        BY <2>1, <1>2, <1>3, <1>4
    <2>2. CASE i # 1
        <3>1. i - 1 \in 1..Len(t) /\ (i - 1) + 1 = i /\ ~(i <= 1)
            BY <2>2, <1>2
        <3> QED
            BY <3>1, <1>2, <1>4
    <2> QED
        BY <2>1, <2>2
<1>7. s = <<h>> \o t
    BY <1>4, <1>5, <1>6, SeqEqual
<1> QED
    BY <1>1, <1>2, <1>3, <1>7 DEF h, t

(* What is seen of a sequence: its first record, then the rest.             *)
LEMMA SeenFirst ==
    ASSUME NEW E, Carriers(E), NEW s \in Seq(E), s # <<>>
    PROVE  Seen(s) = Visible(Head(s).text) \o Seen(Tail(s))
<1> DEFINE h == Head(s)
           t == Tail(s)
<1>1. h \in E /\ t \in Seq(E) /\ s = <<h>> \o t
    BY FirstOf
<1> HIDE DEF h, t
<1>2. <<h>> = Append(<<>>, h) /\ <<>> \in Seq(E) /\ <<h>> \in Seq(E)
    BY <1>1
<1>3. Seen(<<h>> \o t) = Seen(<<h>>) \o Seen(t)
    BY <1>1, <1>2, SeenParts
<1>4. Seen(<<h>>) = Seen(<<>>) \o Visible(h.text)
    BY <1>1, <1>2, SeenParts
<1>5. Seen(<<>>) = <<>> /\ Visible(h.text) \in Text
    BY <1>1, SeenParts, VisibleParts DEF Carriers
<1>6. Seen(<<h>>) = Visible(h.text)
    BY <1>4, <1>5, TextFacts
<1> QED
    BY <1>1, <1>3, <1>6 DEF h, t

-----------------------------------------------------------------------------
(* The queue, with the sentinel or without it. *)
Sent(q) == IF q # <<>> /\ Last(q) = None THEN Front(q) ELSE q

(* Last and Front undo Append.                                              *)
LEMMA LastAndFront ==
    ASSUME NEW A, NEW s \in Seq(A), NEW e \in A
    PROVE  /\ Append(s, e) # <<>> /\ Last(Append(s, e)) = e /\ Front(Append(s, e)) = s
<1> DEFINE t == Append(s, e)
<1>1. /\ t \in Seq(A) /\ t # <<>> /\ Len(t) = Len(s) + 1 /\ Len(s) \in Nat
      /\ \A i \in 1..Len(s) : t[i] = s[i]
      /\ t[Len(s) + 1] = e
    BY AppendProperties, LenProperties
<1> HIDE DEF t
<1>2. Last(t) = e
    BY <1>1 DEF Last
<1> DEFINE f == Front(t)
<1>3. Len(t) - 1 = Len(s) /\ \A i \in 1..Len(s) : t[i] \in A
    BY <1>1
<1>4. /\ f \in Seq(A) /\ Len(f) = (IF 1 <= Len(s) THEN Len(s) - 1 + 1 ELSE 0)
      /\ \A i \in 1..(Len(s) - 1 + 1) : f[i] = t[1 + i - 1]
    BY <1>1, <1>3, SubSeqProperties DEF Front
<1> HIDE DEF f
<1>5. Len(f) = Len(s)
    BY <1>1, <1>4
<1>6. ASSUME NEW i \in 1..Len(f) PROVE f[i] = s[i]
    <2>1. i \in 1..(Len(s) - 1 + 1) /\ 1 + i - 1 = i /\ i \in 1..Len(s)
        BY <1>1, <1>5
    <2> QED
        BY <1>1, <1>4, <2>1
<1>7. f = s
    BY <1>4, <1>5, <1>6, SeqEqual
<1> QED
    BY <1>1, <1>2, <1>7 DEF t, f

(* Without the sentinel, all of a queue is for the browser.                 *)
LEMMA LastOfOpen ==
    ASSUME NEW q \in Seq(Events)
    PROVE  Sent(q) = q
<1>1. q # <<>> => Last(q) \in Events
    <2> SUFFICES ASSUME q # <<>> PROVE Last(q) \in Events
        OBVIOUS
    <2>1. Len(q) \in 1..Len(q)
        BY EmptySeq
    <2> QED
        BY <2>1, ElementOfSeq DEF Last
<1> QED
    BY <1>1, BothCarry DEF Sent

(* With it, all but the sentinel.                                           *)
LEMMA LastOfClosed ==
    ASSUME NEW p \in Seq(Events)
    PROVE  Sent(Append(p, None)) = p
<1> DEFINE A == Events \cup {None}
<1>1. p \in Seq(A) /\ None \in A
    BY SeqMonotonic
<1> HIDE DEF A
<1>2. LET q == Append(p, None) IN q # <<>> /\ Last(q) = None /\ Front(q) = p
    BY <1>1, LastAndFront
<1> QED
    BY <1>2 DEF Sent

(* What the driver puts on an open queue q, behind what was shown.         *)
PutBehind(q, s) ==
    /\ q \o <<>> = q /\ q \o <<None>> = Append(q, None)
    /\ s \o Sent(q \o <<None>>) = s \o Sent(q)
    /\ \A e \in Events :
          /\ q \o <<e>> \in Seq(Events)
          /\ s \o Sent(q \o <<e>>) = Append(s \o Sent(q), e)
          /\ Append(q, e) \in Seq(Events)
          /\ q \o <<e, None>> = Append(Append(q, e), None)
          /\ s \o Sent(q \o <<e, None>>) = Append(s \o Sent(q), e)
    /\ \A e, f \in Events :
          /\ q \o <<e, f>> \in Seq(Events)
          /\ s \o Sent(q \o <<e, f>>) = Append(Append(s \o Sent(q), e), f)

(* Put adds behind everything that was told.                                *)
LEMMA PutOnQueue ==
    ASSUME NEW q \in Seq(Events), NEW s \in Seq(Events)
    PROVE  PutBehind(q, s)
<1> HIDE DEF Events, None
<1>1. /\ q \o <<>> = q /\ q \o <<None>> = Append(q, None)
      /\ Sent(q) = q /\ Sent(Append(q, None)) = q
    BY LastOfOpen, LastOfClosed
<1>2. ASSUME NEW e \in Events
      PROVE  /\ q \o <<e>> = Append(q, e)
             /\ Append(q, e) \in Seq(Events)
             /\ q \o <<e, None>> = Append(Append(q, e), None)
             /\ s \o Append(q, e) = Append(s \o q, e)
             /\ Sent(Append(q, e)) = Append(q, e)
             /\ Sent(Append(Append(q, e), None)) = Append(q, e)
    <2>1. /\ q \o <<e>> = Append(q, e)
          /\ Append(q, e) \in Seq(Events)
          /\ q \o <<e, None>> = Append(Append(q, e), None)
          /\ s \o Append(q, e) = Append(s \o q, e)
        OBVIOUS
    <2> QED
        BY <2>1, LastOfOpen, LastOfClosed
<1>3. ASSUME NEW e \in Events, NEW f \in Events
      PROVE  /\ q \o <<e, f>> = Append(Append(q, e), f)
             /\ Append(Append(q, e), f) \in Seq(Events)
             /\ s \o Append(Append(q, e), f) = Append(Append(s \o q, e), f)
             /\ Sent(Append(Append(q, e), f)) = Append(Append(q, e), f)
    <2>1. /\ q \o <<e, f>> = Append(Append(q, e), f)
          /\ Append(Append(q, e), f) \in Seq(Events)
          /\ s \o Append(Append(q, e), f) = Append(Append(s \o q, e), f)
        OBVIOUS
    <2> QED
        BY <2>1, LastOfOpen
<1>4. ASSUME NEW e \in Events
      PROVE  /\ q \o <<e>> \in Seq(Events)
             /\ s \o Sent(q \o <<e>>) = Append(s \o Sent(q), e)
             /\ Append(q, e) \in Seq(Events)
             /\ q \o <<e, None>> = Append(Append(q, e), None)
             /\ s \o Sent(q \o <<e, None>>) = Append(s \o Sent(q), e)
    BY <1>1, <1>2, Zenon
<1>5. ASSUME NEW e \in Events, NEW f \in Events
      PROVE  /\ q \o <<e, f>> \in Seq(Events)
             /\ s \o Sent(q \o <<e, f>>) = Append(Append(s \o Sent(q), e), f)
    BY <1>1, <1>3, Zenon
<1>6. s \o Sent(q \o <<None>>) = s \o Sent(q)
    BY <1>1, Zenon
<1> QED
    BY <1>1, <1>4, <1>5, <1>6, Zenon DEF PutBehind

(* The relay takes the first event of the queue, or the sentinel.          *)
IsQueue(q) == q \in Seq(Events) \/ \E p \in Seq(Events) : q = Append(p, None)

(* The relay takes the first event of the queue, or the sentinel, and so    *)
(* forwards without loss.                                                   *)
LEMMA TakeFromQueue ==
    ASSUME NEW q, IsQueue(q), NEW s \in Seq(Events), q # <<>>
    PROVE  /\ Head(q) # None =>
                 /\ Head(q) \in Events
                 /\ q \in Seq(Events) => Tail(q) \in Seq(Events)
                 /\ IsQueue(Tail(q))
                 /\ Append(s, Head(q)) \o Sent(Tail(q)) = s \o Sent(q)
           /\ Head(q) = None =>
                 /\ q \notin Seq(Events) /\ Tail(q) = <<>> /\ Sent(q) = <<>>
<1>1. ASSUME NEW p \in Seq(Events), p # <<>>
      PROVE  /\ Head(p) \in Events /\ Head(p) # None /\ Tail(p) \in Seq(Events)
             /\ Append(s, Head(p)) \o Tail(p) = s \o p
    <2> DEFINE h == Head(p)
               t == Tail(p)
    <2>1. h \in Events /\ t \in Seq(Events) /\ p = <<h>> \o t
        BY <1>1, FirstOf
    <2> HIDE DEF h, t, Events
    <2>2. Append(s, h) = s \o <<h>> /\ <<h>> \in Seq(Events)
        BY <2>1, AppendIsConcat
    <2>3. (s \o <<h>>) \o t = s \o (<<h>> \o t)
        BY <2>1, <2>2, ConcatAssociative
    <2> QED
        BY <2>1, <2>2, <2>3, BothCarry DEF h, t
<1>2. CASE q \in Seq(Events)
    <2>1. Sent(q) = q /\ Sent(Tail(q)) = Tail(q)
        BY <1>1, <1>2, LastOfOpen
    <2> QED
        BY <1>1, <1>2, <2>1 DEF IsQueue
<1>3. CASE q \notin Seq(Events)
    <2>1. PICK p \in Seq(Events) : q = Append(p, None)
        BY <1>3 DEF IsQueue
    <2> DEFINE A == Events \cup {None}
    <2>2. p \in Seq(A) /\ None \in A
        BY SeqMonotonic
    <2> HIDE DEF A, Events, None
    <2>3. /\ Head(q) = (IF p = <<>> THEN None ELSE Head(p))
          /\ Tail(q) = (IF p = <<>> THEN <<>> ELSE Append(Tail(p), None))
        BY <2>1, <2>2, HeadTailAppend
    <2>4. Sent(q) = p
        BY <2>1, LastOfClosed
    <2>5. CASE p = <<>>
        BY <1>3, <2>3, <2>4, <2>5
    <2>6. CASE p # <<>>
        <3>1. /\ Head(p) \in Events /\ Head(p) # None /\ Tail(p) \in Seq(Events)
              /\ Append(s, Head(p)) \o Tail(p) = s \o p
            BY <1>1, <2>6
        <3>2. Head(q) = Head(p) /\ Tail(q) = Append(Tail(p), None)
            BY <2>3, <2>6
        <3>3. Sent(Tail(q)) = Tail(p)
            BY <3>1, <3>2, LastOfClosed
        <3> QED
            BY <1>3, <2>4, <3>1, <3>2, <3>3 DEF IsQueue
    <2> QED
        BY <2>5, <2>6
<1> QED
    BY <1>2, <1>3

-----------------------------------------------------------------------------
(* How many of the events are tokens. *)
(* How many of the events are tokens, one event after the other.            *)
LEMMA TokensParts ==
    /\ TokensIn(<<>>) = 0
    /\ \A s \in Seq(Events) : TokensIn(s) \in Nat
    /\ \A s \in Seq(Events), e \in Events :
          TokensIn(Append(s, e)) = IF e.type = "token" THEN TokensIn(s) + 1 ELSE TokensIn(s)
<1> DEFINE T(s) == {i \in DOMAIN s : s[i].type = "token"}
<1>1. T(<<>>) = {}
    OBVIOUS
<1>2. ASSUME NEW s \in Seq(Events)
      PROVE  T(s) \in SUBSET (1..Len(s)) /\ IsFiniteSet(T(s)) /\ TokensIn(s) = Cardinality(T(s))
    <2>1. T(s) \in SUBSET (1..Len(s)) /\ Len(s) \in Nat
        OBVIOUS
    <2>2. IsFiniteSet(1..Len(s))
        BY <2>1, FS_Interval
    <2>3. IsFiniteSet(T(s))
        BY <2>1, <2>2, FS_Subset
    <2> QED
        BY <2>1, <2>3 DEF TokensIn
<1>3. ASSUME NEW s \in Seq(Events), NEW e \in Events
      PROVE  /\ T(Append(s, e)) = IF e.type = "token" THEN T(s) \cup {Len(s) + 1} ELSE T(s)
             /\ Len(s) + 1 \notin T(s)
    <2> DEFINE a == Append(s, e)
               n == Len(s)
    <2>1. /\ n \in Nat /\ DOMAIN s = 1..n /\ DOMAIN a = 1..(n + 1)
          /\ a[n + 1] = e /\ \A i \in 1..n : a[i] = s[i]
        <3> HIDE DEF Events
        <3> QED
            OBVIOUS
    <2> HIDE DEF a, n
    <2>2. \A i : i \in 1..(n + 1) <=> i \in 1..n \/ i = n + 1
        BY <2>1
    <2>3. n + 1 \notin 1..n
        BY <2>1
    <2>4. \A i : i \in T(a) <=> i \in T(s) \/ (i = n + 1 /\ e.type = "token")
        BY <2>1, <2>2, <2>3
    <2>5. n + 1 \notin T(s)
        BY <2>1, <2>3
    <2>6. T(a) = IF e.type = "token" THEN T(s) \cup {n + 1} ELSE T(s)
        <3> HIDE DEF T
        <3> QED
            BY <2>4
    <2> QED
        BY <2>5, <2>6 DEF a, n
<1> HIDE DEF T
<1>4. TokensIn(<<>>) = 0
    <2>1. <<>> \in Seq(Events)
        OBVIOUS
    <2> QED
        BY <1>1, <1>2, <2>1, FS_EmptySet
<1>5. \A s \in Seq(Events) : TokensIn(s) \in Nat
    BY <1>2, FS_CardinalityType
<1>6. ASSUME NEW s \in Seq(Events), NEW e \in Events
      PROVE  TokensIn(Append(s, e)) = IF e.type = "token" THEN TokensIn(s) + 1 ELSE TokensIn(s)
    <2>1. Append(s, e) \in Seq(Events)
        <3> HIDE DEF Events
        <3> QED
            OBVIOUS
    <2>2. Cardinality(T(s) \cup {Len(s) + 1}) = Cardinality(T(s)) + 1
        BY <1>2, <1>3, FS_AddElement
    <2> QED
        BY <1>2, <1>3, <2>1, <2>2
<1> QED
    BY <1>4, <1>5, <1>6

-----------------------------------------------------------------------------
(* The inductive invariant. *)

(* What the browser was told, or will be if it stays. *)
Told == shown \o Sent(queue)

(* A response begins once; pieces wait only while it streams. *)
AdapterOK ==
    /\ adapter \in {"opening", "streaming", "returned", "raised", "closed"}
    /\ pieces \in Seq(NonEmpty) /\ answers \in {0, 1} /\ response \in Text
    /\ adapter = "opening" => answers = 0 /\ response = <<>>
    /\ adapter \in {"streaming", "returned"} => answers = 1
    /\ pieces # <<>> => adapter = "streaming"

(* done and error come last, from an iterator that is over; done says that *)
(* the gate cut it or that the model returned.                             *)
FramesAre(f, srv, cut, gen) ==
    /\ f \in Seq(Frames)
    /\ \A i \in 1..Len(f) :
          /\ f[i].kind = "text" => f[i].text # <<>>
          /\ f[i].kind # "text" => f[i].text = <<>> /\ i = Len(f) /\ srv = "over"
          /\ f[i].kind = "done" => cut = TRUE \/ gen = "returned"

FrameOK ==
    /\ server \in {"idle", "pulling", "over"} /\ gated \in BOOLEAN
    /\ driver \in {"new", "opening"} => server = "idle"
    /\ FramesAre(frames, server, gated, adapter)

(* An exception is on its way only out of the driver's loop; a halt ended  *)
(* that loop.                                                              *)
SessionOK ==
    /\ enforce_schema \in BOOLEAN
    /\ driver \in {"new", "opening", "reading", "committing", "finishing", "leaving",
                  "closing", "ended"}
    /\ failed \in BOOLEAN /\ accumulated \in Text /\ tokens \in Nat /\ halted \in BOOLEAN
    /\ driver \notin {"closing", "ended"} => failed = FALSE
    /\ halted => driver \in {"finishing", "leaving", "closing", "ended"} /\ eval_chain(accumulated)

(* The sentinel is put last, and relayed last. *)
QueueOK ==
    /\ relay \in {"waiting", "ended", "left"} /\ cancelled \in BOOLEAN
    /\ shown \in Seq(Events) /\ IsQueue(queue)
    /\ queue \notin Seq(Events) => driver = "ended"
    /\ cancelled <=> relay # "waiting"
    /\ relay = "ended" => driver = "ended" /\ queue = <<>>

-----------------------------------------------------------------------------
(* The adapter, and the text on its way through it. *)
(* A line of the model carries a text that is not empty.                    *)
LEMMA TextsAre == \A text \in Texts : text \in NonEmpty /\ text \in Text
<1> SUFFICES ASSUME NEW text \in Texts PROVE text \in NonEmpty
    BY DEF NonEmpty
<1>1. text \in Text /\ Len(text) > 0
    BY AdapterAssumption, DeliveryAssumption DEF Text
<1> HIDE DEF Alphabet
<1>2. text # <<>>
    BY <1>1
<1> QED
    BY <1>1, <1>2 DEF NonEmpty

(* A step of the generator adds to the response what it adds to the         *)
(* pieces, and only when they have all gone: no retry once a text has       *)
(* come (gemini.py).                                                        *)
LEMMA AdapterRunning ==
    ASSUME AdapterOK, AdapterRuns
    PROVE  /\ AdapterOK' /\ adapter \in {"opening", "streaming"} /\ adapter' # "closed"
           /\ \/ response' = response /\ pieces' = pieces
              \/ /\ pieces = <<>>
                 /\ Visible(response') = Visible(response) \o Visible(Joined(pieces'))
<1>1. CASE OpenTransient
    BY <1>1 DEF AdapterOK, OpenTransient, NextAttempt
<1>2. CASE OpenRaises
    BY <1>2 DEF AdapterOK, OpenRaises
<1>3. CASE OpenSucceeds
    BY <1>3 DEF AdapterOK, OpenSucceeds
<1>4. CASE LineArrives
    <2>1. PICK text \in Texts : response' = response \o text /\ pieces' = split_chunk(text)
        BY <1>4 DEF LineArrives, PiecesOf
    <2>2. /\ adapter = "streaming" /\ adapter' = adapter /\ answers' = answers
          /\ pieces = <<>>
        BY <1>4 DEF LineArrives
    <2>3. pieces' \in Seq(NonEmpty) /\ Visible(Joined(pieces')) = Visible(text)
        BY <2>1, TextsAre, SplitKeepsText
    <2>4. response \in Text /\ text \in Text
        BY TextsAre DEF AdapterOK
    <2>5. response' \in Text /\ Visible(response') = Visible(response) \o Visible(text)
        BY <2>1, <2>4, VisibleConcat, TextFacts
    <2> QED
        BY <2>2, <2>3, <2>5 DEF AdapterOK
<1>5. CASE LinesEnd
    BY <1>5 DEF AdapterOK, LinesEnd
<1>6. CASE LinesBreak
    BY <1>6 DEF AdapterOK, LinesBreak
<1> QED
    BY <1>1, <1>2, <1>3, <1>4, <1>5, <1>6 DEF AdapterRuns

(* A piece that is yielded is the first that was waiting.                   *)
LEMMA PieceYielded ==
    ASSUME AdapterOK, YieldPiece
    PROVE  /\ AdapterOK' /\ adapter = "streaming" /\ adapter' = adapter
           /\ response' = response /\ Head(pieces) \in NonEmpty
           /\ Visible(Joined(pieces)) = Visible(Head(pieces)) \o Visible(Joined(pieces'))
<1>1. /\ pieces # <<>> /\ pieces' = Tail(pieces) /\ adapter' = adapter
      /\ answers' = answers /\ response' = response
    BY DEF YieldPiece
<1>2. Head(pieces) \in NonEmpty /\ Tail(pieces) \in Seq(NonEmpty)
    BY <1>1, FirstOf DEF AdapterOK
<1>3. pieces \in Seq(Text) /\ Tail(pieces) \in Seq(Text) /\ Head(pieces) \in Text
    BY <1>2, NonEmptyFacts DEF AdapterOK, NonEmpty
<1>4. Joined(pieces) = Head(pieces) \o Joined(Tail(pieces)) /\ Joined(Tail(pieces)) \in Text
    BY <1>1, <1>3, JoinedFirst, JoinedParts
<1>5. Visible(Joined(pieces)) = Visible(Head(pieces)) \o Visible(Joined(Tail(pieces)))
    BY <1>3, <1>4, VisibleConcat
<1>6. AdapterOK'
    BY <1>1, <1>2 DEF AdapterOK
<1> QED
    BY <1>1, <1>2, <1>5, <1>6 DEF AdapterOK

(* Closing the generator drops its pieces.                                  *)
LEMMA AdapterDropped ==
    ASSUME AdapterOK, AdapterClosed
    PROVE  /\ AdapterOK' /\ response' = response /\ pieces' = <<>>
           /\ \/ /\ adapter \in {"opening", "streaming"} /\ adapter' = "closed"
              \/ adapter' = adapter /\ pieces = <<>>
BY NonEmptyFacts DEF AdapterOK, AdapterClosed

(* The generator keeps its invariant.                                       *)
LEMMA AdapterStep ==
    ASSUME AdapterOK, [DeliveryNext]_vars
    PROVE  AdapterOK'
<1>1. CASE UNCHANGED adapterVars
    BY <1>1 DEF AdapterOK, adapterVars
<1>2. CASE AdapterRuns \/ YieldPiece \/ AdapterClosed
    BY <1>2, AdapterRunning, PieceYielded, AdapterDropped
<1>3. UNCHANGED adapterVars \/ AdapterRuns \/ YieldPiece \/ AdapterClosed
    BY DEF DeliveryNext, vars, Producer, Driver, Relay, PullNext, EmitPiece, GateHalts,
           EmitDone, EmitError, ServerReleased, DriverStarts, SessionOpens, ReadToken,
           ReadDone, ReadError, SessionRaises, CommitReturns, FinalCommitReturns,
           ResponseClosed,
           ClientsClosed, ClosingRaises, DriverCancelled, RelayForwards, RelayEnds,
           BrowserLeaves, producerSide, otherSides
<1> QED
    BY <1>1, <1>2, <1>3

-----------------------------------------------------------------------------
(* What every step of the driver and of the relay tells the browser.       *)
(* An event that carries neither text nor an outcome. *)
Quiet(e) == e \in Events /\ e.text = <<>> /\ e.type \notin {"token", "complete", "error"}

(* What every step of the driver tells the browser.                         *)
LEMMA DriverTells ==
    ASSUME SessionOK, SessionOK', QueueOK, FrameOK
    PROVE  /\ DriverStarts => \E e \in Events : Quiet(e) /\ Told' = Append(Told, e)
           /\ SessionOpens => \E e, f \in Events : Quiet(e) /\ Quiet(f)
                                                   /\ Told' = Append(Append(Told, e), f)
           /\ ReadToken => \E e \in Events : /\ Told' = Append(Told, e)
                                             /\ e.type = "token" /\ e.text = Head(frames).text
           /\ CommitReturns => \E e \in Events : Quiet(e) /\ Told' = Append(Told, e)
           /\ FinalCommitReturns =>
                 \E e \in Events : /\ Told' = Append(Told, e) /\ Quiet(e)
                                   /\ e.type = "commit_signed" /\ e.tokens = tokens
           /\ ResponseClosed =>
                 \E e \in Events : /\ Told' = Append(Told, e) /\ e.text = <<>>
                                   /\ e.type = "complete" /\ e.tokens = tokens
           /\ ClosingRaises \/ (ClientsClosed /\ failed) =>
                 \E e \in Events : Told' = Append(Told, e) /\ e.type = "error" /\ e.text = <<>>
           /\ DriverCancelled \/ (ClientsClosed /\ ~failed) => Told' = Told
           /\ Driver \/ SessionRaises \/ ClosingRaises => QueueOK'
<1> DEFINE E(t) == [type |-> t, tokens |-> tokens', text |-> <<>>]
<1>1. ASSUME NEW t \in EventTypes PROVE E(t) \in Events
    BY TextFacts, EventsAre DEF SessionOK
<1>2. ASSUME NEW t \in {"phase", "session_open", "commit_signed"} PROVE Quiet(E(t)) /\ E(t) \in Events
    <2>1. t \in EventTypes /\ t \notin {"token", "complete", "error"}
        BY DEF EventTypes
    <2> QED
        BY <1>1, <2>1 DEF Quiet
<1>3. E("error") \in Events /\ E("complete") \in Events
    BY <1>1 DEF EventTypes
<1>4. \A t : E(t).type = t /\ E(t).tokens = tokens' /\ E(t).text = <<>>
    OBVIOUS
<1>5. ASSUME shown' = shown, driver # "ended"
      PROVE  /\ \A e \in Events : queue' = queue \o <<e>> => Told' = Append(Told, e)
             /\ \A e, f \in Events : queue' = queue \o <<e, f>> =>
                                        Told' = Append(Append(Told, e), f)
             /\ \A e \in Events : queue' = queue \o <<e, None>> => Told' = Append(Told, e)
             /\ queue' \in {queue, queue \o <<>>, queue \o <<None>>} => Told' = Told
             /\ queue \in Seq(Events) /\ shown \in Seq(Events)
    <2>1. queue \in Seq(Events) /\ shown \in Seq(Events)
        BY <1>5 DEF QueueOK
    <2>2. Told' = shown \o Sent(queue')
        BY <1>5 DEF Told
    <2>3. PutBehind(queue, shown)
        BY <2>1, PutOnQueue
    <2>4. Told = shown \o Sent(queue)
        BY DEF Told
    <2>5. ASSUME NEW e \in Events, queue' \in {queue \o <<e>>, queue \o <<e, None>>}
          PROVE  Told' = Append(Told, e)
        BY <2>2, <2>3, <2>4, <2>5 DEF PutBehind
    <2>6. ASSUME NEW e \in Events, NEW f \in Events, queue' = queue \o <<e, f>>
          PROVE  Told' = Append(Append(Told, e), f)
        BY <2>2, <2>3, <2>4, <2>6 DEF PutBehind
    <2>7. queue' \in {queue, queue \o <<>>, queue \o <<None>>} => Told' = Told
        BY <2>2, <2>3, <2>4 DEF PutBehind
    <2> QED
        BY <2>1, <2>5, <2>6, <2>7
<1>6. DriverStarts => \E e \in Events : Quiet(e) /\ Told' = Append(Told, e)
    <2> SUFFICES ASSUME DriverStarts PROVE Quiet(E("phase")) /\ Told' = Append(Told, E("phase"))
        BY <1>2
    <2>1. driver # "ended" /\ shown' = shown /\ queue' = queue \o <<E("phase")>>
        BY DEF DriverStarts, Put, Event, browserSide
    <2> HIDE DEF E
    <2> QED
        BY <1>2, <1>5, <2>1
<1>7. SessionOpens => \E e, f \in Events : Quiet(e) /\ Quiet(f)
                                           /\ Told' = Append(Append(Told, e), f)
    <2> DEFINE e == E("session_open")
               f == E("phase")
    <2> SUFFICES ASSUME SessionOpens
                 PROVE  Quiet(e) /\ Quiet(f) /\ Told' = Append(Append(Told, e), f)
        BY <1>2
    <2>1. driver # "ended" /\ shown' = shown /\ queue' = queue \o <<e, f>>
        BY DEF SessionOpens, Put, Event, browserSide
    <2> HIDE DEF E
    <2> QED
        BY <1>2, <1>5, <2>1
<1>8. ReadToken => \E e \in Events : /\ Told' = Append(Told, e)
                                     /\ e.type = "token" /\ e.text = Head(frames).text
    <2> SUFFICES ASSUME ReadToken
                 PROVE  \E e \in Events : /\ Told' = Append(Told, e)
                                          /\ e.type = "token" /\ e.text = Head(frames).text
        OBVIOUS
    <2> DEFINE e == [type |-> "token", tokens |-> tokens', text |-> Head(frames).text]
    <2>1. Head(frames).text \in Text
        <3>1. frames # <<>> /\ frames \in Seq(Frames)
            BY DEF ReadToken, FrameOK, FramesAre
        <3>2. Head(frames) \in Frames
            BY <3>1, FirstOf
        <3> QED
            BY <3>2 DEF Frames
    <2>2. e \in Events
        BY <2>1, EventsAre DEF SessionOK, EventTypes
    <2>3. driver # "ended" /\ shown' = shown /\ queue' = queue \o <<e>>
        BY DEF ReadToken, Put, Event, browserSide
    <2>4. e.type = "token" /\ e.text = Head(frames).text
        OBVIOUS
    <2> HIDE DEF e
    <2> QED
        BY <1>5, <2>2, <2>3, <2>4
<1>9. CommitReturns => \E e \in Events : Quiet(e) /\ Told' = Append(Told, e)
    <2> DEFINE e == E("commit_signed")
    <2> SUFFICES ASSUME CommitReturns PROVE Quiet(e) /\ Told' = Append(Told, e)
        BY <1>2
    <2>1. driver # "ended" /\ shown' = shown /\ queue' = queue \o <<e>>
        BY DEF CommitReturns, Put, Event, browserSide
    <2> HIDE DEF E
    <2> QED
        BY <1>2, <1>5, <2>1
<1>10. FinalCommitReturns =>
          \E e \in Events : /\ Told' = Append(Told, e) /\ Quiet(e)
                            /\ e.type = "commit_signed" /\ e.tokens = tokens
    <2> DEFINE e == E("commit_signed")
    <2> SUFFICES ASSUME FinalCommitReturns
                 PROVE  /\ Told' = Append(Told, e) /\ Quiet(e)
                        /\ e.type = "commit_signed" /\ e.tokens = tokens
        BY <1>2
    <2>1. /\ driver # "ended" /\ shown' = shown /\ queue' = queue \o <<e>>
          /\ tokens' = tokens
        BY DEF FinalCommitReturns, Put, Event, browserSide, sessionVars
    <2>2. e.type = "commit_signed" /\ e.tokens = tokens
        BY <2>1, <1>4
    <2> HIDE DEF E
    <2> QED
        BY <1>2, <1>5, <2>1, <2>2
<1>14. ResponseClosed =>
          \E e \in Events : /\ Told' = Append(Told, e) /\ e.text = <<>>
                            /\ e.type = "complete" /\ e.tokens = tokens
    <2> DEFINE e == E("complete")
    <2> SUFFICES ASSUME ResponseClosed
                 PROVE  /\ Told' = Append(Told, e) /\ e.text = <<>>
                        /\ e.type = "complete" /\ e.tokens = tokens
        BY <1>3
    <2>1. /\ driver # "ended" /\ shown' = shown /\ queue' = queue \o <<e>>
          /\ tokens' = tokens
        BY DEF ResponseClosed, Put, Event, browserSide, sessionVars
    <2>2. e.type = "complete" /\ e.tokens = tokens /\ e.text = <<>>
        BY <2>1, <1>4
    <2> HIDE DEF E
    <2> QED
        BY <1>3, <1>5, <2>1, <2>2
<1>11. ClosingRaises \/ (ClientsClosed /\ failed) =>
          \E e \in Events : Told' = Append(Told, e) /\ e.type = "error" /\ e.text = <<>>
    <2> DEFINE e == E("error")
    <2> SUFFICES ASSUME ClosingRaises \/ (ClientsClosed /\ failed)
                 PROVE  Told' = Append(Told, e) /\ e.type = "error" /\ e.text = <<>>
        BY <1>3
    <2>1. driver # "ended" /\ shown' = shown /\ queue' = queue \o <<e, None>>
        BY DEF ClosingRaises, ClientsClosed, Put, Event, browserSide
    <2>2. e.type = "error" /\ e.text = <<>>
        OBVIOUS
    <2> HIDE DEF E
    <2> QED
        BY <1>3, <1>5, <2>1, <2>2
<1>12. DriverCancelled \/ (ClientsClosed /\ ~failed) => Told' = Told
    <2> SUFFICES ASSUME DriverCancelled \/ (ClientsClosed /\ ~failed) PROVE Told' = Told
        OBVIOUS
    <2>1. driver # "ended" /\ shown' = shown
          /\ queue' \in {queue, queue \o <<>>, queue \o <<None>>}
        BY DEF DriverCancelled, ClientsClosed, Put, browserSide
    <2> QED
        BY <1>5, <2>1
<1>13. Driver \/ SessionRaises \/ ClosingRaises => QueueOK'
    <2> SUFFICES ASSUME Driver \/ SessionRaises \/ ClosingRaises PROVE QueueOK'
        OBVIOUS
    <2>1. driver # "ended" /\ UNCHANGED <<relay, shown, cancelled>>
        BY DEF Driver, DriverStarts, SessionOpens, ReadToken, ReadDone, ReadError,
               SessionRaises, CommitReturns, FinalCommitReturns, ResponseClosed,
               ClientsClosed,
               ClosingRaises, DriverCancelled, browserSide
    <2>2. queue \in Seq(Events) /\ shown \in Seq(Events) /\ relay # "ended"
        BY <2>1 DEF QueueOK
    <2>3. ASSUME queue' \in Seq(Events) PROVE QueueOK'
        BY <2>1, <2>2, <2>3 DEF QueueOK, IsQueue
    <2>4. ASSUME driver' = "ended", NEW p \in Seq(Events), queue' = Append(p, None) PROVE QueueOK'
        BY <2>1, <2>2, <2>4 DEF QueueOK, IsQueue
    <2>5. /\ \A e \in Events : queue \o <<e>> \in Seq(Events)
          /\ \A e, f \in Events : queue \o <<e, f>> \in Seq(Events)
          /\ \A e \in Events : /\ queue \o <<e, None>> = Append(Append(queue, e), None)
                               /\ Append(queue, e) \in Seq(Events)
          /\ queue \o <<None>> = Append(queue, None) /\ queue \o <<>> = queue
        <3>1. PutBehind(queue, shown)
            BY <2>2, PutOnQueue
        <3> QED
            BY <3>1 DEF PutBehind
    <2>6. ASSUME NEW t \in EventTypes, queue' = queue \o <<E(t)>> PROVE QueueOK'
        BY <1>1, <2>3, <2>5, <2>6
    <2>7. ASSUME driver' = "ended", queue' \in {queue \o <<>>, queue \o <<None>>,
                                               queue \o <<E("error"), None>>}
          PROVE  QueueOK'
        <3> HIDE DEF E
        <3> QED
            BY <1>3, <2>2, <2>3, <2>4, <2>5, <2>7
    <2>8. CASE DriverStarts
        BY <2>6, <2>8 DEF DriverStarts, Put, Event, EventTypes
    <2>9. CASE SessionOpens
        <3>1. queue' = queue \o <<E("session_open"), E("phase")>>
            BY <2>9 DEF SessionOpens, Put, Event
        <3>2. E("session_open") \in Events /\ E("phase") \in Events
            BY <1>2
        <3> HIDE DEF E
        <3> QED
            BY <2>3, <2>5, <3>1, <3>2
    <2>10. CASE ReadToken
        <3> DEFINE e == [type |-> "token", tokens |-> tokens', text |-> Head(frames).text]
        <3>1. frames # <<>> /\ frames \in Seq(Frames)
            BY <2>10 DEF ReadToken, FrameOK, FramesAre
        <3>2. Head(frames) \in Frames
            BY <3>1, FirstOf
        <3>3. Head(frames).text \in Text
            BY <3>2 DEF Frames
        <3>4. e \in Events
            BY <3>3, EventsAre DEF SessionOK, EventTypes
        <3>5. queue' = queue \o <<e>>
            BY <2>10 DEF ReadToken, Put, Event
        <3> HIDE DEF e
        <3> QED
            BY <2>3, <2>5, <3>4, <3>5
    <2>11. CASE ReadDone \/ ReadError \/ SessionRaises
        BY <2>2, <2>3, <2>11 DEF ReadDone, ReadError, SessionRaises
    <2>12. CASE CommitReturns
        BY <2>6, <2>12 DEF CommitReturns, Put, Event, EventTypes
    <2>13. CASE FinalCommitReturns \/ ResponseClosed
        BY <2>6, <2>13 DEF FinalCommitReturns, ResponseClosed, Put, Event, EventTypes
    <2>14. CASE ClientsClosed \/ ClosingRaises \/ DriverCancelled
        BY <2>7, <2>14 DEF ClientsClosed, ClosingRaises, DriverCancelled, Put, Event
    <2> QED
        BY <2>8, <2>9, <2>10, <2>11, <2>12, <2>13, <2>14 DEF Driver
<1> QED
    BY <1>6, <1>7, <1>8, <1>9, <1>10, <1>11, <1>12, <1>13, <1>14

(* Only the empty sequence has length 0.                                    *)
LEMMA EmptyIs ==
    ASSUME NEW A, NEW s \in Seq(A), Len(s) = 0
    PROVE  s = <<>>
BY EmptySeq

(* Reading a frame: done or error is the last that was written.             *)
LEMMA FirstFrame ==
    ASSUME NEW f, NEW srv, NEW cut, NEW gen, FramesAre(f, srv, cut, gen), f # <<>>
    PROVE  /\ Head(f) \in Frames /\ FramesAre(Tail(f), srv, cut, gen)
           /\ Head(f).kind = "text" => Head(f).text # <<>>
           /\ Head(f).kind # "text" => Head(f).text = <<>> /\ Tail(f) = <<>> /\ srv = "over"
           /\ Head(f).kind = "done" => cut = TRUE \/ gen = "returned"
<1>1. f \in Seq(Frames)
    BY DEF FramesAre
<1> DEFINE t == Tail(f)
<1>2. /\ Head(f) \in Frames /\ t \in Seq(Frames) /\ Len(f) \in Nat \ {0}
      /\ Len(t) = Len(f) - 1 /\ f[1] = Head(f)
      /\ \A i \in 1..Len(t) : t[i] = f[i + 1]
    BY <1>1, FirstOf
<1> HIDE DEF t
<1>3. 1 \in 1..Len(f) /\ \A i \in 1..Len(t) : i + 1 \in 1..Len(f) /\ (i + 1 = Len(f) => i = Len(t))
    BY <1>2
<1>4. FramesAre(t, srv, cut, gen)
    BY <1>2, <1>3 DEF FramesAre
<1>5. /\ Head(f).kind = "text" => Head(f).text # <<>>
      /\ Head(f).kind # "text" => Head(f).text = <<>> /\ 1 = Len(f) /\ srv = "over"
      /\ Head(f).kind = "done" => cut = TRUE \/ gen = "returned"
    BY <1>2, <1>3 DEF FramesAre
<1>6. 1 = Len(f) => t = <<>>
    <2>0. t \in Seq(Frames)
        BY <1>2
    <2>1. Len(t) = 0 => t = <<>>
        BY <2>0, EmptyIs
    <2> QED
        BY <1>2, <2>1
<1> QED
    BY <1>2, <1>4, <1>5, <1>6 DEF t

(* Writing one while the server is not over keeps the order.                *)
LEMMA FrameWritten ==
    ASSUME NEW f, NEW srv, NEW cut, NEW gen, FramesAre(f, srv, cut, gen), srv # "over",
           NEW e \in Frames, NEW srv2, NEW cut2, NEW gen2,
           e.kind = "text" => e.text # <<>>,
           e.kind # "text" => e.text = <<>> /\ srv2 = "over",
           e.kind = "done" => cut2 = TRUE \/ gen2 = "returned"
    PROVE  FramesAre(Append(f, e), srv2, cut2, gen2)
<1> DEFINE a == Append(f, e)
           n == Len(f)
<1>1. f \in Seq(Frames)
    BY DEF FramesAre
<1>2. /\ a \in Seq(Frames) /\ n \in Nat /\ Len(a) = n + 1 /\ a[n + 1] = e
      /\ \A i \in 1..n : a[i] = f[i]
    BY <1>1, AppendProperties, LenProperties
<1>3. \A i \in 1..n : f[i].kind = "text" /\ f[i].text # <<>>
    BY DEF FramesAre
<1> HIDE DEF a, n
<1>4. \A i \in 1..Len(a) : i \in 1..n \/ i = n + 1
    BY <1>2
<1>5. ASSUME NEW i \in 1..n
      PROVE  a[i].kind = "text" /\ a[i].text # <<>>
    BY <1>2, <1>3
<1>6. FramesAre(a, srv2, cut2, gen2)
    BY <1>2, <1>4, <1>5 DEF FramesAre
<1> QED
    BY <1>6 DEF a

(* So does everything else.                                                 *)
LEMMA FramesStay ==
    ASSUME NEW f, NEW srv, NEW cut, NEW gen, FramesAre(f, srv, cut, gen),
           NEW srv2, NEW cut2, NEW gen2, srv = "over" => srv2 = "over",
           cut = TRUE => cut2 = TRUE, gen = "returned" => gen2 = "returned"
    PROVE  FramesAre(f, srv2, cut2, gen2)
BY DEF FramesAre

(* The frames keep their invariant.                                         *)
LEMMA FrameStep ==
    ASSUME FrameOK, AdapterOK, [DeliveryNext]_vars
    PROVE  FrameOK'
<1>1. /\ FramesAre(frames, server, gated, adapter) /\ gated \in BOOLEAN
      /\ driver \in {"new", "opening"} => server = "idle"
    BY DEF FrameOK
<1>2. ASSUME NEW e \in Frames, frames' = Append(frames, e), server = "pulling",
             server' \in {"pulling", "over"}, gated' \in BOOLEAN, driver' = driver,
             e.kind = "text" => e.text # <<>>,
             e.kind # "text" => e.text = <<>> /\ server' = "over",
             e.kind = "done" => gated' = TRUE \/ adapter' = "returned"
      PROVE  FrameOK'
    <2>1. FramesAre(Append(frames, e), server', gated', adapter')
        BY <1>1, <1>2, FrameWritten
    <2> QED
        BY <1>1, <1>2, <2>1 DEF FrameOK
<1>3. ASSUME NEW e \in Frames, frames' = Tail(frames), frames # <<>>,
             UNCHANGED <<server, gated, adapter>>, driver' \notin {"new", "opening"}
      PROVE  FrameOK'
    BY <1>1, <1>3, FirstFrame DEF FrameOK
<1>4. ASSUME frames' = frames, gated' = gated, server' \in {"idle", "pulling", "over"},
             server = "over" => server' = "over",
             adapter = "returned" => adapter' = "returned",
             driver' \in {"new", "opening"} => server' = "idle"
      PROVE  FrameOK'
    <2>1. FramesAre(frames, server', gated', adapter')
        BY <1>1, <1>4, FramesStay
    <2> QED
        BY <1>1, <1>4, <2>1 DEF FrameOK
<1>5. \A k \in {"text", "done", "error"}, x \in Text :
         Frame(k, x) \in Frames /\ Frame(k, x).kind = k /\ Frame(k, x).text = x
    BY DEF Frame, Frames
<1>6. CASE PullNext
    <2>1. adapter # "returned"
        BY <1>6, AdapterRunning DEF PullNext
    <2> QED
        BY <1>1, <1>4, <1>6, <2>1 DEF PullNext, consumerSide, driverVars, FrameOK
<1>7. CASE EmitPiece
    <2>1. Head(pieces) \in NonEmpty /\ adapter' = adapter
        BY <1>7, PieceYielded DEF EmitPiece
    <2>2. Head(pieces) \in Text /\ Head(pieces) # <<>>
        BY <2>1 DEF NonEmpty
    <2> DEFINE e == Frame("text", Head(pieces))
    <2>3. e \in Frames /\ e.kind = "text" /\ e.text # <<>>
        BY <1>5, <2>2
    <2>4. frames' = Append(frames, e) /\ server = "pulling" /\ server' = server
          /\ gated' = gated /\ driver' = driver
        BY <1>7 DEF EmitPiece, Pulling, consumerSide, driverVars
    <2> HIDE DEF e
    <2> QED
        BY <1>1, <1>2, <2>3, <2>4
<1>8. CASE GateHalts \/ EmitDone
    <2> DEFINE e == Frame("done", <<>>)
    <2>1. e \in Frames /\ e.kind = "done" /\ e.text = <<>>
        BY <1>5, TextFacts
    <2>2. frames' = Append(frames, e) /\ server = "pulling" /\ server' = "over"
          /\ driver' = driver /\ gated' \in BOOLEAN
          /\ (gated' = TRUE \/ adapter' = "returned")
        BY <1>1, <1>8 DEF GateHalts, EmitDone, Pulling, consumerSide, driverVars, adapterVars
    <2> HIDE DEF e
    <2> QED
        BY <1>2, <2>1, <2>2
<1>9. CASE EmitError
    <2> DEFINE e == Frame("error", <<>>)
    <2>1. e \in Frames /\ e.kind = "error" /\ e.text = <<>>
        BY <1>5, TextFacts
    <2>2. frames' = Append(frames, e) /\ server = "pulling" /\ server' = "over"
          /\ driver' = driver /\ gated' \in BOOLEAN
        BY <1>1, <1>9 DEF EmitError, Pulling, consumerSide, driverVars
    <2> HIDE DEF e
    <2> QED
        BY <1>2, <2>1, <2>2
<1>10. CASE ServerReleased
    <2>1. adapter = "returned" => adapter' = "returned"
        BY <1>10 DEF ServerReleased, AdapterClosed
    <2>2. frames' = frames /\ gated' = gated /\ server' = "over" /\ driver' \notin {"new", "opening"}
        BY <1>10 DEF ServerReleased, HungUp, consumerSide, driverVars
    <2> QED
        BY <1>4, <2>1, <2>2
<1>11. CASE ReadToken \/ ReadDone \/ ReadError
    <2>1. frames # <<>> /\ frames' = Tail(frames) /\ UNCHANGED <<server, gated, adapter>>
          /\ driver' \notin {"new", "opening"}
        BY <1>11 DEF ReadToken, ReadDone, ReadError, producerSide, adapterVars
    <2>2. Head(frames) \in Frames
        BY <1>1, <2>1, FirstFrame
    <2> QED
        BY <1>3, <2>1, <2>2
<1>12. CASE DriverStarts \/ SessionOpens
    BY <1>1, <1>4, <1>12 DEF DriverStarts, SessionOpens, producerSide, adapterVars, FrameOK
<1>13. CASE SessionRaises \/ CommitReturns \/ FinalCommitReturns \/ ResponseClosed
              \/ ClientsClosed \/ ClosingRaises \/ DriverCancelled
    <2>1. frames' = frames /\ UNCHANGED <<server, gated, adapter>>
          /\ driver' \notin {"new", "opening"}
        BY <1>13 DEF SessionRaises, CommitReturns, FinalCommitReturns, ResponseClosed,
               ClientsClosed,
               ClosingRaises, DriverCancelled, producerSide, adapterVars
    <2> QED
        BY <1>4, <2>1 DEF FrameOK
<1>14. CASE RelayForwards \/ RelayEnds \/ BrowserLeaves \/ UNCHANGED vars
    <2>1. UNCHANGED <<frames, server, gated, adapter, driver>>
        BY <1>14 DEF RelayForwards, RelayEnds, BrowserLeaves, vars, otherSides,
               producerSide, adapterVars, driverVars
    <2> QED
        BY <1>1, <1>4, <2>1 DEF FrameOK
<1> QED
    BY <1>6, <1>7, <1>8, <1>9, <1>10, <1>11, <1>12, <1>13, <1>14
       DEF DeliveryNext, Producer, Driver, Relay

-----------------------------------------------------------------------------
(* The session keeps its invariant: a halt is one the evaluators            *)
(* ordered.                                                                 *)
LEMMA SessionStep ==
    ASSUME SessionOK, FrameOK, [DeliveryNext]_vars
    PROVE  SessionOK'
<1> DEFINE States == {"new", "opening", "reading", "committing", "finishing", "leaving",
                       "closing", "ended"}
<1>1. CASE ReadToken
    <2>1. Head(frames).text \in Text
        <3>1. frames # <<>> /\ FramesAre(frames, server, gated, adapter)
            BY <1>1 DEF ReadToken, FrameOK
        <3>2. Head(frames) \in Frames
            BY <3>1, FirstFrame
        <3> QED
            BY <3>2 DEF Frames
    <2>2. accumulated' = accumulated \o Head(frames).text /\ tokens' = tokens + 1
          /\ enforce_schema' = enforce_schema /\ failed' = failed
        BY <1>1 DEF ReadToken, browserSide
    <2>3. accumulated' \in Text /\ tokens' \in Nat
        BY <2>1, <2>2, TextFacts DEF SessionOK
    <2>4. eval_chain(accumulated)' = eval_chain(accumulated')
        BY <2>2 DEF eval_chain
    <2>5. halted' = eval_chain(accumulated')
          /\ driver' \in IF halted' THEN {"finishing"} ELSE {"reading", "committing"}
        BY <1>1 DEF ReadToken
    <2>6. halted' \in BOOLEAN
        BY <2>5 DEF eval_chain, compose
    <2>7. driver' \in States /\ (halted' => driver' = "finishing")
        BY <2>5, <2>6
    <2>8. failed = FALSE
        BY <1>1 DEF ReadToken, SessionOK
    <2> QED
        BY <2>2, <2>3, <2>4, <2>5, <2>6, <2>7, <2>8 DEF SessionOK
<1>2. ASSUME UNCHANGED <<accumulated, tokens, halted, enforce_schema>>, failed' \in BOOLEAN,
             driver' \in States,
             driver' = driver \/ driver' \in {"finishing", "leaving", "closing", "ended"}
                \/ driver \notin {"finishing", "leaving", "closing", "ended"},
             driver' \notin {"closing", "ended"} => failed' = FALSE
      PROVE  SessionOK'
    <2>1. eval_chain(accumulated)' = eval_chain(accumulated)
        BY <1>2 DEF eval_chain
    <2> QED
        BY <1>2, <2>1 DEF SessionOK
<1>3. CASE DriverStarts \/ SessionOpens \/ CommitReturns \/ FinalCommitReturns \/ ResponseClosed
              \/ ReadDone
    BY <1>2, <1>3 DEF SessionOK, DriverStarts, SessionOpens, CommitReturns,
       FinalCommitReturns, ResponseClosed, ReadDone, sessionVars, browserSide
<1>4. CASE ReadError \/ SessionRaises \/ ClientsClosed \/ ClosingRaises \/ DriverCancelled
    BY <1>2, <1>4 DEF SessionOK, ReadError, SessionRaises, ClientsClosed, ClosingRaises,
       DriverCancelled, sessionVars, browserSide
<1>5. CASE Producer \/ GateHalts \/ Relay \/ BrowserLeaves \/ UNCHANGED vars
    <2>1. UNCHANGED <<accumulated, tokens, halted, enforce_schema, failed, driver>>
        BY <1>5 DEF Producer, PullNext, EmitPiece, GateHalts, EmitDone, EmitError,
               ServerReleased, consumerSide, Relay, RelayForwards, RelayEnds, BrowserLeaves,
               vars, otherSides, driverVars, sessionVars
    <2> QED
        BY <1>2, <2>1 DEF SessionOK
<1> QED
    BY <1>1, <1>3, <1>4, <1>5 DEF DeliveryNext, Driver

(* What was shown and what is queued are events.                            *)
LEMMA QueueTyped ==
    ASSUME NEW s \in Seq(Events), NEW q, IsQueue(q)
    PROVE  s \o Sent(q) \in Seq(Events)
<1>1. q \in Seq(Events) \/ \E p \in Seq(Events) : q = Append(p, None)
    BY DEF IsQueue
<1>2. Sent(q) \in Seq(Events)
    BY <1>1, LastOfOpen, LastOfClosed
<1> HIDE DEF Events
<1> QED
    BY <1>2, ConcatProperties

(* So is what the browser is told, now or soon.                             *)
LEMMA ToldIs ==
    ASSUME QueueOK
    PROVE  Told \in Seq(Events)
BY QueueTyped DEF QueueOK, Told

(* The relay moves events on, and tells nothing new.                        *)
LEMMA RelayTells ==
    ASSUME QueueOK
    PROVE  Relay \/ BrowserLeaves => QueueOK' /\ Told' = Told
<1>1. ASSUME RelayForwards PROVE QueueOK' /\ Told' = Told
    <2>1. /\ relay = "waiting" /\ queue # <<>> /\ Head(queue) # None
          /\ shown' = Append(shown, Head(queue)) /\ queue' = Tail(queue)
          /\ UNCHANGED <<relay, cancelled, driver>>
        BY <1>1 DEF RelayForwards, otherSides, driverVars
    <2>2. IsQueue(queue) /\ shown \in Seq(Events)
        BY DEF QueueOK
    <2>3. /\ Head(queue) \in Events
          /\ queue \in Seq(Events) => Tail(queue) \in Seq(Events)
          /\ IsQueue(Tail(queue))
          /\ Append(shown, Head(queue)) \o Sent(Tail(queue)) = shown \o Sent(queue)
        BY <2>1, <2>2, TakeFromQueue
    <2>4. Told' = Told
        BY <2>1, <2>3 DEF Told
    <2>5. Append(shown, Head(queue)) \in Seq(Events)
        BY <2>2, <2>3, AppendProperties
    <2> QED
        BY <2>1, <2>3, <2>4, <2>5 DEF QueueOK
<1>2. ASSUME RelayEnds PROVE QueueOK' /\ Told' = Told
    <2>1. /\ relay = "waiting" /\ queue # <<>> /\ Head(queue) = None
          /\ relay' = "ended" /\ cancelled' = TRUE /\ queue' = Tail(queue)
          /\ UNCHANGED <<shown, driver>>
        BY <1>2 DEF RelayEnds, otherSides, driverVars
    <2>2. IsQueue(queue) /\ shown \in Seq(Events)
        BY DEF QueueOK
    <2>3. queue \notin Seq(Events) /\ Tail(queue) = <<>> /\ Sent(queue) = <<>>
        BY <2>1, <2>2, TakeFromQueue
    <2>4. <<>> \in Seq(Events) /\ Sent(<<>>) = <<>>
        <3>1. <<>> \in Seq(Events)
            OBVIOUS
        <3> QED
            BY <3>1, LastOfOpen
    <2>5. Told' = Told
        BY <2>1, <2>3, <2>4 DEF Told
    <2> QED
        BY <2>1, <2>2, <2>3, <2>4, <2>5 DEF QueueOK, IsQueue
<1>3. ASSUME BrowserLeaves PROVE QueueOK' /\ Told' = Told
    <2>1. /\ relay = "waiting" /\ relay' = "left" /\ cancelled' = TRUE
          /\ UNCHANGED <<queue, shown, driver>>
        BY <1>3 DEF BrowserLeaves, otherSides, driverVars
    <2> QED
        BY <2>1 DEF QueueOK, Told
<1> QED
    BY <1>1, <1>2, <1>3 DEF Relay

(* The producer tells the browser nothing, nor do the driver's quiet        *)
(* steps.                                                                   *)
LEMMA OthersTellNothing ==
    ASSUME Producer \/ GateHalts \/ ReadDone \/ ReadError \/ SessionRaises \/ UNCHANGED vars
    PROVE  Told' = Told
<1>1. queue' = queue /\ shown' = shown
    BY DEF Producer, PullNext, EmitPiece, GateHalts, EmitDone, EmitError,
           ServerReleased, consumerSide, vars, ReadDone, ReadError, SessionRaises, browserSide
<1> QED
    BY <1>1 DEF Told

(* The sentinel is the last thing on the queue, and the driver is gone      *)
(* then.                                                                    *)
LEMMA QueueStep ==
    ASSUME QueueOK, SessionOK, SessionOK', FrameOK, [DeliveryNext]_vars
    PROVE  QueueOK'
<1>1. CASE Driver \/ SessionRaises \/ ClosingRaises
    BY <1>1, DriverTells
<1>2. CASE Relay \/ BrowserLeaves
    BY <1>2, RelayTells
<1>3. CASE Producer \/ GateHalts \/ UNCHANGED vars
    <2>1. UNCHANGED <<relay, cancelled, shown, queue, driver>>
        BY <1>3 DEF Producer, PullNext, EmitPiece, GateHalts, EmitDone, EmitError,
               ServerReleased, consumerSide, vars, driverVars
    <2> QED
        BY <2>1 DEF QueueOK
<1> QED
    BY <1>1, <1>2, <1>3 DEF DeliveryNext

-----------------------------------------------------------------------------
(* The text between model and browser, in order: with the pieces that wait *)
(* it is the response; a generator closed early loses those pieces.        *)
Ahead == Seen(Told) \o Seen(frames)

TextKept ==
    /\ adapter # "closed" => Ahead \o Visible(Joined(pieces)) = Visible(response)
    /\ adapter = "closed" => IsPrefix(Ahead, Visible(response))

(* Every token event is counted once, and none is of an empty piece. *)
TokensOK ==
    /\ tokens = TokensIn(Told)
    /\ \A i \in 1..Len(Told) : Told[i].type = "token" => Told[i].text # <<>>

(* What is on its way to the browser, as text.                              *)
LEMMA AheadIs ==
    ASSUME QueueOK, FrameOK
    PROVE  /\ Seen(Told) \in Text /\ Seen(frames) \in Text /\ Ahead \in Text
           /\ \A e \in Events : Seen(Append(Told, e)) = Seen(Told) \o Visible(e.text)
           /\ \A e, f \in Events : e.text = <<>> /\ f.text = <<>> =>
                  Seen(Append(Append(Told, e), f)) = Seen(Told)
           /\ \A e \in Events : e.text = <<>> => Seen(Append(Told, e)) = Seen(Told)
           /\ \A e \in Frames : Seen(Append(frames, e)) = Seen(frames) \o Visible(e.text)
           /\ \A e \in Frames : e.text = <<>> => Seen(Append(frames, e)) = Seen(frames)
<1>1. Told \in Seq(Events) /\ frames \in Seq(Frames)
    BY ToldIs DEF FrameOK, FramesAre
<1>2. Carriers(Events) /\ Carriers(Frames)
    BY BothCarry
<1>3. Seen(Told) \in Text /\ Seen(frames) \in Text
    BY <1>1, <1>2, SeenParts
<1>4. Ahead \in Text
    BY <1>3, TextFacts DEF Ahead
<1>5. /\ \A s \in Seq(Events), e \in Events : Seen(Append(s, e)) = Seen(s) \o Visible(e.text)
      /\ \A s \in Seq(Events) : Seen(s) \in Text
    BY <1>2, SeenParts
<1>6. \A s \in Seq(Frames), e \in Frames : Seen(Append(s, e)) = Seen(s) \o Visible(e.text)
    BY <1>2, SeenParts
<1>7. Visible(<<>>) = <<>> /\ \A t \in Text : t \o <<>> = t
    BY VisibleParts, TextFacts
<1>8. \A s \in Seq(Events), e \in Events : Append(s, e) \in Seq(Events)
    BY AppendProperties
<1>9. ASSUME NEW s \in Seq(Events), NEW e \in Events, e.text = <<>>
      PROVE  Seen(Append(s, e)) = Seen(s)
    BY <1>5, <1>7, <1>9
<1>10. ASSUME NEW e \in Frames, e.text = <<>>
       PROVE  Seen(Append(frames, e)) = Seen(frames)
    BY <1>1, <1>3, <1>6, <1>7, <1>10
<1> HIDE DEF Events, Frames
<1>11. ASSUME NEW e \in Events, NEW f \in Events, e.text = <<>>, f.text = <<>>
       PROVE  Seen(Append(Append(Told, e), f)) = Seen(Told)
    BY <1>1, <1>8, <1>9, <1>11
<1> QED
    BY <1>1, <1>3, <1>4, <1>5, <1>6, <1>9, <1>10, <1>11

(* Only a piece that is written comes to what is ahead of the browser.      *)
LEMMA AheadStep ==
    ASSUME QueueOK, FrameOK, SessionOK, SessionOK', AdapterOK
    PROVE  /\ EmitPiece => Ahead' = Ahead \o Visible(Head(pieces))
           /\ \/ PullNext \/ GateHalts \/ EmitDone \/ EmitError \/ ServerReleased
              \/ Driver \/ SessionRaises \/ ClosingRaises
              \/ Relay \/ BrowserLeaves \/ UNCHANGED vars
              => Ahead' = Ahead
<1>1. /\ Seen(Told) \in Text /\ Seen(frames) \in Text /\ Ahead \in Text
      /\ Ahead = Seen(Told) \o Seen(frames)
    BY AheadIs DEF Ahead
<1>2. Ahead' = Seen(Told') \o Seen(frames')
    BY DEF Ahead, Seen
<1>3. ASSUME NEW k \in {"text", "done", "error"}, NEW x \in Text,
             Told' = Told, frames' = Append(frames, Frame(k, x))
      PROVE  Ahead' = Ahead \o Visible(x) /\ (x = <<>> => Ahead' = Ahead)
    <2> DEFINE e == Frame(k, x)
    <2>1. e \in Frames /\ e.text = x
        BY DEF Frame, Frames
    <2>2. frames' = Append(frames, e)
        BY <1>3
    <2> HIDE DEF e
    <2>3. Seen(frames') = Seen(frames) \o Visible(x) /\ (x = <<>> => Seen(frames') = Seen(frames))
        BY <2>1, <2>2, AheadIs
    <2>4. Visible(x) \in Text
        BY VisibleParts
    <2>5. Seen(Told) \o (Seen(frames) \o Visible(x)) = (Seen(Told) \o Seen(frames)) \o Visible(x)
        BY <1>1, <2>4, TextFacts
    <2> QED
        BY <1>1, <1>2, <1>3, <2>3, <2>5
<1>4. ASSUME EmitPiece PROVE Ahead' = Ahead \o Visible(Head(pieces))
    <2>1. Head(pieces) \in Text
        BY <1>4, PieceYielded DEF EmitPiece, NonEmpty
    <2>2. Told' = Told /\ frames' = Append(frames, Frame("text", Head(pieces)))
        BY <1>4, OthersTellNothing DEF EmitPiece, Producer
    <2> QED
        BY <1>3, <1>4, <2>1, <2>2
<1>5. ASSUME GateHalts \/ EmitDone \/ EmitError PROVE Ahead' = Ahead
    <2>1. Told' = Told
        BY <1>5, OthersTellNothing DEF Producer
    <2>2. frames' \in {Append(frames, Frame("done", <<>>)), Append(frames, Frame("error", <<>>))}
        BY <1>5 DEF GateHalts, EmitDone, EmitError
    <2> QED
        BY <1>3, <2>1, <2>2, TextFacts
<1>6. ASSUME ReadToken \/ ReadDone \/ ReadError PROVE Ahead' = Ahead
    <2>1. frames # <<>> /\ frames' = Tail(frames) /\ FramesAre(frames, server, gated, adapter)
        BY <1>6 DEF ReadToken, ReadDone, ReadError, FrameOK
    <2>2. frames \in Seq(Frames) /\ Head(frames) \in Frames /\ Tail(frames) \in Seq(Frames)
        BY <2>1, FirstOf DEF FramesAre
    <2>3. Seen(frames) = Visible(Head(frames).text) \o Seen(frames')
        BY <2>1, <2>2, SeenFirst, BothCarry
    <2>4. Visible(Head(frames).text) \in Text /\ Seen(frames') \in Text
        BY <2>1, <2>2, VisibleParts, SeenParts, BothCarry DEF Frames
    <2>6. CASE ReadToken
        <3>1. PICK e \in Events : Told' = Append(Told, e) /\ e.text = Head(frames).text
            BY <2>6, DriverTells
        <3>2. Seen(Told') = Seen(Told) \o Visible(Head(frames).text)
            BY <3>1, AheadIs
        <3> DEFINE h == Visible(Head(frames).text)
                   r == Seen(frames')
                   t == Seen(Told)
        <3>3. h \in Text /\ r \in Text /\ t \in Text
            BY <1>1, <2>4
        <3> HIDE DEF h, r, t
        <3>4. (t \o h) \o r = t \o (h \o r)
            BY <3>3, TextFacts
        <3> QED
            BY <1>1, <1>2, <2>3, <3>2, <3>4 DEF h, r, t
    <2>7. CASE ReadDone \/ ReadError
        <3>1. Told' = Told
            BY <2>7, OthersTellNothing
        <3>2. Head(frames).kind # "text"
            BY <2>7 DEF ReadDone, ReadError
        <3>3. Head(frames).text = <<>>
            BY <2>1, <3>2, FirstFrame
        <3>4. Seen(frames) = Seen(frames')
            BY <2>3, <2>4, <3>3, VisibleParts, TextFacts
        <3> QED
            BY <1>1, <1>2, <3>1, <3>4
    <2> QED
        BY <1>6, <2>6, <2>7
<1>7. ASSUME \/ DriverStarts \/ SessionOpens \/ SessionRaises \/ CommitReturns
             \/ FinalCommitReturns \/ ResponseClosed \/ ClientsClosed \/ ClosingRaises
             \/ DriverCancelled
      PROVE  Ahead' = Ahead
    <2>1. Seen(Told') = Seen(Told)
        <3>1. CASE \/ DriverStarts \/ CommitReturns \/ FinalCommitReturns \/ ResponseClosed
                   \/ ClosingRaises \/ (ClientsClosed /\ failed)
            <4>1. \E e \in Events : Told' = Append(Told, e) /\ e.text = <<>>
                BY <3>1, DriverTells DEF Quiet
            <4> QED
                BY <4>1, AheadIs
        <3>2. CASE SessionOpens
            <4>1. \E e, f \in Events : Told' = Append(Append(Told, e), f) /\ e.text = <<>> /\ f.text = <<>>
                BY <3>2, DriverTells DEF Quiet
            <4> QED
                BY <4>1, AheadIs
        <3>3. CASE SessionRaises \/ DriverCancelled \/ (ClientsClosed /\ ~failed)
            BY <3>3, DriverTells, OthersTellNothing
        <3> QED
            BY <1>7, <3>1, <3>2, <3>3
    <2>2. frames' = frames
        BY <1>7 DEF DriverStarts, SessionOpens, SessionRaises, CommitReturns,
               FinalCommitReturns, ResponseClosed, ClientsClosed, ClosingRaises, DriverCancelled
    <2> QED
        BY <1>1, <1>2, <2>1, <2>2
<1>8. ASSUME PullNext \/ ServerReleased \/ Relay \/ BrowserLeaves \/ UNCHANGED vars
      PROVE  Ahead' = Ahead
    <2>1. Told' = Told
        BY <1>8, OthersTellNothing, RelayTells DEF Producer
    <2>2. frames' = frames
        BY <1>8 DEF PullNext, ServerReleased, Relay, RelayForwards, RelayEnds, BrowserLeaves,
                    vars, otherSides, consumerSide
    <2> QED
        BY <1>1, <1>2, <2>1, <2>2
<1> QED
    BY <1>4, <1>5, <1>6, <1>7, <1>8 DEF Driver

(* A text begins every text that continues it.                              *)
LEMMA PrefixOfConcat ==
    ASSUME NEW s \in Text, NEW t \in Text
    PROVE  IsPrefix(s, s \o t)
<1> HIDE DEF Alphabet
<1>1. /\ s \o t \in Text /\ Len(s \o t) = Len(s) + Len(t)
      /\ \A i \in 1..(Len(s) + Len(t)) :
            (s \o t)[i] = IF i <= Len(s) THEN s[i] ELSE t[i - Len(s)]
      /\ Len(s) \in Nat /\ Len(t) \in Nat
    BY ConcatProperties, LenProperties DEF Text
<1> DEFINE u == s \o t
<1>2. Len(s) <= Len(u) /\ \A i \in 1..Len(s) : s[i] = u[i]
    BY <1>1
<1>3. u \in Text
    BY <1>1
<1> HIDE DEF u
<1>4. IsPrefix(s, u)
    BY <1>2, <1>3, PrefixIs DEF Text
<1> QED
    BY <1>4 DEF u

(* No step loses, repeats or reorders text between model and browser.       *)
LEMMA TextKeptStep ==
    ASSUME QueueOK, FrameOK, SessionOK, SessionOK', AdapterOK, TextKept, [DeliveryNext]_vars
    PROVE  TextKept'
<1>1. /\ Ahead \in Text /\ response \in Text /\ Visible(response) \in Text
      /\ Joined(<<>>) = <<>> /\ Visible(<<>>) = <<>>
    BY AheadIs, JoinedParts, VisibleParts DEF AdapterOK
<1>2. pieces = <<>> => Ahead \o Visible(Joined(pieces)) = Ahead
    <2>1. Ahead \o <<>> = Ahead
        BY <1>1, TextFacts
    <2> QED
        BY <1>1, <2>1
<1>3. CASE EmitPiece
    <2>1. YieldPiece /\ Ahead' = Ahead \o Visible(Head(pieces))
        BY <1>3, AheadStep DEF EmitPiece
    <2>2. /\ AdapterOK' /\ adapter = "streaming" /\ adapter' = adapter
          /\ response' = response /\ Head(pieces) \in NonEmpty
          /\ Visible(Joined(pieces)) = Visible(Head(pieces)) \o Visible(Joined(pieces'))
        BY <2>1, PieceYielded
    <2>3. Visible(Head(pieces)) \in Text /\ Visible(Joined(pieces')) \in Text
        <3>1. pieces' \in Seq(NonEmpty)
            BY <2>2 DEF AdapterOK
        <3> QED
            BY <2>2, <3>1, NonEmptyFacts, JoinedParts, VisibleParts DEF NonEmpty
    <2> DEFINE h == Visible(Head(pieces))
               r == Visible(Joined(pieces'))
    <2>4. h \in Text /\ r \in Text /\ Ahead' = Ahead \o h
        BY <2>1, <2>3
    <2>5. Ahead \o (h \o r) = Visible(response)
        BY <2>2 DEF TextKept
    <2> HIDE DEF h, r
    <2>6. (Ahead \o h) \o r = Ahead \o (h \o r)
        BY <1>1, <2>4, TextFacts
    <2>7. Ahead' \o r = Visible(response')
        BY <2>2, <2>4, <2>5, <2>6
    <2> QED
        BY <2>2, <2>7 DEF TextKept, r
<1>4. CASE PullNext
    <2>1. Ahead' = Ahead /\ AdapterRuns
        BY <1>4, AheadStep DEF PullNext
    <2>2. /\ adapter # "closed" /\ adapter' # "closed"
          /\ \/ response' = response /\ pieces' = pieces
             \/ /\ pieces = <<>>
                /\ Visible(response') = Visible(response) \o Visible(Joined(pieces'))
        BY <2>1, AdapterRunning
    <2>3. Ahead \o Visible(Joined(pieces)) = Visible(response)
        BY <2>2 DEF TextKept
    <2> QED
        BY <1>2, <2>1, <2>2, <2>3 DEF TextKept
<1>5. CASE GateHalts \/ ServerReleased
    <2>1. Ahead' = Ahead /\ AdapterClosed
        BY <1>5, AheadStep DEF GateHalts, ServerReleased
    <2>2. /\ response' = response /\ pieces' = <<>>
          /\ \/ adapter \in {"opening", "streaming"} /\ adapter' = "closed"
             \/ adapter' = adapter /\ pieces = <<>>
        BY <2>1, AdapterDropped
    <2>3. ASSUME adapter \in {"opening", "streaming"} PROVE IsPrefix(Ahead, Visible(response))
        <3>1. Ahead \o Visible(Joined(pieces)) = Visible(response)
            BY <2>3 DEF TextKept
        <3>2. Visible(Joined(pieces)) \in Text
            BY NonEmptyFacts, JoinedParts, VisibleParts DEF AdapterOK
        <3> QED
            BY <1>1, <3>1, <3>2, PrefixOfConcat
    <2> QED
        BY <2>1, <2>2, <2>3 DEF TextKept
<1>6. CASE EmitDone \/ EmitError \/ Driver \/ SessionRaises \/ ClosingRaises
              \/ Relay \/ BrowserLeaves \/ UNCHANGED vars
    <2>1. Ahead' = Ahead
        BY <1>6, AheadStep
    <2>2. UNCHANGED <<adapter, pieces, response>>
        BY <1>6 DEF vars, Driver, Relay, EmitDone, EmitError, DriverStarts, SessionOpens,
               ReadToken, ReadDone, ReadError, SessionRaises, CommitReturns,
               FinalCommitReturns, ResponseClosed, ClientsClosed, ClosingRaises,
               DriverCancelled,
               RelayForwards, RelayEnds, BrowserLeaves, producerSide, otherSides, adapterVars
    <2> QED
        BY <2>1, <2>2 DEF TextKept
<1> QED
    BY <1>3, <1>4, <1>5, <1>6 DEF DeliveryNext, Producer

-----------------------------------------------------------------------------
TokensAre(s, n) ==
    /\ s \in Seq(Events) /\ n = TokensIn(s)
    /\ \A i \in 1..Len(s) : s[i].type = "token" => s[i].text # <<>>

(* One event more, counted if it is a token.                                *)
LEMMA TokenTold ==
    ASSUME NEW s, NEW n, TokensAre(s, n), NEW e \in Events, e.type = "token" => e.text # <<>>
    PROVE  TokensAre(Append(s, e), IF e.type = "token" THEN n + 1 ELSE n)
<1> DEFINE a == Append(s, e)
<1>1. s \in Seq(Events) /\ n = TokensIn(s)
    BY DEF TokensAre
<1>2. TokensIn(a) = IF e.type = "token" THEN n + 1 ELSE n
    BY <1>1, TokensParts
<1>3. /\ a \in Seq(Events) /\ Len(a) = Len(s) + 1 /\ Len(s) \in Nat
      /\ a[Len(s) + 1] = e /\ \A i \in 1..Len(s) : a[i] = s[i]
    BY <1>1, AppendProperties, LenProperties
<1> HIDE DEF a
<1>4. ASSUME NEW i \in 1..Len(a), a[i].type = "token" PROVE a[i].text # <<>>
    <2>1. i \in 1..Len(s) \/ i = Len(s) + 1
        BY <1>3
    <2> QED
        BY <1>3, <1>4, <2>1 DEF TokensAre
<1>5. TokensAre(a, IF e.type = "token" THEN n + 1 ELSE n)
    BY <1>2, <1>3, <1>4 DEF TokensAre
<1> QED
    BY <1>5 DEF a

(* Every token event is counted, and no empty piece becomes one.            *)
LEMMA TokensStep ==
    ASSUME QueueOK, FrameOK, SessionOK, SessionOK', QueueOK', TokensOK, [DeliveryNext]_vars
    PROVE  TokensOK'
<1>1. TokensAre(Told, tokens)
    BY ToldIs DEF TokensOK, TokensAre
<1>2. ASSUME TokensAre(Told', tokens') PROVE TokensOK'
    BY <1>2 DEF TokensOK, TokensAre
<1>3. ASSUME NEW e \in Events, e.type # "token", NEW s, TokensAre(s, tokens)
      PROVE  TokensAre(Append(s, e), tokens)
    BY <1>3, TokenTold
<1>4. CASE ReadToken
    <2>1. PICK e \in Events : Told' = Append(Told, e) /\ e.type = "token" /\ e.text = Head(frames).text
        BY <1>4, DriverTells
    <2>2. frames # <<>> /\ Head(frames).kind = "text" /\ tokens' = tokens + 1
          /\ FramesAre(frames, server, gated, adapter)
        BY <1>4 DEF ReadToken, FrameOK
    <2>3. Head(frames).text # <<>>
        BY <2>2, FirstFrame
    <2>4. TokensAre(Append(Told, e), tokens + 1)
        BY <1>1, <2>1, <2>3, TokenTold
    <2> QED
        BY <1>2, <2>1, <2>2, <2>4
<1>5. CASE \/ DriverStarts \/ CommitReturns \/ FinalCommitReturns \/ ResponseClosed
           \/ ClosingRaises \/ (ClientsClosed /\ failed)
    <2>1. PICK e \in Events : Told' = Append(Told, e) /\ e.type # "token"
        BY <1>5, DriverTells DEF Quiet
    <2>2. tokens' = tokens
        BY <1>5 DEF DriverStarts, CommitReturns, FinalCommitReturns, ResponseClosed,
               ClosingRaises, ClientsClosed,
               sessionVars
    <2> QED
        BY <1>1, <1>2, <1>3, <2>1, <2>2
<1>6. CASE SessionOpens
    <2>1. PICK e \in Events, f \in Events :
             Told' = Append(Append(Told, e), f) /\ e.type # "token" /\ f.type # "token"
        BY <1>6, DriverTells DEF Quiet
    <2>2. tokens' = tokens
        BY <1>6 DEF SessionOpens, sessionVars
    <2> QED
        BY <1>1, <1>2, <1>3, <2>1, <2>2
<1>7. CASE Producer \/ GateHalts \/ ReadDone \/ ReadError \/ SessionRaises \/ UNCHANGED vars
              \/ Relay \/ BrowserLeaves \/ DriverCancelled \/ (ClientsClosed /\ ~failed)
    <2>1. Told' = Told
        BY <1>7, DriverTells, OthersTellNothing, RelayTells
    <2>2. tokens' = tokens
        BY <1>7 DEF Producer, PullNext, EmitPiece, GateHalts, EmitDone, EmitError,
               ServerReleased, consumerSide, vars, ReadDone, ReadError, SessionRaises,
               Relay, RelayForwards, RelayEnds, BrowserLeaves, DriverCancelled,
               ClientsClosed, otherSides, driverVars, sessionVars
    <2> QED
        BY <1>1, <1>2, <2>1, <2>2
<1> QED
    BY <1>4, <1>5, <1>6, <1>7 DEF DeliveryNext, Driver

-----------------------------------------------------------------------------
(* The outcomes that may be told, and why a complete is true. *)
Untold(s) == \A i \in 1..Len(s) : s[i].type \notin {"complete", "error"}

Completed(s) ==
    /\ s # <<>> /\ Last(s).type = "complete"
    /\ Front(s) # <<>> /\ Last(Front(s)).type = "commit_signed"
    /\ Last(Front(s)).tokens = Last(s).tokens
    /\ Last(s).tokens = TokensIn(Front(s))
    /\ Untold(Front(s))

Broken(s) == s # <<>> /\ Last(s).type = "error" /\ Untold(Front(s))
BrokenLate(s) == s # <<>> /\ Last(s).type = "error" /\ Completed(Front(s))

CutOrWhole ==
    \/ halted = TRUE \/ gated = TRUE
    \/ adapter = "returned" /\ server = "over" /\ frames = <<>>

(* The last thing told is a commitment for all the tokens. *)
Covered(s) == s # <<>> /\ Last(s).type = "commit_signed" /\ Last(s).tokens = tokens

(* Where the driver is, what it has told of the outcome. *)
OutcomeOK ==
    relay # "left" =>
        /\ driver \in {"new", "opening", "reading", "committing", "finishing", "leaving"} =>
              Untold(Told)
        /\ driver \in {"finishing", "leaving"} => CutOrWhole
        /\ driver = "leaving" => Covered(Told)
        /\ driver = "closing" /\ failed = TRUE => Untold(Told)
        /\ driver = "closing" /\ failed # TRUE => CutOrWhole /\ Completed(Told)
        /\ driver = "ended" =>
              \/ CutOrWhole /\ Completed(Told)
              \/ Broken(Told)
              \/ CutOrWhole /\ BrokenLate(Told)

(* An event that is no outcome leaves the outcome untold.                   *)
LEMMA UntoldParts ==
    /\ Untold(<<>>)
    /\ \A s \in Seq(Events), e \in Events :
          Untold(s) /\ e.type \notin {"complete", "error"} => Untold(Append(s, e))
<1>1. Untold(<<>>)
    BY DEF Untold
<1>2. ASSUME NEW s \in Seq(Events), NEW e \in Events, Untold(s),
             e.type \notin {"complete", "error"}
      PROVE  Untold(Append(s, e))
    <2> DEFINE a == Append(s, e)
    <2>1. /\ Len(a) = Len(s) + 1 /\ Len(s) \in Nat
          /\ a[Len(s) + 1] = e /\ \A i \in 1..Len(s) : a[i] = s[i]
        BY AppendProperties, LenProperties
    <2> HIDE DEF a
    <2>2. ASSUME NEW i \in 1..Len(a) PROVE a[i].type \notin {"complete", "error"}
        <3>1. i \in 1..Len(s) \/ i = Len(s) + 1
            BY <2>1
        <3> QED
            BY <1>2, <2>1, <3>1 DEF Untold
    <2> QED
        BY <2>2 DEF Untold, a
<1> QED
    BY <1>1, <1>2

(* Once the driver has read the end of the stream, the reason stays.        *)
LEMMA CutStays ==
    ASSUME CutOrWhole, driver \in {"finishing", "leaving", "closing", "ended"},
           [DeliveryNext]_vars
    PROVE  CutOrWhole'
<1>1. CASE PullNext \/ EmitPiece \/ EmitDone \/ EmitError \/ ServerReleased \/ GateHalts
    BY <1>1 DEF CutOrWhole, PullNext, EmitPiece, EmitDone, EmitError, ServerReleased,
           GateHalts, Pulling, HungUp, consumerSide, driverVars, sessionVars
<1>2. CASE Relay \/ BrowserLeaves \/ UNCHANGED vars
    BY <1>2 DEF CutOrWhole, Relay, RelayForwards, RelayEnds, BrowserLeaves, vars,
           otherSides, producerSide, adapterVars, driverVars, sessionVars
<1>3. CASE Driver \/ SessionRaises \/ ClosingRaises
    BY <1>3 DEF CutOrWhole, Driver, DriverStarts, SessionOpens, ReadToken, ReadDone,
           ReadError, SessionRaises, CommitReturns, FinalCommitReturns, ResponseClosed,
           ClientsClosed,
           ClosingRaises, DriverCancelled, producerSide, adapterVars, sessionVars
<1> QED
    BY <1>1, <1>2, <1>3 DEF DeliveryNext, Producer

(* Every way to the end of the driver leaves an outcome behind.             *)
LEMMA OutcomeStep ==
    ASSUME QueueOK, FrameOK, SessionOK, SessionOK', QueueOK', TokensOK, OutcomeOK,
           [DeliveryNext]_vars
    PROVE  OutcomeOK'
<1> SUFFICES ASSUME relay' # "left" PROVE OutcomeOK'
    BY DEF OutcomeOK
<1>1. relay # "left"
    BY DEF QueueOK, DeliveryNext, vars, Producer, Driver, Relay, PullNext, EmitPiece, GateHalts,
           EmitDone, EmitError, ServerReleased, DriverStarts, SessionOpens, ReadToken,
           ReadDone, ReadError, SessionRaises, CommitReturns, FinalCommitReturns,
           ResponseClosed,
           ClientsClosed, ClosingRaises, DriverCancelled, RelayForwards, RelayEnds,
           BrowserLeaves, consumerSide, browserSide
<1>2. Told \in Seq(Events)
    BY ToldIs
<1>3. /\ driver \in {"new", "opening", "reading", "committing", "finishing", "leaving"} =>
            Untold(Told)
      /\ driver \in {"finishing", "leaving"} => CutOrWhole
      /\ driver = "leaving" => Covered(Told)
      /\ driver = "closing" /\ failed = TRUE => Untold(Told)
      /\ driver = "closing" /\ failed # TRUE => CutOrWhole /\ Completed(Told)
      /\ driver = "ended" =>
            \/ CutOrWhole /\ Completed(Told)
            \/ Broken(Told)
            \/ CutOrWhole /\ BrokenLate(Told)
    BY <1>1 DEF OutcomeOK
<1>4. /\ Untold(Told)' = Untold(Told') /\ Completed(Told)' = Completed(Told')
      /\ Broken(Told)' = Broken(Told') /\ BrokenLate(Told)' = BrokenLate(Told')
      /\ tokens' = tokens /\ Told' = Told => Covered(Told)' = Covered(Told)
    BY DEF Untold, Completed, Broken, BrokenLate, Covered, TokensIn
<1>5. CASE Producer \/ GateHalts \/ Relay \/ BrowserLeaves \/ UNCHANGED vars
    <2>1. Told' = Told
        BY <1>5, OthersTellNothing, RelayTells
    <2>2. driver' = driver /\ failed' = failed /\ tokens' = tokens
        BY <1>5 DEF Producer, PullNext, EmitPiece, GateHalts, EmitDone, EmitError,
               ServerReleased, consumerSide, vars, Relay, RelayForwards, RelayEnds,
               BrowserLeaves, otherSides, driverVars, sessionVars
    <2>3. CutOrWhole /\ driver \in {"finishing", "leaving", "closing", "ended"} => CutOrWhole'
        BY CutStays
    <2> QED
        BY <1>3, <1>4, <2>1, <2>2, <2>3 DEF OutcomeOK
<1>6. CASE DriverStarts \/ SessionOpens \/ CommitReturns
    <2>1. /\ driver \in {"new", "opening", "committing"}
          /\ driver' \in {"new", "opening", "reading", "committing"}
        BY <1>6 DEF DriverStarts, SessionOpens, CommitReturns
    <2>2. Untold(Told)
        BY <1>3, <2>1
    <2>3. Untold(Told')
        <3>1. CASE DriverStarts \/ CommitReturns
            <4>1. PICK e \in Events : Quiet(e) /\ Told' = Append(Told, e)
                BY <3>1, DriverTells
            <4> QED
                BY <1>2, <2>2, <4>1, UntoldParts DEF Quiet
        <3>2. CASE SessionOpens
            <4>1. PICK e \in Events, f \in Events :
                     Quiet(e) /\ Quiet(f) /\ Told' = Append(Append(Told, e), f)
                BY <3>2, DriverTells
            <4>2. Append(Told, e) \in Seq(Events)
                BY <1>2, AppendProperties
            <4>3. Untold(Append(Told, e))
                BY <1>2, <2>2, <4>1, UntoldParts DEF Quiet
            <4> QED
                BY <4>1, <4>2, <4>3, UntoldParts DEF Quiet
        <3> QED
            BY <1>6, <3>1, <3>2
    <2> QED
        BY <1>4, <2>1, <2>3 DEF OutcomeOK
<1>7. CASE ReadToken
    <2>1. Untold(Told)
        BY <1>3, <1>7 DEF ReadToken
    <2>2. PICK e \in Events : Told' = Append(Told, e) /\ e.type = "token"
        BY <1>7, DriverTells
    <2>3. Untold(Told')
        BY <1>2, <2>1, <2>2, UntoldParts
    <2>4. driver' \in {"reading", "committing", "finishing"}
          /\ (driver' = "finishing" => halted' = TRUE)
        <3>1. halted' \in BOOLEAN /\ driver' \in IF halted' THEN {"finishing"} ELSE {"reading", "committing"}
            BY <1>7 DEF ReadToken, SessionOK
        <3> QED
            BY <3>1
    <2>5. driver' = "finishing" => CutOrWhole'
        BY <2>4 DEF CutOrWhole
    <2> QED
        BY <1>4, <2>3, <2>4, <2>5 DEF OutcomeOK
<1>8. CASE ReadDone
    <2>1. /\ driver = "reading" /\ driver' = "finishing" /\ Told' = Told
          /\ frames # <<>> /\ Head(frames).kind = "done" /\ frames' = Tail(frames)
          /\ FramesAre(frames, server, gated, adapter) /\ UNCHANGED <<gated, adapter, server>>
        BY <1>8, OthersTellNothing DEF ReadDone, FrameOK, producerSide, adapterVars
    <2>2. Tail(frames) = <<>> /\ server = "over" /\ (gated = TRUE \/ adapter = "returned")
        BY <2>1, FirstFrame
    <2>3. CutOrWhole'
        BY <2>1, <2>2 DEF CutOrWhole
    <2> QED
        BY <1>3, <1>4, <2>1, <2>3 DEF OutcomeOK
<1>9. CASE ReadError \/ SessionRaises
    <2>1. /\ driver \in {"opening", "reading", "committing", "finishing", "leaving"}
          /\ driver' = "closing" /\ failed' = TRUE /\ Told' = Told
        BY <1>9, OthersTellNothing DEF ReadError, SessionRaises
    <2> QED
        BY <1>3, <1>4, <2>1 DEF OutcomeOK
<1>10. CASE FinalCommitReturns
    <2>1. driver = "finishing" /\ driver' = "leaving" /\ tokens' = tokens
        BY <1>10 DEF FinalCommitReturns, sessionVars
    <2>2. Untold(Told) /\ CutOrWhole'
        BY <1>3, <2>1, CutStays
    <2>3. PICK e \in Events : /\ Told' = Append(Told, e) /\ Quiet(e)
                             /\ e.type = "commit_signed" /\ e.tokens = tokens
        BY <1>10, DriverTells
    <2>4. Told' # <<>> /\ Last(Told') = e
        BY <1>2, <2>3, LastAndFront
    <2>5. Untold(Told')
        BY <1>2, <2>2, <2>3, UntoldParts DEF Quiet
    <2>6. Covered(Told)'
        BY <2>1, <2>3, <2>4 DEF Covered
    <2> QED
        BY <1>4, <2>1, <2>2, <2>5, <2>6 DEF OutcomeOK
<1>14. CASE ResponseClosed
    <2>1. driver = "leaving" /\ driver' = "closing" /\ failed' # TRUE
        BY <1>14 DEF ResponseClosed, SessionOK
    <2>2. Untold(Told) /\ Covered(Told) /\ CutOrWhole'
        BY <1>3, <2>1, CutStays
    <2>3. PICK e \in Events : /\ Told' = Append(Told, e) /\ e.text = <<>>
                             /\ e.type = "complete" /\ e.tokens = tokens
        BY <1>14, DriverTells
    <2>4. Told' # <<>> /\ Last(Told') = e /\ Front(Told') = Told
        BY <1>2, <2>3, LastAndFront
    <2>5. tokens = TokensIn(Told)
        BY DEF TokensOK
    <2>6. Completed(Told')
        BY <2>2, <2>3, <2>4, <2>5 DEF Completed, Covered
    <2> QED
        BY <1>4, <2>1, <2>2, <2>6 DEF OutcomeOK
<1>11. CASE ClosingRaises \/ (ClientsClosed /\ failed)
    <2>1. driver = "closing" /\ driver' = "ended" /\ driver' # "finishing"
        BY <1>11 DEF ClosingRaises, ClientsClosed
    <2>2. PICK e \in Events : Told' = Append(Told, e) /\ e.type = "error"
        BY <1>11, DriverTells
    <2>3. Told' # <<>> /\ Last(Told') = e /\ Front(Told') = Told
        BY <1>2, <2>2, LastAndFront
    <2>4. CASE failed = TRUE
        <3>1. Broken(Told')
            BY <1>3, <2>1, <2>2, <2>3, <2>4 DEF Broken
        <3> QED
            BY <1>4, <2>1, <3>1 DEF OutcomeOK
    <2>5. CASE failed # TRUE
        <3>1. BrokenLate(Told') /\ CutOrWhole'
            BY <1>3, <2>1, <2>2, <2>3, <2>5, CutStays DEF BrokenLate
        <3> QED
            BY <1>4, <2>1, <3>1 DEF OutcomeOK
    <2> QED
        BY <2>4, <2>5
<1>12. CASE ClientsClosed /\ ~failed
    <2>1. driver = "closing" /\ driver' = "ended" /\ Told' = Told /\ failed # TRUE
        BY <1>12, DriverTells DEF ClientsClosed
    <2>2. CutOrWhole' /\ Completed(Told')
        BY <1>3, <2>1, CutStays
    <2> QED
        BY <1>4, <2>1, <2>2 DEF OutcomeOK
<1>13. CASE DriverCancelled
    <2>1. cancelled /\ driver # "ended"
        BY <1>13 DEF DriverCancelled
    <2>2. relay = "ended"
        BY <1>1, <2>1 DEF QueueOK
    <2> QED
        BY <2>1, <2>2 DEF QueueOK
<1> QED
    BY <1>5, <1>6, <1>7, <1>8, <1>9, <1>10, <1>11, <1>12, <1>13, <1>14
       DEF DeliveryNext, Driver

-----------------------------------------------------------------------------
(* The theorems. *)

(* The inductive invariant: each part needs the ones before it. *)
DeliveryInv ==
    /\ AdapterOK /\ FrameOK /\ SessionOK /\ QueueOK
    /\ TextKept /\ TokensOK /\ OutcomeOK

(* It holds at first.                                                       *)
LEMMA DeliveryInvInit == DeliveryInit => DeliveryInv
<1> SUFFICES ASSUME DeliveryInit PROVE DeliveryInv
    OBVIOUS
<1>1. /\ adapter = "opening" /\ pieces = <<>> /\ answers = 0 /\ response = <<>>
      /\ server = "idle" /\ gated = FALSE /\ frames = <<>> /\ enforce_schema \in BOOLEAN
      /\ driver = "new" /\ failed = FALSE /\ cancelled = FALSE
      /\ accumulated = <<>> /\ tokens = 0 /\ halted = FALSE
      /\ queue = <<>> /\ relay = "waiting" /\ shown = <<>>
    BY DEF DeliveryInit, AdapterInit
<1>2. <<>> \in Seq(Events) /\ <<>> \in Seq(Frames)
    OBVIOUS
<1>3. AdapterOK
    <2>1. <<>> \in Seq(NonEmpty) /\ <<>> \in Text
        BY NonEmptyFacts, TextFacts
    <2> QED
        BY <1>1, <2>1 DEF AdapterOK
<1>4. FrameOK
    <2>1. frames \in Seq(Frames)
        BY <1>1, <1>2
    <2>2. 1..Len(frames) = {}
        BY <1>1
    <2>3. FramesAre(frames, server, gated, adapter)
        BY <2>1, <2>2, Zenon DEF FramesAre
    <2> QED
        BY <1>1, <2>3 DEF FrameOK
<1>5. SessionOK
    BY <1>1, TextFacts DEF SessionOK
<1>6. QueueOK
    BY <1>1, <1>2 DEF QueueOK, IsQueue
<1>7. Told = <<>>
    <2>1. Sent(<<>>) = <<>> /\ <<>> \o <<>> = <<>>
        BY <1>2, LastOfOpen, TextFacts
    <2> QED
        BY <1>1, <2>1 DEF Told
<1>8. Ahead = <<>> /\ Ahead \o Visible(Joined(pieces)) = Visible(response)
    <2>1. Seen(<<>>) = <<>> /\ <<>> \o <<>> = <<>> /\ Joined(<<>>) = <<>> /\ Visible(<<>>) = <<>>
        BY BothCarry, SeenParts, TextFacts, JoinedParts, VisibleParts
    <2> QED
        BY <1>1, <1>7, <2>1 DEF Ahead
<1>9. TextKept
    BY <1>1, <1>8 DEF TextKept
<1>10. TokensOK
    BY <1>1, <1>7, TokensParts DEF TokensOK
<1>11. OutcomeOK
    BY <1>1, <1>7, UntoldParts DEF OutcomeOK
<1> QED
    BY <1>3, <1>4, <1>5, <1>6, <1>9, <1>10, <1>11 DEF DeliveryInv

(* Every step keeps it.                                                     *)
LEMMA DeliveryInvStep == DeliveryInv /\ [DeliveryNext]_vars => DeliveryInv'
<1> SUFFICES ASSUME DeliveryInv, [DeliveryNext]_vars PROVE DeliveryInv'
    OBVIOUS
<1>1. AdapterOK /\ FrameOK /\ SessionOK /\ QueueOK /\ TextKept /\ TokensOK /\ OutcomeOK
    BY DEF DeliveryInv
<1>2. AdapterOK' /\ FrameOK' /\ SessionOK'
    BY <1>1, AdapterStep, FrameStep, SessionStep
<1>3. QueueOK' /\ TextKept'
    BY <1>1, <1>2, QueueStep, TextKeptStep
<1>4. TokensOK' /\ OutcomeOK'
    BY <1>1, <1>2, <1>3, TokensStep, OutcomeStep
<1> QED
    BY <1>2, <1>3, <1>4 DEF DeliveryInv

(* The inductive invariant holds in every state of every run.               *)
THEOREM DeliveryAlways == DeliverySpec => []DeliveryInv
<1>1. DeliveryInit => DeliveryInv
    BY DeliveryInvInit
<1>2. DeliveryInv /\ [DeliveryNext]_vars => DeliveryInv'
    BY DeliveryInvStep
<1> QED
    BY <1>1, <1>2, PTL DEF DeliverySpec

(* A beginning of a beginning is a beginning.                               *)
LEMMA PrefixTransitive ==
    ASSUME NEW s \in Text, NEW t \in Text, NEW u \in Text, IsPrefix(s, t), IsPrefix(t, u)
    PROVE  IsPrefix(s, u)
<1> HIDE DEF Alphabet
<1>1. /\ Len(s) <= Len(t) /\ \A i \in 1..Len(s) : s[i] = t[i]
      /\ Len(t) <= Len(u) /\ \A i \in 1..Len(t) : t[i] = u[i]
    BY PrefixIs DEF Text
<1>2. Len(s) \in Nat /\ Len(t) \in Nat /\ Len(u) \in Nat
    BY DEF Text
<1>3. Len(s) <= Len(u) /\ \A i \in 1..Len(s) : s[i] = u[i]
    BY <1>1, <1>2
<1> QED
    BY <1>3, PrefixIs DEF Text

(* What the browser shows is the beginning of what is ahead of it.          *)
LEMMA ShownIsBehind ==
    ASSUME QueueOK, FrameOK
    PROVE  \E rest \in Text : Ahead = Seen(shown) \o rest /\ Seen(shown) \in Text
<1> DEFINE q == Sent(queue)
<1>1. shown \in Seq(Events) /\ q \in Seq(Events)
    <2>1. queue \in Seq(Events) \/ \E p \in Seq(Events) : queue = Append(p, None)
        BY DEF QueueOK, IsQueue
    <2> QED
        BY <2>1, LastOfOpen, LastOfClosed DEF QueueOK
<1>2. Told = shown \o q
    BY DEF Told
<1> HIDE DEF q
<1>3. /\ Seen(shown \o q) = Seen(shown) \o Seen(q)
      /\ Seen(shown) \in Text /\ Seen(q) \in Text
    BY <1>1, SeenParts, BothCarry
<1>4. Seen(frames) \in Text
    BY AheadIs
<1>5. (Seen(shown) \o Seen(q)) \o Seen(frames) = Seen(shown) \o (Seen(q) \o Seen(frames))
      /\ Seen(q) \o Seen(frames) \in Text
    BY <1>3, <1>4, TextFacts
<1> QED
    BY <1>2, <1>3, <1>5 DEF Ahead

(* So what is shown begins the response.                                    *)
LEMMA ShownFollows == DeliveryInv => ShownIsOneResponse
<1> SUFFICES ASSUME DeliveryInv PROVE ShownIsOneResponse
    OBVIOUS
<1>1. AdapterOK /\ FrameOK /\ QueueOK /\ TextKept /\ TokensOK
    BY DEF DeliveryInv
<1>2. PICK rest \in Text : Ahead = Seen(shown) \o rest /\ Seen(shown) \in Text
    BY <1>1, ShownIsBehind
<1>3. Ahead \in Text /\ Visible(response) \in Text /\ Visible(Joined(pieces)) \in Text
    BY <1>1, AheadIs, NonEmptyFacts, JoinedParts, VisibleParts DEF AdapterOK
<1>4. IsPrefix(Ahead, Visible(response))
    <2>1. CASE adapter # "closed"
        <3>1. Ahead \o Visible(Joined(pieces)) = Visible(response)
            BY <1>1, <2>1 DEF TextKept
        <3>2. IsPrefix(Ahead, Ahead \o Visible(Joined(pieces)))
            BY <1>3, PrefixOfConcat
        <3> QED
            BY <3>1, <3>2
    <2>2. CASE adapter = "closed"
        BY <1>1, <2>2 DEF TextKept
    <2> QED
        BY <2>1, <2>2
<1>5. IsPrefix(Seen(shown), Ahead)
    <2>1. IsPrefix(Seen(shown), Seen(shown) \o rest)
        BY <1>2, PrefixOfConcat
    <2> QED
        BY <1>2, <2>1
<1>6. IsPrefix(Visible(TextOf(shown)), Visible(response))
    BY <1>2, <1>3, <1>4, <1>5, PrefixTransitive DEF Seen
<1>7. ASSUME NEW i \in DOMAIN shown, shown[i].type = "token" PROVE shown[i].text # <<>>
    <2> DEFINE q == Sent(queue)
    <2>1. shown \in Seq(Events) /\ q \in Seq(Events)
        <3>1. queue \in Seq(Events) \/ \E p \in Seq(Events) : queue = Append(p, None)
            BY <1>1 DEF QueueOK, IsQueue
        <3> QED
            BY <1>1, <3>1, LastOfOpen, LastOfClosed DEF QueueOK
    <2> HIDE DEF q
    <2>2. i \in 1..Len(shown) /\ Len(shown) \in Nat /\ Len(q) \in Nat
        BY <2>1
    <2>3. i \in 1..Len(shown \o q) /\ (shown \o q)[i] = shown[i]
        BY <2>1, <2>2, ConcatProperties
    <2>4. i \in 1..Len(Told) /\ Told[i] = shown[i]
        BY <2>3 DEF Told, q
    <2> QED
        BY <1>1, <1>7, <2>4 DEF TokensOK
<1> QED
    BY <1>6, <1>7 DEF ShownIsOneResponse

(* For every set of texts, every number of attempts and every bound:        *)
(* what the browser shows is the beginning of one response, blanks          *)
(* aside, and no empty piece was billed.                                    *)
THEOREM BrowserSeesOneResponse == DeliverySpec => []ShownIsOneResponse
<1>1. DeliveryInv => ShownIsOneResponse
    BY ShownFollows
<1> QED
    BY <1>1, DeliveryAlways, PTL

-----------------------------------------------------------------------------
(* Whatever the model would still have said, the text could not be used. *)
HaltIsFinal ==
    halted => \/ Len(accumulated) >= MaxChars
              \/ \A rest \in Seq(Alphabet) : ~Usable(accumulated \o rest)
              \/ BlankAfterFence(accumulated)

(* A halt was ordered by an evaluator, and that stays true of the text.     *)
LEMMA HaltFollows == DeliveryInv => HaltIsFinal
<1> SUFFICES ASSUME DeliveryInv, halted
             PROVE  \/ Len(accumulated) >= MaxChars
                    \/ \A rest \in Seq(Alphabet) : ~Usable(accumulated \o rest)
                    \/ BlankAfterFence(accumulated)
    BY DEF HaltIsFinal
<1>1. accumulated \in Text /\ eval_chain(accumulated)
    BY DEF DeliveryInv, SessionOK
<1>2. length_cap(accumulated) \/ json_schema(accumulated)
    <2> DEFINE a == enforce_schema /\ json_schema(accumulated)
               b == length_cap(accumulated)
    <2>1. TRUE \in {a, b}
        BY <1>1, Zenon DEF eval_chain, compose
    <2> QED
        BY <2>1, Zenon
<1>3. length_cap(accumulated) => Len(accumulated) >= MaxChars
    BY DEF length_cap
<1> HIDE DEF Alphabet
<1> QED
    BY <1>1, <1>2, <1>3, HaltedStaysUseless DEF Text

(* What HaltIsJustified tries are texts.                                    *)
LEMMA EndingsAreTexts == Endings \subseteq Text
<1>1. /\ "{" \in Alphabet /\ "}" \in Alphabet /\ "x" \in Alphabet
      /\ "n" \in Alphabet /\ "t" \in Alphabet
    BY Zenon DEF Alphabet, Openers
<1> HIDE DEF Alphabet
<1>2. /\ <<>> \in Text
      /\ \A a \in Alphabet : <<a>> \in Text
      /\ \A a, b \in Alphabet : <<a, b>> \in Text
    BY DEF Text
<1>3. \A a, b, c \in Alphabet : <<a, b, c>> \in Text
    BY DEF Text
<1>4. \A a, b, c, d \in Alphabet : <<a, b, c, d>> \in Text
    BY DEF Text
<1>5. \A a, b, c, d, e \in Alphabet : <<a, b, c, d, e>> \in Text
    BY DEF Text
<1>6. /\ <<>> \in Text /\ <<"t">> \in Text /\ <<"}">> \in Text
      /\ <<"t", "t">> \in Text /\ <<"x", "}">> \in Text
    BY <1>1, <1>2, Zenon
<1>7. <<"{", "x", "}">> \in Text
    BY <1>1, <1>3, Zenon
<1>8. <<"n", "{", "x", "}">> \in Text
    BY <1>1, <1>4, Zenon
<1>9. <<"t", "n", "{", "x", "}">> \in Text
    BY <1>1, <1>5, Zenon
<1> QED
    BY <1>6, <1>7, <1>8, <1>9, Zenon DEF Endings

(* A session the evaluators halted has said enough, or no ending at all,    *)
(* of whatever length, makes its text usable, or blanks follow the          *)
(* fence: the halt saves only the price of an answer that is already        *)
(* lost (evaluators.py).  The run tries the endings of Endings.             *)
THEOREM HaltedForGood == DeliverySpec => []HaltIsFinal
<1>1. DeliveryInv => HaltIsFinal
    BY HaltFollows
<1> QED
    BY <1>1, DeliveryAlways, PTL

(* The same of the endings the run tries.                                   *)
THEOREM HaltsAreJustified == DeliverySpec => []HaltIsJustified
<1>1. DeliveryInv => HaltIsJustified
    <2>1. (\A rest \in Seq(Alphabet) : ~Usable(accumulated \o rest))
          => ~MayBecomeUsable(accumulated)
        BY EndingsAreTexts, Zenon DEF MayBecomeUsable, Text
    <2> QED
        BY <2>1, HaltFollows, Zenon DEF HaltIsFinal, HaltIsJustified
<1> QED
    BY <1>1, DeliveryAlways, PTL

(* Last and Front, position by position.                                    *)
LEMMA FrontOf ==
    ASSUME NEW s \in Seq(Events), s # <<>>
    PROVE  /\ Front(s) \in Seq(Events) /\ Len(s) \in Nat \ {0}
           /\ Len(Front(s)) = Len(s) - 1 /\ Last(s) = s[Len(s)]
           /\ \A i \in 1..(Len(s) - 1) : Front(s)[i] = s[i]
           /\ Front(s) = SubSeq(s, 1, Len(s) - 1)
<1>1. PICK r \in Seq(Events), e \in Events : s = Append(r, e)
    BY SequenceEmptyOrAppend
<1>2. Front(s) = r
    BY <1>1, LastAndFront
<1>3. Len(s) = Len(r) + 1 /\ Len(r) \in Nat /\ \A i \in 1..Len(r) : s[i] = r[i]
    BY <1>1, AppendProperties, LenProperties
<1>4. Front(s) = SubSeq(s, 1, Len(s) - 1) /\ Last(s) = s[Len(s)]
    BY DEF Front, Last
<1> QED
    BY <1>2, <1>3, <1>4

(* What a complete at the end of s says of the events before it. *)
Reported(s, i) ==
    /\ s[i].tokens = TokensIn(SubSeq(s, 1, i - 1))
    /\ Last(SubSeq(s, 1, i - 1)).type = "commit_signed"
    /\ Last(SubSeq(s, 1, i - 1)).tokens = s[i].tokens

(* A complete at the end, with everything it says of what came before.      *)
LEMMA CompletedSays ==
    ASSUME NEW s \in Seq(Events), Completed(s)
    PROVE  /\ s # <<>> /\ s[Len(s)].type = "complete" /\ Reported(s, Len(s))
           /\ \A i \in 1..(Len(s) - 1) : s[i].type \notin {"complete", "error"}
<1>1. s # <<>>
    BY DEF Completed
<1>2. /\ Front(s) \in Seq(Events) /\ Len(s) \in Nat \ {0}
      /\ Len(Front(s)) = Len(s) - 1 /\ Last(s) = s[Len(s)]
      /\ \A i \in 1..(Len(s) - 1) : Front(s)[i] = s[i]
      /\ Front(s) = SubSeq(s, 1, Len(s) - 1)
    BY <1>1, FrontOf
<1>3. s[Len(s)].type = "complete" /\ Reported(s, Len(s))
    BY <1>2 DEF Completed, Reported
<1>4. \A i \in 1..(Len(s) - 1) : s[i].type \notin {"complete", "error"}
    BY <1>2 DEF Completed, Untold
<1> QED
    BY <1>1, <1>3, <1>4

(* An outcome told, read position by position.                              *)
LEMMA OutcomeRead ==
    ASSUME NEW s \in Seq(Events), Completed(s) \/ Broken(s) \/ BrokenLate(s)
    PROVE  /\ s # <<>> /\ Last(s).type \in {"complete", "error"}
           /\ \A i \in 1..Len(s) :
                 /\ s[i].type = "error" => i = Len(s)
                 /\ s[i].type = "complete" =>
                       /\ Completed(s) \/ BrokenLate(s)
                       /\ \A j \in (i + 1)..Len(s) : s[j].type = "error"
                       /\ Reported(s, i)
<1>1. s # <<>>
    BY DEF Completed, Broken, BrokenLate
<1> DEFINE n == Len(s)
           f == Front(s)
<1>2. /\ f \in Seq(Events) /\ n \in Nat \ {0} /\ Len(f) = n - 1 /\ Last(s) = s[n]
      /\ \A i \in 1..(n - 1) : f[i] = s[i]
      /\ f = SubSeq(s, 1, n - 1)
    BY <1>1, FrontOf
<1>3. CASE Completed(s)
    <2>1. /\ s[n].type = "complete" /\ Reported(s, n)
          /\ \A i \in 1..(n - 1) : s[i].type \notin {"complete", "error"}
        BY <1>3, CompletedSays
    <2> HIDE DEF n, f
    <2>2. \A i \in 1..n : i = n \/ i \in 1..(n - 1)
        BY <1>2
    <2>3. (n + 1)..n = {}
        BY <1>2
    <2> QED
        BY <1>1, <1>2, <1>3, <2>1, <2>2, <2>3 DEF n
<1>4. CASE Broken(s)
    <2>1. s[n].type = "error" /\ \A i \in 1..(n - 1) : s[i].type \notin {"complete", "error"}
        BY <1>2, <1>4 DEF Broken, Untold
    <2> HIDE DEF n, f
    <2>2. \A i \in 1..n : i = n \/ i \in 1..(n - 1)
        BY <1>2
    <2> QED
        BY <1>1, <1>2, <2>1, <2>2 DEF n
<1>5. CASE BrokenLate(s)
    <2>1. s[n].type = "error" /\ Completed(f)
        BY <1>2, <1>5 DEF BrokenLate
    <2>2. /\ f # <<>> /\ f[Len(f)].type = "complete" /\ Reported(f, Len(f))
          /\ \A i \in 1..(Len(f) - 1) : f[i].type \notin {"complete", "error"}
        BY <1>2, <2>1, CompletedSays
    <2> DEFINE m == Len(f)
    <2>3. m \in Nat \ {0} /\ m = n - 1 /\ s[m] = f[m] /\ s[m].type = "complete"
          /\ \A i \in 1..(m - 1) : s[i].type \notin {"complete", "error"}
        <3>1. m \in Nat \ {0}
            BY <1>2, <2>2, FrontOf
        <3> HIDE DEF n, f
        <3>2. m = n - 1 /\ \A i \in 1..m : f[i] = s[i]
            BY <1>2
        <3> HIDE DEF m
        <3>3. m \in 1..m /\ \A i \in 1..(m - 1) : i \in 1..m
            BY <3>1
        <3> QED
            BY <2>2, <3>1, <3>2, <3>3 DEF m
    <2>4. SubSeq(f, 1, m - 1) = SubSeq(s, 1, m - 1)
        <3> DEFINE g == SubSeq(f, 1, m - 1)
                   h == SubSeq(s, 1, m - 1)
        <3>1. \A i \in 1..(m - 1) : f[i] \in Events /\ s[i] \in Events /\ f[i] = s[i]
            <4> HIDE DEF Events, m, n, f
            <4>1. \A i \in 1..(m - 1) : i \in 1..(n - 1) /\ i \in 1..Len(s)
                BY <1>2, <2>3 DEF n
            <4> QED
                BY <1>2, <4>1, ElementOfSeq
        <3>2. m - 1 \in Int /\ 1 \in Int
            BY <2>3
        <3> HIDE DEF Events, m, n, f
        <3>3. /\ g \in Seq(Events) /\ Len(g) = (IF 1 <= m - 1 THEN m - 1 - 1 + 1 ELSE 0)
              /\ \A i \in 1..(m - 1 - 1 + 1) : g[i] = f[1 + i - 1]
            BY <3>1, <3>2, SubSeqProperties
        <3>4. /\ h \in Seq(Events) /\ Len(h) = (IF 1 <= m - 1 THEN m - 1 - 1 + 1 ELSE 0)
              /\ \A i \in 1..(m - 1 - 1 + 1) : h[i] = s[1 + i - 1]
            BY <3>1, <3>2, SubSeqProperties
        <3> HIDE DEF g, h
        <3>5. Len(g) = Len(h)
            BY <3>3, <3>4
        <3>6. ASSUME NEW i \in 1..Len(g) PROVE g[i] = h[i]
            <4>1. Len(g) = m - 1
                BY <2>3, <3>3
            <4>2. i \in 1..(m - 1) /\ i \in 1..(m - 1 - 1 + 1) /\ 1 + i - 1 = i
                BY <2>3, <4>1
            <4> QED
                BY <3>1, <3>3, <3>4, <4>2
        <3>7. g = h
            BY <3>3, <3>4, <3>5, <3>6, SeqEqual
        <3> QED
            BY <3>7 DEF g, h
    <2>5. Reported(s, m)
        BY <2>2, <2>3, <2>4 DEF Reported
    <2> HIDE DEF m, n, f
    <2>6. \A i \in 1..n : i = n \/ i = m \/ i \in 1..(m - 1)
        BY <1>2, <2>3
    <2>7. (m + 1)..n = {n}
        BY <1>2, <2>3
    <2> QED
        BY <1>1, <1>2, <1>5, <2>1, <2>3, <2>5, <2>6, <2>7 DEF n
<1> QED
    BY <1>3, <1>4, <1>5

(* In every state the browser was told truly.                               *)
LEMMA OutcomeFollows == DeliveryInv => OutcomeToldTruly
<1> SUFFICES ASSUME DeliveryInv, relay = "ended"
             PROVE  /\ shown # <<>> /\ Last(shown).type \in {"complete", "error"}
                    /\ \A i \in DOMAIN shown :
                          /\ shown[i].type = "error" => i = Len(shown)
                          /\ shown[i].type = "complete" =>
                                /\ \A j \in (i + 1)..Len(shown) : shown[j].type = "error"
                                /\ Reported(shown, i)
                                /\ \/ halted \/ gated
                                   \/ /\ adapter = "returned" /\ answers = 1
                                      /\ Visible(TextOf(shown)) = Visible(response)
    BY DEF OutcomeToldTruly, Reported
<1>1. AdapterOK /\ FrameOK /\ SessionOK /\ QueueOK /\ TextKept /\ OutcomeOK
    BY DEF DeliveryInv
<1>2. driver = "ended" /\ queue = <<>> /\ shown \in Seq(Events)
    BY <1>1 DEF QueueOK
<1>3. Told = shown
    <2>1. <<>> \in Seq(Events)
        OBVIOUS
    <2>2. Sent(<<>>) = <<>>
        BY <2>1, LastOfOpen
    <2> HIDE DEF Events
    <2>3. shown \o <<>> = shown
        BY <1>2
    <2> QED
        BY <1>2, <2>2, <2>3 DEF Told
<1>4. /\ Completed(shown) \/ Broken(shown) \/ BrokenLate(shown)
      /\ (Completed(shown) => CutOrWhole \/ Broken(shown) \/ BrokenLate(shown))
    BY <1>1, <1>2, <1>3 DEF OutcomeOK
<1>5. /\ shown # <<>> /\ Last(shown).type \in {"complete", "error"}
      /\ \A i \in 1..Len(shown) :
            /\ shown[i].type = "error" => i = Len(shown)
            /\ shown[i].type = "complete" =>
                  /\ Completed(shown) \/ BrokenLate(shown)
                  /\ \A j \in (i + 1)..Len(shown) : shown[j].type = "error"
                  /\ Reported(shown, i)
    BY <1>2, <1>4, OutcomeRead
<1>6. Broken(shown) => ~Completed(shown) /\ ~BrokenLate(shown)
    <2> SUFFICES ASSUME Broken(shown) PROVE ~Completed(shown) /\ ~BrokenLate(shown)
        OBVIOUS
    <2>1. Last(shown).type = "error" /\ Untold(Front(shown))
        BY DEF Broken
    <2>2. ~Completed(shown)
        BY <2>1 DEF Completed
    <2>3. ASSUME BrokenLate(shown) PROVE FALSE
        <3>1. Front(shown) \in Seq(Events) /\ Completed(Front(shown))
            BY <1>2, <1>5, <2>3, FrontOf DEF BrokenLate
        <3>2. /\ Front(shown) # <<>>
              /\ Front(shown)[Len(Front(shown))].type = "complete"
            BY <3>1, CompletedSays
        <3>3. Len(Front(shown)) \in Nat \ {0}
            BY <3>1, <3>2, FrontOf
        <3>4. Len(Front(shown)) \in 1..Len(Front(shown))
            BY <3>3
        <3> QED
            BY <2>1, <3>2, <3>4 DEF Untold
    <2> QED
        BY <2>2, <2>3
<1>7. Completed(shown) => ~BrokenLate(shown)
    BY DEF Completed, BrokenLate
<1>8. Completed(shown) \/ BrokenLate(shown) => CutOrWhole
    BY <1>1, <1>2, <1>3, <1>6, <1>7 DEF OutcomeOK
<1>9. ASSUME adapter = "returned", frames = <<>>
      PROVE  answers = 1 /\ Visible(TextOf(shown)) = Visible(response)
    <2>1. answers = 1 /\ pieces = <<>> /\ response \in Text
        BY <1>1, <1>9 DEF AdapterOK
    <2>2. Ahead \o Visible(Joined(pieces)) = Visible(response)
        BY <1>1, <1>9 DEF TextKept
    <2>3. /\ Joined(<<>>) = <<>> /\ Visible(<<>>) = <<>> /\ Seen(<<>>) = <<>>
        BY JoinedParts, VisibleParts, BothCarry, SeenParts
    <2>4. Seen(Told) \in Text
        BY <1>1, AheadIs
    <2>5. Seen(Told) \o <<>> = Seen(Told) /\ (Seen(Told) \o <<>>) \o <<>> = Seen(Told)
        BY <2>4, TextFacts
    <2> QED
        BY <1>3, <1>9, <2>1, <2>2, <2>3, <2>5 DEF Ahead, Seen
<1>10. Completed(shown) \/ BrokenLate(shown) =>
          \/ halted \/ gated
          \/ adapter = "returned" /\ answers = 1 /\ Visible(TextOf(shown)) = Visible(response)
    <2>1. halted \in BOOLEAN /\ gated \in BOOLEAN
        BY <1>1 DEF SessionOK, FrameOK
    <2>2. CutOrWhole => halted \/ gated \/ (adapter = "returned" /\ frames = <<>>)
        BY Zenon DEF CutOrWhole
    <2> QED
        BY <1>8, <1>9, <2>2, Zenon
<1>11. DOMAIN shown = 1..Len(shown)
    <2> HIDE DEF Events
    <2> QED
        BY <1>2
<1> QED
    BY <1>5, <1>10, <1>11, Zenon

(* A browser that stays is told truly how the run ended (runner.py, the     *)
(* driver and its finally clause).                                          *)
THEOREM BrowserToldTheOutcome == DeliverySpec => []OutcomeToldTruly
<1>1. DeliveryInv => OutcomeToldTruly
    BY OutcomeFollows
<1> QED
    BY <1>1, DeliveryAlways, PTL
=============================================================================
