--------------------------- MODULE SequenceLemmas ---------------------------
(***************************************************************************)
(* Facts about Append, Head, Tail, concatenation, the range of a sequence  *)
(* and the number of elements of a set, on which the proofs of this        *)
(* project rest.                                                           *)
(***************************************************************************)
EXTENDS Sequences, Functions, FiniteSets, SequenceTheorems,
        FiniteSetTheorems, TLAPS

\* Appending to the second of two sequences appends to their concatenation.
LEMMA AppendConcat ==
    ASSUME NEW S, NEW s \in Seq(S), NEW t \in Seq(S), NEW x \in S
    PROVE  s \o Append(t, x) = Append(s \o t, x)
  OBVIOUS

\* The head and the tail of a concatenation are those of its first part.
LEMMA HeadTailConcat ==
    ASSUME NEW S, NEW s \in Seq(S), NEW t \in Seq(S), s # <<>>
    PROVE  /\ s \o t # <<>>
           /\ Head(s \o t) = Head(s)
           /\ Tail(s \o t) = Tail(s) \o t
  OBVIOUS

\* The empty sequence is neutral for concatenation.
LEMMA EmptyConcat ==
    ASSUME NEW S, NEW s \in Seq(S)
    PROVE  <<>> \o s = s /\ s \o <<>> = s
  OBVIOUS

\* What is left behind an element that was put in front.
LEMMA TailPush ==
    ASSUME NEW S, NEW x \in S, NEW s \in Seq(S)
    PROVE  Tail(<<x>> \o s) = s
  <1>. DEFINE t == <<x>> \o s
  <1>1. t \in Seq(S) /\ Len(t) = Len(s) + 1
    OBVIOUS
  <1>2. \A i \in 1 .. Len(s) : t[i + 1] = s[i]
    OBVIOUS
  <1>. HIDE DEF t
  <1>3. t # <<>>
    BY <1>1
  <1>4. Tail(t) \in Seq(S) /\ Len(Tail(t)) = Len(s)
    BY <1>1, <1>3
  <1>5. \A i \in 1 .. Len(s) : Tail(t)[i] = s[i]
    BY <1>1, <1>2, <1>3
  <1>6. Tail(t) = s
    BY <1>4, <1>5
  <1>. QED  BY <1>6 DEF t

\* The empty sequence has no elements.
LEMMA RangeEmpty == Range(<<>>) = {}
  BY DEF Range

\* Append adds one element to the range.
LEMMA RangeAppend ==
    ASSUME NEW S, NEW s \in Seq(S), NEW x \in S
    PROVE  Range(Append(s, x)) = Range(s) \union {x}
  <1>1. ASSUME NEW y \in Range(Append(s, x))
        PROVE  y \in Range(s) \union {x}
    BY <1>1 DEF Range
  <1>2. ASSUME NEW y \in Range(s)
        PROVE  y \in Range(Append(s, x))
    <2>1. PICK i \in DOMAIN s : y = s[i]
      BY <1>2 DEF Range
    <2>2. i \in DOMAIN Append(s, x) /\ Append(s, x)[i] = y
      BY <2>1
    <2> QED
      BY <2>2 DEF Range
  <1>3. x \in Range(Append(s, x))
    <2>1. Len(s) + 1 \in DOMAIN Append(s, x) /\ Append(s, x)[Len(s) + 1] = x
      OBVIOUS
    <2> QED
      BY <2>1 DEF Range
  <1> QED
    BY <1>1, <1>2, <1>3

\* A sequence is made of its head and its tail.
LEMMA RangeHeadTail ==
    ASSUME NEW S, NEW s \in Seq(S), s # <<>>
    PROVE  Range(s) = {Head(s)} \union Range(Tail(s))
  <1>1. ASSUME NEW y \in Range(Tail(s))
        PROVE  y \in Range(s)
    <2>1. PICK i \in DOMAIN Tail(s) : y = Tail(s)[i]
      BY <1>1 DEF Range
    <2>2. i + 1 \in DOMAIN s /\ s[i + 1] = y
      BY <2>1
    <2> QED
      BY <2>2 DEF Range
  <1>2. Head(s) \in Range(s)
    <2>1. 1 \in DOMAIN s /\ s[1] = Head(s)
      OBVIOUS
    <2> QED
      BY <2>1 DEF Range
  <1>3. ASSUME NEW y \in Range(s), y # Head(s)
        PROVE  y \in Range(Tail(s))
    <2>1. PICK i \in DOMAIN s : y = s[i]
      BY <1>3 DEF Range
    <2>2. i # 1
      BY <2>1, <1>3
    <2>3. i - 1 \in DOMAIN Tail(s) /\ Tail(s)[i - 1] = y
      BY <2>1, <2>2
    <2> QED
      BY <2>3 DEF Range
  <1> QED
    BY <1>1, <1>2, <1>3

\* The elements of a concatenation.
LEMMA RangeConcat ==
    ASSUME NEW S, NEW s \in Seq(S), NEW t \in Seq(S)
    PROVE  Range(s \o t) = Range(s) \union Range(t)
  <1>1. ASSUME NEW y \in Range(s \o t)
        PROVE  y \in Range(s) \union Range(t)
    <2>1. PICK i \in DOMAIN (s \o t) : y = (s \o t)[i]
      BY DEF Range
    <2>2. \/ i \in DOMAIN s /\ (s \o t)[i] = s[i]
          \/ i - Len(s) \in DOMAIN t /\ (s \o t)[i] = t[i - Len(s)]
      OBVIOUS
    <2>. QED  BY <2>1, <2>2 DEF Range
  <1>2. ASSUME NEW y \in Range(s)
        PROVE  y \in Range(s \o t)
    <2>1. PICK i \in DOMAIN s : y = s[i]
      BY DEF Range
    <2>2. i \in DOMAIN (s \o t) /\ (s \o t)[i] = s[i]
      OBVIOUS
    <2>. QED  BY <2>1, <2>2 DEF Range
  <1>3. ASSUME NEW y \in Range(t)
        PROVE  y \in Range(s \o t)
    <2>1. PICK i \in DOMAIN t : y = t[i]
      BY DEF Range
    <2>2. i + Len(s) \in DOMAIN (s \o t) /\ (s \o t)[i + Len(s)] = t[i]
      OBVIOUS
    <2>. QED  BY <2>1, <2>2 DEF Range
  <1>. QED  BY <1>1, <1>2, <1>3

\* A sequence is made of its first n elements and the others.
LEMMA SplitAt ==
    ASSUME NEW S, NEW s \in Seq(S), NEW n \in 0 .. Len(s)
    PROVE  /\ SubSeq(s, 1, n) \in Seq(S)
           /\ Len(SubSeq(s, 1, n)) = n
           /\ SubSeq(s, n + 1, Len(s)) \in Seq(S)
           /\ Len(SubSeq(s, n + 1, Len(s))) = Len(s) - n
           /\ SubSeq(s, 1, n) \o SubSeq(s, n + 1, Len(s)) = s
  <1>1. /\ 1 \in Int /\ n \in Int /\ n + 1 \in Int /\ Len(s) \in Int
        /\ 1 \in 1 .. Len(s) + 1 /\ n \in 1 - 1 .. Len(s)
        /\ Len(s) \in n .. Len(s)
    OBVIOUS
  <1>2. /\ \A i \in 1 .. n : s[i] \in S
        /\ \A i \in n + 1 .. Len(s) : s[i] \in S
    OBVIOUS
  <1>3. /\ SubSeq(s, 1, n) \in Seq(S)
        /\ Len(SubSeq(s, 1, n)) = IF 1 <= n THEN n - 1 + 1 ELSE 0
    BY <1>1, <1>2, SubSeqProperties
  <1>4. /\ SubSeq(s, n + 1, Len(s)) \in Seq(S)
        /\ Len(SubSeq(s, n + 1, Len(s))) =
               IF n + 1 <= Len(s) THEN Len(s) - (n + 1) + 1 ELSE 0
    BY <1>1, <1>2, SubSeqProperties
  <1>5. SubSeq(s, 1, n) \o SubSeq(s, n + 1, Len(s)) = SubSeq(s, 1, Len(s))
    BY <1>1, ConcatAdjacentSubSeq
  <1>6. SubSeq(s, 1, Len(s)) = s
    BY SubSeqFull
  <1>7. Len(SubSeq(s, 1, n)) = n
    BY <1>1, <1>3
  <1>8. Len(SubSeq(s, n + 1, Len(s))) = Len(s) - n
    BY <1>1, <1>4
  <1>. QED  BY <1>3, <1>4, <1>5, <1>6, <1>7, <1>8

\* The elements of a sequence that was appended to.
LEMMA AppendAsFunction ==
    ASSUME NEW S, NEW s \in Seq(S), NEW x \in S, NEW n \in Nat, n = Len(s)
    PROVE  Append(s, x) = [i \in 1 .. n + 1 |-> IF i = n + 1 THEN x ELSE s[i]]
  <1>. DEFINE f == [i \in 1 .. n + 1 |-> IF i = n + 1 THEN x ELSE s[i]]
  <1>1. f \in Seq(S) /\ Len(f) = n + 1
    OBVIOUS
  <1>2. /\ Append(s, x) \in Seq(S) /\ Len(Append(s, x)) = n + 1
        /\ \A i \in 1 .. n : Append(s, x)[i] = s[i]
        /\ Append(s, x)[n + 1] = x
    BY AppendProperties
  <1>3. \A i \in 1 .. n + 1 : Append(s, x)[i] = f[i]
    BY <1>2
  <1>. QED  BY <1>1, <1>2, <1>3, SeqEqual

\* The elements of the tail of a sequence.
LEMMA TailAsFunction ==
    ASSUME NEW S, NEW s \in Seq(S), NEW n \in Nat \ {0}, n = Len(s)
    PROVE  Tail(s) = [i \in 1 .. n - 1 |-> s[i + 1]]
  <1>. DEFINE f == [i \in 1 .. n - 1 |-> s[i + 1]]
  <1>1. f \in Seq(S) /\ Len(f) = n - 1
    OBVIOUS
  <1>2. /\ Tail(s) \in Seq(S) /\ Len(Tail(s)) = n - 1
        /\ \A i \in 1 .. n - 1 : Tail(s)[i] = s[i + 1]
    <2>1. s # <<>>
      BY EmptySeq
    <2>. QED  BY <2>1, HeadTailProperties
  <1>3. \A i \in 1 .. n - 1 : Tail(s)[i] = f[i]
    BY <1>2
  <1>. QED  BY <1>1, <1>2, <1>3, SeqEqual

-----------------------------------------------------------------------------
(* Sequences without repetitions *)

\* A new element at the end repeats none.
LEMMA AppendDistinct ==
    ASSUME NEW S, NEW s \in Seq(S), NEW x \in S,
           IsInjective(s), x \notin Range(s)
    PROVE  IsInjective(Append(s, x))
  <1>1. \A i \in DOMAIN s : s[i] # x
    BY DEF Range
  <1>2. /\ DOMAIN Append(s, x) = 1 .. Len(s) + 1 /\ DOMAIN s = 1 .. Len(s)
        /\ \A i \in 1 .. Len(s) : Append(s, x)[i] = s[i]
        /\ Append(s, x)[Len(s) + 1] = x
    OBVIOUS
  <1>3. \A i \in 1 .. Len(s) + 1 : i \in 1 .. Len(s) \/ i = Len(s) + 1
    OBVIOUS
  <1>. QED  BY <1>1, <1>2, <1>3, Zenon DEF IsInjective

\* A tail has no repetitions either, and the head is not in it.
LEMMA TailDistinct ==
    ASSUME NEW S, NEW s \in Seq(S), s # <<>>, IsInjective(s)
    PROVE  IsInjective(Tail(s)) /\ Head(s) \notin Range(Tail(s))
  <1>1. \A i \in DOMAIN Tail(s) : i + 1 \in DOMAIN s /\ Tail(s)[i] = s[i + 1]
    OBVIOUS
  <1>2. IsInjective(Tail(s))
    <2>1. \A i, j \in DOMAIN Tail(s) : i + 1 = j + 1 => i = j
      OBVIOUS
    <2>. QED  BY <1>1, <2>1 DEF IsInjective
  <1>3. ASSUME Head(s) \in Range(Tail(s))
        PROVE  FALSE
    <2>1. PICK i \in DOMAIN Tail(s) : Head(s) = Tail(s)[i]
      BY <1>3 DEF Range
    <2>2. 1 \in DOMAIN s /\ s[1] = s[i + 1] /\ i + 1 \in DOMAIN s
      BY <1>1, <2>1
    <2>3. i + 1 # 1
      BY <2>1
    <2>. QED  BY <2>2, <2>3 DEF IsInjective
  <1>. QED  BY <1>2, <1>3

\* Without repetitions, a sequence that misses an element of a finite set is
\* shorter than the set.
LEMMA DistinctIsShorter ==
    ASSUME NEW S, IsFiniteSet(S), NEW s \in Seq(S), NEW x \in S,
           IsInjective(s), x \notin Range(s)
    PROVE  Len(s) < Cardinality(S)
  <1>. DEFINE T == S \ {x}
              D == 1 .. Len(s)
  <1>1. Cardinality(S) \in Nat
    BY FS_CardinalityType
  <1>2. IsFiniteSet(T) /\ Cardinality(T) = Cardinality(S) - 1
    BY FS_RemoveElement, Zenon
  <1>3. Len(s) \in Nat
    OBVIOUS
  <1>4. IsFiniteSet(D) /\ Cardinality(D) = Len(s)
    BY <1>3, FS_Interval
  <1>5. s \in [D -> T]
    BY DEF Range
  <1>6. \A i, j \in D : s[i] = s[j] => i = j
    BY DEF IsInjective
  <1>. HIDE DEF T, D
  <1>7. ASSUME Cardinality(T) < Cardinality(D)
        PROVE  FALSE
    <2>1. \E i, j \in D : i # j /\ s[i] = s[j]
      BY <1>2, <1>4, <1>5, <1>7, FS_PigeonHole
    <2>. QED  BY <1>6, <2>1
  <1>. QED  BY <1>1, <1>2, <1>3, <1>4, <1>7

-----------------------------------------------------------------------------
(* Counting *)

\* A set with one element less, if it had it, is smaller by one at most.
LEMMA OneLess ==
    ASSUME NEW T, IsFiniteSet(T), NEW t
    PROVE  Cardinality(T) - 1 <= Cardinality(T \ {t})
  <1>1. /\ Cardinality(T) \in Nat
        /\ Cardinality(T \ {t}) =
               IF t \in T THEN Cardinality(T) - 1 ELSE Cardinality(T)
    BY FS_CardinalityType, FS_RemoveElement, Zenon
  <1>. QED  BY <1>1

\* A set that gains an element gains one in number.
LEMMA OneMore ==
    ASSUME NEW T, IsFiniteSet(T), NEW t, t \notin T
    PROVE  /\ Cardinality(T) \in Nat /\ Cardinality(T \union {t}) \in Nat
           /\ Cardinality(T \union {t}) = Cardinality(T) + 1
  <1>1. /\ Cardinality(T) \in Nat
        /\ Cardinality(T \union {t}) = Cardinality(T) + 1
    BY FS_CardinalityType, FS_AddElement
  <1>. QED  BY <1>1

\* A part of a finite set does not have more elements.
LEMMA PartIsSmaller ==
    ASSUME NEW T, IsFiniteSet(T), NEW U \in SUBSET T
    PROVE  /\ IsFiniteSet(U)
           /\ Cardinality(U) \in Nat /\ Cardinality(T) \in Nat
           /\ Cardinality(U) <= Cardinality(T)
  <1>1. IsFiniteSet(U) /\ Cardinality(U) <= Cardinality(T)
    BY FS_Subset
  <1>. QED  BY <1>1, FS_CardinalityType
=============================================================================
