-------------------------- MODULE CollectionLemmas --------------------------
(***************************************************************************)
(* What the operators on sets and sequences return that the models use and *)
(* the library states no theorem about: extremes of finite sets, sequences *)
(* without repetition, sequences with one element taken out or added.      *)
(***************************************************************************)
EXTENDS Integers, Sequences, SequencesExt, FiniteSetsExt,
        FiniteSetTheorems, SequenceTheorems, WellFoundedInduction, TLAPS

-----------------------------------------------------------------------------
(* Extremes of finite sets and of the fields of a sequence's elements.     *)

\* A finite set of integers that is not empty has a greatest element.
LEMMA FiniteSetHasMax ==
    ASSUME NEW S \in SUBSET Int, IsFiniteSet(S), S # {}
    PROVE  \E m \in S : \A x \in S : m >= x
  <1> DEFINE NoMax == {T \in SUBSET S : T # {} /\ ~ \E m \in T : \A x \in T : m >= x}
  <1>1. SUFFICES ASSUME NoMax # {} PROVE FALSE
    OBVIOUS
  <1>2. NoMax \subseteq FiniteSubsetsOf(S)
    BY FS_Subset DEF FiniteSubsetsOf
  <1>3. PICK T \in NoMax : \A U \in NoMax : ~ (<<U, T>> \in StrictSubsetOrdering(S))
    <2> HIDE DEF NoMax
    <2>1. QED
      BY <1>1, <1>2, FS_StrictSubsetOrderingWellFounded, WFMin
  <1>4. PICK t \in T : TRUE
    OBVIOUS
  <1>5. T \ {t} # {}
    OBVIOUS
  <1>6. T \ {t} \notin NoMax
    BY <1>3, <1>4 DEF StrictSubsetOrdering
  <1>7. PICK m \in T \ {t} : \A x \in T \ {t} : m >= x
    BY <1>5, <1>6
  <1>8. (m >= t \/ t >= m) /\ \A x \in T : x \in Int
    BY <1>4, <1>7
  <1>9. QED
    BY <1>3, <1>4, <1>7, <1>8

\* The same for the least, by negation.
LEMMA FiniteSetHasMin ==
    ASSUME NEW S \in SUBSET Int, IsFiniteSet(S), S # {}
    PROVE  \E m \in S : \A x \in S : m <= x
  <1> DEFINE N == {0 - x : x \in S}
  <1>1. [x \in S |-> 0 - x] \in Surjection(S, N)
    BY DEF Surjection
  <1>2. N \in SUBSET Int
    OBVIOUS
  <1>3. N # {}
    OBVIOUS
  <1>4. IsFiniteSet(N)
    <2> HIDE DEF N
    <2>1. QED
      BY <1>1, FS_Surjection
  <1>5. PICK m \in N : \A x \in N : m >= x
    <2> HIDE DEF N
    <2>1. QED
      BY <1>2, <1>3, <1>4, FiniteSetHasMax
  <1>6. PICK k \in S : m = 0 - k
    BY <1>5
  <1>7. \A x \in S : k <= x
    BY <1>5, <1>6
  <1>8. QED
    BY <1>7

\* What Max and Min return for such a set.
LEMMA MaxIsMax ==
    ASSUME NEW S \in SUBSET Int, IsFiniteSet(S), S # {}
    PROVE  Max(S) \in S /\ \A x \in S : Max(S) >= x
  BY FiniteSetHasMax DEF Max

LEMMA MinIsMin ==
    ASSUME NEW S \in SUBSET Int, IsFiniteSet(S), S # {}
    PROVE  Min(S) \in S /\ \A x \in S : Min(S) <= x
  BY FiniteSetHasMin DEF Min

\* The elements of a sequence are finitely many.
LEMMA RangeFinite ==
    ASSUME NEW S, NEW s \in Seq(S)
    PROVE  IsFiniteSet({s[i] : i \in DOMAIN s})
  <1> DEFINE R == {s[i] : i \in DOMAIN s}
  <1>1. s \in [1 .. Len(s) -> R] /\ Len(s) \in Nat /\ DOMAIN s = 1 .. Len(s)
    BY LenProperties
  <1>2. s \in Surjection(1 .. Len(s), R)
    BY <1>1 DEF Surjection
  <1>3. IsFiniteSet(1 .. Len(s))
    <2>1. \A n \in Nat : IsFiniteSet(1 .. n)
      BY FS_Interval
    <2>2. QED
      BY <1>1, <2>1
  <1>4. IsFiniteSet(R)
    <2> HIDE DEF R
    <2>1. QED
      BY <1>2, <1>3, FS_Surjection
  <1>5. QED
    BY <1>4

-----------------------------------------------------------------------------
(* Sequences.                                                              *)

\* A sequence of different elements has as many elements as positions.
LEMMA DistinctCardinality ==
    ASSUME NEW S, NEW s \in Seq(S),
           \A i, j \in DOMAIN s : s[i] = s[j] => i = j
    PROVE  Cardinality(ToSet(s)) = Len(s)
  <1>1. s \in [1 .. Len(s) -> ToSet(s)] /\ Len(s) \in Nat
    BY LenProperties DEF ToSet
  <1>2. s \in Bijection(1 .. Len(s), ToSet(s))
    BY <1>1 DEF Bijection, Injection, Surjection, ToSet, IsInjective
  <1>3. ExistsBijection(1 .. Len(s), ToSet(s))
    BY <1>2 DEF ExistsBijection
  <1>4. QED
    BY <1>1, <1>3, FS_CountingElements

\* What taking one element out of a sequence leaves.
LEMMA RemoveAtProperties ==
    ASSUME NEW S, NEW s \in Seq(S), NEW i \in DOMAIN s
    PROVE  LET r == RemoveAt(s, i)
           IN  /\ r \in Seq(S) /\ Len(r) = Len(s) - 1 /\ DOMAIN r = 1 .. Len(s) - 1
               /\ \A k \in DOMAIN r : r[k] = IF k < i THEN s[k] ELSE s[k + 1]
  <1> DEFINE a == SubSeq(s, 1, i - 1)
             b == SubSeq(s, i + 1, Len(s))
  <1>0. Len(s) \in Nat /\ DOMAIN s = 1 .. Len(s) /\ i \in 1 .. Len(s)
        /\ \A k \in 1 .. Len(s) : s[k] \in S
    BY LenProperties
  <1>1. /\ a \in Seq(S) /\ Len(a) = i - 1
        /\ \A k \in 1 .. i - 1 : a[k] = s[k]
    <2>1. 1 \in Int /\ i - 1 \in Int /\ \A k \in 1 .. i - 1 : s[k] \in S
      BY <1>0
    <2>2. /\ a \in Seq(S) /\ Len(a) = IF 1 <= i - 1 THEN i - 1 - 1 + 1 ELSE 0
          /\ \A k \in 1 .. i - 1 - 1 + 1 : a[k] = s[1 + k - 1]
      BY <2>1, SubSeqProperties
    <2> HIDE DEF a
    <2>3. QED
      BY <2>2, <1>0
  <1>2. /\ b \in Seq(S) /\ Len(b) = Len(s) - i
        /\ \A k \in 1 .. Len(s) - i : b[k] = s[i + k]
    <2>1. i + 1 \in Int /\ Len(s) \in Int /\ \A k \in i + 1 .. Len(s) : s[k] \in S
      BY <1>0
    <2>2. /\ b \in Seq(S) /\ Len(b) = IF i + 1 <= Len(s) THEN Len(s) - (i + 1) + 1 ELSE 0
          /\ \A k \in 1 .. Len(s) - (i + 1) + 1 : b[k] = s[(i + 1) + k - 1]
      BY <2>1, SubSeqProperties
    <2> HIDE DEF b
    <2>3. Len(s) - (i + 1) + 1 = Len(s) - i /\ (i + 1 <= Len(s) \/ Len(s) - i = 0)
      BY <1>0
    <2>4. \A k \in 1 .. Len(s) - i : (i + 1) + k - 1 = i + k
      BY <1>0
    <2>5. QED
      BY <2>2, <2>3, <2>4
  <1> HIDE DEF a, b
  <1>3. /\ a \o b \in Seq(S) /\ Len(a \o b) = Len(a) + Len(b)
        /\ \A k \in 1 .. Len(a) + Len(b) :
             (a \o b)[k] = IF k <= Len(a) THEN a[k] ELSE b[k - Len(a)]
    BY <1>1, <1>2, ConcatProperties
  <1>4. RemoveAt(s, i) = a \o b
    BY DEF RemoveAt, a, b
  <1> DEFINE r == a \o b
  <1>5. r \in Seq(S) /\ Len(r) = Len(s) - 1
    BY <1>0, <1>1, <1>2, <1>3
  <1>6. DOMAIN r = 1 .. Len(s) - 1
    <2> HIDE DEF r
    <2>1. QED
      BY <1>5, LenProperties
  <1>7. ASSUME NEW k \in 1 .. Len(s) - 1
        PROVE  r[k] = IF k < i THEN s[k] ELSE s[k + 1]
    <2>1. r[k] = IF k <= Len(a) THEN a[k] ELSE b[k - Len(a)]
      BY <1>0, <1>1, <1>2, <1>3
    <2> HIDE DEF r
    <2>2. CASE k < i
      BY <2>1, <2>2, <1>0, <1>1
    <2>3. CASE ~ (k < i)
      <3>1. k - Len(a) = k - i + 1 /\ ~ (k <= Len(a)) /\ k - i + 1 \in 1 .. Len(s) - i
        BY <2>3, <1>0, <1>1
      <3>2. i + (k - i + 1) = k + 1
        BY <1>0
      <3>3. QED
        BY <2>1, <2>3, <3>1, <3>2, <1>2
    <2>4. QED
      BY <2>2, <2>3
  <1>8. QED
    BY <1>4, <1>5, <1>6, <1>7

\* A sequence of one element, with another one appended.
LEMMA AppendToOne ==
    ASSUME NEW S, NEW a \in S, NEW b \in S
    PROVE  Append(<<a>>, b) = <<a, b>>
  <1>1. /\ <<a>> \in Seq(S) /\ Len(<<a>>) = 1 /\ <<a>>[1] = a
        /\ <<a, b>> \in Seq(S) /\ Len(<<a, b>>) = 2 /\ <<a, b>>[1] = a /\ <<a, b>>[2] = b
    OBVIOUS
  <1>2. /\ Append(<<a>>, b) \in Seq(S) /\ Len(Append(<<a>>, b)) = 2
        /\ Append(<<a>>, b)[1] = a /\ Append(<<a>>, b)[2] = b
    BY <1>1, AppendProperties
  <1>3. \A i \in 1 .. 2 : i = 1 \/ i = 2
    OBVIOUS
  <1>4. QED
    BY <1>1, <1>2, <1>3, SeqEqual

\* A sequence cut after its n-th element: the head and the tail.
LEMMA CutProperties ==
    ASSUME NEW S, NEW s \in Seq(S), NEW m \in Nat, m = Len(s), NEW n \in 0 .. m
    PROVE  /\ SubSeq(s, 1, n) \in Seq(S) /\ Len(SubSeq(s, 1, n)) = n
           /\ DOMAIN SubSeq(s, 1, n) = 1 .. n
           /\ \A i \in 1 .. n : SubSeq(s, 1, n)[i] = s[i]
           /\ SubSeq(s, n + 1, m) \in Seq(S) /\ Len(SubSeq(s, n + 1, m)) = m - n
           /\ DOMAIN SubSeq(s, n + 1, m) = 1 .. m - n
           /\ \A i \in 1 .. m - n : SubSeq(s, n + 1, m)[i] = s[n + i]
  <1>0. n \in Nat /\ n <= m /\ 1 \in Int /\ n \in Int /\ n + 1 \in Int /\ m \in Int
    OBVIOUS
  <1>1. \A i \in 1 .. m : s[i] \in S
    BY LenProperties
  <1> DEFINE a == SubSeq(s, 1, n)
             b == SubSeq(s, n + 1, m)
  <1>2. \A i \in 1 .. n : s[i] \in S
    BY <1>0, <1>1
  <1>3. \A i \in n + 1 .. m : s[i] \in S
    BY <1>0, <1>1
  <1>4. /\ a \in Seq(S) /\ Len(a) = IF 1 <= n THEN n - 1 + 1 ELSE 0
        /\ \A i \in 1 .. n - 1 + 1 : a[i] = s[1 + i - 1]
    BY <1>0, <1>2, SubSeqProperties
  <1>5. /\ b \in Seq(S) /\ Len(b) = IF n + 1 <= m THEN m - (n + 1) + 1 ELSE 0
        /\ \A i \in 1 .. m - (n + 1) + 1 : b[i] = s[(n + 1) + i - 1]
    BY <1>0, <1>3, SubSeqProperties
  <1> HIDE DEF a, b
  <1>6. n - 1 + 1 = n /\ (1 <= n \/ n = 0) /\ m - (n + 1) + 1 = m - n
        /\ (n + 1 <= m \/ m - n = 0)
    BY <1>0
  <1>7. /\ \A i \in 1 .. n : 1 + i - 1 = i
        /\ \A i \in 1 .. m - n : (n + 1) + i - 1 = n + i
    BY <1>0
  <1>8. /\ Len(a) = n /\ Len(b) = m - n
    BY <1>4, <1>5, <1>6
  <1>9. DOMAIN a = 1 .. n /\ DOMAIN b = 1 .. m - n
    BY <1>4, <1>5, <1>8, LenProperties
  <1>10. \A i \in 1 .. n : a[i] = s[i]
    BY <1>4, <1>6, <1>7
  <1>11. \A i \in 1 .. m - n : b[i] = s[n + i]
    BY <1>5, <1>6, <1>7
  <1>12. QED
    BY <1>4, <1>5, <1>8, <1>9, <1>10, <1>11 DEF a, b

\* The sizes of disjoint finite sets add up.
LEMMA DisjointUnion ==
    ASSUME NEW S, NEW T, IsFiniteSet(S), IsFiniteSet(T), S \cap T = {}
    PROVE  /\ IsFiniteSet(S \cup T)
           /\ Cardinality(S \cup T) = Cardinality(S) + Cardinality(T)
           /\ Cardinality(S) \in Nat /\ Cardinality(T) \in Nat
  <1>1. Cardinality(S \cap T) = 0
    BY FS_EmptySet
  <1>2. Cardinality(S) \in Nat /\ Cardinality(T) \in Nat
    BY FS_CardinalityType
  <1>3. /\ IsFiniteSet(S \cup T)
        /\ Cardinality(S \cup T) = Cardinality(S) + Cardinality(T) - Cardinality(S \cap T)
    BY FS_Union
  <1>4. QED
    BY <1>1, <1>2, <1>3

\* Appending adds one element at the end.
LEMMA AppendElements ==
    ASSUME NEW S, NEW s \in Seq(S), NEW x \in S
    PROVE  /\ Append(s, x) \in Seq(S)
           /\ DOMAIN Append(s, x) = 1 .. Len(s) + 1
           /\ \A i \in DOMAIN s : Append(s, x)[i] = s[i]
           /\ Append(s, x)[Len(s) + 1] = x
           /\ ToSet(Append(s, x)) = ToSet(s) \cup {x}
  <1> DEFINE a == Append(s, x)
             l == Len(s)
  <1>1. /\ l \in Nat /\ DOMAIN s = 1 .. l
        /\ a \in Seq(S) /\ Len(a) = l + 1
        /\ \A i \in 1 .. l : a[i] = s[i]
        /\ a[l + 1] = x
    BY LenProperties, AppendProperties
  <1>2. DOMAIN a = 1 .. l + 1
    BY <1>1, LenProperties
  <1> HIDE DEF a, l
  <1>3. /\ \A i \in 1 .. l + 1 : i \in 1 .. l \/ i = l + 1
        /\ \A i \in 1 .. l : i \in 1 .. l + 1
        /\ l + 1 \in 1 .. l + 1
    BY <1>1
  <1>4. ToSet(a) = ToSet(s) \cup {x}
    <2>1. \A y \in ToSet(a) : y \in ToSet(s) \cup {x}
      BY <1>1, <1>2, <1>3 DEF ToSet
    <2>2. x \in ToSet(a)
      BY <1>1, <1>2, <1>3 DEF ToSet
    <2>3. \A y \in ToSet(s) : y \in ToSet(a)
      BY <1>1, <1>2, <1>3 DEF ToSet
    <2>4. QED
      BY <2>1, <2>2, <2>3
  <1>5. QED
    BY <1>1, <1>2, <1>4 DEF a, l

\* Removing takes out the element of one position, each other one keeps a place.
LEMMA RemoveAtElements ==
    ASSUME NEW S, NEW s \in Seq(S), NEW i \in DOMAIN s
    PROVE  /\ RemoveAt(s, i) \in Seq(S)
           /\ \A k \in DOMAIN RemoveAt(s, i) : \E j \in DOMAIN s :
                 j # i /\ RemoveAt(s, i)[k] = s[j]
           /\ \A j \in DOMAIN s : j # i =>
                 \E k \in DOMAIN RemoveAt(s, i) : RemoveAt(s, i)[k] = s[j]
           /\ \A k, m \in DOMAIN RemoveAt(s, i) : k < m =>
                 \E j, n \in DOMAIN s :
                    j < n /\ j # i /\ n # i
                    /\ RemoveAt(s, i)[k] = s[j] /\ RemoveAt(s, i)[m] = s[n]
  <1> DEFINE r == RemoveAt(s, i)
             l == Len(s)
  <1>1. l \in Nat /\ DOMAIN s = 1 .. l /\ i \in 1 .. l
    BY LenProperties
  <1>2. /\ r \in Seq(S) /\ DOMAIN r = 1 .. l - 1
        /\ \A k \in DOMAIN r : r[k] = IF k < i THEN s[k] ELSE s[k + 1]
    BY RemoveAtProperties
  <1> HIDE DEF r, l
  <1> DEFINE from(k) == IF k < i THEN k ELSE k + 1
  <1>3. \A k \in 1 .. l - 1 : from(k) \in 1 .. l /\ from(k) # i /\ r[k] = s[from(k)]
    BY <1>1, <1>2
  <1>4. \A k, m \in 1 .. l - 1 : k < m => from(k) < from(m)
    BY <1>1
  <1>5. ASSUME NEW j \in 1 .. l, j # i PROVE \E k \in 1 .. l - 1 : from(k) = j
    <2>1. CASE j < i
      <3>1. j \in 1 .. l - 1 /\ from(j) = j
        BY <2>1, <1>1
      <3>2. QED
        BY <3>1
    <2>2. CASE j > i
      <3>1. j - 1 \in 1 .. l - 1 /\ from(j - 1) = j
        BY <2>2, <1>1
      <3>2. QED
        BY <3>1
    <2>3. QED
      BY <2>1, <2>2, <1>1, <1>5
  <1> HIDE DEF from
  <1>6. /\ \A k \in DOMAIN r : \E j \in DOMAIN s : j # i /\ r[k] = s[j]
        /\ \A j \in DOMAIN s : j # i => \E k \in DOMAIN r : r[k] = s[j]
    BY <1>1, <1>2, <1>3, <1>5
  <1>7. \A k, m \in DOMAIN r : k < m =>
           \E j, n \in DOMAIN s : j < n /\ j # i /\ n # i /\ r[k] = s[j] /\ r[m] = s[n]
    BY <1>1, <1>2, <1>3, <1>4
  <1>8. QED
    BY <1>2, <1>6, <1>7 DEF r

\* Joining two sequences joins their elements.
LEMMA ConcatElements ==
    ASSUME NEW S, NEW a \in Seq(S), NEW b \in Seq(S)
    PROVE  a \o b \in Seq(S) /\ ToSet(a \o b) = ToSet(a) \cup ToSet(b)
  <1> DEFINE c == a \o b
             k == Len(a)
             m == Len(b)
  <1>1. /\ c \in Seq(S) /\ Len(c) = k + m
        /\ \A i \in 1 .. k + m : c[i] = IF i <= k THEN a[i] ELSE b[i - k]
    BY ConcatProperties
  <1>2. k \in Nat /\ m \in Nat /\ DOMAIN a = 1 .. k /\ DOMAIN b = 1 .. m
    BY LenProperties
  <1>3. DOMAIN c = 1 .. k + m
    <2> HIDE DEF c, k, m
    <2>1. QED
      BY <1>1, LenProperties
  <1> HIDE DEF c, k, m
  <1>4. ASSUME NEW x \in ToSet(c) PROVE x \in ToSet(a) \cup ToSet(b)
    <2>1. PICK i \in 1 .. k + m : x = c[i]
      BY <1>3 DEF ToSet
    <2>2. (i <= k => i \in 1 .. k) /\ (~ (i <= k) => i - k \in 1 .. m)
      BY <1>2
    <2>3. QED
      BY <1>1, <1>2, <2>1, <2>2 DEF ToSet
  <1>5. ASSUME NEW x \in ToSet(a) PROVE x \in ToSet(c)
    <2>1. PICK i \in 1 .. k : x = a[i]
      BY <1>2 DEF ToSet
    <2>2. i \in 1 .. k + m /\ i <= k
      BY <1>2
    <2>3. QED
      BY <1>1, <1>3, <2>1, <2>2 DEF ToSet
  <1>6. ASSUME NEW x \in ToSet(b) PROVE x \in ToSet(c)
    <2>1. PICK i \in 1 .. m : x = b[i]
      BY <1>2 DEF ToSet
    <2>2. k + i \in 1 .. k + m /\ ~ (k + i <= k) /\ (k + i) - k = i
      BY <1>2
    <2>3. c[k + i] = b[i]
      BY <1>1, <2>2
    <2>4. QED
      BY <1>3, <2>1, <2>2, <2>3 DEF ToSet
  <1>7. QED
    BY <1>1, <1>4, <1>5, <1>6 DEF c

\* The last n elements of a sequence.
LEMMA LastElements ==
    ASSUME NEW S, NEW s \in Seq(S), NEW n \in Nat, n > 0, NEW r,
           r = IF Len(s) > n THEN SubSeq(s, Len(s) - n + 1, Len(s)) ELSE s
    PROVE  /\ r \in Seq(S) /\ Len(r) <= n
           /\ s # <<>> => r # <<>> /\ r[Len(r)] = s[Len(s)]
  <1> DEFINE m == Len(s)
             k == m - n
  <1>1. m \in Nat /\ (s # <<>> => m > 0)
    BY LenProperties, EmptySeq
  <1>2. CASE m > n
    <2>1. k \in 0 .. m /\ m - k = n /\ k + n = m
      BY <1>1, <1>2
    <2>2. /\ SubSeq(s, k + 1, m) \in Seq(S) /\ Len(SubSeq(s, k + 1, m)) = m - k
          /\ \A i \in 1 .. m - k : SubSeq(s, k + 1, m)[i] = s[k + i]
      <3> HIDE DEF k
      <3>1. QED
        BY <1>1, <2>1, CutProperties
    <2>3. r = SubSeq(s, k + 1, m)
      BY <1>2
    <2> HIDE DEF k, m
    <2>7. n \in 1 .. n
      OBVIOUS
    <2>4. r \in Seq(S) /\ Len(r) = n /\ r[n] = s[m]
      BY <2>1, <2>2, <2>3, <2>7, Zenon
    <2>5. r # <<>>
      <3>1. Len(r) # 0
        BY <2>4
      <3>2. QED
        BY <3>1
    <2>6. QED
      BY <2>4, <2>5 DEF m
  <1>3. CASE ~ (m > n)
    BY <1>1, <1>3
  <1>4. QED
    BY <1>2, <1>3
=============================================================================
