-------------------------- MODULE ByteOrderProofs --------------------------
(***************************************************************************)
(* Induction and recursion over 0 .. n, and what follows from them for      *)
(* sequences, the order of keys and integers written as bytes.              *)
(*                                                                         *)
(* A recursive function is a CHOOSE of a function that satisfies its        *)
(* equations: the lemmas here show that there is one, and let a property of *)
(* it be proved from each number to the next.  They rest on the subsets of  *)
(* a finite set being well-founded.                                         *)
(***************************************************************************)
EXTENDS ByteOrder, FiniteSetTheorems, SequenceTheorems, WellFoundedInduction, TLAPS

(* Every set of natural numbers that is not empty has a least element.      *)
LEMMA LeastNat ==
  ASSUME NEW T, T \subseteq Nat, T # {}
  PROVE  \E n \in T : \A m \in T : n <= m
<1> PICK k \in T : TRUE
  OBVIOUS
<1> DEFINE S == 0 .. k
           F == {0 .. n : n \in {x \in T : x <= k}}
<1>1. IsWellFoundedOn(StrictSubsetOrdering(S), SUBSET S)
  <2>1. IsFiniteSet(S)
    BY FS_Interval
  <2>2. FiniteSubsetsOf(S) = SUBSET S
    <3> HIDE DEF S
    <3> QED BY <2>1, FS_FiniteSubsetsOfFinite
  <2> QED BY <2>2, FS_StrictSubsetOrderingWellFounded
<1>2. F \subseteq SUBSET S /\ 0 .. k \in F
  OBVIOUS
<1>3. \E x \in F : \A y \in F : ~ (<<y, x>> \in StrictSubsetOrdering(S))
  <2> HIDE DEF S, F
  <2> QED BY <1>1, <1>2, WFMin
<1>4. PICK n \in T : n <= k /\ \A y \in F : ~ (<<y, 0 .. n>> \in StrictSubsetOrdering(S))
  BY <1>3
<1>5. ASSUME NEW m \in T, m < n PROVE FALSE
  <2>1. 0 .. m \in F /\ 0 .. m \subseteq 0 .. n /\ n \notin 0 .. m /\ n \in 0 .. n
    BY <1>4, <1>5
  <2>2. <<0 .. m, 0 .. n>> \in StrictSubsetOrdering(S)
    BY <2>1, <1>4, <1>2 DEF StrictSubsetOrdering
  <2> QED BY <2>2, <2>1, <1>4
<1> QED BY <1>4, <1>5

(* Every set of numbers from 0 .. n that is not empty has a greatest one.   *)
LEMMA GreatestUpTo ==
  ASSUME NEW n \in Nat, NEW T, T \subseteq 0 .. n, T # {}
  PROVE  \E m \in T : \A k \in T : m >= k
<1> DEFINE R == {n - m : m \in T}
<1>1. R \subseteq Nat /\ R # {}
  <2>1. PICK k \in T : TRUE
    OBVIOUS
  <2>2. n - k \in R
    OBVIOUS
  <2>3. \A m \in T : n - m \in Nat
    OBVIOUS
  <2> QED BY <2>2, <2>3
<1>2. \E r \in R : \A x \in R : r <= x
  <2> HIDE DEF R
  <2> QED BY <1>1, LeastNat
<1>3. PICK m \in T : \A x \in R : n - m <= x
  BY <1>2
<1>4. \A k \in T : n - m <= n - k
  BY <1>3
<1> QED BY <1>4

(* Induction over 0 .. n, on the set of numbers that have a property.       *)
LEMMA UpTo ==
  ASSUME NEW n \in Nat, NEW T, 0 \in T, \A i \in 1 .. n : i - 1 \in T => i \in T
  PROVE  0 .. n \subseteq T
<1> SUFFICES ASSUME (0 .. n) \ T # {} PROVE FALSE
  OBVIOUS
<1> DEFINE R == (0 .. n) \ T
<1>1. R \subseteq Nat /\ R # {}
  OBVIOUS
<1>2. \E m \in R : \A k \in R : m <= k
  <2> HIDE DEF R
  <2> QED BY <1>1, LeastNat
<1>3. PICK m \in R : \A k \in R : m <= k
  BY <1>2
<1>4. m # 0 /\ m - 1 \notin T
  BY <1>3
<1> QED BY <1>3, <1>4

(* Recursion over 0 .. n from b with the steps g ...                        *)
Recurs(f, n, b, g) ==
    f = [i \in 0 .. n |-> IF i = 0 THEN b ELSE g[i][f[i - 1]]]

(* ... has a result, and it takes its values in S.                          *)
LEMMA RecursExists ==
  ASSUME NEW n \in Nat, NEW S, NEW b \in S, NEW g \in [1 .. n -> [S -> S]]
  PROVE  \E f \in [0 .. n -> S] : Recurs(f, n, b, g)
<1> DEFINE T == {m \in 0 .. n : \E f \in [0 .. m -> S] : Recurs(f, m, b, g)}
<1>1. 0 \in T
  <2>1. [i \in 0 .. 0 |-> b] \in [0 .. 0 -> S] /\ Recurs([i \in 0 .. 0 |-> b], 0, b, g)
    BY DEF Recurs
  <2> QED BY <2>1
<1>2. ASSUME NEW m \in 1 .. n, m - 1 \in T PROVE m \in T
  <2>1. PICK f \in [0 .. m - 1 -> S] : Recurs(f, m - 1, b, g)
    BY <1>2
  <2> DEFINE h == [i \in 0 .. m |-> IF i = m THEN g[m][f[m - 1]] ELSE f[i]]
  <2>2. h \in [0 .. m -> S]
    BY <2>1
  <2>3. ASSUME NEW i \in 0 .. m PROVE h[i] = IF i = 0 THEN b ELSE g[i][h[i - 1]]
    <3>1. CASE i = m
      BY <3>1, <2>1
    <3>2. CASE i # m
      <4>1. i \in 0 .. m - 1 /\ h[i] = f[i] /\ (i # 0 => h[i - 1] = f[i - 1])
        BY <3>2
      <4>2. f[i] = IF i = 0 THEN b ELSE g[i][f[i - 1]]
        BY <2>1, <4>1 DEF Recurs
      <4> QED BY <4>1, <4>2
    <3> QED BY <3>1, <3>2
  <2>4. Recurs(h, m, b, g)
    BY <2>2, <2>3 DEF Recurs
  <2> QED BY <2>2, <2>4
<1>3. 0 .. n \subseteq T
  <2> HIDE DEF T
  <2> QED BY <1>1, <1>2, UpTo
<1> QED BY <1>3

----------------------------------------------------------------------------
(* The order of keys: no key is below itself, and the order is transitive.  *)
LEMMA LessIrreflexive ==
  ASSUME NEW a \in Seq(Nat)
  PROVE  ~Less(a, a)
  BY DEF Less, IsStrictPrefix

(* A prefix agrees with the whole at each of its places.                    *)
LEMMA PrefixAgrees ==
  ASSUME NEW S, NEW a \in Seq(S), NEW b \in Seq(S)
  PROVE  IsPrefix(a, b) <=> Len(a) <= Len(b) /\ \A i \in 1 .. Len(a) : a[i] = b[i]
<1>1. SubSeq(a, 1, Len(a)) = a
  OBVIOUS
<1>2. CASE Len(a) <= Len(b)
  <2>1. SubSeq(b, 1, Len(a)) \in Seq(S) /\ Len(SubSeq(b, 1, Len(a))) = Len(a)
    BY <1>2
  <2>2. \A i \in 1 .. Len(a) : SubSeq(b, 1, Len(a))[i] = b[i]
    BY <1>2
  <2>3. a = SubSeq(b, 1, Len(a)) <=> \A i \in 1 .. Len(a) : a[i] = b[i]
    BY <2>1, <2>2, SeqEqual
  <2> QED BY <1>1, <1>2, <2>3 DEF IsPrefix
<1>3. CASE ~(Len(a) <= Len(b))
  BY <1>3 DEF IsPrefix
<1> QED BY <1>2, <1>3

(* Less in terms of positions: the first place where a and b differ.        *)
LEMMA LessAt ==
  ASSUME NEW a \in Seq(Nat), NEW b \in Seq(Nat)
  PROVE  Less(a, b) <=>
           \E i \in 1 .. Len(b) :
              /\ i <= Len(a) + 1
              /\ \A j \in 1 .. i - 1 : a[j] = b[j]
              /\ i <= Len(a) => a[i] < b[i]
<1> DEFINE At(i) == /\ i <= Len(a) + 1
                    /\ \A j \in 1 .. i - 1 : a[j] = b[j]
                    /\ i <= Len(a) => a[i] < b[i]
<1>1. ASSUME IsStrictPrefix(a, b) PROVE \E i \in 1 .. Len(b) : At(i)
  <2>1. Len(a) <= Len(b) /\ (\A i \in 1 .. Len(a) : a[i] = b[i]) /\ a # b
    BY <1>1, PrefixAgrees DEF IsStrictPrefix
  <2>2. Len(a) # Len(b)
    BY <2>1, SeqEqual
  <2>3. Len(a) + 1 \in 1 .. Len(b)
    BY <2>1, <2>2
  <2> QED BY <2>1, <2>3
<1>2. ASSUME NEW i \in DOMAIN a \cap DOMAIN b, a[i] < b[i], \A j \in 1 .. i - 1 : a[j] = b[j]
      PROVE  i \in 1 .. Len(b) /\ At(i)
  BY <1>2
<1>3. ASSUME NEW i \in 1 .. Len(b), At(i), i = Len(a) + 1 PROVE IsStrictPrefix(a, b)
  BY <1>3, PrefixAgrees DEF IsStrictPrefix
<1>4. ASSUME NEW i \in 1 .. Len(b), At(i), i # Len(a) + 1
      PROVE  i \in DOMAIN a \cap DOMAIN b /\ a[i] < b[i] /\ \A j \in 1 .. i - 1 : a[j] = b[j]
  BY <1>4
<1> HIDE DEF At
<1>5. Less(a, b) => \E i \in 1 .. Len(b) : At(i)
  BY <1>1, <1>2 DEF Less
<1>6. (\E i \in 1 .. Len(b) : At(i)) => Less(a, b)
  BY <1>3, <1>4 DEF Less
<1> QED BY <1>5, <1>6 DEF At

(* The order of keys is transitive.                                         *)
LEMMA LessTransitive ==
  ASSUME NEW a \in Seq(Nat), NEW b \in Seq(Nat), NEW c \in Seq(Nat), Less(a, b), Less(b, c)
  PROVE  Less(a, c)
<1>1. PICK i \in 1 .. Len(b) : /\ i <= Len(a) + 1
                               /\ \A j \in 1 .. i - 1 : a[j] = b[j]
                               /\ i <= Len(a) => a[i] < b[i]
  BY LessAt
<1>2. PICK k \in 1 .. Len(c) : /\ k <= Len(b) + 1
                               /\ \A j \in 1 .. k - 1 : b[j] = c[j]
                               /\ k <= Len(b) => b[k] < c[k]
  BY LessAt
<1>3. /\ \A x \in 1 .. Len(a) : a[x] \in Nat
      /\ \A x \in 1 .. Len(b) : b[x] \in Nat
      /\ \A x \in 1 .. Len(c) : c[x] \in Nat
  BY ElementOfSeq
<1> DEFINE n == IF i < k THEN i ELSE k
<1>4. n \in 1 .. Len(c) /\ n <= Len(a) + 1 /\ n <= i /\ n <= k
  BY <1>1, <1>2
<1>5. \A j \in 1 .. n - 1 : a[j] = c[j]
  <2>1. \A j \in 1 .. n - 1 : j \in 1 .. i - 1 /\ j \in 1 .. k - 1
    BY <1>4
  <2> QED BY <1>1, <1>2, <2>1
<1>6. ASSUME n <= Len(a) PROVE a[n] < c[n]
  <2>1. CASE i < k
    <3>1. b[i] = c[i] /\ a[i] < b[i]
      BY <1>1, <1>2, <1>6, <2>1
    <3> QED BY <2>1, <3>1
  <2>2. CASE i = k
    <3>1. a[i] < b[i] /\ b[i] < c[i] /\ i \in 1 .. Len(a) /\ i \in 1 .. Len(c)
      BY <1>1, <1>2, <1>6, <2>2
    <3> QED BY <1>3, <2>2, <3>1
  <2>3. CASE k < i
    <3>1. a[k] = b[k] /\ b[k] < c[k]
      BY <1>1, <1>2, <2>3
    <3> QED BY <2>3, <3>1
  <2> QED BY <2>1, <2>2, <2>3
<1> HIDE DEF n
<1> QED BY <1>4, <1>5, <1>6, LessAt
----------------------------------------------------------------------------
(* The least member of a set of numbers is its Min.                         *)
LEMMA LeastIsMin ==
  ASSUME NEW T, T \subseteq Nat, NEW i \in T, \A k \in T : i <= k
  PROVE  Min(T) = i
<1>1. Min(T) \in T /\ \A k \in T : Min(T) =< k
  BY DEF Min
<1>2. Min(T) <= i /\ i <= Min(T) /\ Min(T) \in Nat /\ i \in Nat
  BY <1>1
<1> QED BY <1>2

(* The Max of a set of numbers from 1 .. n is its greatest member.          *)
LEMMA MaxUpTo ==
  ASSUME NEW n \in Nat, NEW T, T \subseteq 1 .. n, T # {}
  PROVE  Max(T) \in T /\ \A k \in T : Max(T) >= k
<1>1. \E m \in T : \A k \in T : m >= k
  <2>1. T \subseteq 0 .. n
    OBVIOUS
  <2> QED BY <2>1, GreatestUpTo
<1> QED BY <1>1 DEF Max

----------------------------------------------------------------------------
(* Sequences.  A part of a concatenation.                                   *)
LEMMA Middle ==
  ASSUME NEW S, NEW a \in Seq(S), NEW b \in Seq(S), NEW c \in Seq(S)
  PROVE  SubSeq(a \o b \o c, Len(a) + 1, Len(a) + Len(b)) = b
<1> DEFINE w == a \o b \o c
           m == Len(a) + 1
           n == Len(a) + Len(b)
<1>1. Len(a) \in Nat /\ Len(b) \in Nat /\ Len(c) \in Nat
  OBVIOUS
<1>2. w \in Seq(S) /\ Len(w) = Len(a) + Len(b) + Len(c)
  BY ConcatProperties
<1>3. ASSUME NEW i \in 1 .. Len(b) PROVE w[m + i - 1] = b[i]
  <2>1. m + i - 1 \in 1 .. Len(a) + Len(b) /\ ~(m + i - 1 <= Len(a)) /\ m + i - 1 - Len(a) = i
    BY <1>1
  <2>2. w[m + i - 1] = (a \o b)[m + i - 1]
    BY <1>1, <2>1, ConcatProperties
  <2>3. (a \o b)[m + i - 1] = b[i]
    <3> DEFINE k == m + i - 1
    <3>1. k \in 1 .. Len(a) + Len(b) /\ ~(k <= Len(a)) /\ k - Len(a) = i
      BY <2>1
    <3> HIDE DEF m, k
    <3>2. (a \o b)[k] = b[k - Len(a)]
      BY <3>1, ConcatProperties
    <3> QED BY <3>1, <3>2 DEF k
  <2> QED BY <2>2, <2>3
<1>4. \A i \in m .. n : w[i] \in S
  BY <1>1, <1>2
<1>5. /\ SubSeq(w, m, n) \in Seq(S)
      /\ Len(SubSeq(w, m, n)) = Len(b)
      /\ \A i \in 1 .. Len(b) : SubSeq(w, m, n)[i] = w[m + i - 1]
  <2>1. m \in Int /\ n \in Int /\ (m <= n => n - m + 1 = Len(b)) /\ (~(m <= n) => Len(b) = 0)
        /\ n - m + 1 = Len(b)
    BY <1>1
  <2> HIDE DEF w, m, n
  <2> QED BY <1>4, <2>1, SubSeqProperties
<1> HIDE DEF w, m, n
<1>6. SubSeq(w, m, n) = b
  BY <1>3, <1>5, SeqEqual
<1> QED BY <1>6 DEF w, m, n

(* A front part of a concatenation.                                         *)
LEMMA FrontOfConcat ==
  ASSUME NEW S, NEW a \in Seq(S), NEW b \in Seq(S), NEW n \in 0 .. Len(a) + Len(b)
  PROVE  SubSeq(a \o b, 1, n) = IF n <= Len(a) THEN SubSeq(a, 1, n)
                                               ELSE a \o SubSeq(b, 1, n - Len(a))
<1>1. Len(a) \in Nat /\ Len(b) \in Nat /\ a \o b \in Seq(S) /\ Len(a \o b) = Len(a) + Len(b)
      /\ n \in Nat
  OBVIOUS
<1>2. /\ SubSeq(a \o b, 1, n) \in Seq(S) /\ Len(SubSeq(a \o b, 1, n)) = n
      /\ \A i \in 1 .. n : SubSeq(a \o b, 1, n)[i] = (a \o b)[i]
  BY <1>1
<1>3. CASE n <= Len(a)
  <2>1. /\ SubSeq(a, 1, n) \in Seq(S) /\ Len(SubSeq(a, 1, n)) = n
        /\ \A i \in 1 .. n : SubSeq(a, 1, n)[i] = a[i]
    BY <1>1, <1>3
  <2>2. \A i \in 1 .. n : (a \o b)[i] = a[i]
    BY <1>1, <1>3
  <2> QED BY <1>2, <1>3, <2>1, <2>2, SeqEqual
<1>4. CASE ~(n <= Len(a))
  <2> DEFINE k == n - Len(a)
  <2>1. k \in 1 .. Len(b) /\ n = Len(a) + k
    BY <1>1, <1>4
  <2> HIDE DEF k
  <2>2. /\ SubSeq(b, 1, k) \in Seq(S) /\ Len(SubSeq(b, 1, k)) = k
        /\ \A i \in 1 .. k : SubSeq(b, 1, k)[i] = b[i]
    BY <1>1, <2>1
  <2> DEFINE f == SubSeq(b, 1, k)
  <2>3. a \o f \in Seq(S) /\ Len(a \o f) = n
        /\ \A i \in 1 .. n : (a \o f)[i] = IF i <= Len(a) THEN a[i] ELSE f[i - Len(a)]
    <3> HIDE DEF f
    <3> QED BY <1>1, <2>1, <2>2, ConcatProperties DEF f
  <2>4. ASSUME NEW i \in 1 .. n PROVE (a \o f)[i] = (a \o b)[i]
    <3>1. i <= Len(a) \/ i - Len(a) \in 1 .. k
      BY <1>1, <2>1
    <3>2. (a \o b)[i] = IF i <= Len(a) THEN a[i] ELSE b[i - Len(a)]
      BY <1>1, ConcatProperties
    <3> HIDE DEF f
    <3> QED BY <2>2, <2>3, <3>1, <3>2 DEF f
  <2>5. SubSeq(a \o b, 1, n) = a \o f
    <3> HIDE DEF f
    <3> QED BY <1>2, <2>3, <2>4, SeqEqual
  <2> QED BY <1>4, <2>5 DEF k
<1> QED BY <1>3, <1>4

(* A concatenation is cut where its first part ends.                        *)
LEMMA BackOfConcat ==
  ASSUME NEW S, NEW a \in Seq(S), NEW b \in Seq(S)
  PROVE  /\ SubSeq(a \o b, 1, Len(a)) = a
         /\ SubSeq(a \o b, Len(a) + 1, Len(a \o b)) = b
<1>1. Len(a) \in 0 .. Len(a) + Len(b) /\ SubSeq(a, 1, Len(a)) = a
      /\ Len(a \o b) = Len(a) + Len(b)
  OBVIOUS
<1>2. SubSeq(a \o b, 1, Len(a)) = a
  BY <1>1, FrontOfConcat
<1>3. a \o b \o << >> = a \o b
  BY ConcatProperties, ConcatEmptySeq
<1>4. SubSeq(a \o b \o << >>, Len(a) + 1, Len(a) + Len(b)) = b
  BY Middle, EmptySeq
<1> QED BY <1>1, <1>2, <1>3, <1>4

(* Strict prefixes are shorter, and front parts.                            *)
LEMMA StrictPrefixes ==
  ASSUME NEW S, NEW a \in Seq(S), NEW b \in Seq(S)
  PROVE  IsStrictPrefix(a, b) <=> Len(a) < Len(b) /\ a = SubSeq(b, 1, Len(a))
<1>1. SubSeq(a, 1, Len(a)) = a /\ SubSeq(b, 1, Len(b)) = b
  OBVIOUS
<1> QED BY <1>1 DEF IsStrictPrefix, IsPrefix

(* A concatenation of two.                                                  *)
LEMMA Joined ==
  ASSUME NEW S, NEW a \in Seq(S), NEW b \in Seq(S)
  PROVE  a \o b \in Seq(S) /\ Len(a \o b) = Len(a) + Len(b)
  OBVIOUS

(* The parts of a concatenation of five.                                    *)
LEMMA FiveJoined ==
  ASSUME NEW S, NEW a \in Seq(S), NEW b \in Seq(S), NEW c \in Seq(S), NEW d \in Seq(S),
         NEW e \in Seq(S)
  PROVE  /\ a \o b \in Seq(S) /\ a \o b \o c \in Seq(S) /\ a \o b \o c \o d \in Seq(S)
         /\ a \o b \o c \o d \o e \in Seq(S)
         /\ Len(a \o b) = Len(a) + Len(b)
         /\ Len(a \o b \o c) = Len(a) + Len(b) + Len(c)
         /\ Len(a \o b \o c \o d) = Len(a) + Len(b) + Len(c) + Len(d)
         /\ Len(a \o b \o c \o d \o e) = Len(a) + Len(b) + Len(c) + Len(d) + Len(e)
<1>1. a \o b \in Seq(S) /\ Len(a \o b) = Len(a) + Len(b)
  OBVIOUS
<1>2. a \o b \o c \in Seq(S) /\ Len(a \o b \o c) = Len(a \o b) + Len(c)
  BY <1>1
<1>3. a \o b \o c \o d \in Seq(S) /\ Len(a \o b \o c \o d) = Len(a \o b \o c) + Len(d)
  BY <1>2
<1>4. /\ a \o b \o c \o d \o e \in Seq(S)
      /\ Len(a \o b \o c \o d \o e) = Len(a \o b \o c \o d) + Len(e)
  BY <1>3
<1> QED BY <1>1, <1>2, <1>3, <1>4

(* A part of the front of a concatenation.                                  *)
LEMMA PartOfFront ==
  ASSUME NEW S, NEW a \in Seq(S), NEW b \in Seq(S), NEW m \in Nat \ {0}, NEW n \in Nat,
         m - 1 <= n, n <= Len(a)
  PROVE  SubSeq(a \o b, m, n) = SubSeq(a, m, n)
<1>1. Len(a) \in Nat /\ Len(b) \in Nat /\ a \o b \in Seq(S) /\ Len(a \o b) = Len(a) + Len(b)
  OBVIOUS
<1>2. \A i \in 1 .. Len(a) : (a \o b)[i] = a[i]
  BY <1>1
<1> DEFINE w == a \o b
           k == n - m + 1
<1>3. k \in Nat /\ \A i \in 1 .. k : m + i - 1 \in 1 .. Len(a) /\ m + i - 1 \in 1 .. Len(w)
  BY <1>1
<1>4. /\ SubSeq(a, m, n) \in Seq(S) /\ Len(SubSeq(a, m, n)) = k
      /\ \A i \in 1 .. k : SubSeq(a, m, n)[i] = a[m + i - 1]
  BY <1>1
<1>5. /\ SubSeq(w, m, n) \in Seq(S) /\ Len(SubSeq(w, m, n)) = k
      /\ \A i \in 1 .. k : SubSeq(w, m, n)[i] = w[m + i - 1]
  <2>1. w \in Seq(S) /\ n <= Len(w)
    BY <1>1
  <2> HIDE DEF w
  <2> QED BY <2>1
<1>6. \A i \in 1 .. k : SubSeq(w, m, n)[i] = SubSeq(a, m, n)[i]
  <2> HIDE DEF k
  <2> QED BY <1>2, <1>3, <1>4, <1>5
<1> HIDE DEF w, k
<1>7. SubSeq(w, m, n) = SubSeq(a, m, n)
  BY <1>3, <1>4, <1>5, <1>6, SeqEqual
<1> QED BY <1>7 DEF w

(* Where the parts of a concatenation of five are.                          *)
Parts(u, a, b, c, d, e) ==
    /\ SubSeq(u, 1, Len(a)) = a
    /\ SubSeq(u, Len(a) + 1, Len(a) + Len(b)) = b
    /\ SubSeq(u, Len(a) + Len(b) + 1, Len(a) + Len(b) + Len(c)) = c
    /\ SubSeq(u, Len(a) + Len(b) + Len(c) + 1, Len(a) + Len(b) + Len(c) + Len(d)) = d
    /\ SubSeq(u, Len(a) + Len(b) + Len(c) + Len(d) + 1, Len(u)) = e

(* The parts are there.                                                    *)
LEMMA FiveParts ==
  ASSUME NEW S, NEW a \in Seq(S), NEW b \in Seq(S), NEW c \in Seq(S), NEW d \in Seq(S),
         NEW e \in Seq(S), NEW u, u = a \o b \o c \o d \o e
  PROVE  Parts(u, a, b, c, d, e)
<1> DEFINE p2 == a \o b
           p3 == p2 \o c
           p4 == p3 \o d
           w == p4 \o e
           la == Len(a)
           lb == la + Len(b)
           lc == lb + Len(c)
           ld == lc + Len(d)
<1>1. /\ p2 \in Seq(S) /\ p3 \in Seq(S) /\ p4 \in Seq(S)
      /\ Len(p2) = lb /\ Len(p3) = lc /\ Len(p4) = ld
  <2>1. p2 \in Seq(S) /\ Len(p2) = lb
    OBVIOUS
  <2> HIDE DEF p2, lb
  <2>2. p3 \in Seq(S) /\ Len(p3) = lc
    BY <2>1, Joined
  <2> HIDE DEF p3, lc
  <2>3. p4 \in Seq(S) /\ Len(p4) = ld
    BY <2>2, Joined
  <2> QED BY <2>1, <2>2, <2>3
<1>2. /\ la \in Nat /\ lb \in Nat /\ lc \in Nat /\ ld \in Nat
      /\ la <= lb /\ lb <= lc /\ lc <= ld
  OBVIOUS
<1>3. SubSeq(p2, 1, la) = a
  BY BackOfConcat
<1>4. SubSeq(p3, la + 1, lb) = b
  BY Middle
<1> HIDE DEF p2
<1>5. SubSeq(p3, 1, la) = a
  <2>1. SubSeq(p3, 1, la) = SubSeq(p2, 1, la)
    <3> HIDE DEF la, lb
    <3> QED BY <1>1, <1>2, PartOfFront DEF p3
  <2> QED BY <1>3, <2>1
<1>6. SubSeq(p4, lb + 1, lc) = c
  <2>1. SubSeq(p2 \o c \o d, Len(p2) + 1, Len(p2) + Len(c)) = c
    BY <1>1, Middle
  <2> QED BY <1>1, <2>1
<1> HIDE DEF p3
<1>7. SubSeq(p4, 1, la) = a /\ SubSeq(p4, la + 1, lb) = b
  <2>1. SubSeq(p4, 1, la) = SubSeq(p3, 1, la) /\ SubSeq(p4, la + 1, lb) = SubSeq(p3, la + 1, lb)
    <3> HIDE DEF la, lb, lc
    <3> QED BY <1>1, <1>2, PartOfFront DEF p4
  <2> QED BY <1>4, <1>5, <2>1
<1>8. SubSeq(w, lc + 1, ld) = d
  <2>1. SubSeq(p3 \o d \o e, Len(p3) + 1, Len(p3) + Len(d)) = d
    BY <1>1, Middle
  <2> QED BY <1>1, <2>1
<1> HIDE DEF p4
<1>9. SubSeq(w, 1, la) = a /\ SubSeq(w, la + 1, lb) = b /\ SubSeq(w, lb + 1, lc) = c
  <2>1. /\ SubSeq(w, 1, la) = SubSeq(p4, 1, la) /\ SubSeq(w, la + 1, lb) = SubSeq(p4, la + 1, lb)
        /\ SubSeq(w, lb + 1, lc) = SubSeq(p4, lb + 1, lc)
    <3> HIDE DEF la, lb, lc, ld
    <3> QED BY <1>1, <1>2, PartOfFront DEF w
  <2> QED BY <1>6, <1>7, <2>1
<1>10. SubSeq(w, ld + 1, Len(w)) = e
  <2>1. SubSeq(p4 \o e, Len(p4) + 1, Len(p4 \o e)) = e
    BY <1>1, BackOfConcat
  <2> QED BY <1>1, <2>1
<1>11. u = w
  BY DEF p2, p3, p4
<1> HIDE DEF w
<1> QED BY <1>8, <1>9, <1>10, <1>11 DEF Parts

(* A part of a sequence, by its place and length.                           *)
LEMMA PartAt ==
  ASSUME NEW S, NEW a \in Seq(S), NEW m \in Nat, NEW n \in Nat, m + n <= Len(a)
  PROVE  /\ SubSeq(a, m + 1, m + n) \in Seq(S) /\ Len(SubSeq(a, m + 1, m + n)) = n
         /\ \A i \in 1 .. n : SubSeq(a, m + 1, m + n)[i] = a[m + i]
<1> DEFINE x == SubSeq(a, m + 1, m + n)
<1>1. Len(a) \in Nat /\ (m + n) - (m + 1) + 1 = n
  OBVIOUS
<1>2. x \in Seq(S) /\ Len(x) = n /\ \A i \in 1 .. n : x[i] = a[(m + 1) + i - 1]
  BY <1>1
<1>3. \A i \in 1 .. n : (m + 1) + i - 1 = m + i
  OBVIOUS
<1> HIDE DEF x
<1>4. \A i \in 1 .. n : x[i] = a[m + i]
  BY <1>2, <1>3
<1> QED BY <1>2, <1>4 DEF x

(* A part of a front part.                                                  *)
LEMMA PartOfPrefix ==
  ASSUME NEW S, NEW a \in Seq(S), NEW k \in Nat, NEW l \in Nat, k <= l, l <= Len(a),
         NEW p, p = SubSeq(a, 1, l)
  PROVE  SubSeq(a, k + 1, l) = SubSeq(p, k + 1, l)
<1> DEFINE m == l - k
           x == SubSeq(a, k + 1, l)
           y == SubSeq(p, k + 1, l)
<1>1. m \in Nat /\ k + m = l /\ 0 + l <= Len(a) /\ 0 + 1 = 1 /\ 0 + l = l
  OBVIOUS
<1>2. p \in Seq(S) /\ Len(p) = l /\ \A i \in 1 .. l : p[i] = a[i]
  <2>1. /\ SubSeq(a, 0 + 1, 0 + l) \in Seq(S) /\ Len(SubSeq(a, 0 + 1, 0 + l)) = l
        /\ \A i \in 1 .. l : SubSeq(a, 0 + 1, 0 + l)[i] = a[0 + i]
    BY <1>1, PartAt
  <2> QED BY <1>1, <2>1
<1> HIDE DEF m
<1>3. x \in Seq(S) /\ Len(x) = m /\ \A i \in 1 .. m : x[i] = a[k + i]
  <2>1. /\ SubSeq(a, k + 1, k + m) \in Seq(S) /\ Len(SubSeq(a, k + 1, k + m)) = m
        /\ \A i \in 1 .. m : SubSeq(a, k + 1, k + m)[i] = a[k + i]
    BY <1>1, PartAt
  <2> QED BY <1>1, <2>1
<1>4. y \in Seq(S) /\ Len(y) = m /\ \A i \in 1 .. m : y[i] = p[k + i]
  <2>1. /\ SubSeq(p, k + 1, k + m) \in Seq(S) /\ Len(SubSeq(p, k + 1, k + m)) = m
        /\ \A i \in 1 .. m : SubSeq(p, k + 1, k + m)[i] = p[k + i]
    BY <1>1, <1>2, PartAt
  <2> QED BY <1>1, <2>1
<1>5. \A i \in 1 .. m : p[k + i] = a[k + i]
  BY <1>1, <1>2
<1> HIDE DEF x, y
<1>6. x = y
  BY <1>3, <1>4, <1>5, SeqEqual
<1> QED BY <1>6 DEF x, y

(* What is behind the front of a concatenation.                             *)
LEMMA AfterFront ==
  ASSUME NEW S, NEW a \in Seq(S), NEW b \in Seq(S)
  PROVE  \A i \in 1 .. Len(b) : b[0 + i] = (a \o b)[Len(a) + i]
<1>1. Len(a) \in Nat /\ Len(b) \in Nat
  OBVIOUS
<1>2. ASSUME NEW i \in 1 .. Len(b) PROVE b[0 + i] = (a \o b)[Len(a) + i]
  <2> DEFINE k == Len(a) + i
  <2>1. k \in 1 .. Len(a) + Len(b) /\ ~(k <= Len(a)) /\ k - Len(a) = i /\ 0 + i = i
    BY <1>1
  <2> HIDE DEF k
  <2>2. (a \o b)[k] = b[k - Len(a)]
    BY <2>1, ConcatProperties
  <2> QED BY <2>1, <2>2 DEF k
<1> QED BY <1>2

(* One element more of a front part.                                        *)
LEMMA LongerPrefix ==
  ASSUME NEW S, NEW a \in Seq(S), NEW i \in 1 .. Len(a)
  PROVE  Append(SubSeq(a, 1, i - 1), a[i]) = SubSeq(a, 1, i)
<1> DEFINE k == i - 1
           p == SubSeq(a, 1, k)
           q == SubSeq(a, 1, i)
           x == Append(p, a[i])
<1>1. k \in Nat /\ i \in Nat /\ k + 1 = i /\ i <= Len(a) /\ a[i] \in S
      /\ 0 + 1 = 1 /\ 0 + k = k /\ 0 + i = i /\ 0 + k <= Len(a) /\ 0 + i <= Len(a)
  OBVIOUS
<1> HIDE DEF k
<1>2. p \in Seq(S) /\ Len(p) = k /\ \A j \in 1 .. k : p[j] = a[j]
  <2>1. /\ SubSeq(a, 0 + 1, 0 + k) \in Seq(S) /\ Len(SubSeq(a, 0 + 1, 0 + k)) = k
        /\ \A j \in 1 .. k : SubSeq(a, 0 + 1, 0 + k)[j] = a[0 + j]
    BY <1>1, PartAt
  <2> QED BY <1>1, <2>1
<1>3. q \in Seq(S) /\ Len(q) = i /\ \A j \in 1 .. i : q[j] = a[j]
  <2>1. /\ SubSeq(a, 0 + 1, 0 + i) \in Seq(S) /\ Len(SubSeq(a, 0 + 1, 0 + i)) = i
        /\ \A j \in 1 .. i : SubSeq(a, 0 + 1, 0 + i)[j] = a[0 + j]
    BY <1>1, PartAt
  <2> QED BY <1>1, <2>1
<1> HIDE DEF p, q
<1>4. x \in Seq(S) /\ Len(x) = i /\ \A j \in 1 .. i : x[j] = IF j <= k THEN p[j] ELSE a[i]
  BY <1>1, <1>2, AppendProperties
<1> HIDE DEF x
<1>5. \A j \in 1 .. i : x[j] = q[j]
  BY <1>1, <1>2, <1>3, <1>4
<1>6. x = q
  BY <1>3, <1>4, <1>5, SeqEqual
<1> QED BY <1>6 DEF x, p, q, k

(* A front part.                                                            *)
LEMMA FrontPart ==
  ASSUME NEW S, NEW a \in Seq(S), NEW n \in Nat, n <= Len(a)
  PROVE  /\ SubSeq(a, 1, n) \in Seq(S) /\ Len(SubSeq(a, 1, n)) = n
         /\ \A i \in 1 .. n : SubSeq(a, 1, n)[i] = a[i]
<1>1. /\ SubSeq(a, 0 + 1, 0 + n) \in Seq(S) /\ Len(SubSeq(a, 0 + 1, 0 + n)) = n
      /\ \A i \in 1 .. n : SubSeq(a, 0 + 1, 0 + n)[i] = a[0 + i]
  BY PartAt
<1>2. 0 + 1 = 1 /\ 0 + n = n /\ \A i \in 1 .. n : 0 + i = i
  OBVIOUS
<1> QED BY <1>1, <1>2

(* A front part of a front part.                                            *)
LEMMA FrontOfFront ==
  ASSUME NEW S, NEW a \in Seq(S), NEW l \in Nat, NEW n \in Nat, n <= l, l <= Len(a)
  PROVE  SubSeq(SubSeq(a, 1, l), 1, n) = SubSeq(a, 1, n)
<1> DEFINE p == SubSeq(a, 1, l)
           x == SubSeq(p, 1, n)
           y == SubSeq(a, 1, n)
<1>1. p \in Seq(S) /\ Len(p) = l /\ \A i \in 1 .. l : p[i] = a[i]
  BY FrontPart
<1> HIDE DEF p
<1>2. x \in Seq(S) /\ Len(x) = n /\ \A i \in 1 .. n : x[i] = p[i]
  BY <1>1, FrontPart
<1>3. n <= Len(a)
  OBVIOUS
<1>4. y \in Seq(S) /\ Len(y) = n /\ \A i \in 1 .. n : y[i] = a[i]
  BY <1>3, FrontPart
<1> HIDE DEF x, y
<1>5. \A i \in 1 .. n : x[i] = y[i]
  BY <1>1, <1>2, <1>4
<1>6. x = y
  BY <1>2, <1>4, <1>5, SeqEqual
<1> QED BY <1>6 DEF x, y, p

(* A front part that has all of the first of two sequences.                 *)
LEMMA FrontBeyond ==
  ASSUME NEW S, NEW a \in Seq(S), NEW b \in Seq(S), NEW k \in 0 .. Len(b)
  PROVE  SubSeq(a \o b, 1, Len(a) + k) = a \o SubSeq(b, 1, k)
<1>1. Len(a) \in Nat /\ Len(b) \in Nat /\ Len(a) + k \in 0 .. Len(a) + Len(b)
      /\ (Len(a) + k) - Len(a) = k /\ (Len(a) + k <= Len(a) => k = 0)
  OBVIOUS
<1> DEFINE n == Len(a) + k
<1>2. CASE k = 0
  <2>1. SubSeq(a \o b, 1, Len(a)) = a /\ a \o << >> = a
    BY BackOfConcat, ConcatEmptySeq
  <2>2. SubSeq(b, 1, k) = << >> /\ n = Len(a)
    BY <1>1, <1>2
  <2> QED BY <2>1, <2>2
<1>3. CASE k # 0
  <2>1. n \in 0 .. Len(a) + Len(b) /\ ~(n <= Len(a)) /\ n - Len(a) = k
    BY <1>1, <1>3
  <2> HIDE DEF n
  <2>2. SubSeq(a \o b, 1, n) = a \o SubSeq(b, 1, n - Len(a))
    BY <2>1, FrontOfConcat
  <2> QED BY <2>1, <2>2 DEF n
<1> QED BY <1>2, <1>3

(* A sequence is its front and the rest.                                    *)
LEMMA FrontAndRest ==
  ASSUME NEW S, NEW a \in Seq(S), NEW n \in 0 .. Len(a)
  PROVE  /\ SubSeq(a, 1, n) \in Seq(S) /\ Len(SubSeq(a, 1, n)) = n
         /\ SubSeq(a, n + 1, Len(a)) \in Seq(S) /\ Len(SubSeq(a, n + 1, Len(a))) = Len(a) - n
         /\ a = SubSeq(a, 1, n) \o SubSeq(a, n + 1, Len(a))
<1> DEFINE l == Len(a)
           k == l - n
           x == SubSeq(a, 1, n)
           y == SubSeq(a, n + 1, l)
<1>1. l \in Nat /\ n \in Nat /\ n <= l /\ k \in Nat /\ n + k = l
  OBVIOUS
<1>2. x \in Seq(S) /\ Len(x) = n /\ \A i \in 1 .. n : x[i] = a[i]
  BY <1>1, FrontPart
<1>3. y \in Seq(S) /\ Len(y) = k /\ \A i \in 1 .. k : y[i] = a[n + i]
  <2>1. /\ SubSeq(a, n + 1, n + k) \in Seq(S) /\ Len(SubSeq(a, n + 1, n + k)) = k
        /\ \A i \in 1 .. k : SubSeq(a, n + 1, n + k)[i] = a[n + i]
    <3>1. n + k <= Len(a)
      BY <1>1
    <3> HIDE DEF k
    <3> QED BY <1>1, <3>1, PartAt
  <2> QED BY <1>1, <2>1
<1> HIDE DEF x, y, k
<1>4. x \o y \in Seq(S) /\ Len(x \o y) = l
  BY <1>1, <1>2, <1>3, Joined
<1>5. \A i \in 1 .. l : (x \o y)[i] = a[i]
  <2> SUFFICES ASSUME NEW i \in 1 .. l
               PROVE  (x \o y)[i] = a[i]
    OBVIOUS
  <2> HIDE DEF l
  <2>1. CASE i <= n
    <3>1. (x \o y)[i] = x[i]
      BY <1>1, <1>2, <1>3, <2>1, ConcatProperties
    <3> QED BY <1>1, <1>2, <2>1, <3>1
  <2>2. CASE n < i
    <3>1. i - n \in 1 .. k /\ n + (i - n) = i
      BY <1>1, <2>2
    <3>2. (x \o y)[i] = y[i - n]
      BY <1>1, <1>2, <1>3, <2>2, ConcatProperties
    <3> QED BY <1>3, <3>1, <3>2
  <2>3. i <= n \/ n < i
    BY <1>1
  <2> QED BY <2>1, <2>2, <2>3
<1>6. x \o y = a
  BY <1>4, <1>5, SeqEqual
<1> QED BY <1>1, <1>2, <1>3, <1>6 DEF x, y, k

(* ... also when it is continued.                                           *)
LEMMA FrontAndMore ==
  ASSUME NEW S, NEW a \in Seq(S), NEW b \in Seq(S), NEW n \in 0 .. Len(a)
  PROVE  /\ SubSeq(a \o b, 1, n) = SubSeq(a, 1, n)
         /\ SubSeq(a \o b, n + 1, Len(a \o b)) = SubSeq(a, n + 1, Len(a)) \o b
<1> DEFINE x == SubSeq(a, 1, n)
           y == SubSeq(a, n + 1, Len(a))
<1>1. x \in Seq(S) /\ Len(x) = n /\ y \in Seq(S) /\ a = x \o y
  BY FrontAndRest
<1> HIDE DEF x, y
<1>2. y \o b \in Seq(S)
  BY <1>1, Joined
<1>3. a \o b = x \o (y \o b)
  BY <1>1, ConcatAssociative
<1>4. /\ SubSeq(x \o (y \o b), 1, Len(x)) = x
      /\ SubSeq(x \o (y \o b), Len(x) + 1, Len(x \o (y \o b))) = y \o b
  BY <1>1, <1>2, BackOfConcat
<1> QED BY <1>1, <1>3, <1>4 DEF x, y

(* A sequence that grows by a part each time starts with what it was.       *)
LEMMA Growing ==
  ASSUME NEW S, NEW n \in Nat, NEW f \in [0 .. n -> Seq(S)], NEW part \in [1 .. n -> Seq(S)],
         \A i \in 1 .. n : f[i] = f[i - 1] \o part[i], NEW m \in 0 .. n
  PROVE  \A i \in 0 .. n :
            m <= i => Len(f[m]) <= Len(f[i]) /\ SubSeq(f[i], 1, Len(f[m])) = f[m]
<1> DEFINE lm == Len(f[m])
           Q(i) == m <= i => lm <= Len(f[i]) /\ SubSeq(f[i], 1, lm) = f[m]
           T == {i \in 0 .. n : Q(i)}
<1>1. f[m] \in Seq(S) /\ lm \in Nat
  BY LenProperties
<1>2. Q(m)
  <2>1. SubSeq(f[m], 1, lm) = f[m]
    BY <1>1
  <2> QED BY <1>1, <2>1
<1>3. 0 \in T
  <2>1. CASE m = 0
    <3>1. Q(0)
      BY <1>2, <2>1
    <3> QED BY <3>1
  <2>2. CASE m # 0
    <3>1. ~(m <= 0)
      BY <2>2
    <3> QED BY <3>1
  <2> QED BY <2>1, <2>2
<1>4. ASSUME NEW i \in 1 .. n, i - 1 \in T PROVE i \in T
  <2> DEFINE x == f[i - 1]
             e == part[i]
             w == x \o e
  <2>1. x \in Seq(S) /\ e \in Seq(S) /\ f[i] = w
    <3>1. i - 1 \in 0 .. n
      OBVIOUS
    <3> QED BY <3>1
  <2>2. CASE m <= i - 1
    <3>1. lm <= Len(x) /\ SubSeq(x, 1, lm) = f[m]
      BY <1>4, <2>2
    <3> HIDE DEF x, e, lm
    <3>2. Len(x) \in Nat /\ Len(e) \in Nat /\ Len(w) = Len(x) + Len(e)
      BY <2>1, Joined, LenProperties
    <3>3. lm <= Len(w)
      <4> HIDE DEF w
      <4> QED BY <1>1, <3>1, <3>2
    <3>4. SubSeq(w, 1, lm) = SubSeq(x, 1, lm)
      <4>1. 1 \in Nat \ {0} /\ 1 - 1 <= lm
        BY <1>1
      <4> QED BY <1>1, <2>1, <3>1, <4>1, PartOfFront
    <3> HIDE DEF w
    <3>5. Q(i)
      BY <2>1, <3>1, <3>3, <3>4
    <3> QED BY <3>5
  <2>3. CASE ~(m <= i - 1)
    <3>1. CASE m = i
      <4>1. Q(i)
        BY <1>2, <3>1
      <4> QED BY <4>1
    <3>2. CASE m # i
      <4>1. ~(m <= i)
        BY <2>3, <3>2
      <4> QED BY <4>1
    <3> QED BY <3>1, <3>2
  <2> QED BY <2>2, <2>3
<1>5. 0 .. n \subseteq T
  <2> HIDE DEF T
  <2> QED BY <1>3, <1>4, UpTo
<1> QED BY <1>5

(* One element in front of a sequence.                                      *)
LEMMA PushedFront ==
  ASSUME NEW S, NEW c \in Seq(S), NEW p \in S
  PROVE  /\ (<< p >> \o c)[1] = p /\ Tail(<< p >> \o c) = c /\ Len(<< p >> \o c) = 1 + Len(c)
<1>1. << p >> \in Seq(S) /\ Len(<< p >>) = 1 /\ << p >>[1] = p /\ Len(c) \in Nat
  OBVIOUS
<1> DEFINE w == << p >> \o c
<1>2. w \in Seq(S) /\ Len(w) = 1 + Len(c)
  BY <1>1, Joined
<1>3. w[1] = p
  <2>1. 1 \in 1 .. Len(<< p >>) + Len(c) /\ 1 <= Len(<< p >>)
    BY <1>1
  <2>2. w[1] = << p >>[1]
    BY <1>1, <2>1, ConcatProperties
  <2> QED BY <1>1, <2>2
<1>4. Tail(w) = SubSeq(w, 2, Len(w))
  <2> HIDE DEF w
  <2>1. w # << >>
    BY <1>2
  <2>2. Tail(w) \in Seq(S) /\ Len(Tail(w)) = Len(c) /\ \A i \in 1 .. Len(c) : Tail(w)[i] = w[i + 1]
    BY <1>1, <1>2, <2>1
  <2>3. /\ SubSeq(w, 1 + 1, 1 + Len(c)) \in Seq(S) /\ Len(SubSeq(w, 1 + 1, 1 + Len(c))) = Len(c)
        /\ \A i \in 1 .. Len(c) : SubSeq(w, 1 + 1, 1 + Len(c))[i] = w[1 + i]
    BY <1>1, <1>2, PartAt
  <2>4. SubSeq(w, 1 + 1, 1 + Len(c)) = SubSeq(w, 2, Len(w)) /\ \A i \in 1 .. Len(c) : 1 + i = i + 1
    BY <1>2
  <2> QED BY <2>2, <2>3, <2>4, SeqEqual
<1>5. SubSeq(w, Len(<< p >>) + 1, Len(w)) = c
  BY <1>1, BackOfConcat
<1>6. Tail(w) = c
  <2> HIDE DEF w
  <2> QED BY <1>1, <1>4, <1>5
<1> QED BY <1>2, <1>3, <1>6

----------------------------------------------------------------------------
(* Integers as digits.  Cutting off digits divides by the base each time.   *)
LEMMA ShiftedSteps ==
  ASSUME NEW n \in Nat, NEW width \in Nat, NEW base \in Nat \ {0}
  PROVE  /\ Shifted(n, width, base) \in [0 .. width -> Nat]
         /\ Shifted(n, width, base)[0] = n
         /\ \A i \in 1 .. width :
              Shifted(n, width, base)[i] = Shifted(n, width, base)[i - 1] \div base
<1> DEFINE g == [i \in 1 .. width |-> [x \in Nat |-> x \div base]]
           left == Shifted(n, width, base)
<1>1. g \in [1 .. width -> [Nat -> Nat]]
  OBVIOUS
<1>2. PICK f \in [0 .. width -> Nat] : Recurs(f, width, n, g)
  <2> HIDE DEF g
  <2> QED BY <1>1, RecursExists
<1>3. f = [i \in 0 .. width |-> IF i = 0 THEN n ELSE f[i - 1] \div base]
  <2>1. ASSUME NEW i \in 0 .. width
        PROVE  (IF i = 0 THEN n ELSE g[i][f[i - 1]]) = IF i = 0 THEN n ELSE f[i - 1] \div base
    BY <1>2
  <2> HIDE DEF g
  <2> QED BY <1>2, <2>1 DEF Recurs
<1>4. left = CHOOSE l : l = [i \in 0 .. width |-> IF i = 0 THEN n ELSE l[i - 1] \div base]
  BY DEF Shifted
<1>5. left = [i \in 0 .. width |-> IF i = 0 THEN n ELSE left[i - 1] \div base]
  <2> HIDE DEF left
  <2> QED BY <1>3, <1>4
<1> DEFINE T == {i \in 0 .. width : left[i] \in Nat}
<1>6. 0 \in T /\ \A i \in 1 .. width : i - 1 \in T => i \in T
  <2>1. ASSUME NEW x \in Nat PROVE x \div base \in Nat
    OBVIOUS
  <2> HIDE DEF left
  <2>2. left[0] = n /\ \A i \in 1 .. width : left[i] = left[i - 1] \div base
    BY <1>5
  <2>3. ASSUME NEW i \in 1 .. width, left[i - 1] \in Nat PROVE left[i] \in Nat
    BY <2>1, <2>2, <2>3
  <2> QED BY <2>2, <2>3
<1>7. 0 .. width \subseteq T
  <2> HIDE DEF T
  <2> QED BY <1>6, UpTo
<1>8. /\ left \in [0 .. width -> Nat] /\ left[0] = n
      /\ \A i \in 1 .. width : left[i] = left[i - 1] \div base
  <2> HIDE DEF left
  <2> QED BY <1>5, <1>7
<1> QED BY <1>8

(* The digits are digits.                                                   *)
LEMMA ToLETyped ==
  ASSUME NEW n \in Nat, NEW width \in Nat, NEW base \in Nat \ {0}
  PROVE  ToLE(n, width, base) \in Seq(0 .. base - 1) /\ Len(ToLE(n, width, base)) = width
<1> DEFINE left == Shifted(n, width, base)
<1>1. \A i \in 1 .. width : left[i - 1] \in Nat
  <2> HIDE DEF left
  <2> QED BY ShiftedSteps DEF left
<1>2. \A i \in 1 .. width : left[i - 1] % base \in 0 .. base - 1
  <2> HIDE DEF left
  <2> QED BY <1>1
<1>3. ToLE(n, width, base) = [i \in 1 .. width |-> left[i - 1] % base]
  BY DEF ToLE
<1> HIDE DEF left
<1> QED BY <1>2, <1>3, IsASeq

(* A smaller number fits where a greater one does.                          *)
LEMMA FitsBelow ==
  ASSUME NEW n \in Nat, NEW m \in Nat, m <= n, NEW width \in Nat, NEW base \in Nat \ {0},
         Fits(n, width, base)
  PROVE  Fits(m, width, base)
<1> DEFINE a == Shifted(n, width, base)
           b == Shifted(m, width, base)
           T == {i \in 0 .. width : b[i] <= a[i]}
<1>1. /\ a \in [0 .. width -> Nat] /\ a[0] = n
      /\ \A i \in 1 .. width : a[i] = a[i - 1] \div base
  BY ShiftedSteps
<1>2. /\ b \in [0 .. width -> Nat] /\ b[0] = m
      /\ \A i \in 1 .. width : b[i] = b[i - 1] \div base
  BY ShiftedSteps
<1>3. ASSUME NEW x \in Nat, NEW y \in Nat, x <= y PROVE x \div base <= y \div base
  BY <1>3
<1> HIDE DEF a, b
<1>4. 0 \in T /\ \A i \in 1 .. width : i - 1 \in T => i \in T
  <2>1. ASSUME NEW i \in 1 .. width, b[i - 1] <= a[i - 1] PROVE b[i] <= a[i]
    <3>1. a[i - 1] \in Nat /\ b[i - 1] \in Nat
      BY <1>1, <1>2
    <3> QED BY <1>1, <1>2, <1>3, <2>1, <3>1
  <2> QED BY <1>1, <1>2, <2>1
<1>5. 0 .. width \subseteq T
  <2> HIDE DEF T
  <2> QED BY <1>4, UpTo
<1>6. b[width] <= a[width] /\ b[width] \in Nat /\ a[width] = 0
  BY <1>1, <1>2, <1>5 DEF Fits, a
<1> QED BY <1>6 DEF Fits, b

(* Zero fits every width.                                                   *)
LEMMA FitsZero ==
  ASSUME NEW width \in Nat, NEW base \in Nat \ {0}
  PROVE  Fits(0, width, base)
<1> DEFINE a == Shifted(0, width, base)
           T == {i \in 0 .. width : a[i] = 0}
<1>1. a[0] = 0 /\ \A i \in 1 .. width : a[i] = a[i - 1] \div base
  BY ShiftedSteps
<1> HIDE DEF a
<1>2. 0 \in T
  BY <1>1
<1>3. \A i \in 1 .. width : i - 1 \in T => i \in T
  <2>1. 0 \div base = 0
    OBVIOUS
  <2> QED BY <1>1, <2>1
<1>4. 0 .. width \subseteq T
  <2> HIDE DEF T
  <2> QED BY <1>2, <1>3, UpTo
<1> QED BY <1>4 DEF Fits, a

(* The sum of digits, from the greatest on.                                 *)
LEMMA SummedSteps ==
  ASSUME NEW base \in Nat, NEW digits \in Seq(Nat)
  PROVE  /\ Summed(digits, base) \in [0 .. Len(digits) -> Nat]
         /\ Summed(digits, base)[0] = 0
         /\ \A i \in 1 .. Len(digits) :
              Summed(digits, base)[i]
                = base * Summed(digits, base)[i - 1] + digits[Len(digits) - i + 1]
<1> DEFINE N == Len(digits)
           StepOf(x, i) == base * x + digits[N - i + 1]
           g == [i \in 1 .. N |-> [x \in Nat |-> StepOf(x, i)]]
           sum == Summed(digits, base)
<1>1. N \in Nat
  OBVIOUS
<1>2. ASSUME NEW i \in 1 .. N, NEW x \in Nat PROVE StepOf(x, i) \in Nat
  <2>1. digits[N - i + 1] \in Nat
    <3>1. N - i + 1 \in 1 .. N
      BY <1>1
    <3> QED BY <3>1
  <2>2. base * x \in Nat
    OBVIOUS
  <2> QED BY <2>1, <2>2
<1>3. g \in [1 .. N -> [Nat -> Nat]]
  <2> HIDE DEF StepOf, N
  <2> QED BY <1>2
<1>4. PICK f \in [0 .. N -> Nat] : Recurs(f, N, 0, g)
  <2> HIDE DEF g, N
  <2> QED BY <1>1, <1>3, RecursExists
<1>5. f = [i \in 0 .. N |-> IF i = 0 THEN 0 ELSE StepOf(f[i - 1], i)]
  <2>1. ASSUME NEW i \in 0 .. N
        PROVE  (IF i = 0 THEN 0 ELSE g[i][f[i - 1]]) = IF i = 0 THEN 0 ELSE StepOf(f[i - 1], i)
    <3> HIDE DEF StepOf, N
    <3> QED BY <1>1, <1>4
  <2> HIDE DEF StepOf, N, g
  <2> QED BY <1>4, <2>1 DEF Recurs
<1>6. sum = CHOOSE s : s = [i \in 0 .. N |-> IF i = 0 THEN 0 ELSE StepOf(s[i - 1], i)]
  BY DEF Summed
<1>7. sum = [i \in 0 .. N |-> IF i = 0 THEN 0 ELSE StepOf(sum[i - 1], i)]
  <2> HIDE DEF StepOf, N, sum
  <2> QED BY <1>5, <1>6
<1>8. sum[0] = 0 /\ \A i \in 1 .. N : sum[i] = StepOf(sum[i - 1], i)
  <2> HIDE DEF StepOf, N, sum
  <2> QED BY <1>1, <1>7
<1> DEFINE T == {i \in 0 .. N : sum[i] \in Nat}
<1>9. 0 \in T /\ \A i \in 1 .. N : i - 1 \in T => i \in T
  <2> HIDE DEF StepOf, N, sum
  <2>1. ASSUME NEW i \in 1 .. N, sum[i - 1] \in Nat PROVE sum[i] \in Nat
    BY <1>2, <1>8, <2>1
  <2> QED BY <1>1, <1>8, <2>1
<1>10. 0 .. N \subseteq T
  <2> HIDE DEF T, N
  <2> QED BY <1>1, <1>9, UpTo
<1>11. sum \in [0 .. N -> Nat]
  <2> HIDE DEF StepOf, N, sum
  <2> QED BY <1>7, <1>10
<1> QED BY <1>8, <1>11

(* What is read from digits is a number ...                                 *)
LEMMA FromLETyped ==
  ASSUME NEW base \in Nat, NEW digits \in Seq(Nat)
  PROVE  FromLE(digits, base) \in Nat
<1>1. Len(digits) \in 0 .. Len(digits)
  OBVIOUS
<1> QED BY <1>1, SummedSteps DEF FromLE

(* ... and from the digits of a number that fits, that number.              *)
LEMMA FromToLE ==
  ASSUME NEW n \in Nat, NEW width \in Nat, NEW base \in Nat \ {0}, Fits(n, width, base)
  PROVE  FromLE(ToLE(n, width, base), base) = n
<1> DEFINE digits == ToLE(n, width, base)
           left == Shifted(n, width, base)
           sum == Summed(digits, base)
           T == {i \in 0 .. width : sum[i] = left[width - i]}
<1>1. digits \in Seq(Nat) /\ Len(digits) = width
  BY ToLETyped, SeqMonotonic, 0 .. base - 1 \subseteq Nat
<1>2. \A i \in 1 .. width : digits[i] = left[i - 1] % base
  BY DEF ToLE
<1>3. /\ left \in [0 .. width -> Nat] /\ left[0] = n
      /\ \A i \in 1 .. width : left[i] = left[i - 1] \div base
  BY ShiftedSteps
<1>4. left[width] = 0
  BY DEF Fits
<1> HIDE DEF left, digits
<1>5. /\ sum[0] = 0
      /\ \A i \in 1 .. width : sum[i] = base * sum[i - 1] + digits[width - i + 1]
  BY <1>1, SummedSteps
<1> HIDE DEF sum
<1>6. ASSUME NEW i \in 1 .. width, sum[i - 1] = left[width - (i - 1)]
      PROVE  sum[i] = left[width - i]
  <2> DEFINE k == width - i + 1
  <2>1. k \in 1 .. width /\ k - 1 = width - i /\ k = width - (i - 1)
    OBVIOUS
  <2>2. sum[i] = base * left[k] + digits[k]
    BY <1>5, <1>6, <2>1
  <2> HIDE DEF k
  <2>3. left[k] = left[k - 1] \div base /\ digits[k] = left[k - 1] % base /\ left[k - 1] \in Nat
    BY <1>2, <1>3, <2>1
  <2>4. ASSUME NEW x \in Nat PROVE (base * (x \div base)) + (x % base) = x
    OBVIOUS
  <2> QED BY <2>1, <2>2, <2>3, <2>4
<1>7. 0 \in T /\ \A i \in 1 .. width : i - 1 \in T => i \in T
  BY <1>4, <1>5, <1>6
<1>8. 0 .. width \subseteq T
  <2> HIDE DEF T
  <2> QED BY <1>7, UpTo
<1>9. sum[width] = left[width - width]
  BY <1>8
<1> QED BY <1>1, <1>3, <1>9 DEF FromLE, sum, digits
=============================================================================
