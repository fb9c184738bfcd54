-------------------------- MODULE FlushPathProofs --------------------------
(***************************************************************************)
(* Proofs, for every value of the constants, about the way of a write from  *)
(* the memtable to a file: FlushInv is inductive, and from it follow the    *)
(* soundness of the lists and of the manifest, and that get and the merge of*)
(* all sources find the last write.                                         *)
(***************************************************************************)
EXTENDS FlushDataProofs

----------------------------------------------------------------------------
(* What the manifest records fits its fields.                               *)

(* The metas of a level that is there, and those of one that is not.        *)
LEMMA LevelMetas ==
  ASSUME NEW db, db.levels \in Seq(Seq(Meta)), NEW level \in Nat
  PROVE  /\ MetasAt(db, level) \in Seq(Meta)
         /\ level < Len(db.levels) => MetasAt(db, level) = db.levels[level + 1]
         /\ ~(level < Len(db.levels)) => MetasAt(db, level) = << >>
<1>1. CASE level < Len(db.levels)
  <2>1. MetasAt(db, level) = db.levels[level + 1]
    BY <1>1 DEF MetasAt
  <2>2. level + 1 \in 1 .. Len(db.levels)
    BY <1>1
  <2>3. db.levels[level + 1] \in Seq(Meta)
    BY <2>2
  <2> QED BY <1>1, <2>1, <2>3
<1>2. CASE ~(level < Len(db.levels))
  <2>1. MetasAt(db, level) = << >>
    BY <1>2 DEF MetasAt
  <2>2. << >> \in Seq(Meta)
    OBVIOUS
  <2> QED BY <1>2, <2>1, <2>2
<1> QED BY <1>1, <1>2

(* The parts of a meta.                                                     *)
LEMMA MetaParts ==
  ASSUME NEW m \in Meta
  PROVE  /\ m.id \in Nat /\ m.min \in Keys /\ m.max \in Keys
         /\ m = [id |-> m.id, min |-> m.min, max |-> m.max]
BY DEF Meta

(* Ids that rise from one place to the next are at least as high as their   *)
(* places.                                                                  *)
LEMMA AgesRise ==
  ASSUME NEW metas \in Seq(Meta), ByAge(metas), \A i \in 1 .. Len(metas) : metas[i].id > 0
  PROVE  \A i \in 1 .. Len(metas) : i <= metas[i].id
<1> DEFINE n == Len(metas)
           T == {i \in 0 .. n : i = 0 \/ i <= metas[i].id}
<1>1. /\ n \in Nat /\ DOMAIN metas = 1 .. n
      /\ \A i \in 1 .. n : metas[i] \in Meta
  OBVIOUS
<1>2. \A i \in 1 .. n : metas[i].id \in Nat /\ metas[i].id > 0
  BY <1>1, MetaParts
<1>3. \A i, j \in 1 .. n : i < j => metas[i].id < metas[j].id
  BY <1>1 DEF ByAge
<1> HIDE DEF n
<1>4. ASSUME NEW i \in 1 .. n, i - 1 \in T PROVE i \in T
  <2>1. CASE i = 1
    BY <1>1, <1>2, <2>1
  <2>2. CASE i # 1
    <3>1. i - 1 \in 1 .. n /\ i - 1 < i /\ i - 1 # 0
      BY <1>1, <2>2
    <3>2. i - 1 <= metas[i - 1].id /\ metas[i - 1].id < metas[i].id
      BY <1>3, <1>4, <3>1
    <3> QED BY <1>1, <1>2, <3>1, <3>2
  <2> QED BY <2>1, <2>2
<1>5. 0 .. n \subseteq T
  <2>1. 0 \in T
    BY <1>1
  <2> HIDE DEF T
  <2> QED BY <1>1, <1>4, <2>1, UpTo
<1>6. \A i \in 1 .. n : i \in 0 .. n /\ i # 0
  BY <1>1
<1> QED BY <1>5, <1>6 DEF n

(* A number of two fits in a u32.                                           *)
LEMMA TwoFits == Fits(2, U32, Base)
<1> DEFINE a == Shifted(2, U32, Base)
           T == {i \in 0 .. U32 : i = 0 \/ a[i] = 0}
<1>1. /\ U32 \in Nat \ {0} /\ Base \in Nat \ {0} /\ Base > 2 /\ U32 \in Nat
  BY WidthAssumption
<1>2. /\ a[0] = 2 /\ \A i \in 1 .. U32 : a[i] = a[i - 1] \div Base
  BY <1>1, ShiftedSteps
<1> HIDE DEF a
<1>3. ASSUME NEW i \in 1 .. U32, i - 1 \in T PROVE i \in T
  <2>1. a[i - 1] = 2 \/ a[i - 1] = 0
    BY <1>2, <1>3
  <2>2. 2 \div Base = 0 /\ 0 \div Base = 0
    BY <1>1
  <2>3. a[i] = 0
    BY <1>2, <2>1, <2>2
  <2> QED BY <1>1, <2>3
<1>4. 0 .. U32 \subseteq T
  <2>1. 0 \in T
    BY <1>1
  <2> HIDE DEF T
  <2> QED BY <1>1, <1>3, <2>1, UpTo
<1>5. U32 \in 0 .. U32 /\ U32 # 0
  BY <1>1
<1>6. a[U32] = 0
  BY <1>4, <1>5
<1> QED BY <1>6 DEF Fits, a

(* The manifest of the files can be written down: its numbers fit in their  *)
(* fields as long as no id is past the bound.                               *)
LEMMA FilesWritable ==
  ASSUME NEW db, FilesOK(db), db.next <= MaxIds + 1
  PROVE  ManifestWritable(db.levels)
<1> DEFINE ls == db.levels
           L0 == MetasAt(db, 0)
           L1 == MetasAt(db, 1)
<1>1. /\ ls \in Seq(Seq(Meta)) /\ Len(ls) <= 2 /\ Len(ls) \in Nat
      /\ {m.id : m \in Range(L0) \cup Range(L1)} = DOMAIN db.tables
      /\ ByAge(L0) /\ ByAge(L1) /\ db.next \in Nat
      /\ DOMAIN db.tables \subseteq 1 .. db.next - 1
  BY DEF FilesOK
<1>2. Base \in Nat \ {0} /\ U32 \in Nat /\ U64 \in Nat /\ MaxIds \in Nat
  BY WidthAssumption, FlushPathAssumption
<1>3. ASSUME NEW metas \in Seq(Meta), ByAge(metas),
             \A i \in 1 .. Len(metas) : metas[i].id \in 1 .. db.next - 1
      PROVE  LevelWritable(metas)
  <2>1. Len(metas) \in Nat /\ \A i \in 1 .. Len(metas) : metas[i] \in Meta
    OBVIOUS
  <2>2. ASSUME NEW i \in 1 .. Len(metas) PROVE Writable(metas[i]) /\ metas[i] \in RawMeta
    <3> DEFINE m == metas[i]
    <3>1. m \in Meta /\ m.id \in 1 .. db.next - 1
      BY <1>3, <2>1
    <3> HIDE DEF m
    <3>2. /\ m.id \in Nat /\ m.min \in Keys /\ m.max \in Keys
          /\ m = [id |-> m.id, min |-> m.min, max |-> m.max]
      BY <3>1, MetaParts
    <3>3. m.min \in Seq(Byte) /\ m.max \in Seq(Byte)
      BY <3>2, KeysAreBytes
    <3>4. Fits(Len(m.min), U32, Base) /\ Fits(Len(m.max), U32, Base)
      BY <3>2, FieldsSuffice
    <3>5. m.id <= MaxIds
      BY <1>1, <1>2, <3>1
    <3>6. Fits(m.id, U64, Base)
      BY <1>2, <3>2, <3>5, FieldsSuffice, FitsBelow
    <3>7. Writable(m)
      BY <3>2, <3>3, <3>4, <3>6 DEF Writable
    <3>8. m \in RawMeta
      BY <3>2, <3>3 DEF RawMeta
    <3> QED BY <3>7, <3>8 DEF m
  <2>3. metas \in Seq(RawMeta)
    <3>1. metas = [i \in 1 .. Len(metas) |-> metas[i]]
      OBVIOUS
    <3> QED BY <2>1, <2>2, <3>1
  <2>4. Fits(Len(metas), U32, Base)
    <3>1. CASE Len(metas) = 0
      BY <1>2, <3>1, FitsZero
    <3>2. CASE Len(metas) # 0
      <4> DEFINE n == Len(metas)
      <4>1. \A i \in 1 .. n : i <= metas[i].id
        <5>1. \A i \in 1 .. n : metas[i].id > 0
          BY <1>1, <1>3
        <5> QED BY <1>3, <5>1, AgesRise
      <4> HIDE DEF n
      <4>2. n \in Nat /\ n \in 1 .. n
        BY <2>1, <3>2 DEF n
      <4>3. n <= metas[n].id /\ metas[n].id \in 1 .. db.next - 1
        BY <1>3, <4>1, <4>2 DEF n
      <4>4. n <= MaxIds
        BY <1>1, <1>2, <4>2, <4>3
      <4> QED BY <1>2, <4>2, <4>4, FieldsSuffice, FitsBelow DEF n
    <3> QED BY <3>1, <3>2
  <2> QED BY <2>2, <2>3, <2>4 DEF LevelWritable
<1>4. ASSUME NEW i \in 1 .. Len(ls) PROVE LevelWritable(ls[i])
  <2>1. i = 1 \/ i = 2
    BY <1>1
  <2>2. ls[i] \in Seq(Meta) /\ (ls[i] = L0 \/ ls[i] = L1)
    <3>1. ls[i] \in Seq(Meta)
      BY <1>1
    <3>2. CASE i = 1
      <4>1. 0 < Len(ls) /\ 0 \in Nat /\ 0 + 1 = 1
        BY <1>1, <3>2
      <4> QED BY <1>1, <3>1, <3>2, <4>1, LevelMetas
    <3>3. CASE i = 2
      <4>1. 1 < Len(ls) /\ 1 \in Nat /\ 1 + 1 = 2
        BY <1>1, <3>3
      <4> QED BY <1>1, <3>1, <3>3, <4>1, LevelMetas
    <3> QED BY <2>1, <3>2, <3>3
  <2> DEFINE metas == ls[i]
  <2> HIDE DEF L0, L1, metas
  <2>3. \A x \in 1 .. Len(metas) : metas[x].id \in 1 .. db.next - 1
    <3> SUFFICES ASSUME NEW x \in 1 .. Len(metas) PROVE metas[x].id \in 1 .. db.next - 1
      OBVIOUS
    <3>1. metas[x] \in Range(metas)
      <4>1. DOMAIN metas = 1 .. Len(metas)
        BY <2>2 DEF metas
      <4> QED BY <4>1 DEF Range
    <3>2. metas[x] \in Range(L0) \cup Range(L1)
      BY <2>2, <3>1 DEF metas
    <3> QED BY <1>1, <3>2
  <2>4. ByAge(metas)
    BY <1>1, <2>2 DEF metas
  <2>5. LevelWritable(metas)
    BY <1>3, <2>2, <2>3, <2>4 DEF metas
  <2> QED BY <2>5 DEF metas
<1>5. ls \in Seq(Seq(RawMeta))
  <2>1. \A i \in 1 .. Len(ls) : ls[i] \in Seq(RawMeta)
    BY <1>4 DEF LevelWritable
  <2>2. ls = [i \in 1 .. Len(ls) |-> ls[i]]
    <3> DEFINE S == Seq(Meta)
    <3>1. ls \in Seq(S)
      BY <1>1
    <3> HIDE DEF S, ls
    <3> QED BY <3>1
  <2>3. Len(ls) \in Nat
    BY <1>1
  <2> DEFINE S == Seq(RawMeta)
  <2>4. \A i \in 1 .. Len(ls) : ls[i] \in S
    BY <2>1
  <2> HIDE DEF S, ls
  <2>5. ls \in Seq(S)
    BY <2>2, <2>3, <2>4
  <2> QED BY <2>5 DEF S
<1>6. Fits(Len(ls), U32, Base)
  <2>1. 2 \in Nat
    OBVIOUS
  <2> QED BY <1>1, <1>2, <2>1, TwoFits, FitsBelow
<1> QED BY <1>4, <1>5, <1>6 DEF ManifestWritable

----------------------------------------------------------------------------
(* Sets in order, and the map a compaction fills.                           *)

(* The members of S that a relation puts before x, and a strict total order *)
(* on S as a set of pairs.                                                  *)
BeforeIn(S, R, x) == {y \in S : << y, x >> \in R}

StrictTotal(S, R) ==
    /\ \A x \in S : << x, x >> \notin R
    /\ \A x, y, z \in S : << x, y >> \in R /\ << y, z >> \in R => << x, z >> \in R
    /\ \A x, y \in S : x = y \/ << x, y >> \in R \/ << y, x >> \in R

(* As many members stand before one as its place says, and every place is   *)
(* taken by one of them.                                                    *)
PlacesTaken(S, R, n) ==
    /\ n \in Nat
    /\ \A x \in S : Cardinality(BeforeIn(S, R, x)) \in 0 .. n - 1
    /\ \A x, y \in S : << x, y >> \in R
          => Cardinality(BeforeIn(S, R, x)) < Cardinality(BeforeIn(S, R, y))
    /\ \A i \in 0 .. n - 1 : \E x \in S : Cardinality(BeforeIn(S, R, x)) = i

(* So it is in a finite set under such an order.                            *)
LEMMA Ranked ==
  ASSUME NEW S, IsFiniteSet(S), NEW R, StrictTotal(S, R), NEW n, n = Cardinality(S)
  PROVE  PlacesTaken(S, R, n)
<1> DEFINE B(x) == BeforeIn(S, R, x)
           rank == [x \in S |-> Cardinality(B(x))]
<1>1. n \in Nat
  BY FS_CardinalityType
<1>2. ASSUME NEW x \in S
      PROVE  IsFiniteSet(B(x)) /\ Cardinality(B(x)) \in 0 .. n - 1
  <2>1. B(x) \in SUBSET S /\ x \notin B(x)
    BY DEF BeforeIn, StrictTotal
  <2> HIDE DEF B
  <2>2. /\ IsFiniteSet(B(x)) /\ Cardinality(B(x)) <= n
        /\ Cardinality(S) = Cardinality(B(x)) => S = B(x)
    BY <2>1, FS_Subset
  <2>3. Cardinality(B(x)) \in Nat /\ Cardinality(B(x)) # n
    BY <2>1, <2>2, FS_CardinalityType
  <2> QED BY <1>1, <2>2, <2>3
<1>3. ASSUME NEW x \in S, NEW y \in S, << x, y >> \in R
      PROVE  Cardinality(B(x)) < Cardinality(B(y))
  <2>1. B(x) \in SUBSET B(y) /\ x \in B(y) /\ x \notin B(x)
    BY <1>3 DEF BeforeIn, StrictTotal
  <2>2. IsFiniteSet(B(y)) /\ Cardinality(B(y)) \in Nat /\ Cardinality(B(x)) \in Nat
    BY <1>2
  <2> HIDE DEF B
  <2>3. Cardinality(B(x)) <= Cardinality(B(y)) /\ Cardinality(B(y)) # Cardinality(B(x))
    BY <2>1, <2>2, FS_Subset
  <2> QED BY <2>2, <2>3
<1> HIDE DEF B
<1>4. rank \in Injection(S, 0 .. n - 1)
  <2>1. rank \in [S -> 0 .. n - 1]
    BY <1>2
  <2>2. ASSUME NEW x \in S, NEW y \in S, rank[x] = rank[y] PROVE x = y
    <3> SUFFICES ASSUME x # y PROVE FALSE
      OBVIOUS
    <3>1. << x, y >> \in R \/ << y, x >> \in R
      BY DEF StrictTotal
    <3>2. Cardinality(B(x)) = Cardinality(B(y)) /\ Cardinality(B(x)) \in Nat
      BY <1>2, <2>2
    <3>3. Cardinality(B(x)) < Cardinality(B(y)) \/ Cardinality(B(y)) < Cardinality(B(x))
      BY <1>3, <3>1
    <3> QED BY <3>2, <3>3
  <2>3. IsInjective(rank)
    BY <2>1, <2>2 DEF IsInjective
  <2> QED BY <2>1, <2>3 DEF Injection
<1>5. IsFiniteSet(0 .. n - 1) /\ Cardinality(0 .. n - 1) = n
  <2>1. 0 \in Int /\ n - 1 \in Int
    BY <1>1
  <2>2. IsFiniteSet(0 .. n - 1) /\ Cardinality(0 .. n - 1) = IF 0 > n - 1 THEN 0 ELSE n - 1 - 0 + 1
    BY <2>1, FS_Interval
  <2>3. (IF 0 > n - 1 THEN 0 ELSE n - 1 - 0 + 1) = n
    BY <1>1
  <2> QED BY <2>2, <2>3
<1>6. rank \in Surjection(S, 0 .. n - 1)
  <2> HIDE DEF rank
  <2> QED BY <1>4, <1>5, FS_Injection
<1>7. \A i \in 0 .. n - 1 : \E x \in S : Cardinality(B(x)) = i
  BY <1>6 DEF Surjection
<1> QED BY <1>1, <1>2, <1>3, <1>7 DEF B, PlacesTaken

(* A sequence with every member at its place.                               *)
Placed(s, S, R, n) ==
    /\ s = [i \in 1 .. n |-> s[i]]
    /\ \A i \in 1 .. n : s[i] \in S /\ Cardinality(BeforeIn(S, R, s[i])) = i - 1

(* Such a sequence holds the whole set, and in its order.                   *)
LEMMA InRank ==
  ASSUME NEW S, IsFiniteSet(S), NEW R, StrictTotal(S, R), NEW n, n = Cardinality(S),
         NEW s, Placed(s, S, R, n)
  PROVE  /\ s \in Seq(S) /\ Len(s) = n /\ n \in Nat /\ Range(s) = S
         /\ \A i, j \in 1 .. n : i < j => << s[i], s[j] >> \in R
<1> DEFINE C(x) == Cardinality(BeforeIn(S, R, x))
<1>1. /\ n \in Nat
      /\ \A x \in S : C(x) \in 0 .. n - 1
      /\ \A x, y \in S : << x, y >> \in R => C(x) < C(y)
  BY Ranked DEF PlacesTaken
<1> HIDE DEF C
<1>2. \A i \in 1 .. n : s[i] \in S /\ C(s[i]) = i - 1
  BY DEF C, Placed
<1>3. s \in Seq(S) /\ Len(s) = n /\ DOMAIN s = 1 .. n
  BY <1>1, <1>2 DEF Placed
<1>4. ASSUME NEW i \in 1 .. n, NEW j \in 1 .. n, i < j PROVE << s[i], s[j] >> \in R
  <2>1. C(s[i]) = i - 1 /\ C(s[j]) = j - 1 /\ s[i] \in S /\ s[j] \in S
    BY <1>2
  <2>2. s[i] # s[j] /\ ~(C(s[j]) < C(s[i]))
    BY <1>1, <1>4, <2>1
  <2> QED BY <1>1, <2>1, <2>2 DEF StrictTotal
<1>5. ASSUME NEW x \in S PROVE \E i \in 1 .. n : s[i] = x
  <2> DEFINE i == C(x) + 1
  <2>1. C(x) \in 0 .. n - 1
    BY <1>1
  <2>2. i \in 1 .. n /\ C(s[i]) = C(x) /\ s[i] \in S
    <3>1. C(x) + 1 \in 1 .. n /\ (C(x) + 1) - 1 = C(x)
      BY <1>1, <2>1
    <3> QED BY <1>2, <3>1
  <2> HIDE DEF i
  <2>3. s[i] = x
    <3> SUFFICES ASSUME s[i] # x PROVE FALSE
      OBVIOUS
    <3>1. << s[i], x >> \in R \/ << x, s[i] >> \in R
      BY <2>2 DEF StrictTotal
    <3>2. C(s[i]) < C(x) \/ C(x) < C(s[i])
      BY <1>1, <2>2, <3>1
    <3> QED BY <1>1, <2>1, <2>2, <3>2
  <2> QED BY <2>2, <2>3
<1>6. Range(s) = S
  <2>1. Range(s) = {s[i] : i \in 1 .. n}
    BY <1>3 DEF Range
  <2>2. {s[i] : i \in 1 .. n} \subseteq S
    BY <1>2
  <2>3. \A x \in S : x \in {s[i] : i \in 1 .. n}
    BY <1>5
  <2> QED BY <2>1, <2>2, <2>3
<1> QED BY <1>1, <1>3, <1>4, <1>6

(* A set of keys in the order of keys.                                      *)
LEMMA OrderedKeys ==
  ASSUME NEW S, S \subseteq Keys, IsFiniteSet(S), NEW s, s = Ordered(S, Less)
  PROVE  /\ s \in Seq(Keys) /\ Len(s) = Cardinality(S) /\ Range(s) = S
         /\ \A i, j \in 1 .. Len(s) : i < j => Less(s[i], s[j])
<1> DEFINE n == Cardinality(S)
           R == {p \in S \X S : Less(p[1], p[2])}
           at(i) == CHOOSE x \in S : Cardinality({y \in S : Less(y, x)}) = i - 1
<1>1. \A x, y \in S : << x, y >> \in R <=> Less(x, y)
  OBVIOUS
<1>2. s = [i \in 1 .. n |-> at(i)]
  BY DEF Ordered
<1>0. n = Cardinality(S)
  OBVIOUS
<1> HIDE DEF R
<1>3. StrictTotal(S, R)
  <2>1. \A x \in S : x \in Keys
    OBVIOUS
  <2> QED BY <1>1, <2>1, KeyOrder DEF StrictTotal
<1>4. n \in Nat /\ \A i \in 0 .. n - 1 : \E x \in S : Cardinality(BeforeIn(S, R, x)) = i
  <2>1. PlacesTaken(S, R, n)
    BY <1>3, Ranked
  <2> QED BY <2>1 DEF PlacesTaken
<1>5. ASSUME NEW x \in S PROVE BeforeIn(S, R, x) = {y \in S : Less(y, x)}
  BY <1>1 DEF BeforeIn
<1> HIDE DEF n
<1>6. ASSUME NEW i \in 1 .. n PROVE at(i) \in S /\ Cardinality(BeforeIn(S, R, at(i))) = i - 1
  <2>1. i - 1 \in 0 .. n - 1
    BY <1>4
  <2>2. PICK x \in S : Cardinality(BeforeIn(S, R, x)) = i - 1
    BY <1>4, <2>1
  <2>3. Cardinality({y \in S : Less(y, x)}) = i - 1
    BY <1>5, <2>2
  <2>4. at(i) \in S /\ Cardinality({y \in S : Less(y, at(i))}) = i - 1
    BY <2>3
  <2> HIDE DEF at
  <2> QED BY <1>5, <2>4
<1> HIDE DEF at
<1>7. s = [i \in 1 .. n |-> s[i]] /\ \A i \in 1 .. n : s[i] = at(i)
  BY <1>2
<1>8. /\ s \in Seq(S) /\ Len(s) = n /\ n \in Nat /\ Range(s) = S
      /\ \A i, j \in 1 .. n : i < j => << s[i], s[j] >> \in R
  <2>1. Placed(s, S, R, n)
    BY <1>6, <1>7 DEF Placed
  <2> QED BY <1>0, <1>3, <1>7, <2>1, InRank
<1>9. s \in Seq(Keys)
  <2>1. \A i \in 1 .. n : s[i] \in Keys
    BY <1>6, <1>7
  <2> QED BY <1>4, <1>7, <2>1
<1>10. ASSUME NEW i \in 1 .. n, NEW j \in 1 .. n, i < j PROVE Less(s[i], s[j])
  BY <1>1, <1>6, <1>7, <1>8, <1>10
<1> QED BY <1>8, <1>9, <1>10 DEF n

(* A set of ids, the highest first: Ordered as Sources uses it.             *)
HighestFirst(S) ==
    [i \in 1 .. Cardinality(S) |->
        CHOOSE x \in S : Cardinality({y \in S : y > x}) = i - 1]

(* It holds the whole set.                                                  *)
LEMMA OrderedIds ==
  ASSUME NEW S, S \subseteq Nat, IsFiniteSet(S),
         NEW s, s = HighestFirst(S)
  PROVE  /\ s \in Seq(S) /\ Len(s) = Cardinality(S) /\ Range(s) = S
         /\ \A i, j \in 1 .. Len(s) : i < j => s[i] > s[j]
<1> DEFINE n == Cardinality(S)
           R == {p \in S \X S : p[1] > p[2]}
           at(i) == CHOOSE x \in S : Cardinality({y \in S : y > x}) = i - 1
<1>1. \A x, y \in S : << x, y >> \in R <=> x > y
  OBVIOUS
<1>2. s = [i \in 1 .. n |-> at(i)]
  BY DEF HighestFirst
<1>0. n = Cardinality(S)
  OBVIOUS
<1> HIDE DEF R
<1>3. StrictTotal(S, R)
  <2>1. \A x \in S : x \in Nat
    OBVIOUS
  <2>2. \A x, y, z \in S : ~(x > x) /\ (x > y /\ y > z => x > z) /\ (x = y \/ x > y \/ y > x)
    BY <2>1
  <2> QED BY <1>1, <2>2 DEF StrictTotal
<1> HIDE DEF at
<1>4. n \in Nat /\ \A i \in 0 .. n - 1 : \E x \in S : Cardinality(BeforeIn(S, R, x)) = i
  <2>1. PlacesTaken(S, R, n)
    BY <1>3, Ranked
  <2> QED BY <2>1 DEF PlacesTaken
<1> HIDE DEF n
<1>5. ASSUME NEW x \in S PROVE BeforeIn(S, R, x) = {y \in S : y > x}
  BY <1>1 DEF BeforeIn
<1>6. ASSUME NEW i \in 1 .. n PROVE at(i) \in S /\ Cardinality(BeforeIn(S, R, at(i))) = i - 1
  <2>1. i - 1 \in 0 .. n - 1
    BY <1>4
  <2>2. PICK x \in S : Cardinality(BeforeIn(S, R, x)) = i - 1
    BY <1>4, <2>1
  <2>3. Cardinality({y \in S : y > x}) = i - 1
    BY <1>5, <2>2
  <2>4. at(i) \in S /\ Cardinality({y \in S : y > at(i)}) = i - 1
    BY <2>3 DEF at
  <2> HIDE DEF at
  <2> QED BY <1>5, <2>4
<1> HIDE DEF at
<1>7. s = [i \in 1 .. n |-> s[i]] /\ \A i \in 1 .. n : s[i] = at(i)
  BY <1>2
<1>8. /\ s \in Seq(S) /\ Len(s) = n /\ n \in Nat /\ Range(s) = S
      /\ \A i, j \in 1 .. n : i < j => << s[i], s[j] >> \in R
  <2>1. Placed(s, S, R, n)
    BY <1>6, <1>7 DEF Placed
  <2> QED BY <1>0, <1>3, <1>7, <2>1, InRank
<1>9. ASSUME NEW i \in 1 .. n, NEW j \in 1 .. n, i < j PROVE s[i] > s[j]
  BY <1>1, <1>6, <1>7, <1>8, <1>9
<1> QED BY <1>8, <1>9 DEF n

(* The entries of a table: one value for each of its keys, and every key    *)
(* between the first and the last.                                          *)
LEMMA TableFacts ==
  ASSUME NEW t \in Seq(Keys \X Vals), InKeyOrder(t)
  PROVE  /\ KeysOf(t) \subseteq Keys /\ IsFiniteSet(KeysOf(t))
         /\ \A k : k \in KeysOf(t) <=> Holding(t, k) # {}
         /\ \A k \in KeysOf(t) : \E v \in Vals : Holding(t, k) = {v}
         /\ \A i \in 1 .. Len(t) : Holding(t, t[i][1]) = {t[i][2]}
         /\ t # << >> => /\ t[1][1] \in Keys /\ t[Len(t)][1] \in Keys
                         /\ \A k \in KeysOf(t) : ~Less(k, t[1][1]) /\ ~Less(t[Len(t)][1], k)
<1> DEFINE n == Len(t)
<1>1. /\ n \in Nat /\ DOMAIN t = 1 .. n
      /\ \A i \in 1 .. n : t[i] \in Keys \X Vals
      /\ t # << >> => n \in 1 .. n /\ 1 \in 1 .. n
  OBVIOUS
<1>2. \A i \in 1 .. n : t[i][1] \in Keys /\ t[i][2] \in Vals
  BY <1>1
<1>3. \A i, j \in 1 .. n : i < j => Less(t[i][1], t[j][1])
  BY <1>1 DEF InKeyOrder
<1> HIDE DEF n
<1>4. \A i, j \in 1 .. n : t[i][1] = t[j][1] => i = j
  <2> SUFFICES ASSUME NEW i \in 1 .. n, NEW j \in 1 .. n, t[i][1] = t[j][1], i # j
               PROVE  FALSE
    OBVIOUS
  <2>1. i < j \/ j < i
    BY <1>1
  <2> QED BY <1>2, <1>3, <2>1, KeyOrder
<1>5. KeysOf(t) = {t[i][1] : i \in 1 .. n}
  BY <1>1 DEF KeysOf
<1>6. Range(t) = {t[i] : i \in 1 .. n}
  BY <1>1 DEF Range
<1>7. \A k : Holding(t, k) = {e[2] : e \in {x \in Range(t) : x[1] = k}}
  BY DEF Holding
<1>8. ASSUME NEW i \in 1 .. n PROVE Holding(t, t[i][1]) = {t[i][2]}
  <2>1. {x \in Range(t) : x[1] = t[i][1]} = {t[i]}
    BY <1>4, <1>6
  <2> QED BY <1>7, <2>1
<1>9. ASSUME NEW k PROVE k \in KeysOf(t) <=> Holding(t, k) # {}
  <2>1. CASE k \in KeysOf(t)
    <3>1. PICK i \in 1 .. n : k = t[i][1]
      BY <1>5, <2>1
    <3>2. Holding(t, k) = {t[i][2]}
      BY <1>8, <3>1
    <3> QED BY <2>1, <3>2
  <2>2. CASE k \notin KeysOf(t)
    <3>1. {x \in Range(t) : x[1] = k} = {}
      BY <1>5, <1>6, <2>2
    <3> QED BY <1>7, <2>2, <3>1
  <2> QED BY <2>1, <2>2
<1>10. \A k \in KeysOf(t) : \E v \in Vals : Holding(t, k) = {v}
  BY <1>2, <1>5, <1>8
<1>11. IsFiniteSet(KeysOf(t))
  <2> DEFINE f == [i \in 1 .. n |-> t[i][1]]
  <2>1. f \in Surjection(1 .. n, KeysOf(t))
    BY <1>5 DEF Surjection
  <2>2. IsFiniteSet(1 .. n)
    <3>1. 1 \in Int /\ n \in Int
      BY <1>1
    <3> QED BY <3>1, FS_Interval
  <2> HIDE DEF f
  <2> QED BY <2>1, <2>2, FS_Surjection
<1>12. ASSUME t # << >>, NEW k \in KeysOf(t) PROVE ~Less(k, t[1][1]) /\ ~Less(t[n][1], k)
  <2>1. PICK i \in 1 .. n : k = t[i][1]
    BY <1>5
  <2>2. (i = 1 \/ 1 < i) /\ (i = n \/ i < n) /\ n \in 1 .. n /\ 1 \in 1 .. n
    BY <1>1, <1>12
  <2>3. (k = t[1][1] \/ Less(t[1][1], k)) /\ (k = t[n][1] \/ Less(k, t[n][1]))
    BY <1>3, <2>1, <2>2
  <2> QED BY <1>2, <2>1, <2>2, <2>3, KeyOrder
<1>13. KeysOf(t) \subseteq Keys
  BY <1>2, <1>5
<1>14. t # << >> => t[1][1] \in Keys /\ t[n][1] \in Keys
  BY <1>1, <1>2
<1> QED BY <1>8, <1>9, <1>10, <1>11, <1>12, <1>13, <1>14 DEF n

(* Files with one more.                                                     *)
Added(files, id, t) == [x \in DOMAIN files \cup {id} |-> IF x = id THEN t ELSE files[x]]

(* A file under an id above all others is the newest.                       *)
LEMMA NewestAdded ==
  ASSUME NEW files, NEW n \in Nat, DOMAIN files \subseteq 0 .. n, NEW id \in Nat, id > n,
         NEW t, NEW more, more = Added(files, id, t), NEW k
  PROVE  Newest(more, k) = IF Holding(t, k) # {} THEN Holding(t, k) ELSE Newest(files, k)
<1> DEFINE at == {x \in DOMAIN files : Holding(files[x], k) # {}}
           at2 == {x \in DOMAIN more : Holding(more[x], k) # {}}
<1>1. id \notin DOMAIN files /\ DOMAIN more = DOMAIN files \cup {id}
  BY DEF Added
<1>2. more[id] = t /\ \A x \in DOMAIN files : more[x] = files[x]
  BY <1>1 DEF Added
<1>3. Newest(files, k) = IF at = {} THEN None ELSE Holding(files[Max(at)], k)
  BY DEF Newest
<1>4. Newest(more, k) = IF at2 = {} THEN None ELSE Holding(more[Max(at2)], k)
  BY DEF Newest
<1>5. CASE Holding(t, k) # {}
  <2>1. id \in at2 /\ at2 \subseteq 0 .. id
    BY <1>1, <1>2, <1>5
  <2> HIDE DEF at2
  <2>2. Max(at2) \in at2 /\ Max(at2) >= id
    BY <2>1, MaxIsGreatest
  <2>3. Max(at2) = id
    <3> DEFINE m == Max(at2)
    <3>1. m \in 0 .. id /\ m >= id
      BY <2>1, <2>2
    <3> HIDE DEF m
    <3>2. m = id
      BY <3>1
    <3> QED BY <3>2 DEF m
  <2> QED BY <1>2, <1>4, <1>5, <2>1, <2>3
<1>6. CASE Holding(t, k) = {}
  <2>1. at2 = at
    BY <1>1, <1>2, <1>6
  <2>2. at # {} => Max(at) \in DOMAIN files
    <3>1. at \subseteq 0 .. n
      OBVIOUS
    <3>2. at \subseteq DOMAIN files
      OBVIOUS
    <3> HIDE DEF at
    <3> QED BY <3>1, <3>2, MaxIsGreatest
  <2> HIDE DEF at, at2
  <2> QED BY <1>2, <1>3, <1>4, <1>6, <2>1, <2>2
<1> QED BY <1>5, <1>6

(* Tables with the same entries for a key under the same ids agree on it.   *)
LEMMA NewestSame ==
  ASSUME NEW files, NEW other, NEW k,
         {x \in DOMAIN files : Holding(files[x], k) # {}}
            = {x \in DOMAIN other : Holding(other[x], k) # {}},
         \A x \in DOMAIN files \cap DOMAIN other : files[x] = other[x],
         NEW n \in Nat, DOMAIN files \subseteq 0 .. n
  PROVE  Newest(files, k) = Newest(other, k)
<1> DEFINE at == {x \in DOMAIN files : Holding(files[x], k) # {}}
           at2 == {x \in DOMAIN other : Holding(other[x], k) # {}}
<1>1. at = at2
  OBVIOUS
<1>2. Newest(files, k) = IF at = {} THEN None ELSE Holding(files[Max(at)], k)
  BY DEF Newest
<1>3. Newest(other, k) = IF at2 = {} THEN None ELSE Holding(other[Max(at2)], k)
  BY DEF Newest
<1>4. at \subseteq 0 .. n /\ at \subseteq DOMAIN files /\ at2 \subseteq DOMAIN other
  OBVIOUS
<1> HIDE DEF at, at2
<1>5. at # {} => Max(at) \in at
  BY <1>4, MaxIsGreatest
<1> QED BY <1>1, <1>2, <1>3, <1>4, <1>5

(* One table added to all_entries.                                          *)
Upon(map, t) ==
    [k \in DOMAIN map \cup KeysOf(t) |->
        IF k \in KeysOf(t) THEN CHOOSE v \in Holding(t, k) : TRUE ELSE map[k]]

(* all_entries, table by table.                                             *)
LEMMA FilledSteps ==
  ASSUME NEW db, NEW metas, Len(metas) \in Nat
  PROVE  /\ Filled(db, metas)[0] = << >>
         /\ \A n \in 1 .. Len(metas) :
              Filled(db, metas)[n] = Upon(Filled(db, metas)[n - 1], db.tables[metas[n].id])
<1> DEFINE N == Len(metas)
           StepOf(x, n) == Upon(x, db.tables[metas[n].id])
           map == Filled(db, metas)
           Is(f, m) == f = [n \in 0 .. m |-> IF n = 0 THEN << >> ELSE StepOf(f[n - 1], n)]
           T == {m \in 0 .. N : \E f : Is(f, m)}
<1>1. N \in Nat
  OBVIOUS
<1>2. map = CHOOSE f : Is(f, N)
  BY DEF Filled, Upon
<1> HIDE DEF N, StepOf, map
<1>3. 0 \in T
  <2>1. Is([n \in 0 .. 0 |-> << >>], 0)
    OBVIOUS
  <2> HIDE DEF Is
  <2> QED BY <1>1, <2>1
<1>4. ASSUME NEW m \in 1 .. N, m - 1 \in T PROVE m \in T
  <2>1. PICK f : Is(f, m - 1)
    BY <1>4
  <2> DEFINE g == [n \in 0 .. m |-> IF n = m THEN StepOf(f[m - 1], m) ELSE f[n]]
  <2>2. ASSUME NEW n \in 0 .. m PROVE g[n] = IF n = 0 THEN << >> ELSE StepOf(g[n - 1], n)
    <3>1. CASE n = 0
      <4>1. n # m /\ 0 \in 0 .. m - 1
        BY <1>1, <3>1
      <4> QED BY <2>1, <3>1, <4>1
    <3>2. CASE n = m
      <4>1. n # 0 /\ n - 1 \in 0 .. m /\ n - 1 # m
        BY <1>1, <3>2
      <4> QED BY <3>2, <4>1
    <3>3. CASE n # 0 /\ n # m
      <4>1. n \in 0 .. m - 1 /\ n - 1 \in 0 .. m - 1 /\ n - 1 \in 0 .. m /\ n - 1 # m
        BY <1>1, <3>3
      <4> QED BY <2>1, <3>3, <4>1
    <3> QED BY <3>1, <3>2, <3>3
  <2>3. g = [n \in 0 .. m |-> g[n]]
    OBVIOUS
  <2> HIDE DEF g
  <2>4. Is(g, m)
    BY <2>2, <2>3
  <2> HIDE DEF Is
  <2> QED BY <1>1, <2>4
<1>5. N \in T
  <2>1. 0 .. N \subseteq T
    <3> HIDE DEF T
    <3> QED BY <1>1, <1>3, <1>4, UpTo
  <2>2. N \in 0 .. N
    BY <1>1
  <2> HIDE DEF T
  <2> QED BY <2>1, <2>2
<1>6. Is(map, N)
  <2> HIDE DEF Is
  <2> QED BY <1>2, <1>5
<1>7. map[0] = << >> /\ \A n \in 1 .. N : map[n] = StepOf(map[n - 1], n)
  <2>1. 0 \in 0 .. N /\ \A n \in 1 .. N : n \in 0 .. N /\ n # 0
    BY <1>1
  <2> QED BY <1>6, <2>1
<1> QED BY <1>7 DEF map, N, StepOf

(* The value a map holds for a key, and a map of keys to values.            *)
OfMap(map, k) == IF k \in DOMAIN map THEN {map[k]} ELSE {}

MapOK(map) ==
    /\ map = [k \in DOMAIN map |-> map[k]]
    /\ DOMAIN map \subseteq Keys /\ IsFiniteSet(DOMAIN map)
    /\ \A k \in DOMAIN map : map[k] \in Vals

(* A table added to a map: the values of its keys are its own.              *)
LEMMA UponHolds ==
  ASSUME NEW map, MapOK(map), NEW t, TableOK(t), NEW u, u = Upon(map, t)
  PROVE  /\ MapOK(u) /\ DOMAIN u # {}
         /\ \A k : OfMap(u, k) = IF Holding(t, k) # {} THEN Holding(t, k) ELSE OfMap(map, k)
<1> DEFINE D == DOMAIN map \cup KeysOf(t)
           at(k) == IF k \in KeysOf(t) THEN CHOOSE v \in Holding(t, k) : TRUE ELSE map[k]
<1>1. /\ t \in Seq(Keys \X Vals) /\ t # << >> /\ InKeyOrder(t)
  BY DEF TableOK
<1>2. /\ KeysOf(t) \subseteq Keys /\ IsFiniteSet(KeysOf(t))
      /\ \A k : k \in KeysOf(t) <=> Holding(t, k) # {}
      /\ \A k \in KeysOf(t) : \E v \in Vals : Holding(t, k) = {v}
  BY <1>1, TableFacts
<1>3. u = [k \in D |-> at(k)]
  BY DEF Upon
<1>4. ASSUME NEW k \in KeysOf(t) PROVE at(k) \in Vals /\ {at(k)} = Holding(t, k)
  <2>1. PICK v \in Vals : Holding(t, k) = {v}
    BY <1>2
  <2>2. (CHOOSE w \in Holding(t, k) : TRUE) = v
    BY <2>1
  <2> QED BY <2>1, <2>2
<1>5. \A k \in DOMAIN map : k \notin KeysOf(t) => at(k) = map[k]
  OBVIOUS
<1>6. /\ DOMAIN map \subseteq Keys /\ IsFiniteSet(DOMAIN map)
      /\ \A k \in DOMAIN map : map[k] \in Vals
  BY DEF MapOK
<1>7. IsFiniteSet(D)
  BY <1>2, <1>6, FS_Union
<1> HIDE DEF at
<1>8. DOMAIN u = D /\ u = [k \in D |-> u[k]] /\ \A k \in D : u[k] = at(k)
  BY <1>3
<1>9. MapOK(u)
  <2>1. \A k \in D : u[k] \in Vals
    BY <1>4, <1>5, <1>6, <1>8
  <2>2. D \subseteq Keys
    BY <1>2, <1>6
  <2> HIDE DEF D
  <2> QED BY <1>7, <1>8, <2>1, <2>2 DEF MapOK
<1>10. DOMAIN u # {}
  <2>1. 1 \in DOMAIN t
    BY <1>1
  <2>2. t[1][1] \in KeysOf(t)
    BY <2>1 DEF KeysOf
  <2> QED BY <1>8, <2>2
<1>11. ASSUME NEW k
       PROVE  OfMap(u, k) = IF Holding(t, k) # {} THEN Holding(t, k) ELSE OfMap(map, k)
  <2>1. CASE k \in KeysOf(t)
    <3>1. OfMap(u, k) = {at(k)}
      BY <1>8, <2>1 DEF OfMap
    <3> QED BY <1>2, <1>4, <2>1, <3>1
  <2>2. CASE k \notin KeysOf(t)
    <3>1. OfMap(u, k) = OfMap(map, k)
      BY <1>5, <1>8, <2>2 DEF OfMap
    <3> QED BY <1>2, <2>2, <3>1
  <2> QED BY <2>1, <2>2
<1> QED BY <1>9, <1>10, <1>11

(* The tables under some ids, and inputs of a compaction: older ones first. *)
Only(files, ids) == [id \in ids |-> files[id]]

IdsTo(metas, n) == {metas[i].id : i \in 1 .. n}

InputsOK(db, metas) ==
    /\ metas \in Seq(Meta) /\ ByAge(metas)
    /\ \A i \in 1 .. Len(metas) :
          /\ metas[i].id \in DOMAIN db.tables /\ metas[i].id > 0
          /\ TableOK(db.tables[metas[i].id])

(* all_entries holds for each key what the newest input holds.              *)
LEMMA FilledHolds ==
  ASSUME NEW db, NEW metas, InputsOK(db, metas), NEW map, map = Filled(db, metas)[Len(metas)]
  PROVE  /\ MapOK(map) /\ (Len(metas) # 0 => DOMAIN map # {})
         /\ \A k : OfMap(map, k) = Newest(Only(db.tables, IdsTo(metas, Len(metas))), k)
<1> DEFINE N == Len(metas)
           f == Filled(db, metas)
           files(n) == Only(db.tables, IdsTo(metas, n))
           Good(n) == /\ MapOK(f[n]) /\ (n # 0 => DOMAIN f[n] # {})
                      /\ \A k : OfMap(f[n], k) = Newest(files(n), k)
           T == {n \in 0 .. N : Good(n)}
<1>1. /\ N \in Nat /\ DOMAIN metas = 1 .. N /\ \A i \in 1 .. N : metas[i] \in Meta
      /\ \A i, j \in 1 .. N : i < j => metas[i].id < metas[j].id
      /\ \A i \in 1 .. N : metas[i].id > 0 /\ TableOK(db.tables[metas[i].id])
  BY DEF InputsOK, ByAge
<1>2. \A i \in 1 .. N : metas[i].id \in Nat
  BY <1>1, MetaParts
<1>3. /\ f[0] = << >>
      /\ \A n \in 1 .. N : f[n] = Upon(f[n - 1], db.tables[metas[n].id])
  <2>1. Len(metas) \in Nat
    BY <1>1
  <2> HIDE DEF f
  <2> QED BY <2>1, FilledSteps DEF f
<1>4. map = f[N]
  OBVIOUS
<1> HIDE DEF N, f
<1>5. Good(0)
  <2>1. DOMAIN << >> = {} /\ << >> = [k \in DOMAIN << >> |-> << >>[k]]
    OBVIOUS
  <2>2. IsFiniteSet({})
    BY FS_EmptySet
  <2>3. MapOK(<< >>)
    <3> DEFINE e == << >>
    <3>1. e = [k \in DOMAIN e |-> e[k]] /\ DOMAIN e = {}
      BY <2>1
    <3> HIDE DEF e
    <3>2. MapOK(e)
      BY <2>2, <3>1 DEF MapOK
    <3> QED BY <3>2 DEF e
  <2>4. IdsTo(metas, 0) = {}
    BY DEF IdsTo
  <2>5. \A k : Newest(files(0), k) = {}
    <3>1. DOMAIN files(0) = {}
      BY <2>4 DEF Only
    <3> HIDE DEF files
    <3> QED BY <3>1 DEF Newest, None
  <2>6. \A k : OfMap(<< >>, k) = {}
    BY <2>1 DEF OfMap
  <2> HIDE DEF files
  <2> QED BY <1>3, <2>3, <2>5, <2>6
<1>6. ASSUME NEW n \in 1 .. N, Good(n - 1) PROVE Good(n)
  <2> DEFINE id == metas[n].id
             t == db.tables[id]
             old == files(n - 1)
             new == files(n)
  <2>1. id \in Nat /\ id > 0 /\ TableOK(t)
    BY <1>1, <1>2
  <2>2. IdsTo(metas, n) = IdsTo(metas, n - 1) \cup {id}
    <3>1. \A i : i \in 1 .. n <=> i \in 1 .. n - 1 \/ i = n
      BY <1>1
    <3> QED BY <3>1 DEF IdsTo
  <2>3. IdsTo(metas, n - 1) \subseteq 0 .. id - 1
    <3> SUFFICES ASSUME NEW i \in 1 .. n - 1 PROVE metas[i].id \in 0 .. id - 1
      BY DEF IdsTo
    <3>1. i \in 1 .. N /\ i < n
      BY <1>1
    <3>2. metas[i].id < id /\ metas[i].id \in Nat
      BY <1>1, <1>2, <3>1
    <3> HIDE DEF id
    <3> QED BY <2>1, <3>2
  <2> HIDE DEF id
  <2>4. /\ DOMAIN old = IdsTo(metas, n - 1)
        /\ new = Added(old, id, t)
    BY <2>2 DEF Only, Added
  <2>5. f[n] = Upon(f[n - 1], t)
    BY <1>3 DEF id
  <2> HIDE DEF t, old, new
  <2>6. ASSUME NEW k
        PROVE Newest(new, k) = IF Holding(t, k) # {} THEN Holding(t, k) ELSE Newest(old, k)
    <3> DEFINE m == id - 1
    <3>1. m \in Nat /\ id > m /\ DOMAIN old \subseteq 0 .. m
      BY <2>1, <2>3, <2>4
    <3> HIDE DEF m
    <3> QED BY <2>1, <2>4, <3>1, NewestAdded
  <2>7. /\ MapOK(f[n]) /\ DOMAIN f[n] # {}
        /\ \A k : OfMap(f[n], k) = IF Holding(t, k) # {} THEN Holding(t, k)
                                                         ELSE OfMap(f[n - 1], k)
    <3>1. MapOK(f[n - 1])
      BY <1>6
    <3> DEFINE x == f[n - 1]
               u == f[n]
    <3>2. u = Upon(x, t) /\ MapOK(x)
      BY <2>5, <3>1
    <3> HIDE DEF x, u
    <3> QED BY <2>1, <3>2, UponHolds DEF x, u
  <2>8. \A k : OfMap(f[n - 1], k) = Newest(old, k)
    BY <1>6 DEF old
  <2>9. \A k : OfMap(f[n], k) = Newest(new, k)
    BY <2>6, <2>7, <2>8
  <2> QED BY <2>7, <2>9 DEF new
<1> HIDE DEF Good
<1>7. N \in T
  <2>1. 0 .. N \subseteq T
    <3>1. 0 \in T
      BY <1>1, <1>5
    <3>2. \A i \in 1 .. N : i - 1 \in T => i \in T
      BY <1>1, <1>6
    <3> HIDE DEF T
    <3> QED BY <1>1, <3>1, <3>2, UpTo
  <2> QED BY <1>1, <2>1
<1>8. Good(N)
  BY <1>7
<1> QED BY <1>4, <1>8 DEF Good, N

(* The table a compaction makes: sorted, and for each key it holds what the *)
(* newest input holds.                                                      *)
LEMMA MergedOK ==
  ASSUME NEW db, NEW metas, InputsOK(db, metas), Len(metas) # 0,
         NEW t, t = MergedEntries(db, metas)
  PROVE  /\ TableOK(t)
         /\ \A k : Holding(t, k) = Newest(Only(db.tables, IdsTo(metas, Len(metas))), k)
<1> DEFINE map == Filled(db, metas)[Len(metas)]
           keys == Ordered(DOMAIN map, Less)
           n == Len(keys)
<1>1. /\ MapOK(map) /\ DOMAIN map # {}
      /\ \A k : OfMap(map, k) = Newest(Only(db.tables, IdsTo(metas, Len(metas))), k)
  BY FilledHolds
<1>2. t = [i \in DOMAIN keys |-> << keys[i], map[keys[i]] >>]
  BY DEF MergedEntries
<1> HIDE DEF map
<1>3. DOMAIN map \subseteq Keys /\ IsFiniteSet(DOMAIN map) /\ \A k \in DOMAIN map : map[k] \in Vals
  BY <1>1 DEF MapOK
<1> DEFINE D == DOMAIN map
<1>4. /\ keys \in Seq(Keys) /\ Range(keys) = D
      /\ \A i, j \in 1 .. Len(keys) : i < j => Less(keys[i], keys[j])
  <2>1. D \subseteq Keys /\ IsFiniteSet(D) /\ keys = Ordered(D, Less)
    BY <1>3
  <2> HIDE DEF D, keys
  <2> QED BY <2>1, OrderedKeys
<1> HIDE DEF keys
<1>5. n \in Nat /\ DOMAIN keys = 1 .. n /\ \A i \in 1 .. n : keys[i] \in Keys
  BY <1>4
<1> HIDE DEF n
<1>6. D = {keys[i] : i \in 1 .. n}
  BY <1>4, <1>5 DEF Range
<1>7. \A i \in 1 .. n : t[i] = << keys[i], map[keys[i]] >> /\ keys[i] \in D
  BY <1>2, <1>5, <1>6
<1>8. t \in Seq(Keys \X Vals) /\ DOMAIN t = 1 .. n /\ Len(t) = n
  <2>1. \A i \in 1 .. n : << keys[i], map[keys[i]] >> \in Keys \X Vals
    BY <1>3, <1>5, <1>7
  <2>2. t = [i \in 1 .. n |-> << keys[i], map[keys[i]] >>]
    BY <1>2, <1>5
  <2> QED BY <1>5, <2>1, <2>2
<1>9. \A i \in 1 .. n : t[i][1] = keys[i] /\ t[i][2] = map[keys[i]]
  BY <1>7
<1>10. InKeyOrder(t)
  <2>1. \A i, j \in 1 .. n : i < j => Less(keys[i], keys[j])
    BY <1>4 DEF n
  <2> QED BY <1>8, <1>9, <2>1 DEF InKeyOrder
<1>11. t # << >>
  <2>1. \E i : i \in 1 .. n
    BY <1>1, <1>6
  <2>2. n # 0
    BY <1>5, <2>1
  <2> QED BY <1>8, <2>2
<1>12. TableOK(t)
  BY <1>8, <1>10, <1>11 DEF TableOK
<1>13. ASSUME NEW k PROVE Holding(t, k) = OfMap(map, k)
  <2>1. /\ \A x : x \in KeysOf(t) <=> Holding(t, x) # {}
        /\ \A i \in 1 .. Len(t) : Holding(t, t[i][1]) = {t[i][2]}
    BY <1>8, <1>10, TableFacts
  <2>2. CASE k \in D
    <3>1. PICK i \in 1 .. n : k = keys[i]
      BY <1>6, <2>2
    <3>2. i \in 1 .. Len(t) /\ t[i][1] = k /\ t[i][2] = map[k]
      BY <1>8, <1>9, <3>1
    <3>3. Holding(t, k) = {map[k]}
      BY <2>1, <3>2
    <3> QED BY <2>2, <3>3 DEF OfMap
  <2>3. CASE k \notin D
    <3>1. KeysOf(t) = {t[i][1] : i \in 1 .. n}
      BY <1>8 DEF KeysOf
    <3>2. k \notin KeysOf(t)
      BY <1>6, <1>9, <2>3, <3>1
    <3> QED BY <2>1, <2>3, <3>2 DEF OfMap
  <2> QED BY <2>2, <2>3
<1> QED BY <1>1, <1>12, <1>13

----------------------------------------------------------------------------
(* The store of files: adding one, removing one, removing many.             *)

(* A meta added to a level: it comes last there, and the other level stays. *)
LEMMA AddMetaAt ==
  ASSUME NEW db, db.levels \in Seq(Seq(Meta)), Len(db.levels) <= 2, NEW level \in {0, 1},
         NEW m \in Meta, NEW db2, db2.levels = AddMeta(db.levels, level, m)
  PROVE  /\ db2.levels \in Seq(Seq(Meta)) /\ Len(db2.levels) <= 2
         /\ level = 1 => Len(db2.levels) = 2
         /\ MetasAt(db2, level) = Append(MetasAt(db, level), m)
         /\ MetasAt(db2, 1 - level) = MetasAt(db, 1 - level)
<1> DEFINE ls == db.levels
           n == Len(ls)
           T == {n, level + 1}
           top == Max(T)
           old(i) == IF i <= n THEN ls[i] ELSE << >>
           new == db2.levels
<1>1. n \in Nat /\ n <= 2
  BY LenProperties
<1>2. \A i \in 1 .. n : ls[i] \in Seq(Meta)
  OBVIOUS
<1>3. new = [i \in 1 .. top |-> IF i = level + 1 THEN Append(old(i), m) ELSE old(i)]
  BY DEF AddMeta
<1> HIDE DEF n, ls, new
<1>4. top \in T /\ \A k \in T : top >= k
  <2>1. T \subseteq 0 .. 2 /\ T # {}
    BY <1>1
  <2> HIDE DEF T
  <2> QED BY <2>1, MaxIsGreatest
<1>5. top \in {n, level + 1} /\ top >= n /\ top >= level + 1
  BY <1>4
<1> HIDE DEF top
<1>6. top \in Nat /\ top <= 2 /\ (level = 1 => top = 2) /\ (top > n => top = level + 1)
  BY <1>1, <1>5
<1>7. \A i \in Nat \ {0} : old(i) \in Seq(Meta)
  <2> SUFFICES ASSUME NEW i \in Nat \ {0} PROVE old(i) \in Seq(Meta)
    OBVIOUS
  <2>1. CASE i <= n
    <3>1. i \in 1 .. n
      BY <1>1, <2>1
    <3> QED BY <1>2, <2>1, <3>1
  <2>2. CASE ~(i <= n)
    <3>1. << >> \in Seq(Meta)
      OBVIOUS
    <3> QED BY <2>2, <3>1
  <2> QED BY <2>1, <2>2
<1>8. DOMAIN new = 1 .. top
      /\ \A i \in 1 .. top : new[i] = IF i = level + 1 THEN Append(old(i), m) ELSE old(i)
  <2> HIDE DEF old
  <2> QED BY <1>3
<1>9. new \in Seq(Seq(Meta)) /\ Len(new) = top
  <2>1. \A i \in 1 .. top : new[i] \in Seq(Meta)
    <3> SUFFICES ASSUME NEW i \in 1 .. top PROVE new[i] \in Seq(Meta)
      OBVIOUS
    <3>1. old(i) \in Seq(Meta)
      BY <1>6, <1>7
    <3> HIDE DEF old
    <3>2. Append(old(i), m) \in Seq(Meta)
      BY <3>1, AppendProperties
    <3> QED BY <1>8, <3>1, <3>2
  <2>2. new = [i \in 1 .. top |-> new[i]]
    <3> HIDE DEF old
    <3> QED BY <1>3
  <2> DEFINE S == Seq(Meta)
  <2>3. \A i \in 1 .. top : new[i] \in S
    BY <2>1
  <2> HIDE DEF S
  <2>4. new \in Seq(S) /\ Len(new) = top
    BY <1>6, <2>2, <2>3
  <2> QED BY <2>4 DEF S
<1>10. \A l \in {0, 1} : MetasAt(db, l) = old(l + 1)
  <2> SUFFICES ASSUME NEW l \in {0, 1} PROVE MetasAt(db, l) = old(l + 1)
    OBVIOUS
  <2>1. l + 1 <= n <=> l < n
    BY <1>1
  <2> QED BY <2>1 DEF MetasAt, ls, n
<1>11. \A l \in {0, 1} : MetasAt(db2, l) = IF l < top THEN new[l + 1] ELSE << >>
  BY <1>9 DEF MetasAt, new
<1>12. MetasAt(db2, level) = Append(old(level + 1), m)
  <2>1. level < top /\ level + 1 \in 1 .. top
    BY <1>1, <1>5, <1>6
  <2> HIDE DEF old
  <2> QED BY <1>8, <1>11, <2>1
<1>13. MetasAt(db2, 1 - level) = old(1 - level + 1)
  <2> DEFINE l == 1 - level
  <2>1. l \in {0, 1} /\ l # level /\ l \in Nat /\ l + 1 # level + 1
    OBVIOUS
  <2> HIDE DEF l
  <2>2. CASE l < top
    <3>1. l + 1 \in 1 .. top
      BY <1>6, <2>1, <2>2
    <3> HIDE DEF old
    <3>2. MetasAt(db2, l) = old(l + 1)
      BY <1>8, <1>11, <2>1, <2>2, <3>1
    <3> QED BY <3>2 DEF l
  <2>3. CASE ~(l < top)
    <3>1. ~(l + 1 <= n)
      BY <1>1, <1>5, <1>6, <2>1, <2>3
    <3>2. old(l + 1) = << >>
      BY <3>1
    <3> HIDE DEF old
    <3>3. MetasAt(db2, l) = old(l + 1)
      BY <1>11, <2>1, <2>3, <3>2
    <3> QED BY <3>3 DEF l
  <2> QED BY <2>2, <2>3
<1>14. MetasAt(db, level) = old(level + 1) /\ MetasAt(db, 1 - level) = old(1 - level + 1)
  <2>1. 1 - level \in {0, 1}
    OBVIOUS
  <2> HIDE DEF old
  <2> QED BY <1>10, <2>1
<1> HIDE DEF old
<1> QED BY <1>6, <1>9, <1>12, <1>13, <1>14 DEF new

(* What the files satisfy throughout a compaction too: FilesOK, but for the *)
(* order of age between the levels and the ranges of keys on level 1.       *)
StoreOK(db) ==
    LET L0 == MetasAt(db, 0)
        L1 == MetasAt(db, 1)
    IN  /\ db.tables = [id \in DOMAIN db.tables |-> db.tables[id]]
        /\ db.next \in Nat \ {0} /\ DOMAIN db.tables \subseteq 1 .. db.next - 1
        /\ \A id \in DOMAIN db.tables : TableOK(db.tables[id])
        /\ db.levels \in Seq(Seq(Meta)) /\ Len(db.levels) <= 2
        /\ {m.id : m \in Range(L0) \cup Range(L1)} = DOMAIN db.tables
        /\ \A m \in Range(L0) \cup Range(L1) : m = MetaOf(m.id, db.tables[m.id])
        /\ ByAge(L0) /\ ByAge(L1)
        /\ \A m0 \in Range(L0), m1 \in Range(L1) : m0.id # m1.id
        /\ db.readers \in Seq(Nat) /\ Range(db.readers) = DOMAIN db.tables
        /\ IsInjective(db.readers)

(* The order of age and the ranges of keys.                                 *)
Older(db) == \A m0 \in Range(MetasAt(db, 0)), m1 \in Range(MetasAt(db, 1)) : m1.id < m0.id

Apart(db) ==
    \A m, o \in Range(MetasAt(db, 1)) : m = o \/ Less(m.max, o.min) \/ Less(o.max, m.min)

(* The metas on the levels.                                                 *)
LEMMA LevelsTyped ==
  ASSUME NEW db, db.levels \in Seq(Seq(Meta)), NEW level \in {0, 1}
  PROVE  /\ MetasAt(db, level) \in Seq(Meta) /\ Range(MetasAt(db, level)) \subseteq Meta
         /\ \A m \in Range(MetasAt(db, level)) : m.id \in Nat
<1> DEFINE metas == MetasAt(db, level)
<1>1. level \in Nat
  OBVIOUS
<1>2. metas \in Seq(Meta)
  BY <1>1, LevelMetas
<1> HIDE DEF metas
<1>3. Range(metas) \subseteq Meta
  BY <1>2 DEF Range
<1>4. \A m \in Range(metas) : m.id \in Nat
  BY <1>3, MetaParts
<1> QED BY <1>2, <1>3, <1>4 DEF metas

(* FilesOK in parts.                                                        *)
LEMMA FilesParts ==
  ASSUME NEW db
  PROVE  FilesOK(db) <=> StoreOK(db) /\ Older(db) /\ Apart(db)
<1>1. ASSUME FilesOK(db) PROVE StoreOK(db) /\ Older(db) /\ Apart(db)
  <2>1. \A m0 \in Range(MetasAt(db, 0)) : m0.id \in Nat
    <3>1. db.levels \in Seq(Seq(Meta)) /\ 0 \in {0, 1}
      BY <1>1 DEF FilesOK
    <3> QED BY <3>1, LevelsTyped
  <2>2. \A m1 \in Range(MetasAt(db, 1)) : m1.id \in Nat
    <3>1. db.levels \in Seq(Seq(Meta)) /\ 1 \in {0, 1}
      BY <1>1 DEF FilesOK
    <3> QED BY <3>1, LevelsTyped
  <2>3. Older(db) /\ Apart(db)
    BY <1>1 DEF FilesOK, Older, Apart
  <2>4. \A m0 \in Range(MetasAt(db, 0)), m1 \in Range(MetasAt(db, 1)) : m0.id # m1.id
    BY <2>1, <2>2, <2>3 DEF Older
  <2> QED BY <1>1, <2>3, <2>4 DEF FilesOK, StoreOK
<1>2. ASSUME StoreOK(db), Older(db), Apart(db) PROVE FilesOK(db)
  BY <1>2 DEF FilesOK, StoreOK, Older, Apart
<1> QED BY <1>1, <1>2

(* What the files satisfy, as seen from one level.                          *)
SeenFrom(db, a, b) ==
    /\ {m.id : m \in Range(a) \cup Range(b)} = DOMAIN db.tables
    /\ \A m \in Range(a) \cup Range(b) : m = MetaOf(m.id, db.tables[m.id])
    /\ ByAge(a) /\ ByAge(b)
    /\ \A m \in Range(a), o \in Range(b) : m.id # o.id

StoreBase(db) ==
    /\ db.tables = [id \in DOMAIN db.tables |-> db.tables[id]]
    /\ db.next \in Nat \ {0} /\ DOMAIN db.tables \subseteq 1 .. db.next - 1
    /\ \A id \in DOMAIN db.tables : TableOK(db.tables[id])
    /\ db.levels \in Seq(Seq(Meta)) /\ Len(db.levels) <= 2
    /\ db.readers \in Seq(Nat) /\ Range(db.readers) = DOMAIN db.tables
    /\ IsInjective(db.readers)

(* It makes no difference from which.                                       *)
LEMMA StoreSeen ==
  ASSUME NEW db, NEW level \in {0, 1}
  PROVE  StoreOK(db) <=>
           StoreBase(db) /\ SeenFrom(db, MetasAt(db, level), MetasAt(db, 1 - level))
<1> DEFINE L0 == MetasAt(db, 0)
           L1 == MetasAt(db, 1)
<1>1. StoreOK(db) <=> StoreBase(db) /\ SeenFrom(db, L0, L1)
  BY DEF StoreOK, StoreBase, SeenFrom
<1>2. SeenFrom(db, L0, L1) <=> SeenFrom(db, L1, L0)
  <2>1. Range(L0) \cup Range(L1) = Range(L1) \cup Range(L0)
    OBVIOUS
  <2> HIDE DEF L0, L1
  <2> QED BY <2>1 DEF SeenFrom
<1>3. CASE level = 0
  <2>1. 1 - level = 1
    BY <1>3
  <2> QED BY <1>1, <1>3, <2>1
<1>4. CASE level = 1
  <2>1. 1 - level = 0
    BY <1>4
  <2> QED BY <1>1, <1>2, <1>4, <2>1
<1> QED BY <1>3, <1>4

(* A table's meta.                                                          *)
LEMMA MetaTyped ==
  ASSUME NEW t, TableOK(t), NEW id \in Nat
  PROVE  MetaOf(id, t) \in Meta /\ MetaOf(id, t).id = id
<1>1. t[1][1] \in Keys /\ t[Len(t)][1] \in Keys
  BY TableFacts DEF TableOK
<1> QED BY <1>1 DEF MetaOf, Meta

(* A new SSTable under the next id.                                         *)
AddedTo(db, db2, level, t) ==
    /\ db2.next = db.next + 1 /\ db2.tables = Added(db.tables, db.next, t)
    /\ Range(MetasAt(db2, level)) = Range(MetasAt(db, level)) \cup {MetaOf(db.next, t)}
    /\ MetasAt(db2, 1 - level) = MetasAt(db, 1 - level)
    /\ level = 1 => Len(db2.levels) = 2

(* It keeps the files as they should be.                                    *)
LEMMA AddKeeps ==
  ASSUME NEW db, StoreOK(db), NEW level \in {0, 1}, NEW t, TableOK(t),
         NEW db2, db2 = AddSst(db, level, t)
  PROVE  StoreOK(db2) /\ AddedTo(db, db2, level, t)
<1> DEFINE id == db.next
           m == MetaOf(id, t)
           a == MetasAt(db, level)
           b == MetasAt(db, 1 - level)
           a2 == MetasAt(db2, level)
           b2 == MetasAt(db2, 1 - level)
           held == db.readers
           D == DOMAIN db.tables
<1>1. StoreBase(db) /\ SeenFrom(db, a, b)
  BY StoreSeen
<1>2. /\ id \in Nat \ {0} /\ D \subseteq 1 .. id - 1
      /\ db.levels \in Seq(Seq(Meta)) /\ Len(db.levels) <= 2
      /\ held \in Seq(Nat) /\ Range(held) = D /\ IsInjective(held)
      /\ \A x \in D : TableOK(db.tables[x])
  BY <1>1 DEF StoreBase
<1>3. m \in Meta /\ m.id = id
  BY <1>2, MetaTyped
<1>4. /\ db2.levels = AddMeta(db.levels, level, m) /\ db2.tables = Added(db.tables, id, t)
      /\ db2.readers = Append(held, id) /\ db2.next = id + 1
  BY DEF AddSst, MetaOf, Added
<1>5. /\ db2.levels \in Seq(Seq(Meta)) /\ Len(db2.levels) <= 2
      /\ level = 1 => Len(db2.levels) = 2
      /\ a2 = Append(a, m) /\ b2 = b
  <2> HIDE DEF m
  <2> QED BY <1>2, <1>3, <1>4, AddMetaAt
<1>6. /\ a \in Seq(Meta) /\ b \in Seq(Meta) /\ Range(a) \subseteq Meta /\ Range(b) \subseteq Meta
  <2>1. 1 - level \in {0, 1}
    OBVIOUS
  <2> QED BY <1>2, <2>1, LevelsTyped
<1>7. /\ {x.id : x \in Range(a) \cup Range(b)} = D
      /\ \A x \in Range(a) \cup Range(b) : x = MetaOf(x.id, db.tables[x.id])
      /\ ByAge(a) /\ ByAge(b)
      /\ \A x \in Range(a), o \in Range(b) : x.id # o.id
  BY <1>1 DEF SeenFrom
<1>8. id \notin D
  BY <1>2
<1>9. DOMAIN db2.tables = D \cup {id} /\ db2.tables[id] = t
      /\ \A x \in D : db2.tables[x] = db.tables[x]
  BY <1>4, <1>8 DEF Added
<1>10. db2.tables = [x \in DOMAIN db2.tables |-> db2.tables[x]]
  BY <1>4 DEF Added
<1> HIDE DEF m, a, b, a2, b2, D, id, held
<1>11. /\ Len(a) \in Nat /\ Len(a2) = Len(a) + 1 /\ a2[Len(a) + 1] = m
       /\ \A i \in 1 .. Len(a) : a2[i] = a[i]
       /\ Range(a2) = Range(a) \cup {m} /\ a2 \in Seq(Meta)
  BY <1>3, <1>5, <1>6, Appended
<1>12. ByAge(a2)
  <2> DEFINE n == Len(a)
  <2>1. DOMAIN a2 = 1 .. n + 1 /\ DOMAIN a = 1 .. n
    BY <1>6, <1>11
  <2>2. \A i \in 1 .. n : a2[i] = a[i] /\ a[i] \in Range(a)
    BY <1>11, <2>1 DEF Range
  <2>3. \A i \in 1 .. n : a2[i].id \in D /\ a2[i].id < id
    <3>1. \A x \in D : x < id
      BY <1>2
    <3> QED BY <1>7, <2>2, <3>1
  <2>4. \A i, j \in 1 .. n : i < j => a[i].id < a[j].id
    BY <1>7, <2>1 DEF ByAge
  <2> HIDE DEF n
  <2>5. ASSUME NEW i \in 1 .. n + 1, NEW j \in 1 .. n + 1, i < j PROVE a2[i].id < a2[j].id
    <3>1. n \in Nat
      BY <1>11 DEF n
    <3>2. i \in 1 .. n
      BY <2>5, <3>1
    <3>3. CASE j = n + 1
      <4>1. a2[j].id = id
        BY <1>3, <1>11, <3>3 DEF n
      <4> QED BY <2>3, <3>2, <4>1
    <3>4. CASE j # n + 1
      <4>1. j \in 1 .. n
        BY <3>1, <3>4
      <4> QED BY <2>2, <2>4, <2>5, <3>2, <4>1
    <3> QED BY <3>3, <3>4
  <2> QED BY <2>1, <2>5 DEF ByAge
<1>13. SeenFrom(db2, a2, b2)
  <2>1. {x.id : x \in Range(a2) \cup Range(b2)} = DOMAIN db2.tables
    <3>1. Range(a2) \cup Range(b2) = (Range(a) \cup Range(b)) \cup {m}
      BY <1>5, <1>11
    <3> QED BY <1>3, <1>7, <1>9, <3>1
  <2>2. ASSUME NEW x \in Range(a2) \cup Range(b2) PROVE x = MetaOf(x.id, db2.tables[x.id])
    <3>1. CASE x = m
      BY <1>3, <1>9, <3>1 DEF m
    <3>2. CASE x \in Range(a) \cup Range(b)
      <4>1. x.id \in D
        BY <1>7, <3>2
      <4> QED BY <1>7, <1>9, <3>2, <4>1
    <3> QED BY <1>5, <1>11, <2>2, <3>1, <3>2
  <2>3. ASSUME NEW x \in Range(a2), NEW o \in Range(b2) PROVE x.id # o.id
    <3>1. o \in Range(b) /\ o.id \in D
      BY <1>5, <1>7
    <3> QED BY <1>3, <1>7, <1>8, <1>11, <3>1
  <2> QED BY <1>5, <1>7, <1>12, <2>1, <2>2, <2>3 DEF SeenFrom
<1>14. /\ db2.readers \in Seq(Nat) /\ Range(db2.readers) = DOMAIN db2.tables
       /\ IsInjective(db2.readers)
  <2> DEFINE n == Len(held)
             r == db2.readers
  <2>1. id \in Nat
    BY <1>2
  <2>2. /\ r \in Seq(Nat) /\ Len(r) = n + 1 /\ n \in Nat /\ r[n + 1] = id
        /\ \A i \in 1 .. n : r[i] = held[i]
        /\ Range(r) = Range(held) \cup {id}
    <3>1. held \in Seq(Nat) /\ r = Append(held, id)
      BY <1>2, <1>4
    <3> HIDE DEF r
    <3> QED BY <2>1, <3>1, Appended
  <2>3. DOMAIN r = 1 .. n + 1 /\ DOMAIN held = 1 .. n
    BY <1>2, <2>2
  <2>4. \A i \in 1 .. n : r[i] \in D
    BY <1>2, <2>2, <2>3 DEF Range
  <2>5. \A i, j \in 1 .. n : held[i] = held[j] => i = j
    BY <1>2, <2>3 DEF IsInjective
  <2> HIDE DEF r, n
  <2>6. \A i, j \in 1 .. n + 1 : r[i] = r[j] => i = j
    <3> SUFFICES ASSUME NEW i \in 1 .. n + 1, NEW j \in 1 .. n + 1, r[i] = r[j] PROVE i = j
      OBVIOUS
    <3>1. (i \in 1 .. n \/ i = n + 1) /\ (j \in 1 .. n \/ j = n + 1)
      BY <2>2
    <3> QED BY <1>8, <2>2, <2>4, <2>5, <3>1
  <2>7. IsInjective(r)
    BY <2>3, <2>6 DEF IsInjective
  <2> QED BY <1>2, <1>9, <2>2, <2>7 DEF r
<1>15. StoreBase(db2)
  <2>1. db2.next \in Nat \ {0} /\ DOMAIN db2.tables \subseteq 1 .. db2.next - 1
    <3>1. /\ id + 1 \in Nat \ {0} /\ (id + 1) - 1 = id
          /\ id \in 1 .. id /\ 1 .. id - 1 \subseteq 1 .. id
      BY <1>2
    <3> QED BY <1>2, <1>4, <1>9, <3>1
  <2>2. \A x \in DOMAIN db2.tables : TableOK(db2.tables[x])
    BY <1>2, <1>9
  <2> QED BY <1>5, <1>10, <1>14, <2>1, <2>2 DEF StoreBase
<1>16. StoreOK(db2)
  BY <1>13, <1>15, StoreSeen DEF a2, b2
<1>17. AddedTo(db, db2, level, t)
  BY <1>4, <1>5, <1>11 DEF AddedTo, a, b, a2, b2, m, id
<1> QED BY <1>16, <1>17

(* A flush: the files are as they should be, with a new one on level 0 that *)
(* is younger than any.                                                     *)
LEMMA FlushKeeps ==
  ASSUME NEW db, FilesOK(db), NEW t, TableOK(t), NEW db2, db2 = AddSst(db, 0, t)
  PROVE  /\ FilesOK(db2) /\ AddedTo(db, db2, 0, t)
         /\ \A k : Newest(db2.tables, k) = IF Holding(t, k) # {} THEN Holding(t, k)
                                                                ELSE Newest(db.tables, k)
<1> DEFINE m == MetaOf(db.next, t)
           L0 == MetasAt(db, 0)
           L1 == MetasAt(db, 1)
<1>1. StoreOK(db) /\ Older(db) /\ Apart(db)
  BY FilesParts
<1>2. StoreOK(db2) /\ AddedTo(db, db2, 0, t)
  <2>1. 0 \in {0, 1}
    OBVIOUS
  <2> QED BY <1>1, <2>1, AddKeeps
<1>3. /\ db.next \in Nat \ {0} /\ DOMAIN db.tables \subseteq 1 .. db.next - 1
      /\ {x.id : x \in Range(L0) \cup Range(L1)} = DOMAIN db.tables
  BY <1>1 DEF StoreOK
<1>4. Range(MetasAt(db2, 0)) = Range(L0) \cup {m} /\ MetasAt(db2, 1) = L1
  <2>1. 1 - 0 = 1
    OBVIOUS
  <2> QED BY <1>2, <2>1 DEF AddedTo
<1>5. m.id = db.next
  BY <1>3, MetaTyped
<1> HIDE DEF m, L0, L1
<1>6. Older(db2)
  <2>1. \A x \in Range(L1) : x.id < db.next
    <3>1. \A x \in DOMAIN db.tables : x < db.next
      BY <1>3
    <3> QED BY <1>3, <3>1
  <2> QED BY <1>1, <1>4, <1>5, <2>1 DEF Older, L0, L1
<1>7. Apart(db2)
  BY <1>1, <1>4 DEF Apart, L1
<1>8. FilesOK(db2)
  BY <1>2, <1>6, <1>7, FilesParts
<1>9. ASSUME NEW k
      PROVE  Newest(db2.tables, k) = IF Holding(t, k) # {} THEN Holding(t, k)
                                                          ELSE Newest(db.tables, k)
  <2> DEFINE files == db.tables
             more == db2.tables
             id == db.next
             n == id - 1
  <2>1. more = Added(files, id, t)
    BY <1>2 DEF AddedTo
  <2>2. n \in Nat /\ DOMAIN files \subseteq 0 .. n /\ id \in Nat /\ id > n
    BY <1>3
  <2> HIDE DEF files, more, id, n
  <2>3. Newest(more, k) = IF Holding(t, k) # {} THEN Holding(t, k) ELSE Newest(files, k)
    BY <2>1, <2>2, NewestAdded
  <2> QED BY <2>3 DEF files, more
<1> QED BY <1>2, <1>8, <1>9

(* A level without the meta of an id keeps the order of the others.         *)
LEMMA WithoutKeeps ==
  ASSUME NEW metas \in Seq(Meta), NEW id, ByAge(metas), NEW r, r = Without(metas, id)
  PROVE  r \in Seq(Meta) /\ ByAge(r) /\ Range(r) = {m \in Range(metas) : m.id # id}
<1> DEFINE R == {p \in Meta \X Meta : p[1].id < p[2].id}
           kept == {m \in Range(metas) : m.id # id}
           n == Len(metas)
<1>1. r = Retain(metas, kept)
  BY DEF Without
<1>2. n \in Nat /\ DOMAIN metas = 1 .. n /\ \A i \in 1 .. n : metas[i] \in Meta
  OBVIOUS
<1>3. \A x, y \in Meta : << x, y >> \in R <=> x.id < y.id
  OBVIOUS
<1> HIDE DEF R, kept, n
<1>4. \A i, j \in 1 .. n : i < j => << metas[i], metas[j] >> \in R
  BY <1>2, <1>3 DEF ByAge
<1>5. /\ r \in Seq(Meta) /\ Range(r) = Range(metas) \cap kept
      /\ \A i, j \in 1 .. Len(r) : i < j => << r[i], r[j] >> \in R
  BY <1>1, <1>4, RetainKeeps DEF n
<1>6. ByAge(r)
  <2>1. DOMAIN r = 1 .. Len(r) /\ \A i \in 1 .. Len(r) : r[i] \in Meta
    BY <1>5
  <2> QED BY <1>3, <1>5, <2>1 DEF ByAge
<1> QED BY <1>5, <1>6 DEF kept

(* A manifest of two levels with no id on both.                             *)
TwoLevels(db) ==
    /\ db.levels \in Seq(Seq(Meta)) /\ Len(db.levels) = 2
    /\ ByAge(MetasAt(db, 0)) /\ ByAge(MetasAt(db, 1))
    /\ \A m \in Range(MetasAt(db, 0)), o \in Range(MetasAt(db, 1)) : m.id # o.id

(* The same without the metas of some ids.                                  *)
LeftWithout(db, db2, ids) ==
    /\ db2.levels \in Seq(Seq(Meta)) /\ Len(db2.levels) = 2
    /\ \A level \in {0, 1} :
          /\ ByAge(MetasAt(db2, level))
          /\ Range(MetasAt(db2, level)) = {m \in Range(MetasAt(db, level)) : m.id \notin ids}

(* remove_sst on such a manifest.                                           *)
LEMMA RemoveMetaAt ==
  ASSUME NEW db, TwoLevels(db), NEW id, NEW db2, db2.levels = RemoveMeta(db.levels, id)
  PROVE  LeftWithout(db, db2, {id})
<1> DEFINE ls == db.levels
           new == db2.levels
           has == {i \in DOMAIN ls : \E j \in DOMAIN ls[i] : ls[i][j].id = id}
           there(i) == IF has # {} /\ i = Min(has) THEN Without(ls[i], id) ELSE ls[i]
<1>0. ls \in Seq(Seq(Meta)) /\ Len(ls) = 2
  BY DEF TwoLevels
<1>1. DOMAIN ls = 1 .. 2 /\ \A i \in 1 .. 2 : ls[i] \in Seq(Meta)
  BY <1>0
<1>2. new = [i \in 1 .. 2 |-> there(i)]
  BY <1>1 DEF RemoveMeta
<1>3. MetasAt(db, 0) = ls[1] /\ MetasAt(db, 1) = ls[2]
  <2>1. 0 < 2 /\ 1 < 2 /\ 0 + 1 = 1 /\ 1 + 1 = 2
    OBVIOUS
  <2> QED BY <1>0, <2>1 DEF MetasAt
<1>4. ByAge(ls[1]) /\ ByAge(ls[2]) /\ \A m \in Range(ls[1]), o \in Range(ls[2]) : m.id # o.id
  BY <1>3 DEF TwoLevels
<1>5. \A i : i \in 1 .. 2 <=> i = 1 \/ i = 2
  OBVIOUS
<1> HIDE DEF ls, new
<1>6. \A i \in 1 .. 2 : i \in has <=> \E m \in Range(ls[i]) : m.id = id
  BY <1>1 DEF Range
<1>7. has \subseteq {1, 2} /\ ~(1 \in has /\ 2 \in has)
  <2>1. has \subseteq {1, 2}
    BY <1>1, <1>5
  <2>2. ~(1 \in has /\ 2 \in has)
    <3> HIDE DEF has
    <3> QED BY <1>4, <1>5, <1>6
  <2> QED BY <2>1, <2>2
<1> HIDE DEF has
<1>8. \A i \in 1 .. 2 : i \in has => has = {i}
  BY <1>5, <1>7
<1>9. \A i \in 1 .. 2 : Min({i}) = i
  <2> SUFFICES ASSUME NEW i \in 1 .. 2 PROVE Min({i}) = i
    OBVIOUS
  <2>1. {i} \subseteq Nat /\ i \in {i} /\ \A k \in {i} : i <= k
    OBVIOUS
  <2> QED BY <2>1, LeastIsMin
<1>10. ASSUME NEW i \in 1 .. 2
       PROVE  /\ there(i) \in Seq(Meta) /\ ByAge(there(i))
              /\ Range(there(i)) = {m \in Range(ls[i]) : m.id # id}
  <2>1. ByAge(ls[i]) /\ ls[i] \in Seq(Meta)
    BY <1>1, <1>4, <1>5
  <2>2. CASE i \in has
    <3>1. there(i) = Without(ls[i], id)
      BY <1>8, <1>9, <2>2
    <3> HIDE DEF there
    <3> QED BY <2>1, <3>1, WithoutKeeps
  <2>3. CASE i \notin has
    <3>1. ~(has # {} /\ i = Min(has))
      <4>1. \A x \in has : has = {x} /\ Min(has) = x
        BY <1>5, <1>7, <1>8, <1>9
      <4> QED BY <2>3, <4>1
    <3>2. there(i) = ls[i]
      BY <3>1
    <3>3. \A m \in Range(ls[i]) : m.id # id
      BY <1>6, <2>3
    <3> HIDE DEF there
    <3> QED BY <2>1, <3>2, <3>3
  <2> QED BY <2>2, <2>3
<1> HIDE DEF there
<1>11. DOMAIN new = 1 .. 2 /\ \A i \in 1 .. 2 : new[i] = there(i)
  BY <1>2
<1>12. new \in Seq(Seq(Meta)) /\ Len(new) = 2
  <2> DEFINE S == Seq(Meta)
  <2>1. \A i \in 1 .. 2 : there(i) \in S
    BY <1>10
  <2> HIDE DEF S
  <2>2. new \in Seq(S) /\ Len(new) = 2
    BY <1>2, <2>1
  <2> QED BY <2>2 DEF S
<1>13. MetasAt(db2, 0) = new[1] /\ MetasAt(db2, 1) = new[2]
  <2>1. 0 < 2 /\ 1 < 2 /\ 0 + 1 = 1 /\ 1 + 1 = 2
    OBVIOUS
  <2> QED BY <1>12, <2>1 DEF MetasAt, new
<1>14. ASSUME NEW level \in {0, 1}
       PROVE  /\ ByAge(MetasAt(db2, level))
              /\ Range(MetasAt(db2, level)) = {m \in Range(MetasAt(db, level)) : m.id # id}
  <2>1. MetasAt(db2, level) = there(level + 1) /\ MetasAt(db, level) = ls[level + 1]
        /\ level + 1 \in 1 .. 2
    <3>1. 0 + 1 = 1 /\ 1 + 1 = 2
      OBVIOUS
    <3> QED BY <1>3, <1>5, <1>11, <1>13, <3>1
  <2> QED BY <1>10, <2>1
<1>15. \A m : m.id \notin {id} <=> m.id # id
  OBVIOUS
<1> QED BY <1>12, <1>14, <1>15 DEF new, LeftWithout

(* What the removal of a file leaves.                                       *)
RemovedOne(db, db2, m) ==
    /\ StoreOK(db2) /\ Len(db2.levels) = 2 /\ db2.next = db.next
    /\ db2.tables = Only(db.tables, DOMAIN db.tables \ {m.id})
    /\ LeftWithout(db, db2, {m.id})

(* A file removed.                                                          *)
LEMMA RemoveKeeps ==
  ASSUME NEW db, StoreOK(db), Len(db.levels) = 2, NEW m,
         m \in Range(MetasAt(db, 0)) \cup Range(MetasAt(db, 1)),
         NEW db2, db2 = RemoveSst(db, m)
  PROVE  /\ StoreOK(db2) /\ Len(db2.levels) = 2 /\ db2.next = db.next
         /\ db2.tables = Only(db.tables, DOMAIN db.tables \ {m.id})
         /\ LeftWithout(db, db2, {m.id})
<1> DEFINE id == m.id
           L0 == MetasAt(db, 0)
           L1 == MetasAt(db, 1)
           N0 == MetasAt(db2, 0)
           N1 == MetasAt(db2, 1)
           D == DOMAIN db.tables
<1>1. /\ db.levels \in Seq(Seq(Meta)) /\ ByAge(L0) /\ ByAge(L1)
      /\ \A x \in Range(L0), o \in Range(L1) : x.id # o.id
      /\ {x.id : x \in Range(L0) \cup Range(L1)} = D
      /\ \A x \in Range(L0) \cup Range(L1) : x = MetaOf(x.id, db.tables[x.id])
      /\ db.next \in Nat \ {0} /\ D \subseteq 1 .. db.next - 1
      /\ \A x \in D : TableOK(db.tables[x])
      /\ db.readers \in Seq(Nat) /\ Range(db.readers) = D /\ IsInjective(db.readers)
  BY DEF StoreOK
<1>2. /\ db2.levels = RemoveMeta(db.levels, id) /\ db2.next = db.next
      /\ db2.tables = [x \in D \ {id} |-> db.tables[x]]
      /\ db2.readers = Retain(db.readers, Range(db.readers) \ {id})
  BY DEF RemoveSst
<1>3. LeftWithout(db, db2, {id})
  <2>1. TwoLevels(db)
    BY <1>1 DEF TwoLevels
  <2> HIDE DEF id
  <2> QED BY <1>2, <2>1, RemoveMetaAt
<1>4. /\ ByAge(N0) /\ Range(N0) = {o \in Range(L0) : o.id # id}
      /\ ByAge(N1) /\ Range(N1) = {o \in Range(L1) : o.id # id}
  <2>1. 0 \in {0, 1} /\ 1 \in {0, 1} /\ \A o : o.id \notin {id} <=> o.id # id
    OBVIOUS
  <2> QED BY <1>3, <2>1 DEF LeftWithout
<1>12. db2.levels \in Seq(Seq(Meta)) /\ Len(db2.levels) = 2
  BY <1>3 DEF LeftWithout
<1> HIDE DEF L0, L1, N0, N1, D, id
<1>5. /\ DOMAIN db2.tables = D \ {id} /\ \A x \in D \ {id} : db2.tables[x] = db.tables[x]
      /\ db2.tables = [x \in DOMAIN db2.tables |-> db2.tables[x]]
  BY <1>2
<1>6. {x.id : x \in Range(N0) \cup Range(N1)} = D \ {id}
  BY <1>1, <1>4
<1>7. ASSUME NEW x \in Range(N0) \cup Range(N1) PROVE x = MetaOf(x.id, db2.tables[x.id])
  <2>1. x \in Range(L0) \cup Range(L1) /\ x.id \in D \ {id}
    BY <1>4, <1>6
  <2> QED BY <1>1, <1>5, <2>1
<1>8. \A x \in Range(N0), o \in Range(N1) : x.id # o.id
  BY <1>1, <1>4
<1>9. db2.readers \in Seq(Nat) /\ Range(db2.readers) = D \ {id} /\ IsInjective(db2.readers)
  <2> DEFINE r == db2.readers
             old == db.readers
             kept == Range(old) \ {id}
             R == {p \in Nat \X Nat : p[1] # p[2]}
  <2>1. r = Retain(old, kept) /\ old \in Seq(Nat)
    BY <1>1, <1>2
  <2>2. \A x, y \in Nat : << x, y >> \in R <=> x # y
    OBVIOUS
  <2>3. DOMAIN old = 1 .. Len(old) /\ \A i \in 1 .. Len(old) : old[i] \in Nat
    BY <2>1
  <2>4. \A i, j \in 1 .. Len(old) : old[i] = old[j] => i = j
    BY <1>1, <2>3 DEF IsInjective
  <2>5. Len(old) \in Nat
    BY <2>1
  <2>6. Range(old) = D
    BY <1>1
  <2> HIDE DEF R, old, r, kept
  <2>7. \A i, j \in 1 .. Len(old) : i < j => << old[i], old[j] >> \in R
    BY <2>2, <2>3, <2>4, <2>5
  <2>8. /\ r \in Seq(Nat) /\ Range(r) = Range(old) \cap kept
        /\ \A i, j \in 1 .. Len(r) : i < j => << r[i], r[j] >> \in R
    BY <2>1, <2>7, RetainKeeps
  <2>9. DOMAIN r = 1 .. Len(r) /\ (\A i \in 1 .. Len(r) : r[i] \in Nat) /\ Len(r) \in Nat
    BY <2>8
  <2>10. \A i, j \in 1 .. Len(r) : r[i] = r[j] => i = j
    <3> SUFFICES ASSUME NEW i \in 1 .. Len(r), NEW j \in 1 .. Len(r), r[i] = r[j], i # j
                 PROVE FALSE
      OBVIOUS
    <3>1. i < j \/ j < i
      BY <2>9
    <3>2. r[i] # r[j]
      BY <2>2, <2>8, <2>9, <3>1
    <3> QED BY <3>2
  <2>11. IsInjective(r)
    BY <2>9, <2>10 DEF IsInjective
  <2>12. Range(r) = D \ {id}
    BY <2>6, <2>8 DEF kept
  <2> QED BY <2>8, <2>11, <2>12 DEF r
<1>10. StoreOK(db2)
  <2>1. Len(db2.levels) <= 2
    BY <1>12
  <2>2. \A x \in DOMAIN db2.tables : TableOK(db2.tables[x])
    BY <1>1, <1>5
  <2>3. db2.next \in Nat \ {0} /\ DOMAIN db2.tables \subseteq 1 .. db2.next - 1
    BY <1>1, <1>2, <1>5
  <2> QED BY <1>4, <1>5, <1>6, <1>7, <1>8, <1>9, <1>12, <2>1, <2>2, <2>3 DEF StoreOK, N0, N1
<1>11. db2.tables = Only(db.tables, DOMAIN db.tables \ {m.id})
  BY <1>2 DEF Only, D, id
<1> QED BY <1>2, <1>3, <1>10, <1>11, <1>12 DEF id

(* The removal loop, round by round.                                        *)
LEMMA RemovedSteps ==
  ASSUME NEW db, NEW metas, Len(metas) \in Nat
  PROVE  /\ Removed(db, metas)[0] = db
         /\ \A n \in 1 .. Len(metas) :
              Removed(db, metas)[n] = RemoveSst(Removed(db, metas)[n - 1], metas[n])
<1> DEFINE N == Len(metas)
           StepOf(x, n) == RemoveSst(x, metas[n])
           left == Removed(db, metas)
           Is(f, m) == f = [n \in 0 .. m |-> IF n = 0 THEN db ELSE StepOf(f[n - 1], n)]
           T == {m \in 0 .. N : \E f : Is(f, m)}
<1>1. N \in Nat
  OBVIOUS
<1>2. left = CHOOSE f : Is(f, N)
  BY DEF Removed
<1> HIDE DEF N, StepOf, left
<1>3. 0 \in T
  <2>1. Is([n \in 0 .. 0 |-> db], 0)
    OBVIOUS
  <2> HIDE DEF Is
  <2> QED BY <1>1, <2>1
<1>4. ASSUME NEW m \in 1 .. N, m - 1 \in T PROVE m \in T
  <2>1. PICK f : Is(f, m - 1)
    BY <1>4
  <2> DEFINE g == [n \in 0 .. m |-> IF n = m THEN StepOf(f[m - 1], m) ELSE f[n]]
  <2>2. ASSUME NEW n \in 0 .. m PROVE g[n] = IF n = 0 THEN db ELSE StepOf(g[n - 1], n)
    <3>1. CASE n = 0
      <4>1. n # m /\ 0 \in 0 .. m - 1
        BY <1>1, <3>1
      <4> QED BY <2>1, <3>1, <4>1
    <3>2. CASE n = m
      <4>1. n # 0 /\ n - 1 \in 0 .. m /\ n - 1 # m
        BY <1>1, <3>2
      <4> QED BY <3>2, <4>1
    <3>3. CASE n # 0 /\ n # m
      <4>1. n \in 0 .. m - 1 /\ n - 1 \in 0 .. m - 1 /\ n - 1 \in 0 .. m /\ n - 1 # m
        BY <1>1, <3>3
      <4> QED BY <2>1, <3>3, <4>1
    <3> QED BY <3>1, <3>2, <3>3
  <2>3. g = [n \in 0 .. m |-> g[n]]
    OBVIOUS
  <2> HIDE DEF g
  <2>4. Is(g, m)
    BY <2>2, <2>3
  <2> HIDE DEF Is
  <2> QED BY <1>1, <2>4
<1>5. N \in T
  <2>1. 0 .. N \subseteq T
    <3> HIDE DEF T
    <3> QED BY <1>1, <1>3, <1>4, UpTo
  <2>2. N \in 0 .. N
    BY <1>1
  <2> HIDE DEF T
  <2> QED BY <2>1, <2>2
<1>6. Is(left, N)
  <2> HIDE DEF Is
  <2> QED BY <1>2, <1>5
<1>7. left[0] = db /\ \A n \in 1 .. N : left[n] = StepOf(left[n - 1], n)
  <2>1. 0 \in 0 .. N /\ \A n \in 1 .. N : n \in 0 .. N /\ n # 0
    BY <1>1
  <2> QED BY <1>6, <2>1
<1> QED BY <1>7 DEF left, N, StepOf

(* Inputs that are there, no two of them under one id; and the files        *)
(* without those of some ids.                                               *)
OnLevels(db, metas) ==
    /\ metas \in Seq(Meta)
    /\ \A i \in 1 .. Len(metas) : metas[i] \in Range(MetasAt(db, 0)) \cup Range(MetasAt(db, 1))
    /\ \A i, j \in 1 .. Len(metas) : metas[i].id = metas[j].id => i = j

FilesWithout(db, db2, ids) ==
    /\ StoreOK(db2) /\ db2.next = db.next
    /\ db2.tables = Only(db.tables, DOMAIN db.tables \ ids)
    /\ LeftWithout(db, db2, ids)

(* The removal loop removes them all, and nothing else.                     *)
LEMMA RemovedAll ==
  ASSUME NEW db, StoreOK(db), Len(db.levels) = 2, NEW metas, OnLevels(db, metas),
         NEW db2, db2 = Removed(db, metas)[Len(metas)]
  PROVE  FilesWithout(db, db2, IdsTo(metas, Len(metas)))
<1> DEFINE N == Len(metas)
           f == Removed(db, metas)
           Good(n) == FilesWithout(db, f[n], IdsTo(metas, n))
           T == {n \in 0 .. N : Good(n)}
<1>1. /\ N \in Nat
      /\ \A i \in 1 .. N : metas[i] \in Range(MetasAt(db, 0)) \cup Range(MetasAt(db, 1))
      /\ \A i, j \in 1 .. N : metas[i].id = metas[j].id => i = j
  BY LenProperties DEF OnLevels
<1>2. f[0] = db /\ \A n \in 1 .. N : f[n] = RemoveSst(f[n - 1], metas[n])
  <2>1. Len(metas) \in Nat
    BY <1>1
  <2> HIDE DEF f
  <2> QED BY <2>1, RemovedSteps DEF f
<1>3. db2 = f[N]
  OBVIOUS
<1> HIDE DEF N, f
<1>4. Good(0)
  <2>1. IdsTo(metas, 0) = {}
    BY DEF IdsTo
  <2>2. db.tables = Only(db.tables, DOMAIN db.tables \ {})
    <3>1. db.tables = [id \in DOMAIN db.tables |-> db.tables[id]]
      BY DEF StoreOK
    <3>2. DOMAIN db.tables \ {} = DOMAIN db.tables
      OBVIOUS
    <3> QED BY <3>1, <3>2 DEF Only
  <2>3. ASSUME NEW level \in {0, 1}
        PROVE  /\ ByAge(MetasAt(db, level))
               /\ Range(MetasAt(db, level)) = {m \in Range(MetasAt(db, level)) : m.id \notin {}}
    <3>1. ByAge(MetasAt(db, level))
      BY DEF StoreOK
    <3> QED BY <3>1
  <2>4. LeftWithout(db, db, {})
    BY <2>3 DEF LeftWithout, StoreOK
  <2> QED BY <1>2, <2>1, <2>2, <2>4 DEF FilesWithout
<1>5. ASSUME NEW n \in 1 .. N, Good(n - 1) PROVE Good(n)
  <2> DEFINE x == f[n - 1]
             y == f[n]
             m == metas[n]
             gone == IdsTo(metas, n - 1)
             D == DOMAIN db.tables
  <2>1. IdsTo(metas, n) = gone \cup {m.id}
    <3>1. \A i : i \in 1 .. n <=> i \in 1 .. n - 1 \/ i = n
      BY <1>1
    <3> QED BY <3>1 DEF IdsTo
  <2>2. m.id \notin gone
    <3>1. \A i \in 1 .. n - 1 : i \in 1 .. N /\ i # n
      BY <1>1
    <3> QED BY <1>1, <3>1 DEF IdsTo
  <2>3. y = RemoveSst(x, m)
    BY <1>2
  <2>4. /\ StoreOK(x) /\ x.next = db.next /\ x.tables = Only(db.tables, D \ gone)
        /\ LeftWithout(db, x, gone)
    BY <1>5 DEF FilesWithout
  <2>5. m \in Range(MetasAt(db, 0)) \cup Range(MetasAt(db, 1))
    BY <1>1
  <2> HIDE DEF x, y, m, gone, D
  <2>6. Len(x.levels) = 2
    BY <2>4 DEF LeftWithout
  <2>7. /\ Range(MetasAt(x, 0)) = {o \in Range(MetasAt(db, 0)) : o.id \notin gone}
        /\ Range(MetasAt(x, 1)) = {o \in Range(MetasAt(db, 1)) : o.id \notin gone}
    BY <2>4 DEF LeftWithout
  <2>8. m \in Range(MetasAt(x, 0)) \cup Range(MetasAt(x, 1))
    BY <2>2, <2>5, <2>7
  <2>9. /\ StoreOK(y) /\ Len(y.levels) = 2 /\ y.next = x.next
        /\ y.tables = Only(x.tables, DOMAIN x.tables \ {m.id})
        /\ LeftWithout(x, y, {m.id})
    <3>1. \A z : z = RemoveSst(x, m) => RemovedOne(x, z, m)
      BY <2>4, <2>6, <2>8, RemoveKeeps DEF RemovedOne
    <3>2. RemovedOne(x, y, m)
      BY <2>3, <3>1
    <3> QED BY <3>2 DEF RemovedOne
  <2> DEFINE all == gone \cup {m.id}
             id == m.id
  <2> HIDE DEF id
  <2>10. y.tables = Only(db.tables, D \ all)
    <3>1. DOMAIN x.tables = D \ gone /\ \A i \in D \ gone : x.tables[i] = db.tables[i]
      BY <2>4 DEF Only
    <3>2. y.tables = [i \in (D \ gone) \ {id} |-> x.tables[i]]
      BY <2>9, <3>1 DEF Only, id
    <3>3. (D \ gone) \ {id} = D \ (gone \cup {id})
      OBVIOUS
    <3>4. y.tables = [i \in D \ (gone \cup {id}) |-> db.tables[i]]
      BY <3>1, <3>2, <3>3
    <3> QED BY <3>4 DEF Only, id
  <2>11. ASSUME NEW level \in {0, 1}
         PROVE  /\ ByAge(MetasAt(y, level))
                /\ Range(MetasAt(y, level)) = {o \in Range(MetasAt(db, level)) : o.id \notin all}
    <3>1. /\ ByAge(MetasAt(y, level))
          /\ Range(MetasAt(y, level)) = {o \in Range(MetasAt(x, level)) : o.id \notin {id}}
      BY <2>9 DEF LeftWithout, id
    <3>2. Range(MetasAt(x, level)) = {o \in Range(MetasAt(db, level)) : o.id \notin gone}
      BY <2>4 DEF LeftWithout
    <3>3. Range(MetasAt(y, level)) = {o \in Range(MetasAt(db, level)) : o.id \notin gone \cup {id}}
      BY <3>1, <3>2
    <3> QED BY <3>1, <3>3 DEF id
  <2>12. LeftWithout(db, y, all)
    <3>1. y.levels \in Seq(Seq(Meta)) /\ Len(y.levels) = 2
      BY <2>9 DEF LeftWithout
    <3> HIDE DEF all
    <3> QED BY <2>11, <3>1 DEF LeftWithout
  <2> QED BY <2>1, <2>4, <2>9, <2>10, <2>12 DEF FilesWithout, y, D
<1> HIDE DEF Good
<1>6. N \in T
  <2>1. 0 .. N \subseteq T
    <3>1. 0 \in T
      BY <1>1, <1>4
    <3>2. \A i \in 1 .. N : i - 1 \in T => i \in T
      BY <1>1, <1>5
    <3> HIDE DEF T
    <3> QED BY <1>1, <3>1, <3>2, UpTo
  <2> QED BY <1>1, <2>1
<1>7. Good(N)
  BY <1>6
<1> QED BY <1>3, <1>7 DEF Good, N

----------------------------------------------------------------------------
(* Compaction and flush.                                                    *)

(* A sequence that is one and then another.                                 *)
IsBoth(S, c, a, b) ==
    /\ c \in Seq(S) /\ Len(c) = Len(a) + Len(b) /\ Len(a) \in Nat /\ Len(b) \in Nat
    /\ \A i \in 1 .. Len(a) : c[i] = a[i]
    /\ \A i \in 1 .. Len(b) : c[Len(a) + i] = b[i]
    /\ \A i \in 1 .. Len(c) : i \in 1 .. Len(a) \/ i - Len(a) \in 1 .. Len(b)
    /\ Range(c) = Range(a) \cup Range(b)

(* So is a concatenation.                                                   *)
LEMMA BothParts ==
  ASSUME NEW S, NEW a \in Seq(S), NEW b \in Seq(S)
  PROVE  IsBoth(S, a \o b, a, b)
<1> DEFINE m == Len(a)
           n == Len(b)
           c == a \o b
<1>1. c \in Seq(S) /\ Len(c) = m + n /\ m \in Nat /\ n \in Nat
  BY Joined, LenProperties
<1>2. \A i \in 1 .. m + n : c[i] = IF i <= m THEN a[i] ELSE b[i - m]
  BY ConcatProperties
<1>3. DOMAIN a = 1 .. m /\ DOMAIN b = 1 .. n /\ DOMAIN c = 1 .. m + n
  BY <1>1
<1> HIDE DEF m, n, c
<1>4. ASSUME NEW i \in 1 .. m PROVE c[i] = a[i] /\ i \in 1 .. m + n
  <2>1. i \in 1 .. m + n /\ i <= m
    BY <1>1
  <2> QED BY <1>2, <2>1
<1>5. ASSUME NEW i \in 1 .. n PROVE c[m + i] = b[i] /\ m + i \in 1 .. m + n
  <2>1. m + i \in 1 .. m + n /\ ~(m + i <= m) /\ (m + i) - m = i
    BY <1>1
  <2> QED BY <1>2, <2>1
<1>6. \A i \in 1 .. m + n : i \in 1 .. m \/ i - m \in 1 .. n
  BY <1>1
<1>7. Range(c) = Range(a) \cup Range(b)
  <2>1. /\ Range(c) = {c[i] : i \in 1 .. m + n} /\ Range(a) = {a[i] : i \in 1 .. m}
        /\ Range(b) = {b[i] : i \in 1 .. n}
    BY <1>3 DEF Range
  <2>2. ASSUME NEW i \in 1 .. m + n PROVE c[i] \in Range(a) \cup Range(b)
    <3>1. CASE i \in 1 .. m
      BY <1>4, <2>1, <3>1
    <3>2. CASE i - m \in 1 .. n
      <4>1. c[i] = b[i - m]
        <5>1. m + (i - m) = i
          BY <1>1
        <5> QED BY <1>5, <3>2, <5>1
      <4> QED BY <2>1, <3>2, <4>1
    <3> QED BY <1>6, <3>1, <3>2
  <2>3. \A i \in 1 .. m : a[i] \in Range(c)
    BY <1>4, <2>1
  <2>4. \A i \in 1 .. n : b[i] \in Range(c)
    BY <1>5, <2>1
  <2> QED BY <2>1, <2>2, <2>3, <2>4
<1>8. IsBoth(S, c, a, b)
  BY <1>1, <1>4, <1>5, <1>6, <1>7 DEF m, n, IsBoth
<1> QED BY <1>8 DEF c

(* Older metas and then younger ones.                                       *)
LEMMA AgesJoined ==
  ASSUME NEW a \in Seq(Meta), NEW b \in Seq(Meta), ByAge(a), ByAge(b),
         \A x \in Range(a), y \in Range(b) : x.id < y.id, NEW c, c = a \o b
  PROVE  ByAge(c)
<1> DEFINE m == Len(a)
           n == Len(b)
<1>1. /\ c \in Seq(Meta) /\ Len(c) = m + n /\ m \in Nat /\ n \in Nat
      /\ \A i \in 1 .. m : c[i] = a[i]
      /\ \A i \in 1 .. n : c[m + i] = b[i]
      /\ \A i \in 1 .. m + n : i \in 1 .. m \/ i - m \in 1 .. n
  <2>1. IsBoth(Meta, c, a, b)
    BY BothParts
  <2> QED BY <2>1 DEF IsBoth
<1>2. DOMAIN a = 1 .. m /\ DOMAIN b = 1 .. n /\ DOMAIN c = 1 .. m + n
  BY <1>1
<1>3. /\ \A i, j \in 1 .. m : i < j => a[i].id < a[j].id
      /\ \A i, j \in 1 .. n : i < j => b[i].id < b[j].id
      /\ \A i \in 1 .. m, j \in 1 .. n : a[i].id < b[j].id
  BY <1>2 DEF ByAge, Range
<1> HIDE DEF m, n
<1>4. ASSUME NEW i \in 1 .. m + n, NEW j \in 1 .. m + n, i < j PROVE c[i].id < c[j].id
  <2>1. CASE j \in 1 .. m
    <3>1. i \in 1 .. m
      BY <1>1, <1>4, <2>1
    <3> QED BY <1>1, <1>3, <1>4, <2>1, <3>1
  <2>2. CASE j \notin 1 .. m
    <3> DEFINE q == j - m
    <3>1. q \in 1 .. n /\ c[j] = b[q]
      <4>1. j - m \in 1 .. n /\ m + (j - m) = j
        BY <1>1, <2>2
      <4> QED BY <1>1, <4>1
    <3>2. CASE i \in 1 .. m
      BY <1>1, <1>3, <3>1, <3>2
    <3>3. CASE i \notin 1 .. m
      <4> DEFINE p == i - m
      <4>1. p \in 1 .. n /\ c[i] = b[p]
        <5>1. i - m \in 1 .. n /\ m + (i - m) = i
          BY <1>1, <3>3
        <5> QED BY <1>1, <5>1
      <4>2. p < q
        BY <1>1, <1>4
      <4> HIDE DEF p, q
      <4> QED BY <1>3, <3>1, <4>1, <4>2
    <3> QED BY <3>2, <3>3
  <2> QED BY <2>1, <2>2
<1> QED BY <1>2, <1>4 DEF ByAge

(* The ids of all metas of a sequence.                                      *)
LEMMA IdsAll ==
  ASSUME NEW metas \in Seq(Meta)
  PROVE  IdsTo(metas, Len(metas)) = {m.id : m \in Range(metas)}
<1>1. DOMAIN metas = 1 .. Len(metas)
  OBVIOUS
<1>2. Range(metas) = {metas[i] : i \in 1 .. Len(metas)}
  BY <1>1 DEF Range
<1> QED BY <1>2 DEF IdsTo

(* What the newest table that has a key holds is in one of the tables.      *)
LEMMA NewestThere ==
  ASSUME NEW files, NEW n \in Nat, DOMAIN files \subseteq 0 .. n, NEW k
  PROVE  Newest(files, k) # {} <=> \E id \in DOMAIN files : Holding(files[id], k) # {}
<1> DEFINE at == {x \in DOMAIN files : Holding(files[x], k) # {}}
<1>1. Newest(files, k) = IF at = {} THEN {} ELSE Holding(files[Max(at)], k)
  BY DEF Newest, None
<1>2. at # {} => Max(at) \in at
  <2>1. at \subseteq 0 .. n
    OBVIOUS
  <2> HIDE DEF at
  <2> QED BY <2>1, MaxIsGreatest
<1>3. \A x \in at : Holding(files[x], k) # {}
  OBVIOUS
<1>4. at # {} <=> \E id \in DOMAIN files : Holding(files[id], k) # {}
  OBVIOUS
<1> HIDE DEF at
<1> QED BY <1>1, <1>2, <1>3, <1>4

(* Tables that have the newest holder of a key agree with all on it.        *)
LEMMA NewestWithin ==
  ASSUME NEW files, NEW n \in Nat, DOMAIN files \subseteq 0 .. n, NEW k,
         NEW ids, ids \subseteq DOMAIN files,
         NEW x \in ids, Holding(files[x], k) # {},
         \A y \in DOMAIN files : Holding(files[y], k) # {} => y <= x
  PROVE  Newest(Only(files, ids), k) = Newest(files, k)
<1> DEFINE at == {y \in DOMAIN files : Holding(files[y], k) # {}}
           part == Only(files, ids)
           at2 == {y \in DOMAIN part : Holding(part[y], k) # {}}
<1>1. Newest(files, k) = IF at = {} THEN {} ELSE Holding(files[Max(at)], k)
  BY DEF Newest, None
<1>2. Newest(part, k) = IF at2 = {} THEN {} ELSE Holding(part[Max(at2)], k)
  BY DEF Newest, None
<1>3. DOMAIN part = ids /\ \A y \in ids : part[y] = files[y]
  BY DEF Only
<1> HIDE DEF part
<1>4. at \subseteq 0 .. n /\ at2 \subseteq at /\ x \in at /\ x \in at2 /\ \A y \in at : y <= x
  BY <1>3
<1> HIDE DEF at, at2
<1>5. \A T : T \subseteq 0 .. n /\ x \in T /\ (\A y \in T : y <= x) => Max(T) = x
  <2> SUFFICES ASSUME NEW T, T \subseteq 0 .. n, x \in T, \A y \in T : y <= x PROVE Max(T) = x
    OBVIOUS
  <2> DEFINE m == Max(T)
  <2>1. m \in T /\ m >= x
    BY MaxIsGreatest
  <2>2. m \in 0 .. n /\ x \in 0 .. n /\ m <= x
    BY <2>1
  <2> HIDE DEF m
  <2>3. m = x
    BY <2>1, <2>2
  <2> QED BY <2>3 DEF m
<1>6. Max(at) = x /\ Max(at2) = x
  <2>1. at2 \subseteq 0 .. n /\ \A y \in at2 : y <= x
    BY <1>4
  <2> QED BY <1>4, <1>5, <2>1
<1> QED BY <1>1, <1>2, <1>3, <1>4, <1>6 DEF part

AllMetas(db) == Range(MetasAt(db, 0)) \cup Range(MetasAt(db, 1))

(* A meta and the keys of its table.                                        *)
LEMMA MetaKeys ==
  ASSUME NEW db, StoreOK(db), NEW m \in AllMetas(db)
  PROVE  /\ m \in Meta /\ m.id \in DOMAIN db.tables /\ m.id \in Nat /\ m.id > 0 /\ m.id < db.next
         /\ TableOK(db.tables[m.id])
         /\ m.min \in Keys /\ m.max \in Keys /\ ~Less(m.max, m.min)
         /\ \A k \in KeysOf(db.tables[m.id]) : ~Less(k, m.min) /\ ~Less(m.max, k)
<1> DEFINE t == db.tables[m.id]
<1>1. /\ db.levels \in Seq(Seq(Meta)) /\ db.next \in Nat
      /\ {x.id : x \in AllMetas(db)} = DOMAIN db.tables
      /\ DOMAIN db.tables \subseteq 1 .. db.next - 1
      /\ \A id \in DOMAIN db.tables : TableOK(db.tables[id])
      /\ m = MetaOf(m.id, t)
  BY DEF StoreOK, AllMetas
<1>2. m \in Meta
  <2>1. 0 \in {0, 1} /\ 1 \in {0, 1}
    OBVIOUS
  <2> QED BY <1>1, <2>1, LevelsTyped DEF AllMetas
<1>3. m.id \in DOMAIN db.tables
  BY <1>1
<1>4. m.id \in 1 .. db.next - 1 /\ TableOK(t)
  BY <1>1, <1>3
<1>5. m.min = t[1][1] /\ m.max = t[Len(t)][1]
  BY <1>1 DEF MetaOf
<1> HIDE DEF t
<1>6. t \in Seq(Keys \X Vals) /\ t # << >> /\ InKeyOrder(t)
  BY <1>4 DEF TableOK
<1>7. /\ t[1][1] \in Keys /\ t[Len(t)][1] \in Keys
      /\ \A k \in KeysOf(t) : ~Less(k, t[1][1]) /\ ~Less(t[Len(t)][1], k)
  BY <1>6, TableFacts
<1>8. t[1][1] \in KeysOf(t)
  <2>1. 1 \in DOMAIN t
    BY <1>6
  <2> QED BY <2>1 DEF KeysOf
<1>9. ~Less(m.max, m.min)
  BY <1>5, <1>7, <1>8
<1>10. m.id \in Nat /\ m.id > 0 /\ m.id < db.next
  BY <1>1, <1>4
<1> QED BY <1>2, <1>3, <1>4, <1>5, <1>7, <1>9, <1>10 DEF t

(* The files of level 1 that a compaction of level 0 takes.                 *)
Meets(db, m) ==
    LET src == MetasAt(db, 0)
    IN  /\ \E i \in DOMAIN src : ~Less(m.max, src[i].min)
        /\ \E i \in DOMAIN src : ~Less(src[i].max, m.min)

Met(db) == {m \in Range(MetasAt(db, 1)) : Meets(db, m)}

(* A file of level 1 that is not taken has all its keys before or all       *)
(* behind those of every file that is.                                      *)
LEMMA UnmetApart ==
  ASSUME NEW db, FilesOK(db), MetasAt(db, 0) # << >>,
         NEW m \in Range(MetasAt(db, 1)), m \notin Met(db)
  PROVE  \/ \A o \in Range(MetasAt(db, 0)) \cup Met(db) : Less(m.max, o.min)
         \/ \A o \in Range(MetasAt(db, 0)) \cup Met(db) : Less(o.max, m.min)
<1> DEFINE src == MetasAt(db, 0)
           L1 == MetasAt(db, 1)
<1>1. StoreOK(db) /\ Apart(db)
  BY FilesParts
<1>2. \A o \in AllMetas(db) : o.min \in Keys /\ o.max \in Keys /\ ~Less(o.max, o.min)
  BY <1>1, MetaKeys
<1>3. src \in Seq(Meta)
  <2>1. 0 \in {0, 1} /\ db.levels \in Seq(Seq(Meta))
    BY <1>1 DEF StoreOK
  <2> QED BY <2>1, LevelsTyped
<1>4. AllMetas(db) = Range(src) \cup Range(L1)
  BY DEF AllMetas
<1>5. \A o \in Range(L1) : Meets(db, o) <=>
         (\E s \in Range(src) : ~Less(o.max, s.min)) /\ (\E s \in Range(src) : ~Less(s.max, o.min))
  <2>1. Range(src) = {src[i] : i \in DOMAIN src}
    BY DEF Range
  <2> QED BY <2>1 DEF Meets
<1>6. \E s : s \in Range(src)
  <2>1. 1 \in DOMAIN src
    BY <1>3
  <2>2. src[1] \in Range(src)
    BY <2>1 DEF Range
  <2> QED BY <2>2
<1>7. \A o \in Range(L1) : m = o \/ Less(m.max, o.min) \/ Less(o.max, m.min)
  BY <1>1 DEF Apart
<1>8. ~Meets(db, m) /\ \A o \in Met(db) : o \in Range(L1) /\ Meets(db, o)
  BY DEF Met
<1> HIDE DEF src, L1
<1>9. m \in Range(L1) /\ m \in AllMetas(db)
  BY <1>4 DEF L1
<1>10. CASE \A s \in Range(src) : Less(m.max, s.min)
  <2>1. ASSUME NEW d \in Met(db) PROVE Less(m.max, d.min)
    <3> SUFFICES ASSUME ~Less(m.max, d.min) PROVE FALSE
      OBVIOUS
    <3>1. d \in Range(L1) /\ d \in AllMetas(db) /\ d # m /\ Less(d.max, m.min)
      BY <1>4, <1>7, <1>8
    <3>2. PICK s \in Range(src) : ~Less(d.max, s.min)
      BY <1>5, <1>8
    <3>3. Less(m.max, s.min) /\ s \in AllMetas(db)
      BY <1>4, <1>10
    <3>4. /\ d.max \in Keys /\ m.min \in Keys /\ m.max \in Keys /\ s.min \in Keys
          /\ ~Less(m.max, m.min)
      BY <1>2, <1>9, <3>1, <3>3
    <3>5. Less(d.max, m.max)
      BY <3>1, <3>4, KeyOrder
    <3> QED BY <3>2, <3>3, <3>4, <3>5, KeyOrder
  <2> QED BY <1>10, <2>1 DEF src
<1>11. CASE \A s \in Range(src) : Less(s.max, m.min)
  <2>1. ASSUME NEW d \in Met(db) PROVE Less(d.max, m.min)
    <3> SUFFICES ASSUME ~Less(d.max, m.min) PROVE FALSE
      OBVIOUS
    <3>1. d \in Range(L1) /\ d \in AllMetas(db) /\ d # m /\ Less(m.max, d.min)
      BY <1>4, <1>7, <1>8
    <3>2. PICK s \in Range(src) : ~Less(s.max, d.min)
      BY <1>5, <1>8
    <3>3. Less(s.max, m.min) /\ s \in AllMetas(db)
      BY <1>4, <1>11
    <3>4. /\ d.min \in Keys /\ m.min \in Keys /\ m.max \in Keys /\ s.max \in Keys
          /\ ~Less(m.max, m.min)
      BY <1>2, <1>9, <3>1, <3>3
    <3>5. Less(s.max, m.max)
      BY <3>3, <3>4, KeyOrder
    <3> QED BY <3>1, <3>2, <3>4, <3>5, KeyOrder
  <2> QED BY <1>11, <2>1 DEF src
<1> QED BY <1>5, <1>8, <1>9, <1>10, <1>11

(* The inputs of a compaction: the met files of level 1, then level 0.      *)
Taken(db) == Retain(MetasAt(db, 1), Met(db))

TakenIds(db) == {m.id : m \in Range(MetasAt(db, 0)) \cup Met(db)}

(* They are on the two levels, each once, the destination's files first.    *)
LEMMA CompactInputs ==
  ASSUME NEW db, FilesOK(db), MetasAt(db, 0) # << >>,
         NEW src, src = MetasAt(db, 0), NEW dst, dst = Taken(db)
  PROVE  /\ InputsOK(db, dst \o src) /\ Len(dst \o src) # 0
         /\ IdsTo(dst \o src, Len(dst \o src)) = TakenIds(db)
         /\ src \o dst \in Seq(Meta)
         /\ \A i \in 1 .. Len(src \o dst) : (src \o dst)[i] \in Range(src) \cup Met(db)
         /\ \A i, j \in 1 .. Len(src \o dst) : (src \o dst)[i].id = (src \o dst)[j].id => i = j
         /\ IdsTo(src \o dst, Len(src \o dst)) = TakenIds(db)
<1> DEFINE L1 == MetasAt(db, 1)
           kept == Met(db)
           c == dst \o src
           e == src \o dst
<1>1. StoreOK(db) /\ Older(db)
  BY FilesParts
<1>2. src \in Seq(Meta) /\ L1 \in Seq(Meta) /\ ByAge(src) /\ ByAge(L1)
      /\ \A x \in Range(L1), y \in Range(src) : x.id < y.id
  <2>1. 0 \in {0, 1} /\ 1 \in {0, 1} /\ db.levels \in Seq(Seq(Meta))
    BY <1>1 DEF StoreOK
  <2>2. src \in Seq(Meta) /\ L1 \in Seq(Meta)
    BY <2>1, LevelsTyped
  <2> QED BY <1>1, <2>2 DEF StoreOK, Older
<1>3. AllMetas(db) = Range(src) \cup Range(L1) /\ kept \subseteq Range(L1)
  BY DEF AllMetas, Met
<1> HIDE DEF L1, kept
<1>4. dst \in Seq(Meta) /\ ByAge(dst) /\ Range(dst) = kept
  <2> DEFINE R == {p \in Meta \X Meta : p[1].id < p[2].id}
  <2>1. dst = Retain(L1, kept)
    BY DEF Taken, L1, kept
  <2>2. DOMAIN L1 = 1 .. Len(L1) /\ \A i \in 1 .. Len(L1) : L1[i] \in Meta
    BY <1>2
  <2>3. \A x, y \in Meta : << x, y >> \in R <=> x.id < y.id
    OBVIOUS
  <2> HIDE DEF R
  <2>4. \A i, j \in 1 .. Len(L1) : i < j => << L1[i], L1[j] >> \in R
    BY <1>2, <2>2, <2>3 DEF ByAge
  <2>5. /\ dst \in Seq(Meta) /\ Range(dst) = Range(L1) \cap kept
        /\ \A i, j \in 1 .. Len(dst) : i < j => << dst[i], dst[j] >> \in R
    BY <1>2, <2>1, <2>4, RetainKeeps
  <2>6. ByAge(dst)
    <3>1. DOMAIN dst = 1 .. Len(dst) /\ \A i \in 1 .. Len(dst) : dst[i] \in Meta
      BY <2>5
    <3> QED BY <2>3, <2>5, <3>1 DEF ByAge
  <2> QED BY <1>3, <2>5, <2>6
<1>5. c \in Seq(Meta) /\ Range(c) = Range(src) \cup kept /\ Len(c) = Len(dst) + Len(src)
  <2>1. IsBoth(Meta, c, dst, src)
    BY <1>2, <1>4, BothParts
  <2> HIDE DEF c
  <2>2. Range(c) = Range(dst) \cup Range(src) /\ c \in Seq(Meta) /\ Len(c) = Len(dst) + Len(src)
    BY <2>1 DEF IsBoth
  <2> QED BY <1>4, <2>2
<1>6. /\ e \in Seq(Meta) /\ Range(e) = Range(src) \cup kept
      /\ Len(e) = Len(src) + Len(dst) /\ Len(src) \in Nat /\ Len(dst) \in Nat
      /\ \A i \in 1 .. Len(src) : e[i] = src[i]
      /\ \A i \in 1 .. Len(dst) : e[Len(src) + i] = dst[i]
      /\ \A i \in 1 .. Len(e) : i \in 1 .. Len(src) \/ i - Len(src) \in 1 .. Len(dst)
  <2>1. IsBoth(Meta, e, src, dst)
    BY <1>2, <1>4, BothParts
  <2> HIDE DEF e
  <2> QED BY <1>4, <2>1 DEF IsBoth
<1>7. ByAge(c)
  <2>1. \A x \in Range(dst), y \in Range(src) : x.id < y.id
    BY <1>2, <1>3, <1>4
  <2> QED BY <1>2, <1>4, <2>1, AgesJoined
<1>8. IdsTo(c, Len(c)) = TakenIds(db) /\ IdsTo(e, Len(e)) = TakenIds(db)
  <2>1. TakenIds(db) = {m.id : m \in Range(src) \cup kept}
    BY DEF TakenIds, kept
  <2>2. IdsTo(c, Len(c)) = {m.id : m \in Range(c)}
    <3> HIDE DEF c
    <3> QED BY <1>5, IdsAll
  <2>3. IdsTo(e, Len(e)) = {m.id : m \in Range(e)}
    <3> HIDE DEF e
    <3> QED BY <1>6, IdsAll
  <2> QED BY <1>5, <1>6, <2>1, <2>2, <2>3
<1> HIDE DEF c, e
<1>9. InputsOK(db, c)
  <2>1. ASSUME NEW i \in 1 .. Len(c)
        PROVE  c[i].id \in DOMAIN db.tables /\ c[i].id > 0 /\ TableOK(db.tables[c[i].id])
    <3>1. c[i] \in Range(c)
      <4>1. DOMAIN c = 1 .. Len(c)
        BY <1>5
      <4> QED BY <4>1 DEF Range
    <3>2. c[i] \in AllMetas(db)
      BY <1>3, <1>5, <3>1
    <3> QED BY <1>1, <3>2, MetaKeys
  <2> QED BY <1>5, <1>7, <2>1 DEF InputsOK
<1>10. Len(c) # 0
  <2>1. Len(src) # 0
    BY <1>2
  <2> QED BY <1>5, <1>6, <2>1
<1>11. \A i \in 1 .. Len(e) : e[i] \in Range(src) \cup Met(db)
  <2>1. DOMAIN e = 1 .. Len(e)
    BY <1>6
  <2> QED BY <1>6, <2>1 DEF Range, kept
<1>12. \A i, j \in 1 .. Len(e) : e[i].id = e[j].id => i = j
  <2> DEFINE m == Len(src)
             n == Len(dst)
  <2>1. DOMAIN src = 1 .. m /\ DOMAIN dst = 1 .. n
    BY <1>2, <1>4
  <2>2. /\ \A i, j \in 1 .. m : i < j => src[i].id < src[j].id
        /\ \A i, j \in 1 .. n : i < j => dst[i].id < dst[j].id
        /\ \A i \in 1 .. m, j \in 1 .. n : dst[j].id < src[i].id
    <3>1. \A i \in 1 .. m : src[i] \in Range(src)
      BY <2>1 DEF Range
    <3>2. \A i \in 1 .. n : dst[i] \in Range(L1)
      BY <1>3, <1>4, <2>1 DEF Range
    <3> QED BY <1>2, <1>4, <2>1, <3>1, <3>2 DEF ByAge
  <2>3. /\ \A i \in 1 .. m : src[i].id \in Nat
        /\ \A i \in 1 .. n : dst[i].id \in Nat
    <3>1. /\ \A i \in 1 .. m : src[i] \in Meta
          /\ \A i \in 1 .. n : dst[i] \in Meta
      BY <1>2, <1>4
    <3> QED BY <3>1, MetaParts
  <2> SUFFICES ASSUME NEW i \in 1 .. Len(e), NEW j \in 1 .. Len(e), e[i].id = e[j].id
               PROVE  i = j
    OBVIOUS
  <2>4. /\ m \in Nat /\ n \in Nat
        /\ \A x \in 1 .. m : e[x] = src[x]
        /\ \A x \in 1 .. n : e[m + x] = dst[x]
        /\ i \in 1 .. m \/ i - m \in 1 .. n
        /\ j \in 1 .. m \/ j - m \in 1 .. n
        /\ m + (i - m) = i /\ m + (j - m) = j
    BY <1>6
  <2> HIDE DEF m, n
  <2>5. CASE i \in 1 .. m /\ j \in 1 .. m
    <3>1. src[i].id = src[j].id
      BY <2>4, <2>5
    <3>2. ~(i < j) /\ ~(j < i)
      BY <2>2, <2>3, <2>5, <3>1
    <3> QED BY <3>2
  <2>6. CASE i \in 1 .. m /\ j - m \in 1 .. n
    <3>1. src[i].id = dst[j - m].id
      BY <2>4, <2>6
    <3> QED BY <2>2, <2>3, <2>6, <3>1
  <2>7. CASE i - m \in 1 .. n /\ j \in 1 .. m
    <3>1. dst[i - m].id = src[j].id
      BY <2>4, <2>7
    <3> QED BY <2>2, <2>3, <2>7, <3>1
  <2>8. CASE i - m \in 1 .. n /\ j - m \in 1 .. n
    <3>1. dst[i - m].id = dst[j - m].id
      BY <2>4, <2>8
    <3>2. ~(i - m < j - m) /\ ~(j - m < i - m)
      BY <2>2, <2>3, <2>8, <3>1
    <3> QED BY <2>4, <3>2
  <2> QED BY <2>4, <2>5, <2>6, <2>7, <2>8
<1> QED BY <1>6, <1>8, <1>9, <1>10, <1>11, <1>12 DEF c, e

(* The files compact_level leaves are those of its removal loop.            *)
LEMMA CompactSteps ==
  ASSUME NEW db, NEW src, src = MetasAt(db, 0), NEW dst, dst = Taken(db),
         NEW t, t = MergedEntries(db, dst \o src), NEW added, added = AddSst(db, 1, t)
  PROVE  Compacted(db) = Removed(added, src \o dst)[Len(src \o dst)]
BY DEF Compacted, Taken, Met, Meets

(* A key the merged file holds is in one of its inputs; with the newest     *)
(* holder among the inputs, their merge has the newest value.               *)
LEMMA MergedNewest ==
  ASSUME NEW db, FilesOK(db), MetasAt(db, 0) # << >>, NEW k,
         NEW t, Holding(t, k) = Newest(Only(db.tables, TakenIds(db)), k)
  PROVE  /\ Holding(t, k) # {} =>
              \E m \in Range(MetasAt(db, 0)) \cup Met(db) : k \in KeysOf(db.tables[m.id])
         /\ Holding(t, k) # {} => Holding(t, k) = Newest(db.tables, k)
<1> DEFINE F == db.tables
           I == TakenIds(db)
           taken == Range(MetasAt(db, 0)) \cup Met(db)
           has(id) == Holding(F[id], k) # {}
<1>1. /\ StoreOK(db) /\ Older(db) /\ Apart(db)
      /\ db.next \in Nat \ {0} /\ DOMAIN F \subseteq 1 .. db.next - 1
      /\ {m.id : m \in AllMetas(db)} = DOMAIN F
  <2>1. StoreOK(db) /\ Older(db) /\ Apart(db)
    BY FilesParts
  <2> QED BY <2>1 DEF StoreOK, AllMetas
<1>2. taken \subseteq AllMetas(db) /\ I = {m.id : m \in taken}
  BY DEF AllMetas, Met, TakenIds
<1>3. I \subseteq DOMAIN F
  BY <1>1, <1>2
<1>4. PICK n \in Nat : n = db.next - 1
  BY <1>1
<1>5. DOMAIN F \subseteq 0 .. n
  BY <1>1, <1>4
<1>6. \A id \in DOMAIN F : id \in Nat /\ (k \in KeysOf(F[id]) <=> has(id))
  <2> SUFFICES ASSUME NEW id \in DOMAIN F PROVE id \in Nat /\ (k \in KeysOf(F[id]) <=> has(id))
    OBVIOUS
  <2>1. TableOK(F[id])
    BY <1>1 DEF StoreOK
  <2>2. F[id] \in Seq(Keys \X Vals) /\ InKeyOrder(F[id])
    BY <2>1 DEF TableOK
  <2>3. id \in Nat
    BY <1>5
  <2> QED BY <2>2, <2>3, TableFacts
<1>7. SUFFICES ASSUME Holding(t, k) # {}
               PROVE  /\ \E m \in taken : k \in KeysOf(F[m.id])
                      /\ Newest(Only(F, I), k) = Newest(F, k)
  OBVIOUS
<1>8. PICK x0 \in I : has(x0)
  <2> DEFINE G == Only(F, I)
  <2>1. DOMAIN G = I /\ \A x \in I : G[x] = F[x]
    BY DEF Only
  <2>2. Newest(G, k) # {} /\ DOMAIN G \subseteq 0 .. n
    BY <1>3, <1>5, <1>7, <2>1
  <2> HIDE DEF G
  <2>3. \E id \in DOMAIN G : Holding(G[id], k) # {}
    BY <2>2, NewestThere
  <2> QED BY <2>1, <2>3
<1>9. \E m \in taken : k \in KeysOf(F[m.id])
  BY <1>2, <1>3, <1>6, <1>8
<1>10. PICK x \in DOMAIN F : has(x) /\ \A y \in DOMAIN F : has(y) => y <= x
  <2> DEFINE H == {y \in DOMAIN F : has(y)}
  <2>1. H \subseteq 0 .. n /\ x0 \in H
    BY <1>3, <1>5, <1>8
  <2> HIDE DEF H
  <2>2. Max(H) \in H /\ \A y \in H : y <= Max(H)
    BY <2>1, MaxIsGreatest
  <2> QED BY <2>2 DEF H
<1>11. PICK m \in AllMetas(db) : m.id = x
  BY <1>1
<1>12. x \in I
  <2> SUFFICES ASSUME x \notin I PROVE FALSE
    OBVIOUS
  <2>1. m \in Range(MetasAt(db, 1)) /\ m \notin Met(db)
    BY <1>2, <1>11 DEF AllMetas
  <2>2. PICK o \in taken : o.id = x0
    BY <1>2, <1>8
  <2>3. o \in Met(db)
    <3> SUFFICES ASSUME o \in Range(MetasAt(db, 0)) PROVE FALSE
      BY <2>2
    <3>1. x < x0
      BY <1>1, <1>11, <2>1, <2>2 DEF Older
    <3>2. x0 <= x
      BY <1>3, <1>8, <1>10
    <3> QED BY <1>3, <1>6, <1>8, <3>1, <3>2
  <2>4. k \in KeysOf(F[m.id]) /\ k \in KeysOf(F[o.id])
    BY <1>3, <1>6, <1>8, <1>10, <1>11, <2>2
  <2>5. /\ m.min \in Keys /\ m.max \in Keys /\ o.min \in Keys /\ o.max \in Keys
        /\ ~Less(k, m.min) /\ ~Less(m.max, k) /\ ~Less(k, o.min) /\ ~Less(o.max, k)
    <3>1. o \in AllMetas(db) /\ m \in AllMetas(db)
      BY <1>2, <2>2, <1>11
    <3> QED BY <1>1, <2>4, <3>1, MetaKeys
  <2>6. k \in Keys
    <3>1. F[x] \in Seq(Keys \X Vals) /\ InKeyOrder(F[x])
      BY <1>1, <1>10 DEF StoreOK, TableOK
    <3>2. KeysOf(F[x]) \subseteq Keys
      BY <3>1, TableFacts
    <3> QED BY <1>11, <2>4, <3>2
  <2>7. Less(m.max, o.min) \/ Less(o.max, m.min)
    BY <2>1, <2>3, UnmetApart
  <2> QED BY <2>5, <2>6, <2>7, KeyOrder
<1>13. Newest(Only(F, I), k) = Newest(F, k)
  BY <1>3, <1>5, <1>10, <1>12, NewestWithin
<1> QED BY <1>9, <1>13

(* What a compaction leaves: nothing on level 0, on level 1 the files it    *)
(* did not take and the merged one.                                         *)
CompactedTo(db, db2, t) ==
    /\ StoreOK(db2) /\ db2.next = db.next + 1
    /\ TableOK(t)
    /\ \A k : Holding(t, k) = Newest(Only(db.tables, TakenIds(db)), k)
    /\ Range(MetasAt(db2, 0)) = {}
    /\ Range(MetasAt(db2, 1)) =
          (Range(MetasAt(db, 1)) \ Met(db)) \cup {MetaOf(db.next, t)}
    /\ db2.tables = Added(Only(db.tables, DOMAIN db.tables \ TakenIds(db)), db.next, t)

(* compact_level leaves the store so.                                       *)
LEMMA CompactLeaves ==
  ASSUME NEW db, FilesOK(db), MetasAt(db, 0) # << >>, NEW db2, db2 = Compacted(db)
  PROVE  \E t : CompactedTo(db, db2, t)
<1> DEFINE F == db.tables
           I == TakenIds(db)
           N == db.next
           src == MetasAt(db, 0)
           dst == Taken(db)
           t == MergedEntries(db, dst \o src)
           added == AddSst(db, 1, t)
           e == src \o dst
           L1 == MetasAt(db, 1)
           M == MetaOf(N, t)
<1>1. /\ StoreOK(db) /\ Older(db)
      /\ N \in Nat \ {0} /\ DOMAIN F \subseteq 1 .. N - 1
      /\ {m.id : m \in Range(src) \cup Range(L1)} = DOMAIN F
      /\ \A m \in Range(src) \cup Range(L1) : m = MetaOf(m.id, F[m.id])
  <2>1. StoreOK(db) /\ Older(db)
    BY FilesParts
  <2> QED BY <2>1 DEF StoreOK
<1>2. /\ InputsOK(db, dst \o src) /\ Len(dst \o src) # 0
      /\ IdsTo(dst \o src, Len(dst \o src)) = I
      /\ e \in Seq(Meta)
      /\ \A i \in 1 .. Len(e) : e[i] \in Range(src) \cup Met(db)
      /\ \A i, j \in 1 .. Len(e) : e[i].id = e[j].id => i = j
      /\ IdsTo(e, Len(e)) = I
  <2>1. src = MetasAt(db, 0) /\ dst = Taken(db) /\ I = TakenIds(db) /\ src # << >>
    OBVIOUS
  <2> HIDE DEF src, dst, I
  <2>2. /\ InputsOK(db, dst \o src) /\ Len(dst \o src) # 0
        /\ IdsTo(dst \o src, Len(dst \o src)) = TakenIds(db)
        /\ src \o dst \in Seq(Meta)
        /\ \A i \in 1 .. Len(src \o dst) : (src \o dst)[i] \in Range(src) \cup Met(db)
        /\ \A i, j \in 1 .. Len(src \o dst) : (src \o dst)[i].id = (src \o dst)[j].id => i = j
        /\ IdsTo(src \o dst, Len(src \o dst)) = TakenIds(db)
    BY <2>1, CompactInputs
  <2> QED BY <2>1, <2>2
<1>3. TableOK(t) /\ \A k : Holding(t, k) = Newest(Only(F, I), k)
  <2> DEFINE c == dst \o src
  <2>1. InputsOK(db, c) /\ Len(c) # 0 /\ t = MergedEntries(db, c) /\ IdsTo(c, Len(c)) = I
    BY <1>2
  <2> HIDE DEF c, t
  <2>2. TableOK(t) /\ \A k : Holding(t, k) = Newest(Only(F, IdsTo(c, Len(c))), k)
    BY <2>1, MergedOK
  <2> QED BY <2>1, <2>2
<1>4. Compacted(db) = Removed(added, e)[Len(e)]
  BY CompactSteps
<1> HIDE DEF t, e
<1>5. StoreOK(added) /\ AddedTo(db, added, 1, t)
  <2>1. 1 \in {0, 1}
    OBVIOUS
  <2> QED BY <1>1, <1>3, <2>1, AddKeeps
<1> HIDE DEF added
<1>6. /\ added.next = N + 1 /\ added.tables = Added(F, N, t)
      /\ Range(MetasAt(added, 1)) = Range(L1) \cup {M}
      /\ MetasAt(added, 0) = src
      /\ Len(added.levels) = 2
  <2>1. 1 - 1 = 0
    OBVIOUS
  <2> QED BY <1>5, <2>1 DEF AddedTo
<1>7. Met(db) \subseteq Range(L1)
  BY DEF Met
<1>8. OnLevels(added, e)
  BY <1>2, <1>6, <1>7 DEF OnLevels
<1>9. FilesWithout(added, db2, I)
  <2>1. FilesWithout(added, db2, IdsTo(e, Len(e)))
    BY <1>4, <1>5, <1>6, <1>8, RemovedAll
  <2> QED BY <1>2, <2>1
<1>10. I = {m.id : m \in Range(src) \cup Met(db)}
  BY DEF TakenIds
<1>11. I \subseteq DOMAIN F /\ N \notin DOMAIN F /\ N \notin I
  BY <1>1, <1>7, <1>10
<1>12. \A level \in {0, 1} :
          Range(MetasAt(db2, level)) = {m \in Range(MetasAt(added, level)) : m.id \notin I}
  BY <1>9 DEF FilesWithout, LeftWithout
<1>13. Range(MetasAt(db2, 0)) = {}
  BY <1>6, <1>10, <1>12
<1>14. \A m \in Range(L1) : m.id \in I <=> m \in Met(db)
  <2> SUFFICES ASSUME NEW m \in Range(L1), m.id \in I PROVE m \in Met(db)
    BY <1>10
  <2>1. PICK o \in Range(src) \cup Met(db) : o.id = m.id
    BY <1>10
  <2>2. o = m
    <3>1. o = MetaOf(o.id, F[o.id]) /\ m = MetaOf(m.id, F[m.id])
      BY <1>1, <1>7, <2>1
    <3> QED BY <2>1, <3>1
  <2>3. m.id \in Nat
    BY <1>1, <1>11
  <2>4. m \notin Range(src)
    <3> SUFFICES ASSUME m \in Range(src) PROVE FALSE
      OBVIOUS
    <3>1. m.id < m.id
      BY <1>1 DEF Older
    <3> QED BY <2>3, <3>1
  <2> QED BY <2>1, <2>2, <2>4
<1>15. M.id = N
  BY DEF MetaOf
<1>16. Range(MetasAt(db2, 1)) = (Range(L1) \ Met(db)) \cup {M}
  <2> HIDE DEF M, N, L1
  <2>1. Range(MetasAt(db2, 1)) = {m \in Range(L1) \cup {M} : m.id \notin I}
    BY <1>6, <1>12
  <2>2. M.id \notin I
    BY <1>11, <1>15
  <2> QED BY <1>14, <2>1, <2>2
<1>17. db2.tables = Added(Only(F, DOMAIN F \ I), N, t)
  <2> DEFINE G == Added(F, N, t)
             H == Added(Only(F, DOMAIN F \ I), N, t)
  <2>1. db2.tables = Only(G, DOMAIN G \ I)
    BY <1>6, <1>9 DEF FilesWithout
  <2>2. DOMAIN G = DOMAIN F \cup {N} /\ \A x \in DOMAIN G : G[x] = IF x = N THEN t ELSE F[x]
    BY DEF Added
  <2>3. H = [x \in (DOMAIN F \ I) \cup {N} |-> IF x = N THEN t ELSE F[x]]
    <3> DEFINE E == Only(F, DOMAIN F \ I)
    <3>1. DOMAIN E = DOMAIN F \ I /\ \A x \in DOMAIN E : E[x] = F[x]
      BY DEF Only
    <3> HIDE DEF E
    <3>2. Added(E, N, t) = [x \in DOMAIN E \cup {N} |-> IF x = N THEN t ELSE E[x]]
      BY DEF Added
    <3> QED BY <1>11, <3>1, <3>2 DEF E
  <2>4. DOMAIN G \ I = (DOMAIN F \ I) \cup {N}
    BY <1>11, <2>2
  <2> HIDE DEF G, H
  <2>5. Only(G, DOMAIN G \ I) = [x \in (DOMAIN F \ I) \cup {N} |-> G[x]]
    BY <2>4 DEF Only
  <2>6. \A x \in (DOMAIN F \ I) \cup {N} : G[x] = IF x = N THEN t ELSE F[x]
    BY <2>2
  <2> QED BY <2>1, <2>3, <2>5, <2>6 DEF H
<1>18. db2.next = N + 1 /\ StoreOK(db2)
  BY <1>6, <1>9 DEF FilesWithout
<1> QED BY <1>3, <1>13, <1>16, <1>17, <1>18 DEF CompactedTo

(* Compaction keeps the files in order and the newest value of every key.   *)
LEMMA CompactKeeps ==
  ASSUME NEW db, FilesOK(db), MetasAt(db, 0) # << >>, NEW db2, db2 = Compacted(db)
  PROVE  /\ FilesOK(db2) /\ db2.next = db.next + 1
         /\ \A k : Newest(db2.tables, k) = Newest(db.tables, k)
<1> DEFINE F == db.tables
           I == TakenIds(db)
           N == db.next
           L1 == MetasAt(db, 1)
<1>1. PICK t : CompactedTo(db, db2, t)
  BY CompactLeaves
<1> DEFINE M == MetaOf(N, t)
           R == DOMAIN F \ I
           G == Only(F, R)
<1>2. /\ StoreOK(db2) /\ db2.next = N + 1 /\ TableOK(t)
      /\ \A k : Holding(t, k) = Newest(Only(F, I), k)
      /\ Range(MetasAt(db2, 0)) = {}
      /\ Range(MetasAt(db2, 1)) = (Range(L1) \ Met(db)) \cup {M}
      /\ db2.tables = Added(G, N, t)
  BY <1>1 DEF CompactedTo
<1>3. /\ StoreOK(db) /\ Apart(db) /\ N \in Nat \ {0} /\ DOMAIN F \subseteq 1 .. N - 1
      /\ {m.id : m \in AllMetas(db)} = DOMAIN F
  <2>1. StoreOK(db) /\ Apart(db)
    BY FilesParts
  <2> QED BY <2>1 DEF StoreOK, AllMetas
<1>4. t \in Seq(Keys \X Vals) /\ InKeyOrder(t) /\ t # << >> /\ 1 \in DOMAIN t /\ Len(t) \in DOMAIN t
  BY <1>2 DEF TableOK
<1>5. M.min \in KeysOf(t) /\ M.max \in KeysOf(t) /\ KeysOf(t) \subseteq Keys
      /\ \A k : k \in KeysOf(t) <=> Holding(t, k) # {}
  BY <1>4, TableFacts DEF MetaOf, KeysOf
<1>6. \A k \in KeysOf(t) :
         /\ k \in Keys
         /\ \E o \in Range(MetasAt(db, 0)) \cup Met(db) :
              /\ o.min \in Keys /\ o.max \in Keys
              /\ ~Less(k, o.min) /\ ~Less(o.max, k)
  <2> SUFFICES ASSUME NEW k \in KeysOf(t)
               PROVE  \E o \in Range(MetasAt(db, 0)) \cup Met(db) :
                         /\ o.min \in Keys /\ o.max \in Keys
                         /\ ~Less(k, o.min) /\ ~Less(o.max, k)
    BY <1>5
  <2>1. PICK o \in Range(MetasAt(db, 0)) \cup Met(db) : k \in KeysOf(F[o.id])
    BY <1>2, <1>5, MergedNewest
  <2>2. o \in AllMetas(db)
    BY <2>1 DEF AllMetas, Met
  <2> QED BY <1>3, <2>1, <2>2, MetaKeys
<1>7. \A m \in Range(L1) \ Met(db) : Less(m.max, M.min) \/ Less(M.max, m.min)
  <2> SUFFICES ASSUME NEW m \in Range(L1), m \notin Met(db)
               PROVE  Less(m.max, M.min) \/ Less(M.max, m.min)
    OBVIOUS
  <2>1. PICK a \in Range(MetasAt(db, 0)) \cup Met(db) :
              a.min \in Keys /\ a.max \in Keys /\ ~Less(M.min, a.min) /\ ~Less(a.max, M.min)
    BY <1>5, <1>6
  <2>2. PICK b \in Range(MetasAt(db, 0)) \cup Met(db) :
              b.min \in Keys /\ b.max \in Keys /\ ~Less(M.max, b.min) /\ ~Less(b.max, M.max)
    BY <1>5, <1>6
  <2>3. M.min \in Keys /\ M.max \in Keys
    BY <1>5
  <2>4. m.min \in Keys /\ m.max \in Keys
    <3>1. m \in AllMetas(db)
      BY DEF AllMetas
    <3> QED BY <1>3, <3>1, MetaKeys
  <2> HIDE DEF M
  <2>5. CASE \A o \in Range(MetasAt(db, 0)) \cup Met(db) : Less(m.max, o.min)
    <3>1. Less(m.max, a.min)
      BY <2>1, <2>5
    <3> QED BY <2>1, <2>3, <2>4, <3>1, KeyOrder
  <2>6. CASE \A o \in Range(MetasAt(db, 0)) \cup Met(db) : Less(o.max, m.min)
    <3>1. Less(b.max, m.min)
      BY <2>2, <2>6
    <3> QED BY <2>2, <2>3, <2>4, <3>1, KeyOrder
  <2> QED BY <2>5, <2>6, UnmetApart
<1>8. Apart(db2)
  <2> HIDE DEF M, L1
  <2>1. \A m, o \in Range(L1) : m = o \/ Less(m.max, o.min) \/ Less(o.max, m.min)
    BY <1>3 DEF Apart, L1
  <2> QED BY <1>2, <1>7, <2>1 DEF Apart
<1>9. Older(db2)
  BY <1>2 DEF Older
<1>10. FilesOK(db2)
  BY <1>2, <1>8, <1>9, FilesParts
<1>11. ASSUME NEW k PROVE Newest(db2.tables, k) = Newest(F, k)
  <2>1. DOMAIN G = R /\ \A x \in R : G[x] = F[x]
    BY DEF Only
  <2>2. PICK n \in Nat : n = N - 1
    BY <1>3
  <2>3. DOMAIN F \subseteq 0 .. n /\ R \subseteq 0 .. n /\ N \in Nat /\ N > n
    BY <1>3, <2>2
  <2> HIDE DEF G, N
  <2>4. Newest(db2.tables, k) = IF Holding(t, k) # {} THEN Holding(t, k) ELSE Newest(G, k)
    BY <1>2, <2>1, <2>3, NewestAdded
  <2>5. CASE Holding(t, k) # {}
    <3>1. Holding(t, k) = Newest(F, k)
      BY <1>2, <2>5, MergedNewest
    <3> QED BY <2>4, <2>5, <3>1
  <2>6. CASE Holding(t, k) = {}
    <3> DEFINE J == Only(F, I)
    <3>1. DOMAIN J = I /\ \A x \in I : J[x] = F[x]
      BY DEF Only
    <3>2. I \subseteq DOMAIN F
      BY <1>3 DEF TakenIds, AllMetas, Met
    <3>3. Newest(J, k) = {} /\ DOMAIN J \subseteq 0 .. n
      BY <1>2, <2>3, <2>6, <3>1, <3>2
    <3> HIDE DEF J
    <3>4. \A x \in I : Holding(F[x], k) = {}
      BY <3>1, <3>3, NewestThere
    <3>5. {x \in DOMAIN G : Holding(G[x], k) # {}} = {x \in DOMAIN F : Holding(F[x], k) # {}}
      <4> HIDE DEF I, F
      <4>1. DOMAIN G = DOMAIN F \ I /\ \A x \in DOMAIN G : G[x] = F[x]
        BY <2>1
      <4>2. \A x \in DOMAIN F : Holding(F[x], k) # {} => x \in DOMAIN G
        BY <3>4, <4>1
      <4> QED BY <4>1, <4>2
    <3>6. /\ \A x \in DOMAIN G \cap DOMAIN F : G[x] = F[x]
          /\ DOMAIN G \subseteq 0 .. n
      BY <2>1, <2>3
    <3>7. Newest(G, k) = Newest(F, k)
      BY <3>5, <3>6, NewestSame
    <3> QED BY <2>4, <2>6, <3>7
  <2> QED BY <2>5, <2>6
<1> QED BY <1>2, <1>10, <1>11

(* A list waiting to be flushed, if there is one, has entries.              *)
FrozenOK(frozen) ==
    frozen = {} \/ \E l \in frozen : frozen = {l} /\ ListOK(l) /\ DOMAIN l.nodes # {Head0}

(* The files after maybe_flush: in order, at most two ids further, and with *)
(* the values of the list upon those there were.                            *)
FlushedTo(db, db2, frozen) ==
    /\ FilesOK(db2)
    /\ frozen = {} => db2 = db
    /\ db2.next \in db.next .. db.next + 2
    /\ \A k \in Keys :
          Newest(db2.tables, k) =
             IF \E l \in frozen : Values(l, k) # {} THEN UNION {Values(l, k) : l \in frozen}
             ELSE Newest(db.tables, k)

(* maybe_flush, with the compaction it may end in, leaves the store so.     *)
LEMMA MaybeFlushedKeeps ==
  ASSUME NEW db, FilesOK(db), NEW frozen, FrozenOK(frozen),
         NEW db2, db2 = MaybeFlushed(db, frozen)
  PROVE  FlushedTo(db, db2, frozen)
<1>1. db.next \in Nat
  BY DEF FilesOK
<1>2. CASE frozen = {}
  <2>1. db2 = db
    BY <1>2 DEF MaybeFlushed
  <2> QED BY <1>1, <1>2, <2>1 DEF FlushedTo
<1>3. CASE frozen # {}
  <2>1. PICK l \in frozen : frozen = {l} /\ ListOK(l) /\ DOMAIN l.nodes # {Head0}
    BY <1>3 DEF FrozenOK
  <2> DEFINE t == Iter(l)
             added == AddSst(db, 0, t)
  <2>2. db2 = MaybeCompacted(added)
    <3>1. (CHOOSE x \in frozen : TRUE) = l
      BY <2>1
    <3> QED BY <1>3, <3>1 DEF MaybeFlushed
  <2>3. /\ t \in Seq(Keys \X Vals) /\ InKeyOrder(t) /\ t # << >>
        /\ \A k \in Keys : Holding(t, k) = Values(l, k)
    <3>1. NodesOK(l.nodes)
      BY <2>1 DEF ListOK
    <3> QED BY <2>1, <3>1, IterYields
  <2>4. TableOK(t)
    BY <2>3 DEF TableOK
  <2> HIDE DEF t
  <2>5. /\ FilesOK(added) /\ AddedTo(db, added, 0, t)
        /\ \A k : Newest(added.tables, k) = IF Holding(t, k) # {} THEN Holding(t, k)
                                                                  ELSE Newest(db.tables, k)
    BY <2>4, FlushKeeps
  <2> HIDE DEF added
  <2>6. added.next = db.next + 1 /\ MetasAt(added, 0) # << >>
    <3>1. added.next = db.next + 1 /\ MetaOf(db.next, t) \in Range(MetasAt(added, 0))
      BY <2>5 DEF AddedTo
    <3>2. Range(<< >>) = {}
      BY DEF Range
    <3> QED BY <3>1, <3>2
  <2>7. /\ FilesOK(db2) /\ db2.next \in added.next .. added.next + 1
        /\ \A k : Newest(db2.tables, k) = Newest(added.tables, k)
    <3>1. added.next \in Nat
      BY <1>1, <2>6
    <3>2. CASE Len(MetasAt(added, 0)) < L0Threshold
      <4>1. db2 = added
        BY <2>2, <3>2 DEF MaybeCompacted
      <4> QED BY <2>5, <3>1, <4>1
    <3>3. CASE ~(Len(MetasAt(added, 0)) < L0Threshold)
      <4>1. db2 = Compacted(added)
        BY <2>2, <3>3 DEF MaybeCompacted
      <4>2. /\ FilesOK(db2) /\ db2.next = added.next + 1
            /\ \A k : Newest(db2.tables, k) = Newest(added.tables, k)
        BY <2>5, <2>6, <4>1, CompactKeeps
      <4> QED BY <3>1, <4>2
    <3> QED BY <3>2, <3>3
  <2>8. db2.next \in db.next .. db.next + 2
    BY <1>1, <2>6, <2>7
  <2>9. \A k \in Keys :
           /\ (\E x \in frozen : Values(x, k) # {}) <=> Holding(t, k) # {}
           /\ UNION {Values(x, k) : x \in frozen} = Holding(t, k)
    BY <2>1, <2>3
  <2>10. \A k \in Keys :
            Newest(db2.tables, k) =
               IF \E x \in frozen : Values(x, k) # {} THEN UNION {Values(x, k) : x \in frozen}
               ELSE Newest(db.tables, k)
    BY <2>5, <2>7, <2>9
  <2> QED BY <1>3, <2>7, <2>8, <2>10 DEF FlushedTo
<1> QED BY <1>2, <1>3

(* The readers open has, level by level.                                    *)
LEMMA OpenedSteps ==
  ASSUME NEW ls, Len(ls) \in Nat
  PROVE  /\ Opened(ls)[0] = << >>
         /\ \A n \in 1 .. Len(ls) :
              Opened(ls)[n] = Opened(ls)[n - 1] \o [i \in DOMAIN ls[n] |-> ls[n][i].id]
<1> DEFINE N == Len(ls)
           StepOf(x, n) == x \o [i \in DOMAIN ls[n] |-> ls[n][i].id]
           left == Opened(ls)
           Is(f, m) == f = [n \in 0 .. m |-> IF n = 0 THEN << >> ELSE StepOf(f[n - 1], n)]
           T == {m \in 0 .. N : \E f : Is(f, m)}
<1>1. N \in Nat
  OBVIOUS
<1>2. left = CHOOSE f : Is(f, N)
  BY DEF Opened
<1> HIDE DEF N, StepOf, left
<1>3. 0 \in T
  <2>1. Is([n \in 0 .. 0 |-> << >>], 0)
    OBVIOUS
  <2> HIDE DEF Is
  <2> QED BY <1>1, <2>1
<1>4. ASSUME NEW m \in 1 .. N, m - 1 \in T PROVE m \in T
  <2>1. PICK f : Is(f, m - 1)
    BY <1>4
  <2> DEFINE g == [n \in 0 .. m |-> IF n = m THEN StepOf(f[m - 1], m) ELSE f[n]]
  <2>2. ASSUME NEW n \in 0 .. m PROVE g[n] = IF n = 0 THEN << >> ELSE StepOf(g[n - 1], n)
    <3>1. CASE n = 0
      <4>1. n # m /\ 0 \in 0 .. m - 1
        BY <1>1, <3>1
      <4> QED BY <2>1, <3>1, <4>1
    <3>2. CASE n = m
      <4>1. n # 0 /\ n - 1 \in 0 .. m /\ n - 1 # m
        BY <1>1, <3>2
      <4> QED BY <3>2, <4>1
    <3>3. CASE n # 0 /\ n # m
      <4>1. n \in 0 .. m - 1 /\ n - 1 \in 0 .. m - 1 /\ n - 1 \in 0 .. m /\ n - 1 # m
        BY <1>1, <3>3
      <4> QED BY <2>1, <3>3, <4>1
    <3> QED BY <3>1, <3>2, <3>3
  <2>3. g = [n \in 0 .. m |-> g[n]]
    OBVIOUS
  <2> HIDE DEF g
  <2>4. Is(g, m)
    BY <2>2, <2>3
  <2> HIDE DEF Is
  <2> QED BY <1>1, <2>4
<1>5. N \in T
  <2>1. 0 .. N \subseteq T
    <3> HIDE DEF T
    <3> QED BY <1>1, <1>3, <1>4, UpTo
  <2>2. N \in 0 .. N
    BY <1>1
  <2> HIDE DEF T
  <2> QED BY <2>1, <2>2
<1>6. Is(left, N)
  <2> HIDE DEF Is
  <2> QED BY <1>2, <1>5
<1>7. left[0] = << >> /\ \A n \in 1 .. N : left[n] = StepOf(left[n - 1], n)
  <2>1. 0 \in 0 .. N /\ \A n \in 1 .. N : n \in 0 .. N /\ n # 0
    BY <1>1
  <2> QED BY <1>6, <2>1
<1> QED BY <1>7 DEF left, N, StepOf

----------------------------------------------------------------------------
(* Closing and opening again.                                               *)

IdsOf(metas) == [i \in DOMAIN metas |-> metas[i].id]

(* The ids of a level, in the order of its metas.                           *)
LEMMA IdsListed ==
  ASSUME NEW metas \in Seq(Meta), ByAge(metas)
  PROVE  /\ IdsOf(metas) \in Seq(Nat) /\ Len(IdsOf(metas)) = Len(metas)
         /\ Range(IdsOf(metas)) = {m.id : m \in Range(metas)}
         /\ \A i, j \in 1 .. Len(metas) : IdsOf(metas)[i] = IdsOf(metas)[j] => i = j
         /\ \A i \in 1 .. Len(metas) : IdsOf(metas)[i] \in {m.id : m \in Range(metas)}
<1> DEFINE s == IdsOf(metas)
           n == Len(metas)
<1>1. n \in Nat /\ DOMAIN metas = 1 .. n /\ \A i \in 1 .. n : metas[i] \in Meta
  OBVIOUS
<1>2. \A i \in 1 .. n : metas[i].id \in Nat
  BY <1>1, MetaParts
<1>3. \A i, j \in 1 .. n : i < j => metas[i].id < metas[j].id
  BY <1>1 DEF ByAge
<1> HIDE DEF n
<1>4. s = [i \in 1 .. n |-> metas[i].id]
  BY <1>1 DEF IdsOf
<1>5. s \in Seq(Nat) /\ Len(s) = n
  BY <1>1, <1>2, <1>4
<1>6. \A i, j \in 1 .. n : s[i] = s[j] => i = j
  <2> SUFFICES ASSUME NEW i \in 1 .. n, NEW j \in 1 .. n, s[i] = s[j] PROVE i = j
    OBVIOUS
  <2>1. metas[i].id = metas[j].id
    BY <1>4
  <2> QED BY <1>1, <1>2, <1>3, <2>1
<1>7. DOMAIN s = 1 .. n /\ \A i \in 1 .. n : s[i] = metas[i].id
  BY <1>4
<1> HIDE DEF s
<1>8. /\ Range(s) = {m.id : m \in Range(metas)}
      /\ \A i \in 1 .. n : s[i] \in {m.id : m \in Range(metas)}
  <2>1. Range(s) = {s[i] : i \in 1 .. n}
    BY <1>7 DEF Range
  <2>2. Range(metas) = {metas[i] : i \in 1 .. n}
    BY <1>1 DEF Range
  <2> QED BY <1>7, <2>1, <2>2
<1> QED BY <1>5, <1>6, <1>8 DEF s, n

(* The readers open has for the levels of sound files: one for each file.   *)
LEMMA OpenedReaders ==
  ASSUME NEW db, FilesOK(db), NEW r, r = Opened(db.levels)[Len(db.levels)]
  PROVE  r \in Seq(Nat) /\ Range(r) = DOMAIN db.tables /\ IsInjective(r)
<1> DEFINE ls == db.levels
           L0 == MetasAt(db, 0)
           L1 == MetasAt(db, 1)
           a == IdsOf(L0)
           b == IdsOf(L1)
<1>1. /\ ls \in Seq(Seq(Meta)) /\ Len(ls) \in 0 .. 2
      /\ {m.id : m \in Range(L0) \cup Range(L1)} = DOMAIN db.tables
      /\ ByAge(L0) /\ ByAge(L1)
      /\ \A m0 \in Range(L0), m1 \in Range(L1) : m1.id < m0.id
  <2>1. /\ ls \in Seq(Seq(Meta)) /\ Len(ls) <= 2
        /\ {m.id : m \in Range(L0) \cup Range(L1)} = DOMAIN db.tables
        /\ ByAge(L0) /\ ByAge(L1)
        /\ \A m0 \in Range(L0), m1 \in Range(L1) : m1.id < m0.id
    BY DEF FilesOK
  <2>2. Len(ls) \in Nat
    <3> DEFINE S == Seq(Meta)
    <3>1. ls \in Seq(S)
      BY <2>1
    <3> HIDE DEF S, ls
    <3> QED BY <3>1
  <2>3. Len(ls) \in 0 .. 2
    <3> DEFINE n == Len(ls)
    <3>1. n \in Nat /\ n <= 2
      BY <2>1, <2>2
    <3> HIDE DEF n
    <3>2. n \in 0 .. 2
      BY <3>1
    <3> QED BY <3>2 DEF n
  <2> QED BY <2>1, <2>3
<1>2. /\ L0 \in Seq(Meta) /\ L1 \in Seq(Meta)
      /\ L0 = IF 0 < Len(ls) THEN ls[1] ELSE << >>
      /\ L1 = IF 1 < Len(ls) THEN ls[2] ELSE << >>
  <2>1. L0 \in Seq(Meta) /\ L1 \in Seq(Meta)
    BY <1>1, LevelMetas
  <2>2. 0 + 1 = 1 /\ 1 + 1 = 2
    OBVIOUS
  <2> QED BY <2>1, <2>2 DEF MetasAt
<1> HIDE DEF ls, L0, L1
<1>3. IdsOf(<< >>) = << >>
  BY DEF IdsOf
<1>4. /\ a \in Seq(Nat) /\ b \in Seq(Nat) /\ Len(a) = Len(L0) /\ Len(b) = Len(L1)
      /\ Range(a) = {m.id : m \in Range(L0)} /\ Range(b) = {m.id : m \in Range(L1)}
      /\ \A i, j \in 1 .. Len(a) : a[i] = a[j] => i = j
      /\ \A i, j \in 1 .. Len(b) : b[i] = b[j] => i = j
      /\ \A i \in 1 .. Len(a) : a[i] \in Range(a)
      /\ \A i \in 1 .. Len(b) : b[i] \in Range(b)
  BY <1>1, <1>2, IdsListed
<1>5. r = a \o b
  <2>1. /\ Opened(ls)[0] = << >>
        /\ \A n \in 1 .. Len(ls) : Opened(ls)[n] = Opened(ls)[n - 1] \o IdsOf(ls[n])
    BY <1>1, OpenedSteps DEF IdsOf
  <2>2. << >> \o a = a /\ a \o << >> = a /\ << >> \o << >> = << >>
    <3> HIDE DEF a
    <3> QED BY <1>4, ConcatEmptySeq
  <2>3. CASE Len(ls) = 0
    <3>1. r = << >> /\ a = << >> /\ b = << >>
      BY <1>2, <1>3, <2>1, <2>3 DEF ls
    <3> QED BY <2>2, <3>1
  <2>4. CASE Len(ls) = 1
    <3>1. a = IdsOf(ls[1]) /\ b = << >>
      BY <1>2, <1>3, <2>4
    <3>2. r = Opened(ls)[1] /\ 1 \in 1 .. 1 /\ 1 - 1 = 0
      BY <2>4 DEF ls
    <3>3. Opened(ls)[1] = << >> \o IdsOf(ls[1])
      BY <2>1, <2>4, <3>2
    <3> HIDE DEF a, b
    <3> QED BY <2>2, <3>1, <3>2, <3>3
  <2>5. CASE Len(ls) = 2
    <3>1. a = IdsOf(ls[1]) /\ b = IdsOf(ls[2])
      BY <1>2, <2>5
    <3>2. r = Opened(ls)[2] /\ 1 \in 1 .. 2 /\ 2 \in 1 .. 2 /\ 1 - 1 = 0 /\ 2 - 1 = 1
      BY <2>5 DEF ls
    <3>3. Opened(ls)[1] = << >> \o IdsOf(ls[1]) /\ Opened(ls)[2] = Opened(ls)[1] \o IdsOf(ls[2])
      BY <2>1, <2>5, <3>2
    <3> HIDE DEF a, b
    <3> QED BY <2>2, <3>1, <3>2, <3>3
  <2> QED BY <1>1, <2>3, <2>4, <2>5
<1>6. \A x \in Range(a), y \in Range(b) : x # y
  <2> SUFFICES ASSUME NEW m0 \in Range(L0), NEW m1 \in Range(L1) PROVE m0.id # m1.id
    BY <1>4
  <2>1. m1.id < m0.id
    BY <1>1
  <2>2. m0.id \in Nat /\ m1.id \in Nat
    <3>1. m0.id \in Range(a) /\ m1.id \in Range(b)
      BY <1>4
    <3>2. a \in Seq(Nat) /\ b \in Seq(Nat)
      BY <1>4
    <3> HIDE DEF a, b
    <3>3. Range(a) \subseteq Nat /\ Range(b) \subseteq Nat
      BY <3>2 DEF Range
    <3> QED BY <3>1, <3>3
  <2> QED BY <2>1, <2>2
<1> HIDE DEF a, b
<1>7. IsBoth(Nat, r, a, b)
  BY <1>4, <1>5, BothParts
<1>8. r \in Seq(Nat) /\ Range(r) = DOMAIN db.tables
  <2>1. Range(r) = Range(a) \cup Range(b) /\ r \in Seq(Nat)
    BY <1>7 DEF IsBoth
  <2> QED BY <1>1, <1>4, <2>1
<1>9. IsInjective(r)
  <2>1. DOMAIN r = 1 .. Len(r)
    BY <1>8
  <2> SUFFICES ASSUME NEW i \in 1 .. Len(r), NEW j \in 1 .. Len(r), r[i] = r[j] PROVE i = j
    BY <2>1 DEF IsInjective
  <2> DEFINE m == Len(a)
             n == Len(b)
  <2>2. /\ m \in Nat /\ n \in Nat
        /\ \A x \in 1 .. m : r[x] = a[x]
        /\ \A x \in 1 .. n : r[m + x] = b[x]
        /\ i \in 1 .. m \/ i - m \in 1 .. n
        /\ j \in 1 .. m \/ j - m \in 1 .. n
    BY <1>7 DEF IsBoth
  <2>3. m + (i - m) = i /\ m + (j - m) = j
    BY <1>8, <2>2
  <2>4. CASE i \in 1 .. m /\ j \in 1 .. m
    BY <1>4, <2>2, <2>4
  <2>5. CASE i \in 1 .. m /\ j - m \in 1 .. n
    <3>1. a[i] = b[j - m]
      BY <2>2, <2>3, <2>5
    <3> QED BY <1>4, <1>6, <2>5, <3>1
  <2>6. CASE i - m \in 1 .. n /\ j \in 1 .. m
    <3>1. b[i - m] = a[j]
      BY <2>2, <2>3, <2>6
    <3> QED BY <1>4, <1>6, <2>6, <3>1
  <2>7. CASE i - m \in 1 .. n /\ j - m \in 1 .. n
    <3>1. b[i - m] = b[j - m]
      BY <2>2, <2>3, <2>7
    <3>2. i - m = j - m
      BY <1>4, <2>7, <3>1
    <3> QED BY <2>3, <3>2
  <2> QED BY <2>2, <2>4, <2>5, <2>6, <2>7
<1> QED BY <1>8, <1>9

(* All the metas the levels name, and the id open goes on with.             *)
LEMMA OpenedNext ==
  ASSUME NEW db, FilesOK(db), NEW next, next = 1 + Max({0} \cup {m.id : m \in Named(db.levels)})
  PROVE  /\ Named(db.levels) = AllMetas(db)
         /\ next \in 1 .. db.next /\ DOMAIN db.tables \subseteq 1 .. next - 1
<1> DEFINE ls == db.levels
           D == DOMAIN db.tables
<1>1. /\ ls \in Seq(Seq(Meta)) /\ Len(ls) <= 2 /\ {m.id : m \in AllMetas(db)} = D
      /\ db.next \in Nat \ {0} /\ D \subseteq 1 .. db.next - 1
  BY DEF FilesOK, AllMetas
<1>2. DOMAIN ls = 1 .. Len(ls) /\ Len(ls) \in Nat
  <2> DEFINE S == Seq(Meta)
  <2>1. ls \in Seq(S)
    BY <1>1
  <2> HIDE DEF S, ls
  <2> QED BY <2>1
<1>3. Named(ls) = AllMetas(db)
  <2>1. Range(<< >>) = {}
    BY DEF Range
  <2> HIDE DEF ls
  <2>2. /\ MetasAt(db, 0) = IF 0 < Len(ls) THEN ls[1] ELSE << >>
        /\ MetasAt(db, 1) = IF 1 < Len(ls) THEN ls[2] ELSE << >>
    BY DEF MetasAt, ls
  <2>3. Named(ls) = UNION {Range(ls[i]) : i \in 1 .. Len(ls)}
    BY <1>2 DEF Named
  <2>4. CASE Len(ls) = 0
    <3>1. 1 .. 0 = {}
      OBVIOUS
    <3> QED BY <2>1, <2>2, <2>3, <2>4, <3>1 DEF AllMetas
  <2>5. CASE Len(ls) = 1
    <3>1. 1 .. 1 = {1}
      OBVIOUS
    <3> QED BY <2>1, <2>2, <2>3, <2>5, <3>1 DEF AllMetas
  <2>6. CASE Len(ls) = 2
    <3>1. 1 .. 2 = {1, 2}
      OBVIOUS
    <3> QED BY <2>1, <2>2, <2>3, <2>6, <3>1 DEF AllMetas
  <2> QED BY <1>1, <1>2, <2>4, <2>5, <2>6
<1>4. PICK n \in Nat : n = db.next - 1
  BY <1>1
<1> DEFINE T == {0} \cup D
<1>5. next = 1 + Max(T)
  BY <1>1, <1>3
<1>6. T \subseteq 0 .. n /\ T # {} /\ D \subseteq 1 .. n
  BY <1>1, <1>4
<1> HIDE DEF T, D
<1>7. Max(T) \in T /\ \A x \in T : Max(T) >= x
  BY <1>6, MaxIsGreatest
<1> DEFINE g == Max(T)
<1>8. g \in 0 .. n /\ next = 1 + g /\ \A x \in D : g >= x
  BY <1>5, <1>6, <1>7 DEF T
<1> HIDE DEF g
<1>9. next \in 1 .. db.next /\ D \subseteq 1 .. next - 1
  <2>1. next \in 1 .. db.next /\ next - 1 = g
    BY <1>1, <1>4, <1>8
  <2>2. \A x \in D : x \in 1 .. g
    BY <1>6, <1>8
  <2> QED BY <2>1, <2>2
<1> QED BY <1>3, <1>9 DEF D

----------------------------------------------------------------------------
(* The invariant, action by action.                                         *)

(* Files with the same manifest and tables are sound with any readers and   *)
(* next id that suit the tables.                                            *)
LEMMA FilesReopened ==
  ASSUME NEW db, FilesOK(db), NEW db2, db2.levels = db.levels, db2.tables = db.tables,
         db2.readers \in Seq(Nat), Range(db2.readers) = DOMAIN db.tables,
         IsInjective(db2.readers),
         db2.next \in Nat \ {0}, DOMAIN db.tables \subseteq 1 .. db2.next - 1
  PROVE  FilesOK(db2)
<1>1. \A level : MetasAt(db2, level) = MetasAt(db, level)
  BY DEF MetasAt
<1>2. StoreOK(db) /\ Older(db) /\ Apart(db)
  BY FilesParts
<1>3. StoreOK(db2)
  BY <1>1, <1>2 DEF StoreOK
<1>4. Older(db2) /\ Apart(db2)
  BY <1>1, <1>2 DEF Older, Apart
<1> QED BY <1>3, <1>4, FilesParts

(* The value of a key in an active list, a frozen one and files.            *)
HeldBy(act, imm, files, k) ==
    IF Values(act, k) # {} THEN Values(act, k)
    ELSE IF \E l \in imm : Values(l, k) # {} THEN UNION {Values(l, k) : l \in imm}
    ELSE Newest(files, k)

(* What a write into a list does to the values held.                        *)
Inserted(act, grown, key, value) ==
    /\ ListOK(grown) /\ DOMAIN grown.nodes # {Head0}
    /\ \A imm, files : \A k \in Keys :
          HeldBy(grown, imm, files, k)
            = IF k = key THEN {value} ELSE HeldBy(act, imm, files, k)

(* An insert does that, whether the key was there or not.                   *)
LEMMA InsertHeld ==
  ASSUME NEW act, ListOK(act), NEW key \in Keys, NEW value \in Vals, NEW w \in Words,
         NEW grown, grown = Insert(act, key, value, RandomLevel(w))
  PROVE  Inserted(act, grown, key, value)
<1>1. RandomLevel(w) \in 0 .. MaxLevel - 1
  BY LevelDrawn
<1>2. /\ ListOK(grown) /\ DOMAIN grown.nodes # {Head0}
      /\ Values(grown, key) = {value}
      /\ \A k \in Keys : k # key => Values(grown, k) = Values(act, k)
  BY <1>1, InsertKeeps
<1> QED BY <1>2 DEF HeldBy, Inserted

(* The invariant at the start ...                                           *)
LEMMA FlushInit == Init => FlushInv
<1> SUFFICES ASSUME Init PROVE FlushInv
  OBVIOUS
<1> USE DEF Init
<1>1. /\ ListOK(NewList) /\ \A k : Values(NewList, k) = {}
  BY NewListOK
<1>2. MaxIds \in Nat /\ MaxPuts \in Nat
  BY FlushPathAssumption
<1>3. TypeOK
  <2>1. \A l \in Lists : ListOK(l)
    BY <1>1 DEF Lists
  <2>2. nextId \in 1 .. MaxIds + 1 /\ puts \in 0 .. MaxPuts
    BY <1>2
  <2> QED BY <2>1, <2>2 DEF TypeOK, None
<1>4. FrozenInWrite
  BY DEF FrozenInWrite
<1>5. FilesOK(Files)
  <2>1. Files.levels = << >> /\ Files.tables = << >> /\ Files.readers = << >> /\ Files.next = 1
    BY DEF Files
  <2>2. MetasAt(Files, 0) = << >> /\ MetasAt(Files, 1) = << >>
    BY <2>1 DEF MetasAt
  <2>3. Range(<< >>) = {} /\ ByAge(<< >>) /\ IsInjective(<< >>)
    BY DEF Range, ByAge, IsInjective
  <2>4. StoreOK(Files)
    <3>1. /\ << >> = [id \in DOMAIN << >> |-> << >>[id]]
          /\ << >> \in Seq(Seq(Meta)) /\ << >> \in Seq(Nat)
      OBVIOUS
    <3>2. DOMAIN << >> = {} /\ Len(<< >>) <= 2
      OBVIOUS
    <3> QED BY <2>1, <2>2, <2>3, <3>1, <3>2 DEF StoreOK
  <2>5. Older(Files) /\ Apart(Files)
    BY <2>2, <2>3 DEF Older, Apart
  <2> QED BY <2>4, <2>5, FilesParts
<1>6. Saved
  BY DEF Saved
<1>7. ASSUME NEW k \in Keys PROVE latest[k] = Held(k)
  <2>1. Newest(<< >>, k) = None
    BY DEF Newest
  <2> QED BY <1>1, <2>1 DEF Held
<1> QED BY <1>3, <1>4, <1>5, <1>6, <1>7 DEF FlushInv

(* ... after a record of the log ...                                        *)
LEMMA FlushReplay ==
  ASSUME FlushInv, NEW key \in Keys, NEW value \in Vals, Replay(key, value)
  PROVE  FlushInv'
<1> USE DEF FlushInv, Replay, Written
<1>1. PICK w \in Words : active' = Insert(active, key, value, RandomLevel(w))
  OBVIOUS
<1>2. ListOK(active) /\ \A l \in immutable : ListOK(l)
  BY DEF TypeOK, Lists
<1>3. /\ ListOK(active')
      /\ \A k \in Keys : HeldBy(active', immutable, tables, k)
                           = IF k = key THEN {value} ELSE HeldBy(active, immutable, tables, k)
  <2> HIDE DEF FlushInv, Replay, Written
  <2> DEFINE grown == Insert(active, key, value, RandomLevel(w))
  <2>1. Inserted(active, grown, key, value)
    BY <1>2, InsertHeld
  <2> QED BY <1>1, <2>1 DEF Inserted
<1>4. latest' \in [Keys -> {None} \cup {Some(v) : v \in Vals}]
  BY DEF TypeOK
<1>5. TypeOK'
  <2>1. puts' \in 0 .. MaxPuts
    BY FlushPathAssumption DEF TypeOK
  <2>2. \A l \in Lists' : ListOK(l)
    BY <1>2, <1>3 DEF Lists
  <2> QED BY <1>4, <2>1, <2>2 DEF TypeOK
<1>6. FrozenInWrite' /\ Saved'
  BY DEF FrozenInWrite, Saved
<1>7. FilesOK(Files')
  <2>1. Files' = Files
    BY DEF Files
  <2> QED BY <2>1
<1>8. ASSUME NEW k \in Keys PROVE latest'[k] = Held(k)'
  <2>1. /\ Held(k)' = HeldBy(active', immutable, tables, k)
        /\ Held(k) = HeldBy(active, immutable, tables, k)
    BY DEF Held, HeldBy
  <2>2. latest'[k] = IF k = key THEN {value} ELSE latest[k]
    BY DEF TypeOK, Some
  <2>3. latest[k] = Held(k)
    OBVIOUS
  <2> QED BY <1>3, <2>1, <2>2, <2>3
<1>9. FilesOK(Files)'
  BY <1>7
<1> QED BY <1>5, <1>6, <1>8, <1>9

(* ... at the end of the log ...                                            *)
LEMMA FlushReplayed == FlushInv /\ Replayed => FlushInv'
<1> SUFFICES ASSUME FlushInv, Replayed PROVE FlushInv'
  OBVIOUS
<1>1. FilesOK(Files)'
  <2>1. Files' = Files
    BY DEF Files, Replayed
  <2> QED BY <2>1 DEF FlushInv
<1>2. TypeOK' /\ FrozenInWrite' /\ Saved'
  BY DEF FlushInv, Replayed, TypeOK, Lists, FrozenInWrite, Saved
<1>3. ASSUME NEW k \in Keys PROVE latest'[k] = Held(k)'
  <2>1. Held(k)' = Held(k)
    BY DEF Held, Replayed
  <2> QED BY <2>1 DEF FlushInv, Replayed
<1> QED BY <1>1, <1>2, <1>3 DEF FlushInv

(* ... and when nothing changes.                                            *)
LEMMA FlushStays == FlushInv /\ UNCHANGED vars => FlushInv'
<1> SUFFICES ASSUME FlushInv, UNCHANGED vars PROVE FlushInv'
  OBVIOUS
<1>1. FilesOK(Files)'
  <2>1. Files' = Files
    BY DEF Files, vars
  <2> QED BY <2>1 DEF FlushInv
<1>2. TypeOK' /\ FrozenInWrite' /\ Saved'
  BY DEF FlushInv, vars, TypeOK, Lists, FrozenInWrite, Saved
<1>3. ASSUME NEW k \in Keys PROVE latest'[k] = Held(k)'
  <2>1. Held(k)' = Held(k)
    BY DEF Held, vars
  <2> QED BY <2>1 DEF FlushInv, vars
<1> QED BY <1>1, <1>2, <1>3 DEF FlushInv

(* ... after a put ...                                                      *)
LEMMA FlushPut ==
  ASSUME FlushInv, NEW key \in Keys, NEW value \in Vals, Put(key, value)
  PROVE  FlushInv'
<1>1. PICK w \in Words : MemPut(Insert(active, key, value, RandomLevel(w)))
  BY DEF Put
<1> DEFINE grown == Insert(active, key, value, RandomLevel(w))
<1>2. /\ ListOK(active) /\ \A l \in immutable : ListOK(l)
      /\ nextId \in 1 .. MaxIds + 1 /\ puts \in 0 .. MaxPuts
      /\ latest \in [Keys -> {None} \cup {Some(v) : v \in Vals}]
      /\ \A bytes \in disk : bytes \in Seq(Byte)
  BY DEF FlushInv, TypeOK, Lists
<1>3. /\ ListOK(grown) /\ DOMAIN grown.nodes # {Head0}
      /\ \A imm, files : \A k \in Keys :
            HeldBy(grown, imm, files, k)
              = IF k = key THEN {value} ELSE HeldBy(active, imm, files, k)
  <2>1. Inserted(active, grown, key, value)
    BY <1>2, InsertHeld
  <2> HIDE DEF grown
  <2> QED BY <2>1 DEF Inserted
<1>4. MemPut(grown)
  BY <1>1
<1> HIDE DEF grown
<1>5. /\ puts < MaxPuts /\ puts' = puts + 1
      /\ latest' = [latest EXCEPT ![key] = Some(value)]
      /\ pc' = "write"
      /\ pc = "write" \/ (pc = "idle" /\ nextId + 1 <= MaxIds)
      /\ levels' = levels /\ disk' = disk /\ tables' = tables /\ readers' = readers
      /\ nextId' = nextId
  BY DEF Put, Written
<1>6. /\ latest' \in [Keys -> {None} \cup {Some(v) : v \in Vals}]
      /\ \A k \in Keys : latest'[k] = IF k = key THEN {value} ELSE latest[k]
  BY <1>2, <1>5 DEF Some
<1>7. puts' \in 0 .. MaxPuts
  BY <1>2, <1>5, FlushPathAssumption
<1>8. FilesOK(Files)'
  <2>1. Files' = Files
    BY <1>5 DEF Files
  <2> QED BY <2>1 DEF FlushInv
<1>9. Saved'
  BY <1>5 DEF FlushInv, Saved
<1>10. /\ nextId + 1 <= MaxIds
       /\ immutable = {} \/ \E l \in immutable : immutable = {l} /\ DOMAIN l.nodes # {Head0}
  BY <1>5 DEF FlushInv, FrozenInWrite
<1>11. \A k \in Keys : latest[k] = HeldBy(active, immutable, tables, k)
  BY DEF FlushInv, Held, HeldBy
<1>12. \A k \in Keys : Held(k)' = HeldBy(active', immutable', tables, k)
  BY <1>5 DEF Held, HeldBy
<1>13. CASE grown.size > MaxSize /\ immutable = {}
  <2>1. active' = NewList /\ immutable' = {grown}
    BY <1>4, <1>13 DEF MemPut
  <2>2. \A l \in Lists' : ListOK(l)
    BY <1>3, <2>1, NewListOK DEF Lists
  <2>3. \A k \in Keys : HeldBy(NewList, {grown}, tables, k) = HeldBy(grown, {}, tables, k)
    BY NewListOK DEF HeldBy
  <2>4. \A k \in Keys : latest'[k] = Held(k)'
    BY <1>3, <1>6, <1>11, <1>12, <1>13, <2>1, <2>3
  <2>5. FrozenInWrite'
    BY <1>3, <1>5, <1>10, <2>1 DEF FrozenInWrite
  <2>6. TypeOK'
    BY <1>2, <1>5, <1>6, <1>7, <2>2 DEF TypeOK
  <2> QED BY <1>8, <1>9, <2>4, <2>5, <2>6 DEF FlushInv
<1>14. CASE ~(grown.size > MaxSize /\ immutable = {})
  <2>1. active' = grown /\ immutable' = immutable
    BY <1>4, <1>14 DEF MemPut
  <2>2. \A l \in Lists' : ListOK(l)
    BY <1>2, <1>3, <2>1 DEF Lists
  <2>3. \A k \in Keys : latest'[k] = Held(k)'
    BY <1>3, <1>6, <1>11, <1>12, <2>1
  <2>4. FrozenInWrite'
    BY <1>5, <1>10, <2>1 DEF FrozenInWrite
  <2>5. TypeOK'
    BY <1>2, <1>5, <1>6, <1>7, <2>2 DEF TypeOK
  <2> QED BY <1>8, <1>9, <2>3, <2>4, <2>5 DEF FlushInv
<1> QED BY <1>13, <1>14

(* ... after the flush at the end of a write ...                            *)
LEMMA FlushEndWrite == FlushInv /\ EndWrite => FlushInv'
<1> SUFFICES ASSUME FlushInv, EndWrite PROVE FlushInv'
  OBVIOUS
<1> DEFINE db == MaybeFlushed(Files, immutable)
<1>1. /\ ListOK(active) /\ \A l \in immutable : ListOK(l)
      /\ nextId \in 1 .. MaxIds + 1 /\ puts \in 0 .. MaxPuts
      /\ latest \in [Keys -> {None} \cup {Some(v) : v \in Vals}]
      /\ \A bytes \in disk : bytes \in Seq(Byte)
      /\ MaxIds \in Nat
  BY FlushPathAssumption DEF FlushInv, TypeOK, Lists
<1>2. /\ pc = "write" /\ pc' = "idle" /\ immutable' = {}
      /\ levels' = db.levels /\ tables' = db.tables /\ readers' = db.readers /\ nextId' = db.next
      /\ disk' = (IF immutable = {} THEN disk ELSE Some(EncodeManifest(db.levels)))
      /\ active' = active /\ puts' = puts /\ latest' = latest
  BY DEF EndWrite
<1>3. FrozenOK(immutable) /\ nextId + 1 <= MaxIds
  BY <1>1, <1>2 DEF FlushInv, FrozenInWrite, FrozenOK
<1>4. FlushedTo(Files, db, immutable)
  BY <1>3, MaybeFlushedKeeps DEF FlushInv
<1> HIDE DEF db
<1>5. /\ FilesOK(db) /\ (immutable = {} => db = Files)
      /\ db.next \in nextId .. nextId + 2
      /\ \A k \in Keys :
            Newest(db.tables, k) =
               IF \E l \in immutable : Values(l, k) # {} THEN UNION {Values(l, k) : l \in immutable}
               ELSE Newest(tables, k)
  <2>1. Files.next = nextId /\ Files.tables = tables
    BY DEF Files
  <2> QED BY <1>4, <2>1 DEF FlushedTo
<1>6. db.next \in 1 .. MaxIds + 1 /\ db.next <= MaxIds + 1
  BY <1>1, <1>3, <1>5
<1>7. FilesOK(Files)'
  <2> DEFINE db2 == Files'
  <2>1. /\ db2.levels = db.levels /\ db2.tables = db.tables /\ db2.readers = db.readers
        /\ db2.next = db.next
    BY <1>2 DEF Files
  <2> HIDE DEF db2
  <2>2. /\ db.readers \in Seq(Nat) /\ Range(db.readers) = DOMAIN db.tables
        /\ IsInjective(db.readers)
        /\ db.next \in Nat \ {0} /\ DOMAIN db.tables \subseteq 1 .. db.next - 1
    BY <1>5 DEF FilesOK
  <2>3. FilesOK(db2)
    BY <1>5, <2>1, <2>2, FilesReopened
  <2> QED BY <2>3 DEF db2
<1>8. Saved' /\ \A bytes \in disk' : bytes \in Seq(Byte)
  <2>1. CASE immutable = {}
    <3>1. db.levels = levels
      BY <1>5, <2>1 DEF Files
    <3> QED BY <1>1, <1>2, <2>1, <3>1 DEF FlushInv, Saved
  <2>2. CASE immutable # {}
    <3>1. disk' = {EncodeManifest(levels')}
      BY <1>2, <2>2 DEF Some
    <3>2. EncodeManifest(db.levels) \in Seq(Byte)
      BY <1>5, <1>6, FilesWritable, ManifestBytes
    <3> QED BY <1>2, <3>1, <3>2 DEF Saved, None, Some
  <2> QED BY <2>1, <2>2
<1>9. TypeOK'
  <2>1. \A l \in Lists' : ListOK(l)
    BY <1>1, <1>2 DEF Lists
  <2> QED BY <1>1, <1>2, <1>6, <1>8, <2>1 DEF TypeOK
<1>10. FrozenInWrite'
  BY <1>2 DEF FrozenInWrite
<1>11. ASSUME NEW k \in Keys PROVE latest'[k] = Held(k)'
  <2>1. Held(k)' = IF Values(active, k) # {} THEN Values(active, k) ELSE Newest(db.tables, k)
    BY <1>2 DEF Held
  <2>2. latest[k] = Held(k)
    BY DEF FlushInv
  <2> QED BY <1>2, <1>5, <2>1, <2>2 DEF Held
<1> QED BY <1>7, <1>8, <1>9, <1>10, <1>11 DEF FlushInv

(* ... and after closing and opening again.                                 *)
LEMMA FlushReopened == FlushInv /\ CloseAndOpen => FlushInv'
<1> SUFFICES ASSUME FlushInv, CloseAndOpen PROVE FlushInv'
  OBVIOUS
<1> DEFINE frozen == IF active.size <= ListSize THEN {} ELSE {active}
           db == MaybeFlushed(Files, frozen)
           bytes == EncodeManifest(db.levels)
<1>1. /\ ListOK(active)
      /\ nextId \in 1 .. MaxIds + 1 /\ puts \in 0 .. MaxPuts
      /\ latest \in [Keys -> {None} \cup {Some(v) : v \in Vals}]
      /\ MaxIds \in Nat
  BY FlushPathAssumption DEF FlushInv, TypeOK, Lists
<1>2. /\ pc = "idle" /\ nextId + 1 <= MaxIds /\ active' = NewList
      /\ tables' = db.tables /\ disk' = Some(bytes)
      /\ levels' = LoadManifest(disk').value
      /\ readers' = Opened(levels')[Len(levels')]
      /\ nextId' = 1 + Max({0} \cup {m.id : m \in Named(levels')})
      /\ immutable' = immutable /\ pc' = pc /\ puts' = puts /\ latest' = latest
  BY DEF CloseAndOpen
<1>3. immutable = {}
  BY <1>2 DEF FlushInv, FrozenInWrite
<1>4. /\ FrozenOK(frozen)
      /\ \A k : Values(active, k) # {} => frozen = {active}
  <2>1. /\ active.size \in Nat /\ ListSize \in Nat
        /\ active.size > ListSize <=> DOMAIN active.nodes # {Head0}
    BY <1>1, SkipListAssumption DEF ListOK
  <2>2. CASE active.size <= ListSize
    <3>1. frozen = {} /\ ~(active.size > ListSize)
      BY <2>1, <2>2
    <3>2. \A k : Values(active, k) = {}
      BY <2>1, <3>1 DEF Values
    <3> QED BY <3>1, <3>2 DEF FrozenOK
  <2>3. CASE ~(active.size <= ListSize)
    <3>1. frozen = {active} /\ active.size > ListSize
      BY <2>1, <2>3
    <3> QED BY <1>1, <2>1, <3>1 DEF FrozenOK
  <2> QED BY <2>2, <2>3
<1>5. FlushedTo(Files, db, frozen)
  <2> HIDE DEF frozen
  <2> QED BY <1>4, MaybeFlushedKeeps DEF FlushInv
<1>6. frozen \subseteq {active}
  OBVIOUS
<1> HIDE DEF db, frozen
<1>7. /\ FilesOK(db) /\ db.next \in nextId .. nextId + 2
      /\ \A k \in Keys :
            Newest(db.tables, k) =
               IF \E l \in frozen : Values(l, k) # {} THEN UNION {Values(l, k) : l \in frozen}
               ELSE Newest(tables, k)
  <2>1. Files.next = nextId /\ Files.tables = tables
    BY DEF Files
  <2> QED BY <1>5, <2>1 DEF FlushedTo
<1>8. db.next \in 1 .. MaxIds + 1 /\ db.next <= MaxIds + 1
  BY <1>1, <1>2, <1>7
<1>9. bytes \in Seq(Byte) /\ LoadManifest(disk').value = db.levels
  <2>1. ManifestWritable(db.levels)
    BY <1>7, <1>8, FilesWritable
  <2>2. bytes \in Seq(Byte) /\ DecodeManifest(bytes) = Decoded(db.levels, Len(bytes))
    BY <2>1, ManifestBytes, ManifestRead
  <2>3. disk' # None /\ (CHOOSE b \in disk' : TRUE) = bytes
    BY <1>2 DEF None, Some
  <2>4. LoadManifest(disk') = Decoded(db.levels, Len(bytes))
    BY <2>2, <2>3 DEF LoadManifest
  <2> QED BY <2>2, <2>4 DEF Decoded
<1>10. levels' = db.levels
  BY <1>2, <1>9
<1> HIDE DEF bytes
<1>11. readers' \in Seq(Nat) /\ Range(readers') = DOMAIN db.tables /\ IsInjective(readers')
  <2>1. readers' = Opened(db.levels)[Len(db.levels)]
    BY <1>2, <1>10
  <2> QED BY <1>7, <2>1, OpenedReaders
<1>12. nextId' \in 1 .. db.next /\ DOMAIN db.tables \subseteq 1 .. nextId' - 1
  <2>1. nextId' = 1 + Max({0} \cup {m.id : m \in Named(db.levels)})
    BY <1>2, <1>10
  <2> QED BY <1>7, <2>1, OpenedNext
<1>13. FilesOK(Files)'
  <2> DEFINE db2 == Files'
  <2>1. /\ db2.levels = db.levels /\ db2.tables = db.tables /\ db2.readers = readers'
        /\ db2.next = nextId'
    BY <1>2, <1>10 DEF Files
  <2> HIDE DEF db2
  <2>2. nextId' \in Nat \ {0}
    BY <1>12
  <2>3. FilesOK(db2)
    BY <1>7, <1>11, <1>12, <2>1, <2>2, FilesReopened
  <2> QED BY <2>3 DEF db2
<1>14. nextId' \in 1 .. MaxIds + 1
  BY <1>1, <1>8, <1>12
<1>15. TypeOK'
  <2>1. \A l \in Lists' : ListOK(l)
    BY <1>2, <1>3, NewListOK DEF Lists
  <2>2. \A b \in disk' : b \in Seq(Byte)
    BY <1>2, <1>9 DEF Some
  <2> QED BY <1>1, <1>2, <1>14, <2>1, <2>2 DEF TypeOK
<1>16. FrozenInWrite'
  BY <1>2, <1>3 DEF FrozenInWrite
<1>17. Saved'
  BY <1>2, <1>10 DEF Saved, Some, None, bytes
<1>18. ASSUME NEW k \in Keys PROVE latest'[k] = Held(k)'
  <2>1. Held(k)' = Newest(db.tables, k)
    BY <1>2, <1>3, NewListOK DEF Held
  <2>2. latest[k] = IF Values(active, k) # {} THEN Values(active, k) ELSE Newest(tables, k)
    BY <1>3 DEF FlushInv, Held
  <2>3. (\E l \in frozen : Values(l, k) # {}) <=> Values(active, k) # {}
    BY <1>4, <1>6
  <2>4. Values(active, k) # {} => UNION {Values(l, k) : l \in frozen} = Values(active, k)
    BY <1>4
  <2> QED BY <1>2, <1>7, <2>1, <2>2, <2>3, <2>4
<1> QED BY <1>13, <1>15, <1>16, <1>17, <1>18 DEF FlushInv

(* FlushInv: from the log through memtable, files and manifest and back     *)
(* through open, everything is where the reads look for it.                 *)
THEOREM FlushInvariant == Spec => []FlushInv
<1>1. FlushInv /\ [Next]_vars => FlushInv'
  <2> SUFFICES ASSUME FlushInv, [Next]_vars PROVE FlushInv'
    OBVIOUS
  <2>1. CASE UNCHANGED vars
    BY <2>1, FlushStays
  <2>2. ASSUME NEW k \in Keys, NEW v \in Vals, Replay(k, v) PROVE FlushInv'
    BY <2>2, FlushReplay
  <2>3. ASSUME NEW k \in Keys, NEW v \in Vals, Put(k, v) PROVE FlushInv'
    BY <2>3, FlushPut
  <2>4. CASE Replayed
    BY <2>4, FlushReplayed
  <2>5. CASE EndWrite
    BY <2>5, FlushEndWrite
  <2>6. CASE CloseAndOpen
    BY <2>6, FlushReopened
  <2> QED BY <2>1, <2>2, <2>3, <2>4, <2>5, <2>6 DEF Next
<1> QED BY <1>1, FlushInit, PTL DEF Spec

(* TypeOK: lists, ids and the bytes on disk stay what they are.             *)
THEOREM FlushTyped == Spec => []TypeOK
<1>1. FlushInv => TypeOK
  BY DEF FlushInv
<1> QED BY <1>1, FlushInvariant, PTL

(* ListsSound: towers, iteration and get of the memtable's lists agree and  *)
(* drop frees every node.                                                   *)
THEOREM FlushListsSound == Spec => []ListsSound
<1>1. FlushInv => ListsSound
  <2> SUFFICES ASSUME FlushInv PROVE ListsSound
    OBVIOUS
  <2>1. ASSUME NEW l \in Lists PROVE NodesOK(l.nodes)
    BY DEF FlushInv, TypeOK, ListOK
  <2> QED BY <2>1, ListSound DEF ListsSound
<1> QED BY <1>1, FlushInvariant, PTL

(* ManifestReads: the manifest's bytes decode to the manifest in memory,    *)
(* and no proper beginning of them decodes.                                 *)
THEOREM FlushManifestReads == Spec => []ManifestReads
<1>1. FlushInv => ManifestReads
  <2> SUFFICES ASSUME FlushInv, NEW bytes \in disk
               PROVE  /\ LoadManifest(disk).ok /\ LoadManifest(disk).value = levels
                      /\ \A n \in 0 .. Len(bytes) - 1 : ~DecodeManifest(SubSeq(bytes, 1, n)).ok
    BY DEF ManifestReads
  <2>1. disk = {EncodeManifest(levels)} /\ bytes = EncodeManifest(levels)
    BY DEF FlushInv, Saved, None, Some
  <2>2. ManifestWritable(levels)
    <3>1. Files.levels = levels /\ Files.next = nextId
      BY DEF Files
    <3>2. nextId <= MaxIds + 1
      BY FlushPathAssumption DEF FlushInv, TypeOK
    <3>3. FilesOK(Files)
      BY DEF FlushInv
    <3>4. ManifestWritable(Files.levels)
      BY <3>1, <3>2, <3>3, FilesWritable
    <3> QED BY <3>1, <3>4
  <2>3. DecodeManifest(bytes) = Decoded(levels, Len(bytes))
    BY <2>1, <2>2, ManifestRead
  <2>4. LoadManifest(disk) = DecodeManifest(bytes)
    BY <2>1 DEF LoadManifest, None
  <2>5. \A n \in 0 .. Len(bytes) - 1 : ~DecodeManifest(SubSeq(bytes, 1, n)).ok
    BY <2>1, <2>2, ManifestCut
  <2> QED BY <2>3, <2>4, <2>5 DEF Decoded
<1> QED BY <1>1, FlushInvariant, PTL

----------------------------------------------------------------------------
(* What follows from it.                                                    *)

(* NamesFiles: the manifest names each file once, every file has one reader *)
(* and the bounds a meta states are those of its table.                     *)
THEOREM FlushNamesFiles == Spec => []NamesFiles
<1>1. FlushInv => NamesFiles
  <2> SUFFICES ASSUME FlushInv PROVE NamesFiles
    OBVIOUS
  <2> DEFINE db == Files
             L0 == MetasAt(db, 0)
             L1 == MetasAt(db, 1)
  <2>1. db.levels = levels /\ db.tables = tables /\ db.readers = readers /\ db.next = nextId
    BY DEF Files
  <2>2. FilesOK(db)
    BY DEF FlushInv
  <2> HIDE DEF db
  <2>3. /\ levels \in Seq(Seq(Meta)) /\ Len(levels) <= 2
        /\ {m.id : m \in AllMetas(db)} = DOMAIN tables
        /\ \A m \in AllMetas(db) : m = MetaOf(m.id, tables[m.id])
        /\ ByAge(L0) /\ ByAge(L1)
        /\ \A m0 \in Range(L0), m1 \in Range(L1) : m1.id < m0.id
        /\ Range(readers) = DOMAIN tables /\ IsInjective(readers)
    BY <2>1, <2>2 DEF FilesOK, AllMetas
  <2>4. Named(levels) = AllMetas(db)
    BY <2>1, <2>2, OpenedNext
  <2>5. \A m \in Named(levels) : /\ m.min = tables[m.id][1][1]
                                 /\ m.max = tables[m.id][Len(tables[m.id])][1]
    BY <2>3, <2>4 DEF MetaOf
  <2>6. L0 \in Seq(Meta) /\ L1 \in Seq(Meta)
    BY <2>1, <2>3, LevelMetas
  <2>7. /\ \A x, y \in DOMAIN L0 : L0[x].id = L0[y].id => x = y
        /\ \A x, y \in DOMAIN L1 : L1[x].id = L1[y].id => x = y
        /\ \A x \in DOMAIN L0, y \in DOMAIN L1 : L0[x].id # L1[y].id
    <3>1. /\ DOMAIN L0 = 1 .. Len(L0) /\ DOMAIN L1 = 1 .. Len(L1)
          /\ Len(L0) \in Nat /\ Len(L1) \in Nat
          /\ \A x \in DOMAIN L0 : L0[x] \in Meta
          /\ \A x \in DOMAIN L1 : L1[x] \in Meta
      BY <2>6
    <3>2. /\ \A x \in DOMAIN L0 : L0[x].id \in Nat /\ L0[x] \in Range(L0)
          /\ \A x \in DOMAIN L1 : L1[x].id \in Nat /\ L1[x] \in Range(L1)
      BY <3>1, MetaParts DEF Range
    <3>3. \A x, y \in DOMAIN L0 : x < y => L0[x].id < L0[y].id
      BY <2>3 DEF ByAge
    <3>4. \A x, y \in DOMAIN L1 : x < y => L1[x].id < L1[y].id
      BY <2>3 DEF ByAge
    <3>5. \A x \in DOMAIN L0, y \in DOMAIN L1 : L1[y].id < L0[x].id
      BY <2>3, <3>2
    <3> HIDE DEF L0, L1
    <3>6. ASSUME NEW x \in DOMAIN L0, NEW y \in DOMAIN L0, L0[x].id = L0[y].id PROVE x = y
      <4>1. x \in Nat /\ y \in Nat /\ ~(x < y) /\ ~(y < x)
        BY <3>1, <3>2, <3>3, <3>6
      <4> QED BY <4>1
    <3>7. ASSUME NEW x \in DOMAIN L1, NEW y \in DOMAIN L1, L1[x].id = L1[y].id PROVE x = y
      <4>1. x \in Nat /\ y \in Nat /\ ~(x < y) /\ ~(y < x)
        BY <3>1, <3>2, <3>4, <3>7
      <4> QED BY <4>1
    <3>8. ASSUME NEW x \in DOMAIN L0, NEW y \in DOMAIN L1 PROVE L0[x].id # L1[y].id
      <4>1. L1[y].id < L0[x].id /\ L0[x].id \in Nat /\ L1[y].id \in Nat
        BY <3>2, <3>5
      <4> QED BY <4>1
    <3> QED BY <3>6, <3>7, <3>8
  <2>8. \A i \in DOMAIN levels : (i = 1 /\ levels[i] = L0) \/ (i = 2 /\ levels[i] = L1)
    <3>1. DOMAIN levels = 1 .. Len(levels) /\ Len(levels) \in Nat
      <4> DEFINE S == Seq(Meta)
      <4>1. levels \in Seq(S)
        BY <2>3
      <4> HIDE DEF S
      <4> QED BY <4>1
    <3> DEFINE n == Len(levels)
    <3>2. n \in Nat /\ n <= 2 /\ DOMAIN levels = 1 .. n
      BY <2>3, <3>1
    <3>3. (0 < n => L0 = levels[1]) /\ (1 < n => L1 = levels[2])
      <4>1. 0 + 1 = 1 /\ 1 + 1 = 2
        OBVIOUS
      <4> QED BY <2>1, <4>1 DEF MetasAt
    <3> HIDE DEF n, L0, L1
    <3> SUFFICES ASSUME NEW i \in DOMAIN levels
                 PROVE  (i = 1 /\ levels[i] = L0) \/ (i = 2 /\ levels[i] = L1)
      OBVIOUS
    <3>4. (i = 1 /\ 0 < n) \/ (i = 2 /\ 1 < n)
      BY <3>2
    <3> QED BY <3>3, <3>4
  <2>9. \A i, j \in DOMAIN levels : \A x \in DOMAIN levels[i], y \in DOMAIN levels[j] :
           levels[i][x].id = levels[j][y].id => i = j /\ x = y
    <3> HIDE DEF L0, L1
    <3> SUFFICES ASSUME NEW i \in DOMAIN levels, NEW j \in DOMAIN levels,
                        NEW x \in DOMAIN levels[i], NEW y \in DOMAIN levels[j],
                        levels[i][x].id = levels[j][y].id
                 PROVE  i = j /\ x = y
      OBVIOUS
    <3>1. CASE i = 1 /\ j = 1
      BY <2>7, <2>8, <3>1
    <3>2. CASE i = 2 /\ j = 2
      BY <2>7, <2>8, <3>2
    <3>3. CASE i = 1 /\ j = 2
      BY <2>7, <2>8, <3>3
    <3>4. CASE i = 2 /\ j = 1
      BY <2>7, <2>8, <3>4
    <3> QED BY <2>8, <3>1, <3>2, <3>3, <3>4
  <2> QED BY <2>3, <2>4, <2>5, <2>9 DEF NamesFiles
<1> QED BY <1>1, FlushInvariant, PTL

(* FindsLatest: as long as the readers stand in the order of their ids, get *)
(* finds the last value written to a key.                                   *)
THEOREM FlushFindsLatest == Spec => []FindsLatest
<1>1. FlushInv => FindsLatest
  <2> SUFFICES ASSUME FlushInv, InAgeOrder, NEW k \in Keys PROVE Find(k) = latest[k]
    BY DEF FindsLatest
  <2>1. Get(active, k) = Values(active, k) /\ \A l \in immutable : Get(l, k) = Values(l, k)
    <3>1. \A l \in Lists : NodesOK(l.nodes)
      BY DEF FlushInv, TypeOK, ListOK
    <3> QED BY <3>1, GetFinds DEF Lists
  <2>2. latest[k] = Held(k)
    BY DEF FlushInv
  <2> DEFINE at == {i \in DOMAIN readers : Holding(tables[readers[i]], k) # {}}
             ids == {id \in DOMAIN tables : Holding(tables[id], k) # {}}
  <2>3. (IF at = {} THEN None ELSE Holding(tables[readers[Max(at)]], k)) = Newest(tables, k)
    <3>1. /\ readers \in Seq(Nat) /\ Range(readers) = DOMAIN tables
          /\ nextId \in Nat \ {0} /\ DOMAIN tables \subseteq 1 .. nextId - 1
      <4>1. Files.tables = tables /\ Files.readers = readers /\ Files.next = nextId
        BY DEF Files
      <4> QED BY <4>1 DEF FlushInv, FilesOK
    <3>2. /\ DOMAIN readers = 1 .. Len(readers) /\ Len(readers) \in Nat
          /\ Range(readers) = {readers[i] : i \in DOMAIN readers}
      BY <3>1 DEF Range
    <3>3. \A i, j \in DOMAIN readers : i < j => readers[i] < readers[j]
      BY DEF InAgeOrder
    <3>4. ids = {readers[i] : i \in at}
      BY <3>1, <3>2
    <3>5. CASE at = {}
      BY <3>4, <3>5 DEF Newest
    <3>6. CASE at # {}
      <4>1. at \subseteq 0 .. Len(readers)
        BY <3>2
      <4>2. PICK n \in Nat : n = nextId - 1
        BY <3>1
      <4>3. ids \subseteq 0 .. n /\ ids # {}
        <5>1. DOMAIN tables \subseteq 0 .. n
          BY <3>1, <4>2
        <5>2. ids \subseteq DOMAIN tables
          OBVIOUS
        <5> HIDE DEF ids, at
        <5> QED BY <3>4, <3>6, <5>1, <5>2
      <4>4. \A i \in at : i \in DOMAIN readers
        OBVIOUS
      <4> DEFINE i == Max(at)
                 x == Max(ids)
      <4>5. Newest(tables, k) = Holding(tables[x], k)
        BY <4>3 DEF Newest
      <4> HIDE DEF at, ids
      <4>6. i \in at /\ \A j \in at : i >= j
        BY <3>2, <3>6, <4>1, MaxIsGreatest
      <4>7. x \in ids /\ \A y \in ids : x >= y
        BY <4>3, MaxIsGreatest
      <4>8. PICK j \in at : readers[j] = x
        BY <3>4, <4>7
      <4>9. readers[i] \in ids
        BY <3>4, <4>6
      <4> HIDE DEF i, x
      <4>10. i \in Nat /\ j \in Nat /\ i >= j /\ x >= readers[i] /\ x \in Nat /\ readers[i] \in Nat
        <5>1. at \subseteq Nat /\ ids \subseteq Nat
          BY <3>2, <4>1, <4>3
        <5> QED BY <4>6, <4>7, <4>8, <4>9, <5>1
      <4>11. ~(j < i)
        <5> SUFFICES ASSUME j < i PROVE FALSE
          OBVIOUS
        <5>1. readers[j] < readers[i]
          BY <3>3, <4>4, <4>6, <4>8
        <5> QED BY <4>8, <4>10, <5>1
      <4>12. i = j
        BY <4>10, <4>11
      <4> QED BY <3>6, <4>5, <4>8, <4>12 DEF i
    <3> QED BY <3>5, <3>6
  <2> HIDE DEF at
  <2>4. Find(k) = IF Get(active, k) # {} THEN Get(active, k)
                  ELSE IF \E l \in immutable : Get(l, k) # {}
                  THEN UNION {Get(l, k) : l \in immutable}
                  ELSE IF at = {} THEN None ELSE Holding(tables[readers[Max(at)]], k)
    BY DEF Find, at
  <2>5. UNION {Get(l, k) : l \in immutable} = UNION {Values(l, k) : l \in immutable}
    BY <2>1
  <2>6. (\E l \in immutable : Get(l, k) # {}) <=> (\E l \in immutable : Values(l, k) # {})
    BY <2>1
  <2>7. Find(k) = IF Values(active, k) # {} THEN Values(active, k)
                  ELSE IF \E l \in immutable : Values(l, k) # {}
                       THEN UNION {Values(l, k) : l \in immutable}
                  ELSE Newest(tables, k)
    BY <2>1, <2>3, <2>4, <2>5, <2>6
  <2> QED BY <2>2, <2>7 DEF Held
<1> QED BY <1>1, FlushInvariant, PTL

----------------------------------------------------------------------------
(* The merge iterator.                                                      *)

(* The merge iterator.  Its recursions, step by step: the entries counted,  *)
LEMMA CountsSteps ==
  ASSUME NEW sources, Len(sources) \in Nat
  PROVE  /\ Counts(sources)[0] = 0
         /\ \A n \in 1 .. Len(sources) :
              Counts(sources)[n] = Counts(sources)[n - 1] + Len(sources[n])
<1> DEFINE N == Len(sources)
           StepOf(x, n) == x + Len(sources[n])
           left == Counts(sources)
           Is(f, m) == f = [n \in 0 .. m |-> IF n = 0 THEN 0 ELSE StepOf(f[n - 1], n)]
           T == {m \in 0 .. N : \E f : Is(f, m)}
<1>1. N \in Nat
  OBVIOUS
<1>2. left = CHOOSE f : Is(f, N)
  BY DEF Counts
<1> HIDE DEF N, StepOf, left
<1>3. 0 \in T
  <2>1. Is([n \in 0 .. 0 |-> 0], 0)
    OBVIOUS
  <2> HIDE DEF Is
  <2> QED BY <1>1, <2>1
<1>4. ASSUME NEW m \in 1 .. N, m - 1 \in T PROVE m \in T
  <2>1. PICK f : Is(f, m - 1)
    BY <1>4
  <2> DEFINE g == [n \in 0 .. m |-> IF n = m THEN StepOf(f[m - 1], m) ELSE f[n]]
  <2>2. ASSUME NEW n \in 0 .. m PROVE g[n] = IF n = 0 THEN 0 ELSE StepOf(g[n - 1], n)
    <3>1. CASE n = 0
      <4>1. n # m /\ 0 \in 0 .. m - 1
        BY <1>1, <3>1
      <4> QED BY <2>1, <3>1, <4>1
    <3>2. CASE n = m
      <4>1. n # 0 /\ n - 1 \in 0 .. m /\ n - 1 # m
        BY <1>1, <3>2
      <4> QED BY <3>2, <4>1
    <3>3. CASE n # 0 /\ n # m
      <4>1. n \in 0 .. m - 1 /\ n - 1 \in 0 .. m - 1 /\ n - 1 \in 0 .. m /\ n - 1 # m
        BY <1>1, <3>3
      <4> QED BY <2>1, <3>3, <4>1
    <3> QED BY <3>1, <3>2, <3>3
  <2>3. g = [n \in 0 .. m |-> g[n]]
    OBVIOUS
  <2> HIDE DEF g
  <2>4. Is(g, m)
    BY <2>2, <2>3
  <2> HIDE DEF Is
  <2> QED BY <1>1, <2>4
<1>5. N \in T
  <2>1. 0 .. N \subseteq T
    <3> HIDE DEF T
    <3> QED BY <1>1, <1>3, <1>4, UpTo
  <2> HIDE DEF T
  <2>2. N \in T
    BY <1>1, <2>1
  <2> QED BY <2>2
<1>6. Is(left, N)
  <2> HIDE DEF Is
  <2> QED BY <1>2, <1>5
<1>7. left[0] = 0 /\ \A n \in 1 .. N : left[n] = StepOf(left[n - 1], n)
  <2>1. 0 \in 0 .. N /\ \A n \in 1 .. N : n \in 0 .. N /\ n # 0
    BY <1>1
  <2> QED BY <1>6, <2>1
<1> QED BY <1>7 DEF left, N, StepOf

(* one entry of each source pulled,                                         *)
LEMMA SeededSteps ==
  ASSUME NEW sources, Len(sources) \in Nat
  PROVE  /\ Seeded(sources)[0] = [heap |-> {}, sources |-> sources]
         /\ \A n \in 1 .. Len(sources) :
              Seeded(sources)[n] = Pull(Seeded(sources)[n - 1], n)
<1> DEFINE N == Len(sources)
           StepOf(x, n) == Pull(x, n)
           left == Seeded(sources)
           Is(f, m) == f = [n \in 0 .. m |-> IF n = 0 THEN [heap |-> {}, sources |-> sources]
                                            ELSE StepOf(f[n - 1], n)]
           T == {m \in 0 .. N : \E f : Is(f, m)}
<1>1. N \in Nat
  OBVIOUS
<1>2. left = CHOOSE f : Is(f, N)
  BY DEF Seeded
<1> HIDE DEF N, StepOf, left
<1>3. 0 \in T
  <2>1. Is([n \in 0 .. 0 |-> [heap |-> {}, sources |-> sources]], 0)
    OBVIOUS
  <2> HIDE DEF Is
  <2> QED BY <1>1, <2>1
<1>4. ASSUME NEW m \in 1 .. N, m - 1 \in T PROVE m \in T
  <2>1. PICK f : Is(f, m - 1)
    BY <1>4
  <2> DEFINE g == [n \in 0 .. m |-> IF n = m THEN StepOf(f[m - 1], m) ELSE f[n]]
  <2>2. ASSUME NEW n \in 0 .. m PROVE g[n] = IF n = 0 THEN [heap |-> {}, sources |-> sources]
                               ELSE StepOf(g[n - 1], n)
    <3>1. CASE n = 0
      <4>1. n # m /\ 0 \in 0 .. m - 1
        BY <1>1, <3>1
      <4> QED BY <2>1, <3>1, <4>1
    <3>2. CASE n = m
      <4>1. n # 0 /\ n - 1 \in 0 .. m /\ n - 1 # m
        BY <1>1, <3>2
      <4> QED BY <3>2, <4>1
    <3>3. CASE n # 0 /\ n # m
      <4>1. n \in 0 .. m - 1 /\ n - 1 \in 0 .. m - 1 /\ n - 1 \in 0 .. m /\ n - 1 # m
        BY <1>1, <3>3
      <4> QED BY <2>1, <3>3, <4>1
    <3> QED BY <3>1, <3>2, <3>3
  <2>3. g = [n \in 0 .. m |-> g[n]]
    OBVIOUS
  <2> HIDE DEF g
  <2>4. Is(g, m)
    BY <2>2, <2>3
  <2> HIDE DEF Is
  <2> QED BY <1>1, <2>4
<1>5. N \in T
  <2>1. 0 .. N \subseteq T
    <3> HIDE DEF T
    <3> QED BY <1>1, <1>3, <1>4, UpTo
  <2> HIDE DEF T
  <2>2. N \in T
    BY <1>1, <2>1
  <2> QED BY <2>2
<1>6. Is(left, N)
  <2> HIDE DEF Is
  <2> QED BY <1>2, <1>5
<1>7. /\ left[0] = [heap |-> {}, sources |-> sources]
      /\ \A n \in 1 .. N : left[n] = StepOf(left[n - 1], n)
  <2>1. 0 \in 0 .. N /\ \A n \in 1 .. N : n \in 0 .. N /\ n # 0
    BY <1>1
  <2> QED BY <1>6, <2>1
<1> QED BY <1>7 DEF left, N, StepOf

(* and the entries popped.                                                  *)
After(run) ==
    [it |-> Step(run.it), out |-> Append(run.out, << Popped(run.it).key, Popped(run.it).value >>)]

(* Runs starts with the new iterator and steps once for every entry.        *)
LEMMA RunsSteps ==
  ASSUME NEW sources, NEW total \in Nat, total = Counts(sources)[Len(sources)]
  PROVE  /\ Runs(sources)[0] = [it |-> NewMerge(sources), out |-> << >>]
         /\ \A n \in 1 .. total :
              Runs(sources)[n] = After(Runs(sources)[n - 1])
<1> DEFINE N == total
           StepOf(x, n) == After(x)
           left == Runs(sources)
           Is(f, m) == f = [n \in 0 .. m |-> IF n = 0 THEN [it |-> NewMerge(sources), out |-> << >>]
                                            ELSE StepOf(f[n - 1], n)]
           T == {m \in 0 .. N : \E f : Is(f, m)}
<1>1. N \in Nat
  OBVIOUS
<1>2. left = CHOOSE f : Is(f, N)
  BY DEF Runs, After
<1> HIDE DEF N, StepOf, left
<1>3. 0 \in T
  <2>1. Is([n \in 0 .. 0 |-> [it |-> NewMerge(sources), out |-> << >>]], 0)
    OBVIOUS
  <2> HIDE DEF Is
  <2> QED BY <1>1, <2>1
<1>4. ASSUME NEW m \in 1 .. N, m - 1 \in T PROVE m \in T
  <2>1. PICK f : Is(f, m - 1)
    BY <1>4
  <2> DEFINE g == [n \in 0 .. m |-> IF n = m THEN StepOf(f[m - 1], m) ELSE f[n]]
  <2>2. ASSUME NEW n \in 0 .. m PROVE g[n] = IF n = 0 THEN [it |-> NewMerge(sources), out |-> << >>]
                               ELSE StepOf(g[n - 1], n)
    <3>1. CASE n = 0
      <4>1. n # m /\ 0 \in 0 .. m - 1
        BY <1>1, <3>1
      <4> QED BY <2>1, <3>1, <4>1
    <3>2. CASE n = m
      <4>1. n # 0 /\ n - 1 \in 0 .. m /\ n - 1 # m
        BY <1>1, <3>2
      <4> QED BY <3>2, <4>1
    <3>3. CASE n # 0 /\ n # m
      <4>1. n \in 0 .. m - 1 /\ n - 1 \in 0 .. m - 1 /\ n - 1 \in 0 .. m /\ n - 1 # m
        BY <1>1, <3>3
      <4> QED BY <2>1, <3>3, <4>1
    <3> QED BY <3>1, <3>2, <3>3
  <2>3. g = [n \in 0 .. m |-> g[n]]
    OBVIOUS
  <2> HIDE DEF g
  <2>4. Is(g, m)
    BY <2>2, <2>3
  <2> HIDE DEF Is
  <2> QED BY <1>1, <2>4
<1>5. N \in T
  <2>1. 0 .. N \subseteq T
    <3> HIDE DEF T
    <3> QED BY <1>1, <1>3, <1>4, UpTo
  <2> HIDE DEF T
  <2>2. N \in T
    BY <1>1, <2>1
  <2> QED BY <2>2
<1>6. Is(left, N)
  <2> HIDE DEF Is
  <2> QED BY <1>2, <1>5
<1>7. /\ left[0] = [it |-> NewMerge(sources), out |-> << >>]
      /\ \A n \in 1 .. N : left[n] = StepOf(left[n - 1], n)
  <2>1. 0 \in 0 .. N /\ \A n \in 1 .. N : n \in 0 .. N /\ n # 0
    BY <1>1
  <2> QED BY <1>6, <2>1
<1> QED BY <1>7 DEF left, N, StepOf

Entries == Seq(Keys \X Vals)

(* A tuple of n tables is a sequence.                                       *)
LEMMA TablesListed ==
  ASSUME NEW n \in Nat, NEW p \in [1 .. n -> Entries]
  PROVE  /\ Len(p) = n /\ DOMAIN p = 1 .. n
         /\ \A s \in 1 .. n : p[s] \in Entries /\ Len(p[s]) \in Nat
         /\ \A s \in 1 .. n : Len(p[s]) = 0 <=> p[s] = << >>
<1>1. \A x : x \in Entries => Len(x) \in Nat /\ (Len(x) = 0 <=> x = << >>)
  BY DEF Entries
<1>2. Len(p) = n
  OBVIOUS
<1> QED BY <1>1, <1>2

(* What is counted is there.                                                *)
LEMMA CountsZero ==
  ASSUME NEW n \in Nat, NEW p \in [1 .. n -> Entries]
  PROVE  /\ \A m \in 0 .. n : Counts(p)[m] \in Nat
         /\ Counts(p)[n] = 0 <=> \A s \in 1 .. n : p[s] = << >>
<1> DEFINE c == Counts(p)
           len(s) == Len(p[s])
<1>1. /\ Len(p) = n
      /\ \A s \in 1 .. n : len(s) \in Nat /\ (len(s) = 0 <=> p[s] = << >>)
  BY TablesListed
<1>2. c[0] = 0 /\ \A m \in 1 .. n : c[m] = c[m - 1] + len(m)
  BY <1>1, CountsSteps
<1> HIDE DEF c, len
<1> DEFINE T == {m \in 0 .. n : c[m] \in Nat /\ (c[m] = 0 <=> \A s \in 1 .. m : p[s] = << >>)}
<1>3. 0 \in T
  BY <1>2
<1>4. ASSUME NEW m \in 1 .. n, m - 1 \in T PROVE m \in T
  <2>1. c[m - 1] \in Nat /\ (c[m - 1] = 0 <=> \A s \in 1 .. m - 1 : p[s] = << >>)
    BY <1>4
  <2>2. c[m] = c[m - 1] + len(m) /\ len(m) \in Nat /\ (len(m) = 0 <=> p[m] = << >>)
    BY <1>1, <1>2
  <2>3. c[m] \in Nat /\ (c[m] = 0 <=> c[m - 1] = 0 /\ len(m) = 0)
    BY <2>1, <2>2
  <2>4. \A s \in 1 .. m : s \in 1 .. m - 1 \/ s = m
    OBVIOUS
  <2>5. 1 .. m - 1 \subseteq 1 .. m /\ m \in 1 .. m
    OBVIOUS
  <2>6. (\A s \in 1 .. m : p[s] = << >>) <=> (\A s \in 1 .. m - 1 : p[s] = << >>) /\ p[m] = << >>
    BY <2>4, <2>5
  <2> QED BY <2>1, <2>2, <2>3, <2>6
<1> HIDE DEF T
<1>5. 0 .. n \subseteq T
  BY <1>3, <1>4, UpTo
<1>6. n \in 0 .. n
  OBVIOUS
<1> QED BY <1>5, <1>6 DEF T, c

(* Taking one entry takes one from the count.                               *)
LEMMA CountsDrop ==
  ASSUME NEW n \in Nat, NEW p \in [1 .. n -> Entries], NEW s \in 1 .. n, p[s] # << >>,
         NEW q, q = [p EXCEPT ![s] = Tail(p[s])]
  PROVE  q \in [1 .. n -> Entries] /\ Counts(q)[n] = Counts(p)[n] - 1
<1>1. Tail(p[s]) \in Entries /\ Len(Tail(p[s])) = Len(p[s]) - 1 /\ Len(p[s]) \in Nat
  BY DEF Entries
<1>2. q \in [1 .. n -> Entries]
  BY <1>1
<1> DEFINE c == Counts(p)
           d == Counts(q)
           a(m) == Len(p[m])
           b(m) == Len(q[m])
<1>3. Len(p) = n /\ Len(q) = n
  BY <1>2, TablesListed
<1>4. /\ \A m \in 1 .. n : m # s => a(m) = b(m)
      /\ b(s) = a(s) - 1
      /\ \A m \in 1 .. n : a(m) \in Nat
  BY <1>1, TablesListed
<1>5. /\ c[0] = 0 /\ \A m \in 1 .. n : c[m] = c[m - 1] + a(m)
      /\ d[0] = 0 /\ \A m \in 1 .. n : d[m] = d[m - 1] + b(m)
  BY <1>3, CountsSteps
<1>6. \A m \in 0 .. n : c[m] \in Nat
  BY CountsZero
<1> HIDE DEF c, d, a, b
<1> DEFINE T == {m \in 0 .. n : d[m] = IF m < s THEN c[m] ELSE c[m] - 1}
<1>7. 0 \in T
  BY <1>5
<1>8. ASSUME NEW m \in 1 .. n, m - 1 \in T PROVE m \in T
  <2>1. d[m - 1] = IF m - 1 < s THEN c[m - 1] ELSE c[m - 1] - 1
    BY <1>8
  <2>2. c[m] = c[m - 1] + a(m) /\ d[m] = d[m - 1] + b(m)
    BY <1>5
  <2>3. m - 1 \in 0 .. n
    OBVIOUS
  <2>4. c[m - 1] \in Nat /\ a(m) \in Nat /\ (m # s => b(m) = a(m)) /\ (m = s => b(m) = a(m) - 1)
    BY <1>4, <1>6, <2>3
  <2>5. d[m] = IF m < s THEN c[m] ELSE c[m] - 1
    <3>1. CASE m < s
      <4>1. m - 1 < s /\ m # s
        BY <3>1
      <4> QED BY <2>1, <2>2, <2>4, <3>1, <4>1
    <3>2. CASE m = s
      <4>1. m - 1 < s /\ ~(m < s)
        BY <3>2
      <4>2. d[m] = c[m - 1] + (a(m) - 1)
        BY <2>1, <2>2, <2>4, <3>2, <4>1
      <4>3. \A x, y \in Nat : x + (y - 1) = (x + y) - 1
        OBVIOUS
      <4>4. c[m - 1] \in Nat /\ a(m) \in Nat
        BY <2>4
      <4>5. d[m] = c[m] - 1
        BY <2>2, <4>2, <4>3, <4>4
      <4> QED BY <4>1, <4>5
    <3>3. CASE s < m
      <4>1. ~(m - 1 < s) /\ m # s /\ ~(m < s)
        BY <3>3
      <4>2. d[m] = (c[m - 1] - 1) + a(m)
        BY <2>1, <2>2, <2>4, <4>1
      <4>3. d[m] = c[m] - 1
        BY <2>2, <2>4, <4>2
      <4> QED BY <4>1, <4>3
    <3> QED BY <3>1, <3>2, <3>3
  <2> QED BY <2>5
<1> HIDE DEF T
<1>9. 0 .. n \subseteq T
  BY <1>7, <1>8, UpTo
<1>10. n \in T
  BY <1>9
<1>11. d[n] = IF n < s THEN c[n] ELSE c[n] - 1
  BY <1>10 DEF T
<1>12. ~(n < s)
  OBVIOUS
<1> QED BY <1>2, <1>11, <1>12 DEF c, d

(* The iterator holds the tables p: the heads of those that are not empty   *)
(* on the heap, the rest in the sources.                                    *)
HeadOf(p, s) == [key |-> p[s][1][1], value |-> p[s][1][2], source |-> s]

Live(p, m) == {s \in 1 .. m : p[s] # << >>}

Holds(it, p, n) ==
    it = [heap |-> {HeadOf(p, s) : s \in Live(p, n)},
          sources |-> [s \in 1 .. n |-> IF p[s] = << >> THEN << >> ELSE Tail(p[s])]]

SeededTo(it, p, n, m) ==
    it = [heap |-> {HeadOf(p, s) : s \in Live(p, m)},
          sources |-> [s \in 1 .. n |->
                          IF s <= m /\ p[s] # << >> THEN Tail(p[s]) ELSE p[s]]]

(* A new iterator holds its sources.                                        *)
LEMMA NewHolds ==
  ASSUME NEW n \in Nat, NEW p \in [1 .. n -> Entries]
  PROVE  Holds(NewMerge(p), p, n)
<1>1. Len(p) = n
  BY TablesListed
<1> DEFINE it == Seeded(p)
           T == {m \in 0 .. n : SeededTo(it[m], p, n, m)}
<1>2. it[0] = [heap |-> {}, sources |-> p] /\ \A m \in 1 .. n : it[m] = Pull(it[m - 1], m)
  BY <1>1, SeededSteps
<1> HIDE DEF it
<1>3. 0 \in T
  <2>1. Live(p, 0) = {}
    BY DEF Live
  <2>2. p = [s \in 1 .. n |-> IF s <= 0 /\ p[s] # << >> THEN Tail(p[s]) ELSE p[s]]
    OBVIOUS
  <2>3. SeededTo(it[0], p, n, 0)
    BY <1>2, <2>1, <2>2 DEF SeededTo
  <2> QED BY <2>3
<1>4. ASSUME NEW m \in 1 .. n, m - 1 \in T PROVE m \in T
  <2> DEFINE x == it[m - 1]
             before(s) == IF s <= m - 1 /\ p[s] # << >> THEN Tail(p[s]) ELSE p[s]
             after(s) == IF s <= m /\ p[s] # << >> THEN Tail(p[s]) ELSE p[s]
  <2>1. x = [heap |-> {HeadOf(p, s) : s \in Live(p, m - 1)},
             sources |-> [s \in 1 .. n |-> before(s)]]
    BY <1>4 DEF SeededTo
  <2>2. it[m] = Pull(x, m)
    BY <1>2
  <2>3. before(m) = p[m] /\ \A s \in 1 .. n : s # m => before(s) = after(s)
    <3>1. ~(m <= m - 1)
      OBVIOUS
    <3>2. \A s \in 1 .. n : s # m => (s <= m - 1 <=> s <= m)
      OBVIOUS
    <3> QED BY <3>1, <3>2
  <2>4. p[m] = << >> => after(m) = << >>
    OBVIOUS
  <2>5. p[m] # << >> => after(m) = Tail(p[m])
    OBVIOUS
  <2> HIDE DEF x, before, after
  <2>6. Live(p, m) = IF p[m] = << >> THEN Live(p, m - 1) ELSE Live(p, m - 1) \cup {m}
    <3>1. 1 .. m = (1 .. m - 1) \cup {m}
      OBVIOUS
    <3> QED BY <3>1 DEF Live
  <2>7. x.sources[m] = p[m] /\ m \in DOMAIN x.sources
    BY <2>1, <2>3
  <2>8. CASE p[m] = << >>
    <3>1. it[m] = x
      BY <2>2, <2>7, <2>8 DEF Pull
    <3>2. [s \in 1 .. n |-> before(s)] = [s \in 1 .. n |-> after(s)]
      BY <2>3, <2>4, <2>8
    <3>3. it[m] = [heap |-> {HeadOf(p, s) : s \in Live(p, m)},
                   sources |-> [s \in 1 .. n |-> after(s)]]
      BY <2>1, <2>6, <2>8, <3>1, <3>2
    <3>4. SeededTo(it[m], p, n, m)
      BY <3>3 DEF SeededTo, after
    <3> QED BY <3>4
  <2>9. CASE p[m] # << >>
    <3>1. it[m] = [heap |-> x.heap \cup {HeadOf(p, m)},
                   sources |-> [x.sources EXCEPT ![m] = Tail(@)]]
      BY <2>2, <2>7, <2>9 DEF Pull, HeadOf
    <3>2. [x.sources EXCEPT ![m] = Tail(@)] = [s \in 1 .. n |-> after(s)]
      BY <2>1, <2>3, <2>5, <2>9
    <3>3. x.heap \cup {HeadOf(p, m)} = {HeadOf(p, s) : s \in Live(p, m)}
      BY <2>1, <2>6, <2>9
    <3>4. SeededTo(it[m], p, n, m)
      BY <3>1, <3>2, <3>3 DEF SeededTo, after
    <3> QED BY <3>4
  <2> QED BY <2>8, <2>9
<1>5. n \in T
  <2> HIDE DEF T
  <2>1. 0 .. n \subseteq T
    BY <1>3, <1>4, UpTo
  <2> QED BY <2>1
<1>6. SeededTo(it[n], p, n, n)
  BY <1>5
<1>7. NewMerge(p) = it[n]
  BY <1>1 DEF NewMerge, it
<1>8. [s \in 1 .. n |-> IF s <= n /\ p[s] # << >> THEN Tail(p[s]) ELSE p[s]]
        = [s \in 1 .. n |-> IF p[s] = << >> THEN << >> ELSE Tail(p[s])]
  OBVIOUS
<1> QED BY <1>6, <1>7, <1>8 DEF SeededTo, Holds

(* Entry s comes before entry t.                                            *)
First(p, s, t) == Before(HeadOf(p, s), HeadOf(p, t))

(* The heads of the sources are strictly and totally ordered.               *)
LEMMA HeadsOrder ==
  ASSUME NEW n \in Nat, NEW p \in [1 .. n -> Entries]
  PROVE  /\ \A s \in Live(p, n) : p[s][1][1] \in Keys /\ p[s][1][2] \in Vals
         /\ \A s \in Live(p, n) : ~First(p, s, s)
         /\ \A s, t, u \in Live(p, n) : First(p, s, t) /\ First(p, t, u) => First(p, s, u)
         /\ \A s, t \in Live(p, n) : s = t \/ First(p, s, t) \/ First(p, t, s)
<1>1. \A s \in Live(p, n) : p[s][1][1] \in Keys /\ p[s][1][2] \in Vals
  <2> SUFFICES ASSUME NEW s \in Live(p, n) PROVE p[s][1][1] \in Keys /\ p[s][1][2] \in Vals
    OBVIOUS
  <2>1. p[s] \in Seq(Keys \X Vals) /\ p[s] # << >>
    BY DEF Live, Entries
  <2>2. p[s][1] \in Keys \X Vals
    BY <2>1
  <2> QED BY <2>2
<1>2. \A s, t \in Live(p, n) :
        First(p, s, t) <=> Less(p[s][1][1], p[t][1][1]) \/ (p[s][1][1] = p[t][1][1] /\ s < t)
  BY DEF First, Before, HeadOf
<1>3. Live(p, n) \subseteq Nat
  BY DEF Live
<1> HIDE DEF First
<1> DEFINE key(s) == p[s][1][1]
<1>4. /\ \A s \in Live(p, n) : key(s) \in Keys /\ s \in Nat
      /\ \A s, t \in Live(p, n) :
           First(p, s, t) <=> Less(key(s), key(t)) \/ (key(s) = key(t) /\ s < t)
  BY <1>1, <1>2, <1>3
<1> HIDE DEF key
<1>5. \A s \in Live(p, n) : ~First(p, s, s)
  BY <1>4, KeyOrder
<1>6. ASSUME NEW s \in Live(p, n), NEW t \in Live(p, n), NEW u \in Live(p, n),
             First(p, s, t), First(p, t, u)
      PROVE  First(p, s, u)
  <2>1. /\ key(s) \in Keys /\ key(t) \in Keys /\ key(u) \in Keys
        /\ s \in Nat /\ t \in Nat /\ u \in Nat
        /\ Less(key(s), key(t)) \/ (key(s) = key(t) /\ s < t)
        /\ Less(key(t), key(u)) \/ (key(t) = key(u) /\ t < u)
    BY <1>4, <1>6
  <2>2. Less(key(s), key(u)) \/ (key(s) = key(u) /\ s < u)
    <3>1. CASE key(s) = key(t) /\ key(t) = key(u)
      BY <2>1, <3>1, KeyOrder
    <3>2. CASE ~(key(s) = key(t) /\ key(t) = key(u))
      <4>1. Less(key(s), key(u))
        BY <2>1, <3>2, KeyOrder
      <4> QED BY <4>1
    <3> QED BY <3>1, <3>2
  <2> QED BY <1>4, <2>2
<1>7. ASSUME NEW s \in Live(p, n), NEW t \in Live(p, n)
      PROVE  s = t \/ First(p, s, t) \/ First(p, t, s)
  <2>1. s \in Nat /\ t \in Nat /\ key(s) \in Keys /\ key(t) \in Keys
    BY <1>4
  <2>2. s = t \/ s < t \/ t < s
    BY <2>1
  <2>3. key(s) = key(t) \/ Less(key(s), key(t)) \/ Less(key(t), key(s))
    BY <2>1, KeyOrder
  <2> QED BY <1>4, <2>2, <2>3
<1> QED BY <1>1, <1>5, <1>6, <1>7

(* One of the heads comes before all others.                                *)
LEMMA LeastHead ==
  ASSUME NEW n \in Nat, NEW p \in [1 .. n -> Entries], Live(p, n) # {}
  PROVE  \E s \in Live(p, n) : \A t \in Live(p, n) \ {s} : First(p, s, t)
<1> DEFINE Is(m) == \E s \in Live(p, m) : \A t \in Live(p, m) \ {s} : First(p, s, t)
           T == {m \in 0 .. n : Live(p, m) = {} \/ Is(m)}
<1>1. \A m \in 0 .. n : Live(p, m) \subseteq Live(p, n)
  BY DEF Live
<1>2. 0 \in T
  <2>1. Live(p, 0) = {}
    BY DEF Live
  <2> QED BY <2>1
<1>3. ASSUME NEW m \in 1 .. n, m - 1 \in T PROVE m \in T
  <2>1. Live(p, m) = IF p[m] = << >> THEN Live(p, m - 1) ELSE Live(p, m - 1) \cup {m}
    <3>1. 1 .. m = (1 .. m - 1) \cup {m}
      OBVIOUS
    <3> QED BY <3>1 DEF Live
  <2>2. Live(p, m - 1) = {} \/ Is(m - 1)
    BY <1>3
  <2>3. CASE p[m] = << >>
    BY <2>1, <2>2, <2>3
  <2>4. CASE p[m] # << >> /\ Live(p, m - 1) = {}
    <3>1. Live(p, m) = {m}
      BY <2>1, <2>4
    <3> QED BY <3>1
  <2>5. CASE p[m] # << >> /\ Live(p, m - 1) # {}
    <3>1. PICK s \in Live(p, m - 1) : \A t \in Live(p, m - 1) \ {s} : First(p, s, t)
      BY <2>2, <2>5
    <3>2. Live(p, m) = Live(p, m - 1) \cup {m}
      BY <2>1, <2>5
    <3>3. Live(p, m) \subseteq Live(p, n)
      BY <1>1
    <3>4. s = m \/ First(p, s, m) \/ First(p, m, s)
      BY <3>1, <3>2, <3>3, HeadsOrder
    <3>5. CASE s = m \/ First(p, s, m)
      BY <3>1, <3>2, <3>5
    <3>6. CASE First(p, m, s)
      <4>1. \A t \in Live(p, m - 1) : First(p, m, t)
        BY <3>1, <3>2, <3>3, <3>6, HeadsOrder
      <4>2. m \in Live(p, m) /\ \A t \in Live(p, m) \ {m} : t \in Live(p, m - 1)
        BY <3>2
      <4>3. Is(m)
        BY <4>1, <4>2
      <4> QED BY <4>3
    <3> QED BY <3>4, <3>5, <3>6
  <2> QED BY <2>3, <2>4, <2>5
<1> HIDE DEF T
<1>4. 0 .. n \subseteq T
  BY <1>2, <1>3, UpTo
<1>5. n \in T
  BY <1>4
<1> QED BY <1>5 DEF T

(* It is the one that is popped.                                            *)
LEMMA PoppedLeast ==
  ASSUME NEW n \in Nat, NEW p \in [1 .. n -> Entries], Live(p, n) # {},
         NEW it, Holds(it, p, n)
  PROVE  \E s \in Live(p, n) : /\ Popped(it) = HeadOf(p, s)
                               /\ \A t \in Live(p, n) \ {s} : First(p, s, t)
<1>1. it.heap = {HeadOf(p, s) : s \in Live(p, n)}
  BY DEF Holds
<1>2. PICK s \in Live(p, n) : \A t \in Live(p, n) \ {s} : First(p, s, t)
  BY LeastHead
<1> DEFINE Q(e) == \A o \in it.heap \ {e} : Before(e, o)
<1>3. Q(HeadOf(p, s))
  BY <1>1, <1>2 DEF First
<1>4. HeadOf(p, s) \in it.heap
  BY <1>1
<1>5. Popped(it) \in it.heap /\ Q(Popped(it))
  <2>1. \E e \in it.heap : Q(e)
    BY <1>3, <1>4
  <2> QED BY <2>1 DEF Popped
<1>6. PICK t \in Live(p, n) : Popped(it) = HeadOf(p, t)
  BY <1>1, <1>5
<1>7. \A u, v : HeadOf(p, u) = HeadOf(p, v) => u = v
  <2>1. \A u : HeadOf(p, u).source = u
    BY DEF HeadOf
  <2> QED BY <2>1
<1>8. \A u \in Live(p, n) \ {t} : First(p, t, u)
  <2> SUFFICES ASSUME NEW u \in Live(p, n), u # t PROVE First(p, t, u)
    OBVIOUS
  <2>1. HeadOf(p, u) \in it.heap /\ HeadOf(p, u) # HeadOf(p, t)
    BY <1>1, <1>7
  <2> QED BY <1>5, <1>6, <2>1 DEF First
<1> QED BY <1>6, <1>8

(* next leaves an iterator that holds the tables without the popped entry.  *)
LEMMA StepHolds ==
  ASSUME NEW n \in Nat, NEW p \in [1 .. n -> Entries], NEW it, Holds(it, p, n),
         NEW s \in Live(p, n), Popped(it) = HeadOf(p, s),
         NEW q, q = [p EXCEPT ![s] = Tail(p[s])]
  PROVE  Holds(Step(it), q, n)
<1> DEFINE rest(t) == IF p[t] = << >> THEN << >> ELSE Tail(p[t])
           left(t) == IF q[t] = << >> THEN << >> ELSE Tail(q[t])
           e == HeadOf(p, s)
           old == [it EXCEPT !.heap = @ \ {e}]
<1>1. it = [heap |-> {HeadOf(p, t) : t \in Live(p, n)}, sources |-> [t \in 1 .. n |-> rest(t)]]
  BY DEF Holds
<1>2. s \in 1 .. n /\ p[s] # << >>
  BY DEF Live
<1>3. q[s] = Tail(p[s]) /\ \A t \in 1 .. n : t # s => q[t] = p[t]
  BY <1>2
<1>4. \A t : HeadOf(p, t).source = t
  BY DEF HeadOf
<1>5. \A t \in 1 .. n : t # s => HeadOf(q, t) = HeadOf(p, t)
  BY <1>3 DEF HeadOf
<1>6. Live(q, n) = IF q[s] = << >> THEN Live(p, n) \ {s} ELSE Live(p, n)
  BY <1>2, <1>3 DEF Live
<1>7. Live(p, n) \subseteq 1 .. n
  BY DEF Live
<1>8. /\ old.heap = {HeadOf(p, t) : t \in Live(p, n) \ {s}}
      /\ old.sources = [t \in 1 .. n |-> rest(t)]
      /\ old = [heap |-> old.heap, sources |-> old.sources]
  <2>1. old = [heap |-> it.heap \ {e}, sources |-> it.sources]
    <3>1. PICK heap, sources : it = [heap |-> heap, sources |-> sources]
      BY <1>1
    <3>2. it.heap = heap /\ it.sources = sources
      BY <3>1
    <3>3. old = [[heap |-> heap, sources |-> sources] EXCEPT !.heap = it.heap \ {e}]
      BY <3>1
    <3>4. \A h : [[heap |-> heap, sources |-> sources] EXCEPT !.heap = h]
                   = [heap |-> h, sources |-> sources]
      OBVIOUS
    <3> HIDE DEF e, old
    <3> QED BY <3>2, <3>3, <3>4
  <2>2. it.heap = {HeadOf(p, t) : t \in Live(p, n)} /\ it.sources = [t \in 1 .. n |-> rest(t)]
    BY <1>1
  <2>3. {HeadOf(p, t) : t \in Live(p, n)} \ {HeadOf(p, s)} = {HeadOf(p, t) : t \in Live(p, n) \ {s}}
    BY <1>4
  <2> QED BY <2>1, <2>2, <2>3
<1>9. Step(it) = Pull(old, s)
  BY <1>4 DEF Step
<1>10. old.sources[s] = q[s] /\ s \in DOMAIN old.sources
  BY <1>2, <1>3, <1>8
<1>11. /\ \A t \in 1 .. n : t # s => left(t) = rest(t)
       /\ q[s] = << >> => left(s) = rest(s)
       /\ q[s] # << >> => left(s) = Tail(q[s])
  BY <1>2, <1>3
<1>12. {HeadOf(p, t) : t \in Live(p, n) \ {s}} = {HeadOf(q, t) : t \in Live(p, n) \ {s}}
  BY <1>5, <1>7
<1> HIDE DEF old, rest, left
<1>13. CASE q[s] = << >>
  <2>1. Step(it) = old
    BY <1>9, <1>10, <1>13 DEF Pull
  <2>2. old.heap = {HeadOf(q, t) : t \in Live(q, n)}
    BY <1>6, <1>8, <1>12, <1>13
  <2>3. [t \in 1 .. n |-> rest(t)] = [t \in 1 .. n |-> left(t)]
    BY <1>11, <1>13
  <2>4. old = [heap |-> {HeadOf(q, t) : t \in Live(q, n)}, sources |-> [t \in 1 .. n |-> left(t)]]
    BY <1>8, <2>2, <2>3
  <2> QED BY <2>1, <2>4 DEF Holds, left
<1>14. CASE q[s] # << >>
  <2>1. Step(it) = [heap |-> old.heap \cup {HeadOf(q, s)},
                    sources |-> [old.sources EXCEPT ![s] = Tail(@)]]
    BY <1>9, <1>10, <1>14 DEF Pull, HeadOf
  <2>2. old.heap \cup {HeadOf(q, s)} = {HeadOf(q, t) : t \in Live(q, n)}
    BY <1>6, <1>8, <1>12, <1>14
  <2>3. [old.sources EXCEPT ![s] = Tail(@)] = [t \in 1 .. n |-> left(t)]
    BY <1>2, <1>8, <1>10, <1>11, <1>14
  <2> QED BY <2>1, <2>2, <2>3 DEF Holds, left
<1> QED BY <1>13, <1>14

(* Min is the least of a set of naturals.                                   *)
LEMMA MinIsLeast ==
  ASSUME NEW T, T \subseteq Nat, T # {}
  PROVE  Min(T) \in T /\ \A x \in T : Min(T) <= x
<1>1. PICK n \in T : \A m \in T : n <= m
  BY LeastNat
<1> QED BY <1>1, LeastIsMin

(* A table without its first entry.                                         *)
LEMMA TailFacts ==
  ASSUME NEW t \in Entries, t # << >>, InKeyOrder(t)
  PROVE  /\ t[1] = << t[1][1], t[1][2] >> /\ t[1] \in Keys \X Vals /\ t[1][1] \in Keys
         /\ InKeyOrder(Tail(t))
         /\ Tail(t) # << >> => Tail(t)[1][1] \in Keys /\ Less(t[1][1], Tail(t)[1][1])
         /\ \A k : k # t[1][1] => Holding(Tail(t), k) = Holding(t, k)
         /\ Holding(t, t[1][1]) = {t[1][2]}
         /\ \A k \in Keys : Holding(t, k) # {} => ~Less(k, t[1][1])
<1> DEFINE n == Len(t)
           u == Tail(t)
<1>1. /\ t \in Seq(Keys \X Vals) /\ n \in Nat /\ n >= 1 /\ DOMAIN t = 1 .. n
      /\ u \in Seq(Keys \X Vals) /\ Len(u) = n - 1 /\ DOMAIN u = 1 .. n - 1
      /\ \A i \in 1 .. n - 1 : u[i] = t[i + 1]
      /\ \A i \in 1 .. n : t[i] \in Keys \X Vals
  BY DEF Entries
<1>2. \A i, j \in 1 .. n : i < j => Less(t[i][1], t[j][1])
  BY <1>1 DEF InKeyOrder
<1>3. \A i \in 1 .. n : t[i][1] \in Keys /\ t[i] = << t[i][1], t[i][2] >>
  BY <1>1
<1>4. u = << >> \/ n > 1
  BY <1>1
<1> HIDE DEF n, u
<1>5. InKeyOrder(u)
  <2> SUFFICES ASSUME NEW i \in 1 .. n - 1, NEW j \in 1 .. n - 1, i < j
               PROVE  Less(u[i][1], u[j][1])
    BY <1>1 DEF InKeyOrder
  <2>1. i + 1 \in 1 .. n /\ j + 1 \in 1 .. n /\ i + 1 < j + 1
    BY <1>1
  <2> QED BY <1>1, <1>2, <2>1
<1>6. u # << >> => u[1][1] \in Keys /\ Less(t[1][1], u[1][1])
  <2> SUFFICES ASSUME n > 1 PROVE u[1][1] \in Keys /\ Less(t[1][1], u[1][1])
    BY <1>4
  <2>1. 1 \in 1 .. n - 1 /\ 1 + 1 = 2 /\ 2 \in 1 .. n /\ 1 \in 1 .. n /\ 1 < 2
    BY <1>1
  <2>2. u[1] = t[2]
    BY <1>1, <2>1
  <2> QED BY <1>2, <1>3, <2>1, <2>2
<1>7. ASSUME NEW k, k # t[1][1] PROVE Holding(u, k) = Holding(t, k)
  <2>1. \A i \in 1 .. n : i = 1 \/ (i - 1 \in 1 .. n - 1 /\ (i - 1) + 1 = i)
    BY <1>1
  <2>2. \A i \in 1 .. n - 1 : i + 1 \in 1 .. n
    BY <1>1
  <2>3. Range(t) = {t[i] : i \in 1 .. n} /\ Range(u) = {u[i] : i \in 1 .. n - 1}
    BY <1>1 DEF Range
  <2>4. {x \in Range(t) : x[1] = k} = {x \in Range(u) : x[1] = k}
    <3>1. ASSUME NEW x \in Range(t), x[1] = k PROVE x \in Range(u)
      <4>1. PICK i \in 1 .. n : x = t[i]
        BY <2>3
      <4>2. i # 1
        BY <1>7, <3>1, <4>1
      <4>3. x = u[i - 1] /\ i - 1 \in 1 .. n - 1
        BY <1>1, <2>1, <4>1, <4>2
      <4> QED BY <2>3, <4>3
    <3>2. Range(u) \subseteq Range(t)
      BY <1>1, <2>2, <2>3
    <3> QED BY <3>1, <3>2
  <2> QED BY <2>4 DEF Holding
<1>8. Holding(t, t[1][1]) = {t[1][2]}
  <2>1. 1 \in 1 .. Len(t)
    BY <1>1 DEF n
  <2> QED BY <1>1, <2>1, TableFacts
<1>9. ASSUME NEW k \in Keys, Holding(t, k) # {} PROVE ~Less(k, t[1][1])
  <2>1. k \in KeysOf(t)
    BY <1>1, <1>9, TableFacts
  <2> QED BY <1>1, <2>1, TableFacts
<1>10. 1 \in 1 .. n
  BY <1>1
<1> QED BY <1>1, <1>3, <1>5, <1>6, <1>7, <1>8, <1>9, <1>10 DEF u

(* The value of a key in the first of the tables p that has one ...         *)
FirstHeld(p, n, k) ==
    LET at == {s \in 1 .. n : Holding(p[s], k) # {}}
    IN  IF at = {} THEN None ELSE Holding(p[Min(at)], k)

(* ... and in what was returned, or else in what is left.                   *)
FirstOf(out, rest, k) ==
    LET at == {i \in DOMAIN out : out[i][1] = k}
    IN  IF at = {} THEN rest ELSE Some(out[Min(at)][2])

(* All the tables are in order, and s is where the least head is.           *)
AllInOrder(p, n) == \A t \in 1 .. n : InKeyOrder(p[t])

LeastAt(p, n, s) == s \in Live(p, n) /\ \A t \in Live(p, n) \ {s} : First(p, s, t)

(* Once e is returned and q left instead of p, k has the same first value.  *)
SameFirst(out, e, p, q, n, k) ==
    FirstOf(Append(out, e), FirstHeld(q, n, k), k) = FirstOf(out, FirstHeld(p, n, k), k)

(* Returning the least head keeps the first value of every key.             *)
LEMMA FirstKept ==
  ASSUME NEW n \in Nat, NEW p \in [1 .. n -> Entries], AllInOrder(p, n),
         NEW s, LeastAt(p, n, s), NEW q, q = [p EXCEPT ![s] = Tail(p[s])],
         NEW out \in Entries, NEW k \in Keys
  PROVE  SameFirst(out, p[s][1], p, q, n, k)
<1> DEFINE e == p[s][1]
           m == Len(out)
           out2 == Append(out, e)
           at == {i \in DOMAIN out : out[i][1] = k}
           at2 == {i \in DOMAIN out2 : out2[i][1] = k}
<1> USE DEF AllInOrder, LeastAt
<1>1. s \in 1 .. n /\ p[s] \in Entries /\ p[s] # << >> /\ InKeyOrder(p[s])
  BY DEF Live
<1>2. /\ e \in Keys \X Vals /\ e[1] \in Keys
      /\ \A x : x # e[1] => Holding(Tail(p[s]), x) = Holding(p[s], x)
      /\ Holding(p[s], e[1]) = {e[2]}
  BY <1>1, TailFacts
<1>3. q[s] = Tail(p[s]) /\ \A t \in 1 .. n : t # s => q[t] = p[t]
  BY <1>1
<1>4. /\ m \in Nat /\ DOMAIN out = 1 .. m /\ DOMAIN out2 = 1 .. m + 1
      /\ \A i \in 1 .. m : out2[i] = out[i]
      /\ out2[m + 1] = e
  <2>1. out \in Seq(Keys \X Vals)
    BY DEF Entries
  <2> HIDE DEF e
  <2> QED BY <1>2, <2>1
<1>5. \A i \in 1 .. m + 1 : i \in 1 .. m \/ i = m + 1
  BY <1>4
<1>6. at2 = IF e[1] = k THEN at \cup {m + 1} ELSE at
  <2> HIDE DEF e, m, out2
  <2>1. 1 .. m \subseteq 1 .. m + 1 /\ m + 1 \in 1 .. m + 1
    BY <1>4
  <2>2. \A i : i \in at2 <=> i \in 1 .. m + 1 /\ out2[i][1] = k
    BY <1>4
  <2>3. \A i : i \in at <=> i \in 1 .. m /\ out[i][1] = k
    BY <1>4
  <2> QED BY <1>4, <1>5, <2>1, <2>2, <2>3
<1>7. at \subseteq 1 .. m
  BY <1>4
<1>8. /\ FirstOf(out2, FirstHeld(q, n, k), k)
          = (IF at2 = {} THEN FirstHeld(q, n, k) ELSE Some(out2[Min(at2)][2]))
      /\ FirstOf(out, FirstHeld(p, n, k), k)
          = (IF at = {} THEN FirstHeld(p, n, k) ELSE Some(out[Min(at)][2]))
  BY DEF FirstOf
<1> SUFFICES FirstOf(out2, FirstHeld(q, n, k), k) = FirstOf(out, FirstHeld(p, n, k), k)
  BY DEF SameFirst
<1> HIDE DEF at, at2, out2, m
<1>9. CASE at # {}
  <2>1. Min(at) \in at /\ \A x \in at : Min(at) <= x
    <3>1. at \subseteq Nat
      BY <1>4, <1>7
    <3> QED BY <1>9, <3>1, MinIsLeast
  <2>2. Min(at2) = Min(at)
    <3> DEFINE g == Min(at)
    <3>1. g \in at2 /\ \A x \in at2 : g <= x
      <4>1. g \in at /\ \A x \in at : g <= x
        BY <2>1
      <4> HIDE DEF g
      <4>2. g \in 1 .. m /\ g <= m + 1
        BY <1>4, <1>7, <4>1
      <4> QED BY <1>6, <4>1, <4>2
    <3>2. at2 \subseteq Nat
      BY <1>4, <1>6, <1>7
    <3> HIDE DEF g
    <3>3. Min(at2) = g
      BY <3>1, <3>2, LeastIsMin
    <3> QED BY <3>3 DEF g
  <2>3. at2 # {} /\ out2[Min(at)] = out[Min(at)]
    BY <1>4, <1>6, <1>7, <1>9, <2>1
  <2> QED BY <1>8, <1>9, <2>2, <2>3
<1>10. CASE at = {} /\ e[1] = k
  <2>1. at2 = {m + 1}
    BY <1>6, <1>10
  <2>2. Min(at2) = m + 1
    <3>1. m + 1 \in Nat /\ m + 1 \in at2 /\ \A x \in at2 : m + 1 <= x
      BY <1>4, <2>1
    <3>2. at2 \subseteq Nat
      BY <2>1, <3>1
    <3> QED BY <3>1, <3>2, LeastIsMin
  <2> DEFINE src == {t \in 1 .. n : Holding(p[t], k) # {}}
  <2>3. s \in src
    BY <1>1, <1>2, <1>10
  <2>4. ASSUME NEW t \in src PROVE s <= t
    <3>1. t \in 1 .. n /\ Holding(p[t], k) # {} /\ p[t] \in Entries /\ InKeyOrder(p[t])
      OBVIOUS
    <3>2. p[t] # << >>
      <4>1. Holding(<< >>, k) = {}
        BY DEF Holding, Range
      <4> QED BY <3>1, <4>1
    <3>3. t \in Live(p, n)
      BY <3>1, <3>2 DEF Live
    <3>4. ~Less(k, p[t][1][1])
      BY <3>1, <3>2, TailFacts
    <3>5. t = s \/ First(p, s, t)
      BY <3>3
    <3>6. t = s \/ s < t
      <4> HIDE DEF e
      <4>1. First(p, s, t) => Less(e[1], p[t][1][1]) \/ s < t
        BY DEF First, Before, HeadOf, e
      <4> QED BY <1>10, <3>4, <3>5, <4>1
    <3> QED BY <1>1, <3>1, <3>6
  <2>5. Min(src) = s
    <3>1. src \subseteq Nat
      OBVIOUS
    <3> HIDE DEF src
    <3> QED BY <2>3, <2>4, <3>1, LeastIsMin
  <2>6. FirstHeld(p, n, k) = Holding(p[s], k)
    BY <2>3, <2>5 DEF FirstHeld
  <2>7. Some(out2[Min(at2)][2]) = {e[2]}
    BY <1>4, <2>2 DEF Some
  <2> HIDE DEF e, src
  <2> QED BY <1>2, <1>8, <1>10, <2>1, <2>6, <2>7
<1>11. CASE at = {} /\ e[1] # k
  <2>1. at2 = {}
    BY <1>6, <1>11
  <2>2. \A t \in 1 .. n : Holding(q[t], k) = Holding(p[t], k)
    <3> HIDE DEF e
    <3> QED BY <1>2, <1>3, <1>11
  <2> DEFINE a == {t \in 1 .. n : Holding(p[t], k) # {}}
             b == {t \in 1 .. n : Holding(q[t], k) # {}}
  <2>3. a = b
    BY <2>2
  <2>4. a # {} => Min(a) \in 1 .. n
    <3>1. a \subseteq 1 .. n /\ a \subseteq Nat
      OBVIOUS
    <3> HIDE DEF a
    <3> QED BY <3>1, MinIsLeast
  <2>5. /\ FirstHeld(p, n, k) = (IF a = {} THEN None ELSE Holding(p[Min(a)], k))
        /\ FirstHeld(q, n, k) = (IF b = {} THEN None ELSE Holding(q[Min(b)], k))
    BY DEF FirstHeld
  <2> HIDE DEF a, b
  <2>6. FirstHeld(q, n, k) = FirstHeld(p, n, k)
    BY <2>2, <2>3, <2>4, <2>5
  <2> QED BY <1>8, <1>11, <2>1, <2>6
<1> QED BY <1>9, <1>10, <1>11

(* The iterator after j calls of next: it holds tables p, one of them after *)
(* the other without the entries returned; these rise, and no head is below *)
(* one of them.                                                             *)
MergeOK(run, p, n, sources, j) ==
    /\ p \in [1 .. n -> Entries] /\ \A s \in 1 .. n : InKeyOrder(p[s])
    /\ Holds(run.it, p, n)
    /\ run.out \in Entries /\ Len(run.out) = j
    /\ Counts(p)[n] = Counts(sources)[n] - j
    /\ \A i \in 1 .. j - 1 : ~Less(run.out[i + 1][1], run.out[i][1])
    /\ \A i \in 1 .. j, s \in Live(p, n) : ~Less(p[s][1][1], run.out[i][1])
    /\ \A k \in Keys : FirstOf(run.out, FirstHeld(p, n, k), k) = FirstHeld(sources, n, k)

(* One step of the iterator keeps that, with one entry more.                *)
LEMMA MergeStep ==
  ASSUME NEW n \in Nat, NEW sources, NEW j \in Nat, Counts(sources)[n] \in Nat,
         j < Counts(sources)[n], NEW run, NEW p, MergeOK(run, p, n, sources, j),
         NEW run2, run2 = After(run)
  PROVE  \E q : MergeOK(run2, q, n, sources, j + 1)
<1> DEFINE out == run.out
           total == Counts(sources)[n]
<1>1. /\ p \in [1 .. n -> Entries] /\ \A t \in 1 .. n : InKeyOrder(p[t])
      /\ Holds(run.it, p, n)
      /\ out \in Entries /\ Len(out) = j
      /\ Counts(p)[n] = total - j
      /\ \A i \in 1 .. j - 1 : ~Less(out[i + 1][1], out[i][1])
      /\ \A i \in 1 .. j, t \in Live(p, n) : ~Less(p[t][1][1], out[i][1])
      /\ \A k \in Keys : FirstOf(out, FirstHeld(p, n, k), k) = FirstHeld(sources, n, k)
  BY DEF MergeOK
<1>2. Live(p, n) # {}
  <2>1. Counts(p)[n] # 0
    <3> DEFINE c == Counts(p)[n]
    <3>1. c = total - j /\ total \in Nat /\ j < total
      BY <1>1
    <3> HIDE DEF c, total
    <3>2. c # 0
      BY <3>1
    <3> QED BY <3>2 DEF c
  <2>2. \E s \in 1 .. n : p[s] # << >>
    BY <1>1, <2>1, CountsZero
  <2> QED BY <2>2 DEF Live
<1>3. PICK s \in Live(p, n) : /\ Popped(run.it) = HeadOf(p, s)
                              /\ \A t \in Live(p, n) \ {s} : First(p, s, t)
  BY <1>1, <1>2, PoppedLeast
<1> DEFINE q == [p EXCEPT ![s] = Tail(p[s])]
           e == p[s][1]
           out2 == Append(out, e)
<1>4. s \in 1 .. n /\ p[s] \in Entries /\ p[s] # << >> /\ InKeyOrder(p[s])
  BY <1>1 DEF Live
<1>5. /\ e = << e[1], e[2] >> /\ e \in Keys \X Vals /\ e[1] \in Keys
      /\ InKeyOrder(Tail(p[s]))
      /\ Tail(p[s]) # << >> => Tail(p[s])[1][1] \in Keys /\ Less(e[1], Tail(p[s])[1][1])
  BY <1>4, TailFacts
<1>6. /\ q \in [1 .. n -> Entries] /\ Counts(q)[n] = Counts(p)[n] - 1
      /\ q[s] = Tail(p[s]) /\ \A t \in 1 .. n : t # s => q[t] = p[t]
  <2>1. q \in [1 .. n -> Entries] /\ Counts(q)[n] = Counts(p)[n] - 1
    BY <1>1, <1>4, CountsDrop
  <2> QED BY <1>1, <1>4, <2>1
<1>7. Holds(run2.it, q, n) /\ run2.out = out2
  <2>1. Holds(Step(run.it), q, n)
    BY <1>1, <1>3, StepHolds
  <2>2. run2.it = Step(run.it)
    BY DEF After
  <2>3. run2.out = Append(out, << Popped(run.it).key, Popped(run.it).value >>)
    BY DEF After
  <2>4. << Popped(run.it).key, Popped(run.it).value >> = e
    <3>1. Popped(run.it).key = e[1] /\ Popped(run.it).value = e[2]
      BY <1>3 DEF HeadOf
    <3> HIDE DEF e
    <3> QED BY <1>5, <3>1
  <2> QED BY <2>1, <2>2, <2>3, <2>4
<1>8. /\ out2 \in Entries /\ Len(out2) = j + 1
      /\ \A i \in 1 .. j : out2[i] = out[i]
      /\ out2[j + 1] = e
      /\ \A i \in 1 .. j : out[i][1] \in Keys
  <2>1. out \in Seq(Keys \X Vals) /\ Len(out) = j
    BY <1>1 DEF Entries
  <2> HIDE DEF e, out
  <2>2. \A i \in 1 .. j : out[i] \in Keys \X Vals
    BY <2>1
  <2> QED BY <1>5, <2>1, <2>2 DEF Entries
<1>9. \A k \in Keys : FirstOf(out2, FirstHeld(q, n, k), k) = FirstHeld(sources, n, k)
  <2> SUFFICES ASSUME NEW k \in Keys
               PROVE  FirstOf(out2, FirstHeld(q, n, k), k) = FirstHeld(sources, n, k)
    OBVIOUS
  <2>1. FirstOf(out2, FirstHeld(q, n, k), k) = FirstOf(out, FirstHeld(p, n, k), k)
    <3>1. /\ p \in [1 .. n -> Entries] /\ AllInOrder(p, n) /\ LeastAt(p, n, s)
          /\ out \in Entries /\ q = [p EXCEPT ![s] = Tail(p[s])]
      BY <1>1, <1>3 DEF AllInOrder, LeastAt
    <3> HIDE DEF out, q
    <3>2. SameFirst(out, p[s][1], p, q, n, k)
      BY <3>1, FirstKept
    <3> QED BY <3>2 DEF SameFirst
  <2> QED BY <1>1, <2>1
<1>10. \A t \in 1 .. n : InKeyOrder(q[t])
  BY <1>1, <1>5, <1>6
<1>11. Counts(q)[n] = total - (j + 1)
  <2> DEFINE c == Counts(p)[n]
             d == Counts(q)[n]
  <2>1. d = c - 1 /\ c = total - j /\ total \in Nat
    BY <1>1, <1>6
  <2> HIDE DEF c, d, total
  <2>2. d = total - (j + 1)
    BY <2>1
  <2> QED BY <2>2 DEF d
<1>12. \A t \in Live(q, n) : q[t][1][1] \in Keys /\ ~Less(q[t][1][1], e[1])
  <2> SUFFICES ASSUME NEW t \in Live(q, n) PROVE q[t][1][1] \in Keys /\ ~Less(q[t][1][1], e[1])
    OBVIOUS
  <2>1. t \in 1 .. n /\ q[t] # << >>
    BY DEF Live
  <2>2. CASE t = s
    <3>1. q[t][1][1] \in Keys /\ Less(e[1], q[t][1][1])
      BY <1>5, <1>6, <2>1, <2>2
    <3> HIDE DEF e, q
    <3> QED BY <1>5, <3>1, KeyOrder
  <2>3. CASE t # s
    <3>1. q[t] = p[t] /\ t \in Live(p, n)
      BY <1>6, <2>1, <2>3 DEF Live
    <3>2. First(p, s, t) /\ p[t][1][1] \in Keys
      BY <1>1, <1>3, <2>3, <3>1, HeadsOrder
    <3>3. Less(e[1], p[t][1][1]) \/ e[1] = p[t][1][1]
      BY <3>2 DEF First, Before, HeadOf
    <3> HIDE DEF e, q
    <3>4. ~Less(p[t][1][1], e[1])
      BY <1>5, <3>2, <3>3, KeyOrder
    <3> QED BY <3>1, <3>2, <3>4
  <2> QED BY <2>2, <2>3
<1>13. \A i \in 1 .. j + 1 : i \in 1 .. j \/ i = j + 1
  OBVIOUS
<1>14. \A i \in 1 .. j : ~Less(e[1], out[i][1])
  BY <1>1, <1>3
<1> HIDE DEF e, q, out2, out, total
<1>15. \A i \in 1 .. (j + 1) - 1 : ~Less(out2[i + 1][1], out2[i][1])
  <2> SUFFICES ASSUME NEW i \in 1 .. j PROVE ~Less(out2[i + 1][1], out2[i][1])
    OBVIOUS
  <2>1. CASE i = j
    BY <1>8, <1>14, <2>1
  <2>2. CASE i # j
    <3>1. i \in 1 .. j - 1 /\ i + 1 \in 1 .. j
      BY <2>2
    <3> QED BY <1>1, <1>8, <3>1
  <2> QED BY <2>1, <2>2
<1>16. \A i \in 1 .. j + 1, t \in Live(q, n) : ~Less(q[t][1][1], out2[i][1])
  <2> SUFFICES ASSUME NEW i \in 1 .. j + 1, NEW t \in Live(q, n)
               PROVE  ~Less(q[t][1][1], out2[i][1])
    OBVIOUS
  <2>1. q[t][1][1] \in Keys /\ ~Less(q[t][1][1], e[1])
    BY <1>12
  <2>2. CASE i = j + 1
    BY <1>8, <2>1, <2>2
  <2>3. CASE i \in 1 .. j
    <3>1. out2[i] = out[i] /\ out[i][1] \in Keys /\ ~Less(e[1], out[i][1])
      BY <1>8, <1>14, <2>3
    <3> DEFINE a == q[t][1][1]
               b == e[1]
               c == out[i][1]
    <3>2. a \in Keys /\ b \in Keys /\ c \in Keys /\ ~Less(a, b) /\ ~Less(b, c)
      BY <1>5, <2>1, <3>1
    <3> HIDE DEF a, b, c
    <3>3. ~Less(a, c)
      BY <3>2, KeyOrder
    <3> QED BY <3>1, <3>3 DEF a, c
  <2> QED BY <1>13, <2>2, <2>3
<1> HIDE DEF MergeOK
<1>17. MergeOK(run2, q, n, sources, j + 1)
  BY <1>6, <1>7, <1>8, <1>9, <1>10, <1>11, <1>15, <1>16 DEF MergeOK, total
<1> QED BY <1>17

(* All the iterator returns: in key order, and the first entry of a key is  *)
(* that of the first table that holds the key.                              *)
LEMMA MergedSound ==
  ASSUME NEW n \in Nat, NEW sources \in [1 .. n -> Entries],
         \A s \in 1 .. n : InKeyOrder(sources[s]), NEW out, out = Merged(sources)
  PROVE  /\ out \in Entries
         /\ \A i \in 1 .. Len(out) - 1 : ~Less(out[i + 1][1], out[i][1])
         /\ \A k \in Keys : FirstOf(out, None, k) = FirstHeld(sources, n, k)
<1>1. Len(sources) = n
  BY TablesListed
<1> DEFINE total == Counts(sources)[n]
           runs == Runs(sources)
           T == {j \in 0 .. total : \E p : MergeOK(runs[j], p, n, sources, j)}
<1>2. total \in Nat
  BY CountsZero
<1>3. /\ runs[0] = [it |-> NewMerge(sources), out |-> << >>]
      /\ \A j \in 1 .. total : runs[j] = After(runs[j - 1])
  BY <1>1, <1>2, RunsSteps
<1>4. out = runs[total].out
  BY <1>1 DEF Merged
<1> HIDE DEF runs
<1>5. 0 \in T
  <2>1. Holds(NewMerge(sources), sources, n)
    BY NewHolds
  <2>2. /\ << >> \in Entries /\ Len(<< >>) = 0 /\ DOMAIN << >> = {}
        /\ 1 .. 0 = {} /\ 1 .. 0 - 1 = {}
    BY DEF Entries
  <2>3. \A rest, k : FirstOf(<< >>, rest, k) = rest
    BY <2>2 DEF FirstOf
  <2>4. total = total - 0
    BY <1>2
  <2>5. runs[0].it = NewMerge(sources) /\ runs[0].out = << >>
    BY <1>3
  <2>6. MergeOK(runs[0], sources, n, sources, 0)
    BY <2>1, <2>2, <2>3, <2>4, <2>5 DEF MergeOK
  <2>7. 0 \in 0 .. total
    BY <1>2
  <2> QED BY <2>6, <2>7
<1>6. ASSUME NEW j \in 1 .. total, j - 1 \in T PROVE j \in T
  <2>1. PICK p : MergeOK(runs[j - 1], p, n, sources, j - 1)
    BY <1>6
  <2>2. j - 1 \in Nat /\ j - 1 < total /\ (j - 1) + 1 = j
    BY <1>2
  <2> DEFINE i == j - 1
  <2>3. /\ i \in Nat /\ i < Counts(sources)[n] /\ Counts(sources)[n] \in Nat
        /\ MergeOK(runs[i], p, n, sources, i) /\ runs[j] = After(runs[i])
    BY <1>2, <1>3, <2>1, <2>2
  <2> HIDE DEF i, total
  <2>4. \E q : MergeOK(runs[j], q, n, sources, i + 1)
    BY <2>3, MergeStep
  <2>5. i + 1 = j
    BY <2>2 DEF i
  <2> QED BY <2>4, <2>5
<1>7. total \in T
  <2> HIDE DEF T, total
  <2>1. 0 .. total \subseteq T
    BY <1>2, <1>5, <1>6, UpTo
  <2>2. total \in 0 .. total
    BY <1>2
  <2> QED BY <2>1, <2>2
<1>8. PICK p : MergeOK(runs[total], p, n, sources, total)
  BY <1>7
<1>9. /\ p \in [1 .. n -> Entries] /\ out \in Entries /\ Len(out) = total
      /\ Counts(p)[n] = total - total
      /\ \A i \in 1 .. total - 1 : ~Less(out[i + 1][1], out[i][1])
      /\ \A k \in Keys : FirstOf(out, FirstHeld(p, n, k), k) = FirstHeld(sources, n, k)
  BY <1>4, <1>8 DEF MergeOK
<1>10. \A s \in 1 .. n : p[s] = << >>
  <2>1. Counts(p)[n] = 0
    <3> HIDE DEF total
    <3>1. total - total = 0
      BY <1>2
    <3> QED BY <1>9, <3>1
  <2> QED BY <1>9, <2>1, CountsZero
<1>11. \A k : FirstHeld(p, n, k) = None
  <2>1. \A k : Holding(<< >>, k) = {}
    BY DEF Holding, Range
  <2> QED BY <1>10, <2>1 DEF FirstHeld
<1> QED BY <1>9, <1>11

----------------------------------------------------------------------------
(* Its sources: the lists and the files, newest first.                      *)

(* The first of n tables that holds a key.                                  *)
FirstHolder(p, n, k, s) ==
    /\ s \in 1 .. n /\ Holding(p[s], k) # {}
    /\ \A t \in 1 .. n : Holding(p[t], k) # {} => s <= t

(* It is the table whose value is found.                                    *)
LEMMA FirstIs ==
  ASSUME NEW n \in Nat, NEW p, NEW k, NEW s, FirstHolder(p, n, k, s)
  PROVE  FirstHeld(p, n, k) = Holding(p[s], k)
<1> USE DEF FirstHolder
<1> DEFINE at == {t \in 1 .. n : Holding(p[t], k) # {}}
<1>1. s \in at /\ at \subseteq Nat /\ \A t \in at : s <= t
  OBVIOUS
<1>2. FirstHeld(p, n, k) = IF at = {} THEN None ELSE Holding(p[Min(at)], k)
  BY DEF FirstHeld
<1> HIDE DEF at
<1>3. Min(at) = s
  BY <1>1, LeastIsMin
<1> QED BY <1>1, <1>2, <1>3

(* The tables of the files, the newest first.                               *)
ByHighest(files, b) ==
    /\ b \in Seq(Entries) /\ \A i \in 1 .. Len(b) : InKeyOrder(b[i])
    /\ \A k : FirstHeld(b, Len(b), k) = Newest(files, k)

(* Taken by descending id, the files are searched newest first.             *)
LEMMA FilesByHighest ==
  ASSUME NEW files, NEW m \in Nat, DOMAIN files \subseteq 0 .. m,
         \A id \in DOMAIN files : TableOK(files[id]),
         NEW ids, ids = HighestFirst(DOMAIN files),
         NEW b, b = [i \in DOMAIN ids |-> files[ids[i]]]
  PROVE  ByHighest(files, b)
<1> DEFINE D == DOMAIN files
           n == Len(ids)
<1>1. IsFiniteSet(D) /\ D \subseteq Nat
  <2>1. IsFiniteSet(0 .. m)
    BY FS_Interval
  <2> QED BY <2>1, FS_Subset
<1>2. /\ ids \in Seq(D) /\ Range(ids) = D
      /\ \A i, j \in 1 .. n : i < j => ids[i] > ids[j]
  <2> HIDE DEF D, n
  <2>1. ids = HighestFirst(D)
    BY DEF D
  <2> QED BY <1>1, <2>1, OrderedIds DEF n
<1>3. /\ DOMAIN ids = 1 .. n /\ n \in Nat /\ \A i \in 1 .. n : ids[i] \in D
      /\ \A x \in D : \E i \in 1 .. n : ids[i] = x
  <2>1. DOMAIN ids = 1 .. n /\ n \in Nat /\ \A i \in 1 .. n : ids[i] \in D
    BY <1>2
  <2>2. Range(ids) = {ids[i] : i \in 1 .. n}
    BY <2>1 DEF Range
  <2> QED BY <1>2, <2>1, <2>2
<1>4. \A x \in D : files[x] \in Entries /\ InKeyOrder(files[x])
  BY DEF TableOK, Entries
<1> HIDE DEF D, n
<1>5. b = [i \in 1 .. n |-> files[ids[i]]]
  BY <1>3
<1>6. b \in Seq(Entries) /\ Len(b) = n /\ \A i \in 1 .. n : b[i] = files[ids[i]]
  BY <1>3, <1>4, <1>5
<1>7. \A i \in 1 .. n : InKeyOrder(b[i])
  BY <1>3, <1>4, <1>6
<1>8. ASSUME NEW k PROVE FirstHeld(b, n, k) = Newest(files, k)
  <2> DEFINE H == {x \in D : Holding(files[x], k) # {}}
  <2>1. Newest(files, k) = IF H = {} THEN None ELSE Holding(files[Max(H)], k)
    BY DEF Newest, D
  <2>2. H \subseteq D /\ \A x \in D : x \in H <=> Holding(files[x], k) # {}
    OBVIOUS
  <2> HIDE DEF H
  <2>3. \A i \in 1 .. n : Holding(b[i], k) # {} <=> ids[i] \in H
    BY <1>3, <1>6, <2>2
  <2>4. CASE H = {}
    BY <2>1, <2>3, <2>4 DEF FirstHeld
  <2>5. CASE H # {}
    <3>1. Max(H) \in H /\ \A x \in H : Max(H) >= x
      <4>1. H \subseteq 0 .. m
        BY <2>2 DEF D
      <4> QED BY <2>5, <4>1, MaxIsGreatest
    <3> DEFINE x == Max(H)
    <3>2. x \in H /\ \A y \in H : x >= y
      BY <3>1
    <3> HIDE DEF x
    <3>3. PICK i \in 1 .. n : ids[i] = x
      BY <1>3, <2>2, <3>2
    <3>4. ASSUME NEW j \in 1 .. n, Holding(b[j], k) # {} PROVE i <= j
      <4>1. ids[j] \in H /\ x >= ids[j]
        BY <2>3, <3>2, <3>4
      <4>2. x \in Nat /\ ids[j] \in Nat
        BY <1>1, <2>2, <3>2, <4>1
      <4>3. ~(j < i)
        <5> SUFFICES ASSUME j < i PROVE FALSE
          OBVIOUS
        <5>1. ids[j] > ids[i]
          BY <1>2
        <5> QED BY <3>3, <4>1, <4>2, <5>1
      <4> QED BY <4>3
    <3>5. Holding(b[i], k) # {}
      BY <2>3, <3>2, <3>3
    <3>6. FirstHeld(b, n, k) = Holding(b[i], k)
      <4>1. FirstHolder(b, n, k, i)
        BY <3>4, <3>5 DEF FirstHolder
      <4> QED BY <1>3, <4>1, FirstIs
    <3>7. b[i] = files[x]
      BY <1>6, <3>3
    <3> QED BY <2>1, <2>5, <3>6, <3>7 DEF x
  <2> QED BY <2>4, <2>5
<1> QED BY <1>6, <1>7, <1>8 DEF ByHighest

(* Tables upon others: a key that the upper ones lack is looked for below.  *)
FoundUpon(p, a, b, k) ==
    FirstHeld(p, Len(p), k)
      = IF \E i \in 1 .. Len(a) : Holding(a[i], k) # {} THEN FirstHeld(a, Len(a), k)
        ELSE FirstHeld(b, Len(b), k)

(* That is how joined sequences of tables are searched.                     *)
LEMMA FirstUpon ==
  ASSUME NEW a \in Seq(Entries), NEW b \in Seq(Entries), NEW p, IsBoth(Entries, p, a, b), NEW k
  PROVE  FoundUpon(p, a, b, k)
<1> USE DEF FoundUpon
<1> DEFINE la == Len(a)
           lb == Len(b)
           n == Len(p)
<1>1. /\ n = la + lb /\ la \in Nat /\ lb \in Nat
      /\ \A i \in 1 .. la : p[i] = a[i]
      /\ \A i \in 1 .. lb : p[la + i] = b[i]
      /\ \A i \in 1 .. n : i \in 1 .. la \/ i - la \in 1 .. lb
  BY DEF IsBoth
<1>2. \A i \in Nat : la + (i - la) = i
  BY <1>1
<1> HIDE DEF la, lb, n
<1> DEFINE A == {i \in 1 .. la : Holding(a[i], k) # {}}
           B == {i \in 1 .. lb : Holding(b[i], k) # {}}
<1>3. CASE A # {}
  <2>1. Min(A) \in A /\ \A x \in A : Min(A) <= x
    <3>1. A \subseteq Nat
      BY <1>1
    <3> HIDE DEF A
    <3> QED BY <1>3, <3>1, MinIsLeast
  <2> DEFINE s == Min(A)
  <2>2. s \in A /\ \A x \in A : s <= x
    BY <2>1
  <2> HIDE DEF s
  <2>3. s \in 1 .. la /\ Holding(a[s], k) # {} /\ \A t \in 1 .. la : Holding(a[t], k) # {} => s <= t
    BY <2>2
  <2>4. FirstHeld(a, la, k) = Holding(a[s], k)
    <3>1. FirstHolder(a, la, k, s)
      BY <2>3 DEF FirstHolder
    <3> QED BY <1>1, <3>1, FirstIs
  <2>5. s \in 1 .. n /\ p[s] = a[s]
    BY <1>1, <2>3
  <2>6. ASSUME NEW t \in 1 .. n, Holding(p[t], k) # {} PROVE s <= t
    <3>1. CASE t \in 1 .. la
      BY <1>1, <2>3, <2>6, <3>1
    <3>2. CASE t - la \in 1 .. lb
      BY <1>1, <2>3, <3>2
    <3> QED BY <1>1, <3>1, <3>2
  <2>7. n \in Nat
    BY <1>1
  <2>8. FirstHeld(p, n, k) = Holding(p[s], k)
    <3>1. FirstHolder(p, n, k, s)
      BY <2>3, <2>5, <2>6 DEF FirstHolder
    <3> QED BY <2>7, <3>1, FirstIs
  <2>9. \E i \in 1 .. la : Holding(a[i], k) # {}
    BY <2>3
  <2> QED BY <2>4, <2>5, <2>8, <2>9 DEF la, n
<1>4. CASE A = {} /\ B # {}
  <2>1. Min(B) \in B /\ \A x \in B : Min(B) <= x
    <3>1. B \subseteq Nat
      BY <1>1
    <3> HIDE DEF B
    <3> QED BY <1>4, <3>1, MinIsLeast
  <2> DEFINE s == Min(B)
  <2>2. s \in B /\ \A x \in B : s <= x
    BY <2>1
  <2> HIDE DEF s
  <2>3. s \in 1 .. lb /\ Holding(b[s], k) # {} /\ \A t \in 1 .. lb : Holding(b[t], k) # {} => s <= t
    BY <2>2
  <2>4. FirstHeld(b, lb, k) = Holding(b[s], k)
    <3>1. FirstHolder(b, lb, k, s) /\ lb \in Nat
      BY <1>1, <2>3 DEF FirstHolder
    <3> HIDE DEF A, B
    <3> QED BY <3>1, FirstIs
  <2>5. la + s \in 1 .. n /\ p[la + s] = b[s]
    BY <1>1, <2>3
  <2>6. ASSUME NEW t \in 1 .. n, Holding(p[t], k) # {} PROVE la + s <= t
    <3>1. t \notin 1 .. la
      BY <1>1, <1>4, <2>6
    <3>2. t - la \in 1 .. lb /\ p[t] = b[t - la]
      BY <1>1, <1>2, <3>1
    <3>3. s <= t - la
      BY <2>3, <2>6, <3>2
    <3> QED BY <1>1, <2>3, <3>3
  <2>7. n \in Nat
    BY <1>1
  <2> DEFINE z == la + s
  <2>8. FirstHeld(p, n, k) = Holding(p[z], k)
    <3>1. FirstHolder(p, n, k, z)
      BY <2>3, <2>5, <2>6 DEF FirstHolder
    <3> HIDE DEF z
    <3> QED BY <2>7, <3>1, FirstIs
  <2>9. ~\E i \in 1 .. la : Holding(a[i], k) # {}
    BY <1>4
  <2> QED BY <2>4, <2>5, <2>8, <2>9 DEF la, n, lb
<1>5. CASE A = {} /\ B = {}
  <2>1. ~\E i \in 1 .. la : Holding(a[i], k) # {}
    BY <1>5
  <2>2. \A i \in 1 .. n : Holding(p[i], k) = {}
    <3> SUFFICES ASSUME NEW i \in 1 .. n PROVE Holding(p[i], k) = {}
      OBVIOUS
    <3>1. CASE i \in 1 .. la
      BY <1>1, <1>5, <3>1
    <3>2. CASE i - la \in 1 .. lb
      <4>1. p[i] = b[i - la]
        BY <1>1, <1>2, <3>2
      <4> QED BY <1>5, <3>2, <4>1
    <3> QED BY <1>1, <3>1, <3>2
  <2>3. FirstHeld(p, n, k) = None
    BY <2>2 DEF FirstHeld
  <2>4. FirstHeld(b, lb, k) = None
    BY <1>5 DEF FirstHeld
  <2> QED BY <2>1, <2>3, <2>4 DEF la, n, lb
<1> QED BY <1>3, <1>4, <1>5

(* The entries of one list or of two, the active one first.                 *)
ListsAbove(a, act, imm) ==
    /\ a \in Seq(Entries) /\ \A i \in 1 .. Len(a) : InKeyOrder(a[i])
    /\ \A k \in Keys :
          /\ (\E i \in 1 .. Len(a) : Holding(a[i], k) # {})
                <=> (Values(act, k) # {} \/ \E l \in imm : Values(l, k) # {})
          /\ (\E i \in 1 .. Len(a) : Holding(a[i], k) # {})
                => FirstHeld(a, Len(a), k) = HeldBy(act, imm, << >>, k)

(* The entries of the lists, in this order, hold what the lists hold.       *)
LEMMA ListsFirst ==
  ASSUME NEW act, NodesOK(act.nodes), NEW imm,
         imm = {} \/ \E l \in imm : imm = {l} /\ NodesOK(l.nodes),
         NEW a, a = IF imm = {} THEN << Iter(act) >>
                    ELSE << Iter(act), Iter(CHOOSE l \in imm : TRUE) >>
  PROVE  ListsAbove(a, act, imm)
<1> DEFINE t == Iter(act)
<1>1. t \in Entries /\ InKeyOrder(t) /\ \A k \in Keys : Holding(t, k) = Values(act, k)
  BY IterYields DEF Entries
<1>2. CASE imm = {}
  <2>1. a = << t >>
    BY <1>2
  <2> HIDE DEF t
  <2>2. a \in Seq(Entries) /\ Len(a) = 1 /\ a[1] = t /\ 1 .. 1 = {1}
    BY <1>1, <2>1
  <2>3. \A k \in Keys : Holding(t, k) # {} => FirstHeld(a, 1, k) = Holding(t, k)
    <3> SUFFICES ASSUME NEW k \in Keys, Holding(t, k) # {} PROVE FirstHeld(a, 1, k) = Holding(t, k)
      OBVIOUS
    <3>1. FirstHolder(a, 1, k, 1)
      BY <2>2 DEF FirstHolder
    <3> QED BY <2>2, <3>1, FirstIs
  <2>4. \A i \in 1 .. Len(a) : i = 1
    BY <2>2
  <2>5. 1 \in 1 .. Len(a)
    BY <2>2
  <2> QED BY <1>1, <1>2, <2>2, <2>3, <2>4, <2>5 DEF ListsAbove, HeldBy
<1>3. CASE imm # {}
  <2>1. PICK l \in imm : imm = {l} /\ NodesOK(l.nodes)
    BY <1>3
  <2> DEFINE u == Iter(l)
  <2>2. u \in Entries /\ InKeyOrder(u) /\ \A k \in Keys : Holding(u, k) = Values(l, k)
    BY <2>1, IterYields DEF Entries
  <2>3. a = << t, u >>
    <3>1. (CHOOSE x \in imm : TRUE) = l
      BY <2>1
    <3> QED BY <1>3, <3>1
  <2> HIDE DEF t, u
  <2>4. a \in Seq(Entries) /\ Len(a) = 2 /\ a[1] = t /\ a[2] = u
    BY <1>1, <2>2, <2>3
  <2>5. \A i : i \in 1 .. Len(a) <=> i = 1 \/ i = 2
    BY <2>4
  <2>6. \A k \in Keys : Holding(t, k) # {} => FirstHeld(a, 2, k) = Holding(t, k)
    <3> SUFFICES ASSUME NEW k \in Keys, Holding(t, k) # {} PROVE FirstHeld(a, 2, k) = Holding(t, k)
      OBVIOUS
    <3>1. FirstHolder(a, 2, k, 1)
      BY <2>4 DEF FirstHolder
    <3> QED BY <2>4, <3>1, FirstIs
  <2>7. \A k \in Keys : Holding(t, k) = {} /\ Holding(u, k) # {}
                          => FirstHeld(a, 2, k) = Holding(u, k)
    <3> SUFFICES ASSUME NEW k \in Keys, Holding(t, k) = {}, Holding(u, k) # {}
                 PROVE  FirstHeld(a, 2, k) = Holding(u, k)
      OBVIOUS
    <3>1. FirstHolder(a, 2, k, 2)
      BY <2>4 DEF FirstHolder
    <3> QED BY <2>4, <3>1, FirstIs
  <2>8. \A k \in Keys :
           /\ (\E i \in 1 .. Len(a) : Holding(a[i], k) # {})
                 <=> Holding(t, k) # {} \/ Holding(u, k) # {}
           /\ (\E x \in imm : Values(x, k) # {}) <=> Values(l, k) # {}
           /\ UNION {Values(x, k) : x \in imm} = Values(l, k)
    BY <2>1, <2>4, <2>5
  <2>9. \A i \in 1 .. Len(a) : InKeyOrder(a[i])
    BY <1>1, <2>2, <2>4, <2>5
  <2>10. \A k \in Keys :
            (\E i \in 1 .. Len(a) : Holding(a[i], k) # {})
              => FirstHeld(a, Len(a), k) = HeldBy(act, imm, << >>, k)
    <3> SUFFICES ASSUME NEW k \in Keys, Holding(t, k) # {} \/ Holding(u, k) # {}
                 PROVE  FirstHeld(a, 2, k) = HeldBy(act, imm, << >>, k)
      BY <2>4, <2>8
    <3>1. CASE Holding(t, k) # {}
      BY <1>1, <2>6, <3>1 DEF HeldBy
    <3>2. CASE Holding(t, k) = {} /\ Holding(u, k) # {}
      <4>1. FirstHeld(a, 2, k) = Values(l, k) /\ Values(act, k) = {} /\ Values(l, k) # {}
        BY <1>1, <2>2, <2>7, <3>2
      <4>2. /\ \E x \in imm : Values(x, k) # {}
            /\ UNION {Values(x, k) : x \in imm} = Values(l, k)
        BY <2>8, <4>1
      <4> QED BY <4>1, <4>2 DEF HeldBy
    <3> QED BY <3>1, <3>2
  <2>11. \A k \in Keys :
            (\E i \in 1 .. Len(a) : Holding(a[i], k) # {})
              <=> (Values(act, k) # {} \/ \E x \in imm : Values(x, k) # {})
    BY <1>1, <2>2, <2>8
  <2> QED BY <2>4, <2>9, <2>10, <2>11 DEF ListsAbove
<1> QED BY <1>2, <1>3

(* ScansMerge: the merge iterator over the lists and files, the newest      *)
(* first, yields the entries in key order and first the last value written  *)
(* to each key; a scan of the active list is its entries in the range.      *)
THEOREM FlushScansMerge == Spec => []ScansMerge
<1>1. FlushInv => ScansMerge
  <2> SUFFICES ASSUME FlushInv PROVE ScansMerge
    OBVIOUS
  <2> DEFINE ids == HighestFirst(DOMAIN tables)
             a == IF immutable = {} THEN << Iter(active) >>
                  ELSE << Iter(active), Iter(CHOOSE l \in immutable : TRUE) >>
             b == [i \in DOMAIN ids |-> tables[ids[i]]]
             c == a \o b
  <2>1. Sources = c
    BY DEF Sources, Ordered, HighestFirst
  <2>2. /\ \A l \in Lists : NodesOK(l.nodes)
        /\ immutable = {} \/ \E l \in immutable : immutable = {l}
    BY DEF FlushInv, TypeOK, ListOK, FrozenInWrite
  <2>3. ListsAbove(a, active, immutable)
    <3>1. /\ NodesOK(active.nodes)
          /\ immutable = {} \/ \E l \in immutable : immutable = {l} /\ NodesOK(l.nodes)
      BY <2>2 DEF Lists
    <3> QED BY <3>1, ListsFirst
  <2>4. ByHighest(tables, b)
    <3>1. /\ nextId \in Nat \ {0} /\ DOMAIN tables \subseteq 1 .. nextId - 1
          /\ \A id \in DOMAIN tables : TableOK(tables[id])
      <4>1. Files.tables = tables /\ Files.next = nextId
        BY DEF Files
      <4> QED BY <4>1 DEF FlushInv, FilesOK
    <3>2. PICK m \in Nat : m = nextId - 1
      BY <3>1
    <3>3. DOMAIN tables \subseteq 0 .. m
      BY <3>1, <3>2
    <3> QED BY <3>1, <3>3, FilesByHighest
  <2> HIDE DEF ids, a, b
  <2>5. /\ a \in Seq(Entries) /\ \A i \in 1 .. Len(a) : InKeyOrder(a[i])
        /\ b \in Seq(Entries) /\ \A i \in 1 .. Len(b) : InKeyOrder(b[i])
    BY <2>3, <2>4 DEF ListsAbove, ByHighest
  <2>6. IsBoth(Entries, c, a, b)
    BY <2>5, BothParts
  <2> HIDE DEF c
  <2> DEFINE n == Len(c)
  <2>7. n \in Nat /\ c \in [1 .. n -> Entries] /\ \A i \in 1 .. n : InKeyOrder(c[i])
    <3>1. c \in Seq(Entries)
      BY <2>6 DEF IsBoth
    <3>2. ASSUME NEW i \in 1 .. n PROVE InKeyOrder(c[i])
      <4>1. /\ n = Len(a) + Len(b) /\ Len(a) \in Nat /\ Len(b) \in Nat
            /\ \A j \in 1 .. Len(a) : c[j] = a[j]
            /\ \A j \in 1 .. Len(b) : c[Len(a) + j] = b[j]
            /\ i \in 1 .. Len(a) \/ i - Len(a) \in 1 .. Len(b)
        BY <2>6 DEF IsBoth
      <4>2. CASE i \in 1 .. Len(a)
        BY <2>5, <4>1, <4>2
      <4>3. CASE i - Len(a) \in 1 .. Len(b)
        <5>1. Len(a) + (i - Len(a)) = i
          BY <4>1
        <5>2. c[i] = b[i - Len(a)]
          BY <4>1, <4>3, <5>1
        <5> QED BY <2>5, <4>3, <5>2
      <4> QED BY <4>1, <4>2, <4>3
    <3> QED BY <3>1, <3>2
  <2> DEFINE out == Merged(Sources)
  <2>8. /\ out \in Entries
        /\ \A i \in 1 .. Len(out) - 1 : ~Less(out[i + 1][1], out[i][1])
        /\ \A k \in Keys : FirstOf(out, None, k) = FirstHeld(c, n, k)
    <3> HIDE DEF n
    <3> QED BY <2>1, <2>7, MergedSound
  <2>9. ASSUME NEW k \in Keys PROVE latest[k] = FirstHeld(c, n, k)
    <3>1. FirstHeld(c, n, k) = IF \E i \in 1 .. Len(a) : Holding(a[i], k) # {}
                               THEN FirstHeld(a, Len(a), k) ELSE FirstHeld(b, Len(b), k)
      <4>1. FoundUpon(c, a, b, k)
        BY <2>5, <2>6, FirstUpon
      <4> QED BY <4>1 DEF FoundUpon
    <3>2. FirstHeld(b, Len(b), k) = Newest(tables, k)
      BY <2>4 DEF ByHighest
    <3>3. latest[k] = Held(k)
      BY DEF FlushInv
    <3>4. /\ (\E i \in 1 .. Len(a) : Holding(a[i], k) # {})
                <=> (Values(active, k) # {} \/ \E l \in immutable : Values(l, k) # {})
          /\ (\E i \in 1 .. Len(a) : Holding(a[i], k) # {})
                => FirstHeld(a, Len(a), k) = HeldBy(active, immutable, << >>, k)
      BY <2>3 DEF ListsAbove
    <3> HIDE DEF n
    <3>5. CASE Values(active, k) # {} \/ \E l \in immutable : Values(l, k) # {}
      <4>1. HeldBy(active, immutable, << >>, k) = Held(k)
        BY <3>5 DEF HeldBy, Held
      <4> QED BY <3>1, <3>3, <3>4, <3>5, <4>1
    <3>6. CASE ~(Values(active, k) # {} \/ \E l \in immutable : Values(l, k) # {})
      <4>1. Held(k) = Newest(tables, k)
        BY <3>6 DEF Held
      <4> QED BY <3>1, <3>2, <3>3, <3>4, <3>6, <4>1
    <3> QED BY <3>5, <3>6
  <2>10. \A k \in Keys :
            LET at == {i \in DOMAIN out : out[i][1] = k}
            IN  latest[k] = IF at = {} THEN None ELSE Some(out[Min(at)][2])
    BY <2>8, <2>9 DEF FirstOf
  <2>11. \A start, end \in Keys :
            ScanList(active, start, end) =
              Retain(Iter(active), {e \in Range(Iter(active)) :
                                       ~Less(e[1], start) /\ Less(e[1], end)})
    BY <2>2, ScanListed DEF Lists
  <2> HIDE DEF n
  <2> QED BY <2>8, <2>10, <2>11 DEF ScansMerge
<1> QED BY <1>1, FlushInvariant, PTL
============================================================================
