-------------------------- MODULE FlushDataProofs --------------------------
(***************************************************************************)
(* Proofs about the data FlushPath keeps, for every value of the constants: *)
(* the lanes of a skip list, and the manifest's bytes, which are read back  *)
(* as they were written and not at all when they are cut short.             *)
(***************************************************************************)
EXTENDS FlushPath, ByteOrderProofs

----------------------------------------------------------------------------
(* The skip list: its lanes, the searches through its towers, and what an   *)
(* insert changes.                                                          *)

(* Of two different keys one is below the other.                            *)
LEMMA LessTotal ==
  ASSUME NEW a \in Seq(Nat), NEW b \in Seq(Nat), a # b
  PROVE  Less(a, b) \/ Less(b, a)
<1> DEFINE D == {i \in Nat \ {0} : i <= Len(a) /\ i <= Len(b) /\ a[i] # b[i]}
<1>1. Len(a) \in Nat /\ Len(b) \in Nat
  BY LenProperties
<1>2. CASE D = {}
  <2>1. \A i \in Nat \ {0} : i <= Len(a) /\ i <= Len(b) => a[i] = b[i]
    BY <1>2
  <2>2. Len(a) # Len(b)
    <3> SUFFICES ASSUME Len(a) = Len(b) PROVE FALSE
      OBVIOUS
    <3>1. \A i \in 1 .. Len(a) : a[i] = b[i]
      BY <1>1, <2>1
    <3> QED BY <3>1, SeqEqual
  <2>3. CASE Len(a) < Len(b)
    <3>1. Len(a) + 1 \in 1 .. Len(b) /\ Len(a) + 1 <= Len(a) + 1 /\ ~(Len(a) + 1 <= Len(a))
      BY <1>1, <2>3
    <3>2. \A j \in 1 .. (Len(a) + 1) - 1 : a[j] = b[j]
      BY <1>1, <2>1, <2>3
    <3> QED BY <3>1, <3>2, LessAt
  <2>4. CASE Len(b) < Len(a)
    <3>1. Len(b) + 1 \in 1 .. Len(a) /\ Len(b) + 1 <= Len(b) + 1 /\ ~(Len(b) + 1 <= Len(b))
      BY <1>1, <2>4
    <3>2. \A j \in 1 .. (Len(b) + 1) - 1 : b[j] = a[j]
      BY <1>1, <2>1, <2>4
    <3> QED BY <3>1, <3>2, LessAt
  <2> QED BY <1>1, <2>2, <2>3, <2>4
<1>3. CASE D # {}
  <2>1. PICK i \in D : \A k \in D : i <= k
    <3> HIDE DEF D
    <3>1. D \subseteq Nat
      BY DEF D
    <3> QED BY <1>3, <3>1, LeastNat
  <2>2. i \in Nat \ {0} /\ i <= Len(a) /\ i <= Len(b) /\ a[i] # b[i]
    BY <2>1
  <2>3. \A j \in 1 .. i - 1 : a[j] = b[j]
    <3> SUFFICES ASSUME NEW j \in 1 .. i - 1, a[j] # b[j] PROVE FALSE
      OBVIOUS
    <3>1. j \in D
      BY <1>1, <2>2
    <3>2. i <= j
      BY <2>1, <3>1
    <3> QED BY <2>2, <3>2
  <2>4. a[i] \in Nat /\ b[i] \in Nat
    BY <1>1, <2>2, ElementOfSeq
  <2>5. i \in 1 .. Len(a) /\ i \in 1 .. Len(b) /\ i <= Len(a) + 1 /\ i <= Len(b) + 1
    BY <1>1, <2>2
  <2>6. CASE a[i] < b[i]
    BY <2>3, <2>5, <2>6, LessAt
  <2>7. CASE b[i] < a[i]
    BY <2>3, <2>5, <2>7, LessAt
  <2> QED BY <2>2, <2>4, <2>6, <2>7
<1> QED BY <1>2, <1>3

(* The keys are byte strings.                                               *)
LEMMA KeysAreBytes ==
  /\ Keys \subseteq Seq(Nat) /\ Vals \subseteq Seq(Nat)
  /\ Keys \subseteq Seq(Byte) /\ Vals \subseteq Seq(Byte)
  /\ Base \in Nat /\ Base > 2 /\ Byte \subseteq Nat /\ U32 \in Nat \ {0} /\ U64 \in Nat \ {0}
<1>1. Base \in Nat /\ Base > 2 /\ U32 \in Nat \ {0} /\ U64 \in Nat \ {0}
  BY WidthAssumption
<1>2. Byte \subseteq Nat
  BY <1>1 DEF Byte
<1>3. \A s : s \in Seq(Byte) => s \in Seq(Nat)
  BY <1>2, SeqMonotonic
<1> QED BY <1>1, <1>2, <1>3, FlushPathAssumption

(* What Less says of keys that are known.                                   *)
LEMMA KeyOrder ==
  /\ \A a \in Keys : ~Less(a, a)
  /\ \A a, b, c \in Keys : Less(a, b) /\ Less(b, c) => Less(a, c)
  /\ \A a, b \in Keys : a = b \/ Less(a, b) \/ Less(b, a)
BY KeysAreBytes, LessIrreflexive, LessTransitive, LessTotal

(* The skip list.  The nodes that are on a lane.                            *)
OnLane(nodes, i) == {n \in DOMAIN nodes : i \in DOMAIN nodes[n].next}

(* All nodes are on the bottom lane, a node of a lane is on those below it, *)
(* and the head is on all.                                                  *)
LEMMA LanesNested ==
  ASSUME NEW nodes, NodesOK(nodes)
  PROVE  /\ OnLane(nodes, 1) = DOMAIN nodes
         /\ \A i \in 1 .. MaxLevel : Head0 \in OnLane(nodes, i)
         /\ \A i \in 1 .. MaxLevel : \A j \in 1 .. i : OnLane(nodes, i) \subseteq OnLane(nodes, j)
         /\ \A n \in DOMAIN nodes : DOMAIN nodes[n].next \subseteq 1 .. MaxLevel
<1>1. ASSUME NEW n \in DOMAIN nodes
      PROVE  \E lanes \in 1 .. MaxLevel : DOMAIN nodes[n].next = 1 .. lanes
  BY DEF NodesOK
<1>2. MaxLevel \in Nat \ {0}
  BY SkipListAssumption
<1>3. ASSUME NEW n \in DOMAIN nodes
      PROVE  /\ 1 \in DOMAIN nodes[n].next
             /\ DOMAIN nodes[n].next \subseteq 1 .. MaxLevel
             /\ \A i \in 1 .. MaxLevel : \A j \in 1 .. i :
                  i \in DOMAIN nodes[n].next => j \in DOMAIN nodes[n].next
  BY <1>1, <1>2
<1>4. Head0 \in DOMAIN nodes /\ DOMAIN nodes[Head0].next = 1 .. MaxLevel
  BY DEF NodesOK
<1> QED BY <1>3, <1>4 DEF OnLane

(* What is above a node is on its lane and is not the head.                 *)
LEMMA AboveOnLane ==
  ASSUME NEW nodes, NEW n, NEW i
  PROVE  Above(nodes, n, i) \subseteq OnLane(nodes, i) \ {Head0}
BY DEF Above, OnLane

(* The keys of a list.                                                      *)
LEMMA NodeKeys ==
  ASSUME NEW nodes, NodesOK(nodes), NEW n \in DOMAIN nodes \ {Head0}
  PROVE  nodes[n].key \in Keys /\ nodes[n].value \in Vals /\ n \in Nat /\ n # Null
BY DEF NodesOK, Head0, Null

(* Nothing is above itself, and what is above what is above is above.       *)
LEMMA AboveOrder ==
  ASSUME NEW nodes, NodesOK(nodes), NEW n \in DOMAIN nodes, NEW i,
         NEW m \in Above(nodes, n, i)
  PROVE  /\ m \notin Above(nodes, m, i)
         /\ Above(nodes, m, i) \subseteq Above(nodes, n, i)
<1>1. m \in DOMAIN nodes \ {Head0} /\ (n = Head0 \/ Less(nodes[n].key, nodes[m].key))
  BY DEF Above
<1>2. nodes[m].key \in Keys
  BY <1>1, NodeKeys
<1>3. m \notin Above(nodes, m, i)
  BY <1>1, <1>2, KeyOrder DEF Above
<1>4. ASSUME NEW o \in Above(nodes, m, i) PROVE o \in Above(nodes, n, i)
  <2>1. o \in DOMAIN nodes \ {Head0} /\ i \in DOMAIN nodes[o].next
        /\ Less(nodes[m].key, nodes[o].key)
    BY <1>1 DEF Above
  <2>2. nodes[o].key \in Keys
    BY <2>1, NodeKeys
  <2>3. n = Head0 \/ Less(nodes[n].key, nodes[o].key)
    <3>1. CASE n = Head0
      BY <3>1
    <3>2. CASE n # Head0
      <4>1. nodes[n].key \in Keys
        BY <3>2, NodeKeys
      <4> QED BY <1>1, <1>2, <2>1, <2>2, <3>2, <4>1, KeyOrder
    <3> QED BY <3>1, <3>2
  <2> QED BY <2>1, <2>3 DEF Above
<1> QED BY <1>3, <1>4

(* The pointer of a node on a lane leads to the next node above it.         *)
LEMMA NextOnLane ==
  ASSUME NEW nodes, NodesOK(nodes), NEW i \in 1 .. MaxLevel, NEW n \in OnLane(nodes, i),
         NEW s, s = nodes[n].next[i]
  PROVE  /\ s = Null => Above(nodes, n, i) = {}
         /\ s # Null => /\ s \in Above(nodes, n, i) /\ s \in OnLane(nodes, i) \ {Head0}
                        /\ Above(nodes, n, i) = {s} \cup Above(nodes, s, i)
                        /\ s \notin Above(nodes, s, i)
<1> DEFINE above == Above(nodes, n, i)
<1>1. n \in DOMAIN nodes /\ i \in DOMAIN nodes[n].next
  BY DEF OnLane
<1>2. IF above = {} THEN s = Null
      ELSE s \in above /\ \A m \in above \ {s} : Less(nodes[s].key, nodes[m].key)
  BY <1>1 DEF NodesOK, Linked
<1>3. above \subseteq OnLane(nodes, i) \ {Head0}
  BY AboveOnLane
<1>4. \A m \in above : m # Null
  BY <1>3, NodeKeys DEF OnLane
<1>5. s = Null => above = {}
  <2> HIDE DEF above
  <2> QED BY <1>2, <1>4
<1>6. ASSUME s # Null
      PROVE  s \in above /\ \A m \in above \ {s} : Less(nodes[s].key, nodes[m].key)
  <2> HIDE DEF above
  <2> QED BY <1>2, <1>6
<1>7. ASSUME s # Null
      PROVE  above = {s} \cup Above(nodes, s, i) /\ s \notin Above(nodes, s, i)
  <2>1. s \in above /\ Above(nodes, s, i) \subseteq above /\ s \notin Above(nodes, s, i)
    <3>1. s \in above
      BY <1>6, <1>7
    <3> QED BY <1>1, <3>1, AboveOrder
  <2>2. ASSUME NEW m \in above \ {s} PROVE m \in Above(nodes, s, i)
    <3>1. m \in DOMAIN nodes \ {Head0} /\ i \in DOMAIN nodes[m].next
      BY DEF Above
    <3>2. Less(nodes[s].key, nodes[m].key)
      BY <1>6, <1>7, <2>2
    <3> QED BY <3>1, <3>2 DEF Above
  <2> HIDE DEF above
  <2> QED BY <2>1, <2>2
<1> HIDE DEF above
<1> QED BY <1>3, <1>5, <1>6, <1>7 DEF above

(* Where a lane leads from a node, step by step.                            *)
LEMMA FollowedSteps ==
  ASSUME NEW nodes, NodesOK(nodes), NEW i \in 1 .. MaxLevel,
         NEW s \in OnLane(nodes, i) \cup {Null}, NEW N, N = Cardinality(DOMAIN nodes)
  PROVE  /\ N \in Nat
         /\ Followed(nodes, s, i) \in [0 .. N -> OnLane(nodes, i) \cup {Null}]
         /\ Followed(nodes, s, i)[0] = s
         /\ \A j \in 1 .. N :
              Followed(nodes, s, i)[j] =
                IF Followed(nodes, s, i)[j - 1] = Null THEN Null
                ELSE nodes[Followed(nodes, s, i)[j - 1]].next[i]
<1> DEFINE S == OnLane(nodes, i) \cup {Null}
           StepOf(x) == IF x = Null THEN Null ELSE nodes[x].next[i]
           g == [j \in 1 .. N |-> [x \in S |-> StepOf(x)]]
           at == Followed(nodes, s, i)
<1>1. N \in Nat
  BY FS_CardinalityType DEF NodesOK
<1>2. ASSUME NEW x \in S PROVE StepOf(x) \in S
  <2>1. CASE x = Null
    BY <2>1
  <2>2. CASE x # Null
    <3>1. x \in OnLane(nodes, i)
      BY <2>2
    <3>2. nodes[x].next[i] = Null \/ nodes[x].next[i] \in OnLane(nodes, i)
      BY <3>1, NextOnLane
    <3> QED BY <2>2, <3>2
  <2> QED BY <2>1, <2>2
<1>3. g \in [1 .. N -> [S -> S]]
  <2> HIDE DEF StepOf, S
  <2> QED BY <1>2
<1>4. s \in S
  OBVIOUS
<1>5. PICK f \in [0 .. N -> S] : Recurs(f, N, s, g)
  <2> HIDE DEF g, S
  <2> QED BY <1>1, <1>3, <1>4, RecursExists
<1>6. f = [j \in 0 .. N |-> IF j = 0 THEN s ELSE StepOf(f[j - 1])]
  <2>1. ASSUME NEW j \in 0 .. N
        PROVE  (IF j = 0 THEN s ELSE g[j][f[j - 1]]) = IF j = 0 THEN s ELSE StepOf(f[j - 1])
    <3> HIDE DEF StepOf, S
    <3> QED BY <1>1, <1>5
  <2> HIDE DEF StepOf, g, S
  <2> QED BY <1>5, <2>1 DEF Recurs
<1>7. at = CHOOSE t : t = [j \in 0 .. N |-> IF j = 0 THEN s ELSE StepOf(t[j - 1])]
  BY DEF Followed
<1>8. at = [j \in 0 .. N |-> IF j = 0 THEN s ELSE StepOf(at[j - 1])]
  <2> HIDE DEF StepOf, at
  <2> QED BY <1>6, <1>7
<1>9. at[0] = s /\ \A j \in 1 .. N : at[j] = StepOf(at[j - 1])
  <2> HIDE DEF StepOf, at
  <2> QED BY <1>1, <1>8
<1> DEFINE T == {j \in 0 .. N : at[j] \in S}
<1>10. 0 \in T /\ \A j \in 1 .. N : j - 1 \in T => j \in T
  <2> HIDE DEF StepOf, at, S
  <2>1. ASSUME NEW j \in 1 .. N, at[j - 1] \in S PROVE at[j] \in S
    BY <1>2, <1>9, <2>1
  <2> QED BY <1>1, <1>4, <1>9, <2>1
<1>11. 0 .. N \subseteq T
  <2> HIDE DEF T
  <2> QED BY <1>1, <1>10, UpTo
<1>12. at \in [0 .. N -> S]
  <2> HIDE DEF StepOf, at, S
  <2> QED BY <1>8, <1>11
<1> QED BY <1>1, <1>9, <1>12

(* The nodes above a node are counted, and there are fewer than nodes.      *)
LEMMA AboveCounted ==
  ASSUME NEW nodes, NodesOK(nodes), NEW n \in DOMAIN nodes, NEW i
  PROVE  /\ IsFiniteSet(Above(nodes, n, i)) /\ Cardinality(Above(nodes, n, i)) \in Nat
         /\ Cardinality(Above(nodes, n, i)) < Cardinality(DOMAIN nodes)
<1> DEFINE D == DOMAIN nodes
           A == Above(nodes, n, i)
<1>1. IsFiniteSet(D) /\ Head0 \in D /\ A \subseteq D \ {Head0}
  BY DEF NodesOK, Above
<1> HIDE DEF D, A
<1>2. IsFiniteSet(D \ {Head0}) /\ Cardinality(D \ {Head0}) = Cardinality(D) - 1
  BY <1>1, FS_RemoveElement
<1>3. IsFiniteSet(A) /\ Cardinality(A) <= Cardinality(D \ {Head0})
  BY <1>1, <1>2, FS_Subset
<1>4. Cardinality(A) \in Nat /\ Cardinality(D) \in Nat
  BY <1>1, <1>3, FS_CardinalityType
<1> QED BY <1>2, <1>3, <1>4 DEF A, D

(* A lane comes to an end: it has a length, with nodes up to it and nothing *)
(* from there on.                                                           *)
LEMMA LaneEnds ==
  ASSUME NEW nodes, NodesOK(nodes), NEW i \in 1 .. MaxLevel,
         NEW s \in OnLane(nodes, i) \cup {Null}
  PROVE  \E len \in 0 .. Cardinality(DOMAIN nodes) :
            /\ \A j \in 0 .. len - 1 : Followed(nodes, s, i)[j] # Null
            /\ \A j \in len .. Cardinality(DOMAIN nodes) : Followed(nodes, s, i)[j] = Null
            /\ Cardinality({j \in DOMAIN Followed(nodes, s, i) :
                               Followed(nodes, s, i)[j] # Null}) = len
<1> DEFINE N == Cardinality(DOMAIN nodes)
           at == Followed(nodes, s, i)
           C(n) == Cardinality(Above(nodes, n, i))
<1>1. /\ N \in Nat /\ at \in [0 .. N -> OnLane(nodes, i) \cup {Null}] /\ at[0] = s
      /\ \A j \in 1 .. N :
           at[j] = IF at[j - 1] = Null THEN Null ELSE nodes[at[j - 1]].next[i]
  BY FollowedSteps
<1>2. ASSUME NEW n \in OnLane(nodes, i) PROVE n # Null /\ C(n) \in Nat /\ C(n) < N
  <2>1. n \in DOMAIN nodes
    BY DEF OnLane
  <2>2. n # Null
    BY <2>1 DEF NodesOK, Null
  <2> QED BY <2>1, <2>2, AboveCounted
<1>3. ASSUME NEW n \in OnLane(nodes, i), nodes[n].next[i] # Null
      PROVE  nodes[n].next[i] \in OnLane(nodes, i) /\ C(nodes[n].next[i]) = C(n) - 1
  <2> DEFINE x == nodes[n].next[i]
  <2>1. /\ x \in OnLane(nodes, i) /\ Above(nodes, n, i) = {x} \cup Above(nodes, x, i)
        /\ x \notin Above(nodes, x, i)
    BY <1>3, NextOnLane
  <2>2. IsFiniteSet(Above(nodes, x, i)) /\ C(x) \in Nat
    <3>1. x \in DOMAIN nodes
      BY <2>1 DEF OnLane
    <3> QED BY <3>1, AboveCounted
  <2> HIDE DEF x
  <2>3. Cardinality(Above(nodes, x, i) \cup {x}) = C(x) + 1
    BY <2>1, <2>2, FS_AddElement
  <2>4. Above(nodes, n, i) = Above(nodes, x, i) \cup {x}
    BY <2>1
  <2>5. C(n) = C(x) + 1
    BY <2>3, <2>4
  <2>6. x \in OnLane(nodes, i) /\ C(x) = C(n) - 1
    <3>1. C(x) \in Nat
      BY <2>2
    <3> HIDE DEF C
    <3> QED BY <2>1, <2>5, <3>1
  <2> QED BY <2>6 DEF x
<1> DEFINE T == {j \in 0 .. N : at[j] # Null => C(at[j]) + j < N}
<1>4. 0 \in T /\ \A j \in 1 .. N : j - 1 \in T => j \in T
  <2>1. 0 \in T
    <3>1. at[0] # Null => at[0] \in OnLane(nodes, i)
      BY <1>1
    <3> HIDE DEF C, N, at
    <3>2. at[0] # Null => C(at[0]) + 0 < N
      BY <1>1, <1>2, <3>1
    <3> QED BY <1>1, <3>2
  <2>2. ASSUME NEW j \in 1 .. N, at[j - 1] # Null => C(at[j - 1]) + (j - 1) < N, at[j] # Null
        PROVE  C(at[j]) + j < N
    <3>1. at[j - 1] # Null /\ at[j] = nodes[at[j - 1]].next[i] /\ at[j - 1] \in OnLane(nodes, i)
      <4> HIDE DEF at, N
      <4>1. j - 1 \in 0 .. N
        BY <1>1
      <4> QED BY <1>1, <2>2, <4>1
    <3> HIDE DEF C, at, N
    <3>2. C(at[j]) = C(at[j - 1]) - 1 /\ C(at[j - 1]) \in Nat
      BY <1>2, <1>3, <2>2, <3>1
    <3> QED BY <1>1, <2>2, <3>1, <3>2
  <2> HIDE DEF C, at, N
  <2>3. ASSUME NEW j \in 1 .. N, j - 1 \in T PROVE j \in T
    BY <2>2, <2>3
  <2> QED BY <2>1, <2>3
<1>5. 0 .. N \subseteq T
  <2> HIDE DEF T, N
  <2> QED BY <1>1, <1>4, UpTo
<1>6. at[N] = Null
  <2> SUFFICES ASSUME at[N] # Null PROVE FALSE
    OBVIOUS
  <2>1. at[N] \in OnLane(nodes, i)
    BY <1>1
  <2> HIDE DEF C, at, N
  <2>2. C(at[N]) + N < N
    BY <1>1, <1>5
  <2> QED BY <1>1, <1>2, <2>1, <2>2
<1> DEFINE E == {j \in 0 .. N : at[j] = Null}
<1>7. PICK len \in E : \A j \in E : len <= j
  <2>1. E \subseteq Nat /\ E # {}
    <3> HIDE DEF at, N
    <3> QED BY <1>1, <1>6
  <2> HIDE DEF E
  <2> QED BY <2>1, LeastNat
<1>8. len \in 0 .. N /\ at[len] = Null
  BY <1>7
<1>9. \A j \in 0 .. len - 1 : at[j] # Null
  <2> HIDE DEF at, N
  <2> SUFFICES ASSUME NEW j \in 0 .. len - 1, at[j] = Null PROVE FALSE
    OBVIOUS
  <2>1. j \in E
    BY <1>1, <1>8
  <2> QED BY <1>7, <1>8, <2>1
<1> DEFINE U == {j \in 0 .. N : j >= len => at[j] = Null}
<1>10. 0 \in U /\ \A j \in 1 .. N : j - 1 \in U => j \in U
  <2> HIDE DEF at, N
  <2>1. 0 \in U
    BY <1>1, <1>8
  <2>2. ASSUME NEW j \in 1 .. N, j - 1 >= len => at[j - 1] = Null, j >= len PROVE at[j] = Null
    <3>1. CASE j = len
      BY <1>8, <3>1
    <3>2. CASE j # len
      <4>1. j - 1 >= len
        BY <1>1, <1>8, <2>2, <3>2
      <4> QED BY <1>1, <2>2, <4>1
    <3> QED BY <3>1, <3>2
  <2> QED BY <2>1, <2>2
<1>11. 0 .. N \subseteq U
  <2> HIDE DEF U, N
  <2> QED BY <1>1, <1>10, UpTo
<1>12. \A j \in len .. N : at[j] = Null
  <2> HIDE DEF at, N
  <2> QED BY <1>1, <1>8, <1>11
<1>13. {j \in DOMAIN at : at[j] # Null} = 0 .. len - 1
  <2> HIDE DEF at, N
  <2> QED BY <1>1, <1>8, <1>9, <1>12
<1>14. Cardinality(0 .. len - 1) = len
  <2>1. 0 \in Int /\ len - 1 \in Int /\ len \in Nat
    BY <1>1, <1>8
  <2>2. Cardinality(0 .. len - 1) = IF 0 > len - 1 THEN 0 ELSE (len - 1) - 0 + 1
    BY <2>1, FS_Interval
  <2> QED BY <2>1, <2>2
<1> HIDE DEF at, N
<1>15. QED
  BY <1>8, <1>9, <1>12, <1>13, <1>14 DEF at, N

(* The walk along a lane from a node: it visits the node and all above it,  *)
(* each once and in the order of their keys.                                *)
LEMMA LaneWalked ==
  ASSUME NEW nodes, NodesOK(nodes), NEW i \in 1 .. MaxLevel,
         NEW s \in OnLane(nodes, i) \cup {Null}, NEW p, p = LaneFrom(nodes, s, i)
  PROVE  /\ p \in Seq(OnLane(nodes, i))
         /\ s = Null <=> p = << >>
         /\ s # Null => Len(p) >= 1 /\ p[1] = s /\ Range(p) = {s} \cup Above(nodes, s, i)
         /\ \A x \in 1 .. Len(p) - 1 : p[x + 1] = nodes[p[x]].next[i]
         /\ s # Null => nodes[p[Len(p)]].next[i] = Null
         /\ \A x, y \in 1 .. Len(p) : x < y => p[y] \in Above(nodes, p[x], i)
<1> DEFINE N == Cardinality(DOMAIN nodes)
           at == Followed(nodes, s, i)
<1>1. /\ N \in Nat /\ at \in [0 .. N -> OnLane(nodes, i) \cup {Null}] /\ at[0] = s
      /\ \A j \in 1 .. N :
           at[j] = IF at[j - 1] = Null THEN Null ELSE nodes[at[j - 1]].next[i]
  BY FollowedSteps
<1>2. PICK len \in 0 .. N :
            /\ \A j \in 0 .. len - 1 : at[j] # Null
            /\ \A j \in len .. N : at[j] = Null
            /\ Cardinality({j \in DOMAIN at : at[j] # Null}) = len
  BY LaneEnds
<1>3. p = [x \in 1 .. len |-> at[x - 1]]
  BY <1>2 DEF LaneFrom
<1> HIDE DEF at, N
<1>4. len \in Nat /\ \A x \in 1 .. len : at[x - 1] \in OnLane(nodes, i)
  BY <1>1, <1>2
<1>5. p \in Seq(OnLane(nodes, i)) /\ Len(p) = len /\ \A x \in 1 .. len : p[x] = at[x - 1]
  BY <1>3, <1>4
<1>6. s = Null <=> p = << >>
  <2>1. s = Null <=> len = 0
    BY <1>1, <1>2
  <2> QED BY <1>5, <2>1, EmptySeq
<1>7. ASSUME NEW x \in 1 .. len - 1
      PROVE  p[x + 1] = nodes[p[x]].next[i] /\ p[x + 1] # Null /\ p[x] \in OnLane(nodes, i)
  <2>1. x \in 1 .. len /\ x + 1 \in 1 .. len /\ x \in 1 .. N /\ x - 1 \in 0 .. len - 1
        /\ (x + 1) - 1 = x /\ x \in 0 .. len - 1
    BY <1>1, <1>2, <1>4
  <2>2. p[x + 1] = at[x] /\ p[x] = at[x - 1]
    BY <1>5, <2>1
  <2>3. at[x - 1] # Null /\ at[x] # Null
    BY <1>2, <2>1
  <2> QED BY <1>1, <1>5, <2>1, <2>2, <2>3
<1>8. \A x \in 1 .. len - 1 :
         /\ p[x + 1] \in Above(nodes, p[x], i)
         /\ Above(nodes, p[x], i) = {p[x + 1]} \cup Above(nodes, p[x + 1], i)
  BY <1>7, NextOnLane
<1>9. ASSUME len > 0 PROVE nodes[p[len]].next[i] = Null /\ Above(nodes, p[len], i) = {}
  <2>1. len \in 1 .. len /\ len - 1 \in 0 .. len - 1 /\ len \in len .. N /\ len \in 1 .. N
    BY <1>1, <1>2, <1>4, <1>9
  <2>2. at[len] = Null /\ at[len - 1] # Null /\ p[len] = at[len - 1]
    BY <1>2, <1>5, <2>1
  <2>3. nodes[p[len]].next[i] = Null
    BY <1>1, <2>1, <2>2
  <2>4. p[len] \in OnLane(nodes, i)
    BY <1>4, <1>5, <2>1
  <2> QED BY <2>3, <2>4, NextOnLane
<1>10. ASSUME NEW x \in 1 .. len
       PROVE  \A y \in 1 .. len : x < y => p[y] \in Above(nodes, p[x], i)
  <2> DEFINE T == {y \in 0 .. len : x < y => p[y] \in Above(nodes, p[x], i)}
  <2>1. 0 \in T
    BY <1>4
  <2>2. ASSUME NEW y \in 1 .. len, y - 1 \in T PROVE y \in T
    <3> SUFFICES ASSUME x < y PROVE p[y] \in Above(nodes, p[x], i)
      BY <1>4
    <3>1. y - 1 \in 1 .. len - 1 /\ (y - 1) + 1 = y
      BY <1>4
    <3>2. p[y] \in Above(nodes, p[y - 1], i)
      BY <1>8, <3>1
    <3>3. CASE x = y - 1
      BY <3>2, <3>3
    <3>4. CASE x # y - 1
      <4>1. p[y - 1] \in Above(nodes, p[x], i)
        BY <2>2, <3>1, <3>4
      <4>2. p[x] \in DOMAIN nodes
        BY <1>5 DEF OnLane
      <4>3. Above(nodes, p[y - 1], i) \subseteq Above(nodes, p[x], i)
        BY <4>1, <4>2, AboveOrder
      <4> QED BY <3>2, <4>3
    <3> QED BY <3>3, <3>4
  <2>3. 0 .. len \subseteq T
    <3> HIDE DEF T
    <3> QED BY <1>4, <2>1, <2>2, UpTo
  <2> QED BY <2>3
<1>11. ASSUME s # Null
       PROVE  len >= 1 /\ p[1] = s /\ Range(p) = {s} \cup Above(nodes, s, i)
  <2>1. len >= 1 /\ p[1] = s
    <3>1. len # 0
      BY <1>5, <1>6, <1>11, EmptySeq
    <3>2. len >= 1 /\ 1 \in 1 .. len
      BY <1>4, <3>1
    <3> QED BY <1>1, <1>5, <3>2
  <2> DEFINE Seen(x) == {p[y] : y \in 1 .. x}
             T == {x \in 0 .. len : x >= 1 =>
                      {s} \cup Above(nodes, s, i) = Seen(x) \cup Above(nodes, p[x], i)}
  <2>2. 0 \in T
    BY <1>4
  <2>3. ASSUME NEW x \in 1 .. len, x - 1 \in T PROVE x \in T
    <3>1. CASE x = 1
      <4>1. Seen(1) = {p[1]}
        OBVIOUS
      <4> HIDE DEF Seen
      <4> QED BY <2>1, <3>1, <4>1
    <3>2. CASE x # 1
      <4>1. x - 1 \in 1 .. len - 1 /\ (x - 1) + 1 = x /\ x - 1 >= 1
        BY <1>4, <3>2
      <4>2. Above(nodes, p[x - 1], i) = {p[x]} \cup Above(nodes, p[x], i)
        BY <1>8, <4>1
      <4>3. Seen(x) = Seen(x - 1) \cup {p[x]}
        BY <4>1
      <4>4. {s} \cup Above(nodes, s, i) = Seen(x - 1) \cup Above(nodes, p[x - 1], i)
        BY <2>3, <4>1
      <4> HIDE DEF Seen
      <4> QED BY <4>2, <4>3, <4>4
    <3> QED BY <3>1, <3>2
  <2>4. 0 .. len \subseteq T
    <3> HIDE DEF T
    <3> QED BY <1>4, <2>2, <2>3, UpTo
  <2>5. {s} \cup Above(nodes, s, i) = Seen(len) \cup Above(nodes, p[len], i)
    <3>1. len \in T
      BY <1>4, <2>4
    <3> HIDE DEF Seen
    <3> QED BY <2>1, <3>1
  <2>6. Above(nodes, p[len], i) = {}
    BY <1>4, <1>9, <2>1
  <2>7. Range(p) = Seen(len)
    <3>1. DOMAIN p = 1 .. len
      BY <1>5
    <3>2. Range(p) = {p[y] : y \in DOMAIN p}
      BY DEF Range
    <3> QED BY <3>1, <3>2
  <2> HIDE DEF Seen
  <2> QED BY <2>1, <2>5, <2>6, <2>7
<1>12. s # Null => nodes[p[len]].next[i] = Null
  <2>1. s # Null => len > 0
    BY <1>4, <1>11
  <2> QED BY <1>9, <2>1
<1> QED BY <1>5, <1>6, <1>7, <1>10, <1>11, <1>12

(* The nodes of a lane that a search for a key may pass.                    *)
Low(nodes, i, key) ==
    {n \in OnLane(nodes, i) : n = Head0 \/ Less(nodes[n].key, key)}

(* A walk for a key stays below the key and stops where the next node is    *)
(* not below it.                                                            *)
LEMMA WalkLands ==
  ASSUME NEW nodes, NodesOK(nodes), NEW i \in 1 .. MaxLevel, NEW key \in Keys,
         NEW from \in Low(nodes, i, key), NEW w, w = Walk(nodes, from, i, key)
  PROVE  /\ w \in Low(nodes, i, key)
         /\ nodes[w].next[i] # Null => ~Less(nodes[nodes[w].next[i]].key, key)
<1> DEFINE p == LaneFrom(nodes, from, i)
           passed == {x \in DOMAIN p : \A j \in 2 .. x : Less(nodes[p[j]].key, key)}
           M == Max(passed)
<1>1. from \in OnLane(nodes, i) /\ (from = Head0 \/ Less(nodes[from].key, key)) /\ from # Null
  BY DEF Low, OnLane, NodesOK, Null
<1>2. /\ p \in Seq(OnLane(nodes, i)) /\ Len(p) >= 1 /\ p[1] = from
      /\ \A x \in 1 .. Len(p) - 1 : p[x + 1] = nodes[p[x]].next[i]
      /\ nodes[p[Len(p)]].next[i] = Null
  BY <1>1, LaneWalked
<1>3. w = p[M]
  BY DEF Walk
<1> HIDE DEF p
<1>4. Len(p) \in Nat /\ DOMAIN p = 1 .. Len(p) /\ passed \subseteq 1 .. Len(p) /\ 1 \in passed
  BY <1>2
<1>5. M \in passed /\ \A x \in passed : M >= x
  <2> HIDE DEF passed
  <2> QED BY <1>4, MaxUpTo
<1> HIDE DEF M
<1>6. M \in 1 .. Len(p) /\ \A j \in 2 .. M : Less(nodes[p[j]].key, key)
  BY <1>4, <1>5
<1>7. p[M] \in OnLane(nodes, i)
  BY <1>2, <1>6
<1>8. p[M] = Head0 \/ Less(nodes[p[M]].key, key)
  <2>1. CASE M = 1
    BY <1>1, <1>2, <2>1
  <2>2. CASE M # 1
    <3>1. M \in 2 .. M
      BY <1>6, <2>2
    <3> QED BY <1>6, <3>1
  <2> QED BY <2>1, <2>2
<1>9. ASSUME nodes[p[M]].next[i] # Null
      PROVE  ~Less(nodes[nodes[p[M]].next[i]].key, key)
  <2>1. M # Len(p)
    BY <1>2, <1>9
  <2>2. M \in 1 .. Len(p) - 1 /\ M + 1 \in 1 .. Len(p)
    <3>1. Len(p) \in Nat /\ M \in 1 .. Len(p)
      BY <1>4, <1>6
    <3> HIDE DEF passed
    <3> QED BY <2>1, <3>1
  <2>3. p[M + 1] = nodes[p[M]].next[i]
    BY <1>2, <2>2
  <2>4. M + 1 \notin passed
    BY <1>5, <1>6
  <2>5. PICK j \in 2 .. M + 1 : ~Less(nodes[p[j]].key, key)
    BY <1>4, <2>2, <2>4
  <2>6. j = M + 1
    BY <1>6, <2>5
  <2> QED BY <2>3, <2>5, <2>6
<1> QED BY <1>3, <1>7, <1>8, <1>9 DEF Low

(* The predecessors a search finds: on each lane the last node below the    *)
(* key.                                                                     *)
LEMMA PredecessorsFound ==
  ASSUME NEW nodes, NodesOK(nodes), NEW key \in Keys
  PROVE  \A i \in 1 .. MaxLevel :
           LET n == Predecessors(nodes, key)[i]
           IN  /\ n \in Low(nodes, i, key)
               /\ nodes[n].next[i] # Null => ~Less(nodes[nodes[n].next[i]].key, key)
<1> DEFINE M == MaxLevel
           low(i) == Low(nodes, i, key)
           S == DOMAIN nodes
           StepOf(x, j) == IF x \in low(M + 1 - j) THEN Walk(nodes, x, M + 1 - j, key) ELSE Head0
           g == [j \in 1 .. M |-> [x \in S |-> StepOf(x, j)]]
           pred == Predecessors(nodes, key)
           At(q, i) == IF i = M + 1 THEN Head0 ELSE Walk(nodes, q[i + 1], i, key)
<1>1. M \in Nat \ {0}
  BY SkipListAssumption
<1>2. ASSUME NEW i \in 1 .. M PROVE low(i) \subseteq S /\ Head0 \in low(i)
  <2>1. Head0 \in OnLane(nodes, i)
    BY LanesNested
  <2> QED BY <2>1 DEF Low, OnLane
<1>3. ASSUME NEW i \in 1 .. M, i + 1 \in 1 .. M PROVE low(i + 1) \subseteq low(i)
  <2>1. i \in 1 .. i + 1
    BY <1>1
  <2>2. OnLane(nodes, i + 1) \subseteq OnLane(nodes, i)
    BY <1>3, <2>1, LanesNested
  <2> QED BY <2>2 DEF Low
<1>4. ASSUME NEW i \in 1 .. M, NEW x \in low(i) PROVE Walk(nodes, x, i, key) \in low(i)
  BY WalkLands
<1>5. ASSUME NEW j \in 1 .. M, NEW x PROVE StepOf(x, j) \in low(M + 1 - j)
  <2>1. M + 1 - j \in 1 .. M
    BY <1>1
  <2> HIDE DEF low, M
  <2> QED BY <1>2, <1>4, <2>1
<1>6. g \in [1 .. M -> [S -> S]]
  <2>1. ASSUME NEW j \in 1 .. M, NEW x \in S PROVE StepOf(x, j) \in S
    <3>1. M + 1 - j \in 1 .. M
      BY <1>1
    <3> HIDE DEF low, M, StepOf
    <3> QED BY <1>2, <1>5, <3>1
  <2> HIDE DEF StepOf, S, low
  <2> QED BY <2>1
<1>7. Head0 \in S
  BY DEF NodesOK
<1>8. PICK f \in [0 .. M -> S] : Recurs(f, M, Head0, g)
  <2> HIDE DEF g, S
  <2> QED BY <1>1, <1>6, <1>7, RecursExists
<1>9. f[0] = Head0 /\ \A j \in 1 .. M : f[j] = StepOf(f[j - 1], j)
  <2>1. f = [j \in 0 .. M |-> IF j = 0 THEN Head0 ELSE g[j][f[j - 1]]]
    BY <1>8 DEF Recurs
  <2>2. ASSUME NEW j \in 1 .. M PROVE j - 1 \in 0 .. M /\ j \in 0 .. M /\ j # 0
    BY <1>1
  <2>3. ASSUME NEW j \in 1 .. M PROVE g[j][f[j - 1]] = StepOf(f[j - 1], j)
    <3> HIDE DEF StepOf
    <3> QED BY <1>8, <2>2
  <2>4. 0 \in 0 .. M
    BY <1>1
  <2> HIDE DEF StepOf, g
  <2> QED BY <2>1, <2>2, <2>3, <2>4
<1>10. ASSUME NEW j \in 1 .. M
       PROVE  f[j] \in low(M + 1 - j) /\ f[j] = Walk(nodes, f[j - 1], M + 1 - j, key)
  <2>1. M + 1 - j \in 1 .. M
    BY <1>1
  <2>2. f[j] \in low(M + 1 - j)
    <3> HIDE DEF StepOf, low
    <3> QED BY <1>5, <1>9
  <2>3. f[j - 1] \in low(M + 1 - j)
    <3>1. CASE j = 1
      <4> HIDE DEF low
      <4> QED BY <1>2, <1>9, <2>1, <3>1
    <3>2. CASE j # 1
      <4>1. j - 1 \in 1 .. M /\ (M + 1 - j) + 1 \in 1 .. M /\ M + 1 - (j - 1) = (M + 1 - j) + 1
        BY <1>1, <3>2
      <4> HIDE DEF low, StepOf
      <4>2. f[j - 1] \in low((M + 1 - j) + 1)
        BY <1>5, <1>9, <4>1
      <4> QED BY <1>3, <2>1, <4>1, <4>2
    <3> QED BY <3>1, <3>2
  <2> HIDE DEF low, M
  <2> QED BY <1>9, <2>2, <2>3
<1> DEFINE h == [i \in 1 .. M + 1 |-> f[M + 1 - i]]
<1>11. h = [i \in 1 .. M + 1 |-> At(h, i)]
  <2> SUFFICES ASSUME NEW i \in 1 .. M + 1 PROVE f[M + 1 - i] = At(h, i)
    OBVIOUS
  <2>1. CASE i = M + 1
    BY <1>1, <1>9, <2>1
  <2>2. CASE i # M + 1
    <3>1. M + 1 - i \in 1 .. M /\ i + 1 \in 1 .. M + 1 /\ (M + 1 - i) - 1 = M + 1 - (i + 1)
          /\ M + 1 - (M + 1 - i) = i
      BY <1>1, <2>2
    <3>2. h[i + 1] = f[(M + 1 - i) - 1]
      BY <3>1
    <3> HIDE DEF h
    <3> QED BY <1>10, <2>2, <3>1, <3>2
  <2> QED BY <2>1, <2>2
<1>12. pred = CHOOSE q : q = [i \in 1 .. M + 1 |-> At(q, i)]
  BY DEF Predecessors
<1>13. pred = [i \in 1 .. M + 1 |-> At(pred, i)]
  <2> HIDE DEF At, pred, h
  <2> QED BY <1>11, <1>12
<1>14. pred[M + 1] = Head0 /\ \A i \in 1 .. M : pred[i] = Walk(nodes, pred[i + 1], i, key)
  <2>1. M + 1 \in 1 .. M + 1 /\ \A i \in 1 .. M : i \in 1 .. M + 1 /\ i # M + 1
    BY <1>1
  <2> HIDE DEF pred
  <2> QED BY <1>13, <2>1
<1> HIDE DEF pred
<1> DEFINE T == {j \in 0 .. M : j # 0 => pred[M + 1 - j] \in low(M + 1 - j)
                                         /\ pred[(M + 1 - j) + 1] \in low(M + 1 - j)}
<1>15. 0 \in T
  BY <1>1
<1>16. ASSUME NEW j \in 1 .. M, j - 1 \in T PROVE j \in T
  <2> DEFINE i == M + 1 - j
  <2>1. i \in 1 .. M /\ j \in 0 .. M
    BY <1>1
  <2>2. pred[i + 1] \in low(i)
    <3>1. CASE j = 1
      <4>1. i + 1 = M + 1
        BY <1>1, <3>1
      <4> HIDE DEF low, i
      <4> QED BY <1>2, <1>14, <2>1, <4>1
    <3>2. CASE j # 1
      <4>1. i + 1 \in 1 .. M /\ M + 1 - (j - 1) = i + 1 /\ j - 1 # 0
        BY <1>1, <3>2
      <4>2. pred[i + 1] \in low(i + 1)
        BY <1>16, <4>1
      <4> HIDE DEF low, i
      <4> QED BY <1>3, <2>1, <4>1, <4>2
    <3> QED BY <3>1, <3>2
  <2>3. pred[i] \in low(i)
    <3> HIDE DEF low, i
    <3> QED BY <1>4, <1>14, <2>1, <2>2
  <2> HIDE DEF low
  <2> QED BY <2>1, <2>2, <2>3
<1>17. 0 .. M \subseteq T
  <2> HIDE DEF T
  <2> QED BY <1>1, <1>15, <1>16, UpTo
<1>18. ASSUME NEW i \in 1 .. M PROVE pred[i + 1] \in low(i)
  <2>1. M + 1 - i \in 0 .. M /\ M + 1 - i # 0 /\ M + 1 - (M + 1 - i) = i
    BY <1>1
  <2>2. M + 1 - i \in T
    BY <1>17, <2>1
  <2> HIDE DEF low
  <2> QED BY <2>1, <2>2
<1>19. ASSUME NEW i \in 1 .. M
       PROVE  /\ pred[i] \in low(i)
              /\ nodes[pred[i]].next[i] # Null => ~Less(nodes[nodes[pred[i]].next[i]].key, key)
  BY <1>14, <1>18, WalkLands
<1> QED BY <1>19 DEF pred

(* What a search finds on the bottom lane: the least key that is not below  *)
(* the one searched for.                                                    *)
LEMMA CeilingFound ==
  ASSUME NEW nodes, NodesOK(nodes), NEW key \in Keys, NEW c, c = Ceiling(nodes, key)
  PROVE  /\ c = Null => \A n \in DOMAIN nodes \ {Head0} : Less(nodes[n].key, key)
         /\ c # Null => /\ c \in DOMAIN nodes \ {Head0} /\ ~Less(nodes[c].key, key)
                        /\ \A n \in DOMAIN nodes \ {Head0} :
                             ~Less(nodes[n].key, key) <=> n = c \/ n \in Above(nodes, c, 1)
<1> DEFINE q == Predecessors(nodes, key)[1]
<1>1. 1 \in 1 .. MaxLevel
  BY SkipListAssumption
<1>2. /\ q \in Low(nodes, 1, key)
      /\ nodes[q].next[1] # Null => ~Less(nodes[nodes[q].next[1]].key, key)
  BY <1>1, PredecessorsFound
<1>3. c = nodes[q].next[1]
  BY DEF Ceiling
<1> HIDE DEF q
<1>4. q \in OnLane(nodes, 1) /\ (q = Head0 \/ Less(nodes[q].key, key)) /\ q \in DOMAIN nodes
  BY <1>2 DEF Low, OnLane
<1>5. /\ c = Null => Above(nodes, q, 1) = {}
      /\ c # Null => /\ c \in OnLane(nodes, 1) \ {Head0}
                     /\ Above(nodes, q, 1) = {c} \cup Above(nodes, c, 1)
  BY <1>1, <1>3, <1>4, NextOnLane
<1>6. ASSUME NEW n \in DOMAIN nodes \ {Head0}, n \notin Above(nodes, q, 1)
      PROVE  Less(nodes[n].key, key)
  <2>1. 1 \in DOMAIN nodes[n].next
    BY LanesNested DEF OnLane
  <2>2. q # Head0 /\ ~Less(nodes[q].key, nodes[n].key)
    BY <1>6, <2>1 DEF Above
  <2>3. nodes[n].key \in Keys /\ nodes[q].key \in Keys /\ Less(nodes[q].key, key)
    BY <1>4, <2>2, NodeKeys
  <2>4. nodes[n].key = nodes[q].key \/ Less(nodes[n].key, nodes[q].key)
    BY <2>2, <2>3, KeyOrder
  <2> QED BY <2>3, <2>4, KeyOrder
<1>7. CASE c = Null
  BY <1>5, <1>6, <1>7
<1>8. CASE c # Null
  <2>1. c \in DOMAIN nodes \ {Head0} /\ ~Less(nodes[c].key, key)
    BY <1>2, <1>3, <1>5, <1>8 DEF OnLane
  <2>2. ASSUME NEW n \in DOMAIN nodes \ {Head0}, ~Less(nodes[n].key, key)
        PROVE  n = c \/ n \in Above(nodes, c, 1)
    BY <1>5, <1>6, <1>8, <2>2
  <2>3. ASSUME NEW n \in DOMAIN nodes \ {Head0}, n \in Above(nodes, c, 1)
        PROVE  ~Less(nodes[n].key, key)
    <3>1. nodes[n].key \in Keys /\ nodes[c].key \in Keys
      BY <2>1, NodeKeys
    <3>2. Less(nodes[c].key, nodes[n].key)
      BY <2>1, <2>3 DEF Above
    <3> QED BY <2>1, <3>1, <3>2, KeyOrder
  <2> QED BY <1>8, <2>1, <2>2, <2>3
<1> QED BY <1>7, <1>8

(* get returns the value a node with the key has.                           *)
LEMMA GetFinds ==
  ASSUME NEW list, NodesOK(list.nodes), NEW key \in Keys
  PROVE  Get(list, key) = Values(list, key)
<1> DEFINE nodes == list.nodes
           c == Ceiling(nodes, key)
<1>1. /\ c = Null => \A n \in DOMAIN nodes \ {Head0} : Less(nodes[n].key, key)
      /\ c # Null => /\ c \in DOMAIN nodes \ {Head0} /\ ~Less(nodes[c].key, key)
                     /\ \A n \in DOMAIN nodes \ {Head0} :
                          ~Less(nodes[n].key, key) <=> n = c \/ n \in Above(nodes, c, 1)
  BY CeilingFound
<1>2. Get(list, key) = IF c # Null /\ nodes[c].key = key THEN {nodes[c].value} ELSE {}
  BY DEF Get
<1>3. Values(list, key) =
        {nodes[n].value : n \in {m \in DOMAIN nodes \ {Head0} : nodes[m].key = key}}
  BY DEF Values
<1> HIDE DEF c
<1>4. ASSUME NEW n \in DOMAIN nodes \ {Head0}, nodes[n].key = key
      PROVE  c # Null /\ n = c
  <2>1. ~Less(nodes[n].key, key)
    BY <1>4, KeyOrder
  <2>2. c # Null
    BY <1>1, <2>1
  <2>3. CASE n \in Above(nodes, c, 1)
    <3>1. Less(nodes[c].key, key) /\ c # Head0
      BY <1>1, <1>4, <2>2, <2>3 DEF Above
    <3> QED BY <1>1, <2>2, <3>1
  <2> QED BY <1>1, <2>1, <2>2, <2>3
<1>5. CASE c # Null /\ nodes[c].key = key
  <2>1. {m \in DOMAIN nodes \ {Head0} : nodes[m].key = key} = {c}
    BY <1>1, <1>4, <1>5
  <2> QED BY <1>2, <1>3, <1>5, <2>1
<1>6. CASE ~(c # Null /\ nodes[c].key = key)
  <2>1. {m \in DOMAIN nodes \ {Head0} : nodes[m].key = key} = {}
    BY <1>4, <1>6
  <2> QED BY <1>2, <1>3, <1>6, <2>1
<1> QED BY <1>5, <1>6

(* The walk over the whole bottom lane, from the node behind the head.      *)
LEMMA BottomLane ==
  ASSUME NEW nodes, NodesOK(nodes), NEW p, p = LaneFrom(nodes, nodes[Head0].next[1], 1)
  PROVE  /\ p \in Seq(DOMAIN nodes \ {Head0}) /\ Range(p) = DOMAIN nodes \ {Head0}
         /\ \A x, y \in 1 .. Len(p) : x < y => Less(nodes[p[x]].key, nodes[p[y]].key)
<1> DEFINE s == nodes[Head0].next[1]
           D == DOMAIN nodes \ {Head0}
<1>1. 1 \in 1 .. MaxLevel
  BY SkipListAssumption
<1>2. Head0 \in OnLane(nodes, 1) /\ OnLane(nodes, 1) = DOMAIN nodes
  BY <1>1, LanesNested
<1>3. Above(nodes, Head0, 1) = D
  BY <1>2 DEF Above, OnLane
<1>4. /\ s = Null => Above(nodes, Head0, 1) = {}
      /\ s # Null => /\ s \in OnLane(nodes, 1) \ {Head0}
                     /\ Above(nodes, Head0, 1) = {s} \cup Above(nodes, s, 1)
  BY <1>1, <1>2, NextOnLane
<1>5. s \in OnLane(nodes, 1) \cup {Null}
  BY <1>4
<1>6. /\ p \in Seq(OnLane(nodes, 1)) /\ (s = Null <=> p = << >>)
      /\ s # Null => Range(p) = {s} \cup Above(nodes, s, 1)
      /\ \A x, y \in 1 .. Len(p) : x < y => p[y] \in Above(nodes, p[x], 1)
  BY <1>1, <1>5, LaneWalked
<1> HIDE DEF s
<1>7. Range(p) = D
  <2>1. CASE s = Null
    <3>1. p = << >> /\ D = {}
      BY <1>3, <1>4, <1>6, <2>1
    <3>2. DOMAIN p = {}
      BY <3>1
    <3>3. Range(p) = {}
      BY <3>2 DEF Range
    <3> QED BY <3>1, <3>3
  <2>2. CASE s # Null
    <3> HIDE DEF D
    <3> QED BY <1>3, <1>4, <1>6, <2>2
  <2> QED BY <2>1, <2>2
<1>8. DOMAIN p = 1 .. Len(p) /\ Len(p) \in Nat
  BY <1>6, LenProperties
<1>9. \A x \in 1 .. Len(p) : p[x] \in D
  <2>1. \A x \in DOMAIN p : p[x] \in Range(p)
    BY DEF Range
  <2> HIDE DEF D
  <2> QED BY <1>7, <1>8, <2>1
<1>10. p \in Seq(D)
  <2> HIDE DEF D
  <2>1. p = [x \in 1 .. Len(p) |-> p[x]]
    BY <1>6
  <2> QED BY <1>8, <1>9, <2>1, IsASeq
<1>11. ASSUME NEW x \in 1 .. Len(p), NEW y \in 1 .. Len(p), x < y
       PROVE  Less(nodes[p[x]].key, nodes[p[y]].key)
  BY <1>6, <1>9, <1>11 DEF Above
<1> QED BY <1>7, <1>10, <1>11

(* iter yields the entries of a list, each key once and in key order.       *)
LEMMA IterYields ==
  ASSUME NEW list, NodesOK(list.nodes), NEW t, t = Iter(list)
  PROVE  /\ t \in Seq(Keys \X Vals) /\ InKeyOrder(t)
         /\ \A k \in Keys : Holding(t, k) = Values(list, k)
         /\ t = << >> <=> DOMAIN list.nodes = {Head0}
<1> DEFINE nodes == list.nodes
           p == LaneFrom(nodes, nodes[Head0].next[1], 1)
           D == DOMAIN nodes \ {Head0}
<1>1. /\ p \in Seq(D) /\ Range(p) = D
      /\ \A x, y \in 1 .. Len(p) : x < y => Less(nodes[p[x]].key, nodes[p[y]].key)
  BY BottomLane
<1>2. t = [x \in DOMAIN p |-> << nodes[p[x]].key, nodes[p[x]].value >>]
  BY DEF Iter, Entry
<1> HIDE DEF p
<1>3. DOMAIN p = 1 .. Len(p) /\ Len(p) \in Nat
  BY <1>1, LenProperties
<1>4. ASSUME NEW x \in 1 .. Len(p)
      PROVE  /\ p[x] \in D /\ nodes[p[x]].key \in Keys /\ nodes[p[x]].value \in Vals
             /\ t[x] = << nodes[p[x]].key, nodes[p[x]].value >>
  <2>1. p[x] \in D
    BY <1>1, <1>3, ElementOfSeq
  <2> QED BY <1>2, <1>3, <2>1, NodeKeys
<1>5. t \in Seq(Keys \X Vals) /\ Len(t) = Len(p) /\ DOMAIN t = 1 .. Len(p)
  <2>1. t = [x \in 1 .. Len(p) |-> t[x]]
    BY <1>2, <1>3
  <2>2. ASSUME NEW x \in 1 .. Len(p) PROVE t[x] \in Keys \X Vals
    <3> DEFINE a == nodes[p[x]].key
               b == nodes[p[x]].value
    <3>1. a \in Keys /\ b \in Vals /\ t[x] = << a, b >>
      BY <1>4
    <3> HIDE DEF a, b
    <3> QED BY <3>1
  <2> QED BY <1>3, <2>1, <2>2, IsASeq
<1>6. InKeyOrder(t)
  BY <1>1, <1>4, <1>5 DEF InKeyOrder
<1>7. ASSUME NEW k \in Keys PROVE Holding(t, k) = Values(list, k)
  <2>1. Holding(t, k) = {e[2] : e \in {x \in Range(t) : x[1] = k}}
    BY DEF Holding
  <2>2. Values(list, k) = {nodes[n].value : n \in {m \in D : nodes[m].key = k}}
    BY DEF Values
  <2>3. Range(t) = {t[x] : x \in 1 .. Len(p)} /\ Range(p) = {p[x] : x \in 1 .. Len(p)}
    BY <1>3, <1>5 DEF Range
  <2>4. ASSUME NEW v \in Holding(t, k) PROVE v \in Values(list, k)
    <3>1. PICK x \in 1 .. Len(p) : t[x][1] = k /\ t[x][2] = v
      BY <2>1, <2>3, <2>4
    <3>2. p[x] \in D /\ nodes[p[x]].key = k /\ nodes[p[x]].value = v
      BY <1>4, <3>1
    <3> QED BY <2>2, <3>2
  <2>5. ASSUME NEW v \in Values(list, k) PROVE v \in Holding(t, k)
    <3>1. PICK n \in D : nodes[n].key = k /\ nodes[n].value = v
      BY <2>2, <2>5
    <3>2. PICK x \in 1 .. Len(p) : p[x] = n
      BY <1>1, <2>3
    <3>3. t[x] = << k, v >> /\ t[x] \in Range(t)
      BY <1>4, <2>3, <3>1, <3>2
    <3> QED BY <2>1, <3>3
  <2> QED BY <2>4, <2>5
<1>8. t = << >> <=> DOMAIN nodes = {Head0}
  <2>1. t = << >> <=> Len(p) = 0
    BY <1>5, EmptySeq
  <2>2. Len(p) = 0 <=> D = {}
    <3>1. Range(p) = {p[x] : x \in 1 .. Len(p)}
      BY <1>3 DEF Range
    <3>2. ASSUME Len(p) = 0 PROVE D = {}
      <4>1. 1 .. Len(p) = {}
        BY <3>2
      <4> HIDE DEF D
      <4> QED BY <1>1, <3>1, <4>1
    <3>3. ASSUME D = {}, Len(p) # 0 PROVE FALSE
      <4>1. 1 \in 1 .. Len(p)
        BY <1>3, <3>3
      <4> QED BY <1>4, <3>3, <4>1
    <3> QED BY <3>2, <3>3
  <2>3. Head0 \in DOMAIN nodes
    BY DEF NodesOK
  <2> QED BY <2>1, <2>2, <2>3
<1> QED BY <1>5, <1>6, <1>7, <1>8

(* A list that is OK is sound: entries in order, lanes inside those below,  *)
(* get and iter agree, and drop frees all.                                  *)
LEMMA ListSound ==
  ASSUME NEW l, NodesOK(l.nodes)
  PROVE  LET entries == Iter(l)
             lane(i) == Range(LaneFrom(l.nodes, Head0, i))
         IN  /\ \A i \in 1 .. Len(entries) - 1 : Less(entries[i][1], entries[i + 1][1])
             /\ \A i \in 2 .. MaxLevel : lane(i) \subseteq lane(i - 1)
             /\ \A k \in Keys : Get(l, k) = Holding(entries, k)
             /\ Leaked(l) = {}
<1> DEFINE nodes == l.nodes
           entries == Iter(l)
           lane(i) == Range(LaneFrom(nodes, Head0, i))
<1>1. /\ entries \in Seq(Keys \X Vals) /\ InKeyOrder(entries)
      /\ \A k \in Keys : Holding(entries, k) = Values(l, k)
  BY IterYields
<1>2. ASSUME NEW i \in 1 .. MaxLevel PROVE lane(i) = OnLane(nodes, i)
  <2>1. Head0 \in OnLane(nodes, i)
    BY LanesNested
  <2>2. Head0 # Null
    BY DEF Head0, Null
  <2>3. lane(i) = {Head0} \cup Above(nodes, Head0, i)
    BY <2>1, <2>2, LaneWalked
  <2> QED BY <2>1, <2>3 DEF Above, OnLane
<1>3. MaxLevel \in Nat \ {0}
  BY SkipListAssumption
<1>4. ASSUME NEW i \in 1 .. Len(entries) - 1 PROVE Less(entries[i][1], entries[i + 1][1])
  <2> HIDE DEF entries
  <2>1. Len(entries) \in Nat /\ DOMAIN entries = 1 .. Len(entries)
    BY <1>1, LenProperties
  <2>2. i \in DOMAIN entries /\ i + 1 \in DOMAIN entries /\ i < i + 1
    BY <2>1
  <2> QED BY <1>1, <2>2 DEF InKeyOrder
<1>5. ASSUME NEW i \in 2 .. MaxLevel PROVE lane(i) \subseteq lane(i - 1)
  <2>1. i \in 1 .. MaxLevel /\ i - 1 \in 1 .. MaxLevel /\ i - 1 \in 1 .. i
    BY <1>3
  <2>2. OnLane(nodes, i) \subseteq OnLane(nodes, i - 1)
    BY <2>1, LanesNested
  <2> HIDE DEF lane
  <2> QED BY <1>2, <2>1, <2>2
<1>6. ASSUME NEW k \in Keys PROVE Get(l, k) = Holding(entries, k)
  <2> HIDE DEF entries
  <2> QED BY <1>1, GetFinds
<1>7. Leaked(l) = {}
  <2>1. 1 \in 1 .. MaxLevel
    BY <1>3
  <2>2. lane(1) = DOMAIN nodes
    BY <1>2, <2>1, LanesNested
  <2> QED BY <2>2 DEF Leaked
<1> QED BY <1>4, <1>5, <1>6, <1>7

(* Nodes with the same keys and pointers are as good.                       *)
LEMMA SameShape ==
  ASSUME NEW nodes, NodesOK(nodes), NEW after, DOMAIN after = DOMAIN nodes,
         \A n \in DOMAIN nodes :
            /\ after[n] = [key |-> after[n].key, value |-> after[n].value,
                           next |-> after[n].next]
            /\ after[n].key = nodes[n].key /\ after[n].next = nodes[n].next
            /\ n # Head0 => after[n].value \in Vals
  PROVE  NodesOK(after)
<1>1. \A n \in DOMAIN nodes : \A i : Above(after, n, i) = Above(nodes, n, i)
  BY DEF Above
<1>2. Head0 \in DOMAIN nodes
  BY DEF NodesOK
<1>3. Linked(after)
  <2> SUFFICES ASSUME NEW n \in DOMAIN nodes, NEW i \in DOMAIN nodes[n].next
               PROVE  LET above == Above(nodes, n, i)
                          succ == nodes[n].next[i]
                      IN  IF above = {} THEN succ = Null
                          ELSE succ \in above
                               /\ \A m \in above \ {succ} : Less(after[succ].key, after[m].key)
    BY <1>1 DEF Linked
  <2> DEFINE above == Above(nodes, n, i)
             succ == nodes[n].next[i]
  <2>1. IF above = {} THEN succ = Null
        ELSE succ \in above /\ \A m \in above \ {succ} : Less(nodes[succ].key, nodes[m].key)
    BY DEF NodesOK, Linked
  <2>2. \A m \in above : m \in DOMAIN nodes
    BY DEF Above
  <2> HIDE DEF above, succ
  <2>3. IF above = {} THEN succ = Null
        ELSE succ \in above /\ \A m \in above \ {succ} : Less(after[succ].key, after[m].key)
    BY <2>1, <2>2
  <2> QED BY <2>3 DEF above, succ
<1> QED BY <1>2, <1>3 DEF NodesOK

(* What a new node changes: pointers that lead to it, and its own.          *)
SplicedIn(nodes, key, value, update, new, lanes, after) ==
    /\ DOMAIN after = DOMAIN nodes \cup {new}
    /\ after[new] = [key |-> key, value |-> value, next |-> after[new].next]
    /\ DOMAIN after[new].next = 1 .. lanes
    /\ \A i \in 1 .. lanes : after[new].next[i] = nodes[update[i]].next[i]
    /\ \A n \in DOMAIN nodes :
         /\ after[n] = [key |-> nodes[n].key, value |-> nodes[n].value,
                        next |-> after[n].next]
         /\ DOMAIN after[n].next = DOMAIN nodes[n].next
         /\ \A i \in DOMAIN nodes[n].next :
              after[n].next[i] = IF i \in 1 .. lanes /\ update[i] = n
                                 THEN new ELSE nodes[n].next[i]

(* Spliced changes just that.                                               *)
LEMMA SplicedAt ==
  ASSUME NEW nodes, NodesOK(nodes), NEW key, NEW value, NEW update, NEW new \in Nat,
         new \notin DOMAIN nodes, NEW lanes \in 1 .. MaxLevel, NEW after,
         after = Spliced(nodes, update, new, Node(key, value, lanes))
  PROVE  SplicedIn(nodes, key, value, update, new, lanes, after)
<1> DEFINE node == Node(key, value, lanes)
           own == [i \in 1 .. lanes |-> nodes[update[i]].next[i]]
           to(n, i) == IF i \in 1 .. lanes /\ update[i] = n THEN new ELSE nodes[n].next[i]
           links(n) == [i \in DOMAIN nodes[n].next |-> to(n, i)]
<1>1. /\ node = [key |-> key, value |-> value, next |-> [i \in 1 .. lanes |-> Null]]
      /\ DOMAIN node.next = 1 .. lanes
  BY DEF Node
<1>2. after = [n \in DOMAIN nodes \cup {new} |->
                 IF n = new THEN [node EXCEPT !.next = own]
                            ELSE [nodes[n] EXCEPT !.next = links(n)]]
  BY <1>1 DEF Spliced
<1>3. [node EXCEPT !.next = own] = [key |-> key, value |-> value, next |-> own]
  <2> HIDE DEF own, node
  <2> QED BY <1>1
<1>4. ASSUME NEW n \in DOMAIN nodes
      PROVE  [nodes[n] EXCEPT !.next = links(n)]
               = [key |-> nodes[n].key, value |-> nodes[n].value, next |-> links(n)]
  <2>1. nodes[n] = [key |-> nodes[n].key, value |-> nodes[n].value, next |-> nodes[n].next]
    BY DEF NodesOK
  <2> HIDE DEF links
  <2> QED BY <2>1
<1>5. after[new] = [key |-> key, value |-> value, next |-> own]
  <2> HIDE DEF own, node, links
  <2> QED BY <1>2, <1>3
<1>6. ASSUME NEW n \in DOMAIN nodes
      PROVE  after[n] = [key |-> nodes[n].key, value |-> nodes[n].value, next |-> links(n)]
  <2> HIDE DEF own, node, links
  <2> QED BY <1>2, <1>4
<1>7. DOMAIN after = DOMAIN nodes \cup {new}
  <2> HIDE DEF own, node, links
  <2> QED BY <1>2
<1>8. after[new].next = own
  <2> HIDE DEF own
  <2> QED BY <1>5
<1>9. ASSUME NEW n \in DOMAIN nodes
      PROVE  after[n].next = links(n)
  <2>1. PICK a, b, c : a = nodes[n].key /\ b = nodes[n].value /\ c = links(n)
    <3> HIDE DEF links
    <3> QED OBVIOUS
  <2>2. after[n] = [key |-> a, value |-> b, next |-> c]
    <3> HIDE DEF links
    <3> QED BY <1>6, <2>1
  <2>3. after[n].next = c
    <3> HIDE DEF links
    <3> QED BY <2>2
  <2> HIDE DEF links
  <2> QED BY <2>1, <2>3
<1>10. ASSUME NEW n \in DOMAIN nodes
       PROVE  /\ after[n] = [key |-> nodes[n].key, value |-> nodes[n].value,
                             next |-> after[n].next]
              /\ DOMAIN after[n].next = DOMAIN nodes[n].next
              /\ \A i \in DOMAIN nodes[n].next :
                   after[n].next[i] = IF i \in 1 .. lanes /\ update[i] = n
                                      THEN new ELSE nodes[n].next[i]
  <2>1. after[n] = [key |-> nodes[n].key, value |-> nodes[n].value, next |-> after[n].next]
    <3> HIDE DEF links
    <3> QED BY <1>6, <1>9
  <2> QED BY <1>9, <2>1
<1>11. after[new] = [key |-> key, value |-> value, next |-> after[new].next]
  <2> HIDE DEF own
  <2> QED BY <1>5, <1>8
<1> QED BY <1>7, <1>8, <1>10, <1>11 DEF SplicedIn

(* A node spliced in behind the predecessors of its key keeps the list as   *)
(* it should be.                                                            *)
LEMMA SplicedOK ==
  ASSUME NEW nodes, NodesOK(nodes), NEW key \in Keys, NEW value \in Vals,
         \A n \in DOMAIN nodes \ {Head0} : nodes[n].key # key,
         NEW update,
         \A i \in 1 .. MaxLevel :
            /\ update[i] \in Low(nodes, i, key)
            /\ nodes[update[i]].next[i] # Null
                 => ~Less(nodes[nodes[update[i]].next[i]].key, key),
         NEW new \in Nat, new \notin DOMAIN nodes, NEW lanes \in 1 .. MaxLevel, NEW after,
         after = Spliced(nodes, update, new, Node(key, value, lanes))
  PROVE  NodesOK(after)
<1>0. SplicedIn(nodes, key, value, update, new, lanes, after)
  BY SplicedAt
<1>1. /\ DOMAIN after = DOMAIN nodes \cup {new}
      /\ after[new] = [key |-> key, value |-> value, next |-> after[new].next]
      /\ DOMAIN after[new].next = 1 .. lanes
      /\ \A i \in 1 .. lanes : after[new].next[i] = nodes[update[i]].next[i]
  BY <1>0 DEF SplicedIn
<1>2. ASSUME NEW n \in DOMAIN nodes
      PROVE  /\ after[n] = [key |-> nodes[n].key, value |-> nodes[n].value,
                            next |-> after[n].next]
             /\ DOMAIN after[n].next = DOMAIN nodes[n].next
             /\ \A i \in DOMAIN nodes[n].next :
                  after[n].next[i] = IF i \in 1 .. lanes /\ update[i] = n
                                     THEN new ELSE nodes[n].next[i]
  BY <1>0 DEF SplicedIn
<1>3. /\ after[new].key = key /\ after[new].value = value
      /\ \A n \in DOMAIN nodes : after[n].key = nodes[n].key /\ after[n].value = nodes[n].value
  BY <1>1, <1>2
<1>4. Head0 \in DOMAIN nodes /\ new # Head0
  BY DEF NodesOK
<1>5. ASSUME NEW n \in DOMAIN nodes, NEW i
      PROVE  Above(after, n, i) =
               Above(nodes, n, i) \cup IF i \in 1 .. lanes /\ (n = Head0 \/ Less(nodes[n].key, key))
                                       THEN {new} ELSE {}
  <2>1. ASSUME NEW m \in DOMAIN nodes
        PROVE  m \in Above(after, n, i) <=> m \in Above(nodes, n, i)
    BY <1>1, <1>2, <1>3 DEF Above
  <2>2. new \in Above(after, n, i) <=> i \in 1 .. lanes /\ (n = Head0 \/ Less(nodes[n].key, key))
    BY <1>1, <1>3, <1>4 DEF Above
  <2>3. Above(after, n, i) \subseteq DOMAIN nodes \cup {new}
        /\ Above(nodes, n, i) \subseteq DOMAIN nodes
    BY <1>1 DEF Above
  <2> QED BY <2>1, <2>2, <2>3
<1>6. \A m \in DOMAIN nodes \ {Head0} : nodes[m].key \in Keys
  BY NodeKeys
<1>7. ASSUME NEW i \in 1 .. MaxLevel
      PROVE  /\ update[i] \in DOMAIN nodes /\ i \in DOMAIN nodes[update[i]].next
             /\ update[i] = Head0 \/ Less(nodes[update[i]].key, key)
             /\ \A m \in Above(nodes, update[i], i) : Less(key, nodes[m].key)
             /\ \A m \in DOMAIN nodes \ {Head0} :
                  i \in DOMAIN nodes[m].next /\ Less(key, nodes[m].key)
                    => m \in Above(nodes, update[i], i)
  <2> DEFINE u == update[i]
             s == nodes[u].next[i]
  <2>1. u \in OnLane(nodes, i) /\ (u = Head0 \/ Less(nodes[u].key, key))
        /\ (s # Null => ~Less(nodes[s].key, key))
    BY DEF Low
  <2>2. u \in DOMAIN nodes /\ i \in DOMAIN nodes[u].next
    BY <2>1 DEF OnLane
  <2>3. /\ s = Null => Above(nodes, u, i) = {}
        /\ s # Null => /\ s \in OnLane(nodes, i) \ {Head0}
                       /\ Above(nodes, u, i) = {s} \cup Above(nodes, s, i)
    BY <2>1, NextOnLane
  <2> HIDE DEF u, s
  <2>4. ASSUME NEW m \in Above(nodes, u, i) PROVE Less(key, nodes[m].key)
    <3>1. s # Null /\ s \in DOMAIN nodes \ {Head0}
      BY <2>3, <2>4 DEF OnLane
    <3>2. Less(key, nodes[s].key)
      BY <1>6, <2>1, <3>1, KeyOrder
    <3>3. CASE m = s
      BY <3>2, <3>3
    <3>4. CASE m # s
      <4>1. m \in DOMAIN nodes \ {Head0} /\ Less(nodes[s].key, nodes[m].key)
        BY <2>3, <2>4, <3>1, <3>4 DEF Above
      <4> QED BY <1>6, <3>1, <3>2, <4>1, KeyOrder
    <3> QED BY <3>3, <3>4
  <2>5. ASSUME NEW m \in DOMAIN nodes \ {Head0}, i \in DOMAIN nodes[m].next,
               Less(key, nodes[m].key)
        PROVE  m \in Above(nodes, u, i)
    <3>1. u = Head0 \/ Less(nodes[u].key, nodes[m].key)
      <4>1. CASE u = Head0
        BY <4>1
      <4>2. CASE u # Head0
        <5>1. nodes[u].key \in Keys /\ nodes[m].key \in Keys /\ Less(nodes[u].key, key)
          BY <1>6, <2>1, <2>2, <4>2
        <5> QED BY <2>5, <5>1, KeyOrder
      <4> QED BY <4>1, <4>2
    <3> QED BY <2>5, <3>1 DEF Above
  <2> QED BY <2>1, <2>2, <2>4, <2>5 DEF u
<1>8. lanes \in Nat /\ MaxLevel \in Nat /\ 1 .. lanes \subseteq 1 .. MaxLevel
  BY SkipListAssumption
<1>9. ASSUME NEW i \in 1 .. lanes PROVE Above(after, new, i) = Above(nodes, update[i], i)
  <2>1. i \in 1 .. MaxLevel
    BY <1>8
  <2>2. ~Less(key, key)
    BY KeyOrder
  <2>3. new \notin Above(after, new, i)
    BY <1>3, <1>4, <2>2 DEF Above
  <2>4. ASSUME NEW m \in DOMAIN nodes
        PROVE  m \in Above(after, new, i) <=> m \in Above(nodes, update[i], i)
    <3>1. m \in Above(after, new, i) <=>
            m # Head0 /\ i \in DOMAIN nodes[m].next /\ Less(key, nodes[m].key)
      BY <1>1, <1>2, <1>3, <1>4 DEF Above
    <3>2. m \in Above(nodes, update[i], i) => m # Head0 /\ i \in DOMAIN nodes[m].next
      BY DEF Above
    <3> QED BY <1>7, <2>1, <3>1, <3>2
  <2>5. Above(after, new, i) \subseteq DOMAIN nodes \cup {new}
        /\ Above(nodes, update[i], i) \subseteq DOMAIN nodes
    BY <1>1 DEF Above
  <2> QED BY <2>3, <2>4, <2>5
<1> DEFINE Right(n, i) == LET above == Above(after, n, i)
                              succ == after[n].next[i]
                          IN  IF above = {} THEN succ = Null
                              ELSE /\ succ \in above
                                   /\ \A m \in above \ {succ} : Less(after[succ].key, after[m].key)
<1>10. ASSUME NEW n \in DOMAIN nodes, NEW i \in DOMAIN nodes[n].next
       PROVE  LET above == Above(nodes, n, i)
                  succ == nodes[n].next[i]
              IN  /\ above \subseteq DOMAIN nodes
                  /\ IF above = {} THEN succ = Null
                     ELSE /\ succ \in above
                          /\ \A m \in above \ {succ} : Less(nodes[succ].key, nodes[m].key)
  BY DEF NodesOK, Linked, Above
<1>11. ASSUME NEW i \in 1 .. lanes PROVE Right(new, i)
  <2> DEFINE u == update[i]
             above == Above(nodes, u, i)
             s == nodes[u].next[i]
  <2>1. i \in 1 .. MaxLevel /\ u \in DOMAIN nodes /\ i \in DOMAIN nodes[u].next
    BY <1>7, <1>8
  <2>2. /\ above \subseteq DOMAIN nodes
        /\ IF above = {} THEN s = Null
           ELSE s \in above /\ \A m \in above \ {s} : Less(nodes[s].key, nodes[m].key)
    BY <1>10, <2>1
  <2>3. Above(after, new, i) = above /\ after[new].next[i] = s
    BY <1>1, <1>9
  <2> HIDE DEF above, s, u
  <2>4. IF above = {} THEN s = Null
        ELSE s \in above /\ \A m \in above \ {s} : Less(after[s].key, after[m].key)
    BY <1>3, <2>2
  <2> QED BY <2>3, <2>4
<1>12. ASSUME NEW n \in DOMAIN nodes, NEW i \in DOMAIN nodes[n].next PROVE Right(n, i)
  <2> DEFINE above == Above(nodes, n, i)
             s == nodes[n].next[i]
             low == n = Head0 \/ Less(nodes[n].key, key)
  <2>1. i \in 1 .. MaxLevel /\ n \in OnLane(nodes, i)
    BY LanesNested DEF OnLane
  <2>2. /\ above \subseteq DOMAIN nodes
        /\ IF above = {} THEN s = Null
           ELSE s \in above /\ \A m \in above \ {s} : Less(nodes[s].key, nodes[m].key)
    BY <1>10
  <2>3. after[n].next[i] = IF i \in 1 .. lanes /\ update[i] = n THEN new ELSE s
    BY <1>2
  <2>4. Above(after, n, i) = above \cup IF i \in 1 .. lanes /\ low THEN {new} ELSE {}
    BY <1>5
  <2>5. CASE ~(i \in 1 .. lanes /\ low)
    <3>1. after[n].next[i] = s /\ Above(after, n, i) = above
      BY <1>7, <2>1, <2>3, <2>4, <2>5
    <3> HIDE DEF above, s, low
    <3>2. IF above = {} THEN s = Null
          ELSE s \in above /\ \A m \in above \ {s} : Less(after[s].key, after[m].key)
      BY <1>3, <2>2
    <3> QED BY <3>1, <3>2
  <2>6. CASE i \in 1 .. lanes /\ low /\ update[i] = n
    <3>1. after[n].next[i] = new /\ Above(after, n, i) = above \cup {new}
      BY <2>3, <2>4, <2>6
    <3>2. \A m \in above : Less(key, nodes[m].key)
      BY <1>7, <2>1, <2>6
    <3> HIDE DEF above, s, low
    <3>3. \A m \in above : Less(after[new].key, after[m].key)
      BY <1>3, <2>2, <3>2
    <3> QED BY <3>1, <3>3
  <2>7. CASE i \in 1 .. lanes /\ low /\ update[i] # n
    <3> DEFINE u == update[i]
    <3>1. /\ u \in DOMAIN nodes /\ i \in DOMAIN nodes[u].next
          /\ u = Head0 \/ Less(nodes[u].key, key)
          /\ \A m \in Above(nodes, u, i) : Less(key, nodes[m].key)
      BY <1>7, <2>1
    <3>2. n \notin Above(nodes, u, i)
      <4> SUFFICES ASSUME n \in Above(nodes, u, i) PROVE FALSE
        OBVIOUS
      <4>1. Less(key, nodes[n].key) /\ n # Head0
        BY <3>1 DEF Above
      <4>2. Less(nodes[n].key, key) /\ nodes[n].key \in Keys
        BY <1>6, <2>7, <4>1
      <4> QED BY <4>1, <4>2, KeyOrder
    <3>3. u \in above
      <4>1. CASE n = Head0
        <5>1. u # Head0
          BY <2>7, <4>1
        <5> QED BY <3>1, <4>1, <5>1 DEF Above
      <4>2. CASE n # Head0
        <5>1. u # Head0 /\ ~Less(nodes[u].key, nodes[n].key)
          BY <3>2, <4>2 DEF Above
        <5>2. nodes[u].key # nodes[n].key
          BY <2>7, <3>1, <4>2, <5>1 DEF NodesOK
        <5>3. Less(nodes[n].key, nodes[u].key)
          BY <1>6, <3>1, <4>2, <5>1, <5>2, KeyOrder
        <5> QED BY <3>1, <5>1, <5>3 DEF Above
      <4> QED BY <4>1, <4>2
    <3>4. s \in above /\ s \in DOMAIN nodes \ {Head0}
          /\ \A m \in above \ {s} : Less(nodes[s].key, nodes[m].key)
      <4>1. above \subseteq DOMAIN nodes \ {Head0}
        BY DEF Above
      <4> HIDE DEF above, s
      <4> QED BY <2>2, <3>3, <4>1
    <3>5. Less(nodes[s].key, key)
      <4>1. u # Head0
        BY <3>3 DEF Above
      <4>2. CASE s = u
        <5> HIDE DEF s, u
        <5> QED BY <3>1, <4>1, <4>2
      <4>3. CASE s # u
        <5>1. Less(nodes[s].key, nodes[u].key) /\ Less(nodes[u].key, key)
          BY <3>1, <3>3, <3>4, <4>1, <4>3
        <5>2. nodes[s].key \in Keys /\ nodes[u].key \in Keys
          BY <1>6, <3>1, <3>4, <4>1
        <5> QED BY <5>1, <5>2, KeyOrder
      <4> QED BY <4>2, <4>3
    <3>6. after[n].next[i] = s /\ Above(after, n, i) = above \cup {new}
      BY <2>3, <2>4, <2>7
    <3> HIDE DEF above, s, low, u
    <3>7. s \in above /\ \A m \in (above \cup {new}) \ {s} : Less(after[s].key, after[m].key)
      BY <1>3, <2>2, <3>4, <3>5
    <3> QED BY <3>6, <3>7
  <2> HIDE DEF Right
  <2> QED BY <2>5, <2>6, <2>7
<1>13. Linked(after)
  <2>1. ASSUME NEW n \in DOMAIN after, NEW i \in DOMAIN after[n].next PROVE Right(n, i)
    <3> HIDE DEF Right
    <3> QED BY <1>1, <1>2, <1>11, <1>12
  <2> QED BY <2>1 DEF Linked
<1>14. DOMAIN after \subseteq Nat /\ IsFiniteSet(DOMAIN after) /\ Head0 \in DOMAIN after
  <2>1. IsFiniteSet(DOMAIN nodes) /\ DOMAIN nodes \subseteq Nat
    BY DEF NodesOK
  <2>2. IsFiniteSet(DOMAIN nodes \cup {new})
    BY <2>1, FS_AddElement
  <2> QED BY <1>1, <1>4, <2>1, <2>2
<1>15. ASSUME NEW n \in DOMAIN after
       PROVE  /\ after[n] = [key |-> after[n].key, value |-> after[n].value,
                             next |-> after[n].next]
              /\ \E k \in 1 .. MaxLevel : DOMAIN after[n].next = 1 .. k
              /\ n # Head0 => after[n].key \in Keys /\ after[n].value \in Vals
  <2>1. CASE n = new
    BY <1>1, <1>3, <2>1
  <2>2. CASE n \in DOMAIN nodes
    <3>1. \E k \in 1 .. MaxLevel : DOMAIN nodes[n].next = 1 .. k
      BY <2>2 DEF NodesOK
    <3>2. n # Head0 => nodes[n].key \in Keys /\ nodes[n].value \in Vals
      BY <2>2, NodeKeys
    <3> QED BY <1>2, <1>3, <2>2, <3>1, <3>2
  <2> QED BY <1>1, <2>1, <2>2
<1>16. DOMAIN after[Head0].next = 1 .. MaxLevel
  <2>1. DOMAIN nodes[Head0].next = 1 .. MaxLevel
    BY DEF NodesOK
  <2> QED BY <1>2, <1>4, <2>1
<1>17. ASSUME NEW m \in DOMAIN after \ {Head0}, NEW n \in DOMAIN after \ {Head0},
              after[m].key = after[n].key
       PROVE  m = n
  <2>1. \A x, y \in DOMAIN nodes \ {Head0} : nodes[x].key = nodes[y].key => x = y
    BY DEF NodesOK
  <2> QED BY <1>1, <1>3, <1>17, <2>1
<1> QED BY <1>13, <1>14, <1>15, <1>16, <1>17 DEF NodesOK

(* The Max of a set of numbers from 0 .. n is its greatest member.          *)
LEMMA MaxIsGreatest ==
  ASSUME NEW n \in Nat, NEW T, T \subseteq 0 .. n, T # {}
  PROVE  Max(T) \in T /\ \A k \in T : Max(T) >= k
<1>1. \E m \in T : \A k \in T : m >= k
  BY GreatestUpTo
<1> QED BY <1>1 DEF Max

(* A level drawn at random is one of the lanes.                             *)
LEMMA LevelDrawn ==
  ASSUME NEW w \in Words
  PROVE  RandomLevel(w) \in 0 .. MaxLevel - 1
<1> DEFINE bits == IF w % 2 = 0 THEN w + 1 ELSE w
           T == {z \in 0 .. bits : \A i \in 0 .. z - 1 : Shifted(bits, bits, 2)[i] % 2 = 0}
           z == TrailingZeros(bits)
<1>1. bits \in Nat /\ MaxLevel - 1 \in Nat /\ MaxLevel \in Nat
  BY SkipListAssumption
<1>2. RandomLevel(w) = Min({z, MaxLevel - 1})
  BY DEF RandomLevel
<1>3. z = Max(T)
  BY DEF TrailingZeros
<1> HIDE DEF bits, z
<1>4. T \subseteq 0 .. bits /\ 0 \in T
  BY <1>1
<1> HIDE DEF T
<1>5. Max(T) \in T
  BY <1>1, <1>4, MaxIsGreatest
<1>6. z \in Nat
  <2>1. z \in 0 .. bits
    BY <1>3, <1>4, <1>5
  <2> QED BY <1>1, <2>1
<1>7. {z, MaxLevel - 1} \subseteq Nat
  BY <1>1, <1>6
<1>8. CASE z <= MaxLevel - 1
  <2>1. \A k \in {z, MaxLevel - 1} : z <= k
    BY <1>1, <1>6, <1>8
  <2>2. Min({z, MaxLevel - 1}) = z
    BY <1>7, <2>1, LeastIsMin
  <2> QED BY <1>1, <1>2, <1>6, <1>8, <2>2
<1>9. CASE ~(z <= MaxLevel - 1)
  <2>1. \A k \in {z, MaxLevel - 1} : MaxLevel - 1 <= k
    BY <1>1, <1>6, <1>9
  <2>2. Min({z, MaxLevel - 1}) = MaxLevel - 1
    BY <1>7, <2>1, LeastIsMin
  <2> QED BY <1>1, <1>2, <1>6, <1>9, <2>2
<1> QED BY <1>8, <1>9

(* There is an address for a new node.                                      *)
LEMMA AddressFree ==
  ASSUME NEW nodes, NodesOK(nodes),
         NEW new, new = Min((1 .. Cardinality(DOMAIN nodes)) \ DOMAIN nodes)
  PROVE  new \in Nat /\ new \notin DOMAIN nodes
<1> DEFINE D == DOMAIN nodes
           N == Cardinality(D)
           T == (1 .. N) \ D
<1>1. IsFiniteSet(D) /\ Head0 \in D
  BY DEF NodesOK
<1> HIDE DEF D
<1>2. N \in Nat
  BY <1>1, FS_CardinalityType
<1>3. T # {}
  <2> SUFFICES ASSUME 1 .. N \subseteq D PROVE FALSE
    OBVIOUS
  <2>1. 0 .. N \subseteq D
    <3> HIDE DEF N
    <3> QED BY <1>1, <1>2 DEF Head0
  <2>2. Cardinality(0 .. N) <= Cardinality(D)
    BY <1>1, <2>1, FS_Subset
  <2>3. 0 \in Int /\ N \in Int
    BY <1>2
  <2>4. Cardinality(0 .. N) = IF 0 > N THEN 0 ELSE N - 0 + 1
    BY <2>3, FS_Interval
  <2>5. N + 1 <= N
    <3>1. Cardinality(0 .. N) <= N
      BY <2>2 DEF N
    <3> HIDE DEF N
    <3> QED BY <1>2, <2>4, <3>1
  <2> HIDE DEF N
  <2> QED BY <1>2, <2>5
<1>4. T \subseteq Nat
  <2> HIDE DEF N
  <2> QED BY <1>2
<1>5. PICK i \in T : \A k \in T : i <= k
  <2> HIDE DEF T
  <2> QED BY <1>3, <1>4, LeastNat
<1>6. Min(T) = i
  <2> HIDE DEF T
  <2> QED BY <1>4, <1>5, LeastIsMin
<1>7. new = Min(T)
  BY DEF D
<1> QED BY <1>4, <1>5, <1>6, <1>7 DEF D

(* An empty list.                                                           *)
LEMMA NewListOK ==
  /\ ListOK(NewList) /\ DOMAIN NewList.nodes = {Head0} /\ NewList.size = ListSize
  /\ \A k : Values(NewList, k) = {}
<1> DEFINE nodes == NewList.nodes
           empty == Node(<< >>, << >>, MaxLevel)
<1>1. nodes = [n \in {Head0} |-> empty] /\ NewList = [nodes |-> nodes, size |-> ListSize]
  BY DEF NewList
<1>2. DOMAIN nodes = {Head0} /\ nodes[Head0] = empty
  <2> HIDE DEF empty, nodes
  <2> QED BY <1>1
<1>3. /\ empty = [key |-> empty.key, value |-> empty.value, next |-> empty.next]
      /\ DOMAIN empty.next = 1 .. MaxLevel /\ \A i \in 1 .. MaxLevel : empty.next[i] = Null
  BY DEF Node
<1> HIDE DEF empty, nodes
<1>4. \A n, i : Above(nodes, n, i) = {}
  BY <1>2 DEF Above
<1>5. Linked(nodes)
  BY <1>2, <1>3, <1>4 DEF Linked
<1>6. MaxLevel \in 1 .. MaxLevel /\ ListSize \in Nat /\ Head0 \in Nat
  BY SkipListAssumption DEF Head0
<1>7. IsFiniteSet({Head0})
  BY FS_Singleton
<1>8. NodesOK(nodes)
  BY <1>2, <1>3, <1>5, <1>6, <1>7 DEF NodesOK
<1>9. NewList.size = ListSize
  BY <1>1
<1>10. ListOK(NewList)
  <2>1. ~(ListSize > ListSize) /\ ListSize >= ListSize
    BY <1>6
  <2> QED BY <1>1, <1>2, <1>6, <1>8, <1>9, <2>1 DEF ListOK, nodes
<1>11. \A k : Values(NewList, k) = {}
  BY <1>2 DEF Values, nodes
<1> QED BY <1>2, <1>9, <1>10, <1>11 DEF nodes

(* An insert over an existing key: only the value of its node is new.       *)
LEMMA Upserted ==
  ASSUME NEW nodes, NodesOK(nodes), NEW key \in Keys, NEW value \in Vals,
         NEW old \in DOMAIN nodes \ {Head0}, nodes[old].key = key,
         NEW after, after = [nodes EXCEPT ![old].value = value]
  PROVE  /\ NodesOK(after) /\ DOMAIN after = DOMAIN nodes
         /\ \A n \in DOMAIN nodes : /\ after[n].key = nodes[n].key
                                    /\ after[n].value = IF n = old THEN value ELSE nodes[n].value
<1>1. nodes = [n \in DOMAIN nodes |-> nodes[n]] => DOMAIN after = DOMAIN nodes
  OBVIOUS
<1>2. DOMAIN after = DOMAIN nodes
  OBVIOUS
<1>3. ASSUME NEW n \in DOMAIN nodes
      PROVE  /\ after[n] = [key |-> after[n].key, value |-> after[n].value,
                            next |-> after[n].next]
             /\ after[n].key = nodes[n].key /\ after[n].next = nodes[n].next
             /\ after[n].value = IF n = old THEN value ELSE nodes[n].value
  <2>1. nodes[n] = [key |-> nodes[n].key, value |-> nodes[n].value, next |-> nodes[n].next]
    BY DEF NodesOK
  <2>2. CASE n # old
    <3>1. after[n] = nodes[n]
      BY <2>2
    <3> QED BY <2>1, <2>2, <3>1
  <2>3. CASE n = old
    <3>1. after[n] = [nodes[n] EXCEPT !.value = value]
      BY <2>3
    <3>2. after[n] = [key |-> nodes[n].key, value |-> value, next |-> nodes[n].next]
      BY <2>1, <3>1
    <3> QED BY <2>3, <3>2
  <2> QED BY <2>2, <2>3
<1>4. \A n \in DOMAIN nodes : n # Head0 => after[n].value \in Vals
  BY <1>3, NodeKeys
<1>5. NodesOK(after)
  BY <1>2, <1>3, <1>4, SameShape
<1> QED BY <1>2, <1>3, <1>5

(* insert keeps a list as it should be, and gives the key its new value and *)
(* no other key another one.                                                *)
LEMMA InsertKeeps ==
  ASSUME NEW list, ListOK(list), NEW key \in Keys, NEW value \in Vals,
         NEW level \in 0 .. MaxLevel - 1, NEW l2, l2 = Insert(list, key, value, level)
  PROVE  /\ ListOK(l2) /\ DOMAIN l2.nodes # {Head0}
         /\ Values(l2, key) = {value}
         /\ \A k \in Keys : k # key => Values(l2, k) = Values(list, k)
<1> DEFINE nodes == list.nodes
           new == Min((1 .. Cardinality(DOMAIN nodes)) \ DOMAIN nodes)
           old == Ceiling(nodes, key)
           update == Predecessors(nodes, key)
           node == Node(key, value, level + 1)
           grown == Spliced(nodes, update, new, node)
           more == list.size + Len(key) + Len(value) + (level + 1) * PointerSize + NodeSize
<1>1. /\ NodesOK(nodes) /\ list.size \in Nat /\ list.size >= ListSize
      /\ list = [nodes |-> nodes, size |-> list.size]
      /\ list.size > ListSize <=> DOMAIN nodes # {Head0}
  BY DEF ListOK
<1>2. l2 = IF old # Null /\ nodes[old].key = key
           THEN [list EXCEPT !.nodes = [nodes EXCEPT ![old].value = value]]
           ELSE [nodes |-> grown, size |-> more]
  BY DEF Insert, Overwritten
<1>3. \A l : Values(l, key) = {l.nodes[n].value : n \in {m \in DOMAIN l.nodes \ {Head0} :
                                                            l.nodes[m].key = key}}
  BY DEF Values
<1>4. \A l, k : Values(l, k) = {l.nodes[n].value : n \in {m \in DOMAIN l.nodes \ {Head0} :
                                                             l.nodes[m].key = k}}
  BY DEF Values
<1>5. /\ old = Null => \A n \in DOMAIN nodes \ {Head0} : Less(nodes[n].key, key)
      /\ old # Null => /\ old \in DOMAIN nodes \ {Head0} /\ ~Less(nodes[old].key, key)
                       /\ \A n \in DOMAIN nodes \ {Head0} :
                            ~Less(nodes[n].key, key) <=> n = old \/ n \in Above(nodes, old, 1)
  BY <1>1, CeilingFound
<1>6. \A m, n \in DOMAIN nodes \ {Head0} : nodes[m].key = nodes[n].key => m = n
  BY <1>1 DEF NodesOK
<1>7. Head0 \in DOMAIN nodes
  BY <1>1 DEF NodesOK
<1>8. CASE old # Null /\ nodes[old].key = key
  <2> DEFINE after == [nodes EXCEPT ![old].value = value]
  <2>1. old \in DOMAIN nodes \ {Head0}
    BY <1>5, <1>8
  <2> HIDE DEF nodes, old
  <2>2. l2 = [nodes |-> after, size |-> list.size]
    <3> HIDE DEF after
    <3>1. l2 = [list EXCEPT !.nodes = after]
      BY <1>2, <1>8 DEF after
    <3> QED BY <1>1, <3>1
  <2>3. /\ NodesOK(after) /\ DOMAIN after = DOMAIN nodes
        /\ \A n \in DOMAIN nodes :
              /\ after[n].key = nodes[n].key
              /\ after[n].value = IF n = old THEN value ELSE nodes[n].value
    BY <1>1, <1>8, <2>1, Upserted
  <2> HIDE DEF after
  <2>4. l2.nodes = after /\ l2.size = list.size
    BY <2>2
  <2>5. DOMAIN nodes # {Head0}
    BY <2>1
  <2>6. ListOK(l2)
    BY <1>1, <2>2, <2>3, <2>4 DEF ListOK
  <2>7. {m \in DOMAIN after \ {Head0} : after[m].key = key} = {old}
    BY <1>6, <1>8, <2>1, <2>3
  <2>8. Values(l2, key) = {value}
    <3>1. after[old].value = value
      BY <2>1, <2>3
    <3> QED BY <1>4, <2>4, <2>7, <3>1
  <2>9. ASSUME NEW k \in Keys, k # key PROVE Values(l2, k) = Values(list, k)
    <3> DEFINE at == {m \in DOMAIN nodes \ {Head0} : nodes[m].key = k}
    <3>1. {m \in DOMAIN after \ {Head0} : after[m].key = k} = at
      BY <2>3
    <3>2. \A n \in at : after[n].value = nodes[n].value
      BY <1>8, <2>3, <2>9
    <3> HIDE DEF at
    <3>3. {after[n].value : n \in at} = {nodes[n].value : n \in at}
      BY <3>2
    <3>4. Values(l2, k) = {after[n].value : n \in at}
      BY <1>4, <2>4, <3>1
    <3>5. Values(list, k) = {nodes[n].value : n \in at}
      BY <1>4 DEF at, nodes
    <3> QED BY <3>3, <3>4, <3>5
  <2> QED BY <2>3, <2>4, <2>5, <2>6, <2>8, <2>9
<1>9. CASE ~(old # Null /\ nodes[old].key = key)
  <2>1. l2 = [nodes |-> grown, size |-> more]
    <3> HIDE DEF grown, more, old, nodes
    <3> QED BY <1>2, <1>9
  <2>2. ASSUME NEW n \in DOMAIN nodes \ {Head0} PROVE nodes[n].key # key
    <3> SUFFICES ASSUME nodes[n].key = key PROVE FALSE
      OBVIOUS
    <3>1. ~Less(nodes[n].key, key)
      BY KeyOrder
    <3>2. old # Null /\ (n = old \/ n \in Above(nodes, old, 1))
      BY <1>5, <3>1
    <3>3. old # Head0 /\ Less(nodes[old].key, nodes[n].key)
      <4>1. n # old
        BY <1>9, <3>2
      <4> QED BY <1>5, <3>2, <4>1 DEF Above
    <3> QED BY <1>5, <3>2, <3>3
  <2>3. new \in Nat /\ new \notin DOMAIN nodes
    BY <1>1, AddressFree
  <2>4. level + 1 \in 1 .. MaxLevel
    BY SkipListAssumption
  <2>5. \A i \in 1 .. MaxLevel :
            /\ update[i] \in Low(nodes, i, key)
            /\ nodes[update[i]].next[i] # Null
                 => ~Less(nodes[nodes[update[i]].next[i]].key, key)
    BY <1>1, PredecessorsFound
  <2> HIDE DEF update, new, nodes
  <2>6. NodesOK(grown)
    BY <1>1, <2>2, <2>3, <2>4, <2>5, SplicedOK
  <2>7. SplicedIn(nodes, key, value, update, new, level + 1, grown)
    BY <1>1, <2>3, <2>4, SplicedAt
  <2> HIDE DEF grown
  <2>8. /\ DOMAIN grown = DOMAIN nodes \cup {new}
        /\ grown[new] = [key |-> key, value |-> value, next |-> grown[new].next]
        /\ \A n \in DOMAIN nodes :
             grown[n] = [key |-> nodes[n].key, value |-> nodes[n].value, next |-> grown[n].next]
    BY <2>7 DEF SplicedIn
  <2>9. /\ grown[new].key = key /\ grown[new].value = value
        /\ \A n \in DOMAIN nodes : grown[n].key = nodes[n].key /\ grown[n].value = nodes[n].value
    BY <2>8
  <2>10. more \in Nat /\ more > ListSize
    <3>1. Len(key) \in Nat /\ Len(value) \in Nat
      BY KeysAreBytes, LenProperties
    <3>2. (level + 1) * PointerSize \in Nat /\ NodeSize \in Nat \ {0} /\ ListSize \in Nat
      BY SkipListAssumption
    <3> DEFINE a == Len(key)
               b == Len(value)
               c == (level + 1) * PointerSize
               s == list.size
    <3> HIDE DEF a, b, c, s
    <3>3. a \in Nat /\ b \in Nat /\ c \in Nat /\ s \in Nat /\ s >= ListSize
      BY <1>1, <3>1, <3>2 DEF a, b, c, s
    <3>4. s + a + b + c + NodeSize \in Nat /\ s + a + b + c + NodeSize > ListSize
      BY <3>2, <3>3
    <3> QED BY <3>4 DEF a, b, c, s
  <2> HIDE DEF more
  <2>11. l2.nodes = grown /\ l2.size = more
    BY <2>1
  <2>12. DOMAIN grown # {Head0}
    BY <1>7, <2>3, <2>8
  <2>13. ListOK(l2)
    <3>1. ListSize \in Nat
      BY SkipListAssumption
    <3>2. more >= ListSize
      BY <2>10, <3>1
    <3> QED BY <2>1, <2>6, <2>10, <2>11, <2>12, <3>2 DEF ListOK
  <2>14. Values(l2, key) = {value}
    <3>1. {m \in DOMAIN grown \ {Head0} : grown[m].key = key} = {new}
      BY <1>7, <2>2, <2>3, <2>8, <2>9
    <3> QED BY <1>4, <2>9, <2>11, <3>1
  <2>15. ASSUME NEW k \in Keys, k # key PROVE Values(l2, k) = Values(list, k)
    <3> DEFINE at == {m \in DOMAIN nodes \ {Head0} : nodes[m].key = k}
    <3>1. {m \in DOMAIN grown \ {Head0} : grown[m].key = k} = at
      BY <2>8, <2>9, <2>15
    <3>2. \A n \in at : grown[n].value = nodes[n].value
      BY <2>9
    <3> HIDE DEF at
    <3>3. {grown[n].value : n \in at} = {nodes[n].value : n \in at}
      BY <3>2
    <3>4. Values(l2, k) = {grown[n].value : n \in at}
      BY <1>4, <2>11, <3>1
    <3>5. Values(list, k) = {nodes[n].value : n \in at}
      BY <1>4 DEF at, nodes
    <3> QED BY <3>3, <3>4, <3>5
  <2> QED BY <2>11, <2>12, <2>13, <2>14, <2>15
<1> QED BY <1>8, <1>9

(* A sequence with one more element.                                        *)
LEMMA Appended ==
  ASSUME NEW S, NEW a \in Seq(S), NEW x \in S
  PROVE  /\ Append(a, x) \in Seq(S) /\ Len(Append(a, x)) = Len(a) + 1 /\ Len(a) \in Nat
         /\ \A i \in 1 .. Len(a) : Append(a, x)[i] = a[i]
         /\ Append(a, x)[Len(a) + 1] = x
         /\ Range(Append(a, x)) = Range(a) \cup {x}
<1> DEFINE b == Append(a, x)
<1>1. b \in Seq(S) /\ Len(b) = Len(a) + 1 /\ Len(a) \in Nat
  OBVIOUS
<1>2. \A i \in 1 .. Len(a) : b[i] = a[i]
  OBVIOUS
<1>3. b[Len(a) + 1] = x
  OBVIOUS
<1>4. DOMAIN b = 1 .. Len(a) + 1 /\ DOMAIN a = 1 .. Len(a)
  BY <1>1
<1>5. Range(b) = {b[i] : i \in DOMAIN b} /\ Range(a) = {a[i] : i \in DOMAIN a}
  BY DEF Range
<1>6. \A i \in 1 .. Len(a) + 1 : i \in 1 .. Len(a) \/ i = Len(a) + 1
  BY <1>1
<1>7. 1 .. Len(a) \subseteq 1 .. Len(a) + 1 /\ Len(a) + 1 \in 1 .. Len(a) + 1
  BY <1>1
<1>8. Range(b) = Range(a) \cup {x}
  <2> DEFINE n == Len(a) + 1
  <2> HIDE DEF n
  <2>1. DOMAIN b = 1 .. n /\ b[n] = x /\ n \in 1 .. n
    BY <1>3, <1>4, <1>7 DEF n
  <2>2. \A i \in 1 .. n : i \in 1 .. Len(a) \/ i = n
    BY <1>6 DEF n
  <2>3. 1 .. Len(a) \subseteq 1 .. n
    BY <1>7 DEF n
  <2>4. Range(b) = {b[i] : i \in 1 .. n} /\ Range(a) = {a[i] : i \in 1 .. Len(a)}
    BY <1>4, <1>5, <2>1
  <2> QED BY <1>2, <2>1, <2>2, <2>3, <2>4
<1> QED BY <1>1, <1>2, <1>3, <1>8

(* What retain leaves: the members that are kept, in the order they were,   *)
(* whatever that order is.                                                  *)
LEMMA RetainKeeps ==
  ASSUME NEW S, NEW seq \in Seq(S), NEW kept, NEW r, r = Retain(seq, kept)
  PROVE  /\ r \in Seq(S) /\ Range(r) = Range(seq) \cap kept
         /\ \A R : (\A i, j \in 1 .. Len(seq) : i < j => << seq[i], seq[j] >> \in R)
                     => \A i, j \in 1 .. Len(r) : i < j => << r[i], r[j] >> \in R
<1> DEFINE N == Len(seq)
           StepOf(x, n) == IF seq[n] \in kept THEN Append(x, seq[n]) ELSE x
           g == [n \in 1 .. N |-> [x \in Seq(S) |-> StepOf(x, n)]]
           left == Retained(seq, kept)
<1>1. N \in Nat /\ DOMAIN seq = 1 .. N /\ \A n \in 1 .. N : seq[n] \in S
  OBVIOUS
<1>2. << >> \in Seq(S)
  OBVIOUS
<1> HIDE DEF N
<1>3. ASSUME NEW n \in 1 .. N, NEW x \in Seq(S) PROVE StepOf(x, n) \in Seq(S)
  BY <1>1, AppendProperties
<1>4. g \in [1 .. N -> [Seq(S) -> Seq(S)]]
  <2> HIDE DEF StepOf
  <2> QED BY <1>3
<1>5. PICK f \in [0 .. N -> Seq(S)] : Recurs(f, N, << >>, g)
  <2> HIDE DEF g
  <2> QED BY <1>1, <1>2, <1>4, RecursExists
<1>6. f = [n \in 0 .. N |-> IF n = 0 THEN << >> ELSE StepOf(f[n - 1], n)]
  <2>1. ASSUME NEW n \in 0 .. N, n # 0 PROVE g[n][f[n - 1]] = StepOf(f[n - 1], n)
    <3>1. n \in 1 .. N /\ n - 1 \in 0 .. N
      BY <1>1, <2>1
    <3> HIDE DEF StepOf
    <3> QED BY <1>5, <3>1
  <2> HIDE DEF StepOf, g
  <2> QED BY <1>5, <2>1 DEF Recurs
<1>7. left = CHOOSE t : t = [n \in 0 .. N |-> IF n = 0 THEN << >> ELSE StepOf(t[n - 1], n)]
  BY DEF Retained, N
<1>8. left = [n \in 0 .. N |-> IF n = 0 THEN << >> ELSE StepOf(left[n - 1], n)]
  <2> HIDE DEF StepOf, left
  <2> QED BY <1>6, <1>7
<1>9. left[0] = << >> /\ \A n \in 1 .. N : left[n] = StepOf(left[n - 1], n)
  <2>1. 0 \in 0 .. N /\ \A n \in 1 .. N : n \in 0 .. N /\ n # 0
    BY <1>1
  <2> HIDE DEF StepOf, left
  <2> QED BY <1>8, <2>1
<1>10. r = left[N]
  BY DEF Retain, N
<1> HIDE DEF left
<1> DEFINE Seen(n) == {seq[i] : i \in 1 .. n}
           T == {n \in 0 .. N : /\ left[n] \in Seq(S) /\ Range(left[n]) = Seen(n) \cap kept}
<1>11. 0 \in T
  <2>1. Range(<< >>) = {}
    BY DEF Range
  <2>2. Seen(0) = {}
    OBVIOUS
  <2>3. left[0] \in Seq(S) /\ Range(left[0]) = Seen(0) \cap kept
    <3> HIDE DEF Seen
    <3> QED BY <1>2, <1>9, <2>1, <2>2
  <2>4. 0 \in 0 .. N
    BY <1>1
  <2> HIDE DEF Seen
  <2> QED BY <2>3, <2>4
<1>12. ASSUME NEW n \in 1 .. N, n - 1 \in T PROVE n \in T
  <2>1. Seen(n) = Seen(n - 1) \cup {seq[n]}
    <3>1. \A i : i \in 1 .. n <=> i \in 1 .. n - 1 \/ i = n
      BY <1>1
    <3> QED BY <3>1
  <2>2. left[n - 1] \in Seq(S) /\ Range(left[n - 1]) = Seen(n - 1) \cap kept /\ seq[n] \in S
    BY <1>1, <1>12
  <2> HIDE DEF Seen
  <2>3. CASE seq[n] \in kept
    <3>1. left[n] = Append(left[n - 1], seq[n])
      BY <1>9, <2>3
    <3> DEFINE l == left[n - 1]
               x == seq[n]
               b == left[n]
    <3>2. b \in Seq(S) /\ Range(b) = Range(l) \cup {x}
      <4>1. l \in Seq(S) /\ x \in S /\ b = Append(l, x)
        BY <2>2, <3>1
      <4> HIDE DEF l, x, b
      <4>2. b \in Seq(S)
        BY <4>1, Appended
      <4>3. Range(b) = Range(l) \cup {x}
        BY <4>1, Appended
      <4> QED BY <4>2, <4>3
    <3> QED BY <1>1, <2>1, <2>2, <2>3, <3>2
  <2>4. CASE seq[n] \notin kept
    <3>1. left[n] = left[n - 1]
      BY <1>9, <2>4
    <3> QED BY <1>1, <2>1, <2>2, <2>4, <3>1
  <2> QED BY <2>3, <2>4
<1>13. 0 .. N \subseteq T
  <2> HIDE DEF T
  <2> QED BY <1>1, <1>11, <1>12, UpTo
<1>14. r \in Seq(S) /\ Range(r) = Range(seq) \cap kept
  <2>1. N \in T
    <3> HIDE DEF T
    <3> QED BY <1>1, <1>13
  <2>2. Range(seq) = Seen(N)
    <3>1. Range(seq) = {seq[i] : i \in DOMAIN seq}
      BY DEF Range
    <3> QED BY <1>1, <3>1
  <2> HIDE DEF Seen
  <2> QED BY <1>10, <2>1, <2>2
<1>15. ASSUME NEW R, \A i, j \in 1 .. N : i < j => << seq[i], seq[j] >> \in R
       PROVE  \A i, j \in 1 .. Len(r) : i < j => << r[i], r[j] >> \in R
  <2> DEFINE Pairs(l) == \A i, j \in 1 .. Len(l) : i < j => << l[i], l[j] >> \in R
             U == {n \in 0 .. N : Pairs(left[n])}
  <2>1. 0 \in U
    <3>1. Len(left[0]) = 0
      BY <1>9
    <3> QED BY <1>1, <3>1
  <2>2. ASSUME NEW n \in 1 .. N, n - 1 \in U PROVE n \in U
    <3> DEFINE l == left[n - 1]
    <3>1. l \in Seq(S) /\ Range(l) = Seen(n - 1) \cap kept /\ seq[n] \in S /\ Pairs(l)
      <4>1. n - 1 \in T
        <5> HIDE DEF T
        <5>1. n - 1 \in 0 .. N
          BY <1>1
        <5> QED BY <1>13, <5>1
      <4> HIDE DEF Seen, Pairs
      <4> QED BY <1>1, <2>2, <4>1
    <3> HIDE DEF l
    <3>2. \A i \in 1 .. Len(l) : << l[i], seq[n] >> \in R
      <4> TAKE i \in 1 .. Len(l)
      <4>1. l[i] \in Range(l)
        BY <3>1 DEF Range
      <4>2. l[i] \in Seen(n - 1)
        BY <3>1, <4>1
      <4>3. PICK x \in 1 .. n - 1 : l[i] = seq[x]
        BY <4>2
      <4>4. x \in 1 .. N /\ x < n
        BY <1>1
      <4> QED BY <1>15, <4>3, <4>4
    <3>3. CASE seq[n] \in kept
      <4> DEFINE b == Append(l, seq[n])
      <4>1. left[n] = b
        BY <1>9, <3>3 DEF l
      <4>2. /\ Len(b) = Len(l) + 1 /\ Len(l) \in Nat /\ b[Len(l) + 1] = seq[n]
            /\ \A i \in 1 .. Len(l) : b[i] = l[i]
        BY <3>1, Appended
      <4> HIDE DEF b
      <4>3. Pairs(b)
        <5> SUFFICES ASSUME NEW i \in 1 .. Len(b), NEW j \in 1 .. Len(b), i < j
                     PROVE  << b[i], b[j] >> \in R
          OBVIOUS
        <5>1. i \in 1 .. Len(l) /\ b[i] = l[i]
          BY <4>2
        <5>2. CASE j = Len(l) + 1
          BY <3>2, <4>2, <5>1, <5>2
        <5>3. CASE j # Len(l) + 1
          <6>1. j \in 1 .. Len(l) /\ b[j] = l[j]
            <7>1. j \in 1 .. Len(l) + 1 /\ Len(l) \in Nat
              BY <4>2
            <7>2. j \in 1 .. Len(l)
              BY <5>3, <7>1
            <7> QED BY <4>2, <7>2
          <6> QED BY <3>1, <5>1, <6>1
        <5> QED BY <5>2, <5>3
      <4> HIDE DEF Pairs
      <4> QED BY <1>1, <4>1, <4>3
    <3>4. CASE seq[n] \notin kept
      <4>1. left[n] = l
        BY <1>9, <3>4 DEF l
      <4> HIDE DEF Pairs
      <4> QED BY <1>1, <3>1, <4>1
    <3> QED BY <3>3, <3>4
  <2>3. 0 .. N \subseteq U
    <3> HIDE DEF U
    <3> QED BY <1>1, <2>1, <2>2, UpTo
  <2>4. Pairs(left[N])
    <3> HIDE DEF Pairs
    <3> QED BY <1>1, <2>3
  <2> QED BY <1>10, <2>4
<1> QED BY <1>14, <1>15 DEF N

(* Of two sequences of entries in strict key order with the same members,   *)
(* one begins as the other does ...                                         *)
LEMMA SortedBegin ==
  ASSUME NEW a \in Seq(Keys \X Vals), NEW b \in Seq(Keys \X Vals),
         InKeyOrder(a), InKeyOrder(b), Range(a) = Range(b)
  PROVE  Len(a) <= Len(b) /\ \A i \in 1 .. Len(a) : a[i] = b[i]
<1> DEFINE m == Len(a)
           n == Len(b)
           Same(i) == i <= n /\ a[i] = b[i]
           T == {i \in 0 .. m : \A j \in 1 .. i : Same(j)}
<1>1. /\ m \in Nat /\ n \in Nat /\ DOMAIN a = 1 .. m /\ DOMAIN b = 1 .. n
  OBVIOUS
<1>2. /\ \A i \in 1 .. m : a[i] \in Keys \X Vals
      /\ \A i \in 1 .. n : b[i] \in Keys \X Vals
  OBVIOUS
<1>3. /\ \A i \in 1 .. m : a[i][1] \in Keys
      /\ \A i \in 1 .. n : b[i][1] \in Keys
  BY <1>2
<1>4. /\ \A i, j \in 1 .. m : i < j => Less(a[i][1], a[j][1])
      /\ \A i, j \in 1 .. n : i < j => Less(b[i][1], b[j][1])
  BY <1>1 DEF InKeyOrder
<1>5. \A i \in 1 .. m : \E y \in 1 .. n : a[i] = b[y]
  BY <1>1 DEF Range
<1>6. \A y \in 1 .. n : \E i \in 1 .. m : b[y] = a[i]
  BY <1>1 DEF Range
<1> HIDE DEF m, n
<1>7. 0 \in T
  BY <1>1
<1>8. ASSUME NEW i \in 1 .. m, i - 1 \in T PROVE i \in T
  <2>1. \A j \in 1 .. i - 1 : j <= n /\ a[j] = b[j] /\ j \in 1 .. n /\ j \in 1 .. m /\ j < i
    BY <1>1, <1>8
  <2>2. PICK y \in 1 .. n : a[i] = b[y]
    BY <1>5
  <2>3. ~(y < i)
    <3> SUFFICES ASSUME y < i PROVE FALSE
      OBVIOUS
    <3>1. y \in 1 .. i - 1
      BY <1>1
    <3>2. a[y] = a[i] /\ y \in 1 .. m /\ y < i
      BY <2>1, <2>2, <3>1
    <3>3. Less(a[i][1], a[i][1])
      BY <1>4, <3>2
    <3> QED BY <1>3, <3>3, KeyOrder
  <2>4. i <= n /\ i \in 1 .. n
    BY <1>1, <2>3
  <2>5. y = i
    <3> SUFFICES ASSUME y # i PROVE FALSE
      OBVIOUS
    <3>1. i < y
      BY <1>1, <2>3
    <3>2. Less(b[i][1], a[i][1])
      BY <1>4, <2>2, <2>4, <3>1
    <3>3. PICK x \in 1 .. m : b[i] = a[x]
      BY <1>6, <2>4
    <3>4. CASE x < i
      <4>1. x \in 1 .. i - 1
        BY <1>1, <3>4
      <4>2. b[x] = b[i] /\ x \in 1 .. n
        BY <2>1, <3>3, <4>1
      <4>3. Less(b[i][1], b[i][1])
        BY <1>4, <2>4, <3>4, <4>2
      <4> QED BY <1>3, <2>4, <4>3, KeyOrder
    <3>5. CASE x = i
      BY <1>3, <3>2, <3>3, <3>5, KeyOrder
    <3>6. CASE i < x
      <4>1. Less(a[i][1], a[x][1]) /\ Less(a[x][1], a[i][1])
        BY <1>4, <3>2, <3>3, <3>6
      <4> QED BY <1>3, <4>1, KeyOrder
    <3> QED BY <1>1, <3>4, <3>5, <3>6
  <2>6. Same(i)
    BY <2>2, <2>4, <2>5
  <2>7. \A j \in 1 .. i : j \in 1 .. i - 1 \/ j = i
    BY <1>1
  <2>8. \A j \in 1 .. i : Same(j)
    BY <2>1, <2>6, <2>7
  <2> HIDE DEF Same
  <2> QED BY <1>1, <2>8
<1>9. 0 .. m \subseteq T
  <2> HIDE DEF T
  <2> QED BY <1>1, <1>7, <1>8, UpTo
<1>10. \A j \in 1 .. m : j <= n /\ a[j] = b[j]
  <2>1. m \in T
    <3> HIDE DEF T
    <3> QED BY <1>1, <1>9
  <2> QED BY <2>1
<1>11. m <= n
  <2>1. CASE m = 0
    BY <1>1, <2>1
  <2>2. CASE m # 0
    <3>1. m \in 1 .. m
      BY <1>1, <2>2
    <3> QED BY <1>10, <3>1
  <2> QED BY <2>1, <2>2
<1> QED BY <1>10, <1>11 DEF m, n

(* ... so they are the same.                                                *)
LEMMA SortedSame ==
  ASSUME NEW a \in Seq(Keys \X Vals), NEW b \in Seq(Keys \X Vals),
         InKeyOrder(a), InKeyOrder(b), Range(a) = Range(b)
  PROVE  a = b
<1>1. Len(a) <= Len(b) /\ \A i \in 1 .. Len(a) : a[i] = b[i]
  BY SortedBegin
<1>2. Len(b) <= Len(a)
  BY SortedBegin
<1>3. Len(a) = Len(b)
  <2>1. Len(a) \in Nat /\ Len(b) \in Nat
    OBVIOUS
  <2> QED BY <1>1, <1>2, <2>1
<1> QED BY <1>1, <1>3, SeqEqual

(* A scan of a list is its entries in the range.                            *)
LEMMA ScanListed ==
  ASSUME NEW list, NodesOK(list.nodes), NEW start \in Keys, NEW end \in Keys
  PROVE  ScanList(list, start, end) =
           Retain(Iter(list), {e \in Range(Iter(list)) : ~Less(e[1], start) /\ Less(e[1], end)})
<1> DEFINE nodes == list.nodes
           D == DOMAIN nodes \ {Head0}
           c == Ceiling(nodes, start)
           lane == LaneFrom(nodes, c, 1)
           below == {i \in DOMAIN lane : \A j \in 1 .. i : Less(nodes[lane[j]].key, end)}
           entry(n) == << nodes[n].key, nodes[n].value >>
           t == [i \in below |-> entry(lane[i])]
           whole == Iter(list)
           kept == {e \in Range(whole) : ~Less(e[1], start) /\ Less(e[1], end)}
           r == Retain(whole, kept)
<1>1. ScanList(list, start, end) = t
  BY DEF ScanList, Entry
<1>2. 1 \in 1 .. MaxLevel /\ OnLane(nodes, 1) = DOMAIN nodes
  BY SkipListAssumption, LanesNested
<1>3. /\ c = Null => \A n \in D : Less(nodes[n].key, start)
      /\ c # Null => /\ c \in D /\ ~Less(nodes[c].key, start)
                     /\ \A n \in D :
                          ~Less(nodes[n].key, start) <=> n = c \/ n \in Above(nodes, c, 1)
  BY CeilingFound
<1>4. /\ lane \in Seq(DOMAIN nodes)
      /\ c = Null <=> lane = << >>
      /\ c # Null => Range(lane) = {c} \cup Above(nodes, c, 1)
      /\ \A x, y \in 1 .. Len(lane) : x < y => lane[y] \in Above(nodes, lane[x], 1)
  <2>1. c \in OnLane(nodes, 1) \cup {Null}
    BY <1>2, <1>3
  <2> HIDE DEF c, nodes
  <2> QED BY <1>2, <2>1, LaneWalked DEF nodes
<1>5. Above(nodes, c, 1) \subseteq D
  BY DEF Above
<1>6. \A n \in D : nodes[n].key \in Keys /\ nodes[n].value \in Vals
  BY NodeKeys
<1>7. /\ whole \in Seq(Keys \X Vals) /\ InKeyOrder(whole)
      /\ \A k \in Keys : Holding(whole, k) = Values(list, k)
  BY IterYields
<1>8. Range(whole) = {entry(n) : n \in D}
  <2> DEFINE p == LaneFrom(nodes, nodes[Head0].next[1], 1)
  <2>1. Range(p) = D
    BY BottomLane
  <2>2. whole = [i \in DOMAIN p |-> entry(p[i])]
    BY DEF Iter, Entry
  <2> HIDE DEF p, D, entry, whole
  <2>3. DOMAIN whole = DOMAIN p
    BY <2>2
  <2>4. Range(whole) = {whole[i] : i \in DOMAIN p} /\ Range(p) = {p[i] : i \in DOMAIN p}
    BY <2>3 DEF Range
  <2> QED BY <2>1, <2>2, <2>4
<1> HIDE DEF c, lane, D, whole
<1>9. DOMAIN lane = 1 .. Len(lane) /\ Len(lane) \in Nat
  BY <1>4
<1>10. Range(lane) = {n \in D : ~Less(nodes[n].key, start)}
  <2>1. CASE c = Null
    <3>1. Range(lane) = {}
      BY <1>4, <2>1 DEF Range
    <3> QED BY <1>3, <2>1, <3>1
  <2>2. CASE c # Null
    BY <1>3, <1>4, <1>5, <2>2
  <2> QED BY <2>1, <2>2
<1>11. \A i \in 1 .. Len(lane) : lane[i] \in D /\ lane[i] # Head0
  <2>1. \A i \in 1 .. Len(lane) : lane[i] \in Range(lane)
    BY <1>9 DEF Range
  <2> QED BY <1>10, <2>1 DEF D
<1>12. \A x, y \in 1 .. Len(lane) : x < y => Less(nodes[lane[x]].key, nodes[lane[y]].key)
  BY <1>4, <1>11 DEF Above
<1> HIDE DEF nodes
<1>13. below = {i \in 1 .. Len(lane) : Less(nodes[lane[i]].key, end)}
  <2>1. ASSUME NEW i \in 1 .. Len(lane), Less(nodes[lane[i]].key, end), NEW j \in 1 .. i
        PROVE  Less(nodes[lane[j]].key, end)
    <3>1. j \in 1 .. Len(lane) /\ (j = i \/ j < i)
      BY <1>9
    <3>2. nodes[lane[i]].key \in Keys /\ nodes[lane[j]].key \in Keys
      BY <1>6, <1>11, <3>1
    <3> QED BY <1>12, <2>1, <3>1, <3>2, KeyOrder
  <2>2. \A i \in 1 .. Len(lane) : i \in 1 .. i
    OBVIOUS
  <2> QED BY <1>9, <2>1, <2>2
<1>14. \E m \in 0 .. Len(lane) : below = 1 .. m
  <2>1. CASE below = {}
    <3>1. below = 1 .. 0 /\ 0 \in 0 .. Len(lane)
      <4> HIDE DEF below
      <4> QED BY <1>9, <2>1
    <3> QED BY <3>1
  <2>2. CASE below # {}
    <3> DEFINE m == Max(below)
    <3>1. below \subseteq 1 .. Len(lane)
      BY <1>9
    <3>2. m \in below /\ \A k \in below : m >= k
      <4> HIDE DEF below
      <4> QED BY <1>9, <2>2, <3>1, MaxUpTo
    <3> HIDE DEF m
    <3>3. m \in 1 .. Len(lane)
      <4> HIDE DEF below
      <4> QED BY <3>1, <3>2
    <3>4. \A j \in 1 .. m : Less(nodes[lane[j]].key, end)
      BY <3>2
    <3>5. 1 .. m \subseteq below
      <4>1. \A i \in 1 .. m : i \in 1 .. Len(lane)
        BY <1>9, <3>3
      <4> HIDE DEF below
      <4> QED BY <1>13, <3>4, <4>1
    <3>6. below \subseteq 1 .. m
      <4> HIDE DEF below
      <4> SUFFICES ASSUME NEW i \in below PROVE i \in 1 .. m
        OBVIOUS
      <4>1. i \in 1 .. Len(lane) /\ m >= i
        BY <3>1, <3>2
      <4> QED BY <1>9, <3>3, <4>1
    <3> HIDE DEF below
    <3>7. below = 1 .. m
      BY <3>5, <3>6
    <3>8. m \in 0 .. Len(lane)
      BY <1>9, <3>3
    <3> QED BY <3>7, <3>8
  <2> QED BY <2>1, <2>2
<1>15. PICK m \in 0 .. Len(lane) : below = 1 .. m
  BY <1>14
<1> HIDE DEF below
<1>16. DOMAIN t = 1 .. m /\ \A i \in 1 .. m : t[i] = entry(lane[i])
  BY <1>15
<1>17. \A i \in 1 .. m : i \in 1 .. Len(lane)
  BY <1>9, <1>15
<1>18. \A n \in D : entry(n) \in Keys \X Vals /\ entry(n)[1] = nodes[n].key
  BY <1>6
<1>19. t \in Seq(Keys \X Vals)
  <2>1. t = [i \in 1 .. m |-> entry(lane[i])]
    BY <1>15
  <2>2. \A i \in 1 .. m : entry(lane[i]) \in Keys \X Vals
    BY <1>11, <1>17, <1>18
  <2> HIDE DEF entry
  <2>3. m \in Nat
    BY <1>9, <1>15
  <2> QED BY <2>1, <2>2, <2>3
<1>20. InKeyOrder(t)
  <2>1. ASSUME NEW i \in 1 .. m, NEW j \in 1 .. m, i < j PROVE Less(t[i][1], t[j][1])
    <3>1. t[i][1] = nodes[lane[i]].key /\ t[j][1] = nodes[lane[j]].key
      <4>1. lane[i] \in D /\ lane[j] \in D
        BY <1>11, <1>17
      <4> HIDE DEF entry, t
      <4> QED BY <1>16, <1>18, <4>1
    <3> QED BY <1>12, <1>17, <2>1, <3>1
  <2> HIDE DEF t
  <2> QED BY <1>16, <2>1 DEF InKeyOrder
<1>21. Range(t) = kept
  <2>1. Range(t) = {t[i] : i \in 1 .. m}
    <3> HIDE DEF t
    <3> QED BY <1>16 DEF Range
  <2>2. Range(lane) = {lane[i] : i \in 1 .. Len(lane)}
    BY <1>9 DEF Range
  <2>3. {lane[i] : i \in 1 .. m} = {n \in D : ~Less(nodes[n].key, start) /\ Less(nodes[n].key, end)}
    BY <1>10, <1>13, <1>15, <1>17, <2>2
  <2> DEFINE low == {n \in D : ~Less(nodes[n].key, start) /\ Less(nodes[n].key, end)}
  <2>4. kept = {entry(n) : n \in low}
    <3> HIDE DEF entry
    <3> QED BY <1>8, <1>18
  <2>5. Range(t) = {entry(lane[i]) : i \in 1 .. m}
    <3> HIDE DEF t, entry
    <3> QED BY <1>16, <2>1
  <2> HIDE DEF t, entry, kept, low
  <2>6. {lane[i] : i \in 1 .. m} = low
    BY <2>3 DEF low
  <2> QED BY <2>4, <2>5, <2>6
<1>22. r \in Seq(Keys \X Vals) /\ Range(r) = kept /\ InKeyOrder(r)
  <2> DEFINE R == {e \in (Keys \X Vals) \X (Keys \X Vals) : Less(e[1][1], e[2][1])}
  <2> HIDE DEF kept
  <2>1. /\ r \in Seq(Keys \X Vals) /\ Range(r) = Range(whole) \cap kept
        /\ (\A i, j \in 1 .. Len(whole) : i < j => << whole[i], whole[j] >> \in R)
              => \A i, j \in 1 .. Len(r) : i < j => << r[i], r[j] >> \in R
    <3> HIDE DEF R
    <3> QED BY <1>7, RetainKeeps
  <2>2. ASSUME NEW i \in 1 .. Len(whole), NEW j \in 1 .. Len(whole), i < j
        PROVE  << whole[i], whole[j] >> \in R
    <3>1. whole[i] \in Keys \X Vals /\ whole[j] \in Keys \X Vals /\ DOMAIN whole = 1 .. Len(whole)
      BY <1>7
    <3>2. Less(whole[i][1], whole[j][1])
      BY <1>7, <2>2, <3>1 DEF InKeyOrder
    <3> QED BY <3>1, <3>2
  <2>3. InKeyOrder(r)
    <3> HIDE DEF r
    <3>1. DOMAIN r = 1 .. Len(r)
      BY <2>1
    <3>2. \A i, j \in 1 .. Len(r) : i < j => << r[i], r[j] >> \in R
      <4> HIDE DEF R
      <4> QED BY <2>1, <2>2
    <3>3. \A x, y : << x, y >> \in R => Less(x[1], y[1])
      OBVIOUS
    <3> HIDE DEF R
    <3> QED BY <3>1, <3>2, <3>3 DEF InKeyOrder
  <2>4. kept \subseteq Range(whole)
    BY DEF kept
  <2> HIDE DEF R, r
  <2> QED BY <2>1, <2>3, <2>4
<1>23. t = r
  <2> HIDE DEF t, r, kept
  <2> QED BY <1>19, <1>20, <1>21, <1>22, SortedSame
<1> QED BY <1>1, <1>23 DEF whole

----------------------------------------------------------------------------
(* The bytes of the manifest: decoders in general, numbers and strings,     *)
(* metas, levels and the whole file; what is decoded from the front part of *)
(* some bytes.                                                              *)

(* What a decoder gives: a value and the place behind it, or Corruption.    *)
Results(V, P) == {Corruption} \cup {Decoded(x, p) : x \in V, p \in P}

(* What was read in a part is a result, and is read also in the whole.      *)
Agrees(r, far, V, P) == r \in Results(V, P) /\ (r.ok => far = r)

(* DecodeMany after one more item.                                          *)
Further(item, prev) ==
    IF ~prev.ok THEN Corruption
    ELSE LET next == item[prev.pos]
         IN  IF next.ok THEN Decoded(Append(prev.value, next.value), next.pos) ELSE Corruption

(* A result is one or the other.                                            *)
LEMMA ResultCases ==
  ASSUME NEW V, NEW P, NEW r \in Results(V, P)
  PROVE  /\ r.ok \in BOOLEAN
         /\ ~r.ok => r = Corruption
         /\ r.ok => r.value \in V /\ r.pos \in P /\ r = Decoded(r.value, r.pos)
<1>1. CASE r = Corruption
  <2>1. r.ok = FALSE
    BY <1>1 DEF Corruption
  <2> QED BY <1>1, <2>1
<1>2. CASE \E x \in V, p \in P : r = Decoded(x, p)
  <2>1. PICK x \in V, p \in P : r = Decoded(x, p)
    BY <1>2
  <2>2. r.ok = TRUE /\ r.value = x /\ r.pos = p
    BY <2>1 DEF Decoded
  <2> QED BY <2>1, <2>2
<1> QED BY <1>1, <1>2 DEF Results

(* Corruption and Decoded are results.                                      *)
LEMMA ResultsAre ==
  ASSUME NEW V, NEW P
  PROVE  /\ Corruption \in Results(V, P) /\ Corruption.ok = FALSE
         /\ \A x \in V, p \in P : Decoded(x, p) \in Results(V, P)
         /\ \A x, p : Decoded(x, p).ok = TRUE /\ Decoded(x, p).value = x /\ Decoded(x, p).pos = p
<1>1. Corruption.ok = FALSE
  BY DEF Corruption
<1>2. \A x, p : Decoded(x, p).ok = TRUE /\ Decoded(x, p).value = x /\ Decoded(x, p).pos = p
  BY DEF Decoded
<1> QED BY <1>1, <1>2 DEF Results

(* The rounds of DecodeMany.                                                *)
Rounds(V, P, item, n, pos, read) ==
    /\ read \in [0 .. n -> Results(Seq(V), P)]
    /\ read[0] = Decoded(<< >>, pos)
    /\ \A i \in 1 .. n : read[i] = Further(item, read[i - 1])
    /\ DecodeMany(item, n, pos) = read[n]

(* DecodeMany goes item by item.                                            *)
LEMMA ManySteps ==
  ASSUME NEW V, NEW P, NEW item \in [P -> Results(V, P)], NEW n \in Nat, NEW pos \in P
  PROVE  \E read : Rounds(V, P, item, n, pos, read)
<1> DEFINE S == Results(Seq(V), P)
           start == Decoded(<< >>, pos)
           g == [i \in 1 .. n |-> [prev \in S |-> Further(item, prev)]]
           read == CHOOSE t : t = [i \in 0 .. n |-> IF i = 0 THEN start
                                                        ELSE Further(item, t[i - 1])]
<1>1. start \in S
  <2>1. << >> \in Seq(V)
    OBVIOUS
  <2> QED BY <2>1, ResultsAre
<1>2. ASSUME NEW prev \in S PROVE Further(item, prev) \in S
  <2>1. CASE ~prev.ok
    BY <2>1, ResultsAre DEF Further
  <2>2. CASE prev.ok
    <3> DEFINE next == item[prev.pos]
    <3>1. prev.value \in Seq(V) /\ prev.pos \in P
      BY <2>2, ResultCases
    <3>2. next \in Results(V, P)
      BY <3>1
    <3>3. Further(item, prev) = IF next.ok THEN Decoded(Append(prev.value, next.value), next.pos)
                                           ELSE Corruption
      BY <2>2 DEF Further
    <3> HIDE DEF next
    <3>4. CASE next.ok
      <4>1. next.value \in V /\ next.pos \in P
        BY <3>2, <3>4, ResultCases
      <4> DEFINE longer == Append(prev.value, next.value)
      <4>2. longer \in Seq(V)
        BY <3>1, <4>1, AppendProperties
      <4>3. Further(item, prev) = Decoded(longer, next.pos)
        BY <3>3, <3>4
      <4> HIDE DEF longer
      <4>4. Decoded(longer, next.pos) \in Results(Seq(V), P)
        BY <4>1, <4>2, ResultsAre
      <4> QED BY <4>3, <4>4
    <3>5. CASE ~next.ok
      BY <3>3, <3>5, ResultsAre
    <3> QED BY <3>4, <3>5
  <2> QED BY <2>1, <2>2
<1> HIDE DEF S, start
<1>3. g \in [1 .. n -> [S -> S]]
  BY <1>2
<1>4. PICK f \in [0 .. n -> S] : Recurs(f, n, start, g)
  <2> HIDE DEF g
  <2> QED BY <1>1, <1>3, RecursExists
<1>5. f = [i \in 0 .. n |-> IF i = 0 THEN start ELSE Further(item, f[i - 1])]
  <2>1. ASSUME NEW i \in 0 .. n, i # 0 PROVE g[i][f[i - 1]] = Further(item, f[i - 1])
    <3>1. i \in 1 .. n /\ i - 1 \in 0 .. n
      BY <2>1
    <3>2. f[i - 1] \in S
      BY <3>1
    <3> QED BY <3>1, <3>2
  <2> HIDE DEF g
  <2> QED BY <1>4, <2>1 DEF Recurs
<1>6. DecodeMany(item, n, pos) = read[n]
  BY DEF DecodeMany, Further, start
<1>7. read = [i \in 0 .. n |-> IF i = 0 THEN start ELSE Further(item, read[i - 1])]
  <2> HIDE DEF read
  <2> QED BY <1>5 DEF read
<1> HIDE DEF read
<1>8. read[0] = start /\ \A i \in 1 .. n : read[i] = Further(item, read[i - 1])
  <2>1. 0 \in 0 .. n /\ \A i \in 1 .. n : i \in 0 .. n /\ i # 0
    OBVIOUS
  <2> QED BY <1>7, <2>1
<1> DEFINE T == {i \in 0 .. n : read[i] \in S}
<1>9. 0 .. n \subseteq T
  <2>1. 0 \in T
    BY <1>1, <1>8
  <2>2. ASSUME NEW i \in 1 .. n, i - 1 \in T PROVE i \in T
    BY <1>2, <1>8, <2>2
  <2> HIDE DEF T
  <2> QED BY <2>1, <2>2, UpTo
<1>10. read \in [0 .. n -> S]
  BY <1>7, <1>9
<1>11. Rounds(V, P, item, n, pos, read)
  BY <1>6, <1>8, <1>10 DEF S, start, Rounds
<1> HIDE DEF S, start
<1> QED BY <1>11

(* The values that a decoder reads one behind the other.                    *)
Chained(item, at, v) == \A i \in 1 .. Len(v) : item[at[i - 1]] = Decoded(v[i], at[i])

(* DecodeMany of items that lie one behind the other.                       *)
LEMMA ManyRead ==
  ASSUME NEW V, NEW P, NEW item \in [P -> Results(V, P)], NEW v \in Seq(V),
         NEW at \in [0 .. Len(v) -> P],
         Chained(item, at, v)
  PROVE  DecodeMany(item, Len(v), at[0]) = Decoded(v, at[Len(v)])
<1> DEFINE n == Len(v)
<1>1. n \in Nat /\ at[0] \in P
  <2>1. Len(v) \in Nat
    OBVIOUS
  <2>2. 0 \in 0 .. Len(v)
    BY <2>1
  <2> QED BY <2>1, <2>2
<1> HIDE DEF n
<1> DEFINE start == at[0]
<1> HIDE DEF start
<1>0. start \in P
  BY <1>1 DEF start
<1>20. PICK read : Rounds(V, P, item, n, start, read)
  BY <1>0, <1>1, ManySteps
<1>2. /\ read \in [0 .. n -> Results(Seq(V), P)]
      /\ read[0] = Decoded(<< >>, at[0])
      /\ \A i \in 1 .. n : read[i] = Further(item, read[i - 1])
      /\ DecodeMany(item, n, at[0]) = read[n]
  BY <1>20 DEF Rounds, start
<1> DEFINE T == {i \in 0 .. n : read[i] = Decoded(SubSeq(v, 1, i), at[i])}
<1>3. 0 \in T
  <2>1. SubSeq(v, 1, 0) = << >>
    BY FrontPart, EmptySeq
  <2>2. read[0] = Decoded(SubSeq(v, 1, 0), at[0])
    BY <1>2, <2>1
  <2>3. 0 \in 0 .. n
    BY <1>1
  <2> QED BY <2>2, <2>3
<1>4. ASSUME NEW i \in 1 .. n, i - 1 \in T PROVE i \in T
  <2> DEFINE front == SubSeq(v, 1, i - 1)
  <2>1. read[i - 1] = Decoded(front, at[i - 1])
    BY <1>4
  <2>2. Append(front, v[i]) = SubSeq(v, 1, i)
    BY LongerPrefix DEF n
  <2>3. item[at[i - 1]] = Decoded(v[i], at[i])
    BY DEF n, Chained
  <2> HIDE DEF front
  <2>4. read[i] = Decoded(Append(front, v[i]), at[i])
    <3> DEFINE prev == Decoded(front, at[i - 1])
               next == Decoded(v[i], at[i])
    <3>1. read[i] = Further(item, prev)
      BY <1>2, <2>1
    <3>2. /\ prev.ok = TRUE /\ prev.pos = at[i - 1] /\ prev.value = front
          /\ next.ok = TRUE /\ next.pos = at[i] /\ next.value = v[i]
      BY DEF Decoded
    <3>3. item[prev.pos] = next
      BY <2>3, <3>2
    <3> HIDE DEF prev, next
    <3>4. Further(item, prev) = Decoded(Append(prev.value, next.value), next.pos)
      BY <3>2, <3>3 DEF Further
    <3> QED BY <3>1, <3>2, <3>4
  <2> QED BY <1>1, <2>2, <2>4
<1>5. n \in T
  <2> HIDE DEF T
  <2>1. 0 .. n \subseteq T
    BY <1>1, <1>3, <1>4, UpTo
  <2> QED BY <1>1, <2>1
<1>6. SubSeq(v, 1, n) = v
  <2>1. SubSeq(v, 1, n) \in Seq(V) /\ Len(SubSeq(v, 1, n)) = n
        /\ \A i \in 1 .. n : SubSeq(v, 1, n)[i] = v[i]
    BY <1>1, FrontPart DEF n
  <2> QED BY <2>1, SeqEqual DEF n
<1> QED BY <1>2, <1>5, <1>6 DEF n

(* What DecodeMany reads, it reads also with a decoder that agrees with the *)
(* first one wherever that one reads anything.                              *)
LEMMA ManyAgree ==
  ASSUME NEW V, NEW P, NEW item \in [P -> Results(V, P)], NEW Q, P \subseteq Q,
         NEW more \in [Q -> Results(V, Q)],
         \A p \in P : item[p].ok => more[p] = item[p],
         NEW n \in Nat, NEW pos \in P
  PROVE  Agrees(DecodeMany(item, n, pos), DecodeMany(more, n, pos), Seq(V), P)
<1>0. PICK read : Rounds(V, P, item, n, pos, read)
  BY ManySteps
<1>1. /\ read \in [0 .. n -> Results(Seq(V), P)]
      /\ read[0] = Decoded(<< >>, pos)
      /\ \A i \in 1 .. n : read[i] = Further(item, read[i - 1])
      /\ DecodeMany(item, n, pos) = read[n]
  BY <1>0 DEF Rounds
<1>10. pos \in Q
  OBVIOUS
<1>11. PICK far : Rounds(V, Q, more, n, pos, far)
  BY <1>10, ManySteps
<1>2. /\ far \in [0 .. n -> Results(Seq(V), Q)]
      /\ far[0] = Decoded(<< >>, pos)
      /\ \A i \in 1 .. n : far[i] = Further(more, far[i - 1])
      /\ DecodeMany(more, n, pos) = far[n]
  BY <1>11 DEF Rounds
<1>3. \A i \in 0 .. n : read[i] \in Results(Seq(V), P)
  BY <1>1
<1> DEFINE T == {i \in 0 .. n : read[i].ok => far[i] = read[i]}
<1>4. 0 \in T
  BY <1>1, <1>2
<1>5. ASSUME NEW i \in 1 .. n, i - 1 \in T PROVE i \in T
  <2> SUFFICES ASSUME read[i].ok PROVE far[i] = read[i]
    OBVIOUS
  <2>1. i - 1 \in 0 .. n
    OBVIOUS
  <2>2. read[i - 1].ok
    <3>1. read[i - 1].ok \in BOOLEAN
      BY <1>3, <2>1, ResultCases
    <3>2. ~read[i - 1].ok => read[i] = Corruption
      BY <1>1 DEF Further
    <3> QED BY <3>1, <3>2, ResultsAre
  <2>3. far[i - 1] = read[i - 1] /\ read[i - 1].pos \in P
    BY <1>3, <1>5, <2>1, <2>2, ResultCases
  <2> DEFINE p == read[i - 1].pos
  <2>4. item[p].ok
    <3>1. item[p] \in Results(V, P)
      BY <2>3
    <3>2. item[p].ok \in BOOLEAN
      BY <3>1, ResultCases
    <3>3. ~item[p].ok => read[i] = Corruption
      BY <1>1, <2>2 DEF Further
    <3> QED BY <3>2, <3>3, ResultsAre
  <2>5. more[p] = item[p]
    BY <2>3, <2>4
  <2>6. read[i] = Further(item, read[i - 1]) /\ far[i] = Further(more, read[i - 1])
    BY <1>1, <1>2, <2>3
  <2> QED BY <2>5, <2>6 DEF Further
<1>6. n \in T
  <2> HIDE DEF T
  <2>1. 0 .. n \subseteq T
    BY <1>4, <1>5, UpTo
  <2> QED BY <2>1
<1>7. n \in 0 .. n
  OBVIOUS
<1> QED BY <1>1, <1>2, <1>3, <1>6, <1>7 DEF Agrees

(* A part of the bytes lies at a place.                                     *)
Lies(part, data, pos) ==
    /\ pos \in Nat /\ pos + Len(part) <= Len(data)
    /\ \A i \in 1 .. Len(part) : data[pos + i] = part[i]

(* Both halves of what lies at a place.                                     *)
LEMMA LiesHalves ==
  ASSUME NEW a \in Seq(Byte), NEW b \in Seq(Byte), NEW data \in Seq(Byte), NEW pos,
         Lies(a \o b, data, pos)
  PROVE  Lies(a, data, pos) /\ Lies(b, data, pos + Len(a))
<1> DEFINE m == Len(a)
           n == Len(b)
           l == Len(data)
           c == a \o b
<1>1. m \in Nat /\ n \in Nat /\ l \in Nat /\ Len(c) = m + n
  BY Joined, LenProperties
<1>2. \A i \in 1 .. m : c[i] = a[i]
  BY ConcatProperties
<1>3. \A i \in 1 .. n : c[m + i] = b[i]
  <2>1. \A i \in 1 .. n : b[0 + i] = (a \o b)[Len(a) + i]
    BY AfterFront
  <2>2. \A i \in 1 .. n : 0 + i = i
    BY <1>1
  <2> QED BY <2>1, <2>2
<1>4. pos \in Nat /\ pos + (m + n) <= l /\ \A i \in 1 .. m + n : data[pos + i] = c[i]
  <2>1. pos \in Nat /\ pos + Len(c) <= l /\ \A i \in 1 .. Len(c) : data[pos + i] = c[i]
    BY DEF Lies
  <2> HIDE DEF c, m, n, l
  <2> QED BY <1>1, <2>1
<1> HIDE DEF c, m, n, l
<1>5. pos + m <= l /\ \A i \in 1 .. m : data[pos + i] = a[i]
  <2>1. \A i \in 1 .. m : i \in 1 .. m + n
    BY <1>1
  <2> QED BY <1>1, <1>2, <1>4, <2>1
<1>6. pos + m \in Nat /\ (pos + m) + n <= l /\ \A i \in 1 .. n : data[(pos + m) + i] = b[i]
  <2>1. \A i \in 1 .. n : m + i \in 1 .. m + n /\ pos + (m + i) = (pos + m) + i
    BY <1>1, <1>4
  <2>2. \A i \in 1 .. n : data[pos + (m + i)] = b[i]
    BY <1>3, <1>4, <2>1
  <2> QED BY <1>1, <1>4, <2>1, <2>2
<1> QED BY <1>4, <1>5, <1>6 DEF Lies, m, n, l

(* What lies at a place is read there.                                      *)
LEMMA LiesRead ==
  ASSUME NEW a \in Seq(Byte), NEW data \in Seq(Byte), NEW pos, Lies(a, data, pos)
  PROVE  SubSeq(data, pos + 1, pos + Len(a)) = a
<1> DEFINE n == Len(a)
           s == SubSeq(data, pos + 1, pos + n)
<1>1. n \in Nat /\ pos \in Nat /\ pos + n <= Len(data)
      /\ \A i \in 1 .. n : data[pos + i] = a[i]
  BY LenProperties DEF Lies
<1>2. s \in Seq(Byte) /\ Len(s) = n /\ \A i \in 1 .. n : s[i] = data[pos + i]
  <2> HIDE DEF n
  <2> QED BY <1>1, PartAt
<1> HIDE DEF s
<1>3. s = a
  BY <1>1, <1>2, SeqEqual
<1> QED BY <1>3 DEF s, n

(* The digits of a number.                                                  *)
LEMMA Digits ==
  ASSUME NEW n \in Nat, NEW w \in Nat
  PROVE  ToLE(n, w, Base) \in Seq(Byte) /\ Len(ToLE(n, w, Base)) = w
<1>1. Base \in Nat \ {0}
  BY KeysAreBytes
<1> QED BY <1>1, ToLETyped DEF Byte

(* A number is read where its digits lie.                                   *)
LEMMA NumberRead ==
  ASSUME NEW n \in Nat, NEW w \in Nat, Fits(n, w, Base), NEW data \in Seq(Byte), NEW pos,
         Lies(ToLE(n, w, Base), data, pos)
  PROVE  Number(data, pos, w) = n /\ pos + w <= Len(data) /\ pos \in Nat
<1> DEFINE d == ToLE(n, w, Base)
<1>1. d \in Seq(Byte) /\ Len(d) = w
  BY Digits
<1>2. Base \in Nat \ {0}
  BY KeysAreBytes
<1>3. FromLE(d, Base) = n
  BY <1>2, FromToLE
<1>4. Lies(d, data, pos)
  OBVIOUS
<1> HIDE DEF d
<1>5. SubSeq(data, pos + 1, pos + w) = d
  BY <1>1, <1>4, LiesRead
<1> QED BY <1>1, <1>3, <1>4, <1>5 DEF Number, Lies

(* A string with its length in front.                                       *)
LEMMA CountedBytes ==
  ASSUME NEW b \in Seq(Byte)
  PROVE  /\ ToLE(Len(b), U32, Base) \in Seq(Byte) /\ Len(ToLE(Len(b), U32, Base)) = U32
         /\ Counted(b) \in Seq(Byte) /\ Len(Counted(b)) = U32 + Len(b)
<1>1. Len(b) \in Nat /\ U32 \in Nat
  BY KeysAreBytes, LenProperties
<1> DEFINE d == ToLE(Len(b), U32, Base)
<1>2. d \in Seq(Byte) /\ Len(d) = U32
  BY <1>1, Digits
<1> HIDE DEF d
<1>3. d \o b \in Seq(Byte) /\ Len(d \o b) = U32 + Len(b)
  BY <1>2, Joined
<1>4. Counted(b) = d \o b
  BY DEF Counted, d
<1> QED BY <1>2, <1>3, <1>4 DEF d

(* It is read where it lies, and reading goes on behind it.                 *)
LEMMA BytesRead ==
  ASSUME NEW b \in Seq(Byte), Fits(Len(b), U32, Base), NEW data \in Seq(Byte), NEW pos,
         Lies(Counted(b), data, pos)
  PROVE  DecodeBytes(data, pos) = Decoded(b, pos + Len(Counted(b)))
<1> DEFINE d == ToLE(Len(b), U32, Base)
           n == Len(b)
<1>1. d \in Seq(Byte) /\ Len(d) = U32 /\ Len(Counted(b)) = U32 + n /\ U32 \in Nat /\ n \in Nat
  BY CountedBytes, KeysAreBytes, LenProperties
<1>2. Lies(d \o b, data, pos)
  BY DEF Counted
<1>3. Lies(d, data, pos) /\ Lies(b, data, pos + U32)
  <2> HIDE DEF d
  <2> QED BY <1>1, <1>2, LiesHalves
<1>4. Number(data, pos, U32) = n /\ pos + U32 <= Len(data) /\ pos \in Nat
  BY <1>1, <1>3, NumberRead
<1> HIDE DEF d
<1>5. SubSeq(data, (pos + U32) + 1, (pos + U32) + n) = b
  BY <1>3, LiesRead
<1>6. (pos + U32) + n <= Len(data) /\ pos + U32 \in Nat
  BY <1>3 DEF Lies
<1> DEFINE l == Len(data)
<1>7. l \in Nat
  BY LenProperties
<1> HIDE DEF l, n
<1>8. ~(l < pos + U32) /\ ~(l < pos + U32 + n)
  BY <1>1, <1>4, <1>6, <1>7 DEF l
<1>9. DecodeBytes(data, pos) = Decoded(SubSeq(data, pos + U32 + 1, pos + U32 + n), pos + U32 + n)
  BY <1>4, <1>8 DEF DecodeBytes, l
<1>10. pos + U32 + n = pos + Len(Counted(b))
  BY <1>1, <1>4
<1> QED BY <1>5, <1>9, <1>10

(* A meta that can be written: its numbers fit in their fields.             *)
Writable(m) ==
    /\ m = [id |-> m.id, min |-> m.min, max |-> m.max]
    /\ m.id \in Nat /\ m.min \in Seq(Byte) /\ m.max \in Seq(Byte)
    /\ Fits(m.id, U64, Base) /\ Fits(Len(m.min), U32, Base) /\ Fits(Len(m.max), U32, Base)

(* The bytes of a meta.                                                     *)
LEMMA MetaBytes ==
  ASSUME NEW m, Writable(m)
  PROVE  /\ EncodeMeta(m) \in Seq(Byte)
         /\ Len(EncodeMeta(m)) = U64 + Len(Counted(m.min)) + Len(Counted(m.max))
<1> DEFINE d == ToLE(m.id, U64, Base)
           a == Counted(m.min)
           b == Counted(m.max)
<1>1. d \in Seq(Byte) /\ Len(d) = U64 /\ U64 \in Nat
  BY Digits, KeysAreBytes DEF Writable
<1>2. a \in Seq(Byte) /\ b \in Seq(Byte)
  BY CountedBytes DEF Writable
<1> HIDE DEF d, a, b
<1>3. d \o a \in Seq(Byte) /\ Len(d \o a) = U64 + Len(a)
  BY <1>1, <1>2, Joined
<1>4. (d \o a) \o b \in Seq(Byte) /\ Len((d \o a) \o b) = U64 + Len(a) + Len(b)
  BY <1>2, <1>3, Joined
<1>5. EncodeMeta(m) = (d \o a) \o b
  BY DEF EncodeMeta, d, a, b
<1> QED BY <1>4, <1>5 DEF a, b

(* A meta is read where its bytes lie.                                      *)
LEMMA MetaRead ==
  ASSUME NEW m, Writable(m), NEW data \in Seq(Byte), NEW pos, Lies(EncodeMeta(m), data, pos)
  PROVE  DecodeMeta(data, pos) = Decoded(m, pos + Len(EncodeMeta(m)))
<1> DEFINE d == ToLE(m.id, U64, Base)
           a == Counted(m.min)
           b == Counted(m.max)
<1>1. d \in Seq(Byte) /\ Len(d) = U64 /\ U64 \in Nat
  BY Digits, KeysAreBytes DEF Writable
<1>2. a \in Seq(Byte) /\ b \in Seq(Byte)
  BY CountedBytes DEF Writable
<1>3. Lies((d \o a) \o b, data, pos)
  BY DEF EncodeMeta
<1>4. Len(EncodeMeta(m)) = U64 + Len(a) + Len(b)
  BY MetaBytes
<1>5. Lies(d, data, pos) /\ Lies(a, data, pos + U64) /\ Lies(b, data, pos + U64 + Len(a))
  <2> HIDE DEF d, a, b
  <2>1. d \o a \in Seq(Byte) /\ Len(d \o a) = U64 + Len(a)
    BY <1>1, <1>2, Joined
  <2>2. Lies(d \o a, data, pos) /\ Lies(b, data, pos + Len(d \o a))
    BY <1>2, <1>3, <2>1, LiesHalves
  <2>3. Lies(d, data, pos) /\ Lies(a, data, pos + U64)
    BY <1>1, <1>2, <2>2, LiesHalves
  <2>4. Len(a) \in Nat /\ pos \in Nat
    BY <1>2, <2>3, LenProperties DEF Lies
  <2>5. pos + Len(d \o a) = pos + U64 + Len(a)
    BY <1>1, <2>1, <2>4
  <2> QED BY <2>2, <2>3, <2>5
<1>6. Number(data, pos, U64) = m.id /\ pos + U64 <= Len(data) /\ pos \in Nat
  BY <1>1, <1>5, NumberRead DEF Writable
<1>7. DecodeBytes(data, pos + U64) = Decoded(m.min, pos + U64 + Len(a))
  BY <1>5, BytesRead DEF Writable
<1>8. DecodeBytes(data, pos + U64 + Len(a)) = Decoded(m.max, pos + U64 + Len(a) + Len(b))
  BY <1>5, BytesRead DEF Writable
<1> DEFINE end == pos + U64 + Len(a) + Len(b)
           low == Decoded(m.min, pos + U64 + Len(a))
           high == Decoded(m.max, end)
<1>9. /\ low.ok = TRUE /\ low.value = m.min /\ low.pos = pos + U64 + Len(a)
      /\ high.ok = TRUE /\ high.value = m.max /\ high.pos = end
  BY DEF Decoded
<1>10. ~(Len(data) < pos + U64)
  <2>1. Len(data) \in Nat
    BY LenProperties
  <2> QED BY <1>1, <1>6, <2>1
<1>11. end = pos + Len(EncodeMeta(m))
  <2>1. Len(a) \in Nat /\ Len(b) \in Nat
    BY <1>2, LenProperties
  <2> HIDE DEF a, b
  <2> QED BY <1>1, <1>4, <1>6, <2>1
<1>12. DecodeMeta(data, pos) = Decoded([id |-> m.id, min |-> m.min, max |-> m.max], end)
  <2> HIDE DEF a, b, d, low, high, end
  <2>1. DecodeBytes(data, pos + U64) = low /\ DecodeBytes(data, low.pos) = high
    BY <1>7, <1>8, <1>9 DEF low, high, end
  <2> QED BY <1>6, <1>9, <1>10, <2>1 DEF DecodeMeta
<1>13. m = [id |-> m.id, min |-> m.min, max |-> m.max]
  BY DEF Writable
<1> QED BY <1>11, <1>12, <1>13

(* A part of the front of the bytes is the same part of all of them.        *)
LEMMA FrontPartSame ==
  ASSUME NEW data \in Seq(Byte), NEW n \in Nat, n <= Len(data), NEW k \in Nat, NEW w \in Nat,
         k + w <= n
  PROVE  /\ SubSeq(SubSeq(data, 1, n), k + 1, k + w) = SubSeq(data, k + 1, k + w)
         /\ SubSeq(data, k + 1, k + w) \in Seq(Byte) /\ Len(SubSeq(data, k + 1, k + w)) = w
<1> DEFINE p == SubSeq(data, 1, n)
           x == SubSeq(p, k + 1, k + w)
           y == SubSeq(data, k + 1, k + w)
<1>1. p \in Seq(Byte) /\ Len(p) = n /\ \A i \in 1 .. n : p[i] = data[i]
  BY FrontPart
<1>2. Len(data) \in Nat /\ k + w <= Len(data)
  <2>1. Len(data) \in Nat
    BY LenProperties
  <2> QED BY <2>1
<1> HIDE DEF p
<1>3. x \in Seq(Byte) /\ Len(x) = w /\ \A i \in 1 .. w : x[i] = p[k + i]
  BY <1>1, PartAt
<1>4. y \in Seq(Byte) /\ Len(y) = w /\ \A i \in 1 .. w : y[i] = data[k + i]
  BY <1>2, PartAt
<1> HIDE DEF x, y
<1>5. \A i \in 1 .. w : k + i \in 1 .. n
  OBVIOUS
<1>6. \A i \in 1 .. w : x[i] = y[i]
  BY <1>1, <1>3, <1>4, <1>5
<1>7. x = y
  BY <1>3, <1>4, <1>6, SeqEqual
<1> QED BY <1>4, <1>7 DEF x, y, p

(* A number in the front.                                                   *)
LEMMA FrontNumber ==
  ASSUME NEW data \in Seq(Byte), NEW n \in Nat, n <= Len(data), NEW k \in Nat, NEW w \in Nat,
         k + w <= n
  PROVE  /\ Number(SubSeq(data, 1, n), k, w) = Number(data, k, w)
         /\ Number(data, k, w) \in Nat
<1> DEFINE y == SubSeq(data, k + 1, k + w)
<1>1. SubSeq(SubSeq(data, 1, n), k + 1, k + w) = y /\ y \in Seq(Byte)
  BY FrontPartSame
<1> HIDE DEF y
<1>2. y \in Seq(Nat) /\ Base \in Nat
  BY <1>1, KeysAreBytes, SeqMonotonic
<1>3. FromLE(y, Base) \in Nat
  BY <1>2, FromLETyped
<1> QED BY <1>1, <1>3 DEF Number, y

(* What is read in the front of the bytes is read also in all of them, and  *)
(* ends in the front.  A string.                                            *)
LEMMA FrontBytes ==
  ASSUME NEW data \in Seq(Byte), NEW n \in Nat, n <= Len(data), NEW p, p = SubSeq(data, 1, n),
         NEW pos \in Nat
  PROVE  Agrees(DecodeBytes(p, pos), DecodeBytes(data, pos), Seq(Byte), 0 .. n)
<1> SUFFICES /\ DecodeBytes(p, pos) \in Results(Seq(Byte), 0 .. n)
             /\ DecodeBytes(p, pos).ok => DecodeBytes(data, pos) = DecodeBytes(p, pos)
  BY DEF Agrees
<1> DEFINE len == Number(data, pos, U32)
           end == pos + U32 + len
           l == Len(data)
<1>1. Len(p) = n /\ U32 \in Nat /\ l \in Nat
  BY FrontPart, KeysAreBytes, LenProperties
<1>2. CASE n < pos + U32
  <2>1. DecodeBytes(p, pos) = Corruption
    BY <1>1, <1>2 DEF DecodeBytes
  <2> QED BY <2>1, ResultsAre
<1>3. CASE ~(n < pos + U32)
  <2>1. Number(p, pos, U32) = len /\ len \in Nat
    <3>1. pos + U32 <= n
      BY <1>1, <1>3
    <3> QED BY <1>1, <3>1, FrontNumber
  <2> HIDE DEF len
  <2>2. CASE n < end
    <3>1. DecodeBytes(p, pos) = Corruption
      BY <1>1, <1>3, <2>1, <2>2 DEF DecodeBytes
    <3> QED BY <3>1, ResultsAre
  <2>3. CASE ~(n < end)
    <3> DEFINE s == SubSeq(data, pos + U32 + 1, pos + U32 + len)
    <3>1. SubSeq(p, (pos + U32) + 1, (pos + U32) + len) = s /\ s \in Seq(Byte)
      <4> DEFINE k == pos + U32
      <4>1. k \in Nat /\ k + len <= n
        BY <1>1, <2>1, <2>3
      <4> HIDE DEF k, s
      <4>2. /\ SubSeq(SubSeq(data, 1, n), k + 1, k + len) = SubSeq(data, k + 1, k + len)
            /\ SubSeq(data, k + 1, k + len) \in Seq(Byte)
        BY <2>1, <4>1, FrontPartSame
      <4> QED BY <4>2 DEF k, s
    <3> HIDE DEF s
    <3>2. DecodeBytes(p, pos) = Decoded(s, end)
      BY <1>1, <1>3, <2>1, <2>3, <3>1 DEF DecodeBytes
    <3>3. end \in 0 .. n
      BY <1>1, <2>1, <2>3
    <3> HIDE DEF l
    <3>4. l = Len(data) /\ ~(l < pos + U32) /\ ~(l < end)
      BY <1>1, <1>3, <2>3, <3>3 DEF l
    <3>5. DecodeBytes(data, pos) = Decoded(s, end)
      <4> HIDE DEF end
      <4>1. DecodeBytes(data, pos) = Decoded(SubSeq(data, pos + U32 + 1, end), end)
        BY <3>4 DEF DecodeBytes, end, len
      <4>2. SubSeq(data, pos + U32 + 1, end) = s
        BY DEF end, s
      <4> QED BY <4>1, <4>2
    <3>6. Decoded(s, end) \in Results(Seq(Byte), 0 .. n)
      <4> HIDE DEF end
      <4> QED BY <3>1, <3>3, ResultsAre
    <3> HIDE DEF end
    <3> QED BY <3>2, <3>5, <3>6
  <2> QED BY <2>2, <2>3
<1> QED BY <1>2, <1>3

(* A meta as it is read: any three fields.                                  *)
RawMeta == [id : Nat, min : Seq(Byte), max : Seq(Byte)]

(* From the front part of the bytes a meta is read alike, or not at all.    *)
LEMMA FrontMeta ==
  ASSUME NEW data \in Seq(Byte), NEW n \in Nat, n <= Len(data), NEW p, p = SubSeq(data, 1, n),
         NEW pos \in Nat
  PROVE  Agrees(DecodeMeta(p, pos), DecodeMeta(data, pos), RawMeta, 0 .. n)
<1> DEFINE id == Number(data, pos, U64)
           min == DecodeBytes(p, pos + U64)
           max == DecodeBytes(p, min.pos)
           l == Len(data)
<1> HIDE DEF id, min, max, l
<1>4. ASSUME NEW q \in Nat
      PROVE  Agrees(DecodeBytes(p, q), DecodeBytes(data, q), Seq(Byte), 0 .. n)
  BY FrontBytes
<1> USE DEF id, min, max, l
<1>1. Len(p) = n /\ U64 \in Nat /\ l \in Nat
  BY FrontPart, KeysAreBytes, LenProperties
<1>2. CASE n < pos + U64
  <2>1. DecodeMeta(p, pos) = Corruption
    BY <1>1, <1>2 DEF DecodeMeta
  <2> QED BY <2>1, ResultsAre DEF Agrees
<1>3. CASE ~(n < pos + U64)
  <2>1. Number(p, pos, U64) = id /\ id \in Nat
    <3>1. pos + U64 <= n
      BY <1>1, <1>3
    <3> QED BY <1>1, <3>1, FrontNumber
  <2>2. /\ min \in Results(Seq(Byte), 0 .. n)
        /\ min.ok => DecodeBytes(data, pos + U64) = min
    <3>1. pos + U64 \in Nat
      BY <1>1
    <3>2. Agrees(DecodeBytes(p, pos + U64), DecodeBytes(data, pos + U64), Seq(Byte), 0 .. n)
      BY <3>1, <1>4
    <3> QED BY <3>2 DEF Agrees
  <2>3. DecodeMeta(p, pos) =
          IF ~min.ok THEN Corruption
          ELSE IF ~max.ok THEN Corruption
          ELSE Decoded([id |-> id, min |-> min.value, max |-> max.value], max.pos)
    BY <1>1, <1>3, <2>1 DEF DecodeMeta
  <2>4. ~(l < pos + U64)
    BY <1>1, <1>3
  <2>5. DecodeMeta(data, pos) =
          LET a == DecodeBytes(data, pos + U64)
          IN  IF ~a.ok THEN Corruption
              ELSE LET b == DecodeBytes(data, a.pos)
                   IN  IF ~b.ok THEN Corruption
                       ELSE Decoded([id |-> id, min |-> a.value, max |-> b.value], b.pos)
    BY <2>4 DEF DecodeMeta
  <2>6. CASE ~min.ok
    <3>1. DecodeMeta(p, pos) = Corruption
      <4> HIDE DEF min, max
      <4> QED BY <2>3, <2>6
    <3> QED BY <3>1, ResultsAre DEF Agrees
  <2>7. CASE min.ok
    <3> HIDE DEF id, l
    <3>1. min.pos \in 0 .. n /\ min.value \in Seq(Byte) /\ DecodeBytes(data, pos + U64) = min
      <4> HIDE DEF min
      <4> QED BY <2>2, <2>7, ResultCases
    <3> HIDE DEF min
    <3>2. /\ max \in Results(Seq(Byte), 0 .. n)
          /\ max.ok => DecodeBytes(data, min.pos) = max
      <4>1. min.pos \in Nat
        BY <3>1
      <4>2. Agrees(DecodeBytes(p, min.pos), DecodeBytes(data, min.pos), Seq(Byte), 0 .. n)
        BY <4>1, <1>4
      <4> QED BY <4>2 DEF Agrees
    <3> HIDE DEF max
    <3>3. CASE ~max.ok
      <4>1. DecodeMeta(p, pos) = Corruption
        BY <2>3, <2>7, <3>3
      <4> QED BY <4>1, ResultsAre DEF Agrees
    <3>4. CASE max.ok
      <4> DEFINE m == [id |-> id, min |-> min.value, max |-> max.value]
      <4>1. max.pos \in 0 .. n /\ max.value \in Seq(Byte) /\ DecodeBytes(data, min.pos) = max
        BY <3>2, <3>4, ResultCases
      <4>2. m \in RawMeta
        BY <2>1, <3>1, <4>1 DEF RawMeta
      <4>3. DecodeMeta(p, pos) = Decoded(m, max.pos)
        BY <2>3, <2>7, <3>4
      <4>4. DecodeMeta(data, pos) = Decoded(m, max.pos)
        BY <2>5, <2>7, <3>1, <3>4, <4>1
      <4> HIDE DEF m
      <4>5. Decoded(m, max.pos) \in Results(RawMeta, 0 .. n)
        BY <4>1, <4>2, ResultsAre
      <4> QED BY <4>3, <4>4, <4>5 DEF Agrees
    <3> QED BY <3>3, <3>4
  <2> QED BY <2>6, <2>7
<1> QED BY <1>2, <1>3

(* The places in the front are places in all of it.                         *)
LEMMA FrontPlaces ==
  ASSUME NEW data \in Seq(Byte), NEW n \in Nat, n <= Len(data), NEW p, p = SubSeq(data, 1, n)
  PROVE  /\ p \in Seq(Byte) /\ Len(p) = n /\ Places(p) = 0 .. n /\ Places(data) = 0 .. Len(data)
         /\ 0 .. n \subseteq 0 .. Len(data) /\ Len(data) \in Nat
         /\ SubSeq(data, 1, Len(data)) = data
<1>1. p \in Seq(Byte) /\ Len(p) = n
  BY FrontPart
<1>2. Len(data) \in Nat
  BY LenProperties
<1>3. 0 .. n \subseteq 0 .. Len(data)
  <2> DEFINE l == Len(data)
  <2>1. l \in Nat /\ n <= l
    BY <1>2
  <2> HIDE DEF l
  <2>2. 0 .. n \subseteq 0 .. l
    BY <2>1
  <2> QED BY <2>2 DEF l
<1>4. SubSeq(data, 1, Len(data)) = data
  <2> DEFINE q == SubSeq(data, 1, Len(data))
  <2>1. q \in Seq(Byte) /\ Len(q) = Len(data) /\ \A i \in 1 .. Len(data) : q[i] = data[i]
    BY <1>2, FrontPart
  <2> HIDE DEF q
  <2>2. q = data
    BY <2>1, SeqEqual
  <2> QED BY <2>2 DEF q
<1> QED BY <1>1, <1>2, <1>3, <1>4 DEF Places

(* A level.                                                                 *)
LEMMA FrontLevel ==
  ASSUME NEW data \in Seq(Byte), NEW n \in Nat, n <= Len(data), NEW p, p = SubSeq(data, 1, n),
         NEW pos \in Nat
  PROVE  Agrees(DecodeLevel(p, pos), DecodeLevel(data, pos), Seq(RawMeta), 0 .. n)
<1> DEFINE l == Len(data)
           count == Number(data, pos, U32)
           item == [q \in 0 .. n |-> DecodeMeta(p, q)]
           more == [q \in 0 .. l |-> DecodeMeta(data, q)]
<1>1. /\ Len(p) = n /\ U32 \in Nat /\ l \in Nat /\ Places(p) = 0 .. n /\ Places(data) = 0 .. l
      /\ 0 .. n \subseteq 0 .. l /\ SubSeq(data, 1, l) = data
  BY KeysAreBytes, FrontPlaces
<1>2. CASE n < pos + U32
  <2>1. DecodeLevel(p, pos) = Corruption
    BY <1>1, <1>2 DEF DecodeLevel
  <2> QED BY <2>1, ResultsAre DEF Agrees
<1>3. CASE ~(n < pos + U32)
  <2>1. Number(p, pos, U32) = count /\ count \in Nat
    <3>1. pos + U32 <= n
      BY <1>1, <1>3
    <3> QED BY <1>1, <3>1, FrontNumber
  <2>2. ~(l < pos + U32)
    <3> HIDE DEF l
    <3>1. n <= l
      BY DEF l
    <3> QED BY <1>1, <1>3, <3>1
  <2> HIDE DEF count
  <2>3. DecodeLevel(p, pos) = DecodeMany(item, count, pos + U32)
    BY <1>1, <1>3, <2>1 DEF DecodeLevel, DecodeMetas
  <2>4. DecodeLevel(data, pos) = DecodeMany(more, count, pos + U32)
    <3>1. DecodeLevel(data, pos) = DecodeMetas(data, pos)
      BY <2>2 DEF DecodeLevel
    <3>2. DecodeMetas(data, pos) = DecodeMany(more, count, pos + U32)
      BY <1>1 DEF DecodeMetas, count
    <3> QED BY <3>1, <3>2
  <2>5. item \in [0 .. n -> Results(RawMeta, 0 .. n)]
    <3>1. ASSUME NEW q \in 0 .. n PROVE DecodeMeta(p, q) \in Results(RawMeta, 0 .. n)
      <4>1. q \in Nat
        OBVIOUS
      <4>2. Agrees(DecodeMeta(p, q), DecodeMeta(data, q), RawMeta, 0 .. n)
        BY <4>1, FrontMeta
      <4> QED BY <4>2 DEF Agrees
    <3> QED BY <3>1
  <2>6. more \in [0 .. l -> Results(RawMeta, 0 .. l)]
    <3> HIDE DEF l
    <3>1. \A q \in 0 .. l : DecodeMeta(data, q) \in Results(RawMeta, 0 .. l)
      <4>1. l <= l
        BY <1>1
      <4> TAKE q \in 0 .. l
      <4>2. Agrees(DecodeMeta(data, q), DecodeMeta(data, q), RawMeta, 0 .. l)
        <5>1. q \in Nat
          BY <1>1
        <5> QED BY <1>1, <4>1, <5>1, FrontMeta DEF l
      <4> QED BY <4>2 DEF Agrees
    <3> QED BY <3>1
  <2>7. \A q \in 0 .. n : item[q].ok => more[q] = item[q]
    <3>1. ASSUME NEW q \in 0 .. n
          PROVE  DecodeMeta(p, q).ok => DecodeMeta(data, q) = DecodeMeta(p, q)
      <4>1. q \in Nat
        OBVIOUS
      <4>2. Agrees(DecodeMeta(p, q), DecodeMeta(data, q), RawMeta, 0 .. n)
        BY <4>1, FrontMeta
      <4> QED BY <4>2 DEF Agrees
    <3>2. \A q \in 0 .. n : item[q] = DecodeMeta(p, q) /\ more[q] = DecodeMeta(data, q)
      BY <1>1
    <3> QED BY <3>1, <3>2
  <2>8. pos + U32 \in 0 .. n
    BY <1>1, <1>3
  <2> DEFINE start == pos + U32
             P == 0 .. n
             Q == 0 .. l
  <2>9. P \subseteq Q /\ start \in P
    BY <1>1, <2>8
  <2>10. /\ item \in [P -> Results(RawMeta, P)] /\ more \in [Q -> Results(RawMeta, Q)]
         /\ \A q \in P : item[q].ok => more[q] = item[q]
    BY <2>5, <2>6, <2>7
  <2> HIDE DEF item, more, l, start, P, Q
  <2>11. Agrees(DecodeMany(item, count, start), DecodeMany(more, count, start),
                Seq(RawMeta), P)
    BY <2>1, <2>9, <2>10, ManyAgree
  <2> QED BY <2>3, <2>4, <2>11 DEF start, P
<1> QED BY <1>2, <1>3

(* The header of a manifest.                                                *)
LEMMA HeaderBytes == Header \in Seq(Byte) /\ Len(Header) \in Nat
<1>1. ToLE(Version, U32, Base) \in Seq(Byte)
  BY Digits, KeysAreBytes, FlushPathAssumption
<1>2. Magic \in Seq(Byte)
  BY FlushPathAssumption
<1>3. Header \in Seq(Byte)
  BY <1>1, <1>2, Joined DEF Header
<1> QED BY <1>3, LenProperties

(* A manifest.                                                              *)
LEMMA FrontManifest ==
  ASSUME NEW data \in Seq(Byte), NEW n \in Nat, n <= Len(data), NEW p, p = SubSeq(data, 1, n)
  PROVE  Agrees(DecodeManifest(p), DecodeManifest(data), Seq(Seq(RawMeta)), 0 .. n)
<1> DEFINE l == Len(data)
           h == Len(Header)
           start == h + U32
           count == Number(data, h, U32)
           P == 0 .. n
           Q == 0 .. l
           item == [q \in P |-> DecodeLevel(p, q)]
           more == [q \in Q |-> DecodeLevel(data, q)]
<1>1. /\ Len(p) = n /\ U32 \in Nat /\ l \in Nat /\ Places(p) = P /\ Places(data) = Q
      /\ P \subseteq Q /\ SubSeq(data, 1, l) = data /\ h \in Nat /\ start \in Nat
  <2>1. /\ Len(p) = n /\ l \in Nat /\ Places(p) = P /\ Places(data) = Q
        /\ P \subseteq Q /\ SubSeq(data, 1, l) = data
    BY FrontPlaces
  <2>2. h \in Nat /\ U32 \in Nat
    BY KeysAreBytes, HeaderBytes
  <2>3. start \in Nat
    <3> HIDE DEF h
    <3> QED BY <2>2
  <2> QED BY <2>1, <2>2, <2>3
<1>2. CASE n < start
  <2>1. DecodeManifest(p) = Corruption
    BY <1>1, <1>2 DEF DecodeManifest
  <2> QED BY <2>1, ResultsAre DEF Agrees
<1>3. CASE ~(n < start)
  <2>1. Number(p, h, U32) = count /\ count \in Nat
    <3>1. h + U32 <= n
      BY <1>1, <1>3
    <3> HIDE DEF h
    <3> QED BY <1>1, <3>1, FrontNumber
  <2>2. SubSeq(p, 1, h) = SubSeq(data, 1, h)
    <3>1. h <= n
      BY <1>1, <1>3
    <3> HIDE DEF h
    <3> QED BY <1>1, <3>1, FrontOfFront
  <2>3. ~(l < start) /\ start \in P
    <3> HIDE DEF l, start
    <3>1. n <= l
      BY DEF l
    <3> QED BY <1>1, <1>3, <3>1
  <2> HIDE DEF count
  <2>4. CASE SubSeq(data, 1, h) # Header
    <3>1. DecodeManifest(p) = Corruption
      BY <2>2, <2>4 DEF DecodeManifest
    <3> QED BY <3>1, ResultsAre DEF Agrees
  <2>5. CASE SubSeq(data, 1, h) = Header
    <3>1. DecodeManifest(p) = DecodeMany(item, count, start)
      BY <1>1, <1>3, <2>1, <2>2, <2>5 DEF DecodeManifest
    <3>2. DecodeManifest(data) = DecodeMany(more, count, start)
      BY <1>1, <2>3, <2>5 DEF DecodeManifest, count
    <3>3. item \in [P -> Results(Seq(RawMeta), P)]
      <4>1. ASSUME NEW q \in P PROVE DecodeLevel(p, q) \in Results(Seq(RawMeta), P)
        <5>1. q \in Nat
          OBVIOUS
        <5>2. Agrees(DecodeLevel(p, q), DecodeLevel(data, q), Seq(RawMeta), P)
          BY <5>1, FrontLevel
        <5> QED BY <5>2 DEF Agrees
      <4> QED BY <4>1
    <3>4. more \in [Q -> Results(Seq(RawMeta), Q)]
      <4>1. ASSUME NEW q \in Q PROVE DecodeLevel(data, q) \in Results(Seq(RawMeta), Q)
        <5>1. q \in Nat /\ l <= l
          BY <1>1
        <5>2. Agrees(DecodeLevel(data, q), DecodeLevel(data, q), Seq(RawMeta), 0 .. l)
          <6> HIDE DEF P, Q
          <6> QED BY <1>1, <5>1, FrontLevel DEF l
        <5> QED BY <5>2 DEF Agrees
      <4> QED BY <4>1
    <3>5. \A q \in P : item[q].ok => more[q] = item[q]
      <4>1. ASSUME NEW q \in P
            PROVE  DecodeLevel(p, q).ok => DecodeLevel(data, q) = DecodeLevel(p, q)
        <5>1. q \in Nat
          OBVIOUS
        <5>2. Agrees(DecodeLevel(p, q), DecodeLevel(data, q), Seq(RawMeta), P)
          BY <5>1, FrontLevel
        <5> QED BY <5>2 DEF Agrees
      <4>2. \A q \in P : item[q] = DecodeLevel(p, q) /\ more[q] = DecodeLevel(data, q)
        <5> HIDE DEF P, Q
        <5> QED BY <1>1
      <4> QED BY <4>1, <4>2
    <3> HIDE DEF item, more, start, P, Q
    <3>6. Agrees(DecodeMany(item, count, start), DecodeMany(more, count, start),
                 Seq(Seq(RawMeta)), P)
      BY <1>1, <2>1, <2>3, <3>3, <3>4, <3>5, ManyAgree
    <3> QED BY <3>1, <3>2, <3>6 DEF P
  <2> QED BY <2>4, <2>5
<1> QED BY <1>2, <1>3

(* Bytes that are joined part by part.                                      *)
JoinedBy(f, n, start, part) ==
    /\ f \in [0 .. n -> Seq(Byte)] /\ f[0] = start
    /\ \A i \in 1 .. n : f[i] = f[i - 1] \o part[i]

(* There are such bytes for any parts.                                      *)
LEMMA JoinedExists ==
  ASSUME NEW n \in Nat, NEW start \in Seq(Byte), NEW part \in [1 .. n -> Seq(Byte)]
  PROVE  \E f : JoinedBy(f, n, start, part)
<1> DEFINE S == Seq(Byte)
           g == [i \in 1 .. n |-> [x \in S |-> x \o part[i]]]
<1>1. g \in [1 .. n -> [S -> S]]
  <2>1. ASSUME NEW i \in 1 .. n, NEW x \in S PROVE x \o part[i] \in S
    <3>1. part[i] \in Seq(Byte)
      OBVIOUS
    <3> QED BY <3>1, Joined
  <2> HIDE DEF S
  <2> QED BY <2>1
<1>2. PICK f \in [0 .. n -> S] : Recurs(f, n, start, g)
  <2> HIDE DEF g
  <2> QED BY <1>1, RecursExists
<1>3. f = [i \in 0 .. n |-> IF i = 0 THEN start ELSE g[i][f[i - 1]]]
  BY <1>2 DEF Recurs
<1>4. f[0] = start
  <2>1. 0 \in 0 .. n
    OBVIOUS
  <2> HIDE DEF g
  <2> QED BY <1>3, <2>1
<1>5. ASSUME NEW i \in 1 .. n PROVE f[i] = f[i - 1] \o part[i]
  <2>1. i \in 0 .. n /\ i # 0 /\ i - 1 \in 0 .. n
    OBVIOUS
  <2>2. f[i] = g[i][f[i - 1]]
    <3> HIDE DEF g
    <3> QED BY <1>3, <2>1
  <2>3. f[i - 1] \in S
    BY <2>1
  <2> HIDE DEF S
  <2> QED BY <2>2, <2>3
<1> QED BY <1>4, <1>5 DEF JoinedBy

(* Where joined bytes lie, their parts lie one behind the other.            *)
LEMMA PartsLie ==
  ASSUME NEW n \in Nat, NEW start, NEW part \in [1 .. n -> Seq(Byte)], NEW f,
         JoinedBy(f, n, start, part), NEW data \in Seq(Byte), NEW pos, Lies(f[n], data, pos)
  PROVE  /\ \A i \in 0 .. n : Lies(f[i], data, pos)
         /\ \A i \in 1 .. n : /\ Lies(part[i], data, pos + Len(f[i - 1]))
                              /\ Len(f[i]) = Len(f[i - 1]) + Len(part[i])
         /\ \A i \in 0 .. n : Len(f[i]) \in Nat /\ pos + Len(f[i]) \in 0 .. Len(data)
<1>1. /\ f \in [0 .. n -> Seq(Byte)]
      /\ \A i \in 1 .. n : f[i] = f[i - 1] \o part[i]
  BY DEF JoinedBy
<1>2. \A i \in 0 .. n : f[i] \in Seq(Byte)
  BY <1>1
<1>3. \A i \in 1 .. n : part[i] \in Seq(Byte) /\ i - 1 \in 0 .. n /\ i \in 0 .. n
  OBVIOUS
<1> DEFINE T == {j \in 0 .. n : Lies(f[n - j], data, pos)}
<1>4. 0 \in T
  OBVIOUS
<1>5. ASSUME NEW j \in 1 .. n, j - 1 \in T PROVE j \in T
  <2> DEFINE i == n - (j - 1)
  <2>1. i \in 1 .. n /\ n - j = i - 1
    OBVIOUS
  <2>2. Lies(f[i], data, pos)
    BY <1>5
  <2> HIDE DEF i
  <2>3. f[i] = f[i - 1] \o part[i] /\ f[i - 1] \in Seq(Byte) /\ part[i] \in Seq(Byte)
    BY <1>1, <1>2, <1>3, <2>1
  <2> DEFINE a == f[i - 1]
             b == part[i]
  <2>4. Lies(a, data, pos)
    <3>1. a \in Seq(Byte) /\ b \in Seq(Byte) /\ Lies(a \o b, data, pos)
      BY <2>2, <2>3
    <3> HIDE DEF a, b
    <3> QED BY <3>1, LiesHalves
  <2> QED BY <2>1, <2>4
<1>6. 0 .. n \subseteq T
  <2> HIDE DEF T
  <2> QED BY <1>4, <1>5, UpTo
<1>7. ASSUME NEW i \in 0 .. n PROVE Lies(f[i], data, pos)
  <2>1. n - i \in 0 .. n /\ n - (n - i) = i
    OBVIOUS
  <2>2. n - i \in T
    <3> HIDE DEF T
    <3> QED BY <1>6, <2>1
  <2> QED BY <2>1, <2>2
<1>8. ASSUME NEW i \in 1 .. n
      PROVE  /\ Lies(part[i], data, pos + Len(f[i - 1]))
             /\ Len(f[i]) = Len(f[i - 1]) + Len(part[i])
  <2> DEFINE a == f[i - 1]
             b == part[i]
  <2>1. a \in Seq(Byte) /\ b \in Seq(Byte) /\ f[i] = a \o b /\ Lies(a \o b, data, pos)
    <3>1. f[i] = a \o b
      BY <1>1
    <3>2. Lies(f[i], data, pos)
      BY <1>3, <1>7
    <3> QED BY <1>2, <1>3, <3>1, <3>2
  <2> HIDE DEF a, b
  <2>2. Lies(b, data, pos + Len(a))
    BY <2>1, LiesHalves
  <2>3. Len(a \o b) = Len(a) + Len(b)
    BY <2>1, Joined
  <2> QED BY <2>1, <2>2, <2>3 DEF a, b
<1>9. ASSUME NEW i \in 0 .. n PROVE Len(f[i]) \in Nat /\ pos + Len(f[i]) \in 0 .. Len(data)
  <2> DEFINE k == Len(f[i])
             l == Len(data)
  <2>1. k \in Nat /\ l \in Nat
    BY <1>2, LenProperties
  <2>2. pos \in Nat /\ pos + k <= l
    BY <1>7 DEF Lies
  <2> HIDE DEF k, l
  <2>3. k \in Nat /\ pos + k \in 0 .. l
    BY <2>1, <2>2
  <2> QED BY <2>3 DEF k, l
<1> QED BY <1>7, <1>8, <1>9

(* The bytes of a level.                                                    *)
LevelWritable(metas) ==
    /\ metas \in Seq(RawMeta) /\ Fits(Len(metas), U32, Base)
    /\ \A i \in 1 .. Len(metas) : Writable(metas[i])

(* EncodeLevel joins the bytes of its metas behind their number.            *)
LEMMA LevelBytes ==
  ASSUME NEW metas, LevelWritable(metas)
  PROVE  /\ JoinedBy(EncodedMetas(metas), Len(metas), ToLE(Len(metas), U32, Base),
                     [i \in 1 .. Len(metas) |-> EncodeMeta(metas[i])])
         /\ EncodeLevel(metas) \in Seq(Byte) /\ Len(metas) \in Nat
<1> DEFINE n == Len(metas)
           start == ToLE(n, U32, Base)
           part == [i \in 1 .. n |-> EncodeMeta(metas[i])]
           bytes == EncodedMetas(metas)
<1>1. n \in Nat /\ \A i \in 1 .. n : Writable(metas[i])
  BY LenProperties DEF LevelWritable
<1> HIDE DEF n
<1>2. start \in Seq(Byte)
  BY <1>1, Digits, KeysAreBytes
<1>3. part \in [1 .. n -> Seq(Byte)] /\ \A i \in 1 .. n : part[i] = EncodeMeta(metas[i])
  BY <1>1, MetaBytes
<1> HIDE DEF start, part
<1>4. PICK f : JoinedBy(f, n, start, part)
  BY <1>1, <1>2, <1>3, JoinedExists
<1>5. f = [i \in 0 .. n |-> IF i = 0 THEN start ELSE f[i - 1] \o EncodeMeta(metas[i])]
  <2>1. \A i \in 0 .. n : i # 0 => f[i] = f[i - 1] \o EncodeMeta(metas[i])
    <3>1. \A i \in 0 .. n : i # 0 => i \in 1 .. n
      BY <1>1
    <3> QED BY <1>3, <1>4, <3>1 DEF JoinedBy
  <2>2. f \in [0 .. n -> Seq(Byte)] /\ f[0] = start
    BY <1>4 DEF JoinedBy
  <2> QED BY <2>1, <2>2
<1>6. bytes = CHOOSE t : t = [i \in 0 .. n |-> IF i = 0 THEN start
                                              ELSE t[i - 1] \o EncodeMeta(metas[i])]
  BY DEF EncodedMetas, n, start
<1>7. bytes = [i \in 0 .. n |-> IF i = 0 THEN start ELSE bytes[i - 1] \o EncodeMeta(metas[i])]
  <2> HIDE DEF bytes
  <2> QED BY <1>5, <1>6
<1> HIDE DEF bytes
<1>8. bytes[0] = start /\ \A i \in 1 .. n : bytes[i] = bytes[i - 1] \o part[i]
  <2>1. 0 \in 0 .. n /\ \A i \in 1 .. n : i \in 0 .. n /\ i # 0
    BY <1>1
  <2> QED BY <1>3, <1>7, <2>1
<1> DEFINE T == {i \in 0 .. n : bytes[i] \in Seq(Byte)}
<1>9. 0 \in T
  BY <1>1, <1>2, <1>8
<1>10. ASSUME NEW i \in 1 .. n, i - 1 \in T PROVE i \in T
  <2>1. bytes[i - 1] \in Seq(Byte) /\ part[i] \in Seq(Byte)
    BY <1>3, <1>10
  <2>2. bytes[i] \in Seq(Byte)
    BY <1>8, <2>1, Joined
  <2> QED BY <1>1, <2>2
<1>11. 0 .. n \subseteq T
  <2> HIDE DEF T
  <2> QED BY <1>1, <1>9, <1>10, UpTo
<1>12. bytes \in [0 .. n -> Seq(Byte)]
  BY <1>7, <1>11
<1>13. JoinedBy(bytes, n, start, part)
  BY <1>8, <1>12 DEF JoinedBy
<1>14. EncodeLevel(metas) = bytes[n] /\ bytes[n] \in Seq(Byte)
  <2>1. n \in 0 .. n
    BY <1>1
  <2> QED BY <1>12, <2>1 DEF EncodeLevel, bytes, n
<1> QED BY <1>1, <1>13, <1>14 DEF bytes, n, start, part

(* A level is read where its bytes lie.                                     *)
LEMMA LevelRead ==
  ASSUME NEW metas, LevelWritable(metas), NEW data \in Seq(Byte), NEW pos,
         Lies(EncodeLevel(metas), data, pos)
  PROVE  DecodeLevel(data, pos) = Decoded(metas, pos + Len(EncodeLevel(metas)))
<1> DEFINE n == Len(metas)
           l == Len(data)
           P == 0 .. l
           part == [i \in 1 .. n |-> EncodeMeta(metas[i])]
           f == EncodedMetas(metas)
           start == ToLE(n, U32, Base)
           item == [q \in P |-> DecodeMeta(data, q)]
           at == [i \in 0 .. n |-> pos + Len(f[i])]
<1>1. /\ n \in Nat /\ metas \in Seq(RawMeta) /\ Fits(n, U32, Base)
      /\ \A i \in 1 .. n : Writable(metas[i])
  BY LenProperties DEF LevelWritable
<1>2. JoinedBy(f, n, start, part)
  BY LevelBytes
<1>3. EncodeLevel(metas) = f[n]
  BY DEF EncodeLevel
<1>4. part \in [1 .. n -> Seq(Byte)] /\ \A i \in 1 .. n : part[i] = EncodeMeta(metas[i])
  <2> HIDE DEF n
  <2> QED BY <1>1, MetaBytes
<1>5. /\ start \in Seq(Byte) /\ Len(start) = U32 /\ U32 \in Nat
      /\ l \in Nat /\ Places(data) = P /\ SubSeq(data, 1, l) = data
  <2>1. start \in Seq(Byte) /\ Len(start) = U32 /\ U32 \in Nat
    <3> HIDE DEF n
    <3> QED BY <1>1, Digits, KeysAreBytes
  <2>2. l \in Nat /\ l <= l
    <3>1. l \in Nat
      BY LenProperties
    <3> QED BY <3>1
  <2>3. Places(data) = P /\ SubSeq(data, 1, l) = data
    <3> HIDE DEF P
    <3> QED BY <2>2, FrontPlaces DEF P
  <2> QED BY <2>1, <2>2, <2>3
<1> HIDE DEF f, part, n
<1>6. Lies(f[n], data, pos)
  BY <1>3
<1>7. /\ \A i \in 0 .. n : Lies(f[i], data, pos)
      /\ \A i \in 1 .. n : /\ Lies(part[i], data, pos + Len(f[i - 1]))
                           /\ Len(f[i]) = Len(f[i - 1]) + Len(part[i])
      /\ \A i \in 0 .. n : Len(f[i]) \in Nat /\ pos + Len(f[i]) \in 0 .. Len(data)
  <2> HIDE DEF start
  <2> QED BY <1>1, <1>2, <1>4, <1>6, PartsLie
<1>8. f[0] = start /\ 0 \in 0 .. n /\ n \in 0 .. n
  BY <1>1, <1>2 DEF JoinedBy
<1>9. Number(data, pos, U32) = n /\ pos + U32 <= l /\ pos \in Nat
  <2>1. Lies(ToLE(n, U32, Base), data, pos)
    BY <1>7, <1>8
  <2> QED BY <1>1, <1>5, <2>1, NumberRead
<1>10. at[0] = pos + U32
  BY <1>5, <1>8
<1>11. at \in [0 .. n -> P]
  BY <1>7
<1>12. item \in [P -> Results(RawMeta, P)]
  <2>1. ASSUME NEW q \in P PROVE DecodeMeta(data, q) \in Results(RawMeta, P)
    <3>1. q \in Nat /\ l <= l
      BY <1>5
    <3>2. Agrees(DecodeMeta(data, q), DecodeMeta(data, q), RawMeta, 0 .. l)
      <4> HIDE DEF P
      <4> QED BY <1>5, <3>1, FrontMeta DEF l
    <3> QED BY <3>2 DEF Agrees
  <2> QED BY <2>1
<1>13. ASSUME NEW i \in 1 .. n PROVE item[at[i - 1]] = Decoded(metas[i], at[i])
  <2>1. i - 1 \in 0 .. n /\ i \in 0 .. n
    BY <1>1
  <2> DEFINE a == pos + Len(f[i - 1])
             b == pos + Len(f[i])
             m == metas[i]
  <2>2. at[i - 1] = a /\ at[i] = b /\ a \in P
    BY <1>7, <2>1
  <2>3. Writable(m) /\ Lies(EncodeMeta(m), data, a)
    BY <1>1, <1>4, <1>7
  <2>4. b = a + Len(EncodeMeta(m))
    <3>1. Len(EncodeMeta(m)) \in Nat
      <4>1. EncodeMeta(m) \in Seq(Byte)
        BY <2>3, MetaBytes
      <4> QED BY <4>1, LenProperties
    <3>2. Len(f[i]) = Len(f[i - 1]) + Len(EncodeMeta(m)) /\ Len(f[i - 1]) \in Nat
      BY <1>4, <1>7, <2>1
    <3> DEFINE x == Len(f[i - 1])
               y == Len(f[i])
               e == Len(EncodeMeta(m))
    <3>3. e \in Nat /\ x \in Nat /\ y = x + e /\ pos \in Nat
      BY <1>9, <3>1, <3>2
    <3> HIDE DEF x, y, e
    <3>4. pos + y = (pos + x) + e
      BY <3>3
    <3> QED BY <3>4 DEF x, y, e
  <2> HIDE DEF a, b, m, at
  <2>5. DecodeMeta(data, a) = Decoded(m, b)
    BY <2>3, <2>4, MetaRead
  <2>6. item[a] = DecodeMeta(data, a)
    <3> HIDE DEF P
    <3> QED BY <2>2
  <2> HIDE DEF item
  <2> QED BY <2>2, <2>5, <2>6 DEF m
<1>14. DecodeMany(item, n, at[0]) = Decoded(metas, at[n])
  <2> HIDE DEF item, at, P
  <2>1. /\ at \in [0 .. Len(metas) -> P]
        /\ Chained(item, at, metas)
    BY <1>11, <1>13 DEF n, Chained
  <2>2. DecodeMany(item, Len(metas), at[0]) = Decoded(metas, at[Len(metas)])
    BY <1>1, <1>12, <2>1, ManyRead
  <2> QED BY <2>2 DEF n
<1>15. DecodeLevel(data, pos) = DecodeMany(item, n, pos + U32)
  <2>1. ~(l < pos + U32)
    BY <1>5, <1>9
  <2>2. DecodeLevel(data, pos) = DecodeMetas(data, pos)
    BY <2>1 DEF DecodeLevel
  <2>3. DecodeMetas(data, pos) = DecodeMany(item, n, pos + U32)
    <3> HIDE DEF P
    <3> QED BY <1>5, <1>9 DEF DecodeMetas
  <2> QED BY <2>2, <2>3
<1>16. at[n] = pos + Len(EncodeLevel(metas))
  BY <1>3, <1>8
<1> HIDE DEF at, item
<1> QED BY <1>10, <1>14, <1>15, <1>16

(* The bytes of a manifest.                                                 *)
ManifestWritable(ls) ==
    /\ ls \in Seq(Seq(RawMeta)) /\ Fits(Len(ls), U32, Base)
    /\ \A i \in 1 .. Len(ls) : LevelWritable(ls[i])

(* EncodeManifest joins the bytes of its levels behind their number.        *)
LEMMA ManifestBytes ==
  ASSUME NEW ls, ManifestWritable(ls)
  PROVE  /\ JoinedBy(EncodedLevels(ls), Len(ls), Header \o ToLE(Len(ls), U32, Base),
                     [i \in 1 .. Len(ls) |-> EncodeLevel(ls[i])])
         /\ EncodeManifest(ls) \in Seq(Byte) /\ Len(ls) \in Nat
<1> DEFINE n == Len(ls)
           start == Header \o ToLE(n, U32, Base)
           part == [i \in 1 .. n |-> EncodeLevel(ls[i])]
           bytes == EncodedLevels(ls)
<1>1. n \in Nat /\ \A i \in 1 .. n : LevelWritable(ls[i])
  BY LenProperties DEF ManifestWritable
<1> HIDE DEF n
<1>2. start \in Seq(Byte)
  <2>1. ToLE(n, U32, Base) \in Seq(Byte)
    BY <1>1, Digits, KeysAreBytes
  <2> QED BY <2>1, HeaderBytes, Joined
<1>3. part \in [1 .. n -> Seq(Byte)] /\ \A i \in 1 .. n : part[i] = EncodeLevel(ls[i])
  BY <1>1, LevelBytes
<1> HIDE DEF start, part
<1>4. PICK f : JoinedBy(f, n, start, part)
  BY <1>1, <1>2, <1>3, JoinedExists
<1>5. f = [i \in 0 .. n |-> IF i = 0 THEN start ELSE f[i - 1] \o EncodeLevel(ls[i])]
  <2>1. \A i \in 0 .. n : i # 0 => f[i] = f[i - 1] \o EncodeLevel(ls[i])
    <3>1. \A i \in 0 .. n : i # 0 => i \in 1 .. n
      BY <1>1
    <3> QED BY <1>3, <1>4, <3>1 DEF JoinedBy
  <2>2. f \in [0 .. n -> Seq(Byte)] /\ f[0] = start
    BY <1>4 DEF JoinedBy
  <2> QED BY <2>1, <2>2
<1>6. bytes = CHOOSE t : t = [i \in 0 .. n |-> IF i = 0 THEN start
                                              ELSE t[i - 1] \o EncodeLevel(ls[i])]
  BY DEF EncodedLevels, n, start
<1>7. bytes = [i \in 0 .. n |-> IF i = 0 THEN start ELSE bytes[i - 1] \o EncodeLevel(ls[i])]
  <2> HIDE DEF bytes
  <2> QED BY <1>5, <1>6
<1> HIDE DEF bytes
<1>8. bytes[0] = start /\ \A i \in 1 .. n : bytes[i] = bytes[i - 1] \o part[i]
  <2>1. 0 \in 0 .. n /\ \A i \in 1 .. n : i \in 0 .. n /\ i # 0
    BY <1>1
  <2> QED BY <1>3, <1>7, <2>1
<1> DEFINE T == {i \in 0 .. n : bytes[i] \in Seq(Byte)}
<1>9. 0 \in T
  BY <1>1, <1>2, <1>8
<1>10. ASSUME NEW i \in 1 .. n, i - 1 \in T PROVE i \in T
  <2>1. bytes[i - 1] \in Seq(Byte) /\ part[i] \in Seq(Byte)
    BY <1>3, <1>10
  <2>2. bytes[i] \in Seq(Byte)
    BY <1>8, <2>1, Joined
  <2> QED BY <1>1, <2>2
<1>11. 0 .. n \subseteq T
  <2> HIDE DEF T
  <2> QED BY <1>1, <1>9, <1>10, UpTo
<1>12. bytes \in [0 .. n -> Seq(Byte)]
  BY <1>7, <1>11
<1>13. JoinedBy(bytes, n, start, part)
  BY <1>8, <1>12 DEF JoinedBy
<1>14. EncodeManifest(ls) = bytes[n] /\ bytes[n] \in Seq(Byte)
  <2>1. n \in 0 .. n
    BY <1>1
  <2> QED BY <1>12, <2>1 DEF EncodeManifest, bytes, n
<1> QED BY <1>1, <1>13, <1>14 DEF bytes, n, start, part

(* A manifest decodes to what was encoded ...                               *)
LEMMA ManifestRead ==
  ASSUME NEW ls, ManifestWritable(ls)
  PROVE  DecodeManifest(EncodeManifest(ls)) = Decoded(ls, Len(EncodeManifest(ls)))
<1> DEFINE n == Len(ls)
           data == EncodeManifest(ls)
           l == Len(data)
           P == 0 .. l
           h == Len(Header)
           part == [i \in 1 .. n |-> EncodeLevel(ls[i])]
           f == EncodedLevels(ls)
           count == ToLE(n, U32, Base)
           start == Header \o count
           item == [q \in P |-> DecodeLevel(data, q)]
           at == [i \in 0 .. n |-> 0 + Len(f[i])]
<1>1. /\ n \in Nat /\ ls \in Seq(Seq(RawMeta)) /\ Fits(n, U32, Base)
      /\ \A i \in 1 .. n : LevelWritable(ls[i])
  BY LenProperties DEF ManifestWritable
<1>2. JoinedBy(f, n, start, part) /\ data \in Seq(Byte)
  BY ManifestBytes
<1>3. data = f[n]
  BY DEF EncodeManifest
<1>4. part \in [1 .. n -> Seq(Byte)] /\ \A i \in 1 .. n : part[i] = EncodeLevel(ls[i])
  <2> HIDE DEF n
  <2> QED BY <1>1, LevelBytes
<1> HIDE DEF f, part, n, data
<1>5. count \in Seq(Byte) /\ Len(count) = U32 /\ U32 \in Nat
  BY <1>1, Digits, KeysAreBytes
<1>6. Header \in Seq(Byte) /\ h \in Nat
  BY HeaderBytes
<1>7. start \in Seq(Byte) /\ Len(start) = h + U32
  <2> HIDE DEF count
  <2> QED BY <1>5, <1>6, Joined
<1>8. l \in Nat /\ l <= l /\ Places(data) = P /\ SubSeq(data, 1, l) = data
  <2>1. l \in Nat
    BY <1>2, LenProperties
  <2>2. l <= l
    <3> HIDE DEF l
    <3> QED BY <2>1
  <2>3. Places(data) = P /\ SubSeq(data, 1, l) = data
    <3> HIDE DEF P
    <3> QED BY <1>2, <2>1, <2>2, FrontPlaces DEF P
  <2> QED BY <2>1, <2>2, <2>3
<1>9. Lies(f[n], data, 0)
  <2>1. Lies(data, data, 0)
    <3>1. 0 \in Nat /\ 0 + Len(data) <= Len(data)
      BY <1>8
    <3>2. \A i \in 1 .. Len(data) : data[0 + i] = data[i]
      <4>1. \A i \in 1 .. Len(data) : 0 + i = i
        OBVIOUS
      <4> QED BY <4>1
    <3> QED BY <3>1, <3>2 DEF Lies
  <2> QED BY <1>3, <2>1
<1>10. /\ \A i \in 0 .. n : Lies(f[i], data, 0)
       /\ \A i \in 1 .. n : /\ Lies(part[i], data, 0 + Len(f[i - 1]))
                            /\ Len(f[i]) = Len(f[i - 1]) + Len(part[i])
       /\ \A i \in 0 .. n : Len(f[i]) \in Nat /\ 0 + Len(f[i]) \in 0 .. Len(data)
  <2> HIDE DEF start
  <2> QED BY <1>1, <1>2, <1>4, <1>9, PartsLie
<1>11. f[0] = start /\ 0 \in 0 .. n /\ n \in 0 .. n
  BY <1>1, <1>2 DEF JoinedBy
<1>12. Lies(Header, data, 0) /\ Lies(count, data, 0 + h)
  <2>1. Lies(start, data, 0)
    BY <1>10, <1>11
  <2> HIDE DEF count
  <2> QED BY <1>2, <1>5, <1>6, <2>1, LiesHalves
<1>13. Number(data, h, U32) = n /\ h + U32 <= l
  <2>1. 0 + h = h
    BY <1>6
  <2>2. Lies(count, data, h)
    BY <1>12, <2>1
  <2> QED BY <1>1, <1>2, <1>5, <2>2, NumberRead
<1>14. SubSeq(data, 1, h) = Header
  <2>1. SubSeq(data, 0 + 1, 0 + h) = Header
    BY <1>2, <1>6, <1>12, LiesRead
  <2>2. 0 + 1 = 1 /\ 0 + h = h
    BY <1>6
  <2> QED BY <2>1, <2>2
<1>15. at[0] = h + U32
  <2>1. at[0] = 0 + Len(start)
    <3> HIDE DEF start
    <3> QED BY <1>11
  <2> HIDE DEF at, start, h
  <2> QED BY <1>5, <1>6, <1>7, <2>1
<1>16. at \in [0 .. n -> P]
  BY <1>10
<1>17. item \in [P -> Results(Seq(RawMeta), P)]
  <2>1. ASSUME NEW q \in P PROVE DecodeLevel(data, q) \in Results(Seq(RawMeta), P)
    <3>1. q \in Nat
      BY <1>8
    <3>2. Agrees(DecodeLevel(data, q), DecodeLevel(data, q), Seq(RawMeta), 0 .. l)
      <4> HIDE DEF P
      <4> QED BY <1>2, <1>8, <3>1, FrontLevel DEF l
    <3> QED BY <3>2 DEF Agrees
  <2> QED BY <2>1
<1>18. ASSUME NEW i \in 1 .. n PROVE item[at[i - 1]] = Decoded(ls[i], at[i])
  <2>1. i - 1 \in 0 .. n /\ i \in 0 .. n
    BY <1>1
  <2> DEFINE a == 0 + Len(f[i - 1])
             b == 0 + Len(f[i])
             m == ls[i]
  <2>2. at[i - 1] = a /\ at[i] = b /\ a \in P
    BY <1>10, <2>1
  <2>3. LevelWritable(m) /\ Lies(EncodeLevel(m), data, a)
    BY <1>1, <1>4, <1>10
  <2>4. b = a + Len(EncodeLevel(m))
    <3>1. Len(EncodeLevel(m)) \in Nat
      <4>1. EncodeLevel(m) \in Seq(Byte)
        BY <2>3, LevelBytes
      <4> QED BY <4>1, LenProperties
    <3>2. Len(f[i]) = Len(f[i - 1]) + Len(EncodeLevel(m)) /\ Len(f[i - 1]) \in Nat
      BY <1>4, <1>10, <2>1
    <3> QED BY <3>1, <3>2
  <2> HIDE DEF a, b, m, at
  <2>5. DecodeLevel(data, a) = Decoded(m, b)
    BY <1>2, <2>3, <2>4, LevelRead
  <2>6. item[a] = DecodeLevel(data, a)
    <3> HIDE DEF P
    <3> QED BY <2>2
  <2> HIDE DEF item
  <2> QED BY <2>2, <2>5, <2>6 DEF m
<1>19. DecodeMany(item, n, at[0]) = Decoded(ls, at[n])
  <2> HIDE DEF item, at, P
  <2>1. /\ at \in [0 .. Len(ls) -> P]
        /\ Chained(item, at, ls)
    BY <1>16, <1>18 DEF n, Chained
  <2>2. DecodeMany(item, Len(ls), at[0]) = Decoded(ls, at[Len(ls)])
    <3> DEFINE V == Seq(RawMeta)
    <3>1. ls \in Seq(V) /\ item \in [P -> Results(V, P)]
      BY <1>1, <1>17
    <3> HIDE DEF V
    <3> QED BY <2>1, <3>1, ManyRead
  <2> QED BY <2>2 DEF n
<1>20. DecodeManifest(data) = DecodeMany(item, n, h + U32)
  <2>1. ~(l < h + U32)
    <3> HIDE DEF l, h
    <3> QED BY <1>5, <1>6, <1>8, <1>13
  <2> HIDE DEF P
  <2> QED BY <1>8, <1>13, <1>14, <2>1 DEF DecodeManifest
<1>21. at[n] = l
  <2>1. at[n] = 0 + l
    BY <1>3, <1>11
  <2> HIDE DEF at, l
  <2> QED BY <1>8, <2>1
<1> HIDE DEF at, item, l
<1>22. DecodeManifest(data) = Decoded(ls, l)
  BY <1>15, <1>19, <1>20, <1>21
<1> QED BY <1>22 DEF l, data

(* ... and cut short anywhere to nothing.                                   *)
LEMMA ManifestCut ==
  ASSUME NEW ls, ManifestWritable(ls), NEW n \in 0 .. Len(EncodeManifest(ls)) - 1
  PROVE  ~DecodeManifest(SubSeq(EncodeManifest(ls), 1, n)).ok
<1> DEFINE data == EncodeManifest(ls)
           p == SubSeq(data, 1, n)
           l == Len(data)
<1>1. data \in Seq(Byte) /\ l \in Nat
  BY ManifestBytes, LenProperties
<1>2. DecodeManifest(data) = Decoded(ls, l)
  BY ManifestRead
<1> HIDE DEF data
<1>3. n \in Nat /\ n <= l /\ n < l
  <2>1. n \in 0 .. l - 1
    BY DEF data
  <2> HIDE DEF l
  <2> QED BY <1>1, <2>1
<1>4. Agrees(DecodeManifest(p), DecodeManifest(data), Seq(Seq(RawMeta)), 0 .. n)
  BY <1>1, <1>3, FrontManifest
<1> DEFINE r == DecodeManifest(p)
<1> HIDE DEF p
<1>5. r \in Results(Seq(Seq(RawMeta)), 0 .. n) /\ (r.ok => DecodeManifest(data) = r)
  BY <1>4 DEF Agrees
<1> HIDE DEF r
<1>6. ASSUME r.ok PROVE FALSE
  <2>1. r.pos \in 0 .. n
    BY <1>5, <1>6, ResultCases
  <2>2. Decoded(ls, l).pos = l
    BY DEF Decoded
  <2>3. r.pos = l
    BY <1>2, <1>5, <1>6, <2>2
  <2> HIDE DEF l
  <2> QED BY <1>1, <1>3, <2>1, <2>3
<1>7. r.ok \in BOOLEAN
  BY <1>5, ResultCases
<1> QED BY <1>6, <1>7 DEF r, p, data
============================================================================
