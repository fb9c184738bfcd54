--------------------------- MODULE ReadPathProofs ---------------------------
(***************************************************************************)
(* Proofs about the bytes of an SSTable and about the readers that share a  *)
(* block cache: what is written into a table is what is read from it,       *)
(* readers return what their tables hold, and the cache keeps the blocks    *)
(* read last, within its capacity.                                          *)
(***************************************************************************)
EXTENDS ReadPath, ByteOrderProofs

----------------------------------------------------------------------------
(* Tables: builder, blocks, index, filter and reader.                       *)

(* prefix_shared_len is a length both keys have, and they agree up to it.   *)
LEMMA SharedLenAgrees ==
  ASSUME NEW a \in Seq(Nat), NEW b \in Seq(Nat)
  PROVE  /\ SharedLen(a, b) \in Nat
         /\ SharedLen(a, b) <= Len(a) /\ SharedLen(a, b) <= Len(b)
         /\ \A i \in 1 .. SharedLen(a, b) : a[i] = b[i]
<1> DEFINE m == Min({Len(a), Len(b)})
           T == {n \in 0 .. m : \A i \in 1 .. n : a[i] = b[i]}
<1>1. m \in Nat /\ m <= Len(a) /\ m <= Len(b)
  <2>1. \E x \in {Len(a), Len(b)} : \A y \in {Len(a), Len(b)} : x =< y
    OBVIOUS
  <2> QED BY <2>1 DEF Min
<1>2. T \subseteq 0 .. m /\ 0 \in T
  BY <1>1
<1>3. \E x \in T : \A y \in T : x >= y
  <2> HIDE DEF T, m
  <2> QED BY <1>1, <1>2, GreatestUpTo
<1>4. Max(T) \in T
  <2> HIDE DEF T
  <2> QED BY <1>3 DEF Max
<1>5. SharedLen(a, b) = Max(T)
  BY DEF SharedLen
<1>6. Max(T) \in 0 .. m /\ \A i \in 1 .. Max(T) : a[i] = b[i]
  <2> HIDE DEF m
  <2> QED BY <1>4
<1> HIDE DEF T, m
<1> QED BY <1>1, <1>5, <1>6

(* A key is its shared prefix followed by its suffix.                       *)
LEMMA Rejoined ==
  ASSUME NEW a \in Seq(Nat), NEW b \in Seq(Nat)
  PROVE  /\ SubSeq(b, SharedLen(a, b) + 1, Len(b)) \in Seq(Nat)
         /\ SubSeq(a, 1, SharedLen(a, b)) \o SubSeq(b, SharedLen(a, b) + 1, Len(b)) = b
<1> DEFINE n == SharedLen(a, b)
           s == SubSeq(a, 1, n)
           t == SubSeq(b, n + 1, Len(b))
<1>1. n \in Nat /\ n <= Len(a) /\ n <= Len(b) /\ \A i \in 1 .. n : a[i] = b[i]
  BY SharedLenAgrees
<1> HIDE DEF n
<1>2. s \in Seq(Nat) /\ Len(s) = n /\ \A i \in 1 .. n : s[i] = b[i]
  <2>1. s \in Seq(Nat) /\ Len(s) = n /\ \A i \in 1 .. n : s[i] = a[i]
    BY <1>1
  <2> HIDE DEF s
  <2> QED BY <1>1, <2>1
<1>3. t \in Seq(Nat) /\ Len(t) = Len(b) - n /\ \A i \in 1 .. Len(b) - n : t[i] = b[n + i]
  BY <1>1
<1> HIDE DEF s, t
<1>4. s \o t \in Seq(Nat) /\ Len(s \o t) = Len(b)
  <2>1. s \o t \in Seq(Nat) /\ Len(s \o t) = Len(s) + Len(t)
    BY <1>2, <1>3, ConcatProperties
  <2>2. Len(b) \in Nat
    BY LenProperties
  <2> QED BY <1>1, <1>2, <1>3, <2>1, <2>2
<1>5. ASSUME NEW i \in 1 .. Len(b) PROVE (s \o t)[i] = b[i]
  <2>1. (s \o t)[i] = IF i <= n THEN s[i] ELSE t[i - n]
    <3>1. \A x \in 1 .. Len(s) + Len(t) :
             (s \o t)[x] = IF x <= Len(s) THEN s[x] ELSE t[x - Len(s)]
      BY <1>2, <1>3, ConcatProperties
    <3>2. Len(s) + Len(t) = Len(b)
      BY <1>1, <1>2, <1>3
    <3> QED BY <1>2, <3>1, <3>2
  <2>2. CASE i <= n
    BY <1>1, <1>2, <2>1, <2>2
  <2>3. CASE ~(i <= n)
    <3>1. i - n \in 1 .. Len(b) - n /\ n + (i - n) = i
      BY <1>1, <2>3
    <3> QED BY <1>1, <1>3, <2>1, <2>3, <3>1
  <2> QED BY <2>2, <2>3
<1>6. s \o t = b
  BY <1>4, <1>5, SeqEqual
<1> QED BY <1>3, <1>6 DEF n, s, t

(* Block::encode gives packed entries, one for each entry.                  *)
LEMMA EncodeTyped ==
  ASSUME NEW block \in Seq(Entry)
  PROVE  Encode(block) \in Seq(Packed) /\ Len(Encode(block)) = Len(block)
<1> SUFFICES ASSUME NEW i \in DOMAIN block
             PROVE  Encode(block)[i] \in Packed
  <2>1. DOMAIN block = 1 .. Len(block) /\ Len(block) \in Nat
    OBVIOUS
  <2>2. Encode(block) = [i \in 1 .. Len(block) |-> Encode(block)[i]]
    BY <2>1 DEF Encode
  <2>3. (\A i \in 1 .. Len(block) : Encode(block)[i] \in Packed)
           => Encode(block) \in Seq(Packed) /\ Len(Encode(block)) = Len(block)
    BY <2>1, <2>2, IsASeq
  <2> QED BY <2>1, <2>3
<1>1. block[i] \in Entry /\ (i # 1 => block[i - 1] \in Entry)
  OBVIOUS
<1>2. CASE i = 1
  BY <1>1, <1>2 DEF Encode, Entry, Packed
<1>3. CASE i # 1
  <2>1. block[i - 1].key \in Seq(Nat) /\ block[i].key \in Seq(Nat)
    BY <1>1, <1>3 DEF Entry
  <2> QED BY <1>1, <1>3, <2>1, SharedLenAgrees, Rejoined DEF Encode, Entry, Packed
<1> QED BY <1>2, <1>3

(* The i-th packed entry.                                                   *)
LEMMA EncodedAt ==
  ASSUME NEW block \in Seq(Entry), NEW i \in 1 .. Len(block)
  PROVE  /\ block[i].key \in Seq(Nat) /\ block[i].val \in Nat
         /\ Encode(block)[i].val = block[i].val
         /\ i = 1 => Encode(block)[i].shared = 0 /\ Encode(block)[i].suffix = block[i].key
         /\ i # 1 =>
              /\ block[i - 1].key \in Seq(Nat)
              /\ Encode(block)[i].shared = SharedLen(block[i - 1].key, block[i].key)
              /\ Encode(block)[i].suffix =
                   SubSeq(block[i].key, SharedLen(block[i - 1].key, block[i].key) + 1,
                          Len(block[i].key))
<1>1. block[i] \in Entry /\ i \in DOMAIN block /\ (i # 1 => block[i - 1] \in Entry)
  OBVIOUS
<1>2. block[i].key \in Seq(Nat) /\ block[i].val \in Nat
  BY <1>1 DEF Entry
<1>3. i # 1 => block[i - 1].key \in Seq(Nat)
  BY <1>1 DEF Entry
<1>4. SubSeq(block[i].key, 1, Len(block[i].key)) = block[i].key
  BY <1>2
<1>5. Encode(block)[i].val = block[i].val
  BY <1>1 DEF Encode
<1>6. i = 1 => Encode(block)[i].shared = 0 /\ Encode(block)[i].suffix = block[i].key
  <2> SUFFICES ASSUME i = 1
               PROVE  Encode(block)[i].shared = 0 /\ Encode(block)[i].suffix = block[i].key
    OBVIOUS
  <2>1. Encode(block)[i].shared = 0
        /\ Encode(block)[i].suffix = SubSeq(block[i].key, 0 + 1, Len(block[i].key))
    BY <1>1 DEF Encode
  <2> QED BY <1>4, <2>1
<1>7. i # 1 => Encode(block)[i].shared = SharedLen(block[i - 1].key, block[i].key)
  BY <1>1 DEF Encode
<1>8. i # 1 => Encode(block)[i].suffix =
                   SubSeq(block[i].key, SharedLen(block[i - 1].key, block[i].key) + 1,
                          Len(block[i].key))
  BY <1>1 DEF Encode
<1> QED BY <1>2, <1>3, <1>5, <1>6, <1>7, <1>8

(* A packed key stands for the key it was made from.                        *)
LEMMA KeysRebuilt ==
  ASSUME NEW block \in Seq(Entry), NEW i \in 1 .. Len(block)
  PROVE  DecodedKeys(Encode(block))[i] = block[i].key
<1> DEFINE N == Len(block)
           enc == Encode(block)
           was == [j \in 0 .. N |-> IF j = 0 THEN << >> ELSE block[j].key]
           After(x, j) == SubSeq(x, 1, enc[j].shared) \o enc[j].suffix
           keys == DecodedKeys(enc)
<1>1. N \in Nat /\ Len(enc) = N
  BY EncodeTyped
<1>2. ASSUME NEW j \in 1 .. N PROVE After(was[j - 1], j) = was[j]
  <2>1. CASE j = 1
    <3>1. was[j - 1] = << >> /\ was[j] = block[j].key
      BY <2>1
    <3>2. enc[j].shared = 0 /\ enc[j].suffix = block[j].key /\ block[j].key \in Seq(Nat)
      BY <2>1, EncodedAt
    <3>3. << >> \in Seq(Nat) /\ SubSeq(<< >>, 1, 0) = << >>
      BY SubSeqEmpty
    <3>4. << >> \o block[j].key = block[j].key
      BY <3>2, ConcatEmptySeq
    <3> QED BY <3>1, <3>2, <3>3, <3>4
  <2>2. CASE j # 1
    <3>1. was[j - 1] = block[j - 1].key /\ was[j] = block[j].key
      BY <1>1, <2>2
    <3>2. /\ block[j - 1].key \in Seq(Nat) /\ block[j].key \in Seq(Nat)
          /\ enc[j].shared = SharedLen(block[j - 1].key, block[j].key)
          /\ enc[j].suffix = SubSeq(block[j].key,
                                    SharedLen(block[j - 1].key, block[j].key) + 1,
                                    Len(block[j].key))
      BY <2>2, EncodedAt
    <3>3. SubSeq(block[j - 1].key, 1, SharedLen(block[j - 1].key, block[j].key))
            \o SubSeq(block[j].key, SharedLen(block[j - 1].key, block[j].key) + 1,
                      Len(block[j].key)) = block[j].key
      BY <3>2, Rejoined
    <3> HIDE DEF was, enc
    <3> QED BY <3>1, <3>2, <3>3
  <2> QED BY <2>1, <2>2
<1>3. was = [j \in 0 .. N |-> IF j = 0 THEN << >> ELSE After(was[j - 1], j)]
  <2>1. was = [j \in 0 .. N |-> was[j]] /\ was[0] = << >>
    BY <1>1
  <2>2. ASSUME NEW j \in 0 .. N PROVE was[j] = IF j = 0 THEN << >> ELSE After(was[j - 1], j)
    <3>1. j = 0 \/ j \in 1 .. N
      BY <1>1
    <3> HIDE DEF was, After, N
    <3> QED BY <1>2, <2>1, <3>1
  <2> HIDE DEF was, After, N
  <2> QED BY <2>1, <2>2
<1>4. keys = [j \in 0 .. N |-> IF j = 0 THEN << >> ELSE After(keys[j - 1], j)]
  <2>1. keys = CHOOSE key : key = [j \in 0 .. N |-> IF j = 0 THEN << >>
                                                    ELSE After(key[j - 1], j)]
    BY <1>1 DEF DecodedKeys
  <2> HIDE DEF keys, was, After, N
  <2> QED BY <2>1, <1>3
<1> DEFINE T == {j \in 0 .. N : keys[j] = was[j]}
<1>5. 0 \in T /\ \A j \in 1 .. N : j - 1 \in T => j \in T
  <2>1. was[0] = << >>
    BY <1>1
  <2> HIDE DEF keys, was, After, N
  <2>2. keys[0] = << >> /\ \A j \in 1 .. N : keys[j] = After(keys[j - 1], j)
    BY <1>1, <1>4
  <2> QED BY <1>1, <1>2, <2>1, <2>2
<1>6. 0 .. N \subseteq T
  <2> HIDE DEF T, N
  <2> QED BY <1>1, <1>5, UpTo
<1>7. keys[i] = was[i] /\ was[i] = block[i].key
  BY <1>1, <1>6
<1> QED BY <1>7

(* The size of a decoded block is a number of bytes.                        *)
LEMMA SizeTyped ==
  ASSUME NEW enc \in Seq(Packed)
  PROVE  Offsets(enc)[Len(enc)] \in Nat
<1> DEFINE N == Len(enc)
           After(x, j) == x + EntryHeader + Len(enc[j].suffix) + enc[j].val
           g == [j \in 1 .. N |-> [x \in Nat |-> After(x, j)]]
           offset == Offsets(enc)
<1>1. N \in Nat
  OBVIOUS
<1>2. g \in [1 .. N -> [Nat -> Nat]]
  <2>1. ASSUME NEW j \in 1 .. N, NEW x \in Nat PROVE After(x, j) \in Nat
    <3> HIDE DEF g, offset
    <3>1. enc[j] \in Packed
      BY <1>1
    <3>2. enc[j].suffix \in Seq(Nat) /\ enc[j].val \in Nat
      BY <3>1 DEF Packed
    <3> DEFINE n == Len(enc[j].suffix)
               v == enc[j].val
    <3>3. n \in Nat /\ v \in Nat
      BY <3>2
    <3>4. x + EntryHeader + n + v \in Nat
      <4> HIDE DEF n, v
      <4> QED BY <3>3 DEF EntryHeader
    <3> QED BY <3>4
  <2> HIDE DEF After, N
  <2> QED BY <2>1
<1>3. PICK f \in [0 .. N -> Nat] : Recurs(f, N, 0, g)
  <2> HIDE DEF g, N
  <2> QED BY <1>1, <1>2, RecursExists
<1>4. f = [j \in 0 .. N |-> IF j = 0 THEN 0 ELSE After(f[j - 1], j)]
  <2>1. ASSUME NEW j \in 0 .. N
        PROVE  (IF j = 0 THEN 0 ELSE g[j][f[j - 1]]) = IF j = 0 THEN 0 ELSE After(f[j - 1], j)
    <3> HIDE DEF After, N
    <3> QED BY <1>1, <1>3
  <2> HIDE DEF After, N, g
  <2> QED BY <1>3, <2>1 DEF Recurs
<1>5. offset = CHOOSE o : o = [j \in 0 .. N |-> IF j = 0 THEN 0 ELSE After(o[j - 1], j)]
  BY DEF Offsets
<1>6. offset = [j \in 0 .. N |-> IF j = 0 THEN 0 ELSE After(offset[j - 1], j)]
  <2> HIDE DEF After, N, offset
  <2> QED BY <1>4, <1>5
<1> DEFINE T == {j \in 0 .. N : offset[j] \in Nat}
<1>7. 0 \in T /\ \A j \in 1 .. N : j - 1 \in T => j \in T
  <2>1. ASSUME NEW j \in 1 .. N, NEW x \in Nat PROVE After(x, j) \in Nat
    <3>1. g[j][x] = After(x, j)
      OBVIOUS
    <3> HIDE DEF g, After
    <3> QED BY <1>2, <3>1
  <2>2. offset[0] = 0 /\ 0 \in 0 .. N
    <3> HIDE DEF After, N, offset, g
    <3> QED BY <1>1, <1>6
  <2>3. ASSUME NEW j \in 1 .. N, offset[j - 1] \in Nat PROVE offset[j] \in Nat /\ j \in 0 .. N
    <3> HIDE DEF N, offset, g, After
    <3>1. j \in 0 .. N /\ j # 0
      BY <1>1
    <3>2. offset[j] = After(offset[j - 1], j)
      BY <1>6, <3>1
    <3> QED BY <2>1, <2>3, <3>1, <3>2
  <2> HIDE DEF N, offset, g, After
  <2> QED BY <2>2, <2>3
<1>8. 0 .. N \subseteq T
  <2> HIDE DEF T, N
  <2> QED BY <1>1, <1>7, UpTo
<1> QED BY <1>1, <1>8

(* Block::decode undoes Block::encode.                                      *)
LEMMA DecodeEncode ==
  ASSUME NEW block \in Seq(Entry)
  PROVE  /\ Decode(Encode(block)).entries = block
         /\ Decode(Encode(block)).size \in Nat
<1> DEFINE got == Decode(Encode(block)).entries
<1>1. /\ Len(block) \in Nat /\ DOMAIN block = 1 .. Len(block)
      /\ Encode(block) \in Seq(Packed) /\ DOMAIN Encode(block) = 1 .. Len(block)
  BY EncodeTyped
<1>2. got = [i \in 1 .. Len(block) |-> [key |-> DecodedKeys(Encode(block))[i],
                                        val |-> Encode(block)[i].val]]
  BY <1>1 DEF Decode
<1>3. ASSUME NEW i \in 1 .. Len(block) PROVE got[i] = block[i]
  <2>1. got[i] = [key |-> block[i].key, val |-> block[i].val]
    <3> HIDE DEF got
    <3> QED BY <1>2, KeysRebuilt, EncodedAt
  <2>2. block[i] \in Entry
    BY <1>1
  <2> QED BY <2>1, <2>2 DEF Entry
<1>4. got = block
  <2>1. got = [i \in 1 .. Len(block) |-> got[i]] /\ block = [i \in 1 .. Len(block) |-> block[i]]
    BY <1>1, <1>2
  <2> HIDE DEF got
  <2> QED BY <1>3, <2>1
<1>5. Decode(Encode(block)).size \in Nat
  BY <1>1, SizeTyped DEF Decode
<1> QED BY <1>4, <1>5

----------------------------------------------------------------------------
(* The builder.                                                             *)
IndexEntry == [offset : Nat, last : Seq(Nat)]

Builder == {b \in [data : Seq(Packed), index : Seq(IndexEntry), current : Seq(Entry),
                   size : Nat] :
               b.size > 0 => b.current # << >>}

(* flush_block leaves a builder.                                            *)
LEMMA FlushTyped ==
  ASSUME NEW b \in Builder, b.current # << >>
  PROVE  FlushBlock(b) \in Builder
<1>1. b.data \in Seq(Packed) /\ b.index \in Seq(IndexEntry) /\ b.current \in Seq(Entry)
  BY DEF Builder
<1>2. b.data \o Encode(b.current) \in Seq(Packed)
  BY <1>1, EncodeTyped
<1>3. Last(b.current).key \in Seq(Nat)
  <2>1. Len(b.current) \in Nat \ {0}
    BY <1>1, EmptySeq
  <2>2. b.current[Len(b.current)] \in Entry
    BY <1>1, <2>1
  <2> QED BY <2>2 DEF Last, Entry
<1>4. Len(b.data) \in Nat
  BY <1>1
<1>5. [offset |-> Len(b.data), last |-> Last(b.current).key] \in IndexEntry
  BY <1>3, <1>4 DEF IndexEntry
<1>6. Append(b.index, [offset |-> Len(b.data), last |-> Last(b.current).key]) \in Seq(IndexEntry)
  BY <1>1, <1>5
<1>7. << >> \in Seq(Entry)
  OBVIOUS
<1> QED BY <1>2, <1>6, <1>7 DEF FlushBlock, Builder

(* add leaves a builder.                                                    *)
LEMMA AddTyped ==
  ASSUME NEW b \in Builder, NEW e \in Entry
  PROVE  Add(b, e) \in Builder
<1> DEFINE c == IF b.size > 0 /\ b.size + EntrySize(e) > BlockSize THEN FlushBlock(b) ELSE b
<1>1. c \in Builder
  BY FlushTyped DEF Builder
<1>2. Len(e.key) \in Nat /\ e.val \in Nat
  BY DEF Entry
<1>3. EntrySize(e) \in Nat
  BY <1>2 DEF EntrySize, EntryHeader
<1>4. Add(b, e) = [c EXCEPT !.current = Append(@, e), !.size = @ + EntrySize(e)]
  BY DEF Add
<1> HIDE DEF c
<1>5. /\ c.data \in Seq(Packed) /\ c.index \in Seq(IndexEntry) /\ c.current \in Seq(Entry)
      /\ c.size \in Nat
      /\ c = [data |-> c.data, index |-> c.index, current |-> c.current, size |-> c.size]
  BY <1>1 DEF Builder
<1>6. Add(b, e) = [data |-> c.data, index |-> c.index, current |-> Append(c.current, e),
                   size |-> c.size + EntrySize(e)]
  BY <1>4, <1>5
<1>7. Append(c.current, e) \in Seq(Entry) /\ Append(c.current, e) # << >>
  BY <1>5, AppendProperties
<1> QED BY <1>3, <1>5, <1>6, <1>7 DEF Builder

(* The builder after n entries comes from the one before by Add.            *)
LEMMA BuiltSteps ==
  ASSUME NEW t \in Seq(Entry)
  PROVE  /\ Built(t)[0] = NewBuilder
         /\ \A n \in 1 .. Len(t) : Built(t)[n] = Add(Built(t)[n - 1], t[n])
         /\ \A n \in 0 .. Len(t) : Built(t)[n] \in Builder
<1> DEFINE N == Len(t)
           g == [j \in 1 .. N |-> [x \in Builder |-> Add(x, t[j])]]
           built == Built(t)
<1>1. N \in Nat /\ NewBuilder \in Builder
  BY DEF NewBuilder, Builder
<1>2. g \in [1 .. N -> [Builder -> Builder]]
  BY AddTyped
<1>3. PICK f \in [0 .. N -> Builder] : Recurs(f, N, NewBuilder, g)
  <2> HIDE DEF g, N
  <2> QED BY <1>1, <1>2, RecursExists
<1>4. f = [j \in 0 .. N |-> IF j = 0 THEN NewBuilder ELSE Add(f[j - 1], t[j])]
  <2>1. ASSUME NEW j \in 0 .. N, j # 0 PROVE g[j][f[j - 1]] = Add(f[j - 1], t[j])
    <3>1. j \in 1 .. N /\ j - 1 \in 0 .. N
      BY <1>1, <2>1
    <3> HIDE DEF N
    <3> QED BY <1>3, <3>1
  <2> HIDE DEF N, g
  <2> QED BY <1>3, <2>1 DEF Recurs
<1>5. built = CHOOSE b : b = [j \in 0 .. N |-> IF j = 0 THEN NewBuilder ELSE Add(b[j - 1], t[j])]
  BY DEF Built
<1>6. built = [j \in 0 .. N |-> IF j = 0 THEN NewBuilder ELSE Add(built[j - 1], t[j])]
  <2> HIDE DEF N, built
  <2> QED BY <1>4, <1>5
<1> DEFINE T == {j \in 0 .. N : built[j] \in Builder}
<1> HIDE DEF built, N, g
<1>7. built[0] = NewBuilder /\ \A n \in 1 .. N : built[n] = Add(built[n - 1], t[n])
  BY <1>1, <1>6
<1>8. 0 \in T /\ \A j \in 1 .. N : j - 1 \in T => j \in T
  <2>1. ASSUME NEW j \in 1 .. N PROVE t[j] \in Entry
    BY DEF N
  <2> QED BY <1>1, <1>7, <2>1, AddTyped
<1>9. 0 .. N \subseteq T
  <2> HIDE DEF T
  <2> QED BY <1>1, <1>8, UpTo
<1> QED BY <1>7, <1>9 DEF N, built

----------------------------------------------------------------------------
(* Where block i starts, when end is where the last one ends.               *)
Start(index, end, i) == IF i <= Len(index) THEN index[i].offset ELSE end

(* The blocks of data cut t into pieces: the index starts at 0 and grows,   *)
(* each block is the packed form of its piece, and its key is the last one. *)
Cut(t, data, index) ==
    /\ Start(index, Len(data), 1) = 0
    /\ \A i \in 1 .. Len(index) :
          LET a == Start(index, Len(data), i)
              z == Start(index, Len(data), i + 1)
          IN  /\ a \in Nat /\ z \in Nat /\ a < z /\ z <= Len(data)
              /\ index[i].last = t[z].key
              /\ SubSeq(data, a + 1, z) = Encode(SubSeq(t, a + 1, z))

(* The builder has taken the first n entries of t.                          *)
Filled(b, t, n) ==
    /\ b \in Builder
    /\ Len(b.data) \in 0 .. n
    /\ b.current = SubSeq(t, Len(b.data) + 1, n)
    /\ Cut(t, b.data, b.index)

(* The tail of a concatenation is what was appended.                        *)
LEMMA ConcatTail ==
  ASSUME NEW S, NEW s \in Seq(S), NEW t \in Seq(S), t # << >>
  PROVE  SubSeq(s \o t, Len(s) + 1, Len(s) + Len(t)) = t
<1> DEFINE m == Len(s) + 1
           n == Len(s) + Len(t)
<1>1. Len(s) \in Nat /\ Len(t) \in Nat \ {0}
  BY EmptySeq
<1>2. /\ m \in Len(s) + 1 .. Len(s) + Len(t) /\ n \in Len(s) + 1 .. Len(s) + Len(t)
      /\ m - Len(s) = 1 /\ n - Len(s) = Len(t)
  BY <1>1
<1> HIDE DEF m, n
<1>3. SubSeq(s \o t, m, n) = SubSeq(t, m - Len(s), n - Len(s))
  BY <1>2, SubSeqOfConcat2
<1>4. SubSeq(t, 1, Len(t)) = t
  BY SubSeqFull
<1> QED BY <1>2, <1>3, <1>4 DEF m, n

(* flush_block keeps the blocks cut from the table so far.                  *)
LEMMA FlushFilled ==
  ASSUME NEW t \in Seq(Entry), NEW n \in 0 .. Len(t), NEW b, Filled(b, t, n), b.current # << >>
  PROVE  Filled(FlushBlock(b), t, n) /\ FlushBlock(b).current = << >>
<1> DEFINE L == Len(b.data)
           m == Len(b.index)
           enc == Encode(b.current)
           data == b.data \o enc
           entry == [offset |-> L, last |-> Last(b.current).key]
           index == Append(b.index, entry)
<1>1. /\ b.data \in Seq(Packed) /\ b.index \in Seq(IndexEntry) /\ b.current \in Seq(Entry)
      /\ L \in 0 .. n /\ m \in Nat /\ n \in Nat /\ n <= Len(t) /\ Len(t) \in Nat
      /\ b.current = SubSeq(t, L + 1, n) /\ Cut(t, b.data, b.index)
  BY DEF Filled, Builder
<1>2. Len(b.current) = n - L /\ L < n /\ b.current[n - L] = t[n]
  <2>1. \A i \in L + 1 .. n : t[i] \in Entry
    BY <1>1
  <2>2. L < n
    <3> HIDE DEF L
    <3> QED BY <1>1, SubSeqEmpty
  <2>3. Len(b.current) = n - L /\ \A i \in 1 .. n - L : b.current[i] = t[L + i]
    <3> HIDE DEF L
    <3> QED BY <1>1, <2>1, <2>2
  <2> HIDE DEF L
  <2>4. n - L \in 1 .. n - L /\ L + (n - L) = n
    BY <1>1, <2>2
  <2> QED BY <2>2, <2>3, <2>4
<1>3. enc \in Seq(Packed) /\ Len(enc) = n - L
  BY <1>1, <1>2, EncodeTyped
<1>4. data \in Seq(Packed) /\ Len(data) = n
  <2>1. data \in Seq(Packed) /\ Len(data) = Len(b.data) + Len(enc)
    <3>1. b.data \in Seq(Packed) /\ enc \in Seq(Packed)
      BY <1>1, <1>3
    <3> HIDE DEF enc, L, m, index
    <3> QED BY <3>1, ConcatProperties
  <2>2. Len(b.data) + Len(enc) = n
    <3> HIDE DEF enc
    <3> QED BY <1>1, <1>3
  <2> QED BY <2>1, <2>2
<1>5. Last(b.current).key = t[n].key
  BY <1>2 DEF Last
<1>6. /\ FlushBlock(b) \in Builder
      /\ FlushBlock(b) = [data |-> data, index |-> index, current |-> << >>, size |-> 0]
  <2>1. FlushBlock(b) \in Builder
    BY FlushTyped DEF Filled
  <2> QED BY <2>1 DEF FlushBlock
<1>7. /\ Len(index) = m + 1 /\ index[m + 1] = entry
      /\ \A i \in 1 .. m : index[i] = b.index[i]
  BY <1>1
<1> HIDE DEF data, index, enc, L, m
<1>8. ASSUME NEW i \in 1 .. m + 1
      PROVE  Start(index, n, i) = Start(b.index, L, i)
  <2>1. CASE i \in 1 .. m
    <3>1. index[i] = b.index[i] /\ i <= Len(index) /\ i <= Len(b.index)
      BY <1>1, <1>7, <2>1 DEF m
    <3> QED BY <3>1 DEF Start
  <2>2. CASE i = m + 1
    <3>1. index[i].offset = L /\ i <= Len(index) /\ ~(i <= Len(b.index))
      BY <1>1, <1>7, <2>2 DEF m
    <3> QED BY <3>1 DEF Start
  <2>3. i \in 1 .. m \/ i = m + 1
    BY <1>1
  <2> QED BY <2>1, <2>2, <2>3
<1>9. Start(index, n, m + 2) = n /\ Start(index, n, m + 1) = L
  BY <1>1, <1>7 DEF Start
<1>10. Start(index, n, 1) = 0
  BY <1>1, <1>8 DEF Cut, L
<1>11. ASSUME NEW i \in 1 .. m + 1
       PROVE  LET a == Start(index, n, i)
                  z == Start(index, n, i + 1)
              IN  /\ a \in Nat /\ z \in Nat /\ a < z /\ z <= n
                  /\ index[i].last = t[z].key
                  /\ SubSeq(data, a + 1, z) = Encode(SubSeq(t, a + 1, z))
  <2> DEFINE a == Start(index, n, i)
             z == Start(index, n, i + 1)
  <2>1. CASE i \in 1 .. m
    <3>1. a = Start(b.index, L, i) /\ z = Start(b.index, L, i + 1)
      BY <1>1, <1>8, <2>1
    <3>2. /\ a \in Nat /\ z \in Nat /\ a < z /\ z <= L
          /\ b.index[i].last = t[z].key
          /\ SubSeq(b.data, a + 1, z) = Encode(SubSeq(t, a + 1, z))
      <4> HIDE DEF a, z
      <4> QED BY <1>1, <2>1, <3>1 DEF Cut, L, m
    <3>3. index[i].last = t[z].key /\ z <= n
      <4> HIDE DEF a, z
      <4> QED BY <1>1, <1>7, <2>1, <3>2
    <3>4. SubSeq(data, a + 1, z) = SubSeq(b.data, a + 1, z)
      <4> HIDE DEF a, z
      <4>1. a + 1 \in 1 .. Len(b.data) /\ z \in 1 .. Len(b.data)
        BY <1>1, <3>2 DEF L
      <4> QED BY <1>1, <1>3, <4>1, SubSeqOfConcat1 DEF data
    <3> QED BY <3>2, <3>3, <3>4
  <2>2. CASE i = m + 1
    <3>1. a = L /\ z = n
      BY <1>1, <1>9, <2>2
    <3>2. index[i].last = t[n].key
      BY <1>5, <1>7, <2>2
    <3>3. SubSeq(data, L + 1, n) = Encode(SubSeq(t, L + 1, n))
      <4>1. Len(b.data) + Len(enc) = n /\ enc # << >>
        BY <1>1, <1>2, <1>3, EmptySeq DEF L
      <4>2. SubSeq(b.data \o enc, Len(b.data) + 1, Len(b.data) + Len(enc)) = enc
        BY <1>1, <1>3, <4>1, ConcatTail
      <4> QED BY <1>1, <4>1, <4>2 DEF data, enc, L
    <3>4. L \in Nat /\ n \in Nat /\ L < n
      BY <1>1, <1>2
    <3> QED BY <3>1, <3>2, <3>3, <3>4
  <2> HIDE DEF a, z
  <2>3. i \in 1 .. m \/ i = m + 1
    BY <1>1
  <2> QED BY <2>1, <2>2, <2>3 DEF a, z
<1>12. Cut(t, data, index)
  BY <1>4, <1>7, <1>10, <1>11 DEF Cut
<1>13. << >> = SubSeq(t, n + 1, n)
  BY <1>1, SubSeqEmpty
<1> QED BY <1>1, <1>4, <1>6, <1>12, <1>13 DEF Filled

(* add takes the next entry of the table.                                   *)
LEMMA AddFilled ==
  ASSUME NEW t \in Seq(Entry), NEW n \in 1 .. Len(t), NEW b, Filled(b, t, n - 1)
  PROVE  Filled(Add(b, t[n]), t, n)
<1> DEFINE c == IF b.size > 0 /\ b.size + EntrySize(t[n]) > BlockSize THEN FlushBlock(b) ELSE b
           d == Add(b, t[n])
           L == Len(c.data)
<1>0. n \in Nat /\ n - 1 \in 0 .. Len(t) /\ Len(t) \in Nat /\ t[n] \in Entry
  OBVIOUS
<1>1. Filled(c, t, n - 1)
  <2>1. b.size > 0 => b.current # << >>
    BY DEF Filled, Builder
  <2>2. b.size > 0 => Filled(FlushBlock(b), t, n - 1)
    BY <1>0, <2>1, FlushFilled
  <2> QED BY <2>2
<1>2. d \in Builder
  BY <1>0, AddTyped DEF Filled
<1>3. d = [c EXCEPT !.current = Append(@, t[n]), !.size = @ + EntrySize(t[n])]
  BY DEF Add
<1> HIDE DEF c, d
<1>4. /\ c \in Builder /\ L \in 0 .. n - 1 /\ Cut(t, c.data, c.index)
      /\ c.current = SubSeq(t, L + 1, n - 1)
  BY <1>1 DEF Filled
<1>5. d.data = c.data /\ d.index = c.index /\ d.current = Append(c.current, t[n])
  BY <1>3, <1>4 DEF Builder
<1>6. Append(c.current, t[n]) = SubSeq(t, L + 1, n)
  <2>1. L + 1 \in 1 .. Len(t) /\ n \in L + 1 .. Len(t)
    BY <1>0, <1>4
  <2>2. SubSeq(t, L + 1, n) = SubSeq(t, L + 1, n - 1) \o << t[n] >>
    <3> HIDE DEF L
    <3> QED BY <2>1, SubSeqRecursiveSecond
  <2>3. c.current \in Seq(Entry)
    BY <1>4 DEF Builder
  <2>4. Append(c.current, t[n]) = c.current \o << t[n] >>
    BY <1>0, <2>3, AppendIsConcat
  <2> QED BY <1>4, <2>2, <2>4
<1>7. L \in 0 .. n
  BY <1>0, <1>4
<1>8. Filled(d, t, n)
  BY <1>2, <1>4, <1>5, <1>6, <1>7 DEF Filled
<1> QED BY <1>8 DEF d

(* After all entries the builder has taken the whole table.                 *)
LEMMA BuiltFilled ==
  ASSUME NEW t \in Seq(Entry)
  PROVE  Filled(Built(t)[Len(t)], t, Len(t))
<1> DEFINE N == Len(t)
           built == Built(t)
           T == {n \in 0 .. N : Filled(built[n], t, n)}
<1>1. N \in Nat
  OBVIOUS
<1>2. Filled(NewBuilder, t, 0)
  <2>1. NewBuilder \in Builder
    BY BuiltSteps
  <2>2. << >> = SubSeq(t, 1, 0)
    BY SubSeqEmpty
  <2>3. Cut(t, << >>, << >>)
    BY DEF Cut, Start
  <2> QED BY <2>1, <2>2, <2>3 DEF Filled, NewBuilder
<1>3. 0 \in T
  BY <1>1, <1>2, BuiltSteps
<1>4. ASSUME NEW n \in 1 .. N, n - 1 \in T PROVE n \in T
  <2>1. built[n] = Add(built[n - 1], t[n]) /\ Filled(built[n - 1], t, n - 1)
    BY <1>4, BuiltSteps
  <2> HIDE DEF built
  <2>2. Filled(built[n], t, n)
    BY <2>1, AddFilled
  <2> QED BY <1>1, <2>2
<1>5. 0 .. N \subseteq T
  <2> HIDE DEF T, N
  <2> QED BY <1>1, <1>3, <1>4, UpTo
<1> QED BY <1>1, <1>5

(* A finished file holds the whole table, cut into blocks.                  *)
LEMMA FileSliced ==
  ASSUME NEW t \in Seq(Entry)
  PROVE  /\ File(t).data \in Seq(Packed) /\ File(t).index \in Seq(IndexEntry)
         /\ Len(File(t).data) = Len(t) /\ File(t).indexOffset = Len(t)
         /\ Cut(t, File(t).data, File(t).index)
<1> DEFINE N == Len(t)
           b == Built(t)[N]
           c == Finish(b)
<1>1. Filled(b, t, N) /\ N \in Nat
  BY BuiltFilled
<1>2. Filled(c, t, N) /\ c.current = << >>
  <2> HIDE DEF b
  <2>1. CASE b.current # << >>
    BY <1>1, <2>1, FlushFilled DEF Finish
  <2>2. CASE b.current = << >>
    BY <1>1, <2>2 DEF Finish
  <2> QED BY <2>1, <2>2
<1>3. File(t).data = c.data /\ File(t).index = c.index /\ File(t).indexOffset = Len(c.data)
  BY DEF File
<1> HIDE DEF b, c
<1>4. /\ c.data \in Seq(Packed) /\ c.index \in Seq(IndexEntry) /\ Len(c.data) \in 0 .. N
      /\ << >> = SubSeq(t, Len(c.data) + 1, N) /\ Cut(t, c.data, c.index)
  BY <1>2 DEF Filled, Builder
<1>5. Len(c.data) = N
  <2> SUFFICES ASSUME Len(c.data) < N PROVE FALSE
    BY <1>1, <1>4
  <2> DEFINE L == Len(c.data)
  <2>1. L \in Nat /\ L < N
    BY <1>4
  <2>2. \A i \in L + 1 .. N : t[i] \in Entry
    BY <2>1
  <2> HIDE DEF L
  <2>3. Len(SubSeq(t, L + 1, N)) = N - L
    BY <1>1, <2>1, <2>2, SubSeqProperties
  <2>4. SubSeq(t, L + 1, N) = << >>
    BY <1>4 DEF L
  <2> HIDE DEF N
  <2>5. N - L # 0
    BY <1>1, <2>1
  <2> QED BY <2>3, <2>4, <2>5, EmptySeq
<1> QED BY <1>3, <1>4, <1>5

(* Where the i-th block starts in the file of a table.                       *)
From(t, i) == BlockStart(File(t), i)

(* The place of a block in the file is its place in the table.              *)
LEMMA StartOfBlock ==
  ASSUME NEW t \in Seq(Entry), NEW i
  PROVE  From(t, i) = Start(File(t).index, Len(t), i)
  BY FileSliced DEF From, BlockStart, Start

(* load_block decodes the i-th piece of the table.                          *)
LEMMA BlockSliced ==
  ASSUME NEW t \in Seq(Entry), NEW i \in 1 .. Len(File(t).index)
  PROVE  /\ From(t, i) \in Nat /\ From(t, i + 1) \in Nat
         /\ From(t, i) < From(t, i + 1) /\ From(t, i + 1) <= Len(t)
         /\ File(t).index[i].last = t[From(t, i + 1)].key
         /\ Decode(BlockData(File(t), i)).entries = SubSeq(t, From(t, i) + 1, From(t, i + 1))
         /\ Decode(BlockData(File(t), i)).size \in Nat
<1> DEFINE f == File(t)
           a == From(t, i)
           z == From(t, i + 1)
<1>1. /\ a \in Nat /\ z \in Nat /\ a < z /\ z <= Len(t)
      /\ f.index[i].last = t[z].key
      /\ SubSeq(f.data, a + 1, z) = Encode(SubSeq(t, a + 1, z))
  <2>1. a = Start(f.index, Len(f.data), i) /\ z = Start(f.index, Len(f.data), i + 1)
    BY FileSliced, StartOfBlock
  <2>2. Len(f.data) = Len(t) /\ Cut(t, f.data, f.index)
    BY FileSliced
  <2> HIDE DEF f, a, z
  <2>3. i \in 1 .. Len(f.index)
    BY DEF f
  <2> QED BY <2>1, <2>2, <2>3 DEF Cut
<1>2. BlockData(f, i) = SubSeq(f.data, a + 1, z)
  BY DEF BlockData, From
<1>3. SubSeq(t, a + 1, z) \in Seq(Entry)
  <2> HIDE DEF a, z
  <2> QED BY <1>1
<1> HIDE DEF f, a, z
<1>4. Decode(BlockData(f, i)).entries = SubSeq(t, a + 1, z) /\ Decode(BlockData(f, i)).size \in Nat
  BY <1>1, <1>2, <1>3, DecodeEncode
<1> QED BY <1>1, <1>4 DEF f, a, z

----------------------------------------------------------------------------
(* A table is in strict order, so each of its keys occurs once.             *)
LEMMA SortedPairs ==
  ASSUME NEW t \in Seq(Entry), Sorted(t), NEW i \in 1 .. Len(t), NEW j \in i + 1 .. Len(t)
  PROVE  Less(t[i].key, t[j].key)
<1> DEFINE N == Len(t)
           T == {n \in 0 .. N : n > i => Less(t[i].key, t[n].key)}
<1>1. N \in Nat /\ 0 \in T
  OBVIOUS
<1>2. ASSUME NEW n \in 1 .. N, n - 1 \in T PROVE n \in T
  <2> SUFFICES ASSUME n > i PROVE Less(t[i].key, t[n].key)
    BY <1>1
  <2>1. Less(t[n - 1].key, t[n].key)
    <3>1. n - 1 \in 1 .. N - 1 /\ n - 1 + 1 = n
      BY <1>1
    <3> QED BY <3>1 DEF Sorted
  <2>2. t[i].key \in Seq(Nat) /\ t[n - 1].key \in Seq(Nat) /\ t[n].key \in Seq(Nat)
    <3>1. n - 1 \in 1 .. N
      BY <1>1
    <3>2. t[i] \in Entry /\ t[n - 1] \in Entry /\ t[n] \in Entry
      BY <3>1
    <3> QED BY <3>2 DEF Entry
  <2>3. CASE n - 1 = i
    BY <2>1, <2>3
  <2>4. CASE n - 1 # i
    <3>1. Less(t[i].key, t[n - 1].key)
      BY <1>1, <1>2, <2>4
    <3> QED BY <2>1, <2>2, <3>1, LessTransitive
  <2> QED BY <2>3, <2>4
<1>3. 0 .. N \subseteq T
  <2> HIDE DEF T, N
  <2> QED BY <1>1, <1>2, UpTo
<1> QED BY <1>1, <1>3

(* Each key of a table occurs once.                                         *)
LEMMA KeysDiffer ==
  ASSUME NEW t \in Seq(Entry), Sorted(t), NEW i \in 1 .. Len(t), NEW j \in 1 .. Len(t),
         t[i].key = t[j].key
  PROVE  i = j
<1>1. t[i].key \in Seq(Nat)
  <2>1. t[i] \in Entry
    OBVIOUS
  <2> QED BY <2>1 DEF Entry
<1>2. ~(i < j)
  BY <1>1, SortedPairs, LessIrreflexive
<1>3. ~(j < i)
  BY <1>1, SortedPairs, LessIrreflexive
<1> QED BY <1>2, <1>3

(* Each entry lies in one of the blocks.                                    *)
LEMMA BlockOf ==
  ASSUME NEW t \in Seq(Entry), NEW j \in 1 .. Len(t)
  PROVE  \E i \in 1 .. Len(File(t).index) :
            /\ From(t, i) < j /\ j <= From(t, i + 1)
            /\ \A k \in 1 .. i - 1 : From(t, k + 1) < j
<1> DEFINE n == Len(File(t).index)
           T == {i \in 1 .. n : j <= From(t, i + 1)}
<1>1. n \in Nat /\ From(t, 1) = 0 /\ From(t, n + 1) = Len(t)
  <2>1. n \in Nat
    BY FileSliced
  <2> DEFINE x == File(t).index
  <2>2. Cut(t, File(t).data, x) /\ Len(File(t).data) = Len(t)
    BY FileSliced
  <2>3. From(t, 1) = Start(x, Len(t), 1) /\ From(t, n + 1) = Start(x, Len(t), n + 1)
    BY StartOfBlock
  <2> HIDE DEF x
  <2>4. Start(x, Len(t), 1) = 0
    BY <2>2 DEF Cut
  <2>5. Start(x, Len(t), n + 1) = Len(t)
    BY <2>1 DEF Start, x
  <2> QED BY <2>1, <2>3, <2>4, <2>5
<1> HIDE DEF n
<1>2. n \in T
  <2>1. n # 0
    BY <1>1
  <2> QED BY <1>1, <2>1
<1>3. PICK i \in T : \A k \in T : i <= k
  <2>1. T \subseteq Nat /\ T # {}
    BY <1>2
  <2> HIDE DEF T
  <2> QED BY <2>1, LeastNat
<1>4. ASSUME NEW k \in 1 .. n PROVE From(t, k) \in Nat /\ From(t, k + 1) \in Nat
  BY BlockSliced DEF n
<1>5. ASSUME NEW k \in 1 .. i - 1 PROVE From(t, k + 1) < j
  <2>1. k \in 1 .. n /\ k \notin T
    BY <1>1, <1>3
  <2> QED BY <1>4, <2>1
<1>6. From(t, i) < j
  <2>1. CASE i = 1
    BY <1>1, <2>1
  <2>2. CASE i # 1
    <3>1. i - 1 \in 1 .. i - 1 /\ i - 1 + 1 = i
      BY <1>3, <2>2
    <3> QED BY <1>5, <3>1
  <2> QED BY <2>1, <2>2
<1> QED BY <1>3, <1>5, <1>6 DEF n

(* The index sends the key of an entry to the block that holds it.          *)
LEMMA BlockForEntry ==
  ASSUME NEW t \in Seq(Entry), Sorted(t), NEW j \in 1 .. Len(t)
  PROVE  /\ BlockFor(File(t), t[j].key) \in 1 .. Len(File(t).index)
         /\ From(t, BlockFor(File(t), t[j].key)) < j
         /\ j <= From(t, BlockFor(File(t), t[j].key) + 1)
<1> DEFINE f == File(t)
           key == t[j].key
           S == {i \in DOMAIN f.index : ~Less(f.index[i].last, key)}
<1>1. PICK i \in 1 .. Len(f.index) : /\ From(t, i) < j /\ j <= From(t, i + 1)
                                     /\ \A k \in 1 .. i - 1 : From(t, k + 1) < j
  BY BlockOf
<1>2. DOMAIN f.index = 1 .. Len(f.index) /\ Len(f.index) \in Nat /\ Len(t) \in Nat
  BY FileSliced
<1>3. ASSUME NEW k \in 1 .. Len(t) PROVE t[k].key \in Seq(Nat)
  <2>1. t[k] \in Entry
    OBVIOUS
  <2> QED BY <2>1 DEF Entry
<1>4. ASSUME NEW k \in 1 .. Len(f.index)
      PROVE  /\ From(t, k + 1) \in 1 .. Len(t)
             /\ f.index[k].last = t[From(t, k + 1)].key
  <2>1. /\ From(t, k) \in Nat /\ From(t, k + 1) \in Nat
        /\ From(t, k) < From(t, k + 1) /\ From(t, k + 1) <= Len(t)
        /\ f.index[k].last = t[From(t, k + 1)].key
    BY BlockSliced
  <2> QED BY <1>2, <2>1
<1> HIDE DEF f, key
<1>5. i \in S
  <2>1. From(t, i + 1) \in 1 .. Len(t) /\ f.index[i].last = t[From(t, i + 1)].key
    BY <1>4
  <2>2. CASE From(t, i + 1) = j
    BY <1>2, <1>3, <2>1, <2>2, LessIrreflexive DEF key
  <2>3. CASE From(t, i + 1) # j
    <3>1. From(t, i + 1) \in j + 1 .. Len(t)
      BY <1>1, <2>1, <2>3
    <3>2. Less(t[j].key, t[From(t, i + 1)].key)
      BY <3>1, SortedPairs
    <3>3. ~Less(t[From(t, i + 1)].key, t[j].key)
      BY <1>3, <2>1, <3>2, LessTransitive, LessIrreflexive
    <3> QED BY <1>2, <2>1, <3>3 DEF key
  <2> QED BY <2>2, <2>3
<1>6. ASSUME NEW k \in S PROVE i <= k
  <2> SUFFICES ASSUME k < i PROVE FALSE
    BY <1>2
  <2>1. k \in 1 .. i - 1 /\ k \in 1 .. Len(f.index)
    BY <1>2
  <2>2. From(t, k + 1) \in 1 .. Len(t) /\ From(t, k + 1) < j
    BY <1>1, <1>4, <2>1
  <2>3. j \in From(t, k + 1) + 1 .. Len(t)
    BY <2>2
  <2>4. Less(t[From(t, k + 1)].key, t[j].key)
    BY <2>2, <2>3, SortedPairs
  <2> QED BY <1>4, <2>1, <2>4 DEF key
<1>7. Min(S) = i
  <2>1. S \subseteq Nat
    BY <1>2
  <2> HIDE DEF S
  <2> QED BY <1>5, <1>6, <2>1, LeastIsMin
<1>8. BlockFor(f, key) = i
  <2>1. BlockFor(f, key) = Min(S)
    BY <1>5 DEF BlockFor
  <2> QED BY <1>7, <2>1
<1> QED BY <1>1, <1>8 DEF f, key

(* What BlockFor gives is a block of the file, or 0.                        *)
LEMMA BlockForTyped ==
  ASSUME NEW t \in Seq(Entry), NEW key
  PROVE  BlockFor(File(t), key) \in 0 .. Len(File(t).index)
<1> DEFINE f == File(t)
           S == {i \in DOMAIN f.index : ~Less(f.index[i].last, key)}
<1>1. DOMAIN f.index = 1 .. Len(f.index) /\ Len(f.index) \in Nat
  BY FileSliced
<1>2. CASE S = {}
  BY <1>1, <1>2 DEF BlockFor
<1>3. CASE S # {}
  <2>1. S \subseteq Nat
    BY <1>1
  <2>2. PICK i \in S : \A k \in S : i <= k
    <3> HIDE DEF S
    <3> QED BY <1>3, <2>1, LeastNat
  <2>3. Min(S) = i
    <3> HIDE DEF S
    <3> QED BY <2>1, <2>2, LeastIsMin
  <2>4. BlockFor(f, key) = Min(S)
    BY <1>3 DEF BlockFor
  <2> QED BY <1>1, <2>2, <2>3, <2>4
<1> QED BY <1>2, <1>3

(* The filter has no false negatives.                                       *)
LEMMA FilterHolds ==
  ASSUME NEW t \in Seq(Entry), NEW j \in 1 .. Len(t)
  PROVE  MayContain(File(t).bloom, t[j].key)
<1> DEFINE keys == [i \in DOMAIN t |-> t[i].key]
           bits == NumBits(Len(keys))
<1>1. File(t).bloom = BuildBloom(keys)
  BY DEF File
<1>2. j \in DOMAIN keys /\ keys[j] = t[j].key
  OBVIOUS
<1> HIDE DEF keys
<1>3. /\ BuildBloom(keys).numBits = bits
      /\ BuildBloom(keys).bits = UNION {Probes(keys[i], bits) : i \in DOMAIN keys}
  BY DEF BuildBloom
<1> HIDE DEF bits
<1>4. Probes(keys[j], bits) \subseteq UNION {Probes(keys[i], bits) : i \in DOMAIN keys}
  BY <1>2
<1> QED BY <1>1, <1>2, <1>3, <1>4 DEF MayContain

(* The entry that holds a key is the only one, in the table ...             *)
LEMMA WrittenAt ==
  ASSUME NEW t \in Seq(Entry), Sorted(t), NEW j \in 1 .. Len(t)
  PROVE  Written(t, t[j].key) = t[j].val
<1> DEFINE k == CHOOSE i \in DOMAIN t : t[i].key = t[j].key
<1>1. j \in DOMAIN t /\ DOMAIN t = 1 .. Len(t)
  OBVIOUS
<1>2. k \in DOMAIN t /\ t[k].key = t[j].key
  BY <1>1
<1>3. Written(t, t[j].key) = t[k].val
  BY <1>1 DEF Written
<1> HIDE DEF k
<1>4. k = j
  BY <1>1, <1>2, KeysDiffer
<1> QED BY <1>3, <1>4

(* ... and in the block that holds it.                                      *)
LEMMA InBlockAt ==
  ASSUME NEW t \in Seq(Entry), Sorted(t), NEW j \in 1 .. Len(t),
         NEW i \in 1 .. Len(File(t).index), From(t, i) < j, j <= From(t, i + 1)
  PROVE  InBlock(Decode(BlockData(File(t), i)), t[j].key) = t[j].val
<1> DEFINE a == From(t, i)
           z == From(t, i + 1)
           s == Decode(BlockData(File(t), i)).entries
           k == CHOOSE x \in DOMAIN s : s[x].key = t[j].key
<1>1. /\ a \in Nat /\ z \in Nat /\ a < z /\ z <= Len(t) /\ Len(t) \in Nat
      /\ s = SubSeq(t, a + 1, z)
  BY BlockSliced
<1>2. a < j /\ j <= z
  OBVIOUS
<1> HIDE DEF a, z
<1>3. DOMAIN s = 1 .. z - a /\ \A x \in 1 .. z - a : s[x] = t[a + x]
  <2>1. SubSeq(t, a + 1, z) = [x \in 1 .. z - a |-> t[a + x]]
    BY <1>1
  <2> HIDE DEF s
  <2> QED BY <1>1, <2>1
<1>4. j - a \in DOMAIN s /\ s[j - a] = t[j]
  <2>1. j - a \in 1 .. z - a /\ a + (j - a) = j
    BY <1>1, <1>2
  <2> HIDE DEF s
  <2> QED BY <1>3, <2>1
<1>5. InBlock(Decode(BlockData(File(t), i)), t[j].key) = s[k].val
  <2>1. \E x \in DOMAIN s : s[x].key = t[j].key
    <3> HIDE DEF s
    <3> QED BY <1>4
  <2> QED BY <2>1 DEF InBlock
<1>6. k \in DOMAIN s /\ s[k].key = t[j].key
  <2> HIDE DEF s
  <2> QED BY <1>4
<1> HIDE DEF s, k
<1>7. a + k \in 1 .. Len(t) /\ s[k] = t[a + k]
  <2>1. k \in 1 .. z - a
    BY <1>3, <1>6
  <2>2. a + k \in 1 .. Len(t)
    BY <1>1, <2>1
  <2> QED BY <1>3, <2>1, <2>2
<1>8. a + k = j
  BY <1>6, <1>7, KeysDiffer
<1> QED BY <1>5, <1>7, <1>8

(* What the reader finds for a key through the filter, the index and the    *)
(* block.                                                                   *)
Found(file, key) == MayContain(file.bloom, key) /\ BlockFor(file, key) # 0

(* SSTableReader::get on the file that was built from a table returns what  *)
(* the table holds for the key, wherever the block boundaries fall and      *)
(* whatever bits of the filter the keys share.                              *)
THEOREM TableGet ==
  ASSUME NEW t \in Seq(Entry), Sorted(t), NEW key
  PROVE  Written(t, key) = IF Found(File(t), key)
                           THEN InBlock(Decode(BlockData(File(t), BlockFor(File(t), key))), key)
                           ELSE NotFound
<1> DEFINE f == File(t)
           b == BlockFor(f, key)
<1>1. CASE \E j \in 1 .. Len(t) : t[j].key = key
  <2>1. PICK j \in 1 .. Len(t) : t[j].key = key
    BY <1>1
  <2>2. b \in 1 .. Len(f.index) /\ From(t, b) < j /\ j <= From(t, b + 1)
    BY <2>1, BlockForEntry
  <2>3. Found(f, key)
    <3>1. b # 0
      <4> HIDE DEF b
      <4> QED BY <2>2
    <3> QED BY <2>1, <3>1, FilterHolds DEF Found
  <2>4. InBlock(Decode(BlockData(f, b)), key) = t[j].val
    <3> HIDE DEF b
    <3> QED BY <2>1, <2>2, InBlockAt
  <2>5. Written(t, key) = t[j].val
    BY <2>1, WrittenAt
  <2> QED BY <2>3, <2>4, <2>5
<1>2. CASE ~ \E j \in 1 .. Len(t) : t[j].key = key
  <2>1. Written(t, key) = NotFound
    BY <1>2 DEF Written
  <2>2. CASE b = 0
    BY <2>1, <2>2 DEF Found
  <2>3. CASE b # 0
    <3> DEFINE s == Decode(BlockData(f, b)).entries
    <3>1. b \in 1 .. Len(f.index)
      BY <2>3, BlockForTyped
    <3> HIDE DEF b
    <3>2. /\ From(t, b) \in Nat /\ From(t, b + 1) \in Nat
          /\ From(t, b) < From(t, b + 1) /\ From(t, b + 1) <= Len(t)
          /\ s = SubSeq(t, From(t, b) + 1, From(t, b + 1))
      BY <3>1, BlockSliced
    <3>3. ASSUME NEW x \in DOMAIN s PROVE s[x].key # key
      <4> DEFINE a == From(t, b)
                 z == From(t, b + 1)
      <4>1. a \in Nat /\ z \in Nat /\ a < z /\ z <= Len(t) /\ s = SubSeq(t, a + 1, z)
        BY <3>2
      <4> HIDE DEF a, z, s
      <4>2. SubSeq(t, a + 1, z) = [y \in 1 .. z - a |-> t[a + y]]
        BY <4>1
      <4>3. x \in 1 .. z - a /\ s[x] = t[a + x]
        BY <4>1, <4>2
      <4>4. a + x \in 1 .. Len(t)
        BY <4>1, <4>3
      <4> QED BY <1>2, <4>3, <4>4
    <3>4. InBlock(Decode(BlockData(f, b)), key) = NotFound
      BY <3>3 DEF InBlock
    <3> QED BY <2>1, <3>4 DEF b
  <2> QED BY <2>2, <2>3
<1> QED BY <1>1, <1>2

----------------------------------------------------------------------------
(* Recency lists.  A list without its p-th element.                         *)
Skip(s, p) == [i \in 1 .. Len(s) - 1 |-> IF i < p THEN s[i] ELSE s[i + 1]]

(* Its places.                                                              *)
LEMMA SkipTyped ==
  ASSUME NEW S, NEW s \in Seq(S), NEW p \in 1 .. Len(s)
  PROVE  /\ Skip(s, p) \in Seq(S) /\ Len(Skip(s, p)) = Len(s) - 1
         /\ \A i \in 1 .. Len(s) - 1 : Skip(s, p)[i] = IF i < p THEN s[i] ELSE s[i + 1]
<1>1. Len(s) \in Nat /\ Len(s) - 1 \in Nat
  OBVIOUS
<1>2. \A i \in 1 .. Len(s) - 1 : (IF i < p THEN s[i] ELSE s[i + 1]) \in S
  OBVIOUS
<1>3. Skip(s, p) \in Seq(S) /\ Len(Skip(s, p)) = Len(s) - 1
  BY <1>1, <1>2, IsASeq DEF Skip
<1> QED BY <1>3 DEF Skip

(* retain keeps what is not the key.                                        *)
LEMMA RetainedSteps ==
  ASSUME NEW S, NEW s \in Seq(S), NEW key
  PROVE  /\ Retained(s, key)[0] = << >>
         /\ \A n \in 1 .. Len(s) :
              Retained(s, key)[n] = IF s[n] = key THEN Retained(s, key)[n - 1]
                                    ELSE Append(Retained(s, key)[n - 1], s[n])
<1> DEFINE N == Len(s)
           StepOf(x, n) == IF s[n] = key THEN x ELSE Append(x, s[n])
           g == [n \in 1 .. N |-> [x \in Seq(S) |-> StepOf(x, n)]]
           kept == Retained(s, key)
<1>1. N \in Nat /\ << >> \in Seq(S)
  OBVIOUS
<1>2. g \in [1 .. N -> [Seq(S) -> Seq(S)]]
  <2>1. ASSUME NEW n \in 1 .. N, NEW x \in Seq(S) PROVE StepOf(x, n) \in Seq(S)
    OBVIOUS
  <2> HIDE DEF StepOf, N
  <2> QED BY <2>1
<1>3. PICK f \in [0 .. N -> Seq(S)] : Recurs(f, N, << >>, g)
  <2> HIDE DEF g, N
  <2> QED BY <1>1, <1>2, RecursExists
<1>4. f = [n \in 0 .. N |-> IF n = 0 THEN << >> ELSE StepOf(f[n - 1], n)]
  <2>1. ASSUME NEW n \in 0 .. N
        PROVE  (IF n = 0 THEN << >> ELSE g[n][f[n - 1]])
                 = IF n = 0 THEN << >> ELSE StepOf(f[n - 1], n)
    <3> HIDE DEF StepOf, N
    <3> QED BY <1>1, <1>3
  <2> HIDE DEF StepOf, N, g
  <2> QED BY <1>3, <2>1 DEF Recurs
<1>5. kept = CHOOSE r : r = [n \in 0 .. N |-> IF n = 0 THEN << >> ELSE StepOf(r[n - 1], n)]
  BY DEF Retained
<1>6. kept = [n \in 0 .. N |-> IF n = 0 THEN << >> ELSE StepOf(kept[n - 1], n)]
  <2> HIDE DEF StepOf, N, kept
  <2> QED BY <1>4, <1>5
<1>7. kept[0] = << >> /\ \A n \in 1 .. N : kept[n] = StepOf(kept[n - 1], n)
  <2> HIDE DEF StepOf, N, kept
  <2> QED BY <1>1, <1>6
<1> QED BY <1>7

(* retain changes nothing in a list without the key ...                     *)
LEMMA RetainAbsent ==
  ASSUME NEW S, NEW s \in Seq(S), NEW key, \A i \in 1 .. Len(s) : s[i] # key
  PROVE  Retain(s, key) = s
<1> DEFINE N == Len(s)
           kept == Retained(s, key)
           T == {n \in 0 .. N : kept[n] = SubSeq(s, 1, n)}
<1>1. N \in Nat /\ SubSeq(s, 1, 0) = << >> /\ SubSeq(s, 1, N) = s
  OBVIOUS
<1>2. 0 \in T
  <2>1. kept[0] = << >> /\ 0 \in 0 .. N
    BY <1>1, RetainedSteps
  <2> HIDE DEF kept, N
  <2> QED BY <1>1, <2>1
<1>3. ASSUME NEW n \in 1 .. N, n - 1 \in T PROVE n \in T
  <2>0. n \in 0 .. N
    BY <1>1
  <2>1. kept[n] = Append(SubSeq(s, 1, n - 1), s[n])
    <3>1. kept[n] = IF s[n] = key THEN kept[n - 1] ELSE Append(kept[n - 1], s[n])
      BY RetainedSteps
    <3>2. kept[n - 1] = SubSeq(s, 1, n - 1) /\ s[n] # key
      BY <1>3
    <3> HIDE DEF kept
    <3> QED BY <3>1, <3>2
  <2>2. SubSeq(s, 1, n) = Append(SubSeq(s, 1, n - 1), s[n])
    OBVIOUS
  <2> HIDE DEF kept, N
  <2> QED BY <2>0, <2>1, <2>2
<1>4. 0 .. N \subseteq T
  <2> HIDE DEF T, N
  <2> QED BY <1>1, <1>2, <1>3, UpTo
<1>5. kept[N] = SubSeq(s, 1, N)
  <2>1. N \in T
    <3> HIDE DEF T, N
    <3> QED BY <1>1, <1>4
  <2> QED BY <2>1
<1> QED BY <1>1, <1>5 DEF Retain

(* ... and takes the one place of the key out of a list that names it.      *)
LEMMA RetainAt ==
  ASSUME NEW S, NEW s \in Seq(S), IsInjective(s), NEW p \in 1 .. Len(s)
  PROVE  Retain(s, s[p]) = Skip(s, p)
<1> DEFINE N == Len(s)
           kept == Retained(s, s[p])
           was == [n \in 0 .. N |-> IF n < p THEN SubSeq(s, 1, n)
                                    ELSE SubSeq(Skip(s, p), 1, n - 1)]
           T == {n \in 0 .. N : kept[n] = was[n]}
<1>1. N \in Nat /\ SubSeq(s, 1, 0) = << >> /\ was[0] = << >> /\ p \in 1 .. N
  OBVIOUS
<1>2. 0 \in T
  <2>1. kept[0] = << >> /\ 0 \in 0 .. N
    BY <1>1, RetainedSteps
  <2> HIDE DEF kept, was, N
  <2> QED BY <1>1, <2>1
<1>3. ASSUME NEW n \in 1 .. N, n - 1 \in T PROVE n \in T
  <2>0. n \in 0 .. N
    BY <1>1
  <2>1. kept[n] = IF s[n] = s[p] THEN was[n - 1] ELSE Append(was[n - 1], s[n])
    BY <1>3, RetainedSteps
  <2>2. s[n] = s[p] <=> n = p
    BY DEF IsInjective
  <2>3. CASE n < p
    <3>0. n # p /\ s[n] # s[p]
      BY <2>2, <2>3
    <3>1. was[n - 1] = SubSeq(s, 1, n - 1) /\ was[n] = SubSeq(s, 1, n)
      BY <2>3
    <3>2. SubSeq(s, 1, n) = Append(SubSeq(s, 1, n - 1), s[n])
      OBVIOUS
    <3> HIDE DEF kept, was, N
    <3> QED BY <2>0, <2>1, <3>0, <3>1, <3>2
  <2>4. CASE n = p
    <3>1. was[n - 1] = SubSeq(s, 1, n - 1) /\ was[n] = SubSeq(Skip(s, p), 1, n - 1)
      BY <2>4
    <3>2. SubSeq(s, 1, n - 1) = SubSeq(Skip(s, p), 1, n - 1)
      <4>1. ASSUME NEW i \in 1 .. n - 1 PROVE Skip(s, p)[i] = s[i]
        <5>1. i \in 1 .. Len(s) - 1 /\ i < p
          BY <2>4
        <5> QED BY <5>1, SkipTyped
      <4>2. SubSeq(s, 1, n - 1) = [i \in 1 .. n - 1 |-> s[i]]
        OBVIOUS
      <4>3. SubSeq(Skip(s, p), 1, n - 1) = [i \in 1 .. n - 1 |-> Skip(s, p)[i]]
        OBVIOUS
      <4> QED BY <4>1, <4>2, <4>3
    <3> HIDE DEF kept, was, N
    <3> QED BY <2>0, <2>1, <2>2, <2>4, <3>1, <3>2
  <2>5. CASE n > p
    <3>0. n # p /\ s[n] # s[p]
      BY <2>2, <2>5
    <3>1. was[n - 1] = SubSeq(Skip(s, p), 1, n - 2) /\ was[n] = SubSeq(Skip(s, p), 1, n - 1)
      <4>1. n - 1 \in 0 .. N /\ ~(n - 1 < p) /\ ~(n < p) /\ n - 1 - 1 = n - 2
        BY <2>5
      <4> QED BY <4>1
    <3>2. SubSeq(Skip(s, p), 1, n - 1) = Append(SubSeq(Skip(s, p), 1, n - 2), s[n])
      <4>1. Skip(s, p) \in Seq(S) /\ n - 1 \in 1 .. Len(Skip(s, p)) /\ Skip(s, p)[n - 1] = s[n]
        BY <2>5, SkipTyped
      <4> QED BY <4>1
    <3> HIDE DEF kept, was, N
    <3> QED BY <2>0, <2>1, <3>0, <3>1, <3>2
  <2> QED BY <1>1, <2>3, <2>4, <2>5
<1>4. 0 .. N \subseteq T
  <2> HIDE DEF T, N
  <2> QED BY <1>1, <1>2, <1>3, UpTo
<1>5. SubSeq(Skip(s, p), 1, N - 1) = Skip(s, p)
  BY SkipTyped
<1>6. was[N] = SubSeq(Skip(s, p), 1, N - 1)
  BY <1>1
<1>7. kept[N] = was[N]
  <2> HIDE DEF kept, was, N
  <2> QED BY <1>1, <1>4
<1> QED BY <1>5, <1>6, <1>7 DEF Retain

----------------------------------------------------------------------------
(* The bytes of a list of cached blocks.                                    *)
LEMMA TotalsSteps ==
  ASSUME NEW S, NEW s \in Seq(S), NEW c, \A i \in 1 .. Len(s) : SizeOf(c, s[i]) \in Nat
  PROVE  /\ Totals(c, s)[0] = 0
         /\ \A n \in 1 .. Len(s) : Totals(c, s)[n] = Totals(c, s)[n - 1] + SizeOf(c, s[n])
         /\ \A n \in 0 .. Len(s) : Totals(c, s)[n] \in Nat
<1> DEFINE N == Len(s)
           StepOf(x, n) == x + SizeOf(c, s[n])
           g == [n \in 1 .. N |-> [x \in Nat |-> StepOf(x, n)]]
           total == Totals(c, s)
<1>1. N \in Nat
  OBVIOUS
<1>2. g \in [1 .. N -> [Nat -> Nat]]
  <2>1. ASSUME NEW n \in 1 .. N, NEW x \in Nat PROVE StepOf(x, n) \in Nat
    OBVIOUS
  <2> HIDE DEF StepOf, N
  <2> QED BY <2>1
<1>3. PICK f \in [0 .. N -> Nat] : Recurs(f, N, 0, g)
  <2> HIDE DEF g, N
  <2> QED BY <1>1, <1>2, RecursExists
<1>4. f = [n \in 0 .. N |-> IF n = 0 THEN 0 ELSE StepOf(f[n - 1], n)]
  <2>1. ASSUME NEW n \in 0 .. N
        PROVE  (IF n = 0 THEN 0 ELSE g[n][f[n - 1]]) = IF n = 0 THEN 0 ELSE StepOf(f[n - 1], n)
    <3> HIDE DEF StepOf, N
    <3> QED BY <1>1, <1>3
  <2> HIDE DEF StepOf, N, g
  <2> QED BY <1>3, <2>1 DEF Recurs
<1>5. total = CHOOSE t : t = [n \in 0 .. N |-> IF n = 0 THEN 0 ELSE StepOf(t[n - 1], n)]
  BY DEF Totals
<1>6. total = [n \in 0 .. N |-> IF n = 0 THEN 0 ELSE StepOf(total[n - 1], n)]
  <2> HIDE DEF StepOf, N, total
  <2> QED BY <1>4, <1>5
<1>7. total[0] = 0 /\ \A n \in 1 .. N : total[n] = StepOf(total[n - 1], n)
  <2> HIDE DEF StepOf, N, total
  <2> QED BY <1>1, <1>6
<1> DEFINE T == {n \in 0 .. N : total[n] \in Nat}
<1>8. ASSUME NEW n \in 1 .. N, n - 1 \in T PROVE n \in T
  <2>1. StepOf(total[n - 1], n) \in Nat
    <3> HIDE DEF total
    <3> QED BY <1>8
  <2> HIDE DEF total, StepOf, N
  <2> QED BY <1>1, <1>7, <2>1
<1>9. 0 \in T
  <2> HIDE DEF total, StepOf, N
  <2> QED BY <1>1, <1>7
<1>10. 0 .. N \subseteq T
  <2> HIDE DEF T, N
  <2> QED BY <1>1, <1>8, <1>9, UpTo
<1> QED BY <1>7, <1>10

(* Lists that agree up to n have the same totals up to n.                   *)
Sized(c, s) == \A i \in 1 .. Len(s) : SizeOf(c, s[i]) \in Nat

SameSizes(c, s, d, r, n) == \A i \in 1 .. n : SizeOf(c, s[i]) = SizeOf(d, r[i])

(* Lists with the same sizes up to n have the same totals up to n.          *)
LEMMA TotalsAgree ==
  ASSUME NEW S, NEW s \in Seq(S), NEW r \in Seq(S), NEW c, NEW d, Sized(c, s), Sized(d, r),
         NEW n \in Nat, n <= Len(s), n <= Len(r), SameSizes(c, s, d, r, n)
  PROVE  Totals(c, s)[n] = Totals(d, r)[n]
<1> USE DEF Sized, SameSizes
<1> DEFINE T == {m \in 0 .. n : Totals(c, s)[m] = Totals(d, r)[m]}
<1>1. Totals(c, s)[0] = 0 /\ Totals(d, r)[0] = 0
  BY TotalsSteps
<1>2. ASSUME NEW m \in 1 .. n
      PROVE  /\ Totals(c, s)[m] = Totals(c, s)[m - 1] + SizeOf(c, s[m])
             /\ Totals(d, r)[m] = Totals(d, r)[m - 1] + SizeOf(d, r[m])
  <2>1. m \in 1 .. Len(s) /\ m \in 1 .. Len(r)
    OBVIOUS
  <2> QED BY <2>1, TotalsSteps
<1>3. 0 \in T
  BY <1>1
<1>4. ASSUME NEW m \in 1 .. n, m - 1 \in T PROVE m \in T
  BY <1>2, <1>4
<1>5. 0 .. n \subseteq T
  <2> HIDE DEF T
  <2> QED BY <1>3, <1>4, UpTo
<1> QED BY <1>5

(* A key in front of a list adds its bytes ...                              *)
LEMMA TotalsFront ==
  ASSUME NEW S, NEW s \in Seq(S), NEW key \in S, NEW c, SizeOf(c, key) \in Nat,
         \A i \in 1 .. Len(s) : SizeOf(c, s[i]) \in Nat
  PROVE  Totals(c, <<key>> \o s)[Len(s) + 1] = SizeOf(c, key) + Totals(c, s)[Len(s)]
<1> DEFINE N == Len(s)
           r == <<key>> \o s
           T == {m \in 0 .. N : Totals(c, r)[m + 1] = SizeOf(c, key) + Totals(c, s)[m]}
<1>1. /\ N \in Nat /\ r \in Seq(S) /\ Len(r) = N + 1
      /\ r[1] = key /\ \A i \in 1 .. N : r[i + 1] = s[i]
  OBVIOUS
<1> HIDE DEF r
<1>2. \A i \in 1 .. Len(r) : SizeOf(c, r[i]) \in Nat
  <2> SUFFICES ASSUME NEW i \in 1 .. N + 1 PROVE SizeOf(c, r[i]) \in Nat
    BY <1>1
  <2>1. CASE i = 1
    BY <1>1, <2>1
  <2>2. CASE i # 1
    <3>1. i - 1 \in 1 .. N /\ i - 1 + 1 = i
      BY <1>1, <2>2
    <3> QED BY <1>1, <3>1
  <2> QED BY <2>1, <2>2
<1>3. Totals(c, r)[0] = 0 /\ Totals(c, s)[0] = 0
  BY <1>1, <1>2, TotalsSteps
<1>4. Totals(c, r)[1] = Totals(c, r)[0] + SizeOf(c, r[1])
  <2>1. 1 \in 1 .. Len(r) /\ 1 - 1 = 0
    BY <1>1
  <2>2. \A i \in 1 .. Len(r) : Totals(c, r)[i] = Totals(c, r)[i - 1] + SizeOf(c, r[i])
    BY <1>1, <1>2, TotalsSteps
  <2> QED BY <2>1, <2>2
<1>5. 0 \in T
  <2> HIDE DEF N
  <2> QED BY <1>1, <1>3, <1>4
<1>6. ASSUME NEW m \in 1 .. N, m - 1 \in T PROVE m \in T
  <2>1. m + 1 \in 1 .. Len(r) /\ m + 1 - 1 = m /\ m - 1 + 1 = m /\ m \in 0 .. N /\ m - 1 \in 0 .. N
    <3> HIDE DEF N
    <3> QED BY <1>1
  <2>2. Totals(c, r)[m + 1] = Totals(c, r)[m] + SizeOf(c, r[m + 1])
    <3>1. \A n \in 1 .. Len(r) : Totals(c, r)[n] = Totals(c, r)[n - 1] + SizeOf(c, r[n])
      BY <1>1, <1>2, TotalsSteps
    <3> HIDE DEF N
    <3> QED BY <2>1, <3>1
  <2>3. Totals(c, s)[m] = Totals(c, s)[m - 1] + SizeOf(c, s[m]) /\ Totals(c, s)[m - 1] \in Nat
    BY <2>1, TotalsSteps
  <2>4. Totals(c, r)[m] = SizeOf(c, key) + Totals(c, s)[m - 1]
    BY <1>6, <2>1
  <2>5. r[m + 1] = s[m] /\ SizeOf(c, s[m]) \in Nat
    BY <1>1
  <2> QED BY <2>1, <2>2, <2>3, <2>4, <2>5
<1>7. 0 .. N \subseteq T
  <2> HIDE DEF T, N
  <2> QED BY <1>1, <1>5, <1>6, UpTo
<1> QED BY <1>1, <1>7 DEF r

(* ... and taking the p-th key out takes its bytes away.                    *)
LEMMA TotalsSkip ==
  ASSUME NEW S, NEW s \in Seq(S), NEW p \in 1 .. Len(s), NEW c,
         \A i \in 1 .. Len(s) : SizeOf(c, s[i]) \in Nat
  PROVE  Totals(c, s)[Len(s)] = SizeOf(c, s[p]) + Totals(c, Skip(s, p))[Len(s) - 1]
<1> DEFINE N == Len(s)
           r == Skip(s, p)
           T == {m \in 0 .. N : m >= p =>
                    Totals(c, s)[m] = SizeOf(c, s[p]) + Totals(c, r)[m - 1]}
<1>1. /\ N \in Nat /\ r \in Seq(S) /\ Len(r) = N - 1 /\ p \in 1 .. N
      /\ \A i \in 1 .. N - 1 : r[i] = IF i < p THEN s[i] ELSE s[i + 1]
  <2>1. r \in Seq(S) /\ Len(r) = N - 1
    BY SkipTyped
  <2>2. \A i \in 1 .. N - 1 : r[i] = IF i < p THEN s[i] ELSE s[i + 1]
    BY SkipTyped
  <2> HIDE DEF r
  <2> QED BY <2>1, <2>2
<1>2. \A i \in 1 .. Len(r) : SizeOf(c, r[i]) \in Nat
  <2> SUFFICES ASSUME NEW i \in 1 .. N - 1 PROVE SizeOf(c, r[i]) \in Nat
    BY <1>1
  <2>1. i \in 1 .. N /\ i + 1 \in 1 .. N
    BY <1>1
  <2> HIDE DEF r
  <2> QED BY <1>1, <2>1
<1> HIDE DEF r
<1>3. Totals(c, s)[p - 1] = Totals(c, r)[p - 1]
  <2>1. p - 1 \in Nat /\ p - 1 <= N /\ p - 1 <= Len(r)
    BY <1>1
  <2>2. \A i \in 1 .. p - 1 : r[i] = s[i]
    BY <1>1
  <2>3. \A i \in 1 .. p - 1 : SizeOf(c, s[i]) = SizeOf(c, r[i])
    BY <2>2
  <2> DEFINE n == p - 1
  <2>4. n \in Nat /\ n <= Len(s) /\ n <= Len(r) /\ \A i \in 1 .. n : SizeOf(c, s[i]) = SizeOf(c, r[i])
    BY <2>1, <2>3
  <2> HIDE DEF n
  <2>5. Totals(c, s)[n] = Totals(c, r)[n]
    <3>1. r \in Seq(S) /\ n \in Nat /\ n <= Len(s) /\ n <= Len(r)
      BY <1>1, <2>4
    <3>2. Sized(c, s) /\ Sized(c, r) /\ SameSizes(c, s, c, r, n)
      BY <1>2, <2>4 DEF Sized, SameSizes
    <3> HIDE DEF N, T
    <3> QED BY <3>1, <3>2, TotalsAgree
  <2> QED BY <2>5 DEF n
<1>4. 0 \in T
  BY <1>1
<1>5. ASSUME NEW m \in 1 .. N, m - 1 \in T PROVE m \in T
  <2> SUFFICES ASSUME m >= p
               PROVE  Totals(c, s)[m] = SizeOf(c, s[p]) + Totals(c, r)[m - 1]
    BY <1>1
  <2>1. /\ Totals(c, s)[m] = Totals(c, s)[m - 1] + SizeOf(c, s[m])
        /\ Totals(c, s)[m - 1] \in Nat /\ SizeOf(c, s[m]) \in Nat
    <3>1. m - 1 \in 0 .. N
      BY <1>1
    <3> QED BY <3>1, TotalsSteps
  <2>2. CASE m = p
    BY <1>3, <2>1, <2>2
  <2>3. CASE m # p
    <3>1. m - 1 \in 1 .. Len(r) /\ m - 1 >= p /\ r[m - 1] = s[m] /\ m - 1 - 1 = m - 2
      BY <1>1, <2>3
    <3>2. Totals(c, r)[m - 1] = Totals(c, r)[m - 2] + SizeOf(c, r[m - 1])
      BY <1>1, <1>2, <3>1, TotalsSteps
    <3>3. Totals(c, r)[m - 2] \in Nat
      <4>1. m - 2 \in 0 .. Len(r)
        BY <1>1, <3>1
      <4> QED BY <1>1, <1>2, <4>1, TotalsSteps
    <3>4. Totals(c, s)[m - 1] = SizeOf(c, s[p]) + Totals(c, r)[m - 2]
      BY <1>5, <3>1
    <3>5. SizeOf(c, s[p]) \in Nat
      OBVIOUS
    <3> QED BY <2>1, <3>1, <3>2, <3>3, <3>4, <3>5
  <2> QED BY <2>2, <2>3
<1>6. 0 .. N \subseteq T
  <2> HIDE DEF T, N
  <2> QED BY <1>1, <1>4, <1>5, UpTo
<1>7. N \in T
  <2> HIDE DEF T, N
  <2> QED BY <1>1, <1>6
<1>8. Totals(c, s)[N] = SizeOf(c, s[p]) + Totals(c, r)[N - 1]
  <2>1. N >= p
    BY <1>1
  <2> HIDE DEF N
  <2> QED BY <1>7, <2>1
<1> QED BY <1>8 DEF r

----------------------------------------------------------------------------
(* A key in front of a list that does not name it.                          *)
LEMMA FrontAt ==
  ASSUME NEW S, NEW s \in Seq(S), NEW key \in S
  PROVE  /\ <<key>> \o s \in Seq(S) /\ Len(<<key>> \o s) = Len(s) + 1
         /\ (<<key>> \o s)[1] = key
         /\ \A i \in 2 .. Len(s) + 1 : (<<key>> \o s)[i] = s[i - 1]
  OBVIOUS

(* It still names each key once.                                            *)
LEMMA FrontInjective ==
  ASSUME NEW S, NEW s \in Seq(S), NEW key \in S, IsInjective(s), key \notin ToSet(s)
  PROVE  /\ IsInjective(<<key>> \o s)
         /\ ToSet(<<key>> \o s) = ToSet(s) \cup {key}
<1> DEFINE r == <<key>> \o s
<1>1. /\ r \in Seq(S) /\ Len(r) = Len(s) + 1 /\ r[1] = key
      /\ \A i \in 2 .. Len(s) + 1 : r[i] = s[i - 1]
  BY FrontAt
<1> HIDE DEF r
<1>2. Len(s) \in Nat /\ DOMAIN s = 1 .. Len(s) /\ DOMAIN r = 1 .. Len(s) + 1
  BY <1>1
<1>3. ASSUME NEW i \in 2 .. Len(s) + 1
      PROVE  i - 1 \in DOMAIN s /\ r[i] = s[i - 1] /\ r[i] # key
  <2>1. i - 1 \in DOMAIN s /\ r[i] = s[i - 1]
    BY <1>1, <1>2
  <2> QED BY <2>1 DEF ToSet
<1>4. ASSUME NEW i \in DOMAIN r, NEW j \in DOMAIN r, r[i] = r[j] PROVE i = j
  <2>1. CASE i = 1 \/ j = 1
    BY <1>1, <1>2, <1>3, <1>4, <2>1
  <2>2. CASE i # 1 /\ j # 1
    <3>1. i \in 2 .. Len(s) + 1 /\ j \in 2 .. Len(s) + 1
      BY <1>2, <2>2
    <3>2. i - 1 = j - 1
      BY <1>3, <1>4, <3>1 DEF IsInjective
    <3> QED BY <3>1, <3>2
  <2> QED BY <2>1, <2>2
<1>5. ToSet(r) \subseteq ToSet(s) \cup {key}
  <2> SUFFICES ASSUME NEW i \in DOMAIN r, i # 1 PROVE r[i] \in ToSet(s)
    BY <1>1 DEF ToSet
  <2>1. i \in 2 .. Len(s) + 1
    BY <1>2
  <2> QED BY <1>3, <2>1 DEF ToSet
<1>6. ToSet(s) \cup {key} \subseteq ToSet(r)
  <2>1. key \in ToSet(r)
    BY <1>1, <1>2 DEF ToSet
  <2>2. ASSUME NEW i \in DOMAIN s PROVE s[i] \in ToSet(r)
    <3>1. i + 1 \in 2 .. Len(s) + 1 /\ i + 1 - 1 = i /\ i + 1 \in DOMAIN r
      BY <1>2
    <3>2. r[i + 1] = s[i]
      BY <1>1, <3>1
    <3> QED BY <3>1, <3>2 DEF ToSet
  <2> QED BY <2>1, <2>2 DEF ToSet
<1> QED BY <1>4, <1>5, <1>6 DEF IsInjective, r

(* A list that names each key once, without its p-th key.                   *)
LEMMA SkipInjective ==
  ASSUME NEW S, NEW s \in Seq(S), IsInjective(s), NEW p \in 1 .. Len(s)
  PROVE  IsInjective(Skip(s, p)) /\ ToSet(Skip(s, p)) = ToSet(s) \ {s[p]}
<1> DEFINE r == Skip(s, p)
           At(i) == IF i < p THEN i ELSE i + 1
<1>1. /\ r \in Seq(S) /\ Len(r) = Len(s) - 1
      /\ \A i \in 1 .. Len(s) - 1 : r[i] = IF i < p THEN s[i] ELSE s[i + 1]
  BY SkipTyped
<1> HIDE DEF r
<1>2. Len(s) \in Nat /\ DOMAIN s = 1 .. Len(s) /\ DOMAIN r = 1 .. Len(s) - 1
  BY <1>1
<1>3. ASSUME NEW i \in DOMAIN r PROVE At(i) \in DOMAIN s /\ At(i) # p /\ r[i] = s[At(i)]
  BY <1>1, <1>2
<1>4. ASSUME NEW i \in DOMAIN r, NEW j \in DOMAIN r, At(i) = At(j) PROVE i = j
  BY <1>2, <1>4
<1>5. ASSUME NEW i \in DOMAIN s, i # p PROVE \E j \in DOMAIN r : At(j) = i
  <2>1. CASE i < p
    <3>1. i \in DOMAIN r /\ At(i) = i
      BY <1>2, <2>1
    <3> QED BY <3>1
  <2>2. CASE i > p
    <3>1. i - 1 \in DOMAIN r /\ At(i - 1) = i
      BY <1>2, <2>2
    <3> QED BY <3>1
  <2> QED BY <1>2, <1>5, <2>1, <2>2
<1> HIDE DEF At
<1>6. IsInjective(r)
  BY <1>3, <1>4 DEF IsInjective
<1>7. ToSet(r) \subseteq ToSet(s) \ {s[p]}
  <2> SUFFICES ASSUME NEW i \in DOMAIN r PROVE r[i] \in ToSet(s) /\ r[i] # s[p]
    BY DEF ToSet
  <2>1. At(i) \in DOMAIN s /\ At(i) # p /\ r[i] = s[At(i)] /\ p \in DOMAIN s
    BY <1>3
  <2> QED BY <2>1 DEF IsInjective, ToSet
<1>8. ToSet(s) \ {s[p]} \subseteq ToSet(r)
  <2> SUFFICES ASSUME NEW i \in DOMAIN s, s[i] # s[p] PROVE s[i] \in ToSet(r)
    BY DEF ToSet
  <2>1. PICK j \in DOMAIN r : At(j) = i
    BY <1>5
  <2>2. r[j] = s[i]
    BY <1>3, <2>1
  <2> QED BY <2>2 DEF ToSet
<1> QED BY <1>6, <1>7, <1>8 DEF r

----------------------------------------------------------------------------
(* A cache whose list names each cached block once and whose total is the   *)
(* sum of their sizes.                                                      *)
Accounted(c, K) ==
    /\ c.order \in Seq(K) /\ IsInjective(c.order) /\ ToSet(c.order) = DOMAIN c.map
    /\ \A key \in DOMAIN c.map : c.map[key].size \in Nat
    /\ c.size = TotalSize(c, c.order)

(* Its blocks and its total have sizes in bytes.                            *)
LEMMA AccountedSized ==
  ASSUME NEW K, NEW c, Accounted(c, K)
  PROVE  /\ \A key : SizeOf(c, key) \in Nat
         /\ \A s : Sized(c, s)
         /\ c.size \in Nat
<1>1. \A key : SizeOf(c, key) \in Nat
  BY DEF Accounted, SizeOf
<1>2. \A s : Sized(c, s)
  BY <1>1 DEF Sized
<1>3. TotalSize(c, c.order) \in Nat
  <2>1. c.order \in Seq(K) /\ Len(c.order) \in 0 .. Len(c.order)
    BY DEF Accounted
  <2>2. \A i \in 1 .. Len(c.order) : SizeOf(c, c.order[i]) \in Nat
    BY <1>1
  <2> QED BY <2>1, <2>2, TotalsSteps DEF TotalSize
<1> QED BY <1>1, <1>2, <1>3 DEF Accounted

(* A hit brings the block to the front and changes nothing else.            *)
Touched(c, d, key) ==
    /\ d.map = c.map /\ d.size = c.size /\ Len(d.order) = Len(c.order)
    /\ \E p \in 1 .. Len(c.order) :
          c.order[p] = key /\ d.order = <<key>> \o Skip(c.order, p)

(* A hit keeps the accounts.                                                *)
LEMMA TouchKeeps ==
  ASSUME NEW K, NEW c, Accounted(c, K), NEW key \in DOMAIN c.map
  PROVE  Accounted(Touch(c, key), K) /\ Touched(c, Touch(c, key), key)
<1> DEFINE o == c.order
           d == Touch(c, key)
<1>1. o \in Seq(K) /\ IsInjective(o) /\ ToSet(o) = DOMAIN c.map
  BY DEF Accounted
<1> HIDE DEF o
<1>2. PICK p \in 1 .. Len(o) : o[p] = key
  BY <1>1 DEF ToSet
<1>3. Retain(o, key) = Skip(o, p) /\ key \in K
  BY <1>1, <1>2, RetainAt
<1>4. d = [map |-> c.map, order |-> <<key>> \o Skip(o, p), size |-> c.size]
  BY <1>3 DEF Touch, o
<1>5. d.map = c.map /\ d.size = c.size /\ d.order = <<key>> \o Skip(o, p)
  BY <1>4
<1> HIDE DEF d
<1>6. Skip(o, p) \in Seq(K) /\ Len(Skip(o, p)) = Len(o) - 1 /\ Len(o) \in Nat
  BY <1>1, SkipTyped
<1>7. IsInjective(Skip(o, p)) /\ ToSet(Skip(o, p)) = ToSet(o) \ {key}
  BY <1>1, <1>2, SkipInjective
<1>8. /\ d.order \in Seq(K) /\ Len(d.order) = Len(o)
      /\ IsInjective(d.order) /\ ToSet(d.order) = ToSet(o)
  <2>1. d.order \in Seq(K) /\ Len(d.order) = Len(Skip(o, p)) + 1
    BY <1>3, <1>5, <1>6, FrontAt
  <2>2. IsInjective(d.order) /\ ToSet(d.order) = ToSet(Skip(o, p)) \cup {key}
    BY <1>3, <1>5, <1>6, <1>7, FrontInjective
  <2>3. key \in ToSet(o)
    BY <1>1
  <2> QED BY <1>6, <1>7, <2>1, <2>2, <2>3
<1>9. \A k : SizeOf(d, k) = SizeOf(c, k) /\ SizeOf(c, k) \in Nat
  BY <1>5, AccountedSized DEF SizeOf
<1>10. TotalSize(d, d.order) = TotalSize(c, o)
  <2>1. /\ \A i \in 1 .. Len(o) : SizeOf(c, o[i]) \in Nat
        /\ \A i \in 1 .. Len(Skip(o, p)) : SizeOf(d, Skip(o, p)[i]) \in Nat
        /\ SizeOf(d, key) \in Nat /\ Sized(d, Skip(o, p)) /\ Sized(c, Skip(o, p))
        /\ SameSizes(d, Skip(o, p), c, Skip(o, p), Len(o) - 1)
    BY <1>9 DEF Sized, SameSizes
  <2>2. Totals(c, o)[Len(o)] = SizeOf(c, key) + Totals(c, Skip(o, p))[Len(o) - 1]
    BY <1>1, <1>2, <2>1, TotalsSkip
  <2>3. Totals(d, d.order)[Len(o)] = SizeOf(d, key) + Totals(d, Skip(o, p))[Len(o) - 1]
    <3>1. Totals(d, d.order)[Len(Skip(o, p)) + 1]
             = SizeOf(d, key) + Totals(d, Skip(o, p))[Len(Skip(o, p))]
      BY <1>3, <1>5, <1>6, <2>1, TotalsFront
    <3> QED BY <1>6, <3>1
  <2>4. Totals(d, Skip(o, p))[Len(o) - 1] = Totals(c, Skip(o, p))[Len(o) - 1]
    <3>1. Len(o) - 1 \in Nat
      BY <1>6
    <3> DEFINE n == Len(o) - 1
    <3>2. n \in Nat /\ n <= Len(Skip(o, p)) /\ SameSizes(d, Skip(o, p), c, Skip(o, p), n)
      BY <1>6, <2>1, <3>1
    <3> HIDE DEF n
    <3>3. Totals(d, Skip(o, p))[n] = Totals(c, Skip(o, p))[n]
      BY <1>6, <2>1, <3>2, TotalsAgree
    <3> QED BY <3>3 DEF n
  <2> QED BY <1>8, <1>9, <2>2, <2>3, <2>4 DEF TotalSize
<1>11. Accounted(d, K)
  BY <1>1, <1>5, <1>8, <1>10 DEF Accounted, o
<1> QED BY <1>2, <1>5, <1>8, <1>11 DEF o, d, Touched

(* After n rounds of the eviction loop the total is that of what is left.   *)
LEMMA PoppedTotals ==
  ASSUME NEW K, NEW c, Accounted(c, K), NEW n \in 0 .. Len(c.order)
  PROVE  Popped(c)[n] = Totals(c, c.order)[Len(c.order) - n]
<1> DEFINE o == c.order
           N == Len(o)
           StepOf(x, m) == x - SizeOf(c, o[N - m + 1])
           was == [m \in 0 .. N |-> Totals(c, o)[N - m]]
           left == Popped(c)
<1>1. o \in Seq(K) /\ N \in Nat /\ c.size = Totals(c, o)[N]
  BY DEF Accounted, TotalSize
<1>2. \A i \in 1 .. N : Totals(c, o)[i] = Totals(c, o)[i - 1] + SizeOf(c, o[i])
  <2>1. \A i \in 1 .. Len(o) : SizeOf(c, o[i]) \in Nat
    BY AccountedSized
  <2> QED BY <1>1, <2>1, TotalsSteps
<1>3. \A i \in 0 .. N : Totals(c, o)[i] \in Nat
  <2>1. \A i \in 1 .. Len(o) : SizeOf(c, o[i]) \in Nat
    BY AccountedSized
  <2> QED BY <1>1, <2>1, TotalsSteps
<1>4. ASSUME NEW m \in 1 .. N PROVE was[m] = StepOf(was[m - 1], m)
  <2> DEFINE i == N - m + 1
  <2>1. i \in 1 .. N /\ i \in 0 .. N /\ i - 1 \in 0 .. N /\ N - m = i - 1 /\ N - (m - 1) = i
    <3> HIDE DEF N
    <3> QED BY <1>1
  <2>2. was[m] = Totals(c, o)[i - 1] /\ was[m - 1] = Totals(c, o)[i]
    <3>1. m \in 0 .. N /\ m - 1 \in 0 .. N
      <4> HIDE DEF N
      <4> QED BY <1>1
    <3> HIDE DEF N, i
    <3> QED BY <2>1, <3>1
  <2>3. StepOf(was[m - 1], m) = was[m - 1] - SizeOf(c, o[i])
    OBVIOUS
  <2>4. SizeOf(c, o[i]) \in Nat
    BY AccountedSized
  <2> HIDE DEF was, StepOf, i, N, o
  <2> QED BY <1>2, <1>3, <2>1, <2>2, <2>3, <2>4
<1>5. was = [m \in 0 .. N |-> IF m = 0 THEN c.size ELSE StepOf(was[m - 1], m)]
  <2>1. was = [m \in 0 .. N |-> was[m]] /\ was[0] = c.size
    BY <1>1
  <2>2. ASSUME NEW m \in 0 .. N PROVE was[m] = IF m = 0 THEN c.size ELSE StepOf(was[m - 1], m)
    <3>1. m = 0 \/ m \in 1 .. N
      BY <1>1
    <3> HIDE DEF was, StepOf, N
    <3> QED BY <1>4, <2>1, <3>1
  <2> HIDE DEF was, StepOf, N
  <2> QED BY <2>1, <2>2
<1>6. left = CHOOSE l : l = [m \in 0 .. N |-> IF m = 0 THEN c.size ELSE StepOf(l[m - 1], m)]
  BY DEF Popped
<1>7. left = [m \in 0 .. N |-> IF m = 0 THEN c.size ELSE StepOf(left[m - 1], m)]
  <2> HIDE DEF was, left, StepOf, N
  <2> QED BY <1>5, <1>6
<1> DEFINE T == {m \in 0 .. N : left[m] = was[m]}
<1>8. 0 \in T
  <2>1. was[0] = c.size
    BY <1>1
  <2> HIDE DEF was, left, StepOf, N
  <2> QED BY <1>1, <1>7, <2>1
<1>9. ASSUME NEW m \in 1 .. N, m - 1 \in T PROVE m \in T
  <2> HIDE DEF was, left, StepOf, N
  <2> QED BY <1>1, <1>4, <1>7, <1>9
<1>10. 0 .. N \subseteq T
  <2> HIDE DEF T, N
  <2> QED BY <1>1, <1>8, <1>9, UpTo
<1>11. left[n] = was[n]
  BY <1>10
<1> QED BY <1>11

(* Eviction leaves the front of the list and what it names, and it makes    *)
(* room unless nothing is left.                                             *)
Evicted(c, e, bytes) ==
    /\ \E m \in 0 .. Len(c.order) : e.order = SubSeq(c.order, 1, m)
    /\ DOMAIN e.map \subseteq DOMAIN c.map
    /\ \A key \in DOMAIN e.map : e.map[key] = c.map[key]
    /\ e.size + bytes <= Capacity \/ Len(e.order) = 0

(* Eviction keeps the accounts.                                             *)
LEMMA EvictKeeps ==
  ASSUME NEW K, NEW c, Accounted(c, K), NEW bytes \in Nat
  PROVE  Accounted(Evict(c, bytes), K) /\ Evicted(c, Evict(c, bytes), bytes)
<1> DEFINE o == c.order
           N == Len(o)
           T == {n \in 0 .. N : n = N \/ Popped(c)[n] + bytes <= Capacity}
           n == Rounds(c, bytes)
           m == N - n
           gone == SubSeq(o, m + 1, N)
           e == Evict(c, bytes)
<1>1. o \in Seq(K) /\ IsInjective(o) /\ ToSet(o) = DOMAIN c.map /\ N \in Nat
  BY DEF Accounted
<1>2. n \in T
  <2>1. N \in T /\ T \subseteq Nat
    BY <1>1
  <2>2. n = Min(T)
    BY DEF Rounds
  <2> HIDE DEF T, n
  <2>3. PICK k \in T : \A i \in T : k <= i
    BY <2>1, LeastNat
  <2> QED BY <2>1, <2>2, <2>3, LeastIsMin
<1>3. n \in 0 .. N /\ m \in 0 .. N /\ (n = N \/ Popped(c)[n] + bytes <= Capacity)
  <2>1. n \in 0 .. N /\ (n = N \/ Popped(c)[n] + bytes <= Capacity)
    <3> HIDE DEF n, N
    <3> QED BY <1>2
  <2> HIDE DEF n, N
  <2> QED BY <1>1, <2>1
<1>4. e = [map |-> [x \in DOMAIN c.map \ ToSet(gone) |-> c.map[x]],
           order |-> SubSeq(o, 1, m), size |-> Popped(c)[n]]
  BY DEF Evict
<1>5. /\ DOMAIN e.map = DOMAIN c.map \ ToSet(gone)
      /\ \A x \in DOMAIN e.map : e.map[x] = c.map[x]
      /\ e.order = SubSeq(o, 1, m) /\ e.size = Popped(c)[n]
  <2> HIDE DEF e, gone, m, n, o
  <2> QED BY <1>4
<1>6. Popped(c)[n] = Totals(c, o)[m]
  BY <1>3, PoppedTotals
<1> HIDE DEF e, n, m, N
<1>7. /\ e.order \in Seq(K) /\ Len(e.order) = m
      /\ \A i \in 1 .. m : e.order[i] = o[i] /\ i \in 1 .. N
  BY <1>1, <1>3, <1>5 DEF N
<1>8. ToSet(gone) = {o[i] : i \in m + 1 .. N}
  <2>1. gone = [i \in 1 .. N - m |-> o[m + i]]
    BY <1>1, <1>3 DEF N
  <2>2. ToSet(gone) = {o[m + i] : i \in 1 .. N - m}
    <3> HIDE DEF gone
    <3> QED BY <2>1 DEF ToSet
  <2>3. ASSUME NEW i \in m + 1 .. N PROVE i - m \in 1 .. N - m /\ m + (i - m) = i
    BY <1>1, <1>3
  <2>4. \A i \in 1 .. N - m : m + i \in m + 1 .. N
    BY <1>1, <1>3
  <2> HIDE DEF gone, o
  <2> QED BY <2>2, <2>3, <2>4
<1> HIDE DEF gone
<1>9. IsInjective(e.order)
  <2>1. DOMAIN o = 1 .. N /\ DOMAIN e.order = 1 .. m
    BY <1>1, <1>3, <1>7 DEF N
  <2>2. \A i, j \in 1 .. N : o[i] = o[j] => i = j
    BY <1>1, <2>1 DEF IsInjective
  <2> HIDE DEF o, T
  <2> QED BY <1>7, <2>1, <2>2 DEF IsInjective
<1>10. ToSet(e.order) = DOMAIN e.map
  <2>1. ToSet(e.order) = {o[i] : i \in 1 .. m}
    BY <1>7 DEF ToSet
  <2>2. ToSet(o) = {o[i] : i \in 1 .. N}
    BY <1>1 DEF ToSet, N
  <2>3. \A i \in 1 .. N : i \in 1 .. m \/ i \in m + 1 .. N
    BY <1>1, <1>3
  <2>4. \A i \in 1 .. m, j \in m + 1 .. N : o[i] # o[j] /\ i \in 1 .. N
    <3>1. \A i \in 1 .. m, j \in m + 1 .. N : i # j /\ i \in 1 .. N /\ j \in 1 .. N
      BY <1>1, <1>3
    <3>2. DOMAIN o = 1 .. N
      BY <1>1 DEF N
    <3> HIDE DEF o
    <3> QED BY <1>1, <3>1, <3>2 DEF IsInjective
  <2>5. DOMAIN e.map = ToSet(o) \ {o[i] : i \in m + 1 .. N}
    BY <1>1, <1>5, <1>8
  <2>6. ToSet(e.order) \subseteq DOMAIN e.map
    <3> SUFFICES ASSUME NEW i \in 1 .. m PROVE o[i] \in DOMAIN e.map
      BY <2>1
    <3>1. i \in 1 .. N /\ \A j \in m + 1 .. N : o[i] # o[j]
      BY <1>7, <2>4
    <3> HIDE DEF o
    <3> QED BY <2>2, <2>5, <3>1
  <2>7. DOMAIN e.map \subseteq ToSet(e.order)
    <3> HIDE DEF o
    <3> QED BY <2>1, <2>2, <2>3, <2>5
  <2> QED BY <2>6, <2>7
<1>11. \A key \in DOMAIN e.map : e.map[key].size \in Nat /\ SizeOf(e, key) = SizeOf(c, key)
  BY <1>5 DEF Accounted, SizeOf
<1>12. e.size = TotalSize(e, e.order)
  <2>1. Sized(e, e.order) /\ Sized(c, o) /\ SameSizes(e, e.order, c, o, m)
    <3>1. \A i \in 1 .. m : e.order[i] \in DOMAIN e.map /\ e.order[i] = o[i]
      BY <1>7, <1>10 DEF ToSet
    <3>2. \A i \in 1 .. m : SizeOf(e, e.order[i]) = SizeOf(c, o[i])
      BY <1>11, <3>1
    <3>3. \A key : SizeOf(c, key) \in Nat
      BY AccountedSized
    <3> QED BY <1>7, <3>2, <3>3 DEF Sized, SameSizes
  <2>2. m \in Nat /\ m <= Len(e.order) /\ m <= Len(o)
    BY <1>1, <1>3, <1>7 DEF N
  <2>3. Totals(e, e.order)[m] = Totals(c, o)[m]
    <3> HIDE DEF o
    <3> QED BY <1>1, <1>7, <2>1, <2>2, TotalsAgree
  <2> QED BY <1>5, <1>6, <1>7, <2>3 DEF TotalSize
<1>13. Accounted(e, K)
  BY <1>7, <1>9, <1>10, <1>11, <1>12 DEF Accounted
<1>14. e.size + bytes <= Capacity \/ Len(e.order) = 0
  BY <1>1, <1>3, <1>5, <1>7 DEF m
<1>15. m \in 0 .. Len(c.order)
  BY <1>3 DEF N
<1> QED BY <1>5, <1>13, <1>14, <1>15 DEF e, Evicted

(* A missed block is put in front of what eviction leaves, and the total    *)
(* exceeds the capacity only if the block alone does.                       *)
Inserted(c, d, key, block) ==
    /\ \E m \in 0 .. Len(c.order) : d.order = <<key>> \o SubSeq(c.order, 1, m)
    /\ DOMAIN d.map \subseteq DOMAIN c.map \cup {key}
    /\ \A k \in DOMAIN d.map : d.map[k] = IF k = key THEN block ELSE c.map[k]
    /\ d.size <= Capacity \/ Len(d.order) = 1

(* put keeps the accounts.                                                  *)
LEMMA InsertKeeps ==
  ASSUME NEW K, NEW c, Accounted(c, K), NEW key \in K, key \notin DOMAIN c.map,
         NEW block, block.size \in Nat
  PROVE  Accounted(Insert(c, key, block), K) /\ Inserted(c, Insert(c, key, block), key, block)
<1> DEFINE w == Without(c, key)
           e == Evict(w, block.size)
           d == Insert(c, key, block)
<1>1. /\ DOMAIN w.map = DOMAIN c.map /\ \A k \in DOMAIN c.map : w.map[k] = c.map[k]
      /\ w.order = c.order /\ w.size = c.size
  <2>1. SizeOf(c, key) = 0 /\ c.size \in Nat
    BY AccountedSized DEF SizeOf
  <2> QED BY <2>1 DEF Without
<1> HIDE DEF w
<1>2. Accounted(w, K)
  <2>1. \A k : SizeOf(w, k) = SizeOf(c, k) /\ SizeOf(c, k) \in Nat
    BY <1>1, AccountedSized DEF SizeOf
  <2>2. TotalSize(w, w.order) = TotalSize(c, c.order)
    <3>1. Sized(w, c.order) /\ Sized(c, c.order) /\ SameSizes(w, c.order, c, c.order, Len(c.order))
      BY <2>1 DEF Sized, SameSizes
    <3>2. c.order \in Seq(K) /\ Len(c.order) \in Nat
      BY DEF Accounted
    <3> DEFINE n == Len(c.order)
    <3>3. n \in Nat /\ n <= Len(c.order) /\ SameSizes(w, c.order, c, c.order, n)
      BY <3>1, <3>2
    <3> HIDE DEF n
    <3>4. Totals(w, c.order)[n] = Totals(c, c.order)[n]
      BY <3>1, <3>2, <3>3, TotalsAgree
    <3> QED BY <1>1, <3>4 DEF TotalSize, n
  <2> QED BY <1>1, <2>2 DEF Accounted
<1>3. /\ Accounted(e, K)
      /\ \E m \in 0 .. Len(c.order) : e.order = SubSeq(c.order, 1, m)
      /\ DOMAIN e.map \subseteq DOMAIN c.map
      /\ \A k \in DOMAIN e.map : e.map[k] = c.map[k]
      /\ e.size + block.size <= Capacity \/ Len(e.order) = 0
  <2>1. Accounted(e, K) /\ Evicted(w, e, block.size)
    BY <1>2, EvictKeeps
  <2> HIDE DEF e
  <2> QED BY <1>1, <2>1 DEF Evicted
<1>4. d = [map |-> [x \in DOMAIN e.map \cup {key} |-> IF x = key THEN block ELSE e.map[x]],
           order |-> <<key>> \o e.order, size |-> e.size + block.size]
  BY DEF Insert, w
<1> HIDE DEF d, e
<1>5. /\ DOMAIN d.map = DOMAIN e.map \cup {key}
      /\ \A k \in DOMAIN d.map : d.map[k] = IF k = key THEN block ELSE e.map[k]
      /\ d.order = <<key>> \o e.order /\ d.size = e.size + block.size
  BY <1>4
<1>6. e.order \in Seq(K) /\ IsInjective(e.order) /\ ToSet(e.order) = DOMAIN e.map
  BY <1>3 DEF Accounted
<1>7. d.order \in Seq(K) /\ Len(d.order) = Len(e.order) + 1 /\ Len(e.order) \in Nat
  BY <1>5, <1>6, FrontAt
<1>8. IsInjective(d.order) /\ ToSet(d.order) = DOMAIN d.map
  <2>1. key \notin ToSet(e.order)
    BY <1>3, <1>6
  <2>2. IsInjective(d.order) /\ ToSet(d.order) = ToSet(e.order) \cup {key}
    BY <1>5, <1>6, <2>1, FrontInjective
  <2> QED BY <1>5, <1>6, <2>2
<1>9. /\ \A k \in DOMAIN d.map : d.map[k].size \in Nat
      /\ SizeOf(d, key) = block.size
      /\ \A k \in DOMAIN e.map : SizeOf(d, k) = SizeOf(e, k)
  BY <1>3, <1>5 DEF Accounted, SizeOf
<1>10. TotalSize(d, d.order) = d.size
  <2>1. \A k : SizeOf(d, k) \in Nat
    BY <1>9 DEF SizeOf
  <2>2. Totals(d, d.order)[Len(e.order) + 1] = SizeOf(d, key) + Totals(d, e.order)[Len(e.order)]
    BY <1>5, <1>6, <2>1, TotalsFront
  <2>3. Totals(d, e.order)[Len(e.order)] = Totals(e, e.order)[Len(e.order)]
    <3> DEFINE n == Len(e.order)
    <3>1. \A i \in 1 .. n : e.order[i] \in DOMAIN e.map
      BY <1>6 DEF ToSet
    <3>2. SameSizes(d, e.order, e, e.order, n)
      BY <1>9, <3>1 DEF SameSizes
    <3>3. Sized(d, e.order) /\ Sized(e, e.order)
      BY <1>3, <2>1, AccountedSized DEF Sized
    <3>4. n \in Nat /\ n <= Len(e.order)
      BY <1>6
    <3> HIDE DEF n
    <3>5. Totals(d, e.order)[n] = Totals(e, e.order)[n]
      BY <1>6, <3>2, <3>3, <3>4, TotalsAgree
    <3> QED BY <3>5 DEF n
  <2>4. e.size = Totals(e, e.order)[Len(e.order)] /\ e.size \in Nat
    BY <1>3, AccountedSized DEF Accounted, TotalSize
  <2> QED BY <1>5, <1>7, <1>9, <2>2, <2>3, <2>4 DEF TotalSize
<1>11. Accounted(d, K)
  BY <1>7, <1>8, <1>9, <1>10 DEF Accounted
<1>12. \A k \in DOMAIN d.map : d.map[k] = IF k = key THEN block ELSE c.map[k]
  BY <1>3, <1>5
<1>13. d.size <= Capacity \/ Len(d.order) = 1
  BY <1>3, <1>5, <1>7
<1> QED BY <1>3, <1>5, <1>11, <1>12, <1>13 DEF d, Inserted

----------------------------------------------------------------------------
(* The history of reads names each block once, the last read first.         *)
LEMMA RetainIs ==
  ASSUME NEW K, NEW r \in Seq(K), IsInjective(r), NEW key
  PROVE  \/ key \notin ToSet(r) /\ Retain(r, key) = r
         \/ \E p \in 1 .. Len(r) : r[p] = key /\ Retain(r, key) = Skip(r, p)
<1>1. DOMAIN r = 1 .. Len(r)
  OBVIOUS
<1>2. CASE key \in ToSet(r)
  <2>1. PICK p \in 1 .. Len(r) : r[p] = key
    BY <1>1, <1>2 DEF ToSet
  <2> QED BY <2>1, RetainAt
<1>3. CASE key \notin ToSet(r)
  <2>1. \A i \in 1 .. Len(r) : r[i] # key
    BY <1>1, <1>3 DEF ToSet
  <2> QED BY <1>3, <2>1, RetainAbsent
<1> QED BY <1>2, <1>3

(* Reading a block moves it to the front of the history.                    *)
LEMMA RecentKeeps ==
  ASSUME NEW K, NEW r \in Seq(K), IsInjective(r), NEW key \in K
  PROVE  /\ Retain(r, key) \in Seq(K)
         /\ <<key>> \o Retain(r, key) \in Seq(K)
         /\ IsInjective(<<key>> \o Retain(r, key))
<1> DEFINE s == Retain(r, key)
<1>1. s \in Seq(K) /\ IsInjective(s) /\ key \notin ToSet(s)
  <2>1. CASE key \notin ToSet(r) /\ s = r
    BY <2>1
  <2>2. CASE \E p \in 1 .. Len(r) : r[p] = key /\ s = Skip(r, p)
    <3>1. PICK p \in 1 .. Len(r) : r[p] = key /\ s = Skip(r, p)
      BY <2>2
    <3>2. Skip(r, p) \in Seq(K) /\ IsInjective(Skip(r, p))
          /\ ToSet(Skip(r, p)) = ToSet(r) \ {r[p]}
      BY SkipTyped, SkipInjective
    <3> HIDE DEF s
    <3> QED BY <3>1, <3>2
  <2> QED BY <2>1, <2>2, RetainIs
<1> HIDE DEF s
<1> QED BY <1>1, FrontAt, FrontInjective DEF s

(* The same key in front of a list and of a prefix of it.                   *)
LEMMA FrontPrefix ==
  ASSUME NEW K, NEW s \in Seq(K), NEW r \in Seq(K), NEW key \in K, IsPrefix(s, r)
  PROVE  IsPrefix(<<key>> \o s, <<key>> \o r)
<1> DEFINE a == <<key>> \o s
           b == <<key>> \o r
<1>1. Len(s) <= Len(r) /\ (\A i \in 1 .. Len(s) : s[i] = r[i]) /\ Len(s) \in Nat /\ Len(r) \in Nat
  BY PrefixAgrees
<1>2. /\ a \in Seq(K) /\ Len(a) = Len(s) + 1 /\ a[1] = key
      /\ \A i \in 2 .. Len(s) + 1 : a[i] = s[i - 1]
  BY FrontAt
<1>3. /\ b \in Seq(K) /\ Len(b) = Len(r) + 1 /\ b[1] = key
      /\ \A i \in 2 .. Len(r) + 1 : b[i] = r[i - 1]
  BY FrontAt
<1> HIDE DEF a, b
<1>4. ASSUME NEW i \in 1 .. Len(a) PROVE a[i] = b[i]
  <2>1. CASE i = 1
    BY <1>2, <1>3, <2>1
  <2>2. CASE i # 1
    <3>1. i \in 2 .. Len(s) + 1 /\ i \in 2 .. Len(r) + 1 /\ i - 1 \in 1 .. Len(s)
      BY <1>1, <1>2, <2>2
    <3> QED BY <1>1, <1>2, <1>3, <3>1
  <2> QED BY <2>1, <2>2
<1>5. Len(a) <= Len(b)
  BY <1>1, <1>2, <1>3
<1>6. IsPrefix(a, b)
  BY <1>2, <1>3, <1>4, <1>5, PrefixAgrees
<1> QED BY <1>6 DEF a, b

(* A front part of the history stays one when a block it names is read ...  *)
LEMMA TouchOrder ==
  ASSUME NEW K, NEW o \in Seq(K), NEW r \in Seq(K), IsInjective(r), IsPrefix(o, r),
         NEW p \in 1 .. Len(o)
  PROVE  IsPrefix(Skip(o, p), Retain(r, o[p]))
<1>1. /\ Len(o) <= Len(r) /\ (\A i \in 1 .. Len(o) : o[i] = r[i])
      /\ Len(o) \in Nat /\ Len(r) \in Nat
  BY PrefixAgrees
<1>2. p \in 1 .. Len(r) /\ o[p] = r[p]
  BY <1>1
<1>3. Retain(r, o[p]) = Skip(r, p)
  BY <1>2, RetainAt
<1>4. /\ Skip(o, p) \in Seq(K) /\ Len(Skip(o, p)) = Len(o) - 1
      /\ \A i \in 1 .. Len(o) - 1 : Skip(o, p)[i] = IF i < p THEN o[i] ELSE o[i + 1]
  BY SkipTyped
<1>5. /\ Skip(r, p) \in Seq(K) /\ Len(Skip(r, p)) = Len(r) - 1
      /\ \A i \in 1 .. Len(r) - 1 : Skip(r, p)[i] = IF i < p THEN r[i] ELSE r[i + 1]
  BY <1>2, SkipTyped
<1>6. ASSUME NEW i \in 1 .. Len(o) - 1 PROVE Skip(o, p)[i] = Skip(r, p)[i]
  <2>1. i \in 1 .. Len(r) - 1 /\ i \in 1 .. Len(o) /\ i + 1 \in 1 .. Len(o)
    BY <1>1
  <2> QED BY <1>1, <1>4, <1>5, <2>1
<1>7. Len(o) - 1 <= Len(r) - 1
  BY <1>1
<1>8. IsPrefix(Skip(o, p), Skip(r, p))
  BY <1>4, <1>5, <1>6, <1>7, PrefixAgrees
<1> QED BY <1>3, <1>8

(* ... and so does a part of it when another block is read.                 *)
LEMMA InsertOrder ==
  ASSUME NEW K, NEW o \in Seq(K), NEW r \in Seq(K), IsInjective(r), IsPrefix(o, r),
         NEW key \in K, key \notin ToSet(o), NEW m \in 0 .. Len(o)
  PROVE  IsPrefix(SubSeq(o, 1, m), Retain(r, key))
<1> DEFINE s == SubSeq(o, 1, m)
<1>1. /\ Len(o) <= Len(r) /\ (\A i \in 1 .. Len(o) : o[i] = r[i])
      /\ Len(o) \in Nat /\ Len(r) \in Nat
  BY PrefixAgrees
<1>2. s \in Seq(K) /\ Len(s) = m /\ \A i \in 1 .. m : s[i] = o[i]
  OBVIOUS
<1> HIDE DEF s
<1>3. CASE Retain(r, key) = r
  <2>1. m <= Len(r) /\ \A i \in 1 .. m : s[i] = r[i]
    BY <1>1, <1>2
  <2> QED BY <1>2, <1>3, <2>1, PrefixAgrees DEF s
<1>4. CASE \E p \in 1 .. Len(r) : r[p] = key /\ Retain(r, key) = Skip(r, p)
  <2>1. PICK p \in 1 .. Len(r) : r[p] = key /\ Retain(r, key) = Skip(r, p)
    BY <1>4
  <2>2. p > Len(o)
    <3>1. \A i \in 1 .. Len(o) : r[i] # key
      <4>1. DOMAIN o = 1 .. Len(o)
        OBVIOUS
      <4> QED BY <1>1, <4>1 DEF ToSet
    <3> QED BY <1>1, <2>1, <3>1
  <2>3. /\ Skip(r, p) \in Seq(K) /\ Len(Skip(r, p)) = Len(r) - 1
        /\ \A i \in 1 .. Len(r) - 1 : Skip(r, p)[i] = IF i < p THEN r[i] ELSE r[i + 1]
    BY SkipTyped
  <2>4. ASSUME NEW i \in 1 .. m PROVE s[i] = Skip(r, p)[i]
    <3>1. i \in 1 .. Len(r) - 1 /\ i < p /\ i \in 1 .. Len(o)
      BY <1>1, <2>1, <2>2
    <3> QED BY <1>1, <1>2, <2>3, <3>1
  <2>5. Len(s) <= Len(Skip(r, p)) /\ \A i \in 1 .. Len(s) : s[i] = Skip(r, p)[i]
    BY <1>1, <1>2, <2>1, <2>2, <2>3, <2>4
  <2>6. IsPrefix(s, Skip(r, p))
    BY <1>2, <2>3, <2>5, PrefixAgrees
  <2> QED BY <2>1, <2>6 DEF s
<1> QED BY <1>3, <1>4, RetainIs

----------------------------------------------------------------------------
(* What the invariant says of the cache and of the history of reads.        *)
CacheInv ==
    /\ DOMAIN cache.map \subseteq CacheKey /\ \A key \in DOMAIN cache.map : cache.map[key] \in Block
    /\ cache.order \in Seq(CacheKey) /\ cache.size \in Nat
    /\ recent \in Seq(CacheKey) /\ IsInjective(recent)
    /\ IdsFresh /\ CacheCoherent /\ CacheAccounted /\ LruOrder

(* What it says of the readers ...                                          *)
ReadersInv ==
    /\ nextId \in 1 .. MaxSsts + 1 /\ DOMAIN ssts \subseteq 1 .. nextId - 1
    /\ \A i \in DOMAIN ssts : ssts[i].entries \in SstContents
    /\ FilesBuilt

(* ... and of the iterator.                                                 *)
IterInv ==
    /\ iter \in [id : Nat, block : Nat, got : Seq(Entry)]
    /\ Idle \/ (iter.id \in DOMAIN ssts /\ iter.block \in 1 .. Len(ssts[iter.id].file.index) + 1)
    /\ IterExact

(* Together they are the invariant.                                         *)
LEMMA ReadInvParts ==
  ReadInv <=> CacheInv /\ ReadersInv /\ IterInv /\ ReadsExact
  BY DEF ReadInv, CacheInv, ReadersInv, IterInv, TypeOK

(* The contents of an open table.                                           *)
LEMMA TableOf ==
  ASSUME ReadersInv, NEW id \in DOMAIN ssts
  PROVE  /\ ssts[id].entries \in Seq(Entry) /\ Sorted(ssts[id].entries)
         /\ ssts[id].file = File(ssts[id].entries)
  BY ContentsAssumption DEF ReadersInv, FilesBuilt, Opened

(* A decoded block of an open table is a block.                             *)
LEMMA DecodedTyped ==
  ASSUME ReadersInv, NEW id \in DOMAIN ssts, NEW b \in 1 .. Len(ssts[id].file.index)
  PROVE  Decode(BlockData(ssts[id].file, b)) \in Block
<1> DEFINE t == ssts[id].entries
           d == Decode(BlockData(ssts[id].file, b))
<1>1. t \in Seq(Entry) /\ ssts[id].file = File(t)
  BY TableOf
<1> HIDE DEF t
<1>2. /\ From(t, b) \in Nat /\ From(t, b + 1) \in Nat
      /\ From(t, b) < From(t, b + 1) /\ From(t, b + 1) <= Len(t)
      /\ d.entries = SubSeq(t, From(t, b) + 1, From(t, b + 1)) /\ d.size \in Nat
  BY <1>1, BlockSliced
<1>3. d.entries \in Seq(Entry)
  <2> HIDE DEF d
  <2> QED BY <1>1, <1>2
<1>4. d = [entries |-> d.entries, size |-> d.size]
  BY DEF Decode
<1> HIDE DEF d
<1>5. d \in Block
  BY <1>2, <1>3, <1>4 DEF Block
<1> QED BY <1>5 DEF d

(* load_block gives the decoded block, cached or not.                       *)
LEMMA Loaded ==
  ASSUME ReadersInv, CacheCoherent, NEW id \in DOMAIN ssts, NEW b
  PROVE  LoadBlock(cache, id, b) = Decode(BlockData(ssts[id].file, b))
<1>1. CASE Cached(cache, id, b)
  BY <1>1 DEF LoadBlock, Cached, CacheCoherent
<1>2. CASE ~Cached(cache, id, b)
  BY <1>2 DEF LoadBlock
<1> QED BY <1>1, <1>2

(* load_block keeps the cache coherent, accounted and in order.             *)
LEMMA LoadKeeps ==
  ASSUME ReadersInv, CacheInv, NEW id \in DOMAIN ssts, NEW b \in 1 .. Len(ssts[id].file.index),
         Load(id, b), UNCHANGED <<ssts, nextId>>
  PROVE  CacheInv'
<1> DEFINE key == [id |-> id, block |-> b]
           K == CacheKey
<1>1. key \in K /\ key.id = id /\ key.block = b /\ id < nextId
  <2>1. id \in 1 .. nextId - 1 /\ nextId \in 1 .. MaxSsts + 1 /\ MaxSsts \in Nat
    BY ContentsAssumption DEF ReadersInv
  <2>2. b \in Nat \ {0}
    OBVIOUS
  <2> QED BY <2>1, <2>2 DEF CacheKey
<1>2. recent' = <<key>> \o Retain(recent, key) /\ cache' = CacheAfter(cache, id, b)
  BY DEF Load
<1>3. recent' \in Seq(K) /\ IsInjective(recent') /\ Retain(recent, key) \in Seq(K)
  <2> HIDE DEF K, key
  <2> QED BY <1>1, <1>2, RecentKeeps DEF CacheInv, K
<1>4. CASE Capacity = 0
  <2>1. cache' = cache
    BY <1>2, <1>4 DEF CacheAfter
  <2>2. (LruOrder)'
    BY <1>4 DEF LruOrder
  <2>3. IdsFresh' /\ CacheCoherent' /\ CacheAccounted'
    BY <2>1 DEF CacheInv, IdsFresh, CacheCoherent, CacheAccounted
  <2> QED BY <1>3, <2>1, <2>2, <2>3 DEF CacheInv
<1>5. Accounted(cache, K)
  <2>1. \A k \in DOMAIN cache.map : cache.map[k].size \in Nat
    BY DEF CacheInv, Block
  <2> QED BY <2>1 DEF CacheInv, CacheAccounted, Accounted
<1>6. CASE Capacity > 0 /\ Cached(cache, id, b)
  <2>1. cache' = Touch(cache, key) /\ key \in DOMAIN cache.map
    BY <1>2, <1>6 DEF CacheAfter, Cached
  <2> HIDE DEF K, key
  <2>0. Accounted(cache', K) /\ Touched(cache, cache', key)
    BY <1>5, <2>1, TouchKeeps
  <2>2. /\ Accounted(cache', K) /\ cache'.map = cache.map /\ cache'.size = cache.size
        /\ Len(cache'.order) = Len(cache.order)
    BY <2>0 DEF Touched
  <2>3. PICK p \in 1 .. Len(cache.order) :
           cache.order[p] = key /\ cache'.order = <<key>> \o Skip(cache.order, p)
    BY <2>0 DEF Touched
  <2>4. IsPrefix(cache'.order, recent')
    <3>1. cache.order \in Seq(K) /\ recent \in Seq(K) /\ IsInjective(recent) /\ IsPrefix(cache.order, recent)
      BY <1>6 DEF CacheInv, LruOrder, K
    <3>2. IsPrefix(Skip(cache.order, p), Retain(recent, key))
      BY <2>3, <3>1, TouchOrder
    <3>3. Skip(cache.order, p) \in Seq(K)
      BY <3>1, SkipTyped
    <3> QED BY <1>1, <1>2, <1>3, <2>3, <3>2, <3>3, FrontPrefix
  <2>5. CacheAccounted'
    BY <2>2 DEF Accounted, CacheAccounted, CacheInv
  <2>6. IdsFresh' /\ CacheCoherent'
    BY <2>2 DEF CacheInv, IdsFresh, CacheCoherent
  <2>7. /\ DOMAIN cache'.map \subseteq CacheKey
        /\ \A k \in DOMAIN cache'.map : cache'.map[k] \in Block
        /\ cache'.order \in Seq(CacheKey) /\ cache'.size \in Nat
    BY <2>2 DEF CacheInv, Accounted, K
  <2> QED BY <1>3, <2>4, <2>5, <2>6, <2>7 DEF CacheInv, LruOrder, K
<1>7. CASE Capacity > 0 /\ ~Cached(cache, id, b)
  <2> DEFINE block == Decode(BlockData(ssts[id].file, b))
  <2>1. block \in Block /\ LoadBlock(cache, id, b) = block
    BY Loaded, DecodedTyped DEF CacheInv
  <2> HIDE DEF block
  <2>2. cache' = Insert(cache, key, block) /\ key \notin DOMAIN cache.map /\ block.size \in Nat
    BY <1>2, <1>7, <2>1 DEF CacheAfter, Cached, Block
  <2> HIDE DEF K, key
  <2>0. Accounted(cache', K) /\ Inserted(cache, cache', key, block)
    BY <1>1, <1>5, <2>2, InsertKeeps
  <2>3. /\ Accounted(cache', K)
        /\ DOMAIN cache'.map \subseteq DOMAIN cache.map \cup {key}
        /\ \A k \in DOMAIN cache'.map : cache'.map[k] = IF k = key THEN block ELSE cache.map[k]
        /\ cache'.size <= Capacity \/ Len(cache'.order) = 1
    BY <2>0 DEF Inserted
  <2>4. PICK m \in 0 .. Len(cache.order) : cache'.order = <<key>> \o SubSeq(cache.order, 1, m)
    BY <2>0 DEF Inserted
  <2>5. IsPrefix(cache'.order, recent')
    <3>1. /\ cache.order \in Seq(K) /\ recent \in Seq(K) /\ IsInjective(recent)
          /\ IsPrefix(cache.order, recent) /\ key \notin ToSet(cache.order)
      BY <1>7, <2>2 DEF CacheInv, LruOrder, CacheAccounted, K
    <3>2. IsPrefix(SubSeq(cache.order, 1, m), Retain(recent, key))
      BY <1>1, <3>1, InsertOrder
    <3>3. SubSeq(cache.order, 1, m) \in Seq(K)
      BY <3>1
    <3> QED BY <1>1, <1>2, <1>3, <2>4, <3>2, <3>3, FrontPrefix
  <2>6. CacheAccounted'
    BY <2>3 DEF Accounted, CacheAccounted
  <2>7. IdsFresh'
    BY <1>1, <2>3 DEF CacheInv, IdsFresh
  <2>8. CacheCoherent'
    BY <1>1, <2>3 DEF CacheInv, CacheCoherent, block
  <2>9. /\ DOMAIN cache'.map \subseteq CacheKey
        /\ \A k \in DOMAIN cache'.map : cache'.map[k] \in Block
        /\ cache'.order \in Seq(CacheKey)
    BY <1>1, <2>1, <2>3 DEF CacheInv, Accounted, K
  <2>10. cache'.size \in Nat
    BY <2>3, AccountedSized
  <2> QED BY <1>3, <2>5, <2>6, <2>7, <2>8, <2>9, <2>10 DEF CacheInv, LruOrder, K
<1> QED BY <1>4, <1>6, <1>7, CapacityAssumption

----------------------------------------------------------------------------
(* The invariant holds in the empty store ...                               *)
LEMMA ReadInvInit ==
  Init => ReadInv
<1> SUFFICES ASSUME Init PROVE ReadInv
  OBVIOUS
<1>1. /\ cache.map = << >> /\ cache.order = << >> /\ cache.size = 0 /\ DOMAIN cache.map = {}
      /\ recent = << >>
  BY DEF Init, EmptyCache
<1>2. TotalSize(cache, cache.order) = 0
  <2>1. << >> \in Seq(CacheKey) /\ Len(<< >>) = 0 /\ \A i \in 1 .. Len(<< >>) : SizeOf(cache, << >>[i]) \in Nat
    OBVIOUS
  <2>2. Totals(cache, << >>)[0] = 0
    BY <2>1, TotalsSteps
  <2> QED BY <1>1, <2>1, <2>2 DEF TotalSize
<1>3. CacheAccounted
  <2>1. IsInjective(cache.order) /\ ToSet(cache.order) = DOMAIN cache.map
    BY <1>1 DEF IsInjective, ToSet
  <2> QED BY <1>1, <1>2, <2>1, CapacityAssumption DEF CacheAccounted
<1>4. LruOrder
  BY <1>1 DEF LruOrder, IsPrefix
<1>5. CacheInv
  <2>1. << >> \in Seq(CacheKey) /\ IsInjective(<< >>)
    BY DEF IsInjective
  <2> QED BY <1>1, <1>3, <1>4, <2>1 DEF CacheInv, IdsFresh, CacheCoherent
<1>6. ReadersInv
  BY ContentsAssumption DEF Init, ReadersInv, FilesBuilt
<1>7. IterInv
  BY DEF Init, IterInv, Idle, NoIter, IterExact
<1>8. ReadsExact
  BY DEF Init, ReadsExact
<1> QED BY <1>5, <1>6, <1>7, <1>8, ReadInvParts

(* ... and each step keeps it.                                              *)
LEMMA ReadersKeep ==
  ASSUME ReadersInv, UNCHANGED <<ssts, nextId>>
  PROVE  ReadersInv'
  BY DEF ReadersInv, FilesBuilt

(* A step that leaves the iterator alone keeps its part ...                 *)
LEMMA IterKeeps ==
  ASSUME IterInv, UNCHANGED <<ssts, iter>>
  PROVE  IterInv'
  BY DEF IterInv, Idle, IterExact

(* ... and so does one that leaves the cache alone.                         *)
LEMMA CacheKeeps ==
  ASSUME CacheInv, UNCHANGED <<cache, recent, ssts, nextId>>
  PROVE  CacheInv'
  BY DEF CacheInv, IdsFresh, CacheCoherent, CacheAccounted, LruOrder

(* A new table has an id that no cached block has.                          *)
LEMMA OpenKeeps ==
  ASSUME ReadInv, NEW t \in SstContents, OpenSst(t)
  PROVE  ReadInv'
<1>1. CacheInv /\ ReadersInv /\ IterInv /\ ReadsExact /\ Idle
  BY ReadInvParts DEF OpenSst
<1>2. /\ DOMAIN ssts' = DOMAIN ssts \cup {nextId} /\ ssts'[nextId] = Opened(t)
      /\ \A i \in DOMAIN ssts : i # nextId => ssts'[i] = ssts[i]
      /\ nextId' = nextId + 1 /\ nextId <= MaxSsts
      /\ UNCHANGED <<cache, iter, recent, answer>>
  BY DEF OpenSst, NewId
<1>3. \A i \in DOMAIN ssts : i # nextId /\ i \in Nat /\ ssts'[i] = ssts[i]
  BY <1>1, <1>2 DEF ReadersInv
<1>4. ReadersInv'
  <2>1. nextId' \in 1 .. MaxSsts + 1 /\ DOMAIN ssts' \subseteq 1 .. nextId' - 1
    BY <1>1, <1>2, ContentsAssumption DEF ReadersInv
  <2>2. ssts'[nextId].entries = t /\ ssts'[nextId] = Opened(ssts'[nextId].entries)
    BY <1>2 DEF Opened
  <2>3. \A i \in DOMAIN ssts' : ssts'[i].entries \in SstContents /\ ssts'[i] = Opened(ssts'[i].entries)
    BY <1>1, <1>2, <1>3, <2>2 DEF ReadersInv, FilesBuilt
  <2> QED BY <2>1, <2>3 DEF ReadersInv, FilesBuilt
<1>5. CacheInv'
  <2>1. ASSUME NEW key \in DOMAIN cache.map PROVE key.id < nextId /\ key.id \in Nat
    BY <1>1 DEF CacheInv, IdsFresh, CacheKey
  <2>2. IdsFresh'
    BY <1>1, <1>2, <2>1 DEF IdsFresh, ReadersInv
  <2>3. CacheCoherent'
    <3> SUFFICES ASSUME NEW key \in DOMAIN cache.map, key.id \in DOMAIN ssts'
                 PROVE  cache.map[key] = Decode(BlockData(ssts'[key.id].file, key.block))
      BY <1>2 DEF CacheCoherent
    <3>1. key.id \in DOMAIN ssts /\ ssts'[key.id] = ssts[key.id]
      BY <1>1, <1>2, <1>3, <2>1 DEF ReadersInv
    <3> QED BY <1>1, <3>1 DEF CacheInv, CacheCoherent
  <2> QED BY <1>1, <1>2, <2>2, <2>3 DEF CacheInv, CacheAccounted, LruOrder
<1>6. IterInv'
  BY <1>1, <1>2 DEF IterInv, Idle, IterExact
<1>7. ReadsExact'
  BY <1>1, <1>2 DEF ReadsExact
<1> QED BY <1>4, <1>5, <1>6, <1>7, ReadInvParts, PTL

(* A dropped table leaves its blocks in the cache, under an id of no table. *)
LEMMA DropKeeps ==
  ASSUME ReadInv, NEW id \in DOMAIN ssts, DropSst(id)
  PROVE  ReadInv'
<1>1. CacheInv /\ ReadersInv /\ IterInv /\ ReadsExact /\ Idle
  BY ReadInvParts DEF DropSst
<1>2. /\ DOMAIN ssts' = DOMAIN ssts \ {id} /\ \A i \in DOMAIN ssts' : ssts'[i] = ssts[i]
      /\ UNCHANGED <<nextId, cache, iter, recent, answer>>
  BY DEF DropSst
<1>3. ReadersInv'
  BY <1>1, <1>2 DEF ReadersInv, FilesBuilt
<1>4. CacheInv'
  <2>1. CacheCoherent'
    BY <1>1, <1>2 DEF CacheInv, CacheCoherent
  <2> QED BY <1>1, <1>2, <2>1 DEF CacheInv, IdsFresh, CacheAccounted, LruOrder
<1>5. IterInv'
  BY <1>1, <1>2 DEF IterInv, Idle, IterExact
<1>6. ReadsExact'
  BY <1>1, <1>2 DEF ReadsExact
<1> QED BY <1>3, <1>4, <1>5, <1>6, ReadInvParts, PTL

(* get returns what its table holds, from the cache or from the file.       *)
LEMMA GetKeeps ==
  ASSUME ReadInv, NEW id \in DOMAIN ssts, NEW key \in Keys, Get(id, key)
  PROVE  ReadInv'
<1> DEFINE t == ssts[id].entries
           f == ssts[id].file
           b == BlockFor(f, key)
           found == MayContain(f.bloom, key) /\ b # 0
<1>1. CacheInv /\ ReadersInv /\ IterInv
  BY ReadInvParts
<1>2. UNCHANGED <<ssts, nextId, iter>>
  BY DEF Get
<1>3. t \in Seq(Entry) /\ Sorted(t) /\ f = File(t)
  BY <1>1, TableOf
<1>4. b \in 0 .. Len(f.index)
  <2> HIDE DEF t, f
  <2> QED BY <1>3, BlockForTyped
<1>5. CacheInv'
  <2>1. CASE found
    <3>1. Load(id, b) /\ b \in 1 .. Len(f.index)
      <4>1. Load(id, b)
        BY <2>1 DEF Get
      <4> HIDE DEF b, f
      <4> QED BY <1>4, <2>1, <4>1
    <3> HIDE DEF b
    <3> QED BY <1>1, <1>2, <3>1, LoadKeeps
  <2>2. CASE ~found
    <3>1. UNCHANGED <<cache, recent>>
      BY <2>2 DEF Get
    <3> QED BY <1>1, <1>2, <3>1, CacheKeeps
  <2> QED BY <2>1, <2>2
<1>6. ReadsExact'
  <2>1. answer' = [got |-> IF found THEN InBlock(LoadBlock(cache, id, b), key) ELSE NotFound,
                   want |-> Written(t, key)]
    BY DEF Get
  <2>2. LoadBlock(cache, id, b) = Decode(BlockData(f, b))
    BY <1>1, Loaded DEF CacheInv
  <2>3. Found(f, key) <=> found
    BY DEF Found
  <2> HIDE DEF t, f, found
  <2>4. Written(t, key) = IF found THEN InBlock(Decode(BlockData(f, b)), key) ELSE NotFound
    BY <1>3, <2>3, TableGet
  <2> HIDE DEF b
  <2> QED BY <2>1, <2>2, <2>4 DEF ReadsExact
<1>7. ReadersInv' /\ IterInv'
  BY <1>1, <1>2, ReadersKeep, IterKeeps
<1> QED BY <1>5, <1>6, <1>7, ReadInvParts, PTL

(* iter starts before the first block.                                      *)
LEMMA IterateKeeps ==
  ASSUME ReadInv, NEW id \in DOMAIN ssts, Iterate(id)
  PROVE  ReadInv'
<1> DEFINE t == ssts[id].entries
           f == ssts[id].file
<1>1. CacheInv /\ ReadersInv /\ IterInv /\ ReadsExact
  BY ReadInvParts
<1>2. /\ iter' = [id |-> id, block |-> 1, got |-> << >>]
      /\ UNCHANGED <<ssts, nextId, cache, recent, answer>>
  BY DEF Iterate
<1>3. CacheInv' /\ ReadersInv' /\ ReadsExact'
  BY <1>1, <1>2, ReadersKeep, CacheKeeps DEF ReadsExact
<1>4. t \in Seq(Entry) /\ f = File(t)
  BY <1>1, TableOf
<1>5. Len(f.index) \in Nat /\ BlockStart(f, 1) = 0
  <2> HIDE DEF t, f
  <2>1. From(t, 1) = 0 /\ Len(File(t).index) \in Nat
    <3>1. From(t, 1) = Start(File(t).index, Len(t), 1)
      BY <1>4, StartOfBlock
    <3>2. Len(File(t).data) = Len(t) /\ Cut(t, File(t).data, File(t).index)
          /\ Len(File(t).index) \in Nat
      BY <1>4, FileSliced
    <3> QED BY <3>1, <3>2 DEF Cut
  <2> QED BY <1>4, <2>1 DEF From
<1>6. id \in Nat /\ id # 0
  BY <1>1 DEF ReadersInv
<1>7. << >> = SubSeq(t, 1, 0)
  <2> HIDE DEF t
  <2> QED BY <1>4, SubSeqEmpty
<1>8. IterInv'
  BY <1>2, <1>5, <1>6, <1>7 DEF IterInv, IterExact
<1> QED BY <1>3, <1>8, ReadInvParts, PTL

(* next gives the entries of one more block.                                *)
LEMMA NextBlockKeeps ==
  ASSUME ReadInv, NextBlock
  PROVE  ReadInv'
<1> DEFINE id == iter.id
           b == iter.block
           t == ssts[id].entries
           f == ssts[id].file
<1>1. CacheInv /\ ReadersInv /\ IterInv /\ ReadsExact
  BY ReadInvParts
<1>2. /\ ~Idle /\ b <= Len(f.index) /\ Load(id, b) /\ UNCHANGED <<ssts, nextId, answer>>
      /\ iter' = [iter EXCEPT !.block = @ + 1, !.got = @ \o LoadBlock(cache, id, b).entries]
  BY DEF NextBlock
<1>3. id \in DOMAIN ssts /\ b \in 1 .. Len(f.index) + 1 /\ iter.got = SubSeq(t, 1, BlockStart(f, b))
  BY <1>1, <1>2 DEF IterInv, IterExact
<1>4. t \in Seq(Entry) /\ f = File(t)
  BY <1>1, <1>3, TableOf
<1>5. b \in 1 .. Len(f.index)
  BY <1>2, <1>3
<1>6. CacheInv' /\ ReadersInv' /\ ReadsExact'
  <2>1. CacheInv'
    <3> HIDE DEF id, b
    <3> QED BY <1>1, <1>2, <1>3, <1>5, LoadKeeps
  <2> QED BY <1>1, <1>2, <2>1, ReadersKeep DEF ReadsExact
<1>7. /\ From(t, b) \in Nat /\ From(t, b + 1) \in Nat
      /\ From(t, b) < From(t, b + 1) /\ From(t, b + 1) <= Len(t)
      /\ LoadBlock(cache, id, b).entries = SubSeq(t, From(t, b) + 1, From(t, b + 1))
  <2>1. LoadBlock(cache, id, b) = Decode(BlockData(f, b))
    BY <1>1, <1>3, Loaded DEF CacheInv
  <2> HIDE DEF t, f, id, b
  <2> QED BY <1>4, <1>5, <2>1, BlockSliced
<1>8. iter.got = SubSeq(t, 1, From(t, b))
  BY <1>3, <1>4 DEF From
<1>9. iter.got \o LoadBlock(cache, id, b).entries = SubSeq(t, 1, From(t, b + 1))
  <2> DEFINE a == From(t, b)
             z == From(t, b + 1)
  <2>1. a \in Nat /\ z \in Nat /\ a < z /\ z <= Len(t)
    BY <1>7
  <2> HIDE DEF a, z, t
  <2>2. SubSeq(t, 1, a) \o SubSeq(t, a + 1, z) = SubSeq(t, 1, z)
    <3>1. t \in Seq(Entry) /\ 1 \in 1 .. Len(t) + 1 /\ a \in 1 - 1 .. Len(t) /\ z \in a .. Len(t)
      BY <1>4, <2>1
    <3> QED BY <3>1, ConcatAdjacentSubSeq
  <2> QED BY <1>7, <1>8, <2>2 DEF a, z
<1>10. /\ iter'.id = id /\ iter'.block = b + 1
       /\ iter'.got = SubSeq(t, 1, From(t, b + 1))
       /\ iter' \in [id : Nat, block : Nat, got : Seq(Entry)]
  <2>1. iter \in [id : Nat, block : Nat, got : Seq(Entry)]
    BY <1>1 DEF IterInv
  <2>2. SubSeq(t, 1, From(t, b + 1)) \in Seq(Entry)
    <3> HIDE DEF t, b
    <3> QED BY <1>4, <1>7
  <2>3. /\ iter'.id = id /\ iter'.block = b + 1
        /\ iter'.got = iter.got \o LoadBlock(cache, id, b).entries
    BY <1>2, <2>1
  <2>4. iter' = [id |-> iter'.id, block |-> iter'.block, got |-> iter'.got]
    BY <1>2, <2>1
  <2>5. id \in Nat /\ b + 1 \in Nat
    BY <2>1
  <2> HIDE DEF t, id, b
  <2> QED BY <1>9, <2>2, <2>3, <2>4, <2>5
<1>11. IterInv'
  <2>1. b + 1 \in 1 .. Len(f.index) + 1
    BY <1>4, <1>5, FileSliced
  <2> QED BY <1>2, <1>3, <1>4, <1>10, <2>1 DEF IterInv, IterExact, From
<1> QED BY <1>6, <1>11, ReadInvParts, PTL

(* Past the last block the iterator has given the whole table.              *)
LEMMA IterateEndKeeps ==
  ASSUME ReadInv, IterateEnd
  PROVE  ReadInv'
<1> DEFINE id == iter.id
           t == ssts[id].entries
           f == ssts[id].file
<1>1. CacheInv /\ ReadersInv /\ IterInv
  BY ReadInvParts
<1>2. /\ ~Idle /\ iter.block > Len(f.index) /\ answer' = [got |-> iter.got, want |-> t]
      /\ iter' = NoIter /\ UNCHANGED <<ssts, nextId, cache, recent>>
  BY DEF IterateEnd
<1>3. /\ id \in DOMAIN ssts /\ iter.block \in 1 .. Len(f.index) + 1
      /\ iter.got = SubSeq(t, 1, BlockStart(f, iter.block))
  BY <1>1, <1>2 DEF IterInv, IterExact
<1>4. t \in Seq(Entry) /\ f = File(t)
  BY <1>1, <1>3, TableOf
<1>5. BlockStart(f, iter.block) = Len(t)
  <2>1. f.indexOffset = Len(t) /\ ~(iter.block <= Len(f.index))
    BY <1>2, <1>3, <1>4, FileSliced
  <2> QED BY <2>1 DEF BlockStart
<1>6. SubSeq(t, 1, Len(t)) = t
  <2> HIDE DEF t
  <2> QED BY <1>4
<1>7. ReadsExact'
  <2> HIDE DEF t, f
  <2> QED BY <1>2, <1>3, <1>5, <1>6 DEF ReadsExact
<1>8. IterInv'
  BY <1>2 DEF IterInv, Idle, NoIter, IterExact
<1>9. CacheInv' /\ ReadersInv'
  BY <1>1, <1>2, ReadersKeep, CacheKeeps
<1> QED BY <1>7, <1>8, <1>9, ReadInvParts, PTL

----------------------------------------------------------------------------
(* In every reachable state of readers that share a cache, for any block    *)
(* size, filter, hash, cache capacity and tables, ReadInv holds.            *)
THEOREM ReadInvariant == Spec => []ReadInv
<1>1. Init => ReadInv
  BY ReadInvInit
<1>2. ReadInv /\ [Next]_vars => ReadInv'
  <2> SUFFICES ASSUME ReadInv, [Next]_vars PROVE ReadInv'
    OBVIOUS
  <2>1. CASE \E t \in SstContents : OpenSst(t)
    BY <2>1, OpenKeeps
  <2>2. CASE \E id \in DOMAIN ssts : DropSst(id)
    BY <2>2, DropKeeps
  <2>3. CASE \E id \in DOMAIN ssts, key \in Keys : Get(id, key)
    BY <2>3, GetKeeps
  <2>4. CASE \E id \in DOMAIN ssts : Iterate(id)
    BY <2>4, IterateKeeps
  <2>5. CASE NextBlock
    BY <2>5, NextBlockKeeps
  <2>6. CASE IterateEnd
    BY <2>6, IterateEndKeeps
  <2>7. CASE UNCHANGED vars
    <3>1. CacheInv /\ ReadersInv /\ IterInv /\ ReadsExact
      BY ReadInvParts
    <3>2. CacheInv' /\ ReadersInv' /\ IterInv' /\ ReadsExact'
      BY <2>7, <3>1, ReadersKeep, IterKeeps, CacheKeeps DEF vars, ReadsExact
    <3> QED BY <3>2, ReadInvParts, PTL
  <2> QED BY <2>1, <2>2, <2>3, <2>4, <2>5, <2>6, <2>7 DEF Next
<1> QED BY <1>1, <1>2, PTL DEF Spec

(* A read returns what was added to its table, whatever blocks this and     *)
(* other tables left in the cache.                                          *)
THEOREM ReadsAreExact == Spec => []ReadsExact
<1>1. ReadInv => ReadsExact
  BY DEF ReadInv
<1> QED BY <1>1, ReadInvariant, PTL

(* A cached block is the block of the open table that has its id, although  *)
(* tables are dropped without taking their blocks out of the cache.         *)
THEOREM CacheIsCoherent == Spec => []CacheCoherent
<1>1. ReadInv => CacheCoherent
  BY DEF ReadInv
<1> QED BY <1>1, ReadInvariant, PTL

(* The running total of the cache is the sum of the sizes of its blocks,    *)
(* each named once in the recency list, and within the capacity.            *)
THEOREM CacheIsAccounted == Spec => []CacheAccounted
<1>1. ReadInv => CacheAccounted
  BY DEF ReadInv
<1> QED BY <1>1, ReadInvariant, PTL

(* The cache holds the blocks read last, in the order of their last read.   *)
THEOREM CacheInLruOrder == Spec => []LruOrder
<1>1. ReadInv => LruOrder
  BY DEF ReadInv
<1> QED BY <1>1, ReadInvariant, PTL
============================================================================
