--------------------------- MODULE ByteStoreProofs ---------------------------
(***************************************************************************)
(* What is logged is replayed, and what was synced survives a crash.        *)
(***************************************************************************)
EXTENDS ByteStore, ByteOrderProofs

Record == [op : {PutType, DeleteType}, key : Seq(Byte), value : Seq(Byte)]

(* The records whose length fits the bytes it is written in.                *)
Framable == {r \in Record : Fits(1 + Len(Payload(r)), U32, Base)}

(* The base and the widths.                                                 *)
LEMMA Widths ==
  /\ Base \in Nat \ {0} /\ 1 \in Byte /\ 2 \in Byte /\ 0 \in Byte /\ Byte \subseteq Nat
  /\ U32 \in Nat \ {0} /\ U64 \in Nat /\ U64 > 1
  BY WidthAssumption DEF Byte

(* Lengths are digits of the right width.                                   *)
LEMMA Digits ==
  ASSUME NEW n \in Nat, NEW width \in Nat
  PROVE  ToLE(n, width, Base) \in Seq(Byte) /\ Len(ToLE(n, width, Base)) = width
  BY Widths, ToLETyped DEF Byte

(* Runs of cells can be joined in either order.                             *)
LEMMA CellsAssociative ==
  ASSUME NEW u \in Seq(Cell), NEW v \in Seq(Cell), NEW y \in Seq(Cell)
  PROVE  (u \o v) \o y = u \o (v \o y)
  BY ConcatAssociative

(* The payload is a byte string.                                            *)
LEMMA PayloadTyped ==
  ASSUME NEW r \in Record
  PROVE  /\ Payload(r) \in Seq(Byte)
         /\ Len(Payload(r)) = 1 + U32 + Len(r.key) + U32 + Len(r.value)
<1>1. r.key \in Seq(Byte) /\ r.value \in Seq(Byte) /\ r.op \in Byte
  BY Widths DEF Record, PutType, DeleteType
<1> DEFINE a == << r.op >>
           b == ToLE(Len(r.key), U32, Base)
           c == r.key
           d == ToLE(Len(r.value), U32, Base)
           e == r.value
<1>2. a \in Seq(Byte) /\ Len(a) = 1
  BY <1>1
<1>3. b \in Seq(Byte) /\ Len(b) = U32 /\ d \in Seq(Byte) /\ Len(d) = U32
  <2>1. Len(r.key) \in Nat /\ Len(r.value) \in Nat /\ U32 \in Nat
    BY <1>1, Widths
  <2> QED BY <2>1, Digits
<1>4. c \in Seq(Byte) /\ e \in Seq(Byte) /\ Len(c) \in Nat /\ Len(e) \in Nat /\ U32 \in Nat
  BY <1>1, Widths
<1>5. Payload(r) = a \o b \o c \o d \o e
  BY DEF Payload
<1>6. Len(c) = Len(r.key) /\ Len(e) = Len(r.value)
  OBVIOUS
<1> HIDE DEF a, b, c, d, e
<1>7. /\ a \o b \o c \o d \o e \in Seq(Byte)
      /\ Len(a \o b \o c \o d \o e) = 1 + U32 + Len(c) + U32 + Len(e)
  <2>1. /\ a \in Seq(Byte) /\ b \in Seq(Byte) /\ c \in Seq(Byte)
        /\ d \in Seq(Byte) /\ e \in Seq(Byte)
    BY <1>2, <1>3, <1>4
  <2>2. /\ a \o b \o c \o d \o e \in Seq(Byte)
        /\ Len(a \o b \o c \o d \o e) = Len(a) + Len(b) + Len(c) + Len(d) + Len(e)
    BY <2>1, FiveJoined
  <2> QED BY <1>2, <1>3, <2>2
<1> QED BY <1>5, <1>6, <1>7

(* Record::decode gives back what encode was given.                         *)
LEMMA ParsedPayload ==
  ASSUME NEW r \in Framable
  PROVE  Parsed(Payload(r)) = r
<1>1. r \in Record /\ Fits(1 + Len(Payload(r)), U32, Base)
  BY DEF Framable
<1>2. r.key \in Seq(Byte) /\ r.value \in Seq(Byte) /\ r.op \in Byte
  BY <1>1, Widths DEF Record, PutType, DeleteType
<1> DEFINE a == << r.op >>
           b == ToLE(Len(r.key), U32, Base)
           c == r.key
           d == ToLE(Len(r.value), U32, Base)
           e == r.value
           p == a \o b \o c \o d \o e
<1>3. Payload(r) = p
  BY DEF Payload
<1>4. /\ a \in Seq(Byte) /\ Len(a) = 1
      /\ b \in Seq(Byte) /\ Len(b) = U32 /\ d \in Seq(Byte) /\ Len(d) = U32
      /\ c \in Seq(Byte) /\ e \in Seq(Byte) /\ Len(c) \in Nat /\ Len(e) \in Nat /\ U32 \in Nat
  <2>1. Len(r.key) \in Nat /\ Len(r.value) \in Nat /\ U32 \in Nat
    BY <1>2, Widths
  <2>2. a \in Seq(Byte) /\ Len(a) = 1
    BY <1>2
  <2>3. b \in Seq(Byte) /\ Len(b) = U32 /\ d \in Seq(Byte) /\ Len(d) = U32
    BY <2>1, Digits
  <2>4. c \in Seq(Byte) /\ e \in Seq(Byte) /\ Len(c) \in Nat /\ Len(e) \in Nat
    BY <1>2, <2>1
  <2> HIDE DEF a, b, c, d, e
  <2> QED BY <2>1, <2>2, <2>3, <2>4
<1>5. p \in Seq(Byte) /\ Len(p) = 1 + U32 + Len(c) + U32 + Len(e)
  BY <1>1, <1>3, PayloadTyped
<1>6. FromLE(b, Base) = Len(c)
  <2>1. Fits(1 + Len(p), U32, Base)
    BY <1>1, <1>3
  <2>2. Len(c) \in Nat /\ 1 + Len(p) \in Nat /\ Len(c) <= 1 + Len(p)
    <3> HIDE DEF a, b, c, d, e, p
    <3> QED BY <1>4, <1>5
  <2>3. Fits(Len(c), U32, Base)
    <3> HIDE DEF c, p
    <3> QED BY <1>4, <2>1, <2>2, FitsBelow, Widths
  <2> QED BY <1>4, <2>2, <2>3, FromToLE, Widths
<1> HIDE DEF a, b, c, d, e
<1>7. Parts(p, a, b, c, d, e)
  <2>1. /\ a \in Seq(Byte) /\ b \in Seq(Byte) /\ c \in Seq(Byte)
        /\ d \in Seq(Byte) /\ e \in Seq(Byte)
    BY <1>4
  <2>2. p = a \o b \o c \o d \o e
    OBVIOUS
  <2> HIDE DEF p
  <2> QED BY <2>1, <2>2, FiveParts, Zenon
<1>8. /\ SubSeq(p, 1, Len(a)) = a
      /\ SubSeq(p, Len(a) + 1, Len(a) + Len(b)) = b
      /\ SubSeq(p, Len(a) + Len(b) + 1, Len(a) + Len(b) + Len(c)) = c
      /\ SubSeq(p, Len(a) + Len(b) + Len(c) + Len(d) + 1, Len(p)) = e
  <2> HIDE DEF p
  <2> QED BY <1>7 DEF Parts
<1>9. p[1] = r.op
  <2> HIDE DEF p
  <2>1. Len(p) \in Nat /\ Len(p) >= 1
    BY <1>4, <1>5
  <2>2. SubSeq(p, 1, 1)[1] = p[1]
    <3>1. \A i \in 1 .. 1 : p[i] \in Byte
      BY <1>5, <2>1
    <3> QED BY <3>1, SubSeqProperties
  <2>3. SubSeq(p, 1, 1) = << r.op >>
    BY <1>4, <1>8 DEF a
  <2>4. << r.op >>[1] = r.op
    OBVIOUS
  <2> QED BY <2>2, <2>3, <2>4, Zenon
<1>10. /\ SubSeq(p, 2, 1 + U32) = b
       /\ SubSeq(p, 2 + U32, 1 + U32 + Len(c)) = c
       /\ SubSeq(p, 1 + U32 + Len(c) + U32 + 1, Len(p)) = e
  <2>1. /\ Len(a) + 1 = 2 /\ Len(a) + Len(b) = 1 + U32 /\ Len(a) + Len(b) + 1 = 2 + U32
        /\ Len(a) + Len(b) + Len(c) + Len(d) + 1 = 1 + U32 + Len(c) + U32 + 1
    BY <1>4
  <2> HIDE DEF p
  <2> QED BY <1>8, <2>1
<1>11. Parsed(p) = [op |-> r.op, key |-> c, value |-> e]
  BY <1>6, <1>9, <1>10 DEF Parsed
<1> QED BY <1>1, <1>3, <1>11 DEF Record, c, e

(* Bytes as cells.                                                          *)
LEMMA CellsTyped ==
  ASSUME NEW b \in Seq(Byte)
  PROVE  /\ Cells(b) \in Seq(Cell) /\ Len(Cells(b)) = Len(b)
         /\ \A i \in 1 .. Len(b) : Cells(b)[i] = << b[i] >>
<1>1. DOMAIN b = 1 .. Len(b) /\ Len(b) \in Nat
  OBVIOUS
<1>2. \A i \in 1 .. Len(b) : << b[i] >> \in Cell
  <2>1. ASSUME NEW i \in 1 .. Len(b) PROVE << b[i] >> \in Seq(Byte) /\ << b[i] >> # << >>
    <3>1. b[i] \in Byte
      OBVIOUS
    <3> QED BY <3>1
  <2> QED BY <2>1 DEF Cell
<1>3. Cells(b) = [i \in 1 .. Len(b) |-> << b[i] >>]
  BY <1>1 DEF Cells
<1> QED BY <1>1, <1>2, <1>3, IsASeq

(* A record in the log: its length, its checksum, its payload.              *)
LEMMA RecordCells ==
  ASSUME NEW r \in Framable
  PROVE  LET p == Payload(r)
             e == EncodeRecord(r)
         IN  /\ e \in Seq(Cell)
             /\ Len(p) \in Nat /\ Len(p) >= 1 + 2 * U32
             /\ Len(e) = U32 + 1 + Len(p)
             /\ \A i \in 1 .. U32 : e[i] = << ToLE(1 + Len(p), U32, Base)[i] >>
             /\ SubSeq(e, U32 + 1, U32 + 1 + Len(p)) = << p >> \o Cells(p)
<1> DEFINE p == Payload(r)
           h == Cells(ToLE(1 + Len(p), U32, Base))
           b == << p >> \o Cells(p)
           e == EncodeRecord(r)
<1>1. r \in Record
  BY DEF Framable
<1>2. p \in Seq(Byte) /\ Len(p) = 1 + U32 + Len(r.key) + U32 + Len(r.value)
  BY <1>1, PayloadTyped
<1>3. Len(r.key) \in Nat /\ Len(r.value) \in Nat /\ U32 \in Nat
  <2>1. r.key \in Seq(Byte) /\ r.value \in Seq(Byte)
    BY <1>1 DEF Record
  <2> QED BY <2>1, Widths
<1>4. Len(p) \in Nat /\ Len(p) >= 1 + 2 * U32
  <2> DEFINE k == Len(r.key)
             v == Len(r.value)
             l == Len(p)
  <2>1. l = 1 + U32 + k + U32 + v /\ k \in Nat /\ v \in Nat /\ U32 \in Nat
    BY <1>2, <1>3
  <2> HIDE DEF k, v, l
  <2>2. l \in Nat /\ l >= 1 + 2 * U32
    BY <2>1
  <2> QED BY <2>2 DEF l
<1> HIDE DEF p
<1>5. /\ h \in Seq(Cell) /\ Len(h) = U32
      /\ \A i \in 1 .. U32 : h[i] = << ToLE(1 + Len(p), U32, Base)[i] >>
  <2>1. ToLE(1 + Len(p), U32, Base) \in Seq(Byte) /\ Len(ToLE(1 + Len(p), U32, Base)) = U32
    <3>1. 1 + Len(p) \in Nat
      BY <1>4
    <3> QED BY <1>3, <3>1, Digits
  <2> QED BY <2>1, CellsTyped
<1> HIDE DEF h
<1>6. Cells(p) \in Seq(Cell) /\ Len(Cells(p)) = Len(p)
  BY <1>2, CellsTyped
<1>7. << p >> \in Seq(Cell) /\ Len(<< p >>) = 1
  <2>1. p \in Cell
    <3>1. p # << >>
      BY <1>4, <1>3
    <3> QED BY <1>2, <3>1 DEF Cell
  <2> QED BY <2>1
<1>8. b \in Seq(Cell) /\ Len(b) = 1 + Len(p)
  BY <1>6, <1>7, Joined
<1>9. e = h \o b
  <2>1. e = h \o << p >> \o Cells(p)
    BY DEF EncodeRecord, p, h
  <2>2. (h \o << p >>) \o Cells(p) = h \o (<< p >> \o Cells(p))
    BY <1>5, <1>6, <1>7, CellsAssociative
  <2> QED BY <2>1, <2>2
<1> HIDE DEF b, e
<1>10. e \in Seq(Cell) /\ Len(e) = U32 + 1 + Len(p)
  <2>1. e \in Seq(Cell) /\ Len(e) = Len(h) + Len(b)
    BY <1>5, <1>8, <1>9, Joined
  <2> QED BY <1>3, <1>4, <1>5, <1>8, <2>1
<1>11. \A i \in 1 .. U32 : e[i] = h[i]
  BY <1>3, <1>5, <1>8, <1>9, ConcatProperties
<1>12. SubSeq(e, U32 + 1, U32 + 1 + Len(p)) = b
  <2>1. h \in Seq(Cell) /\ b \in Seq(Cell)
    BY <1>5, <1>8
  <2>2. SubSeq(h \o b, Len(h) + 1, Len(h \o b)) = b
    BY <2>1, BackOfConcat
  <2>3. Len(h) = U32 /\ Len(h \o b) = U32 + 1 + Len(p)
    BY <1>5, <1>9, <1>10
  <2> QED BY <1>9, <2>2, <2>3
<1> QED BY <1>4, <1>5, <1>10, <1>11, <1>12 DEF p, b, e

(* The length a reader finds at a place of a file.                          *)
LengthAt(f, pos) == FromLE([i \in 1 .. U32 |-> f[pos + i][1]], Base)

(* It is a number, if there are as many cells.                              *)
LEMMA LengthTyped ==
  ASSUME NEW f \in Seq(Cell), NEW pos \in Nat, pos + U32 <= Len(f)
  PROVE  LengthAt(f, pos) \in Nat
<1> DEFINE digits == [i \in 1 .. U32 |-> f[pos + i][1]]
<1>1. ASSUME NEW i \in 1 .. U32 PROVE f[pos + i][1] \in Nat
  <2>1. f[pos + i] \in Cell
    <3>1. pos + i \in 1 .. Len(f)
      BY Widths
    <3> QED BY <3>1
  <2>2. f[pos + i] \in Seq(Byte) /\ f[pos + i] # << >>
    BY <2>1 DEF Cell
  <2>3. f[pos + i][1] \in Byte
    BY <2>2
  <2> QED BY <2>3, Widths
<1>2. digits \in Seq(Nat)
  BY <1>1, Widths, IsASeq
<1> QED BY <1>2, FromLETyped, Widths DEF LengthAt

(* Before a record it is the length of the record.                          *)
LEMMA LengthRead ==
  ASSUME NEW r \in Framable, NEW f, NEW pos \in Nat,
         \A i \in 1 .. U32 : f[pos + i] = EncodeRecord(r)[i]
  PROVE  LengthAt(f, pos) = 1 + Len(Payload(r))
<1> DEFINE n == 1 + Len(Payload(r))
           d == ToLE(n, U32, Base)
<1>1. n \in Nat /\ Fits(n, U32, Base)
  <2>1. Len(Payload(r)) \in Nat
    BY RecordCells
  <2> QED BY <2>1 DEF Framable
<1>2. \A i \in 1 .. U32 : EncodeRecord(r)[i] = << d[i] >>
  BY RecordCells
<1> HIDE DEF n
<1>3. d \in Seq(Byte) /\ Len(d) = U32
  BY <1>1, Digits, Widths
<1> HIDE DEF d
<1>4. [i \in 1 .. U32 |-> f[pos + i][1]] = d
  <2>1. \A i \in 1 .. U32 : f[pos + i][1] = d[i]
    BY <1>2
  <2>2. d = [i \in 1 .. U32 |-> d[i]]
    BY <1>3
  <2> QED BY <2>1, <2>2
<1>5. FromLE(d, Base) = n
  BY <1>1, FromToLE, Widths DEF d
<1> QED BY <1>4, <1>5 DEF LengthAt, n

(* A whole record is read.                                                  *)
LEMMA RecordRead ==
  ASSUME NEW r \in Framable, NEW f \in Seq(Cell), NEW pos \in Nat,
         pos + Len(EncodeRecord(r)) <= Len(f),
         SubSeq(f, pos + 1, pos + Len(EncodeRecord(r))) = EncodeRecord(r)
  PROVE  NextRecord(f, pos) = [kind |-> "record", record |-> r,
                               pos |-> pos + Len(EncodeRecord(r))]
<1> DEFINE p == Payload(r)
           e == EncodeRecord(r)
           b == << p >> \o Cells(p)
           len == 1 + Len(p)
           rest == SubSeq(f, pos + U32 + 1, pos + U32 + len)
<1>1. /\ e \in Seq(Cell) /\ Len(p) \in Nat /\ Len(p) >= 1 + 2 * U32 /\ Len(e) = U32 + 1 + Len(p)
      /\ SubSeq(e, U32 + 1, U32 + 1 + Len(p)) = b
  BY RecordCells
<1>2. p \in Seq(Byte) /\ Parsed(p) = r
  BY ParsedPayload, PayloadTyped DEF Framable
<1> HIDE DEF e, p
<1>3. U32 \in Nat \ {0} /\ Len(f) \in Nat /\ pos + Len(e) <= Len(f)
  BY Widths DEF e
<1>4. \A i \in 1 .. Len(e) : f[pos + i] = e[i]
  <2>1. ASSUME NEW i \in 1 .. Len(e) PROVE SubSeq(f, pos + 1, pos + Len(e))[i] = f[pos + i]
    BY <1>1, <1>3, PartAt
  <2> QED BY <2>1 DEF e
<1>5. LengthAt(f, pos) = len
  <2>1. \A i \in 1 .. U32 : f[pos + i] = e[i]
    BY <1>1, <1>3, <1>4
  <2> QED BY <2>1, LengthRead DEF p, e
<1>6. rest = b
  <2>1. SubSeq(f, pos + U32 + 1, pos + U32 + len) = SubSeq(e, U32 + 1, U32 + 1 + Len(p))
    <3> DEFINE x == SubSeq(f, pos + U32 + 1, pos + U32 + len)
               y == SubSeq(e, U32 + 1, U32 + 1 + Len(p))
    <3>1. /\ x \in Seq(Cell) /\ Len(x) = len
          /\ \A i \in 1 .. len : x[i] = f[pos + U32 + i]
      <4>1. pos + U32 + len <= Len(f) /\ pos + U32 \in Nat /\ len \in Nat
        BY <1>1, <1>3
      <4> HIDE DEF len
      <4> QED BY <4>1, PartAt
    <3>2. /\ y \in Seq(Cell) /\ Len(y) = len
          /\ \A i \in 1 .. len : y[i] = e[U32 + i]
      <4>1. U32 + len <= Len(e) /\ U32 \in Nat /\ len \in Nat /\ U32 + 1 + Len(p) = U32 + len
        BY <1>1, <1>3
      <4> HIDE DEF len
      <4>2. /\ SubSeq(e, U32 + 1, U32 + len) \in Seq(Cell)
            /\ Len(SubSeq(e, U32 + 1, U32 + len)) = len
            /\ \A i \in 1 .. len : SubSeq(e, U32 + 1, U32 + len)[i] = e[U32 + i]
        BY <1>1, <4>1, PartAt
      <4> QED BY <4>1, <4>2
    <3>3. \A i \in 1 .. len : x[i] = y[i]
      <4>1. ASSUME NEW i \in 1 .. len PROVE f[pos + U32 + i] = e[U32 + i]
        <5>1. U32 + i \in 1 .. Len(e) /\ pos + U32 + i = pos + (U32 + i)
          BY <1>1, <1>3
        <5> QED BY <1>4, <5>1
      <4> HIDE DEF x, y, len
      <4> QED BY <3>1, <3>2, <4>1
    <3> HIDE DEF x, y, len
    <3>4. x = y
      BY <3>1, <3>2, <3>3, SeqEqual
    <3> QED BY <3>4 DEF x, y
  <2> QED BY <1>1, <2>1
<1>7. b[1] = p /\ Cells(p) = Tail(b) /\ Len(b) = len
  <2>1. Cells(p) \in Seq(Cell) /\ Len(Cells(p)) = Len(p)
    BY <1>2, CellsTyped
  <2>2. << p >> \in Seq({p} \cup Cell) /\ Cells(p) \in Seq({p} \cup Cell)
    <3>1. Cell \subseteq {p} \cup Cell
      OBVIOUS
    <3> QED BY <2>1, <3>1, SeqMonotonic
  <2> DEFINE c == Cells(p)
  <2> HIDE DEF c
  <2>3. (<< p >> \o c)[1] = p /\ Tail(<< p >> \o c) = c /\ Len(<< p >> \o c) = 1 + Len(c)
    <3>1. c \in Seq({p} \cup Cell)
      BY <2>2 DEF c
    <3> QED BY <3>1, PushedFront
  <2> QED BY <2>1, <2>3 DEF c
<1> HIDE DEF b
<1>8. Sound(rest) /\ rest[1] = p
  <2>1. Len(b) >= MinRecord
    BY <1>1, <1>3, <1>7 DEF MinRecord
  <2> QED BY <1>6, <1>7, <2>1 DEF Sound
<1>9. ~(Len(f) - pos < U32) /\ ~((Len(f) - pos) - U32 < len) /\ pos + U32 + len = pos + Len(e)
  BY <1>1, <1>3
<1> HIDE DEF len
<1>10. NextRecord(f, pos) = [kind |-> "record", record |-> Parsed(rest[1]),
                             pos |-> pos + U32 + len]
  <2>1. FromLE([i \in 1 .. U32 |-> f[pos + i][1]], Base) = len
    BY <1>5 DEF LengthAt
  <2> QED BY <1>8, <1>9, <2>1 DEF NextRecord
<1> QED BY <1>2, <1>8, <1>9, <1>10 DEF e

(* The end of the log carries over to less of it, and to another place.     *)
LEMMA EndCarries ==
  ASSUME NEW f \in Seq(Cell), NEW pos \in 0 .. Len(f),
         NEW g \in Seq(Cell), NEW at \in 0 .. Len(g),
         Len(g) - at <= Len(f) - pos,
         \A i \in 1 .. Len(g) - at : g[at + i] = f[pos + i],
         NextRecord(f, pos).kind = "end"
  PROVE  NextRecord(g, at).kind = "end"
<1> DEFINE left == Len(f) - pos
           l2 == Len(g) - at
<1>1. left \in Nat /\ l2 \in Nat /\ l2 <= left /\ U32 \in Nat \ {0} /\ pos \in Nat /\ at \in Nat
      /\ Len(f) \in Nat /\ Len(g) \in Nat
  BY Widths
<1>2. CASE l2 < U32
  BY <1>2 DEF NextRecord
<1>3. CASE ~(l2 < U32)
  <2>1. LengthAt(g, at) = LengthAt(f, pos)
    <3>1. ASSUME NEW i \in 1 .. U32 PROVE g[at + i] = f[pos + i]
      <4>1. i \in 1 .. Len(g) - at
        BY <1>1, <1>3
      <4> QED BY <4>1
    <3>2. [i \in 1 .. U32 |-> g[at + i][1]] = [i \in 1 .. U32 |-> f[pos + i][1]]
      BY <3>1
    <3> QED BY <3>2 DEF LengthAt
  <2>2. LengthAt(f, pos) \in Nat
    BY <1>1, <1>3, LengthTyped
  <2>3. left - U32 < LengthAt(f, pos)
    <3>1. ~(left < U32)
      BY <1>1, <1>3
    <3> QED BY <3>1 DEF NextRecord, LengthAt
  <2>4. l2 - U32 < LengthAt(g, at)
    <3> DEFINE n == LengthAt(f, pos)
    <3> HIDE DEF n, left, l2
    <3>1. n \in Nat /\ left - U32 < n /\ LengthAt(g, at) = n
      BY <2>1, <2>2, <2>3 DEF n
    <3> QED BY <1>1, <3>1
  <2> QED BY <2>4 DEF NextRecord, LengthAt
<1> QED BY <1>2, <1>3

(* A record cut short is the end.                                           *)
LEMMA TornRecord ==
  ASSUME NEW r \in Framable, NEW t \in Seq(Cell), IsStrictPrefix(t, EncodeRecord(r))
  PROVE  NextRecord(t, 0).kind = "end"
<1> DEFINE e == EncodeRecord(r)
           p == Payload(r)
<1>1. e \in Seq(Cell) /\ Len(p) \in Nat /\ Len(e) = U32 + 1 + Len(p)
  BY RecordCells
<1> HIDE DEF e, p
<1>2. Len(t) < Len(e) /\ t = SubSeq(e, 1, Len(t)) /\ Len(t) \in Nat /\ U32 \in Nat \ {0}
  BY <1>1, StrictPrefixes, Widths DEF e
<1>3. \A i \in 1 .. Len(t) : t[i] = e[i]
  <2>1. IsPrefix(t, e)
    BY DEF IsStrictPrefix, e
  <2> QED BY <1>1, <2>1, PrefixAgrees
<1>4. CASE Len(t) < U32
  <2>1. Len(t) - 0 < U32
    BY <1>2, <1>4
  <2> QED BY <2>1 DEF NextRecord
<1>5. CASE ~(Len(t) < U32)
  <2>1. \A i \in 1 .. U32 : t[0 + i] = e[i]
    BY <1>2, <1>3, <1>5
  <2>2. LengthAt(t, 0) = 1 + Len(p)
    BY <2>1, LengthRead DEF e, p
  <2>3. (Len(t) - 0) - U32 < 1 + Len(p)
    BY <1>1, <1>2
  <2>4. (Len(t) - 0) - U32 < FromLE([i \in 1 .. U32 |-> t[0 + i][1]], Base)
    BY <2>2, <2>3 DEF LengthAt
  <2> QED BY <2>4 DEF NextRecord
<1> QED BY <1>4, <1>5

----------------------------------------------------------------------------
(* The log of a sequence of records, from each record to the next.          *)
LEMMA FramedSteps ==
  ASSUME NEW records \in Seq(Framable)
  PROVE  /\ Framed(records) \in [0 .. Len(records) -> Seq(Cell)]
         /\ Framed(records)[0] = << >>
         /\ \A i \in 1 .. Len(records) :
              Framed(records)[i] = Framed(records)[i - 1] \o EncodeRecord(records[i])
<1> DEFINE N == Len(records)
           StepOf(x, i) == x \o EncodeRecord(records[i])
           g == [i \in 1 .. N |-> [x \in Seq(Cell) |-> StepOf(x, i)]]
           cells == Framed(records)
<1>1. N \in Nat /\ << >> \in Seq(Cell)
  OBVIOUS
<1>2. ASSUME NEW i \in 1 .. N, NEW x \in Seq(Cell) PROVE StepOf(x, i) \in Seq(Cell)
  <2>1. records[i] \in Framable
    OBVIOUS
  <2>2. EncodeRecord(records[i]) \in Seq(Cell)
    BY <2>1, RecordCells
  <2> QED BY <2>2, Joined
<1>3. g \in [1 .. N -> [Seq(Cell) -> Seq(Cell)]]
  <2> HIDE DEF StepOf, N
  <2> QED BY <1>2
<1>4. PICK f \in [0 .. N -> Seq(Cell)] : Recurs(f, N, << >>, g)
  <2> HIDE DEF g, N
  <2> QED BY <1>1, <1>3, RecursExists
<1>5. f = [i \in 0 .. N |-> IF i = 0 THEN << >> ELSE StepOf(f[i - 1], i)]
  <2>1. ASSUME NEW i \in 0 .. N
        PROVE  (IF i = 0 THEN << >> ELSE g[i][f[i - 1]])
                  = IF i = 0 THEN << >> ELSE StepOf(f[i - 1], i)
    <3> HIDE DEF StepOf, N
    <3> QED BY <1>1, <1>4
  <2> HIDE DEF StepOf, N, g
  <2> QED BY <1>4, <2>1 DEF Recurs
<1>6. cells = CHOOSE s : s = [i \in 0 .. N |-> IF i = 0 THEN << >> ELSE StepOf(s[i - 1], i)]
  BY DEF Framed
<1>7. cells = [i \in 0 .. N |-> IF i = 0 THEN << >> ELSE StepOf(cells[i - 1], i)]
  <2> HIDE DEF StepOf, N, cells
  <2> QED BY <1>5, <1>6
<1>8. cells[0] = << >> /\ \A i \in 1 .. N : cells[i] = StepOf(cells[i - 1], i)
  <2> HIDE DEF StepOf, N, cells
  <2> QED BY <1>1, <1>7
<1> DEFINE T == {i \in 0 .. N : cells[i] \in Seq(Cell)}
<1>9. 0 \in T /\ \A i \in 1 .. N : i - 1 \in T => i \in T
  <2> HIDE DEF StepOf, N, cells
  <2>1. ASSUME NEW i \in 1 .. N, cells[i - 1] \in Seq(Cell) PROVE cells[i] \in Seq(Cell)
    BY <1>2, <1>8, <2>1
  <2>2. 0 \in T
    <3>1. cells[0] \in Seq(Cell)
      BY <1>8, EmptySeq
    <3> QED BY <1>1, <3>1
  <2>3. \A i \in 1 .. N : i - 1 \in T => i \in T
    BY <1>1, <2>1
  <2> QED BY <2>2, <2>3
<1>10. 0 .. N \subseteq T
  <2> HIDE DEF T, N
  <2> QED BY <1>1, <1>9, UpTo
<1>11. cells \in [0 .. N -> Seq(Cell)]
  <2> HIDE DEF StepOf, N, cells
  <2> QED BY <1>7, <1>10
<1> QED BY <1>8, <1>11

(* Each record makes the log longer.                                        *)
LEMMA FramedLengths ==
  ASSUME NEW records \in Seq(Framable), NEW i \in 1 .. Len(records)
  PROVE  /\ Framed(records)[i - 1] \in Seq(Cell) /\ Framed(records)[i] \in Seq(Cell)
         /\ EncodeRecord(records[i]) \in Seq(Cell) /\ records[i] \in Framable
         /\ Len(Framed(records)[i])
              = Len(Framed(records)[i - 1]) + Len(EncodeRecord(records[i]))
         /\ Len(Framed(records)[i - 1]) + 1 <= Len(Framed(records)[i])
<1> DEFINE F == Framed(records)
           e == EncodeRecord(records[i])
<1>1. F[i - 1] \in Seq(Cell) /\ F[i] \in Seq(Cell) /\ F[i] = F[i - 1] \o e
  <2> HIDE DEF F
  <2>1. i \in 0 .. Len(records) /\ i - 1 \in 0 .. Len(records)
    OBVIOUS
  <2> QED BY <2>1, FramedSteps DEF F
<1>2. records[i] \in Framable
  OBVIOUS
<1>3. e \in Seq(Cell) /\ Len(e) >= 1
  <2>1. /\ e \in Seq(Cell) /\ Len(Payload(records[i])) \in Nat
        /\ Len(e) = U32 + 1 + Len(Payload(records[i])) /\ U32 \in Nat
    BY <1>2, RecordCells, Widths
  <2> QED BY <2>1
<1> HIDE DEF F, e
<1>4. Len(F[i]) = Len(F[i - 1]) + Len(e) /\ Len(F[i - 1]) \in Nat
  BY <1>1, <1>3, Joined
<1> QED BY <1>1, <1>2, <1>3, <1>4 DEF F, e

(* The log is at least as long as it has records.                           *)
LEMMA FramedLong ==
  ASSUME NEW records \in Seq(Framable)
  PROVE  \A i \in 0 .. Len(records) : i <= Len(Framed(records)[i])
<1> DEFINE F == Framed(records)
           T == {i \in 0 .. Len(records) : i <= Len(F[i])}
<1>1. 0 \in T /\ Len(records) \in Nat
  <2> HIDE DEF F
  <2>1. F[0] = << >>
    BY FramedSteps DEF F
  <2> QED BY <2>1
<1>2. ASSUME NEW i \in 1 .. Len(records), i - 1 \in T PROVE i \in T
  <2> HIDE DEF F
  <2>1. Len(F[i - 1]) + 1 <= Len(F[i]) /\ F[i - 1] \in Seq(Cell) /\ F[i] \in Seq(Cell)
    BY FramedLengths DEF F
  <2>2. Len(F[i - 1]) \in Nat /\ Len(F[i]) \in Nat
    BY <2>1
  <2> QED BY <1>2, <2>1, <2>2
<1>3. 0 .. Len(records) \subseteq T
  <2> HIDE DEF T
  <2> QED BY <1>1, <1>2, UpTo
<1> QED BY <1>3

(* An earlier record ends before a later one.                               *)
LEMMA FramedGrows ==
  ASSUME NEW records \in Seq(Framable), NEW m \in 0 .. Len(records)
  PROVE  \A i \in 0 .. Len(records) :
            m <= i => /\ Len(Framed(records)[m]) <= Len(Framed(records)[i])
                      /\ SubSeq(Framed(records)[i], 1, Len(Framed(records)[m])) = Framed(records)[m]
<1> DEFINE F == Framed(records)
           n == Len(records)
           E == [i \in 1 .. n |-> EncodeRecord(records[i])]
<1>1. n \in Nat
  OBVIOUS
<1>2. E \in [1 .. n -> Seq(Cell)]
  BY FramedLengths
<1>3. F \in [0 .. n -> Seq(Cell)] /\ \A i \in 1 .. n : F[i] = F[i - 1] \o E[i]
  BY FramedSteps
<1> HIDE DEF F, E, n
<1>4. m \in 0 .. n
  BY DEF n
<1>5. \A i \in 0 .. n : m <= i => Len(F[m]) <= Len(F[i]) /\ SubSeq(F[i], 1, Len(F[m])) = F[m]
  BY <1>1, <1>2, <1>3, <1>4, Growing
<1> QED BY <1>5 DEF F, n

(* What the log starts with depends on the first records only.              *)
LEMMA FramedAgree ==
  ASSUME NEW a \in Seq(Framable), NEW b \in Seq(Framable), NEW n \in Nat,
         n <= Len(a), n <= Len(b), \A i \in 1 .. n : a[i] = b[i]
  PROVE  Framed(a)[n] = Framed(b)[n]
<1> DEFINE F == Framed(a)
           G == Framed(b)
           T == {i \in 0 .. n : F[i] = G[i]}
<1>1. Len(a) \in Nat /\ Len(b) \in Nat
  OBVIOUS
<1>2. F[0] = << >> /\ G[0] = << >>
  BY FramedSteps
<1>3. ASSUME NEW i \in 1 .. n
      PROVE  F[i] = F[i - 1] \o EncodeRecord(a[i]) /\ G[i] = G[i - 1] \o EncodeRecord(b[i])
  <2> HIDE DEF F, G
  <2>1. i \in 1 .. Len(a) /\ i \in 1 .. Len(b)
    BY <1>1
  <2>2. F[i] = F[i - 1] \o EncodeRecord(a[i])
    BY <2>1, FramedSteps DEF F
  <2>3. G[i] = G[i - 1] \o EncodeRecord(b[i])
    BY <2>1, FramedSteps DEF G
  <2> QED BY <2>2, <2>3
<1> HIDE DEF F, G
<1>4. ASSUME NEW i \in 1 .. n, F[i - 1] = G[i - 1] PROVE F[i] = G[i]
  BY <1>3, <1>4
<1>5. 0 \in T /\ \A i \in 1 .. n : i - 1 \in T => i \in T
  BY <1>2, <1>4
<1>6. 0 .. n \subseteq T
  <2> HIDE DEF T
  <2> QED BY <1>5, UpTo
<1>7. n \in T
  BY <1>6
<1> QED BY <1>7 DEF F, G

(* The log of the first records.                                            *)
LEMMA FramedPrefix ==
  ASSUME NEW records \in Seq(Framable), NEW n \in 0 .. Len(records)
  PROVE  EncodeAll(SubSeq(records, 1, n)) = Framed(records)[n]
<1> DEFINE p == SubSeq(records, 1, n)
<1>1. p \in Seq(Framable) /\ Len(p) = n /\ \A i \in 1 .. n : p[i] = records[i]
  <2>1. /\ SubSeq(records, 0 + 1, 0 + n) \in Seq(Framable)
        /\ Len(SubSeq(records, 0 + 1, 0 + n)) = n
        /\ \A i \in 1 .. n : SubSeq(records, 0 + 1, 0 + n)[i] = records[0 + i]
    BY PartAt
  <2>2. SubSeq(records, 0 + 1, 0 + n) = p
    OBVIOUS
  <2> QED BY <2>1, <2>2
<1> HIDE DEF p
<1>2. n \in Nat /\ n <= Len(records) /\ n <= Len(p)
  BY <1>1
<1>3. Framed(p)[n] = Framed(records)[n]
  BY <1>1, <1>2, FramedAgree
<1> QED BY <1>1, <1>3 DEF EncodeAll, p

(* The log of more records goes on from the log of the first ones.          *)
LEMMA FramedJoined ==
  ASSUME NEW a \in Seq(Framable), NEW b \in Seq(Framable)
  PROVE  /\ EncodeAll(a) \in Seq(Cell) /\ EncodeAll(b) \in Seq(Cell)
         /\ EncodeAll(a \o b) = EncodeAll(a) \o EncodeAll(b)
<1> DEFINE w == a \o b
           W == Framed(w)
           B == Framed(b)
           A == EncodeAll(a)
           la == Len(a)
           lb == Len(b)
           T == {i \in 0 .. lb : W[la + i] = A \o B[i]}
<1>1. la \in Nat /\ lb \in Nat /\ w \in Seq(Framable) /\ Len(w) = la + lb
  BY Joined
<1>2. A \in Seq(Cell)
  <2>1. la \in 0 .. la
    BY <1>1
  <2> HIDE DEF la
  <2> QED BY <2>1, FramedSteps DEF EncodeAll, la
<1>3. /\ B \in [0 .. lb -> Seq(Cell)] /\ B[0] = << >>
      /\ \A i \in 1 .. lb : B[i] = B[i - 1] \o EncodeRecord(b[i])
  BY FramedSteps
<1>4. \A i \in 1 .. lb : w[la + i] = b[i]
  <2>1. \A i \in 1 .. lb : la + i \in 1 .. la + lb /\ ~(la + i <= la) /\ la + i - la = i
    BY <1>1
  <2> HIDE DEF la, lb
  <2>2. \A i \in 1 .. lb : w[la + i] = b[la + i - la]
    BY <2>1, ConcatProperties DEF la, lb
  <2> QED BY <2>1, <2>2
<1> HIDE DEF A, B, la, lb
<1>5. W[la] = A
  <2>1. \A i \in 1 .. la : w[i] = a[i]
    <3>1. \A i \in 1 .. la : i \in 1 .. Len(a) + Len(b) /\ i <= Len(a)
      BY <1>1 DEF la, lb
    <3> QED BY <3>1, ConcatProperties
  <2> HIDE DEF w
  <2>2. la <= Len(w) /\ la <= Len(a) /\ la \in Nat
    BY <1>1 DEF la
  <2>3. Framed(w)[la] = Framed(a)[la]
    BY <1>1, <2>1, <2>2, FramedAgree
  <2> QED BY <2>3 DEF A, EncodeAll, la
<1>6. \A i \in 1 .. lb : W[la + i] = W[(la + i) - 1] \o EncodeRecord(w[la + i])
  <2> HIDE DEF w
  <2>1. \A i \in 1 .. lb : la + i \in 1 .. Len(w)
    BY <1>1
  <2>2. \A k \in 1 .. Len(w) : W[k] = W[k - 1] \o EncodeRecord(w[k])
    BY <1>1, FramedSteps DEF W
  <2> HIDE DEF W
  <2>3. ASSUME NEW i \in 1 .. lb
        PROVE  W[la + i] = W[(la + i) - 1] \o EncodeRecord(w[la + i])
    <3> DEFINE k == la + i
    <3>1. k \in 1 .. Len(w)
      BY <2>1
    <3> HIDE DEF k
    <3>2. W[k] = W[k - 1] \o EncodeRecord(w[k])
      BY <2>2, <3>1
    <3> QED BY <3>2 DEF k
  <2> QED BY <2>3
<1> HIDE DEF w, W
<1>7. 0 \in T
  <2>1. A \o << >> = A /\ la + 0 = la /\ 0 \in 0 .. lb
    BY <1>1, <1>2, ConcatEmptySeq
  <2> QED BY <1>3, <1>5, <2>1
<1>8. ASSUME NEW i \in 1 .. lb, i - 1 \in T PROVE i \in T
  <2> DEFINE e == EncodeRecord(b[i])
             x == B[i - 1]
  <2>1. e \in Seq(Cell)
    <3>1. b[i] \in Framable
      BY <1>8 DEF lb
    <3> QED BY <3>1, RecordCells
  <2>2. x \in Seq(Cell)
    <3>1. i - 1 \in 0 .. lb
      BY <1>1
    <3> QED BY <1>3, <3>1
  <2>3. W[(la + i) - 1] = A \o x
    <3>1. (la + i) - 1 = la + (i - 1)
      BY <1>1
    <3> QED BY <1>8, <3>1
  <2>4. B[i] = x \o e /\ W[la + i] = W[(la + i) - 1] \o e
    BY <1>3, <1>4, <1>6
  <2> HIDE DEF e, x
  <2>5. (A \o x) \o e = A \o (x \o e)
    <3>1. A \in Seq(Cell)
      BY <1>2
    <3> HIDE DEF T, A
    <3> QED BY <2>1, <2>2, <3>1, CellsAssociative
  <2>6. W[la + i] = A \o B[i]
    BY <2>3, <2>4, <2>5, Zenon
  <2> QED BY <1>1, <2>6
<1>9. 0 .. lb \subseteq T
  <2> HIDE DEF T
  <2> QED BY <1>1, <1>7, <1>8, UpTo
<1>10. W[la + lb] = A \o B[lb] /\ B[lb] \in Seq(Cell)
  <2>1. lb \in 0 .. lb
    BY <1>1
  <2> QED BY <1>3, <1>9, <2>1
<1> QED BY <1>1, <1>2, <1>10 DEF EncodeAll, W, B, A, w, lb

(* A record is what its place in the log holds.                             *)
LEMMA FramedPart ==
  ASSUME NEW records \in Seq(Framable), NEW i \in 1 .. Len(records),
         NEW torn \in Seq(Cell), NEW f, f = EncodeAll(records) \o torn
  PROVE  /\ f \in Seq(Cell) /\ Len(Framed(records)[i]) <= Len(f)
         /\ SubSeq(f, Len(Framed(records)[i - 1]) + 1, Len(Framed(records)[i]))
              = EncodeRecord(records[i])
<1> DEFINE F == Framed(records)
           e == EncodeRecord(records[i])
           n == Len(records)
           x == F[i - 1]
           y == F[i]
           z == F[n]
<1>1. n \in Nat /\ n \in 0 .. n /\ i \in 0 .. n
  OBVIOUS
<1>2. z \in Seq(Cell)
  <2> HIDE DEF n
  <2> QED BY <1>1, FramedSteps DEF n
<1>3. /\ x \in Seq(Cell) /\ y \in Seq(Cell) /\ e \in Seq(Cell)
      /\ Len(y) = Len(x) + Len(e) /\ y = x \o e
  BY FramedLengths, FramedSteps
<1>4. Len(y) <= Len(z) /\ SubSeq(z, 1, Len(y)) = y
  <2>1. i <= n
    BY <1>1
  <2> QED BY <1>1, <2>1, FramedGrows
<1>5. f = z \o torn
  BY DEF EncodeAll
<1> HIDE DEF x, y, z, e, F
<1>6. f \in Seq(Cell) /\ Len(f) = Len(z) + Len(torn)
  BY <1>2, <1>5, Joined
<1>7. Len(x) \in Nat /\ Len(y) \in Nat /\ Len(z) \in Nat /\ Len(torn) \in Nat /\ Len(e) \in Nat
  BY <1>2, <1>3, LenProperties
<1>8. Len(y) <= Len(f)
  BY <1>4, <1>6, <1>7
<1>9. SubSeq(f, Len(x) + 1, Len(y)) = SubSeq(z, Len(x) + 1, Len(y))
  <2>1. Len(x) + 1 \in Nat \ {0} /\ Len(x) + 1 - 1 <= Len(y) /\ Len(y) <= Len(z)
    BY <1>3, <1>4, <1>7
  <2> QED BY <1>2, <1>5, <1>7, <2>1, PartOfFront
<1>10. SubSeq(z, Len(x) + 1, Len(y)) = SubSeq(y, Len(x) + 1, Len(y))
  BY <1>2, <1>3, <1>4, <1>7, PartOfPrefix
<1>11. SubSeq(y, Len(x) + 1, Len(y)) = e
  BY <1>3, BackOfConcat
<1> QED BY <1>6, <1>8, <1>9, <1>10, <1>11 DEF x, y, e, F

----------------------------------------------------------------------------
(* One round of the loop of replay_wal.                                     *)
Turn(f, prev) ==
    LET next == NextRecord(f, prev.pos)
    IN  IF prev.kind # "record" THEN prev
        ELSE IF next.kind # "record" THEN [prev EXCEPT !.kind = next.kind]
        ELSE [kind |-> "record", records |-> Append(prev.records, next.record),
              pos |-> next.pos]

Found(f) == {NextRecord(f, p).record : p \in Nat}
Stops(f) == [kind : {"record", "end", "error"}, records : Seq(Found(f)), pos : Nat]

(* What next returns.                                                       *)
LEMMA NextTyped ==
  ASSUME NEW f \in Seq(Cell), NEW pos \in Nat
  PROVE  /\ NextRecord(f, pos).kind \in {"record", "end", "error"}
         /\ NextRecord(f, pos).kind = "record" => NextRecord(f, pos).pos \in Nat
<1> DEFINE len == LengthAt(f, pos)
           left == Len(f) - pos
           x == SubSeq(f, pos + U32 + 1, pos + U32 + len)
<1>1. NextRecord(f, pos) =
        IF left < U32 \/ left - U32 < len THEN [kind |-> "end"]
        ELSE IF ~Sound(x) THEN [kind |-> "error"]
        ELSE [kind |-> "record", record |-> Parsed(x[1]), pos |-> pos + U32 + len]
  BY DEF NextRecord, LengthAt
<1>2. ASSUME ~(left < U32) PROVE pos + U32 + len \in Nat
  <2>1. U32 \in Nat /\ Len(f) \in Nat
    BY Widths
  <2>2. pos + U32 <= Len(f)
    BY <1>2, <2>1
  <2>3. len \in Nat
    BY <2>2, LengthTyped
  <2> HIDE DEF len
  <2> QED BY <2>1, <2>3
<1> HIDE DEF x, len, left
<1> QED BY <1>1, <1>2

(* A round goes from stop to stop.                                          *)
LEMMA TurnTyped ==
  ASSUME NEW f \in Seq(Cell), NEW prev \in Stops(f)
  PROVE  Turn(f, prev) \in Stops(f)
<1> DEFINE next == NextRecord(f, prev.pos)
<1>1. prev.pos \in Nat /\ prev.records \in Seq(Found(f)) /\ prev.kind \in {"record", "end", "error"}
  BY DEF Stops
<1>2. next.kind \in {"record", "end", "error"} /\ (next.kind = "record" => next.pos \in Nat)
  BY <1>1, NextTyped
<1>3. next.record \in Found(f)
  BY <1>1 DEF Found
<1> HIDE DEF next
<1>4. CASE prev.kind # "record"
  BY <1>4 DEF Turn
<1>5. CASE prev.kind = "record" /\ next.kind # "record"
  <2>1. Turn(f, prev) = [prev EXCEPT !.kind = next.kind]
    BY <1>5 DEF Turn, next
  <2> QED BY <1>2, <2>1 DEF Stops
<1>6. CASE prev.kind = "record" /\ next.kind = "record"
  <2>1. Turn(f, prev) = [kind |-> "record", records |-> Append(prev.records, next.record),
                         pos |-> next.pos]
    BY <1>6 DEF Turn, next
  <2>2. Append(prev.records, next.record) \in Seq(Found(f))
    BY <1>1, <1>3, AppendProperties
  <2> QED BY <1>2, <1>6, <2>1, <2>2 DEF Stops
<1> QED BY <1>4, <1>5, <1>6

(* The loop, from each round to the next.                                   *)
LEMMA RoundsSteps ==
  ASSUME NEW f \in Seq(Cell)
  PROVE  /\ Rounds(f)[0] = [kind |-> "record", records |-> << >>, pos |-> 0]
         /\ \A n \in 1 .. Len(f) + 1 : Rounds(f)[n] = Turn(f, Rounds(f)[n - 1])
<1> DEFINE N == Len(f) + 1
           S == Stops(f)
           zero == [kind |-> "record", records |-> << >>, pos |-> 0]
           g == [i \in 1 .. N |-> [x \in S |-> Turn(f, x)]]
           at == Rounds(f)
<1>1. N \in Nat /\ zero \in S
  <2>1. << >> \in Seq(Found(f)) /\ 0 \in Nat /\ Len(f) \in Nat
    BY EmptySeq
  <2> QED BY <2>1 DEF Stops
<1>2. g \in [1 .. N -> [S -> S]]
  <2>1. ASSUME NEW x \in S PROVE Turn(f, x) \in S
    BY TurnTyped
  <2> HIDE DEF S, N
  <2> QED BY <2>1
<1>3. PICK l \in [0 .. N -> S] : Recurs(l, N, zero, g)
  <2> HIDE DEF g, N, S, zero
  <2> QED BY <1>1, <1>2, RecursExists
<1>4. l = [n \in 0 .. N |-> IF n = 0 THEN zero ELSE Turn(f, l[n - 1])]
  <2>1. ASSUME NEW n \in 0 .. N
        PROVE  (IF n = 0 THEN zero ELSE g[n][l[n - 1]]) = IF n = 0 THEN zero ELSE Turn(f, l[n - 1])
    <3> HIDE DEF S, N, zero
    <3> QED BY <1>1, <1>3
  <2> HIDE DEF N, g, zero
  <2> QED BY <1>3, <2>1 DEF Recurs
<1>5. at = CHOOSE s : s = [n \in 0 .. N |-> IF n = 0 THEN zero ELSE Turn(f, s[n - 1])]
  BY DEF Rounds, Turn
<1>6. at = [n \in 0 .. N |-> IF n = 0 THEN zero ELSE Turn(f, at[n - 1])]
  <2> HIDE DEF N, at, zero
  <2> QED BY <1>4, <1>5
<1>7. at[0] = zero /\ \A n \in 1 .. N : at[n] = Turn(f, at[n - 1])
  <2> HIDE DEF N, at, zero
  <2> QED BY <1>1, <1>6
<1> QED BY <1>7

(* A log that ends in the middle of a record is read up to there.           *)
LEMMA ReadTorn ==
  ASSUME NEW records \in Seq(Framable), NEW torn \in Seq(Cell),
         NextRecord(torn, 0).kind = "end"
  PROVE  ReadLog(EncodeAll(records) \o torn)
           = [ok |-> TRUE, records |-> records, stop |-> Len(EncodeAll(records))]
<1> DEFINE z == EncodeAll(records)
           f == z \o torn
           n == Len(records)
           at == Rounds(f)
           F == Framed(records)
           Here(i) == [kind |-> "record", records |-> SubSeq(records, 1, i), pos |-> Len(F[i])]
           end == [kind |-> "end", records |-> records, pos |-> Len(z)]
<1>1. n \in Nat /\ z \in Seq(Cell) /\ z = F[n]
  <2>1. n \in Nat /\ n \in 0 .. n
    OBVIOUS
  <2> HIDE DEF n
  <2> QED BY <2>1, FramedSteps DEF EncodeAll, n
<1>2. f \in Seq(Cell) /\ Len(f) = Len(z) + Len(torn) /\ Len(z) \in Nat /\ Len(torn) \in Nat
  <2> HIDE DEF z
  <2> QED BY <1>1, Joined, LenProperties
<1>3. n <= Len(f) /\ Len(f) \in Nat
  <2>1. n <= Len(F[n])
    <3>1. \A i \in 0 .. n : i <= Len(F[i])
      BY FramedLong
    <3>2. n \in Nat
      BY <1>1
    <3> HIDE DEF n, F
    <3> QED BY <3>1, <3>2
  <2> HIDE DEF z, n, f, F
  <2> QED BY <1>1, <1>2, <2>1
<1>4. at[0] = [kind |-> "record", records |-> << >>, pos |-> 0]
      /\ \A i \in 1 .. Len(f) + 1 : at[i] = Turn(f, at[i - 1])
  <2> HIDE DEF f
  <2> QED BY <1>2, RoundsSteps
<1>5. ASSUME NEW i \in 1 .. n, at[i - 1] = Here(i - 1) PROVE at[i] = Here(i)
  <2> DEFINE e == EncodeRecord(records[i])
             x == Len(F[i - 1])
             y == Len(F[i])
  <2>1. records[i] \in Framable /\ x \in Nat /\ y = x + Len(e)
    <3>1. records[i] \in Framable /\ F[i - 1] \in Seq(Cell) /\ y = x + Len(e)
      BY FramedLengths
    <3> QED BY <3>1, LenProperties
  <2>2. y <= Len(f) /\ SubSeq(f, x + 1, y) = e
    BY FramedPart
  <2>3. NextRecord(f, x) = [kind |-> "record", record |-> records[i], pos |-> y]
    <3> HIDE DEF x, y, f
    <3> QED BY <1>2, <2>1, <2>2, RecordRead
  <2>4. i \in 1 .. Len(f) + 1
    BY <1>1, <1>3
  <2>5. at[i] = Turn(f, Here(i - 1))
    BY <1>4, <1>5, <2>4
  <2>6. Append(SubSeq(records, 1, i - 1), records[i]) = SubSeq(records, 1, i)
    BY LongerPrefix
  <2>7. Turn(f, Here(i - 1)) = [kind |-> "record", pos |-> y,
                                records |-> Append(SubSeq(records, 1, i - 1), records[i])]
    <3> DEFINE prev == Here(i - 1)
               next == NextRecord(f, x)
    <3>1. /\ prev.kind = "record" /\ prev.records = SubSeq(records, 1, i - 1)
          /\ prev.pos = x
      OBVIOUS
    <3>2. next.kind = "record" /\ next.record = records[i] /\ next.pos = y
      <4> HIDE DEF x, y, f
      <4> QED BY <2>3
    <3> HIDE DEF f, x, y, prev
    <3>3. Turn(f, prev) = [kind |-> "record", records |-> Append(prev.records, next.record),
                           pos |-> next.pos]
      BY <3>1, <3>2 DEF Turn
    <3> HIDE DEF next
    <3>4. Turn(f, prev) = [kind |-> "record", pos |-> y,
                           records |-> Append(SubSeq(records, 1, i - 1), records[i])]
      BY <3>1, <3>2, <3>3
    <3> QED BY <3>4 DEF prev
  <2> QED BY <2>5, <2>6, <2>7
<1>6. at[0] = Here(0)
  <2>1. SubSeq(records, 1, 0) = << >>
    OBVIOUS
  <2>2. F[0] = << >>
    BY FramedSteps
  <2>3. Len(F[0]) = 0
    BY <2>2
  <2> HIDE DEF at, F
  <2> QED BY <1>4, <2>1, <2>3
<1> DEFINE T == {i \in 0 .. n : at[i] = Here(i)}
<1>7. at[n] = Here(n)
  <2>1. 0 \in T /\ \A i \in 1 .. n : i - 1 \in T => i \in T
    <3> HIDE DEF at, Here, n
    <3> QED BY <1>1, <1>5, <1>6
  <2>2. 0 .. n \subseteq T
    <3> HIDE DEF T, n
    <3> QED BY <1>1, <2>1, UpTo
  <2> HIDE DEF n, at, Here
  <2> QED BY <1>1, <2>2
<1>8. at[n + 1] = end
  <2>1. NextRecord(f, Len(z)).kind = "end"
    <3>1. \A i \in 1 .. Len(torn) : torn[0 + i] = f[Len(z) + i]
      <4> HIDE DEF z
      <4> QED BY <1>1, <1>2, AfterFront
    <3>2. Len(f) - Len(z) = Len(torn) - 0 /\ Len(z) \in 0 .. Len(f) /\ 0 \in 0 .. Len(torn)
      <4> HIDE DEF z, f
      <4> QED BY <1>2
    <3> HIDE DEF z, f
    <3>3. /\ Len(f) - Len(z) <= Len(torn) - 0
          /\ \A i \in 1 .. Len(f) - Len(z) : f[Len(z) + i] = torn[0 + i]
      BY <1>2, <3>1, <3>2
    <3> QED BY <1>2, <3>2, <3>3, EndCarries
  <2>2. at[n + 1] = Turn(f, at[n])
    <3>1. n + 1 \in 1 .. Len(f) + 1 /\ (n + 1) - 1 = n
      <4> HIDE DEF n, f
      <4> QED BY <1>1, <1>3
    <3> HIDE DEF n, f, at
    <3> QED BY <1>4, <3>1
  <2>3. Here(n) = [kind |-> "record", records |-> records, pos |-> Len(z)]
    <3>1. SubSeq(records, 1, n) = records
      OBVIOUS
    <3> QED BY <1>1, <3>1
  <2>4. Turn(f, [kind |-> "record", records |-> records, pos |-> Len(z)]) = end
    <3> HIDE DEF z, f
    <3> QED BY <2>1 DEF Turn
  <2> HIDE DEF at, Here, end, f, z
  <2> QED BY <1>7, <2>2, <2>3, <2>4
<1> DEFINE U == {i \in 0 .. Len(f) + 1 : n + 1 <= i => at[i] = end}
<1>9. Len(f) + 1 \in U
  <2> DEFINE last == Len(f) + 1
  <2>1. last \in Nat /\ n + 1 <= last
    <3> HIDE DEF n, f
    <3> QED BY <1>1, <1>3
  <2>2. 0 \in U
    <3> HIDE DEF n, f
    <3> QED BY <1>1, <1>3
  <2>3. ASSUME NEW i \in 1 .. last, i - 1 \in U PROVE i \in U
    <3>1. CASE n + 1 <= i - 1
      <4>1. at[i - 1] = end /\ at[i] = Turn(f, at[i - 1])
        <5> HIDE DEF n, f, at, end
        <5> QED BY <1>4, <2>3, <3>1
      <4>2. Turn(f, end) = end
        <5> HIDE DEF f, z
        <5> QED BY DEF Turn
      <4>3. at[i] = end
        <5> HIDE DEF f, at, end
        <5> QED BY <4>1, <4>2
      <4> HIDE DEF at, end, f, n
      <4> QED BY <4>3
    <3>2. CASE i = n + 1
      <4> HIDE DEF at, end, f, n
      <4> QED BY <1>8, <3>2
    <3>3. CASE i < n + 1
      <4> HIDE DEF at, end, f, n
      <4> QED BY <1>1, <3>3
    <3> HIDE DEF n, f, U
    <3> QED BY <1>1, <3>1, <3>2, <3>3
  <2>4. 0 .. last \subseteq U
    <3> HIDE DEF U, last
    <3> QED BY <2>1, <2>2, <2>3, UpTo
  <2> HIDE DEF U, f
  <2> QED BY <2>1, <2>4
<1>10. at[Len(f) + 1] = end
  <2> HIDE DEF at, end, f, n
  <2> QED BY <1>1, <1>3, <1>9
<1>11. ReadLog(f) = [ok |-> TRUE, records |-> records, stop |-> Len(z)]
  <2>1. end.kind = "end" /\ end.records = records /\ end.pos = Len(z)
    OBVIOUS
  <2>2. Rounds(f)[Len(f) + 1] = end
    BY <1>10
  <2> HIDE DEF f, z, end
  <2> QED BY <2>1, <2>2 DEF ReadLog
<1> QED BY <1>11

(* Where the log of some first records ends, the file ends or is cut inside *)
(* the next record.                                                         *)
CutOf(records, f, n, torn) ==
    /\ f = Framed(records)[n] \o torn
    /\ NextRecord(torn, 0).kind = "end"
    /\ n < Len(records) => IsStrictPrefix(torn, EncodeRecord(records[n + 1]))

(* A crash leaves such a file of such a file.                               *)
LEMMA CutAgain ==
  ASSUME NEW records \in Seq(Framable), NEW n \in 0 .. Len(records), NEW torn \in Seq(Cell),
         NEW f \in Seq(Cell), CutOf(records, f, n, torn), NEW m \in 0 .. Len(f)
  PROVE  \E j \in 0 .. n : \E t \in Seq(Cell) : CutOf(records, SubSeq(f, 1, m), j, t)
<1> DEFINE F == Framed(records)
           z == F[n]
           g == SubSeq(f, 1, m)
<1>1. F \in [0 .. Len(records) -> Seq(Cell)] /\ F[0] = << >>
  BY FramedSteps
<1>2. Len(records) \in Nat /\ n \in Nat /\ n <= Len(records)
  OBVIOUS
<1>3. z \in Seq(Cell)
  <2> HIDE DEF F
  <2> QED BY <1>1
<1>4. f = z \o torn /\ NextRecord(torn, 0).kind = "end"
      /\ (n < Len(records) => IsStrictPrefix(torn, EncodeRecord(records[n + 1])))
  BY DEF CutOf
<1> HIDE DEF F
<1>5. Len(f) = Len(z) + Len(torn) /\ Len(z) \in Nat /\ Len(torn) \in Nat /\ m \in Nat
      /\ m <= Len(f)
  <2> HIDE DEF z
  <2> QED BY <1>3, <1>4, Joined, LenProperties
<1>6. CASE m >= Len(z)
  <2> DEFINE k == m - Len(z)
             t == SubSeq(torn, 1, k)
  <2>1. k \in Nat /\ k <= Len(torn)
    <3> HIDE DEF z
    <3> QED BY <1>5, <1>6
  <2> HIDE DEF k
  <2>2. t \in Seq(Cell) /\ Len(t) = k /\ \A i \in 1 .. k : t[i] = torn[i]
    BY <2>1, FrontPart
  <2>3. g = z \o t
    <3>1. m = Len(z) + k /\ k \in 0 .. Len(torn)
      BY <1>5, <2>1 DEF k
    <3> HIDE DEF z
    <3> QED BY <1>3, <1>4, <3>1, FrontBeyond
  <2>4. NextRecord(t, 0).kind = "end"
    <3> HIDE DEF t
    <3>1. /\ 0 \in 0 .. Len(torn) /\ 0 \in 0 .. Len(t) /\ Len(t) - 0 <= Len(torn) - 0
          /\ \A i \in 1 .. Len(t) - 0 : t[0 + i] = torn[0 + i]
      BY <1>5, <2>1, <2>2
    <3> QED BY <1>4, <2>2, <3>1, EndCarries
  <2>5. ASSUME n < Len(records) PROVE IsStrictPrefix(t, EncodeRecord(records[n + 1]))
    <3> DEFINE e == EncodeRecord(records[n + 1])
    <3>1. e \in Seq(Cell)
      <4>1. n + 1 \in 1 .. Len(records)
        BY <1>2, <2>5
      <4>2. records[n + 1] \in Framable
        BY <4>1
      <4> QED BY <4>2, RecordCells
    <3>2. IsStrictPrefix(torn, e)
      BY <1>4, <2>5
    <3> HIDE DEF e, t
    <3>3. Len(torn) < Len(e) /\ (\A i \in 1 .. Len(torn) : torn[i] = e[i])
      <4>1. IsPrefix(torn, e)
        BY <3>2 DEF IsStrictPrefix
      <4> QED BY <3>1, <3>2, <4>1, StrictPrefixes, PrefixAgrees
    <3>4. Len(t) < Len(e) /\ Len(t) <= Len(e) /\ (\A i \in 1 .. Len(t) : t[i] = e[i])
      <4>1. Len(e) \in Nat
        BY <3>1, LenProperties
      <4> HIDE DEF z
      <4>2. \A i \in 1 .. k : t[i] = e[i]
        BY <1>5, <2>1, <2>2, <3>3
      <4>3. k < Len(e) /\ k <= Len(e)
        BY <1>5, <2>1, <3>3, <4>1
      <4> QED BY <2>2, <4>2, <4>3
    <3>5. IsPrefix(t, e) /\ t # e
      BY <2>2, <3>1, <3>4, PrefixAgrees
    <3> QED BY <3>5 DEF IsStrictPrefix, e
  <2>6. CutOf(records, g, n, t)
    <3> HIDE DEF t, g
    <3> QED BY <2>3, <2>4, <2>5 DEF CutOf, F, z
  <2>7. n \in 0 .. n
    BY <1>2
  <2> HIDE DEF t
  <2> QED BY <2>2, <2>6, <2>7
<1>7. CASE ~(m >= Len(z))
  <2> DEFINE T == {i \in 0 .. n : Len(F[i]) <= m}
  <2>1. PICK j \in T : \A i \in T : j >= i
    <3>1. 0 \in T
      <4>1. Len(F[0]) = 0
        BY <1>1
      <4> QED BY <1>2, <1>5, <4>1
    <3>2. T \subseteq 0 .. n
      OBVIOUS
    <3>3. \E j \in T : \A i \in T : j >= i
      <4> HIDE DEF T
      <4> QED BY <1>2, <3>1, <3>2, GreatestUpTo
    <3> QED BY <3>3
  <2>2. j \in 0 .. n /\ Len(F[j]) <= m /\ j # n
    BY <1>5, <1>7
  <2> DEFINE i == j + 1
             x == F[j]
             y == F[i]
             e == EncodeRecord(records[i])
             k == m - Len(x)
             t == SubSeq(e, 1, k)
  <2>3. i \in 1 .. Len(records) /\ i \in 0 .. n /\ i <= n /\ i - 1 = j /\ ~(j >= i)
    BY <1>2, <2>2
  <2>4. ~(Len(y) <= m)
    BY <2>1, <2>3
  <2>5. /\ x \in Seq(Cell) /\ y \in Seq(Cell) /\ e \in Seq(Cell) /\ y = x \o e
        /\ Len(y) = Len(x) + Len(e) /\ records[i] \in Framable
    <3> HIDE DEF i
    <3>1. /\ F[i - 1] \in Seq(Cell) /\ F[i] \in Seq(Cell) /\ e \in Seq(Cell)
          /\ Len(F[i]) = Len(F[i - 1]) + Len(e) /\ records[i] \in Framable
      BY <2>3, FramedLengths DEF F
    <3>2. F[i] = F[i - 1] \o e
      BY <2>3, FramedSteps DEF F
    <3> QED BY <2>3, <3>1, <3>2
  <2>6. Len(y) <= Len(z) /\ SubSeq(z, 1, Len(y)) = y
    <3>1. i \in 0 .. Len(records) /\ n \in 0 .. Len(records)
      BY <1>2, <2>3
    <3> HIDE DEF i
    <3>2. Len(F[i]) <= Len(F[n]) /\ SubSeq(F[n], 1, Len(F[i])) = F[i]
      BY <2>3, <3>1, FramedGrows DEF F
    <3> QED BY <3>2
  <2> HIDE DEF x, y, e, i, T
  <2>7. /\ k \in Nat /\ k < Len(e) /\ k <= Len(e) /\ m = Len(x) + k
        /\ Len(y) \in Nat /\ m <= Len(y)
    <3>1. Len(x) \in Nat /\ Len(y) \in Nat /\ Len(e) \in Nat
      BY <2>5, LenProperties
    <3>2. Len(x) <= m
      BY <2>2 DEF x
    <3> QED BY <1>5, <2>4, <2>5, <3>1, <3>2
  <2>8. g = SubSeq(y, 1, m)
    <3>1. g = SubSeq(z, 1, m)
      <4>1. m <= Len(z) /\ 1 - 1 <= m /\ 1 \in Nat \ {0}
        BY <1>5, <1>7
      <4> HIDE DEF z
      <4> QED BY <1>3, <1>4, <1>5, <4>1, PartOfFront
    <3> HIDE DEF z
    <3>2. SubSeq(SubSeq(z, 1, Len(y)), 1, m) = SubSeq(z, 1, m)
      BY <1>3, <1>5, <2>6, <2>7, FrontOfFront
    <3> QED BY <2>6, <3>1, <3>2
  <2>9. g = x \o t
    <3>1. k \in 0 .. Len(e)
      BY <2>5, <2>7, LenProperties
    <3> HIDE DEF k, g
    <3> QED BY <2>5, <2>7, <2>8, <3>1, FrontBeyond
  <2>10. t \in Seq(Cell) /\ Len(t) = k /\ SubSeq(e, 1, Len(t)) = t
    <3>1. t \in Seq(Cell) /\ Len(t) = k
      <4> HIDE DEF k
      <4> QED BY <2>5, <2>7, FrontPart
    <3> QED BY <3>1
  <2> HIDE DEF t, g, k
  <2>11. IsStrictPrefix(t, e)
    BY <2>5, <2>7, <2>10, StrictPrefixes
  <2>12. NextRecord(t, 0).kind = "end"
    BY <2>5, <2>10, <2>11, TornRecord DEF e
  <2>13. CutOf(records, g, j, t)
    BY <2>9, <2>11, <2>12 DEF CutOf, x, e, i, F
  <2> QED BY <2>2, <2>10, <2>13 DEF g
<1> QED BY <1>6, <1>7

----------------------------------------------------------------------------
(* A sequence number in front of a value is taken off again.                *)
LEMMA SeqTakenOff ==
  ASSUME NEW v \in Seq(Byte), NEW seq \in Nat
  PROVE  /\ EncodeWithSeq(v, seq) \in Seq(Byte)
         /\ Len(EncodeWithSeq(v, seq)) = U64 + Len(v)
         /\ DecodeWithSeq(EncodeWithSeq(v, seq)) = v
<1> DEFINE d == ToLE(seq, U64, Base)
           b == d \o v
<1>1. d \in Seq(Byte) /\ Len(d) = U64 /\ U64 \in Nat /\ Len(v) \in Nat
  BY Widths, Digits, LenProperties
<1> HIDE DEF d
<1>2. b \in Seq(Byte) /\ Len(b) = U64 + Len(v)
  BY <1>1, Joined
<1>3. SubSeq(b, U64 + 1, Len(b)) = v
  BY <1>1, BackOfConcat
<1>4. EncodeWithSeq(v, seq) = b
  BY DEF EncodeWithSeq, d
<1> HIDE DEF b
<1> QED BY <1>1, <1>2, <1>3, <1>4 DEF DecodeWithSeq

(* The parts of a value with a time to live.                                *)
LEMMA TtlParts ==
  ASSUME NEW v \in Seq(Byte), NEW exp \in Nat, Fits(exp, U64, Base)
  PROVE  LET w == WrapTtl(v, exp)
         IN  /\ w \in Seq(Byte) /\ Len(w) = 1 + U64 + Len(v) /\ w[1] = TtlMarker
             /\ FromLE(SubSeq(w, 2, 1 + U64), Base) = exp
             /\ SubSeq(w, 2 + U64, Len(w)) = v
<1> DEFINE m == << TtlMarker >>
           d == ToLE(exp, U64, Base)
           h == m \o d
           w == h \o v
<1>1. d \in Seq(Byte) /\ Len(d) = U64 /\ U64 \in Nat /\ Len(v) \in Nat
  BY Widths, Digits, LenProperties
<1>2. m \in Seq(Byte) /\ Len(m) = 1 /\ m[1] = TtlMarker
  BY Widths DEF TtlMarker
<1>3. FromLE(d, Base) = exp
  BY <1>1, FromToLE, Widths
<1> HIDE DEF d, m
<1>4. h \in Seq(Byte) /\ Len(h) = 1 + U64
  BY <1>1, <1>2, Joined
<1>5. SubSeq(h, 2, 1 + U64) = d /\ h[1] = TtlMarker
  <2>1. SubSeq(h, Len(m) + 1, Len(h)) = d /\ SubSeq(h, 1, 1) = m
    BY <1>1, <1>2, BackOfConcat
  <2>2. Len(m) + 1 = 2
    BY <1>2
  <2>3. SubSeq(h, 1, 1)[1] = h[1]
    <3>1. 1 \in Nat /\ 1 <= Len(h) /\ 1 \in 1 .. 1
      BY <1>1, <1>4
    <3> HIDE DEF h
    <3> QED BY <1>4, <3>1, FrontPart
  <2> QED BY <1>2, <1>4, <2>1, <2>2, <2>3
<1> HIDE DEF h
<1>6. w \in Seq(Byte) /\ Len(w) = 1 + U64 + Len(v)
  BY <1>1, <1>4, Joined
<1>7. SubSeq(w, 2, 1 + U64) = d
  <2>1. SubSeq(w, 2, 1 + U64) = SubSeq(h, 2, 1 + U64)
    <3>1. 2 \in Nat \ {0} /\ 1 + U64 \in Nat /\ 2 - 1 <= 1 + U64 /\ 1 + U64 <= Len(h)
      BY <1>1, <1>4
    <3> QED BY <1>4, <3>1, PartOfFront
  <2> QED BY <1>5, <2>1
<1>8. w[1] = TtlMarker
  <2>1. 1 \in 1 .. Len(h) + Len(v) /\ 1 <= Len(h)
    BY <1>1, <1>4
  <2> QED BY <1>4, <1>5, <2>1, ConcatProperties
<1>9. SubSeq(w, 2 + U64, Len(w)) = v
  <2>1. SubSeq(w, Len(h) + 1, Len(w)) = v /\ Len(h) + 1 = 2 + U64
    BY <1>1, <1>4, BackOfConcat
  <2> QED BY <2>1
<1>10. WrapTtl(v, exp) = w
  BY DEF WrapTtl, h, m, d
<1> HIDE DEF w
<1> QED BY <1>3, <1>6, <1>7, <1>8, <1>9, <1>10

(* The parts of an operation.                                               *)
LEMMA OperationTyped ==
  ASSUME NEW o \in Operation
  PROVE  /\ o.method \in {"put", "put_with_ttl", "delete", "batch put", "batch delete"}
         /\ o.key \in Keys /\ o.key \in Seq(Byte) /\ o.val \in Seq(Byte)
         /\ o.exp \in Nat /\ o.seq \in Nat
         /\ Fits(Largest(o.key, o.val), U32, Base) /\ Fits(o.exp, U64, Base)
  BY ClientAssumption DEF Operation

(* The bytes stored are bytes, and not many more than those of the value.   *)
LEMMA StoredTyped ==
  ASSUME NEW o \in Operation
  PROVE  /\ StoredBytes(o) \in Seq(Byte)
         /\ Len(StoredBytes(o)) \in Nat /\ Len(StoredBytes(o)) <= 2 * U64 + 1 + Len(o.val)
<1> DEFINE b == StoredBytes(o)
           v == o.val
           m == o.method
<1>1. /\ m \in {"put", "put_with_ttl", "delete", "batch put", "batch delete"}
      /\ v \in Seq(Byte) /\ o.exp \in Nat /\ o.seq \in Nat /\ Fits(o.exp, U64, Base)
  BY OperationTyped
<1>2. Len(v) \in Nat /\ U64 \in Nat
  BY <1>1, Widths, LenProperties
<1>3. Tombstone \in Seq(Byte) /\ Len(Tombstone) = 1
  BY Widths DEF Tombstone
<1> HIDE DEF v
<1>4. CASE m = "put"
  <2>1. b = EncodeWithSeq(v, o.seq)
    BY <1>4 DEF StoredBytes, v
  <2>2. b \in Seq(Byte) /\ Len(b) = U64 + Len(v)
    BY <1>1, <2>1, SeqTakenOff
  <2> HIDE DEF b
  <2>3. Len(b) \in Nat /\ Len(b) <= 2 * U64 + 1 + Len(v)
    BY <1>2, <2>2
  <2> QED BY <2>2, <2>3 DEF b, v
<1>5. CASE m = "put_with_ttl"
  <2> DEFINE w == WrapTtl(v, o.exp)
  <2>1. b = EncodeWithSeq(w, o.seq)
    BY <1>5 DEF StoredBytes, v
  <2>2. w \in Seq(Byte) /\ Len(w) = 1 + U64 + Len(v)
    BY <1>1, TtlParts
  <2> HIDE DEF w
  <2>3. b \in Seq(Byte) /\ Len(b) = U64 + Len(w)
    BY <1>1, <2>1, <2>2, SeqTakenOff
  <2> HIDE DEF b
  <2>4. Len(b) \in Nat /\ Len(b) <= 2 * U64 + 1 + Len(v)
    BY <1>2, <2>2, <2>3
  <2> QED BY <2>3, <2>4 DEF b, v
<1>6. CASE m = "delete"
  <2>1. b = EncodeWithSeq(Tombstone, o.seq)
    BY <1>6 DEF StoredBytes
  <2>2. b \in Seq(Byte) /\ Len(b) = U64 + 1
    BY <1>1, <1>3, <2>1, SeqTakenOff
  <2> HIDE DEF b
  <2>3. Len(b) \in Nat /\ Len(b) <= 2 * U64 + 1 + Len(v)
    BY <1>2, <2>2
  <2> QED BY <2>2, <2>3 DEF b, v
<1>7. CASE m = "batch put"
  <2>1. b = v
    BY <1>7 DEF StoredBytes, v
  <2> HIDE DEF b
  <2>2. Len(b) \in Nat /\ Len(b) <= 2 * U64 + 1 + Len(v)
    BY <1>2, <2>1
  <2> QED BY <1>1, <2>1, <2>2 DEF b, v
<1>8. CASE m = "batch delete"
  <2>1. b = Tombstone
    BY <1>8 DEF StoredBytes
  <2> HIDE DEF b
  <2>2. Len(b) \in Nat /\ Len(b) <= 2 * U64 + 1 + Len(v)
    <3>1. Len(b) = 1
      BY <1>3, <2>1
    <3> QED BY <1>2, <3>1
  <2> QED BY <1>3, <2>1, <2>2 DEF b, v
<1> QED BY <1>1, <1>4, <1>5, <1>6, <1>7, <1>8

(* What an operation logs can be framed.                                    *)
LEMMA RecordOfOp ==
  ASSUME NEW o \in Operation
  PROVE  /\ LogRecord(o) \in Framable
         /\ LogRecord(o).key = o.key
<1> DEFINE r == LogRecord(o)
           v == IF o.method = "batch delete" THEN << >> ELSE StoredBytes(o)
           p == Payload(r)
<1>1. /\ o.key \in Seq(Byte) /\ o.val \in Seq(Byte)
      /\ Fits(Largest(o.key, o.val), U32, Base)
  BY OperationTyped
<1>2. /\ Len(o.key) \in Nat /\ Len(o.val) \in Nat /\ U32 \in Nat /\ U64 \in Nat
      /\ Base \in Nat \ {0}
  BY <1>1, Widths, LenProperties
<1>3. v \in Seq(Byte) /\ Len(v) \in Nat /\ Len(v) <= 2 * U64 + 1 + Len(o.val)
  <2>1. CASE o.method = "batch delete"
    <3>1. v = << >>
      BY <2>1
    <3> HIDE DEF v
    <3>2. v \in Seq(Byte) /\ Len(v) = 0
      BY <3>1, EmptySeq
    <3> DEFINE lv == Len(o.val)
    <3>3. lv \in Nat
      BY <1>2
    <3> HIDE DEF lv
    <3>4. 0 \in Nat /\ 0 <= 2 * U64 + 1 + lv
      BY <1>2, <3>3
    <3> QED BY <3>2, <3>4 DEF lv
  <2>2. CASE o.method # "batch delete"
    <3>1. v = StoredBytes(o)
      BY <2>2
    <3> HIDE DEF v
    <3> QED BY <3>1, StoredTyped
  <2> QED BY <2>1, <2>2
<1>4. r = [op |-> IF IsDelete(o) THEN DeleteType ELSE PutType, key |-> o.key, value |-> v]
  BY DEF LogRecord
<1> HIDE DEF r, v
<1>5. r \in Record /\ r.key = o.key /\ r.value = v
  BY <1>1, <1>3, <1>4 DEF Record
<1>6. Len(p) = 1 + U32 + Len(o.key) + U32 + Len(v)
  BY <1>5, PayloadTyped
<1>7. 1 + Len(p) \in Nat /\ Largest(o.key, o.val) \in Nat /\ 1 + Len(p) <= Largest(o.key, o.val)
  <2> DEFINE lp == Len(p)
             lk == Len(o.key)
             lv == Len(o.val)
             lw == Len(v)
  <2>1. lp = 1 + U32 + lk + U32 + lw /\ lw \in Nat /\ lw <= 2 * U64 + 1 + lv
        /\ lk \in Nat /\ lv \in Nat
    BY <1>2, <1>3, <1>6
  <2>2. Largest(o.key, o.val) = 2 + 2 * U32 + lk + 2 * U64 + 1 + lv
    BY DEF Largest
  <2> HIDE DEF lp, lk, lv, lw
  <2>3. 1 + lp \in Nat /\ 1 + lp <= 2 + 2 * U32 + lk + 2 * U64 + 1 + lv
        /\ 2 + 2 * U32 + lk + 2 * U64 + 1 + lv \in Nat
    BY <1>2, <2>1
  <2> QED BY <2>2, <2>3 DEF lp
<1> HIDE DEF p
<1>8. Fits(1 + Len(p), U32, Base)
  BY <1>1, <1>2, <1>7, FitsBelow
<1> QED BY <1>5, <1>8 DEF Framable, r, p

(* A value that packs comes back from the bytes stored.                     *)
LEMMA Unpacked ==
  ASSUME NEW o \in Operation, now \in Nat, Packs(o)
  PROVE  UnpackValue(StoredBytes(o), now) = Meaning(o)
<1> DEFINE b == StoredBytes(o)
           v == o.val
           m == o.method
<1>1. /\ m \in {"put", "put_with_ttl", "delete", "batch put", "batch delete"}
      /\ v \in Seq(Byte) /\ o.exp \in Nat /\ o.seq \in Nat /\ Fits(o.exp, U64, Base)
  BY OperationTyped
<1>2. Len(v) \in Nat /\ U64 \in Nat /\ U64 > 1
  BY <1>1, Widths, LenProperties
<1>3. Tombstone \in Seq(Byte) /\ Len(Tombstone) = 1 /\ Tombstone[1] = 0
  BY Widths DEF Tombstone
<1> HIDE DEF v
<1>4. CASE m = "put"
  <2>1. b = EncodeWithSeq(v, o.seq) /\ Meaning(o) = Some(v)
    BY <1>4 DEF StoredBytes, v, Meaning, IsDelete
  <2>2. v # Tombstone /\ (Len(v) > U64 => v[1] # TtlMarker)
    BY <1>4 DEF Packs, v
  <2>3. DecodeWithSeq(b) = v
    BY <1>1, <2>1, SeqTakenOff
  <2>4. ~(Len(v) >= 1 + U64 /\ v[1] = TtlMarker)
    BY <1>2, <2>2
  <2> QED BY <2>1, <2>2, <2>3, <2>4 DEF UnpackValue, UnpackInner, UnwrapTtl
<1>5. CASE m = "put_with_ttl"
  <2> DEFINE w == WrapTtl(v, o.exp)
  <2>1. b = EncodeWithSeq(w, o.seq) /\ Meaning(o) = IF now >= o.exp THEN None ELSE Some(v)
    BY <1>5 DEF StoredBytes, v, Meaning, IsDelete
  <2>2. /\ w \in Seq(Byte) /\ Len(w) = 1 + U64 + Len(v) /\ w[1] = TtlMarker
        /\ FromLE(SubSeq(w, 2, 1 + U64), Base) = o.exp
        /\ SubSeq(w, 2 + U64, Len(w)) = v
    BY <1>1, TtlParts
  <2> HIDE DEF w
  <2>3. DecodeWithSeq(b) = w
    BY <1>1, <2>1, <2>2, SeqTakenOff
  <2>4. w # Tombstone /\ Len(w) >= 1 + U64
    BY <1>2, <1>3, <2>2 DEF TtlMarker
  <2> HIDE DEF b
  <2> QED BY <2>1, <2>2, <2>3, <2>4 DEF UnpackValue, UnpackInner, UnwrapTtl, b
<1>6. CASE m = "delete"
  <2>1. b = EncodeWithSeq(Tombstone, o.seq) /\ Meaning(o) = None
    BY <1>6 DEF StoredBytes, Meaning, IsDelete
  <2>2. DecodeWithSeq(b) = Tombstone
    BY <1>1, <1>3, <2>1, SeqTakenOff
  <2> QED BY <2>1, <2>2 DEF UnpackValue, UnpackInner
<1>7. CASE m = "batch put"
  <2>1. b = v /\ Meaning(o) = Some(v)
    BY <1>7 DEF StoredBytes, v, Meaning, IsDelete
  <2>2. v # Tombstone /\ Len(v) < U64
    BY <1>7 DEF Packs, v
  <2>3. DecodeWithSeq(b) = v /\ ~(Len(v) >= 1 + U64)
    BY <1>2, <2>1, <2>2 DEF DecodeWithSeq
  <2> QED BY <2>1, <2>2, <2>3 DEF UnpackValue, UnpackInner, UnwrapTtl
<1>8. CASE m = "batch delete"
  <2>1. b = Tombstone /\ Meaning(o) = None
    BY <1>8 DEF StoredBytes, Meaning, IsDelete
  <2>2. DecodeWithSeq(Tombstone) = Tombstone
    BY <1>2, <1>3 DEF DecodeWithSeq
  <2> QED BY <2>1, <2>2 DEF UnpackValue, UnpackInner
<1> QED BY <1>1, <1>4, <1>5, <1>6, <1>7, <1>8

(* So does the tombstone a replay makes of a delete.                        *)
LEMMA UnpackedTombstone ==
  UnpackValue(Tombstone, now) = None
<1>1. Len(Tombstone) = 1 /\ U64 \in Nat /\ U64 > 1
  BY Widths DEF Tombstone
<1>2. DecodeWithSeq(Tombstone) = Tombstone
  BY <1>1 DEF DecodeWithSeq
<1> QED BY <1>2 DEF UnpackValue, UnpackInner

----------------------------------------------------------------------------
(* What next_key makes of a prefix with a byte that can be counted up.      *)
LEMMA NextKeyAt ==
  ASSUME NEW p \in Seq(Byte), \E i \in DOMAIN p : p[i] < Base - 1
  PROVE  \E m \in 1 .. Len(p) :
           /\ NextKey(p) \in Seq(Nat) /\ Len(NextKey(p)) = Len(p)
           /\ NextKey(p)[m] = p[m] + 1
           /\ \A j \in 1 .. Len(p) : j # m => NextKey(p)[j] = p[j]
           /\ p[Len(p)] < Base - 1 => m = Len(p)
<1> DEFINE small == {i \in DOMAIN p : p[i] < Base - 1}
           m == Max(small)
           n == [p EXCEPT ![m] = @ + 1]
<1>1. Len(p) \in Nat /\ DOMAIN p = 1 .. Len(p) /\ small \subseteq 1 .. Len(p) /\ small # {}
  OBVIOUS
<1>2. m \in small /\ \A k \in small : m >= k
  <2> HIDE DEF small
  <2> QED BY <1>1, MaxUpTo
<1>3. NextKey(p) = n
  BY <1>1 DEF NextKey
<1>4. m \in 1 .. Len(p)
  BY <1>1, <1>2
<1>5. p[Len(p)] < Base - 1 => m = Len(p)
  <2>1. ASSUME p[Len(p)] < Base - 1 PROVE m = Len(p)
    <3>1. Len(p) \in small
      BY <1>1, <1>4, <2>1
    <3>2. m >= Len(p)
      BY <1>2, <3>1
    <3> DEFINE l == Len(p)
    <3>3. l \in Nat /\ m \in 1 .. l /\ m >= l
      BY <1>1, <1>4, <3>2
    <3> HIDE DEF m, l
    <3>4. m = l
      BY <3>3
    <3> QED BY <3>4 DEF l
  <2> QED BY <2>1
<1> HIDE DEF m
<1>6. p \in Seq(Nat) /\ \A i \in 1 .. Len(p) : p[i] \in Nat
  <2>1. p \in Seq(Nat)
    BY Widths, SeqMonotonic
  <2> QED BY <2>1
<1>7. n = [j \in 1 .. Len(p) |-> IF j = m THEN p[m] + 1 ELSE p[j]]
  BY <1>1, <1>4
<1>8. n \in Seq(Nat) /\ Len(n) = Len(p)
  <2>1. \A j \in 1 .. Len(p) : (IF j = m THEN p[m] + 1 ELSE p[j]) \in Nat
    BY <1>4, <1>6
  <2> DEFINE l == Len(p)
             q == [j \in 1 .. l |-> IF j = m THEN p[m] + 1 ELSE p[j]]
  <2>2. l \in Nat
    BY <1>1
  <2> HIDE DEF l, n
  <2>3. q \in Seq(Nat) /\ Len(q) = l
    BY <2>1, <2>2, IsASeq DEF l
  <2> QED BY <1>7, <2>3 DEF l
<1>9. n[m] = p[m] + 1 /\ \A j \in 1 .. Len(p) : j # m => n[j] = p[j]
  BY <1>4, <1>7
<1> HIDE DEF n
<1> QED BY <1>3, <1>4, <1>5, <1>8, <1>9

(* Every key with such a prefix is between the prefix and its next_key.     *)
LEMMA PrefixWithin ==
  ASSUME NEW p \in Seq(Byte), NEW k \in Seq(Byte), IsPrefix(p, k),
         \E i \in DOMAIN p : p[i] < Base - 1
  PROVE  ~Less(k, p) /\ Less(k, NextKey(p))
<1>1. p \in Seq(Nat) /\ k \in Seq(Nat)
  BY Widths, SeqMonotonic
<1>2. Len(p) <= Len(k) /\ \A i \in 1 .. Len(p) : k[i] = p[i]
  BY PrefixAgrees
<1>3. /\ Len(p) \in Nat /\ Len(k) \in Nat /\ \A i \in 1 .. Len(p) : p[i] \in Nat
  BY <1>1
<1>4. ~Less(k, p)
  <2>1. SUFFICES ASSUME Less(k, p) PROVE FALSE
    OBVIOUS
  <2>2. PICK i \in 1 .. Len(p) : i <= Len(k) => k[i] < p[i]
    BY <1>1, <2>1, LessAt
  <2> QED BY <1>2, <1>3, <2>2
<1>5. Less(k, NextKey(p))
  <2> DEFINE n == NextKey(p)
  <2>1. PICK m \in 1 .. Len(p) : /\ n \in Seq(Nat) /\ Len(n) = Len(p) /\ n[m] = p[m] + 1
                                 /\ \A j \in 1 .. Len(p) : j # m => n[j] = p[j]
    BY NextKeyAt
  <2> HIDE DEF n
  <2>2. m \in 1 .. Len(n) /\ m <= Len(k) + 1 /\ k[m] < n[m]
    BY <1>2, <1>3, <2>1
  <2>3. \A j \in 1 .. m - 1 : k[j] = n[j]
    <3>1. \A j \in 1 .. m - 1 : j \in 1 .. Len(p) /\ j # m
      BY <1>3
    <3> QED BY <1>2, <2>1, <3>1
  <2>4. Less(k, n)
    BY <1>1, <2>1, <2>2, <2>3, LessAt
  <2> QED BY <2>4 DEF n
<1> QED BY <1>4, <1>5

(* Every key between a prefix and its next_key has the prefix, when the     *)
(* last byte is the one that is counted up.                                 *)
LEMMA WithinPrefix ==
  ASSUME NEW p \in Seq(Byte), NEW k \in Seq(Byte), p # << >> => p[Len(p)] < Base - 1,
         ~Less(k, p), Less(k, NextKey(p))
  PROVE  IsPrefix(p, k)
<1>1. p \in Seq(Nat) /\ k \in Seq(Nat)
  BY Widths, SeqMonotonic
<1>2. /\ Len(p) \in Nat /\ Len(k) \in Nat /\ (\A i \in 1 .. Len(p) : p[i] \in Nat)
      /\ \A i \in 1 .. Len(k) : k[i] \in Nat
  BY <1>1
<1>3. CASE p = << >>
  <2>1. Len(p) = 0
    BY <1>3
  <2>2. Len(p) <= Len(k) /\ \A i \in 1 .. Len(p) : p[i] = k[i]
    BY <1>2, <2>1
  <2> QED BY <2>2, PrefixAgrees
<1>4. CASE p # << >>
  <2> DEFINE n == NextKey(p)
             l == Len(p)
  <2>1. l \in 1 .. l /\ p[l] < Base - 1 /\ \E i \in DOMAIN p : p[i] < Base - 1
    <3>1. l # 0
      BY <1>4, EmptySeq
    <3>2. l \in 1 .. l
      BY <1>2, <3>1
    <3> QED BY <1>4, <3>2
  <2>2. /\ n \in Seq(Nat) /\ Len(n) = l /\ n[l] = p[l] + 1
        /\ \A j \in 1 .. l : j # l => n[j] = p[j]
    BY <2>1, NextKeyAt
  <2> HIDE DEF n
  <2>3. PICK i \in 1 .. l : /\ i <= Len(k) + 1
                            /\ \A j \in 1 .. i - 1 : k[j] = n[j]
                            /\ i <= Len(k) => k[i] < n[i]
    <3>1. Less(k, n)
      BY DEF n
    <3> QED BY <1>1, <2>2, <3>1, LessAt
  <2>4. \A j \in 1 .. i - 1 : k[j] = p[j]
    <3>1. \A j \in 1 .. i - 1 : j \in 1 .. l /\ j # l
      BY <1>2
    <3> QED BY <2>2, <2>3, <3>1
  <2>5. ~(i <= Len(k) => k[i] < p[i])
    <3>1. ~(\E x \in 1 .. Len(p) : /\ x <= Len(k) + 1
                                   /\ \A j \in 1 .. x - 1 : k[j] = p[j]
                                   /\ x <= Len(k) => k[x] < p[x])
      BY <1>1, LessAt
    <3> QED BY <2>3, <2>4, <3>1
  <2>6. i = l /\ k[l] = p[l] /\ l <= Len(k)
    <3>1. i <= Len(k) /\ ~(k[i] < p[i]) /\ k[i] < n[i]
      BY <2>3, <2>5
    <3>2. i = l
      BY <2>2, <3>1
    <3>3. k[l] \in Nat /\ p[l] \in Nat
      BY <1>2, <3>1, <3>2
    <3> QED BY <2>2, <3>1, <3>2, <3>3
  <2>7. \A j \in 1 .. l : p[j] = k[j]
    <3>1. \A j \in 1 .. l : j \in 1 .. i - 1 \/ j = l
      BY <1>2, <2>6
    <3> QED BY <2>4, <2>6, <3>1
  <2> QED BY <2>6, <2>7, PrefixAgrees
<1> QED BY <1>3, <1>4

----------------------------------------------------------------------------
(* The words of a command line, and those that ask for an operation.        *)
Word == {PutWord, DeleteWord, BatchWord} \cup Seq(Byte)

WordsOf(o) == IF IsDelete(o) THEN << DeleteWord, o.key >> ELSE << PutWord, o.key, o.val >>

(* An operation of a batch.                                                 *)
LEMMA BatchOpTyped ==
  ASSUME NEW o \in BatchOp
  PROVE  /\ WordsOf(o) \in Seq(Word)
         /\ IsDelete(o) => o = BatchDelete(o.key) /\ Len(WordsOf(o)) = 2
                           /\ WordsOf(o)[1] = DeleteWord /\ WordsOf(o)[2] = o.key
         /\ ~IsDelete(o) => o = BatchPut(o.key, o.val) /\ Len(WordsOf(o)) = 3
                            /\ WordsOf(o)[1] = PutWord /\ WordsOf(o)[2] = o.key
                            /\ WordsOf(o)[3] = o.val
<1>1. Keys \subseteq Seq(Byte)
  BY ClientAssumption
<1>2. CASE o \in [method : {"batch put"}, key : Keys, val : Seq(Byte), exp : {0}, seq : {0}]
  <2>1. ~IsDelete(o) /\ o.key \in Word /\ o.val \in Word /\ PutWord \in Word
    BY <1>1, <1>2 DEF IsDelete, Word
  <2>2. o = [method |-> "batch put", key |-> o.key, val |-> o.val, exp |-> 0, seq |-> 0]
    BY <1>2
  <2>3. WordsOf(o) = << PutWord, o.key, o.val >>
    BY <2>1 DEF WordsOf
  <2>4. WordsOf(o) \in Seq(Word)
    BY <2>1, <2>3
  <2>5. o = BatchPut(o.key, o.val)
    BY <2>2 DEF BatchPut, Op
  <2>6. /\ Len(WordsOf(o)) = 3 /\ WordsOf(o)[1] = PutWord /\ WordsOf(o)[2] = o.key
        /\ WordsOf(o)[3] = o.val
    BY <2>3
  <2> QED BY <2>1, <2>4, <2>5, <2>6, Zenon
<1>3. CASE o \in [method : {"batch delete"}, key : Keys, val : {<< >>}, exp : {0}, seq : {0}]
  <2>1. IsDelete(o) /\ o.key \in Word /\ DeleteWord \in Word
    BY <1>1, <1>3 DEF IsDelete, Word
  <2>2. o = [method |-> "batch delete", key |-> o.key, val |-> << >>, exp |-> 0, seq |-> 0]
    BY <1>3
  <2>3. WordsOf(o) = << DeleteWord, o.key >>
    BY <2>1 DEF WordsOf
  <2>4. WordsOf(o) \in Seq(Word)
    BY <2>1, <2>3
  <2>5. o = BatchDelete(o.key)
    BY <2>2 DEF BatchDelete, Op
  <2>6. Len(WordsOf(o)) = 2 /\ WordsOf(o)[1] = DeleteWord /\ WordsOf(o)[2] = o.key
    BY <2>3
  <2> QED BY <2>1, <2>4, <2>5, <2>6, Zenon
<1> QED BY <1>2, <1>3 DEF BatchOp

(* The command line of a batch, from each operation to the next.            *)
LEMMA SpelledSteps ==
  ASSUME NEW ops \in Seq(BatchOp)
  PROVE  /\ Spelled(ops) \in [0 .. Len(ops) -> Seq(Word)]
         /\ Spelled(ops)[0] = << BatchWord >>
         /\ \A i \in 1 .. Len(ops) : Spelled(ops)[i] = Spelled(ops)[i - 1] \o WordsOf(ops[i])
<1> DEFINE N == Len(ops)
           StepOf(x, i) == x \o WordsOf(ops[i])
           g == [i \in 1 .. N |-> [x \in Seq(Word) |-> StepOf(x, i)]]
           words == Spelled(ops)
           zero == << BatchWord >>
<1>1. N \in Nat /\ zero \in Seq(Word)
  BY DEF Word
<1>2. ASSUME NEW i \in 1 .. N, NEW x \in Seq(Word) PROVE StepOf(x, i) \in Seq(Word)
  <2>1. ops[i] \in BatchOp
    OBVIOUS
  <2>2. WordsOf(ops[i]) \in Seq(Word)
    BY <2>1, BatchOpTyped
  <2> QED BY <2>2, Joined
<1>3. g \in [1 .. N -> [Seq(Word) -> Seq(Word)]]
  <2> HIDE DEF StepOf, N
  <2> QED BY <1>2
<1>4. PICK f \in [0 .. N -> Seq(Word)] : Recurs(f, N, zero, g)
  <2> HIDE DEF g, N, zero
  <2> QED BY <1>1, <1>3, RecursExists
<1>5. f = [i \in 0 .. N |-> IF i = 0 THEN zero ELSE StepOf(f[i - 1], i)]
  <2>1. ASSUME NEW i \in 0 .. N
        PROVE  (IF i = 0 THEN zero ELSE g[i][f[i - 1]])
                  = IF i = 0 THEN zero ELSE StepOf(f[i - 1], i)
    <3> HIDE DEF StepOf, N, zero
    <3> QED BY <1>1, <1>4
  <2> HIDE DEF StepOf, N, g, zero
  <2> QED BY <1>4, <2>1 DEF Recurs
<1>6. words = CHOOSE s : s = [i \in 0 .. N |-> IF i = 0 THEN zero ELSE StepOf(s[i - 1], i)]
  BY DEF Spelled, WordsOf
<1>7. words = [i \in 0 .. N |-> IF i = 0 THEN zero ELSE StepOf(words[i - 1], i)]
  <2> HIDE DEF StepOf, N, words, zero
  <2> QED BY <1>5, <1>6
<1>8. words[0] = zero /\ \A i \in 1 .. N : words[i] = StepOf(words[i - 1], i)
  <2> HIDE DEF StepOf, N, words, zero
  <2> QED BY <1>1, <1>7
<1> DEFINE T == {i \in 0 .. N : words[i] \in Seq(Word)}
<1>9. 0 \in T /\ \A i \in 1 .. N : i - 1 \in T => i \in T
  <2> HIDE DEF StepOf, N, words, zero
  <2>1. ASSUME NEW i \in 1 .. N, words[i - 1] \in Seq(Word) PROVE words[i] \in Seq(Word)
    BY <1>2, <1>8, <2>1
  <2>2. 0 \in T
    BY <1>1, <1>8
  <2>3. \A i \in 1 .. N : i - 1 \in T => i \in T
    BY <1>1, <2>1
  <2> QED BY <2>2, <2>3
<1>10. 0 .. N \subseteq T
  <2> HIDE DEF T, N
  <2> QED BY <1>1, <1>9, UpTo
<1>11. words \in [0 .. N -> Seq(Word)]
  <2> HIDE DEF StepOf, N, words
  <2> QED BY <1>7, <1>10
<1> QED BY <1>8, <1>11

(* Where the words of an operation are on the command line.                 *)
WordsAt(ops, i, x, y) ==
    /\ x \in Seq(Word) /\ y \in Seq(Word) /\ Len(y) <= Len(Spell(ops))
    /\ Len(y) = Len(x) + Len(WordsOf(ops[i]))
    /\ \A j \in 1 .. Len(WordsOf(ops[i])) : Spell(ops)[Len(x) + j] = WordsOf(ops[i])[j]

(* They are there.                                                          *)
LEMMA SpelledAt ==
  ASSUME NEW ops \in Seq(BatchOp), NEW i \in 1 .. Len(ops)
  PROVE  WordsAt(ops, i, Spelled(ops)[i - 1], Spelled(ops)[i])
<1> DEFINE x == Spelled(ops)[i - 1]
           y == Spelled(ops)[i]
<1> DEFINE F == Spelled(ops)
           n == Len(ops)
           E == [k \in 1 .. n |-> WordsOf(ops[k])]
           w == WordsOf(ops[i])
           args == F[n]
<1>1. n \in Nat /\ i \in 0 .. n /\ i - 1 \in 0 .. n /\ n \in 0 .. n /\ i <= n
  OBVIOUS
<1>2. E \in [1 .. n -> Seq(Word)]
  <2>1. \A k \in 1 .. n : ops[k] \in BatchOp
    OBVIOUS
  <2> HIDE DEF n
  <2> QED BY <2>1, BatchOpTyped
<1>3. F \in [0 .. n -> Seq(Word)] /\ \A k \in 1 .. n : F[k] = F[k - 1] \o E[k]
  BY SpelledSteps
<1>4. w = E[i] /\ i \in 1 .. n
  OBVIOUS
<1> HIDE DEF F, E, n, w, x, y
<1>5. x \in Seq(Word) /\ y \in Seq(Word) /\ args \in Seq(Word) /\ w \in Seq(Word) /\ y = x \o w
  BY <1>1, <1>2, <1>3, <1>4 DEF F, x, y
<1>6. Len(y) = Len(x) + Len(w) /\ Len(x) \in Nat /\ Len(w) \in Nat /\ Len(args) \in Nat
  BY <1>5, Joined, LenProperties
<1>7. Len(F[i]) <= Len(F[n]) /\ SubSeq(F[n], 1, Len(F[i])) = F[i]
  BY <1>1, <1>2, <1>3, Growing
<1>8. Len(y) <= Len(args) /\ SubSeq(args, 1, Len(y)) = y
  BY <1>7 DEF F, y
<1> HIDE DEF args
<1>9. \A k \in 1 .. Len(y) : y[k] = args[k]
  <2>1. Len(y) \in Nat
    BY <1>5, LenProperties
  <2> QED BY <1>5, <1>8, <2>1, FrontPart
<1>10. \A j \in 1 .. Len(w) : w[0 + j] = y[Len(x) + j]
  BY <1>5, AfterFront
<1>11. ASSUME NEW j \in 1 .. Len(w) PROVE args[Len(x) + j] = w[j]
  <2>1. Len(x) + j \in 1 .. Len(y) /\ 0 + j = j
    BY <1>6
  <2> QED BY <1>9, <1>10, <2>1
<1>12. Spell(ops) = args
  BY DEF args, F, n, Spell
<1> QED BY <1>5, <1>6, <1>8, <1>11, <1>12 DEF w, WordsAt, x, y

(* A command line that asks for a batch starts with the word for it.        *)
LEMMA SpellStarts ==
  ASSUME NEW ops \in Seq(BatchOp)
  PROVE  Spell(ops) \in Seq(Word) /\ Len(Spell(ops)) >= 1 /\ Spell(ops)[1] = BatchWord
<1> DEFINE F == Spelled(ops)
           n == Len(ops)
           E == [k \in 1 .. n |-> WordsOf(ops[k])]
<1>1. n \in Nat /\ 0 \in 0 .. n /\ n \in 0 .. n
  OBVIOUS
<1>2. E \in [1 .. n -> Seq(Word)]
  <2>1. \A k \in 1 .. n : ops[k] \in BatchOp
    OBVIOUS
  <2> HIDE DEF n
  <2> QED BY <2>1, BatchOpTyped
<1>3. F \in [0 .. n -> Seq(Word)] /\ (\A k \in 1 .. n : F[k] = F[k - 1] \o E[k])
      /\ F[0] = << BatchWord >>
  BY SpelledSteps
<1> HIDE DEF F, E, n
<1>4. Len(F[0]) <= Len(F[n]) /\ SubSeq(F[n], 1, Len(F[0])) = F[0] /\ F[n] \in Seq(Word)
  <2>1. F[n] \in Seq(Word) /\ 0 <= n
    BY <1>1, <1>3
  <2>2. \A i \in 0 .. n :
           0 <= i => Len(F[0]) <= Len(F[i]) /\ SubSeq(F[i], 1, Len(F[0])) = F[0]
    BY <1>1, <1>2, <1>3, Growing
  <2> QED BY <1>1, <2>1, <2>2
<1>5. Len(F[0]) = 1 /\ F[0][1] = BatchWord
  BY <1>3
<1>6. SubSeq(F[n], 1, 1)[1] = F[n][1] /\ Len(F[n]) >= 1
  <2>1. 1 \in Nat /\ 1 <= Len(F[n]) /\ 1 \in 1 .. 1
    BY <1>4, <1>5
  <2> DEFINE z == F[n]
  <2>2. z \in Seq(Word) /\ Len(z) \in Nat /\ 1 <= Len(z)
    BY <1>4, <2>1, LenProperties
  <2> HIDE DEF z
  <2>3. SubSeq(z, 1, 1)[1] = z[1] /\ Len(z) >= 1
    BY <2>1, <2>2, FrontPart
  <2> QED BY <2>3 DEF z
<1> QED BY <1>4, <1>5, <1>6 DEF Spell, F, n

(* One round of the loop over the words of a batch.                         *)
BatchTurn(args, s) ==
    IF ~s.ok \/ s.i + 2 > Len(args) THEN s
    ELSE IF args[s.i] = PutWord
         THEN [ok |-> TRUE, i |-> s.i + 3,
               ops |-> Append(s.ops, BatchPut(args[s.i + 1], args[s.i + 2]))]
    ELSE IF args[s.i] = DeleteWord
         THEN [ok |-> TRUE, i |-> s.i + 2,
               ops |-> Append(s.ops, BatchDelete(args[s.i + 1]))]
    ELSE [s EXCEPT !.ok = FALSE]

(* The loop, from each round to the next.                                   *)
LEMMA BatchSteps ==
  ASSUME NEW args \in Seq(Word)
  PROVE  /\ BatchRounds(args)[0] = [ok |-> TRUE, ops |-> << >>, i |-> 2]
         /\ \A n \in 1 .. Len(args) :
               BatchRounds(args)[n] = BatchTurn(args, BatchRounds(args)[n - 1])
<1> DEFINE N == Len(args)
           X == {BatchPut(args[x], args[y]) : x \in Nat, y \in Nat}
                \cup {BatchDelete(args[x]) : x \in Nat}
           S == [ok : BOOLEAN, ops : Seq(X), i : Nat]
           zero == [ok |-> TRUE, ops |-> << >>, i |-> 2]
           g == [n \in 1 .. N |-> [s \in S |-> BatchTurn(args, s)]]
           at == BatchRounds(args)
<1>1. N \in Nat /\ zero \in S
  <2>1. N \in Nat /\ << >> \in Seq(X) /\ 2 \in Nat
    <3> HIDE DEF X
    <3> QED BY EmptySeq
  <2> HIDE DEF X
  <2> QED BY <2>1
<1>2. ASSUME NEW s \in S PROVE BatchTurn(args, s) \in S
  <2>1. s.ok \in BOOLEAN /\ s.ops \in Seq(X) /\ s.i \in Nat
    <3> HIDE DEF X
    <3> QED OBVIOUS
  <2>2. BatchPut(args[s.i + 1], args[s.i + 2]) \in X /\ BatchDelete(args[s.i + 1]) \in X
    <3>1. s.i + 1 \in Nat /\ s.i + 2 \in Nat
      BY <2>1
    <3> QED BY <3>1
  <2> HIDE DEF X
  <2> DEFINE p == Append(s.ops, BatchPut(args[s.i + 1], args[s.i + 2]))
             d == Append(s.ops, BatchDelete(args[s.i + 1]))
  <2>3. p \in Seq(X) /\ d \in Seq(X)
    BY <2>1, <2>2, AppendProperties
  <2>4. BatchTurn(args, s) \in {s, [ok |-> TRUE, i |-> s.i + 3, ops |-> p],
                                [ok |-> TRUE, i |-> s.i + 2, ops |-> d], [s EXCEPT !.ok = FALSE]}
    BY DEF BatchTurn
  <2> HIDE DEF p, d
  <2>5. /\ [ok |-> TRUE, i |-> s.i + 3, ops |-> p] \in S
        /\ [ok |-> TRUE, i |-> s.i + 2, ops |-> d] \in S
        /\ [s EXCEPT !.ok = FALSE] \in S
    <3>1. [ok |-> TRUE, i |-> s.i + 3, ops |-> p] \in S
      BY <2>1, <2>3
    <3>2. [ok |-> TRUE, i |-> s.i + 2, ops |-> d] \in S
      BY <2>1, <2>3
    <3>3. [s EXCEPT !.ok = FALSE] \in S
      OBVIOUS
    <3> QED BY <3>1, <3>2, <3>3
  <2> QED BY <2>4, <2>5
<1>3. g \in [1 .. N -> [S -> S]]
  <2> HIDE DEF S, N
  <2> QED BY <1>2
<1>4. PICK l \in [0 .. N -> S] : Recurs(l, N, zero, g)
  <2> HIDE DEF g, N, S, zero
  <2> QED BY <1>1, <1>3, RecursExists
<1>5. l = [n \in 0 .. N |-> IF n = 0 THEN zero ELSE BatchTurn(args, l[n - 1])]
  <2>1. ASSUME NEW n \in 0 .. N
        PROVE  (IF n = 0 THEN zero ELSE g[n][l[n - 1]])
                  = IF n = 0 THEN zero ELSE BatchTurn(args, l[n - 1])
    <3> HIDE DEF S, N, zero
    <3> QED BY <1>1, <1>4
  <2> HIDE DEF N, g, zero, S, X
  <2> QED BY <1>4, <2>1 DEF Recurs
<1>6. at = CHOOSE s : s = [n \in 0 .. N |-> IF n = 0 THEN zero ELSE BatchTurn(args, s[n - 1])]
  BY DEF BatchRounds, BatchTurn
<1>7. at = [n \in 0 .. N |-> IF n = 0 THEN zero ELSE BatchTurn(args, at[n - 1])]
  <2> HIDE DEF N, at, zero, S, X
  <2> QED BY <1>5, <1>6
<1>8. at[0] = zero /\ \A n \in 1 .. N : at[n] = BatchTurn(args, at[n - 1])
  <2> HIDE DEF N, at, zero
  <2> QED BY <1>1, <1>7
<1> QED BY <1>8

(* What the loop makes of the command line of a batch: it misses a delete   *)
(* at the end.                                                              *)
Taken(ops) == IF ops # << >> /\ IsDelete(ops[Len(ops)]) THEN Len(ops) - 1 ELSE Len(ops)

(* The parser takes these operations, in order.                             *)
LEMMA ParsedSpell ==
  ASSUME NEW ops \in Seq(BatchOp)
  PROVE  Taken(ops) \in 0 .. Len(ops) /\ ParseBatch(Spell(ops)).ops = SubSeq(ops, 1, Taken(ops))
<1> DEFINE F == Spelled(ops)
           n == Len(ops)
           args == Spell(ops)
           N == Len(args)
           k == Taken(ops)
           at == BatchRounds(args)
           Here(i) == [ok |-> TRUE, ops |-> SubSeq(ops, 1, i), i |-> Len(F[i]) + 1]
<1>1. n \in Nat /\ k \in 0 .. n /\ (k # n => n >= 1 /\ k = n - 1 /\ IsDelete(ops[n]))
      /\ \A i \in 1 .. k : i = n => ~IsDelete(ops[i])
  <2>1. n \in Nat /\ (ops # << >> => n >= 1)
    BY EmptySeq
  <2> HIDE DEF n
  <2> QED BY <2>1 DEF Taken, n
<1>2. args \in Seq(Word) /\ N \in Nat /\ N >= 1 /\ args = F[n]
  BY SpellStarts, LenProperties DEF Spell
<1>3. at[0] = [ok |-> TRUE, ops |-> << >>, i |-> 2]
      /\ \A i \in 1 .. N : at[i] = BatchTurn(args, at[i - 1])
  BY <1>2, BatchSteps
<1>4. ASSUME NEW i \in 1 .. n
      PROVE  /\ Len(F[i - 1]) \in Nat /\ Len(F[i]) \in Nat /\ Len(F[i]) <= N
             /\ Len(F[i]) = Len(F[i - 1]) + Len(WordsOf(ops[i]))
             /\ \A j \in 1 .. Len(WordsOf(ops[i])) : args[Len(F[i - 1]) + j] = WordsOf(ops[i])[j]
             /\ ops[i] \in BatchOp
             /\ IF IsDelete(ops[i]) THEN Len(WordsOf(ops[i])) = 2 ELSE Len(WordsOf(ops[i])) = 3
  <2>1. ops[i] \in BatchOp
    OBVIOUS
  <2>2. IF IsDelete(ops[i]) THEN Len(WordsOf(ops[i])) = 2 ELSE Len(WordsOf(ops[i])) = 3
    BY <2>1, BatchOpTyped
  <2>3. /\ F[i - 1] \in Seq(Word) /\ F[i] \in Seq(Word) /\ Len(F[i]) <= N
        /\ Len(F[i]) = Len(F[i - 1]) + Len(WordsOf(ops[i]))
        /\ \A j \in 1 .. Len(WordsOf(ops[i])) : args[Len(F[i - 1]) + j] = WordsOf(ops[i])[j]
    <3>1. WordsAt(ops, i, F[i - 1], F[i])
      BY SpelledAt
    <3> HIDE DEF F
    <3> QED BY <3>1 DEF WordsAt
  <2> HIDE DEF F, args, N
  <2> QED BY <2>1, <2>2, <2>3, LenProperties
<1>5. Len(F[0]) = 1
  <2>1. F[0] = << BatchWord >>
    BY SpelledSteps
  <2> HIDE DEF F
  <2> QED BY <2>1
<1>6. n + 1 <= N
  <2> DEFINE T == {i \in 0 .. n : i + 1 <= Len(F[i])}
  <2> HIDE DEF F, N
  <2>1. 0 \in T
    <3>1. 0 \in 0 .. n
      BY <1>1
    <3>2. 0 + 1 <= Len(F[0])
      BY <1>5
    <3> QED BY <3>1, <3>2
  <2>2. ASSUME NEW i \in 1 .. n, i - 1 \in T PROVE i \in T
    <3> DEFINE w == Len(WordsOf(ops[i]))
               x == Len(F[i - 1])
               y == Len(F[i])
    <3>1. x \in Nat /\ y \in Nat /\ y = x + w /\ (w = 2 \/ w = 3) /\ (i - 1) + 1 <= x
      BY <1>4, <2>2
    <3> HIDE DEF w, x, y, n
    <3>2. i + 1 <= y
      BY <1>1, <3>1
    <3> QED BY <3>2 DEF y
  <2>3. 0 .. n \subseteq T
    <3> HIDE DEF T, n
    <3> QED BY <1>1, <2>1, <2>2, UpTo
  <2> HIDE DEF n
  <2>4. n + 1 <= Len(F[n])
    BY <1>1, <2>3
  <2> QED BY <1>2, <2>4 DEF N
<1>7. ASSUME NEW i \in 1 .. k, at[i - 1] = Here(i - 1) PROVE at[i] = Here(i)
  <2> DEFINE o == ops[i]
             w == WordsOf(o)
             x == Len(F[i - 1])
             y == Len(F[i])
             s == Here(i - 1)
  <2>1. /\ x \in Nat /\ y \in Nat /\ y <= N /\ y = x + Len(w) /\ o \in BatchOp
        /\ \A j \in 1 .. Len(w) : args[x + j] = w[j]
    <3>1. i \in 1 .. n
      <4> HIDE DEF n, k
      <4> QED BY <1>1
    <3> HIDE DEF F, args, N, n, k
    <3> QED BY <1>4, <3>1
  <2>2. /\ IsDelete(o) => o = BatchDelete(o.key) /\ Len(w) = 2 /\ w[1] = DeleteWord /\ w[2] = o.key
        /\ ~IsDelete(o) => o = BatchPut(o.key, o.val) /\ Len(w) = 3
                           /\ w[1] = PutWord /\ w[2] = o.key /\ w[3] = o.val
    BY <2>1, BatchOpTyped
  <2>3. s.ok = TRUE /\ s.ops = SubSeq(ops, 1, i - 1) /\ s.i = x + 1
    OBVIOUS
  <2>4. Append(SubSeq(ops, 1, i - 1), o) = SubSeq(ops, 1, i)
    <3>1. i \in 1 .. Len(ops)
      <4> HIDE DEF k
      <4> QED BY <1>1
    <3> QED BY <3>1, LongerPrefix
  <2>5. at[i] = BatchTurn(args, s)
    <3>1. i \in 1 .. N
      <4> HIDE DEF n, N, k
      <4> QED BY <1>1, <1>2, <1>6
    <3> HIDE DEF s, at, N, args
    <3> QED BY <1>3, <1>7, <3>1 DEF s
  <2> HIDE DEF s
  <2>6. CASE ~IsDelete(o)
    <3> HIDE DEF o, w, x, y, args, N
    <3> DEFINE lw == Len(w)
               at1 == s.i
    <3>0. /\ o = BatchPut(o.key, o.val) /\ lw = 3
          /\ w[1] = PutWord /\ w[2] = o.key /\ w[3] = o.val
      BY <2>2, <2>6, Zenon
    <3>1. /\ ~(s.i + 2 > N) /\ s.i = x + 1 /\ s.i + 1 = x + 2 /\ s.i + 2 = x + 3
          /\ s.i + 3 = y + 1
      <4>1. N \in Nat /\ x \in Nat /\ y \in Nat /\ y <= N /\ y = x + lw /\ at1 = x + 1
        BY <1>2, <2>1, <2>3
      <4> HIDE DEF lw, at1
      <4>2. /\ ~(at1 + 2 > N) /\ at1 = x + 1 /\ at1 + 1 = x + 2 /\ at1 + 2 = x + 3
            /\ at1 + 3 = y + 1
        BY <3>0, <4>1
      <4> QED BY <4>2 DEF at1
    <3>2. args[x + 1] = PutWord /\ args[x + 2] = o.key /\ args[x + 3] = o.val
      <4>1. 1 \in 1 .. lw /\ 2 \in 1 .. lw /\ 3 \in 1 .. lw
        <5> HIDE DEF lw
        <5> QED BY <3>0
      <4> QED BY <2>1, <3>0, <4>1
    <3> HIDE DEF lw, at1
    <3>3. BatchTurn(args, s) = [ok |-> TRUE, i |-> y + 1, ops |-> Append(s.ops, o)]
      BY <2>2, <2>3, <2>6, <3>1, <3>2 DEF BatchTurn, N
    <3>4. BatchTurn(args, s) = [ok |-> TRUE, ops |-> SubSeq(ops, 1, i), i |-> y + 1]
      BY <2>3, <2>4, <3>3
    <3> QED BY <2>5, <3>4 DEF y
  <2>7. CASE IsDelete(o)
    <3>1. i # n /\ i + 1 \in 1 .. n
      <4> HIDE DEF n, k
      <4> QED BY <1>1, <2>7
    <3>2. y + 1 <= N
      <4> DEFINE v == Len(WordsOf(ops[i + 1]))
                 z == Len(F[i + 1])
      <4>1. z \in Nat /\ z <= N /\ z = y + v /\ (v = 2 \/ v = 3)
        <5>1. (i + 1) - 1 = i
          OBVIOUS
        <5> HIDE DEF n, F, N, args
        <5> QED BY <1>4, <3>1, <5>1
      <4>2. y \in Nat /\ N \in Nat
        BY <1>2, <2>1
      <4> HIDE DEF v, z, y, N
      <4> QED BY <4>1, <4>2
    <3> HIDE DEF o, w, x, y, args, N
    <3> DEFINE lw == Len(w)
               at1 == s.i
    <3>0. o = BatchDelete(o.key) /\ lw = 2 /\ w[1] = DeleteWord /\ w[2] = o.key
      BY <2>2, <2>7, Zenon
    <3>3. /\ ~(s.i + 2 > N) /\ s.i = x + 1 /\ s.i + 1 = x + 2 /\ s.i + 2 = y + 1
      <4>1. N \in Nat /\ x \in Nat /\ y \in Nat /\ y + 1 <= N /\ y = x + lw /\ at1 = x + 1
        BY <1>2, <2>1, <2>3, <3>2
      <4> HIDE DEF lw, at1
      <4>2. /\ ~(at1 + 2 > N) /\ at1 = x + 1 /\ at1 + 1 = x + 2 /\ at1 + 2 = y + 1
        BY <3>0, <4>1
      <4> QED BY <4>2 DEF at1
    <3>4. args[x + 1] = DeleteWord /\ args[x + 2] = o.key
      <4>1. 1 \in 1 .. lw /\ 2 \in 1 .. lw
        <5> HIDE DEF lw
        <5> QED BY <3>0
      <4> QED BY <2>1, <3>0, <4>1
    <3> HIDE DEF lw, at1
    <3>5. BatchTurn(args, s) = [ok |-> TRUE, i |-> y + 1, ops |-> Append(s.ops, o)]
      BY <2>2, <2>3, <2>7, <3>3, <3>4, ClientAssumption DEF BatchTurn, N
    <3>6. BatchTurn(args, s) = [ok |-> TRUE, ops |-> SubSeq(ops, 1, i), i |-> y + 1]
      BY <2>3, <2>4, <3>5
    <3> QED BY <2>5, <3>6 DEF y
  <2> QED BY <2>6, <2>7
<1>8. at[0] = Here(0)
  <2>1. SubSeq(ops, 1, 0) = << >>
    OBVIOUS
  <2>2. Len(F[0]) + 1 = 2
    BY <1>5
  <2> HIDE DEF at, F
  <2> QED BY <1>3, <2>1, <2>2
<1>9. k \in Nat
  <2> HIDE DEF k, n
  <2> QED BY <1>1
<1>10. at[k] = Here(k)
  <2> DEFINE T == {i \in 0 .. k : at[i] = Here(i)}
  <2> HIDE DEF at, Here, k
  <2>1. 0 \in T /\ \A i \in 1 .. k : i - 1 \in T => i \in T
    BY <1>7, <1>8, <1>9
  <2>2. 0 .. k \subseteq T
    <3> HIDE DEF T
    <3> QED BY <1>9, <2>1, UpTo
  <2> QED BY <1>9, <2>2
<1>11. Len(F[k]) \in Nat /\ Len(F[k]) + 3 > N
  <2>1. CASE k = n
    <3> HIDE DEF k, n, F
    <3> QED BY <1>2, <2>1
  <2>2. CASE k # n
    <3>1. n >= 1 /\ k = n - 1 /\ IsDelete(ops[n]) /\ n \in 1 .. n
      <4> HIDE DEF k, n
      <4> QED BY <1>1, <2>2
    <3>2. Len(F[n - 1]) \in Nat /\ Len(F[n]) = Len(F[n - 1]) + 2
      <4> HIDE DEF k, n, F, N, args
      <4> QED BY <1>4, <3>1
    <3> HIDE DEF k, n, F, args
    <3> QED BY <1>2, <3>1, <3>2
  <2> QED BY <2>1, <2>2
<1>12. BatchTurn(args, Here(k)) = Here(k)
  <2>1. Here(k).i = Len(F[k]) + 1
    OBVIOUS
  <2> HIDE DEF Here, F, k
  <2>2. Here(k).i + 2 > Len(args)
    <3> HIDE DEF args
    <3> QED BY <1>2, <1>11, <2>1
  <2> HIDE DEF args
  <2> QED BY <2>2 DEF BatchTurn
<1> DEFINE U == {i \in 0 .. N : k <= i => at[i] = Here(k)}
<1>13. N \in U
  <2> HIDE DEF at, Here, k, N, args
  <2>1. 0 \in U
    <3>1. k = 0 \/ ~(k <= 0)
      BY <1>9
    <3> QED BY <1>2, <1>10, <3>1
  <2>2. ASSUME NEW i \in 1 .. N, i - 1 \in U PROVE i \in U
    <3>1. CASE k <= i - 1
      <4>1. at[i - 1] = Here(k) /\ at[i] = BatchTurn(args, at[i - 1])
        BY <1>3, <2>2, <3>1
      <4> QED BY <1>12, <4>1
    <3>2. CASE k = i
      BY <1>10, <3>2
    <3>3. CASE k > i
      BY <1>9, <3>3
    <3> HIDE DEF U
    <3> QED BY <1>9, <3>1, <3>2, <3>3
  <2>3. 0 .. N \subseteq U
    <3> HIDE DEF U
    <3> QED BY <1>2, <2>1, <2>2, UpTo
  <2> QED BY <1>2, <2>3
<1>14. at[N] = Here(k)
  <2>1. k <= N
    <3> HIDE DEF k, n, N
    <3> QED BY <1>1, <1>2, <1>6
  <2> HIDE DEF at, Here, k, N
  <2> QED BY <1>13, <2>1
<1>15. ParseBatch(args).ops = SubSeq(ops, 1, k)
  <2>1. Here(k).ops = SubSeq(ops, 1, k)
    OBVIOUS
  <2>2. ParseBatch(args) = Here(k)
    <3> HIDE DEF Here, k, args
    <3> QED BY <1>14 DEF ParseBatch
  <2> QED BY <2>1, <2>2
<1> QED BY <1>1, <1>15

----------------------------------------------------------------------------
(* The last place of a key.                                                 *)
LEMMA LastTyped ==
  ASSUME NEW S, NEW items \in Seq(S), NEW k, On(items, k)
  PROVE  /\ LastOf(items, k) \in 1 .. Len(items) /\ items[LastOf(items, k)].key = k
         /\ \A j \in 1 .. Len(items) : items[j].key = k => LastOf(items, k) >= j
<1> DEFINE T == {i \in DOMAIN items : items[i].key = k}
<1>1. Len(items) \in Nat /\ DOMAIN items = 1 .. Len(items)
  OBVIOUS
<1>2. T \subseteq 1 .. Len(items) /\ T # {}
  BY <1>1 DEF On
<1>3. Max(T) \in T /\ \A j \in T : Max(T) >= j
  <2> HIDE DEF T
  <2> QED BY <1>1, <1>2, MaxUpTo
<1>4. LastOf(items, k) = Max(T)
  BY DEF LastOf
<1> HIDE DEF LastOf
<1>5. /\ LastOf(items, k) \in T /\ \A j \in T : LastOf(items, k) >= j
  <2> HIDE DEF T
  <2> QED BY <1>3, <1>4
<1> QED BY <1>1, <1>5

(* It is where the key is for the last time.                                *)
LEMMA LastIs ==
  ASSUME NEW S, NEW items \in Seq(S), NEW k, NEW i \in 1 .. Len(items), items[i].key = k,
         \A j \in 1 .. Len(items) : items[j].key = k => i >= j
  PROVE  On(items, k) /\ LastOf(items, k) = i
<1>1. On(items, k)
  <2>1. i \in DOMAIN items
    OBVIOUS
  <2> QED BY <2>1 DEF On
<1>2. LastOf(items, k) \in 1 .. Len(items) /\ LastOf(items, k) >= i /\ i >= LastOf(items, k)
  BY <1>1, LastTyped
<1>3. LastOf(items, k) = i
  <2> DEFINE l == LastOf(items, k)
             n == Len(items)
  <2>1. n \in Nat /\ l \in 1 .. n /\ l >= i /\ i >= l /\ i \in 1 .. n
    BY <1>2
  <2> HIDE DEF l, n
  <2>2. l = i
    BY <2>1
  <2> QED BY <2>2 DEF l
<1> QED BY <1>1, <1>3

(* The last place of a key in two sequences of operations.                  *)
LEMMA LastJoined ==
  ASSUME NEW a \in Seq(Operation), NEW b \in Seq(Operation), NEW k
  PROVE  /\ On(a \o b, k) <=> On(a, k) \/ On(b, k)
         /\ On(b, k) => (a \o b)[LastOf(a \o b, k)] = b[LastOf(b, k)]
         /\ On(a, k) /\ ~On(b, k) => (a \o b)[LastOf(a \o b, k)] = a[LastOf(a, k)]
<1> DEFINE w == a \o b
           la == Len(a)
           lb == Len(b)
<1>1. w \in Seq(Operation) /\ Len(w) = la + lb /\ la \in Nat /\ lb \in Nat
      /\ DOMAIN w = 1 .. la + lb /\ DOMAIN a = 1 .. la /\ DOMAIN b = 1 .. lb
  <2>1. w \in Seq(Operation) /\ Len(w) = la + lb
    BY Joined
  <2> HIDE DEF w
  <2> QED BY <2>1
<1>2. \A i \in 1 .. la : w[i] = a[i]
  <2>1. \A i \in 1 .. la : i \in 1 .. Len(a) + Len(b) /\ i <= Len(a)
    BY <1>1
  <2> QED BY <2>1, ConcatProperties
<1>3. \A i \in 1 .. lb : w[la + i] = b[i]
  <2>1. \A i \in 1 .. lb : b[0 + i] = w[la + i]
    BY AfterFront
  <2>2. \A i \in 1 .. lb : 0 + i = i
    OBVIOUS
  <2> QED BY <2>1, <2>2
<1> HIDE DEF w, la, lb
<1>4. \A j \in 1 .. Len(w) : j \in 1 .. la \/ \E i \in 1 .. lb : j = la + i
  <2>1. ASSUME NEW j \in 1 .. Len(w), ~(j \in 1 .. la) PROVE \E i \in 1 .. lb : j = la + i
    <3>1. j - la \in 1 .. lb /\ j = la + (j - la)
      BY <1>1, <2>1
    <3> QED BY <3>1
  <2> QED BY <2>1
<1>5. On(w, k) => On(a, k) \/ On(b, k)
  <2>1. SUFFICES ASSUME NEW j \in 1 .. Len(w), w[j].key = k PROVE On(a, k) \/ On(b, k)
    BY <1>1 DEF On
  <2>2. CASE j \in 1 .. la
    BY <1>1, <1>2, <2>1, <2>2 DEF On
  <2>3. CASE \E i \in 1 .. lb : j = la + i
    BY <1>1, <1>3, <2>1, <2>3 DEF On
  <2> QED BY <1>4, <2>2, <2>3
<1>6. ASSUME On(b, k) PROVE On(w, k) /\ w[LastOf(w, k)] = b[LastOf(b, k)]
  <2> DEFINE l == LastOf(b, k)
  <2>1. l \in 1 .. lb /\ b[l].key = k /\ \A j \in 1 .. lb : b[j].key = k => l >= j
    BY <1>6, LastTyped DEF lb
  <2> HIDE DEF l
  <2>2. la + l \in 1 .. Len(w) /\ w[la + l] = b[l]
    BY <1>1, <1>3, <2>1
  <2>3. ASSUME NEW j \in 1 .. Len(w), w[j].key = k PROVE la + l >= j
    <3>1. CASE j \in 1 .. la
      BY <1>1, <2>1, <3>1
    <3>2. ASSUME NEW i \in 1 .. lb, j = la + i PROVE la + l >= j
      <4>1. l >= i
        BY <1>3, <2>1, <2>3, <3>2
      <4> QED BY <1>1, <2>1, <3>2, <4>1
    <3> QED BY <1>4, <3>1, <3>2
  <2>4. On(w, k) /\ LastOf(w, k) = la + l
    <3> DEFINE i == la + l
    <3>1. i \in 1 .. Len(w) /\ w[i].key = k /\ \A j \in 1 .. Len(w) : w[j].key = k => i >= j
      BY <2>1, <2>2, <2>3
    <3> HIDE DEF i
    <3>2. On(w, k) /\ LastOf(w, k) = i
      BY <1>1, <3>1, LastIs
    <3> QED BY <3>2 DEF i
  <2> QED BY <2>2, <2>4 DEF l
<1>7. ASSUME On(a, k), ~On(b, k) PROVE On(w, k) /\ w[LastOf(w, k)] = a[LastOf(a, k)]
  <2> DEFINE l == LastOf(a, k)
  <2>1. l \in 1 .. la /\ a[l].key = k /\ \A j \in 1 .. la : a[j].key = k => l >= j
    BY <1>7, LastTyped DEF la
  <2> HIDE DEF l
  <2>2. l \in 1 .. Len(w) /\ w[l] = a[l]
    BY <1>1, <1>2, <2>1
  <2>3. ASSUME NEW j \in 1 .. Len(w), w[j].key = k PROVE l >= j
    <3>1. CASE j \in 1 .. la
      BY <1>2, <2>1, <2>3, <3>1
    <3>2. ASSUME NEW i \in 1 .. lb, j = la + i PROVE FALSE
      <4>1. b[i].key = k
        BY <1>3, <2>3, <3>2
      <4> QED BY <1>1, <1>7, <4>1 DEF On
    <3> QED BY <1>4, <3>1, <3>2
  <2>4. On(w, k) /\ LastOf(w, k) = l
    BY <1>1, <2>1, <2>2, <2>3, LastIs
  <2> QED BY <2>2, <2>4 DEF l
<1>8. On(a, k) \/ On(b, k) => On(w, k)
  BY <1>6, <1>7
<1> QED BY <1>5, <1>6, <1>7, <1>8 DEF w

(* What Holds says, of any memtable.                                        *)
HoldsIn(m, ops) ==
    \A k \in Keys :
        IF On(ops, k)
        THEN LET o == ops[LastOf(ops, k)]
             IN  m[k] = Some(StoredBytes(o)) \/ (IsDelete(o) /\ m[k] = Some(Tombstone))
        ELSE m[k] = None

(* Puts into the memtable keep it what the operations say.                  *)
LEMMA HoldsApplied ==
  ASSUME NEW a \in Seq(Operation), NEW b \in Seq(Operation), NEW m, HoldsIn(m, a),
         NEW m2, m2 = [k \in Keys |-> IF On(b, k) THEN Some(StoredBytes(b[LastOf(b, k)]))
                                                  ELSE m[k]]
  PROVE  HoldsIn(m2, a \o b)
<1> DEFINE w == a \o b
<1> SUFFICES ASSUME NEW k \in Keys
             PROVE  IF On(w, k)
                    THEN LET o == w[LastOf(w, k)]
                         IN  m2[k] = Some(StoredBytes(o))
                             \/ (IsDelete(o) /\ m2[k] = Some(Tombstone))
                    ELSE m2[k] = None
  BY DEF HoldsIn
<1>1. /\ On(w, k) <=> On(a, k) \/ On(b, k)
      /\ On(b, k) => w[LastOf(w, k)] = b[LastOf(b, k)]
      /\ On(a, k) /\ ~On(b, k) => w[LastOf(w, k)] = a[LastOf(a, k)]
  BY LastJoined
<1> HIDE DEF w
<1>2. CASE On(b, k)
  <2>1. m2[k] = Some(StoredBytes(b[LastOf(b, k)]))
    BY <1>2
  <2> QED BY <1>1, <1>2, <2>1
<1>3. CASE ~On(b, k)
  <2>1. m2[k] = m[k]
    BY <1>3
  <2>2. IF On(a, k)
        THEN LET o == a[LastOf(a, k)]
             IN  m[k] = Some(StoredBytes(o)) \/ (IsDelete(o) /\ m[k] = Some(Tombstone))
        ELSE m[k] = None
    BY DEF HoldsIn
  <2> QED BY <1>1, <1>3, <2>1, <2>2
<1> QED BY <1>2, <1>3

(* The records of a sequence of operations.                                 *)
LEMMA RecordsTyped ==
  ASSUME NEW h \in Seq(Operation)
  PROVE  /\ LogRecords(h) \in Seq(Framable) /\ Len(LogRecords(h)) = Len(h)
         /\ \A i \in 1 .. Len(h) : LogRecords(h)[i] = LogRecord(h[i])
<1>1. Len(h) \in Nat /\ DOMAIN h = 1 .. Len(h)
  OBVIOUS
<1>2. \A i \in 1 .. Len(h) : LogRecord(h[i]) \in Framable
  <2>1. \A i \in 1 .. Len(h) : h[i] \in Operation
    OBVIOUS
  <2> QED BY <2>1, RecordOfOp
<1>3. LogRecords(h) = [i \in 1 .. Len(h) |-> LogRecord(h[i])]
  BY <1>1 DEF LogRecords
<1> QED BY <1>1, <1>2, <1>3, IsASeq

(* A replay builds the memtable the operations say.                         *)
LEMMA HoldsReplayed ==
  ASSUME NEW h \in Seq(Operation)
  PROVE  HoldsIn(Replayed(LogRecords(h)), h)
<1> DEFINE R == LogRecords(h)
           m == Replayed(R)
<1>1. /\ R \in Seq(Framable) /\ Len(R) = Len(h)
      /\ \A i \in 1 .. Len(h) : R[i] = LogRecord(h[i])
  BY RecordsTyped
<1>2. DOMAIN R = 1 .. Len(h) /\ DOMAIN h = 1 .. Len(h)
  <2> HIDE DEF R
  <2> QED BY <1>1
<1>3. \A i \in 1 .. Len(h) : h[i] \in Operation /\ R[i].key = h[i].key
  <2>1. \A i \in 1 .. Len(h) : h[i] \in Operation
    OBVIOUS
  <2> HIDE DEF R
  <2> QED BY <1>1, <2>1, RecordOfOp
<1> HIDE DEF R
<1> SUFFICES ASSUME NEW k \in Keys
             PROVE  IF On(h, k)
                    THEN LET o == h[LastOf(h, k)]
                         IN  m[k] = Some(StoredBytes(o))
                             \/ (IsDelete(o) /\ m[k] = Some(Tombstone))
                    ELSE m[k] = None
  BY DEF HoldsIn, R
<1>4. On(R, k) <=> On(h, k)
  BY <1>2, <1>3 DEF On
<1>5. LastOf(R, k) = LastOf(h, k)
  <2>1. {i \in DOMAIN R : R[i].key = k} = {i \in DOMAIN h : h[i].key = k}
    BY <1>2, <1>3
  <2> QED BY <2>1 DEF LastOf
<1>6. m[k] = IF On(R, k)
             THEN LET r == R[LastOf(R, k)]
                  IN  Some(IF r.op = DeleteType THEN Tombstone ELSE r.value)
             ELSE None
  BY DEF Replayed
<1> HIDE DEF m
<1>7. CASE On(h, k)
  <2> DEFINE l == LastOf(h, k)
             o == h[l]
             r == LogRecord(o)
  <2>1. l \in 1 .. Len(h) /\ R[l] = r
    BY <1>1, <1>7, LastTyped
  <2>2. m[k] = Some(IF r.op = DeleteType THEN Tombstone ELSE r.value)
    BY <1>4, <1>5, <1>6, <1>7, <2>1
  <2>3. r.op = (IF IsDelete(o) THEN DeleteType ELSE PutType)
        /\ r.value = (IF o.method = "batch delete" THEN << >> ELSE StoredBytes(o))
    BY DEF LogRecord
  <2> HIDE DEF r, o
  <2>4. PutType # DeleteType
    BY DEF PutType, DeleteType
  <2>5. ~IsDelete(o) => o.method # "batch delete"
    BY DEF IsDelete
  <2>6. m[k] = Some(StoredBytes(o)) \/ (IsDelete(o) /\ m[k] = Some(Tombstone))
    <3>1. CASE IsDelete(o)
      BY <2>2, <2>3, <3>1
    <3>2. CASE ~IsDelete(o)
      BY <2>2, <2>3, <2>4, <2>5, <3>2
    <3> QED BY <3>1, <3>2
  <2> QED BY <1>7, <2>6 DEF o
<1>8. CASE ~On(h, k)
  BY <1>4, <1>6, <1>8
<1> QED BY <1>7, <1>8

----------------------------------------------------------------------------
(* The log of some first operations, and of more operations.                *)
LEMMA HistFront ==
  ASSUME NEW h \in Seq(Operation), NEW n \in 0 .. Len(h)
  PROVE  /\ SubSeq(h, 1, n) \in Seq(Operation) /\ Len(SubSeq(h, 1, n)) = n
         /\ LogRecords(SubSeq(h, 1, n)) = SubSeq(LogRecords(h), 1, n)
         /\ Encoded(SubSeq(h, 1, n)) = Framed(LogRecords(h))[n]
         /\ Framed(LogRecords(h))[n] \in Seq(Cell)
<1> DEFINE g == SubSeq(h, 1, n)
           R == LogRecords(h)
           x == LogRecords(g)
           y == SubSeq(R, 1, n)
<1>1. n \in Nat /\ n <= Len(h) /\ Len(h) \in Nat
  OBVIOUS
<1>2. g \in Seq(Operation) /\ Len(g) = n /\ \A i \in 1 .. n : g[i] = h[i]
  BY <1>1, FrontPart
<1>3. /\ R \in Seq(Framable) /\ Len(R) = Len(h)
      /\ \A i \in 1 .. Len(h) : R[i] = LogRecord(h[i])
  BY RecordsTyped
<1> HIDE DEF g, R
<1>4. x \in Seq(Framable) /\ Len(x) = n /\ \A i \in 1 .. n : x[i] = LogRecord(g[i])
  BY <1>2, RecordsTyped
<1>5. y \in Seq(Framable) /\ Len(y) = n /\ \A i \in 1 .. n : y[i] = R[i]
  BY <1>1, <1>3, FrontPart
<1> HIDE DEF x, y
<1>6. \A i \in 1 .. n : x[i] = y[i]
  BY <1>1, <1>2, <1>3, <1>4, <1>5
<1>7. x = y
  BY <1>4, <1>5, <1>6, SeqEqual
<1>8. EncodeAll(y) = Framed(R)[n]
  BY <1>1, <1>3, FramedPrefix DEF y
<1>9. Framed(R)[n] \in Seq(Cell)
  BY <1>1, <1>3, FramedSteps
<1> QED BY <1>2, <1>7, <1>8, <1>9 DEF Encoded, g, R, x, y

(* The log of two sequences of operations, one after the other.             *)
LEMMA HistJoined ==
  ASSUME NEW a \in Seq(Operation), NEW b \in Seq(Operation)
  PROVE  /\ Encoded(a) \in Seq(Cell) /\ Encoded(b) \in Seq(Cell)
         /\ LogRecords(a \o b) = LogRecords(a) \o LogRecords(b)
         /\ Encoded(a \o b) = Encoded(a) \o Encoded(b)
<1> DEFINE A == LogRecords(a)
           B == LogRecords(b)
           w == a \o b
           x == LogRecords(w)
           y == A \o B
           la == Len(a)
           lb == Len(b)
<1>1. la \in Nat /\ lb \in Nat
  OBVIOUS
<1>2. w \in Seq(Operation) /\ Len(w) = la + lb
      /\ \A i \in 1 .. la + lb : w[i] = IF i <= la THEN a[i] ELSE b[i - la]
  BY ConcatProperties
<1>3. A \in Seq(Framable) /\ Len(A) = la /\ \A i \in 1 .. la : A[i] = LogRecord(a[i])
  BY RecordsTyped
<1>4. B \in Seq(Framable) /\ Len(B) = lb /\ \A i \in 1 .. lb : B[i] = LogRecord(b[i])
  BY RecordsTyped
<1> HIDE DEF A, B, w, la, lb
<1>5. x \in Seq(Framable) /\ Len(x) = la + lb /\ \A i \in 1 .. la + lb : x[i] = LogRecord(w[i])
  BY <1>2, RecordsTyped
<1>6. y \in Seq(Framable) /\ Len(y) = la + lb
      /\ \A i \in 1 .. la + lb : y[i] = IF i <= la THEN A[i] ELSE B[i - la]
  BY <1>3, <1>4, ConcatProperties
<1> HIDE DEF x, y
<1>7. \A i \in 1 .. la + lb : x[i] = y[i]
  <2> SUFFICES ASSUME NEW i \in 1 .. la + lb
               PROVE  x[i] = y[i]
    OBVIOUS
  <2>1. CASE i <= la
    <3>1. i \in 1 .. la
      BY <1>1, <2>1
    <3> QED BY <1>2, <1>3, <1>5, <1>6, <2>1, <3>1
  <2>2. CASE ~(i <= la)
    <3>1. i - la \in 1 .. lb
      BY <1>1, <2>2
    <3> QED BY <1>2, <1>4, <1>5, <1>6, <2>2, <3>1
  <2> QED BY <2>1, <2>2
<1>8. x = y
  BY <1>5, <1>6, <1>7, SeqEqual
<1>9. /\ EncodeAll(A) \in Seq(Cell) /\ EncodeAll(B) \in Seq(Cell)
      /\ EncodeAll(y) = EncodeAll(A) \o EncodeAll(B)
  BY <1>3, <1>4, FramedJoined DEF y
<1> QED BY <1>8, <1>9 DEF Encoded, A, B, w, x, y

(* The log of all operations is that of the first n and that of the rest.   *)
LEMMA HistSplit ==
  ASSUME NEW h \in Seq(Operation), NEW n \in 0 .. Len(h)
  PROVE  /\ SubSeq(h, n + 1, Len(h)) \in Seq(Operation)
         /\ Encoded(SubSeq(h, n + 1, Len(h))) \in Seq(Cell)
         /\ Encoded(h) = Framed(LogRecords(h))[n] \o Encoded(SubSeq(h, n + 1, Len(h)))
         /\ Encoded(h) = Framed(LogRecords(h))[Len(h)]
         /\ n = Len(h) => Encoded(SubSeq(h, n + 1, Len(h))) = << >>
<1> DEFINE a == SubSeq(h, 1, n)
           b == SubSeq(h, n + 1, Len(h))
<1>1. a \in Seq(Operation) /\ b \in Seq(Operation) /\ h = a \o b /\ Len(b) = Len(h) - n
  BY FrontAndRest
<1>2. Encoded(a) = Framed(LogRecords(h))[n]
  BY HistFront
<1>3. Encoded(h) = Framed(LogRecords(h))[Len(h)]
  BY RecordsTyped DEF Encoded, EncodeAll
<1> HIDE DEF a, b
<1>4. Encoded(b) \in Seq(Cell) /\ Encoded(a \o b) = Encoded(a) \o Encoded(b)
  BY <1>1, HistJoined
<1>5. ASSUME n = Len(h) PROVE Encoded(b) = << >>
  <2>1. Len(b) = 0
    BY <1>1, <1>5
  <2>2. LogRecords(b) \in Seq(Framable) /\ Len(LogRecords(b)) = 0
    BY <1>1, <2>1, RecordsTyped
  <2> QED BY <2>2, FramedSteps DEF Encoded, EncodeAll
<1> QED BY <1>1, <1>2, <1>3, <1>4, <1>5 DEF b

(* What is on the disk and in the buffer, where n operations are on the     *)
(* disk as whole records.                                                   *)
Logged(h, f, p, b, n, torn) ==
    /\ CutOf(LogRecords(h), f, n, torn)
    /\ p # "down" => b = Encoded(SubSeq(h, n + 1, Len(h))) /\ (n < Len(h) => torn = << >>)

(* What CutAt says, of any log.                                             *)
CutIn(h, f, p, b, n) ==
    \E torn \in {SubSeq(f, Len(Encoded(SubSeq(h, 1, n))) + 1, Len(f))} :
        /\ f = Encoded(SubSeq(h, 1, n)) \o torn
        /\ NextRecord(torn, 0).kind = "end"
        /\ n < Len(h) => IsStrictPrefix(torn, EncodeRecord(LogRecord(h[n + 1])))
        /\ p # "down" => b = Encoded(SubSeq(h, n + 1, Len(h))) /\ (n < Len(h) => torn = << >>)

(* A file has one torn part behind the log of n operations, if any.         *)
LEMMA CutLogged ==
  ASSUME NEW h \in Seq(Operation), NEW f \in Seq(Cell), NEW p, NEW b, NEW n \in 0 .. Len(h)
  PROVE  CutIn(h, f, p, b, n) <=> \E torn \in Seq(Cell) : Logged(h, f, p, b, n, torn)
<1> DEFINE z == Encoded(SubSeq(h, 1, n))
           R == LogRecords(h)
           Same(torn) == /\ f = z \o torn
                         /\ NextRecord(torn, 0).kind = "end"
                         /\ n < Len(h) => IsStrictPrefix(torn, EncodeRecord(LogRecord(h[n + 1])))
                         /\ p # "down" => b = Encoded(SubSeq(h, n + 1, Len(h)))
                                          /\ (n < Len(h) => torn = << >>)
<1>1. z = Framed(R)[n] /\ z \in Seq(Cell)
  BY HistFront
<1>2. Len(R) = Len(h) /\ (n < Len(h) => R[n + 1] = LogRecord(h[n + 1]))
  <2>1. Len(R) = Len(h) /\ \A i \in 1 .. Len(h) : R[i] = LogRecord(h[i])
    BY RecordsTyped
  <2>2. n < Len(h) => n + 1 \in 1 .. Len(h)
    OBVIOUS
  <2> QED BY <2>1, <2>2
<1>3. \A torn : Logged(h, f, p, b, n, torn) <=> Same(torn)
  <2> HIDE DEF z, R
  <2> QED BY <1>1, <1>2 DEF Logged, CutOf, R
<1>4. CutIn(h, f, p, b, n) <=> Same(SubSeq(f, Len(z) + 1, Len(f)))
  BY DEF CutIn
<1>5. ASSUME NEW torn \in Seq(Cell), Same(torn) PROVE torn = SubSeq(f, Len(z) + 1, Len(f))
  <2>1. f = z \o torn
    BY <1>5
  <2> HIDE DEF z
  <2> QED BY <1>1, <2>1, BackOfConcat
<1>6. SubSeq(f, Len(z) + 1, Len(f)) \in Seq(Cell)
  <2> HIDE DEF z
  <2>1. Len(z) \in Nat /\ Len(f) \in Nat
    BY <1>1
  <2> QED BY <2>1, SubSeqProperties
<1> HIDE DEF Same, z
<1> QED BY <1>3, <1>4, <1>5, <1>6

(* Without cells there is no record.                                        *)
LEMMA NothingEnds ==
  /\ << >> \in Seq(Cell) /\ NextRecord(<< >>, 0).kind = "end"
  /\ \A r \in Framable : IsStrictPrefix(<< >>, EncodeRecord(r))
<1>1. << >> \in Seq(Cell) /\ Len(<< >>) = 0
  OBVIOUS
<1>2. NextRecord(<< >>, 0).kind = "end"
  <2>1. Len(<< >>) - 0 < U32
    BY Widths
  <2> QED BY <2>1 DEF NextRecord
<1>3. ASSUME NEW r \in Framable PROVE IsStrictPrefix(<< >>, EncodeRecord(r))
  <2>1. EncodeRecord(r) \in Seq(Cell) /\ Len(EncodeRecord(r)) > 0
    <3> DEFINE p == Payload(r)
               e == EncodeRecord(r)
    <3>1. e \in Seq(Cell) /\ Len(p) \in Nat /\ Len(e) = U32 + 1 + Len(p)
      BY RecordCells
    <3> HIDE DEF p, e
    <3>2. Len(e) > 0
      BY <3>1, Widths
    <3> QED BY <3>1, <3>2 DEF e
  <2>2. << >> = SubSeq(EncodeRecord(r), 1, Len(<< >>))
    BY <1>1, <2>1
  <2> QED BY <1>1, <2>1, <2>2, StrictPrefixes
<1> QED BY <1>1, <1>2, <1>3

(* A file that ends between two records: writes go behind what is there.    *)
LEMMA LoggedMore ==
  ASSUME NEW h \in Seq(Operation), NEW ops \in Seq(Operation), NEW f \in Seq(Cell),
         NEW b \in Seq(Cell), NEW p, p # "down", NEW q, NEW n \in 0 .. Len(h),
         NEW torn \in Seq(Cell), Logged(h, f, p, b, n, torn), ~(ReadLog(f).stop < Len(f))
  PROVE  Logged(h \o ops, f, q, b \o Encoded(ops), n, << >>)
<1> DEFINE R == LogRecords(h)
           w == h \o ops
           W == LogRecords(w)
           g == SubSeq(h, 1, n)
           rest == SubSeq(h, n + 1, Len(h))
           z == Framed(R)[n]
<1>1. f = z \o torn /\ NextRecord(torn, 0).kind = "end" /\ b = Encoded(rest)
  BY DEF Logged, CutOf
<1>2. g \in Seq(Operation) /\ Encoded(g) = z /\ z \in Seq(Cell)
  BY HistFront
<1>3. w \in Seq(Operation) /\ Len(w) = Len(h) + Len(ops) /\ n \in 0 .. Len(w)
  <2>1. w \in Seq(Operation) /\ Len(w) = Len(h) + Len(ops)
    BY Joined
  <2>2. Len(h) \in Nat /\ Len(ops) \in Nat
    OBVIOUS
  <2> HIDE DEF w
  <2> QED BY <2>1, <2>2
<1>4. SubSeq(w, 1, n) = g /\ SubSeq(w, n + 1, Len(w)) = rest \o ops
  BY FrontAndMore
<1>5. rest \in Seq(Operation)
  BY HistSplit
<1> HIDE DEF R, w, g, rest, z
<1>6. torn = << >>
  <2>1. LogRecords(g) \in Seq(Framable)
    BY <1>2, RecordsTyped
  <2>2. ReadLog(EncodeAll(LogRecords(g)) \o torn).stop = Len(EncodeAll(LogRecords(g)))
    BY <1>1, <2>1, ReadTorn
  <2>3. ReadLog(f).stop = Len(z)
    BY <1>1, <1>2, <2>2 DEF Encoded
  <2>4. Len(f) = Len(z) + Len(torn) /\ Len(z) \in Nat /\ Len(torn) \in Nat
    BY <1>1, <1>2, Joined, LenProperties
  <2>5. Len(torn) = 0
    BY <2>3, <2>4
  <2> QED BY <2>5
<1>7. Framed(W)[n] = z
  <2>1. Encoded(SubSeq(w, 1, n)) = Framed(W)[n]
    BY <1>3, HistFront
  <2> QED BY <1>2, <1>4, <2>1
<1>8. n < Len(W) => IsStrictPrefix(<< >>, EncodeRecord(W[n + 1]))
  <2>1. W \in Seq(Framable)
    BY <1>3, RecordsTyped
  <2> HIDE DEF W
  <2>2. n < Len(W) => W[n + 1] \in Framable
    BY <2>1
  <2> QED BY <2>2, NothingEnds
<1>9. CutOf(W, f, n, << >>)
  BY <1>1, <1>6, <1>7, <1>8 DEF CutOf
<1>10. b \o Encoded(ops) = Encoded(SubSeq(w, n + 1, Len(w)))
  BY <1>1, <1>4, <1>5, HistJoined
<1> QED BY <1>9, <1>10 DEF Logged, w, W

(* What a buffer handed over leaves.                                        *)
LEMMA Flushed ==
  ASSUME NEW h \in Seq(Operation), NEW f \in Seq(Cell), NEW b, NEW p, p # "down",
         NEW n \in 0 .. Len(h), NEW torn \in Seq(Cell), Logged(h, f, p, b, n, torn)
  PROVE  \E t \in Seq(Cell) : CutOf(LogRecords(h), f \o b, Len(h), t)
<1> DEFINE R == LogRecords(h)
           z == Framed(R)[n]
           all == Framed(R)[Len(h)]
<1>1. /\ f = z \o torn /\ NextRecord(torn, 0).kind = "end"
      /\ b = Encoded(SubSeq(h, n + 1, Len(h))) /\ (n < Len(h) => torn = << >>)
  BY DEF Logged, CutOf
<1>2. Len(R) = Len(h) /\ Len(h) \in Nat /\ ~(Len(h) < Len(R))
  <2>1. Len(R) = Len(h) /\ Len(h) \in Nat
    BY RecordsTyped
  <2> HIDE DEF R
  <2> QED BY <2>1
<1>3. /\ z \in Seq(Cell) /\ b \in Seq(Cell) /\ all = z \o b
      /\ n = Len(h) => b = << >>
  BY <1>1, HistFront, HistSplit
<1> HIDE DEF R, z, all
<1>4. CASE n = Len(h)
  <2>1. f \o b = f
    BY <1>3, <1>4
  <2>2. f \o b = Framed(R)[Len(h)] \o torn
    BY <1>1, <1>4, <2>1 DEF z
  <2>3. CutOf(R, f \o b, Len(h), torn)
    BY <1>1, <1>2, <2>2 DEF CutOf
  <2> QED BY <2>3 DEF R
<1>5. CASE n < Len(h)
  <2>1. f = z
    BY <1>1, <1>3, <1>5
  <2>2. all \in Seq(Cell) /\ all \o << >> = all
    BY <1>3, Joined, ConcatEmptySeq
  <2>3. f \o b = Framed(R)[Len(h)] \o << >>
    BY <1>3, <2>1, <2>2 DEF all
  <2>4. CutOf(R, f \o b, Len(h), << >>)
    BY <1>2, <2>3, NothingEnds DEF CutOf
  <2> QED BY <2>4, NothingEnds DEF R
<1>6. n = Len(h) \/ n < Len(h)
  BY <1>2
<1> QED BY <1>4, <1>5, <1>6

(* With an empty buffer everything is on the disk.                          *)
LEMMA LoggedAll ==
  ASSUME NEW h \in Seq(Operation), NEW f, NEW p, NEW torn, CutOf(LogRecords(h), f, Len(h), torn)
  PROVE  Logged(h, f, p, << >>, Len(h), torn)
<1>1. Len(h) \in 0 .. Len(h) /\ ~(Len(h) < Len(h))
  <2>1. Len(h) \in Nat
    OBVIOUS
  <2> QED BY <2>1
<1>2. Encoded(SubSeq(h, Len(h) + 1, Len(h))) = << >>
  BY <1>1, HistSplit
<1> QED BY <1>1, <1>2 DEF Logged

(* A file with n whole records, read.                                       *)
LEMMA ReadCut ==
  ASSUME NEW h \in Seq(Operation), NEW f, NEW n \in 0 .. Len(h), NEW torn \in Seq(Cell),
         CutOf(LogRecords(h), f, n, torn)
  PROVE  ReadLog(f) = [ok |-> TRUE, records |-> LogRecords(SubSeq(h, 1, n)),
                       stop |-> Len(Framed(LogRecords(h))[n])]
<1> DEFINE g == SubSeq(h, 1, n)
           z == Framed(LogRecords(h))[n]
<1>1. f = z \o torn /\ NextRecord(torn, 0).kind = "end"
  BY DEF CutOf
<1>2. g \in Seq(Operation) /\ Encoded(g) = z
  BY HistFront
<1> HIDE DEF g, z
<1>3. LogRecords(g) \in Seq(Framable)
  BY <1>2, RecordsTyped
<1>4. ReadLog(EncodeAll(LogRecords(g)) \o torn)
        = [ok |-> TRUE, records |-> LogRecords(g), stop |-> Len(EncodeAll(LogRecords(g)))]
  BY <1>1, <1>3, ReadTorn
<1> QED BY <1>1, <1>2, <1>4 DEF Encoded, g, z

(* After a replay, the operations of the log are those of its records.      *)
LEMMA LoggedFirst ==
  ASSUME NEW h \in Seq(Operation), NEW f, NEW p, NEW n \in 0 .. Len(h), NEW torn \in Seq(Cell),
         CutOf(LogRecords(h), f, n, torn)
  PROVE  Logged(SubSeq(h, 1, n), f, p, << >>, n, torn)
<1> DEFINE g == SubSeq(h, 1, n)
<1>1. /\ g \in Seq(Operation) /\ Len(g) = n
      /\ Encoded(g) = Framed(LogRecords(h))[n]
  BY HistFront
<1> HIDE DEF g
<1>2. Framed(LogRecords(g))[n] = Framed(LogRecords(h))[n]
  <2>1. n \in 0 .. Len(g)
    BY <1>1
  <2>2. Encoded(g) = Framed(LogRecords(g))[Len(g)]
    BY <1>1, <2>1, HistSplit
  <2> QED BY <1>1, <2>2
<1>3. Len(LogRecords(g)) = n /\ ~(n < n)
  BY <1>1, RecordsTyped
<1>4. CutOf(LogRecords(g), f, Len(g), torn)
  BY <1>1, <1>2, <1>3 DEF CutOf
<1>5. Logged(g, f, p, << >>, Len(g), torn)
  BY <1>1, <1>4, LoggedAll
<1> QED BY <1>1, <1>5 DEF g

(* What was synced is among the whole records of any cut that keeps it.     *)
LEMMA SyncedFirst ==
  ASSUME NEW h \in Seq(Operation), NEW f \in Seq(Cell), NEW n \in 0 .. Len(h),
         NEW torn \in Seq(Cell), CutOf(LogRecords(h), f, n, torn),
         NEW s \in 0 .. Len(h), Len(Encoded(SubSeq(h, 1, s))) <= Len(f)
  PROVE  s <= n
<1> DEFINE R == LogRecords(h)
           F == Framed(R)
<1>1. R \in Seq(Framable) /\ Len(R) = Len(h) /\ Len(h) \in Nat
  BY RecordsTyped
<1>2. Encoded(SubSeq(h, 1, s)) = F[s]
  BY HistFront
<1>3. f = F[n] \o torn /\ (n < Len(R) => IsStrictPrefix(torn, EncodeRecord(R[n + 1])))
  BY DEF CutOf
<1>4. F[n] \in Seq(Cell)
  BY HistFront
<1> SUFFICES ASSUME n < s PROVE FALSE
  OBVIOUS
<1> HIDE DEF R, F
<1> DEFINE k == n + 1
<1>5. k \in 1 .. Len(R) /\ k - 1 = n /\ k \in 0 .. Len(R) /\ s \in 0 .. Len(R) /\ k <= s
      /\ n < Len(R)
  BY <1>1
<1>6. Len(f) = Len(F[n]) + Len(torn) /\ Len(F[n]) \in Nat /\ Len(torn) \in Nat
  BY <1>3, <1>4, Joined, LenProperties
<1>7. EncodeRecord(R[k]) \in Seq(Cell) /\ Len(F[k]) = Len(F[n]) + Len(EncodeRecord(R[k]))
  <2> HIDE DEF k
  <2> QED BY <1>1, <1>5, FramedLengths DEF F
<1>8. Len(torn) < Len(EncodeRecord(R[k]))
  BY <1>3, <1>5, <1>7, StrictPrefixes
<1>9. Len(F[k]) <= Len(F[s])
  <2> HIDE DEF k
  <2> QED BY <1>1, <1>5, FramedGrows DEF F
<1> DEFINE a == Len(F[n])
           t == Len(torn)
           e == Len(EncodeRecord(R[k]))
           c == Len(F[k])
           d == Len(F[s])
           l == Len(f)
<1>10. a \in Nat /\ t \in Nat /\ e \in Nat /\ d \in Nat
  <2>1. F[s] \in Seq(Cell)
    BY HistFront DEF F, R
  <2> QED BY <1>6, <1>7, <2>1, LenProperties
<1>11. d <= l
  BY <1>2
<1>12. l = a + t /\ c = a + e /\ t < e /\ c <= d
  BY <1>6, <1>7, <1>8, <1>9
<1> HIDE DEF k, a, t, e, c, d, l
<1> QED BY <1>10, <1>11, <1>12

----------------------------------------------------------------------------
(* The invariant.  What LogInv, SyncedInv and MemInv say, of any state.     *)
LEMMA LogThen ==
  ASSUME TypesInv, LogInv, ~buried
  PROVE  \E n \in 0 .. Len(hist) : \E torn \in Seq(Cell) : Logged(hist, file, pc, buf, n, torn)
<1>1. hist \in Seq(Operation) /\ file \in Seq(Cell)
  BY DEF TypesInv
<1>2. PICK n \in 0 .. Len(hist) : CutAt(n)
  BY DEF LogInv
<1>3. CutIn(hist, file, pc, buf, n)
  BY <1>2 DEF CutAt, CutIn, First, After
<1> QED BY <1>1, <1>3, CutLogged

(* ... and of the next state.                                               *)
LEMMA LogNext ==
  ASSUME hist' \in Seq(Operation), file' \in Seq(Cell),
         ~buried' => \E n \in 0 .. Len(hist') : \E torn \in Seq(Cell) :
                        Logged(hist', file', pc', buf', n, torn)
  PROVE  LogInv'
<1> SUFFICES ASSUME ~buried'
             PROVE  \E n \in 0 .. Len(hist') : CutAt(n)'
  BY DEF LogInv
<1>1. PICK n \in 0 .. Len(hist') : \E torn \in Seq(Cell) :
                                     Logged(hist', file', pc', buf', n, torn)
  OBVIOUS
<1>2. CutIn(hist', file', pc', buf', n)
  BY <1>1, CutLogged
<1>3. CutAt(n)'
  BY <1>2 DEF CutAt, CutIn, First, After
<1> QED BY <1>3

SyncedIn(h, s, d) == s <= Len(h) /\ Len(Encoded(SubSeq(h, 1, s))) <= d

(* SyncedInv, of any state.                                                 *)
LEMMA SyncedThen ==
  SyncedInv <=> (~buried => SyncedIn(hist, safe, durable))
  BY DEF SyncedInv, SyncedIn, First

(* ... and of the next state.                                               *)
LEMMA SyncedNext ==
  SyncedInv' <=> (~buried' => SyncedIn(hist', safe', durable'))
  BY DEF SyncedInv, SyncedIn, First

(* Syncs and shorter histories that still have what was synced.             *)
LEMMA SyncedSame ==
  ASSUME NEW h \in Seq(Operation), NEW s \in Nat, NEW d, SyncedIn(h, s, d),
         NEW ops \in Seq(Operation)
  PROVE  SyncedIn(h \o ops, s, d)
<1>1. s \in 0 .. Len(h) /\ Len(h) \in Nat /\ Len(ops) \in Nat
  BY DEF SyncedIn
<1>2. SubSeq(h \o ops, 1, s) = SubSeq(h, 1, s)
  BY <1>1, FrontAndMore
<1>3. Len(h \o ops) = Len(h) + Len(ops)
  BY Joined
<1>4. s <= Len(h \o ops)
  BY <1>1, <1>3
<1> QED BY <1>2, <1>4 DEF SyncedIn

MemIn(m, p, t, h) ==
    /\ p = "idle" => HoldsIn(m, h)
    /\ p = "sync" => \E n \in 0 .. Len(h) : t = SubSeq(h, n + 1, Len(h))
                                            /\ HoldsIn(m, SubSeq(h, 1, n))

(* MemInv, of any state.                                                    *)
LEMMA MemThen ==
  MemInv <=> (~buried => MemIn(mem, pc, todo, hist))
  BY DEF MemInv, MemIn, Holds, HoldsIn, First, After

(* ... and of the next state.                                               *)
LEMMA MemNext ==
  MemInv' <=> (~buried' => MemIn(mem', pc', todo', hist'))
  BY DEF MemInv, MemIn, Holds, HoldsIn, First, After

(* The memtable has nothing or some bytes.                                  *)
MemTyped(m) == DOMAIN m = Keys /\ \A k \in DOMAIN m : m[k] = None \/ \E b \in m[k] : m[k] = Some(b)

(* An Option with bytes in it.                                              *)
LEMMA SomeTyped ==
  \A x : \E b \in Some(x) : Some(x) = Some(b)
  BY DEF Some

(* The three ways a memtable comes about: empty, after a write, after a replay.*)
LEMMA EmptyTyped == MemTyped(EmptyMem)
  BY DEF MemTyped, EmptyMem

LEMMA AppliedTyped ==
  ASSUME NEW ops, MemTyped(mem)
  PROVE  MemTyped(Applied(ops))
<1> SUFFICES ASSUME NEW k \in Keys
             PROVE  \/ Applied(ops)[k] = None
                    \/ \E b \in Applied(ops)[k] : Applied(ops)[k] = Some(b)
  BY DEF MemTyped, Applied
<1>1. Applied(ops)[k] = Some(StoredBytes(ops[LastOf(ops, k)])) \/ Applied(ops)[k] = mem[k]
  BY DEF Applied
<1> HIDE DEF Applied
<1>2. CASE Applied(ops)[k] = mem[k]
  BY <1>2 DEF MemTyped
<1>3. CASE Applied(ops)[k] = Some(StoredBytes(ops[LastOf(ops, k)]))
  BY <1>3, SomeTyped
<1> QED BY <1>1, <1>2, <1>3

LEMMA ReplayedTyped ==
  ASSUME NEW records
  PROVE  MemTyped(Replayed(records))
<1> DEFINE m == Replayed(records)
<1> SUFFICES ASSUME NEW k \in Keys
             PROVE  m[k] = None \/ \E b \in m[k] : m[k] = Some(b)
  BY DEF MemTyped, Replayed
<1>1. m[k] = None \/ \E x : m[k] = Some(x)
  BY DEF Replayed
<1> HIDE DEF m
<1> QED BY <1>1, SomeTyped

(* A write puts into the memtable what HoldsApplied says.                   *)
LEMMA AppliedHolds ==
  ASSUME NEW a \in Seq(Operation), NEW b \in Seq(Operation), HoldsIn(mem, a)
  PROVE  HoldsIn(Applied(b), a \o b)
  BY HoldsApplied DEF Applied

(* The types after a step.                                                  *)
LEMMA TypesNext ==
  ASSUME MemTyped(mem'), durable' \in 0 .. Len(file'), sync' \in BOOLEAN,
         pc' \in {"idle", "sync", "down"}, nextSeq' \in Nat, now' \in 0 .. MaxNow,
         opens' \in 0 .. MaxOpens, safe' \in 0 .. MaxRecords, buried' \in BOOLEAN,
         appended' \in Len(hist') .. MaxRecords, pc' # "sync" => todo' = << >>,
         pc' = "down" => buf' = << >>, hist' \in Seq(Operation), todo' \in Seq(Operation),
         buf' \in Seq(Cell), file' \in Seq(Cell)
  PROVE  TypesInv'
  BY DEF TypesInv, TypeOK, MemTyped

(* The types before a step.                                                 *)
LEMMA TypesThen ==
  ASSUME TypesInv
  PROVE  /\ MemTyped(mem) /\ durable \in 0 .. Len(file) /\ sync \in BOOLEAN
         /\ pc \in {"idle", "sync", "down"} /\ nextSeq \in Nat /\ now \in 0 .. MaxNow
         /\ opens \in 0 .. MaxOpens /\ safe \in 0 .. MaxRecords /\ buried \in BOOLEAN
         /\ appended \in Len(hist) .. MaxRecords /\ (pc # "sync" => todo = << >>)
         /\ (pc = "down" => buf = << >>) /\ hist \in Seq(Operation)
         /\ todo \in Seq(Operation) /\ buf \in Seq(Cell) /\ file \in Seq(Cell)
  BY DEF TypesInv, TypeOK, MemTyped

----------------------------------------------------------------------------
(* The invariant but for what the tool took.                                *)
StoreInv == TypesInv /\ LogInv /\ SyncedInv /\ MemInv

(* The log of no operations is empty.                                       *)
LEMMA NothingLogged ==
  /\ << >> \in Seq(Operation) /\ Len(<< >>) = 0
  /\ SubSeq(<< >>, 1, 0) = << >> /\ SubSeq(<< >>, 1, Len(<< >>)) = << >>
  /\ Encoded(<< >>) = << >>
  /\ CutOf(LogRecords(<< >>), << >>, 0, << >>)
<1>1. << >> \in Seq(Operation) /\ << >> \in Seq(Cell) /\ Len(<< >>) = 0
  OBVIOUS
<1>2. SubSeq(<< >>, 1, 0) = << >> /\ SubSeq(<< >>, 1, Len(<< >>)) = << >>
  BY <1>1
<1>3. LogRecords(<< >>) \in Seq(Framable) /\ Len(LogRecords(<< >>)) = 0
  BY <1>1, RecordsTyped
<1>4. Framed(LogRecords(<< >>))[0] = << >>
  BY <1>3, FramedSteps
<1>5. Encoded(<< >>) = << >>
  BY <1>3, <1>4 DEF Encoded, EncodeAll
<1>6. << >> = << >> \o << >>
  OBVIOUS
<1>7. CutOf(LogRecords(<< >>), << >>, 0, << >>)
  BY <1>3, <1>4, <1>6, NothingEnds DEF CutOf
<1> QED BY <1>1, <1>2, <1>5, <1>7

(* The empty database.                                                      *)
LEMMA StoreInit ==
  ASSUME Init
  PROVE  StoreInv
<1>1. /\ hist = << >> /\ file = << >> /\ buf = << >> /\ todo = << >> /\ safe = 0
      /\ durable = 0 /\ pc = "idle" /\ mem = EmptyMem /\ buried = FALSE
      /\ sync \in BOOLEAN /\ nextSeq = 1 /\ now = 0 /\ opens = 0 /\ appended = 0
  BY DEF Init
<1>2. << >> \in Seq(Operation) /\ << >> \in Seq(Cell) /\ Len(<< >>) = 0
  OBVIOUS
<1>3. TypesInv
  <2>1. MemTyped(mem)
    BY <1>1, EmptyTyped
  <2>2. MaxRecords \in Nat /\ MaxNow \in Nat /\ MaxOpens \in Nat
    BY ClientAssumption
  <2>3. \A k \in DOMAIN mem : mem[k] = None \/ \E b \in mem[k] : mem[k] = Some(b)
    BY <2>1 DEF MemTyped
  <2>4. DOMAIN mem = Keys
    BY <2>1 DEF MemTyped
  <2>5. durable \in 0 .. Len(file) /\ appended \in Len(hist) .. MaxRecords
    <3>1. 0 \in 0 .. 0 /\ 0 \in 0 .. MaxRecords
      BY <2>2
    <3>2. Len(file) = 0 /\ Len(hist) = 0
      BY <1>1, <1>2
    <3> QED BY <1>1, <3>1, <3>2
  <2>6. /\ sync \in BOOLEAN /\ pc \in {"idle", "sync", "down"} /\ nextSeq \in Nat
        /\ now \in 0 .. MaxNow /\ opens \in 0 .. MaxOpens /\ safe \in 0 .. MaxRecords
    BY <1>1, <2>2
  <2>7. buried \in BOOLEAN /\ (pc # "sync" => todo = << >>) /\ (pc = "down" => buf = << >>)
    BY <1>1
  <2>8. TypeOK
    BY <2>3, <2>5, <2>6, <2>7 DEF TypeOK
  <2> QED BY <1>1, <1>2, <2>4, <2>8 DEF TypesInv
<1>4. LogInv
  <2>1. CutIn(hist, file, pc, buf, 0)
    <3>1. Logged(<< >>, << >>, pc, << >>, 0, << >>)
      BY <1>2, NothingLogged, LoggedAll
    <3>2. 0 \in 0 .. Len(<< >>)
      BY <1>2
    <3> QED BY <1>1, <1>2, <3>1, <3>2, CutLogged
  <2>2. CutAt(0)
    BY <2>1 DEF CutAt, CutIn, First, After
  <2>3. 0 \in 0 .. Len(hist)
    BY <1>1, <1>2
  <2> QED BY <2>2, <2>3 DEF LogInv
<1>5. SyncedInv
  <2>1. 0 <= Len(<< >>) /\ Len(Encoded(SubSeq(<< >>, 1, 0))) <= 0
    <3>1. Len(<< >>) = 0 /\ Encoded(SubSeq(<< >>, 1, 0)) = << >>
      BY NothingLogged, Zenon
    <3> QED BY <3>1
  <2>2. SyncedIn(<< >>, 0, 0)
    BY <2>1 DEF SyncedIn
  <2> QED BY <1>1, <2>2, SyncedThen
<1>6. MemInv
  <2>1. HoldsIn(EmptyMem, << >>)
    BY DEF HoldsIn, EmptyMem, On
  <2> QED BY <1>1, <2>1, MemThen DEF MemIn
<1> QED BY <1>3, <1>4, <1>5, <1>6 DEF StoreInv

(* Write: what is logged goes behind what is logged.                        *)
LEMMA WriteKeeps ==
  ASSUME StoreInv, NEW ops \in Seq(Operation), NEW flush \in BOOLEAN, Write(ops, flush),
         nextSeq' \in Nat
  PROVE  StoreInv'
<1>1. /\ MemTyped(mem) /\ durable \in 0 .. Len(file) /\ sync \in BOOLEAN
      /\ pc \in {"idle", "sync", "down"} /\ now \in 0 .. MaxNow
      /\ opens \in 0 .. MaxOpens /\ safe \in 0 .. MaxRecords /\ buried \in BOOLEAN
      /\ appended \in Len(hist) .. MaxRecords /\ (pc # "sync" => todo = << >>)
      /\ hist \in Seq(Operation) /\ todo \in Seq(Operation)
      /\ buf \in Seq(Cell) /\ file \in Seq(Cell)
  BY TypesThen DEF StoreInv
<1>2. /\ pc = "idle" /\ appended + Len(ops) <= MaxRecords /\ appended' = appended + Len(ops)
      /\ buf' = buf \o Encoded(ops) /\ hist' = hist \o ops /\ buried' = (buried \/ TornEnd)
      /\ file' = file /\ durable' = durable /\ sync' = sync /\ now' = now /\ opens' = opens
      /\ safe' = safe
  BY DEF Write
<1>3. \/ flush /\ pc' = "sync" /\ todo' = ops /\ mem' = mem
      \/ ~flush /\ mem' = Applied(ops) /\ pc' = pc /\ todo' = todo
  BY DEF Write
<1>4. hist' \in Seq(Operation) /\ Len(hist') = Len(hist) + Len(ops)
  BY <1>1, <1>2, Joined
<1>5. buf' \in Seq(Cell)
  BY <1>1, <1>2, HistJoined, Joined
<1>6. TypesInv'
  <2>1. MemTyped(mem')
    BY <1>1, <1>3, AppliedTyped
  <2>2. appended' \in Len(hist') .. MaxRecords
    <3>1. Len(ops) \in Nat /\ Len(hist) \in Nat /\ MaxRecords \in Nat
      BY <1>1, ClientAssumption
    <3> QED BY <1>1, <1>2, <1>4, <3>1
  <2>3. buried' \in BOOLEAN
    BY <1>1, <1>2
  <2>4. pc' \in {"idle", "sync"} /\ todo' \in Seq(Operation) /\ (pc' # "sync" => todo' = << >>)
    BY <1>1, <1>2, <1>3
  <2>5. pc' \in {"idle", "sync", "down"} /\ pc' # "down"
    BY <2>4
  <2> QED BY <1>1, <1>2, <1>4, <1>5, <2>1, <2>2, <2>3, <2>4, <2>5, TypesNext
<1>7. LogInv'
  <2> SUFFICES ASSUME ~buried'
               PROVE  \E n \in 0 .. Len(hist') : \E torn \in Seq(Cell) :
                        Logged(hist', file', pc', buf', n, torn)
    BY <1>1, <1>2, <1>4, LogNext
  <2>1. ~buried /\ ~TornEnd
    BY <1>2
  <2>2. PICK n \in 0 .. Len(hist) : \E torn \in Seq(Cell) :
                                      Logged(hist, file, pc, buf, n, torn)
    BY <2>1, LogThen DEF StoreInv
  <2>3. PICK torn \in Seq(Cell) : Logged(hist, file, pc, buf, n, torn)
    BY <2>2
  <2>4. ~(ReadLog(file).stop < Len(file)) /\ pc # "down"
    BY <1>2, <2>1 DEF TornEnd
  <2>5. Logged(hist \o ops, file, pc', buf \o Encoded(ops), n, << >>)
    BY <1>1, <2>3, <2>4, LoggedMore
  <2>6. n \in 0 .. Len(hist')
    <3>1. Len(ops) \in Nat /\ Len(hist) \in Nat
      BY <1>1
    <3> QED BY <1>4, <3>1
  <2>7. << >> \in Seq(Cell)
    OBVIOUS
  <2>8. Logged(hist', file', pc', buf', n, << >>)
    BY <1>2, <2>5
  <2> QED BY <2>6, <2>7, <2>8
<1>8. SyncedInv'
  <2> SUFFICES ASSUME ~buried' PROVE SyncedIn(hist', safe', durable')
    BY SyncedNext
  <2>1. SyncedIn(hist, safe, durable)
    BY <1>2, SyncedThen DEF StoreInv
  <2>2. safe \in Nat
    BY <1>1
  <2> QED BY <1>1, <1>2, <2>1, <2>2, SyncedSame
<1>9. MemInv'
  <2> SUFFICES ASSUME ~buried' PROVE MemIn(mem', pc', todo', hist')
    BY MemNext
  <2>1. HoldsIn(mem, hist)
    BY <1>2, MemThen DEF StoreInv, MemIn
  <2>2. CASE flush
    <3>1. Len(hist) \in 0 .. Len(hist')
      <4>1. Len(ops) \in Nat /\ Len(hist) \in Nat
        BY <1>1
      <4> QED BY <1>4, <4>1
    <3>2. SubSeq(hist', 1, Len(hist)) = hist /\ SubSeq(hist', Len(hist) + 1, Len(hist')) = ops
      BY <1>1, <1>2, BackOfConcat
    <3>3. pc' = "sync" /\ todo' = ops /\ mem' = mem
      BY <1>3, <2>2
    <3> QED BY <2>1, <3>1, <3>2, <3>3 DEF MemIn
  <2>3. CASE ~flush
    <3>1. pc' = "idle" /\ mem' = Applied(ops)
      BY <1>2, <1>3, <2>3
    <3>2. HoldsIn(mem', hist')
      BY <1>1, <1>2, <2>1, <3>1, AppliedHolds
    <3> QED BY <3>1, <3>2 DEF MemIn
  <2> QED BY <2>2, <2>3
<1> QED BY <1>6, <1>7, <1>8, <1>9 DEF StoreInv

(* SyncLog: the buffer goes to the disk, and the write is done.             *)
LEMMA SyncLogKeeps ==
  ASSUME StoreInv, SyncLog
  PROVE  StoreInv'
<1>1. /\ MemTyped(mem) /\ sync \in BOOLEAN /\ nextSeq \in Nat /\ now \in 0 .. MaxNow
      /\ opens \in 0 .. MaxOpens /\ buried \in BOOLEAN
      /\ appended \in Len(hist) .. MaxRecords
      /\ hist \in Seq(Operation) /\ todo \in Seq(Operation)
      /\ buf \in Seq(Cell) /\ file \in Seq(Cell)
  BY TypesThen DEF StoreInv
<1>2. /\ pc = "sync" /\ file' = file \o buf /\ buf' = << >> /\ durable' = Len(file')
      /\ mem' = Applied(todo) /\ pc' = "idle" /\ todo' = << >> /\ safe' = Len(hist)
      /\ sync' = sync /\ nextSeq' = nextSeq /\ now' = now /\ opens' = opens
      /\ appended' = appended /\ hist' = hist /\ buried' = buried
  BY DEF SyncLog
<1>3. file' \in Seq(Cell) /\ hist' \in Seq(Operation) /\ Len(file') \in Nat
      /\ Len(hist) \in Nat /\ MaxRecords \in Nat /\ << >> \in Seq(Cell)
      /\ << >> \in Seq(Operation)
  <2>1. file' \in Seq(Cell)
    BY <1>1, <1>2, Joined
  <2> QED BY <1>1, <1>2, <2>1, ClientAssumption
<1>4. TypesInv'
  <2>1. MemTyped(mem')
    BY <1>1, <1>2, AppliedTyped
  <2>2. durable' \in 0 .. Len(file') /\ safe' \in 0 .. MaxRecords
    BY <1>1, <1>2, <1>3
  <2>3. pc' \in {"idle", "sync", "down"} /\ pc' # "sync" /\ pc' # "down"
    BY <1>2
  <2> QED BY <1>1, <1>2, <1>3, <2>1, <2>2, <2>3, TypesNext
<1>5. ASSUME ~buried
      PROVE  \E t \in Seq(Cell) : CutOf(LogRecords(hist), file', Len(hist), t)
  <2>1. PICK n \in 0 .. Len(hist) : \E torn \in Seq(Cell) :
                                      Logged(hist, file, pc, buf, n, torn)
    BY <1>5, LogThen DEF StoreInv
  <2>2. PICK torn \in Seq(Cell) : Logged(hist, file, pc, buf, n, torn)
    BY <2>1
  <2>3. pc # "down"
    BY <1>2
  <2> QED BY <1>1, <1>2, <2>2, <2>3, Flushed
<1>6. LogInv'
  <2> SUFFICES ASSUME ~buried'
               PROVE  \E n \in 0 .. Len(hist') : \E torn \in Seq(Cell) :
                        Logged(hist', file', pc', buf', n, torn)
    BY <1>3, LogNext
  <2>1. PICK t \in Seq(Cell) : CutOf(LogRecords(hist), file', Len(hist), t)
    BY <1>2, <1>5
  <2>2. Logged(hist, file', pc', << >>, Len(hist), t)
    BY <1>1, <2>1, LoggedAll
  <2>3. Len(hist) \in 0 .. Len(hist')
    BY <1>2, <1>3
  <2> QED BY <1>2, <2>2, <2>3
<1>7. SyncedInv'
  <2> SUFFICES ASSUME ~buried' PROVE SyncedIn(hist', safe', durable')
    BY SyncedNext
  <2>1. PICK t \in Seq(Cell) : CutOf(LogRecords(hist), file', Len(hist), t)
    BY <1>2, <1>5
  <2>2. Len(hist) \in 0 .. Len(hist)
    BY <1>3
  <2>3. /\ Encoded(SubSeq(hist, 1, Len(hist))) = Framed(LogRecords(hist))[Len(hist)]
        /\ Framed(LogRecords(hist))[Len(hist)] \in Seq(Cell)
    BY <1>1, <2>2, HistFront
  <2>4. file' = Encoded(SubSeq(hist, 1, Len(hist))) \o t
    BY <2>1, <2>3 DEF CutOf
  <2> DEFINE z == Encoded(SubSeq(hist, 1, Len(hist)))
  <2>5. z \in Seq(Cell)
    BY <2>3
  <2> HIDE DEF z
  <2>6. file' = z \o t
    BY <2>4 DEF z
  <2>7. Len(z) <= Len(file')
    <3>1. Len(file') = Len(z) + Len(t) /\ Len(z) \in Nat /\ Len(t) \in Nat
      BY <2>5, <2>6, Joined, LenProperties
    <3> QED BY <3>1
  <2>8. Len(hist) <= Len(hist)
    BY <1>3
  <2> QED BY <1>2, <2>7, <2>8 DEF SyncedIn, z
<1>8. MemInv'
  <2> SUFFICES ASSUME ~buried' PROVE MemIn(mem', pc', todo', hist')
    BY MemNext
  <2>1. PICK n \in 0 .. Len(hist) : /\ todo = SubSeq(hist, n + 1, Len(hist))
                                    /\ HoldsIn(mem, SubSeq(hist, 1, n))
    BY <1>2, MemThen DEF StoreInv, MemIn
  <2>2. SubSeq(hist, 1, n) \in Seq(Operation) /\ hist = SubSeq(hist, 1, n) \o todo
    BY <1>1, <2>1, FrontAndRest
  <2>3. HoldsIn(Applied(todo), SubSeq(hist, 1, n) \o todo)
    BY <1>1, <2>1, <2>2, AppliedHolds
  <2>4. HoldsIn(mem', hist')
    BY <1>2, <2>2, <2>3
  <2> QED BY <1>2, <2>4 DEF MemIn
<1> QED BY <1>4, <1>6, <1>7, <1>8 DEF StoreInv

(* What Forget does, and that it forgets nothing of the history.            *)
LEMMA ForgetKeeps ==
  ASSUME StoreInv, Forget, file' \in Seq(Cell), durable' = durable, durable <= Len(file'),
         opens' = opens, sync' = sync, now' = now, appended' = appended, hist' = hist,
         safe' = safe, buried' = buried,
         ~buried => \E n \in 0 .. Len(hist) : \E t \in Seq(Cell) :
                       CutOf(LogRecords(hist), file', n, t)
  PROVE  StoreInv'
<1>1. /\ durable \in 0 .. Len(file) /\ sync \in BOOLEAN /\ now \in 0 .. MaxNow
      /\ opens \in 0 .. MaxOpens /\ safe \in 0 .. MaxRecords /\ buried \in BOOLEAN
      /\ appended \in Len(hist) .. MaxRecords /\ hist \in Seq(Operation)
      /\ file \in Seq(Cell)
  BY TypesThen DEF StoreInv
<1>2. pc' = "down" /\ mem' = EmptyMem /\ buf' = << >> /\ todo' = << >> /\ nextSeq' = 1
  BY DEF Forget
<1>3. TypesInv'
  <2>1. MemTyped(mem')
    BY <1>2, EmptyTyped
  <2>2. durable' \in 0 .. Len(file')
    <3>1. Len(file') \in Nat
      OBVIOUS
    <3> QED BY <1>1, <3>1
  <2>3. << >> \in Seq(Cell) /\ << >> \in Seq(Operation) /\ 1 \in Nat
    OBVIOUS
  <2>4. pc' \in {"idle", "sync", "down"} /\ pc' # "sync"
    BY <1>2
  <2> QED BY <1>1, <1>2, <2>1, <2>2, <2>3, <2>4, TypesNext
<1>4. LogInv'
  <2> SUFFICES ASSUME ~buried'
               PROVE  \E n \in 0 .. Len(hist') : \E torn \in Seq(Cell) :
                        Logged(hist', file', pc', buf', n, torn)
    BY <1>1, LogNext
  <2>1. PICK n \in 0 .. Len(hist) : \E t \in Seq(Cell) : CutOf(LogRecords(hist), file', n, t)
    OBVIOUS
  <2>2. PICK t \in Seq(Cell) : CutOf(LogRecords(hist), file', n, t)
    BY <2>1
  <2>3. Logged(hist, file', pc', buf', n, t)
    BY <1>2, <2>2 DEF Logged
  <2> QED BY <2>3
<1>5. SyncedInv'
  BY SyncedThen, SyncedNext DEF StoreInv
<1>6. MemInv'
  BY <1>2, MemNext DEF MemIn
<1> QED BY <1>3, <1>4, <1>5, <1>6 DEF StoreInv

(* The whole records in a file, with the buffer or without it.              *)
LEMMA Whole ==
  ASSUME StoreInv, ~buried
  PROVE  /\ \E n \in 0 .. Len(hist) : \E t \in Seq(Cell) : CutOf(LogRecords(hist), file, n, t)
         /\ \E n \in 0 .. Len(hist) : \E t \in Seq(Cell) :
               CutOf(LogRecords(hist), file \o buf, n, t)
<1>1. hist \in Seq(Operation) /\ file \in Seq(Cell) /\ (pc = "down" => buf = << >>)
      /\ Len(hist) \in Nat
  BY TypesThen DEF StoreInv
<1>2. PICK n \in 0 .. Len(hist) : \E torn \in Seq(Cell) : Logged(hist, file, pc, buf, n, torn)
  BY LogThen DEF StoreInv
<1>3. PICK torn \in Seq(Cell) : Logged(hist, file, pc, buf, n, torn)
  BY <1>2
<1>4. CutOf(LogRecords(hist), file, n, torn)
  BY <1>3 DEF Logged
<1>5. CASE pc = "down"
  <2>1. file \o buf = file
    BY <1>1, <1>5, ConcatEmptySeq
  <2> QED BY <1>4, <2>1
<1>6. CASE pc # "down"
  <2>1. \E t \in Seq(Cell) : CutOf(LogRecords(hist), file \o buf, Len(hist), t)
    BY <1>1, <1>3, <1>6, Flushed
  <2>2. Len(hist) \in 0 .. Len(hist)
    BY <1>1
  <2> QED BY <1>4, <2>1, <2>2
<1> QED BY <1>5, <1>6

(* Exit: the buffer goes to the file.                                       *)
LEMMA ExitKeeps ==
  ASSUME StoreInv, Exit
  PROVE  StoreInv'
<1>1. durable \in 0 .. Len(file) /\ buf \in Seq(Cell) /\ file \in Seq(Cell)
  BY TypesThen DEF StoreInv
<1>2. /\ Forget /\ file' = file \o buf /\ durable' = durable /\ sync' = sync /\ now' = now
      /\ opens' = opens /\ appended' = appended /\ hist' = hist /\ safe' = safe
      /\ buried' = buried
  BY DEF Exit, ghost
<1>3. file' \in Seq(Cell) /\ durable <= Len(file')
  <2>1. file' \in Seq(Cell) /\ Len(file') = Len(file) + Len(buf)
    BY <1>1, <1>2, Joined
  <2>2. Len(file) \in Nat /\ Len(buf) \in Nat
    BY <1>1
  <2> QED BY <1>1, <2>1, <2>2
<1>4. ~buried => \E n \in 0 .. Len(hist) : \E t \in Seq(Cell) :
                    CutOf(LogRecords(hist), file', n, t)
  BY <1>2, Whole
<1> QED BY <1>2, <1>3, <1>4, ForgetKeeps

(* CliFails: process::exit runs no destructor, the file stays what it is.   *)
LEMMA CliFailsKeeps ==
  ASSUME StoreInv, NEW args, CliFails(args)
  PROVE  StoreInv'
<1>1. durable \in 0 .. Len(file) /\ file \in Seq(Cell)
  BY TypesThen DEF StoreInv
<1>2. /\ Forget /\ file' = file /\ durable' = durable /\ sync' = sync /\ now' = now
      /\ opens' = opens /\ appended' = appended /\ hist' = hist /\ safe' = safe
      /\ buried' = buried
  BY DEF CliFails, ghost
<1>3. file' \in Seq(Cell) /\ durable <= Len(file')
  BY <1>1, <1>2
<1>4. ~buried => \E n \in 0 .. Len(hist) : \E t \in Seq(Cell) :
                    CutOf(LogRecords(hist), file', n, t)
  BY <1>2, Whole
<1> QED BY <1>2, <1>3, <1>4, ForgetKeeps

(* Crash: what is left has whole records and a torn one.                    *)
LEMMA CrashKeeps ==
  ASSUME StoreInv, Crash
  PROVE  StoreInv'
<1>1. durable \in 0 .. Len(file) /\ buf \in Seq(Cell) /\ file \in Seq(Cell)
      /\ hist \in Seq(Operation)
  BY TypesThen DEF StoreInv
<1>2. /\ Forget /\ durable' = durable /\ sync' = sync /\ now' = now
      /\ opens' = opens /\ appended' = appended /\ hist' = hist /\ safe' = safe
      /\ buried' = buried
  BY DEF Crash, ghost
<1>3. PICK m \in durable .. Len(file \o buf) : file' = SubSeq(file \o buf, 1, m)
  BY DEF Crash
<1> DEFINE all == file \o buf
<1>4. all \in Seq(Cell) /\ Len(all) = Len(file) + Len(buf) /\ Len(file) \in Nat
      /\ Len(buf) \in Nat
  BY <1>1, Joined
<1>5. m \in 0 .. Len(all) /\ m \in Nat /\ durable <= m /\ m <= Len(all)
  <2>1. Len(all) \in Nat
    BY <1>4
  <2> HIDE DEF all
  <2>2. m \in durable .. Len(all)
    BY DEF all
  <2> QED BY <1>1, <2>1, <2>2
<1>6. file' = SubSeq(all, 1, m)
  BY <1>3
<1>7. ~buried => \E n \in 0 .. Len(hist) : \E t \in Seq(Cell) : CutOf(LogRecords(hist), all, n, t)
  BY Whole
<1> HIDE DEF all
<1>8. file' \in Seq(Cell) /\ durable <= Len(file')
  <2>1. file' \in Seq(Cell) /\ Len(file') = m
    BY <1>4, <1>5, <1>6, FrontPart
  <2> QED BY <1>5, <2>1
<1>9. ASSUME ~buried
      PROVE  \E n \in 0 .. Len(hist) : \E t \in Seq(Cell) : CutOf(LogRecords(hist), file', n, t)
  <2>1. PICK n \in 0 .. Len(hist) : \E t \in Seq(Cell) : CutOf(LogRecords(hist), all, n, t)
    BY <1>7, <1>9
  <2>2. PICK torn \in Seq(Cell) : CutOf(LogRecords(hist), all, n, torn)
    BY <2>1
  <2>3. LogRecords(hist) \in Seq(Framable) /\ n \in 0 .. Len(LogRecords(hist))
    BY <1>1, RecordsTyped
  <2>4. PICK j \in 0 .. n : \E t \in Seq(Cell) : CutOf(LogRecords(hist), SubSeq(all, 1, m), j, t)
    BY <1>4, <1>5, <2>2, <2>3, CutAgain
  <2>5. j \in 0 .. Len(hist)
    <3>1. Len(hist) \in Nat
      BY <1>1
    <3> QED BY <3>1
  <2> QED BY <1>6, <2>4, <2>5
<1> QED BY <1>2, <1>8, <1>9, ForgetKeeps

(* Open: the replay gives back the operations whose records are whole, and  *)
(* among them those that were synced.                                       *)
LEMMA OpenKeeps ==
  ASSUME StoreInv, Open
  PROVE  StoreInv'
<1>1. /\ durable \in 0 .. Len(file) /\ nextSeq \in Nat /\ now \in 0 .. MaxNow
      /\ opens \in 0 .. MaxOpens /\ safe \in 0 .. MaxRecords /\ buried \in BOOLEAN
      /\ appended \in Len(hist) .. MaxRecords /\ (pc # "sync" => todo = << >>)
      /\ (pc = "down" => buf = << >>) /\ hist \in Seq(Operation)
      /\ file \in Seq(Cell) /\ Len(hist) \in Nat /\ Len(file) \in Nat /\ MaxRecords \in Nat
      /\ MaxOpens \in Nat
  BY TypesThen, ClientAssumption DEF StoreInv
<1>2. /\ pc = "down" /\ opens < MaxOpens /\ pc' = "idle" /\ sync' \in BOOLEAN
      /\ opens' = opens + 1 /\ buf' = buf /\ file' = file /\ durable' = durable
      /\ todo' = todo /\ nextSeq' = nextSeq /\ now' = now /\ appended' = appended
      /\ safe' = safe /\ buried' = buried
      /\ mem' = Replayed(ReadLog(file).records)
      /\ hist' = IF buried THEN hist ELSE SubSeq(hist, 1, Len(ReadLog(file).records))
  BY DEF Open, log
<1>3. buf' = << >> /\ todo' = << >> /\ << >> \in Seq(Cell) /\ << >> \in Seq(Operation)
  BY <1>1, <1>2
<1>4. ASSUME ~buried
      PROVE  \E n \in 0 .. Len(hist) : \E torn \in Seq(Cell) :
                /\ CutOf(LogRecords(hist), file, n, torn)
                /\ ReadLog(file).records = LogRecords(SubSeq(hist, 1, n))
                /\ hist' = SubSeq(hist, 1, n)
                /\ hist' \in Seq(Operation) /\ Len(hist') = n
  <2>1. PICK n \in 0 .. Len(hist) : \E t \in Seq(Cell) : CutOf(LogRecords(hist), file, n, t)
    BY <1>4, Whole
  <2>2. PICK torn \in Seq(Cell) : CutOf(LogRecords(hist), file, n, torn)
    BY <2>1
  <2>3. ReadLog(file).records = LogRecords(SubSeq(hist, 1, n))
    BY <1>1, <2>2, ReadCut
  <2>4. SubSeq(hist, 1, n) \in Seq(Operation) /\ Len(SubSeq(hist, 1, n)) = n
    BY <1>1, HistFront
  <2>5. Len(LogRecords(SubSeq(hist, 1, n))) = n
    BY <2>4, RecordsTyped
  <2>6. hist' = SubSeq(hist, 1, n)
    BY <1>2, <1>4, <2>3, <2>5
  <2> QED BY <2>2, <2>3, <2>4, <2>6
<1>5. hist' \in Seq(Operation) /\ Len(hist') <= Len(hist) /\ Len(hist') \in Nat
  <2>1. CASE buried
    BY <1>1, <1>2, <2>1
  <2>2. CASE ~buried
    <3>1. PICK n \in 0 .. Len(hist) : hist' \in Seq(Operation) /\ Len(hist') = n
      BY <1>4, <2>2
    <3> QED BY <1>1, <3>1
  <2> QED BY <2>1, <2>2
<1>6. TypesInv'
  <2>1. MemTyped(mem')
    BY <1>2, ReplayedTyped
  <2>2. appended' \in Len(hist') .. MaxRecords /\ opens' \in 0 .. MaxOpens
    BY <1>1, <1>2, <1>5
  <2>3. pc' \in {"idle", "sync", "down"}
    BY <1>2
  <2> QED BY <1>1, <1>2, <1>3, <1>5, <2>1, <2>2, <2>3, TypesNext
<1>7. ASSUME ~buried'
      PROVE  /\ \E n \in 0 .. Len(hist') : \E torn \in Seq(Cell) :
                   Logged(hist', file', pc', buf', n, torn)
             /\ SyncedIn(hist', safe', durable')
             /\ MemIn(mem', pc', todo', hist')
  <2>1. PICK n \in 0 .. Len(hist) : \E torn \in Seq(Cell) :
                /\ CutOf(LogRecords(hist), file, n, torn)
                /\ ReadLog(file).records = LogRecords(SubSeq(hist, 1, n))
                /\ hist' = SubSeq(hist, 1, n)
                /\ hist' \in Seq(Operation) /\ Len(hist') = n
    BY <1>2, <1>4, <1>7
  <2>2. PICK torn \in Seq(Cell) : CutOf(LogRecords(hist), file, n, torn)
    BY <2>1
  <2>3. Logged(hist', file', pc', buf', n, torn)
    BY <1>1, <1>2, <1>3, <2>1, <2>2, LoggedFirst
  <2>4. n \in 0 .. Len(hist')
    BY <1>5, <2>1
  <2>5. SyncedIn(hist, safe, durable)
    BY <1>2, <1>7, SyncedThen DEF StoreInv
  <2>6. safe <= n
    <3>1. safe \in 0 .. Len(hist)
      BY <1>1, <2>5 DEF SyncedIn
    <3>2. Len(Encoded(SubSeq(hist, 1, safe))) <= Len(file)
      <4> DEFINE s == Len(Encoded(SubSeq(hist, 1, safe)))
      <4>1. s <= durable
        BY <2>5 DEF SyncedIn
      <4>2. Encoded(SubSeq(hist, 1, safe)) \in Seq(Cell)
        BY <1>1, <3>1, HistFront
      <4>3. s \in Nat
        BY <4>2
      <4> HIDE DEF s
      <4>4. s <= Len(file)
        BY <1>1, <4>1, <4>3
      <4> QED BY <4>4 DEF s
    <3> QED BY <1>1, <2>2, <3>1, <3>2, SyncedFirst
  <2>7. SyncedIn(hist', safe', durable')
    <3>1. n \in Nat /\ n <= Len(hist) /\ safe \in Nat
      BY <1>1
    <3>2. SubSeq(hist', 1, safe) = SubSeq(hist, 1, safe)
      BY <1>1, <2>1, <2>6, <3>1, FrontOfFront
    <3> QED BY <1>2, <2>1, <2>5, <2>6, <3>2 DEF SyncedIn
  <2>8. HoldsIn(mem', hist')
    BY <1>2, <2>1, HoldsReplayed
  <2>9. MemIn(mem', pc', todo', hist')
    BY <1>2, <2>8 DEF MemIn
  <2> QED BY <2>3, <2>4, <2>7, <2>9
<1>8. file' \in Seq(Cell)
  BY <1>1, <1>2
<1>9. LogInv' /\ SyncedInv' /\ MemInv'
  BY <1>5, <1>7, <1>8, LogNext, SyncedNext, MemNext
<1> QED BY <1>6, <1>9 DEF StoreInv

(* Steps that change the clock, next_seq, or nothing.                       *)
LEMMA IdleKeeps ==
  ASSUME StoreInv, mem' = mem, buf' = buf, file' = file, durable' = durable, sync' = sync,
         pc' = pc, todo' = todo, nextSeq' = nextSeq, now' \in 0 .. MaxNow, opens' = opens,
         appended' = appended, hist' = hist, safe' = safe, buried' = buried
  PROVE  StoreInv'
<1>1. TypesInv'
  BY DEF StoreInv, TypesInv, TypeOK
<1>2. LogInv'
  <2>1. hist' \in Seq(Operation) /\ file' \in Seq(Cell)
    BY TypesThen DEF StoreInv
  <2>2. ~buried => \E n \in 0 .. Len(hist) : \E torn \in Seq(Cell) :
                      Logged(hist, file, pc, buf, n, torn)
    BY LogThen DEF StoreInv
  <2> QED BY <2>1, <2>2, LogNext
<1>3. SyncedInv'
  BY SyncedThen, SyncedNext DEF StoreInv
<1>4. MemInv'
  BY MemThen, MemNext DEF StoreInv
<1> QED BY <1>1, <1>2, <1>3, <1>4 DEF StoreInv

----------------------------------------------------------------------------
(* The operations clients ask for fit the log.                              *)
LEMMA OpsTyped ==
  ASSUME NEW seq \in Nat, NEW t \in 0 .. MaxNow
  PROVE  /\ \A p \in Puts : Op("put", p[1], p[2], 0, seq) \in Operation
         /\ \A p \in Puts, ttl \in TTLs :
               Op("put_with_ttl", p[1], p[2], t + ttl, seq) \in Operation
         /\ \A k \in Keys : Op("delete", k, << >>, 0, seq) \in Operation
<1>1. Fits(0, U64, Base) /\ << >> \in Seq(Byte)
  BY Widths, FitsZero
<1>2. \A p \in Puts : /\ p[1] \in Keys /\ p[2] \in Seq(Byte)
                      /\ Fits(Largest(p[1], p[2]), U32, Base)
  BY ClientAssumption, WidthsSuffice
<1>3. ASSUME NEW p \in Puts PROVE Op("put", p[1], p[2], 0, seq) \in Operation
  BY <1>1, <1>2 DEF Op, Operation
<1>4. ASSUME NEW p \in Puts, NEW ttl \in TTLs
      PROVE  Op("put_with_ttl", p[1], p[2], t + ttl, seq) \in Operation
  <2>1. ttl \in Nat /\ MaxNow \in Nat
    BY ClientAssumption
  <2>2. t + ttl \in Nat /\ MaxNow + ttl \in Nat /\ t + ttl <= MaxNow + ttl
    BY <2>1
  <2>3. Fits(MaxNow + ttl, U64, Base)
    BY WidthsSuffice
  <2> DEFINE exp == t + ttl
  <2>4. exp \in Nat /\ Fits(exp, U64, Base)
    BY <2>2, <2>3, Widths, FitsBelow
  <2> HIDE DEF exp
  <2>5. Op("put_with_ttl", p[1], p[2], exp, seq) \in Operation
    BY <1>2, <2>4 DEF Op, Operation
  <2> QED BY <2>5 DEF exp
<1>5. ASSUME NEW k \in Keys PROVE Op("delete", k, << >>, 0, seq) \in Operation
  <2>1. Fits(Largest(k, << >>), U32, Base)
    BY WidthsSuffice
  <2> QED BY <1>1, <2>1 DEF Op, Operation
<1> QED BY <1>3, <1>4, <1>5

(* So do the first operations of a batch.                                   *)
LEMMA BatchTyped ==
  ASSUME NEW b \in Batches
  PROVE  /\ b \in Seq(BatchOp)
         /\ \A n \in 0 .. Len(b) : SubSeq(b, 1, n) \in Seq(Operation)
         /\ b \in Seq(Operation)
<1>1. b \in Seq(BatchOp)
  BY ClientAssumption
<1>2. ASSUME NEW i \in 1 .. Len(b) PROVE b[i] \in Operation
  <2>1. b[i] \in BatchOp /\ i \in DOMAIN b
    BY <1>1
  <2>2. Fits(Largest(b[i].key, b[i].val), U32, Base)
    BY <2>1, WidthsSuffice
  <2> DEFINE o == b[i]
  <2>3. Fits(0, U64, Base) /\ << >> \in Seq(Byte)
    BY Widths, FitsZero
  <2>4. o \in BatchOp /\ Fits(Largest(o.key, o.val), U32, Base)
    BY <2>1, <2>2
  <2> SUFFICES o \in Operation
    OBVIOUS
  <2> HIDE DEF o
  <2>5. CASE IsDelete(o)
    <3>1. o.key \in Keys
      BY <2>4 DEF BatchOp
    <3> DEFINE k == o.key
    <3>2. o = BatchDelete(k)
      BY <2>4, <2>5, BatchOpTyped
    <3>3. Fits(Largest(k, << >>), U32, Base)
      BY <3>1, WidthsSuffice
    <3> HIDE DEF k
    <3>4. BatchDelete(k) \in Operation
      BY <2>3, <3>1, <3>3 DEF BatchDelete, Op, Operation, k
    <3> QED BY <3>2, <3>4
  <2>6. CASE ~IsDelete(o)
    <3>1. o.key \in Keys /\ o.val \in Seq(Byte)
      BY <2>3, <2>4 DEF BatchOp
    <3> DEFINE k == o.key
               v == o.val
    <3>2. o = BatchPut(k, v)
      BY <2>4, <2>6, BatchOpTyped
    <3>3. k \in Keys /\ v \in Seq(Byte) /\ Fits(Largest(k, v), U32, Base)
      BY <2>4, <3>1
    <3> HIDE DEF k, v
    <3>4. BatchPut(k, v) \in Operation
      BY <2>3, <3>3 DEF BatchPut, Op, Operation
    <3> QED BY <3>2, <3>4
  <2> QED BY <2>5, <2>6
<1>3. b \in Seq(Operation)
  <2>1. Len(b) \in Nat /\ b = [i \in 1 .. Len(b) |-> b[i]]
    BY <1>1
  <2> QED BY <1>2, <2>1, IsASeq
<1>4. \A n \in 0 .. Len(b) : SubSeq(b, 1, n) \in Seq(Operation)
  BY <1>3, FrontAndRest
<1> QED BY <1>1, <1>3, <1>4

(* What the tool takes from a command line it understands.                  *)
LEMMA CommandTaken ==
  ASSUME NEW args \in Commands, Understood(args)
  PROVE  /\ args[1] = PutWord => \E p \in Puts : args[2] = p[1] /\ args[3] = p[2]
         /\ args[1] = DeleteWord => args[2] \in Keys
         /\ args[1] = BatchWord => ParseBatch(args).ops \in Seq(Operation)
<1>1. PutWord # DeleteWord /\ PutWord # BatchWord /\ DeleteWord # BatchWord
  BY ClientAssumption
<1>2. args \notin BadCommands
  BY BadCommandsAssumption
<1>3. ASSUME NEW b \in Batches, args = Spell(b)
      PROVE  args[1] = BatchWord /\ ParseBatch(args).ops \in Seq(Operation)
  <2>1. b \in Seq(BatchOp) /\ \A n \in 0 .. Len(b) : SubSeq(b, 1, n) \in Seq(Operation)
    BY BatchTyped
  <2>2. args[1] = BatchWord
    BY <1>3, <2>1, SpellStarts
  <2>3. Taken(b) \in 0 .. Len(b) /\ ParseBatch(args).ops = SubSeq(b, 1, Taken(b))
    BY <1>3, <2>1, ParsedSpell
  <2> QED BY <2>1, <2>2, <2>3
<1>4. ASSUME NEW p \in Puts, args = << PutWord, p[1], p[2] >>
      PROVE  args[1] = PutWord /\ args[2] = p[1] /\ args[3] = p[2]
  BY <1>4
<1>5. ASSUME NEW k \in Keys, args = << DeleteWord, k >>
      PROVE  args[1] = DeleteWord /\ args[2] \in Keys
  BY <1>5
<1>6. \/ \E b \in Batches : args = Spell(b)
      \/ \E p \in Puts : args = << PutWord, p[1], p[2] >>
      \/ \E k \in Keys : args = << DeleteWord, k >>
  BY <1>2 DEF Commands
<1>7. CASE \E b \in Batches : args = Spell(b)
  BY <1>1, <1>3, <1>7
<1>8. CASE \E p \in Puts : args = << PutWord, p[1], p[2] >>
  BY <1>1, <1>4, <1>8
<1>9. CASE \E k \in Keys : args = << DeleteWord, k >>
  BY <1>1, <1>5, <1>9
<1> QED BY <1>6, <1>7, <1>8, <1>9

(* Writes by their operations.                                              *)
LEMMA WriteOneKeeps ==
  ASSUME StoreInv, NEW o \in Operation, WriteOne(o)
  PROVE  StoreInv'
<1>1. sync \in BOOLEAN /\ nextSeq \in Nat
  BY TypesThen DEF StoreInv
<1>2. Write(<< o >>, sync) /\ nextSeq' = nextSeq + 1
  BY DEF WriteOne
<1>3. << o >> \in Seq(Operation) /\ nextSeq' \in Nat
  BY <1>1, <1>2
<1> QED BY <1>1, <1>2, <1>3, WriteKeeps

(* WriteBatch keeps the invariant.                                          *)
LEMMA WriteBatchKeeps ==
  ASSUME StoreInv, NEW ops \in Seq(Operation), WriteBatch(ops)
  PROVE  StoreInv'
<1>1. nextSeq \in Nat /\ now \in 0 .. MaxNow
  BY TypesThen DEF StoreInv
<1>2. nextSeq' = nextSeq
  BY DEF WriteBatch
<1>3. CASE ops = << >>
  BY <1>1, <1>2, <1>3, IdleKeeps DEF WriteBatch, log, ghost
<1>4. CASE ops # << >>
  <2>1. Write(ops, TRUE)
    BY <1>4 DEF WriteBatch
  <2> QED BY <1>1, <1>2, <2>1, WriteKeeps
<1> QED BY <1>3, <1>4

(* Every step.                                                              *)
LEMMA StoreNext ==
  ASSUME StoreInv, [Next]_vars
  PROVE  StoreInv'
<1>1. nextSeq \in Nat /\ now \in 0 .. MaxNow
  BY TypesThen DEF StoreInv
<1>2. ASSUME UNCHANGED vars PROVE StoreInv'
  <2>1. /\ mem' = mem /\ buf' = buf /\ file' = file /\ durable' = durable /\ sync' = sync
        /\ pc' = pc /\ todo' = todo /\ nextSeq' = nextSeq /\ now' = now /\ opens' = opens
        /\ appended' = appended /\ hist' = hist /\ safe' = safe /\ buried' = buried
    BY <1>2 DEF vars, log, ghost
  <2> QED BY <1>1, <2>1, IdleKeeps
<1>3. CASE Api
  <2>1. ASSUME NEW p \in Puts, Put(p[1], p[2]) PROVE StoreInv'
    BY <1>1, <2>1, OpsTyped, WriteOneKeeps DEF Put
  <2>2. ASSUME NEW p \in Puts, NEW ttl \in TTLs, PutTtl(p[1], p[2], ttl) PROVE StoreInv'
    BY <1>1, <2>2, OpsTyped, WriteOneKeeps DEF PutTtl
  <2>3. ASSUME NEW k \in Keys, Delete(k) PROVE StoreInv'
    BY <1>1, <2>3, OpsTyped, WriteOneKeeps DEF Delete
  <2>4. ASSUME NEW b \in Batches, WriteBatch(b) PROVE StoreInv'
    BY <2>4, BatchTyped, WriteBatchKeeps
  <2> QED BY <1>3, <2>1, <2>2, <2>3, <2>4 DEF Api
<1>4. CASE Cli
  <2>1. PICK args \in Commands : CliPut(args) \/ CliDelete(args) \/ CliBatch(args)
                                 \/ CliFails(args)
    BY <1>4 DEF Cli
  <2>2. CASE CliPut(args)
    <3>1. Understood(args) /\ args[1] = PutWord /\ Put(args[2], args[3])
      BY <2>2 DEF CliPut
    <3>2. PICK p \in Puts : args[2] = p[1] /\ args[3] = p[2]
      BY <3>1, CommandTaken
    <3>3. WriteOne(Op("put", p[1], p[2], 0, nextSeq))
      BY <3>1, <3>2 DEF Put
    <3> QED BY <1>1, <3>3, OpsTyped, WriteOneKeeps
  <2>3. CASE CliDelete(args)
    <3>1. Understood(args) /\ args[1] = DeleteWord /\ Delete(args[2])
      BY <2>3 DEF CliDelete
    <3>2. args[2] \in Keys
      BY <3>1, CommandTaken
    <3> QED BY <1>1, <3>1, <3>2, OpsTyped, WriteOneKeeps DEF Delete
  <2>4. CASE CliBatch(args)
    <3>1. Understood(args) /\ args[1] = BatchWord /\ WriteBatch(ParseBatch(args).ops)
      BY <2>4 DEF CliBatch
    <3>2. ParseBatch(args).ops \in Seq(Operation)
      BY <3>1, CommandTaken
    <3> QED BY <3>1, <3>2, WriteBatchKeeps
  <2>5. CASE CliFails(args)
    BY <2>5, CliFailsKeeps
  <2> QED BY <2>1, <2>2, <2>3, <2>4, <2>5
<1>5. CASE SyncLog
  BY <1>5, SyncLogKeeps
<1>6. CASE Exit
  BY <1>6, ExitKeeps
<1>7. CASE Crash
  BY <1>7, CrashKeeps
<1>8. CASE Open
  BY <1>8, OpenKeeps
<1>9. CASE OpenFails
  BY <1>2, <1>9 DEF OpenFails
<1>10. CASE Tick
  <2>1. /\ mem' = mem /\ buf' = buf /\ file' = file /\ durable' = durable /\ sync' = sync
        /\ pc' = pc /\ todo' = todo /\ nextSeq' = nextSeq /\ opens' = opens
        /\ appended' = appended /\ hist' = hist /\ safe' = safe /\ buried' = buried
    BY <1>10 DEF Tick, log, ghost
  <2>2. now' \in 0 .. MaxNow
    <3>1. MaxNow \in Nat /\ now' = now + 1 /\ now < MaxNow
      BY <1>10, ClientAssumption DEF Tick
    <3> QED BY <1>1, <3>1
  <2> QED BY <2>1, <2>2, IdleKeeps
<1> QED BY <1>2, <1>3, <1>4, <1>5, <1>6, <1>7, <1>8, <1>9, <1>10 DEF Next

(* What the tool took from a command line.                                  *)
LEMMA AskedNext ==
  ASSUME AskedInv, [Next]_vars
  PROVE  AskedInv'
<1>1. ASSUME asked' = asked PROVE AskedInv'
  BY <1>1 DEF AskedInv
<1>2. ASSUME asked' = NoCall PROVE AskedInv'
  BY <1>2 DEF AskedInv
<1>3. CASE Cli
  <2>1. PICK args \in Commands : CliPut(args) \/ CliDelete(args) \/ CliBatch(args)
                                 \/ CliFails(args)
    BY <1>3 DEF Cli
  <2>2. CASE CliPut(args) \/ CliDelete(args)
    BY <1>1, <2>2 DEF CliPut, CliDelete
  <2>3. CASE CliBatch(args)
    <3>1. asked' = [args |-> args, took |-> ParseBatch(args).ops]
      BY <2>3 DEF CliBatch
    <3>2. asked'.args = args /\ asked'.took = ParseBatch(args).ops
      BY <3>1
    <3> QED BY <3>2 DEF AskedInv
  <2>4. CASE CliFails(args)
    BY <1>2, <2>4 DEF CliFails, Forget
  <2> QED BY <2>1, <2>2, <2>3, <2>4
<1>4. CASE UNCHANGED vars \/ OpenFails
  BY <1>1, <1>4 DEF vars, OpenFails
<1>5. CASE Api \/ Open \/ Tick
  BY <1>1, <1>5 DEF Api, Open, Tick
<1>6. CASE SyncLog \/ Exit \/ Crash
  BY <1>2, <1>6 DEF SyncLog, Exit, Crash, Forget
<1> QED BY <1>3, <1>4, <1>5, <1>6 DEF Next

----------------------------------------------------------------------------
(* In every state of the database, for any keys, values, batches and        *)
(* widths, ByteInv holds: the log is whole records and at most a torn one,  *)
(* the buffer the rest of them, and the memtable what they say.             *)
THEOREM ByteInvariant == Spec => []ByteInv
<1>1. Init => ByteInv
  <2>1. Init => AskedInv
    BY DEF Init, AskedInv
  <2> QED BY <2>1, StoreInit DEF ByteInv, StoreInv
<1>2. ByteInv /\ [Next]_vars => ByteInv'
  <2> SUFFICES ASSUME ByteInv, [Next]_vars PROVE ByteInv'
    OBVIOUS
  <2>1. StoreInv'
    BY StoreNext DEF ByteInv, StoreInv
  <2>2. AskedInv'
    BY AskedNext DEF ByteInv
  <2> QED BY <2>1, <2>2 DEF ByteInv, StoreInv
<1> QED BY <1>1, <1>2, PTL DEF Spec

(* What get decodes is what the last operation on the key said, for every   *)
(* value that packs.                                                        *)
THEOREM BytesReadBack == Spec => []ReadsBack
<1>1. ByteInv => ReadsBack
  <2> SUFFICES ASSUME ByteInv, pc = "idle", ~buried, NEW k \in Keys
               PROVE  IF On(hist, k)
                      THEN LET o == hist[LastOf(hist, k)] IN Packs(o) => Get(k) = Meaning(o)
                      ELSE Get(k) = None
    BY DEF ReadsBack
  <2>1. hist \in Seq(Operation) /\ Holds(hist) /\ now \in Nat
    BY TypesThen DEF ByteInv, MemInv
  <2>2. ASSUME NEW x, mem[k] = Some(x) PROVE Get(k) = UnpackValue(x, now)
    BY <2>2 DEF Get, Some
  <2>3. CASE ~On(hist, k)
    <3>1. mem[k] = None
      BY <2>1, <2>3 DEF Holds
    <3> QED BY <2>3, <3>1 DEF Get, None
  <2>4. CASE On(hist, k)
    <3> DEFINE o == hist[LastOf(hist, k)]
    <3>1. o \in Operation
      <4>1. LastOf(hist, k) \in 1 .. Len(hist)
        BY <2>1, <2>4, LastTyped
      <4> QED BY <2>1, <4>1
    <3>2. mem[k] = Some(StoredBytes(o)) \/ (IsDelete(o) /\ mem[k] = Some(Tombstone))
      BY <2>1, <2>4 DEF Holds
    <3> HIDE DEF o
    <3>3. ASSUME Packs(o) PROVE Get(k) = Meaning(o)
      <4>1. CASE mem[k] = Some(StoredBytes(o))
        BY <2>1, <2>2, <3>1, <3>3, <4>1, Unpacked
      <4>2. CASE IsDelete(o) /\ mem[k] = Some(Tombstone)
        <5>1. Meaning(o) = None
          BY <4>2 DEF Meaning
        <5> QED BY <2>2, <4>2, <5>1, UnpackedTombstone
      <4> QED BY <3>2, <4>1, <4>2
    <3> QED BY <2>4, <3>3 DEF o
  <2> QED BY <2>3, <2>4
<1> QED BY <1>1, ByteInvariant, PTL

(* No crash takes an operation whose write was synced and returned.         *)
THEOREM BytesSurvive == Spec => []AckedSurvive
<1>1. ByteInv => AckedSurvive
  BY DEF ByteInv, SyncedInv, AckedSurvive
<1> QED BY <1>1, ByteInvariant, PTL

(* A log that a crash cut anywhere replays without an error.                *)
THEOREM BytesOpenAgain == Spec => []OpensAgain
<1>1. ByteInv => OpensAgain
  <2> SUFFICES ASSUME ByteInv, ~buried PROVE ReadLog(file).ok
    BY DEF OpensAgain
  <2>1. hist \in Seq(Operation)
    BY TypesThen DEF ByteInv
  <2>2. PICK n \in 0 .. Len(hist) : \E t \in Seq(Cell) : CutOf(LogRecords(hist), file, n, t)
    BY Whole DEF ByteInv, StoreInv
  <2>3. PICK t \in Seq(Cell) : CutOf(LogRecords(hist), file, n, t)
    BY <2>2
  <2> QED BY <2>1, <2>3, ReadCut
<1> QED BY <1>1, ByteInvariant, PTL

(* prefix_scan lists the keys with the prefix, and no others, in any order  *)
(* of bytes, but for the prefixes the property names.                       *)
THEOREM BytesPrefixScans == Spec => []PrefixScans
<1>1. PrefixScans
  <2> SUFFICES ASSUME NEW p \in ScanPrefixes
               PROVE  LET within == UNION {{k} \X Get(k) : k \in {x \in Keys : IsPrefix(p, x)}}
                      IN  /\ (\E i \in DOMAIN p : p[i] < Base - 1) => within \subseteq PrefixScan(p)
                          /\ (p # << >> => p[Len(p)] < Base - 1) => PrefixScan(p) \subseteq within
    BY DEF PrefixScans
  <2> DEFINE within == UNION {{k} \X Get(k) : k \in {x \in Keys : IsPrefix(p, x)}}
  <2>1. p \in Seq(Byte) /\ \A k \in Keys : k \in Seq(Byte)
    BY ClientAssumption
  <2>2. ASSUME \E i \in DOMAIN p : p[i] < Base - 1, NEW e \in within
        PROVE  e \in PrefixScan(p)
    <3>1. PICK k \in Keys : IsPrefix(p, k) /\ e \in {k} \X Get(k)
      BY <2>2
    <3>2. e[1] = k /\ e \in UNION {{x} \X Get(x) : x \in Keys}
      BY <3>1
    <3>3. ~Less(k, p) /\ Less(k, NextKey(p))
      BY <2>1, <2>2, <3>1, PrefixWithin
    <3> QED BY <3>2, <3>3 DEF PrefixScan, Scan
  <2>3. ASSUME p # << >> => p[Len(p)] < Base - 1, NEW e \in PrefixScan(p)
        PROVE  e \in within
    <3>1. e \in UNION {{x} \X Get(x) : x \in Keys} /\ ~Less(e[1], p) /\ Less(e[1], NextKey(p))
      BY <2>3 DEF PrefixScan, Scan
    <3>2. PICK k \in Keys : e \in {k} \X Get(k)
      BY <3>1
    <3>3. e[1] = k
      BY <3>2
    <3>4. IsPrefix(p, k)
      BY <2>1, <2>3, <3>1, <3>3, WithinPrefix
    <3> QED BY <3>2, <3>4
  <2> QED BY <2>2, <2>3
<1> QED BY <1>1, PTL

(* The tool writes the batch its command line spells, if that ends in a put.*)
THEOREM BytesBatchTaken == Spec => []BatchTaken
<1>1. ByteInv => BatchTaken
  <2> SUFFICES ASSUME ByteInv, NEW b \in Batches, asked.args = Spell(b), ~IsDelete(b[Len(b)])
               PROVE  asked.took = b
    BY DEF BatchTaken
  <2>1. b \in Seq(BatchOp)
    BY BatchTyped
  <2>2. asked # NoCall
    <3>1. NoCall.args = << >> /\ Len(<< >>) = 0
      BY DEF NoCall
    <3>2. Len(Spell(b)) >= 1
      BY <2>1, SpellStarts
    <3> QED BY <3>1, <3>2
  <2>3. asked.took = ParseBatch(Spell(b)).ops
    BY <2>2 DEF ByteInv, AskedInv
  <2>4. Taken(b) = Len(b) /\ SubSeq(b, 1, Taken(b)) = b
    <3>1. Taken(b) = Len(b)
      BY DEF Taken
    <3>2. SubSeq(b, 1, Len(b)) = b
      BY <2>1
    <3> QED BY <3>1, <3>2
  <2> QED BY <2>1, <2>3, <2>4, ParsedSpell
<1> QED BY <1>1, ByteInvariant, PTL
=============================================================================
