---------------------------- MODULE StoredValues ----------------------------
(***************************************************************************)
(* The bytes the engine stores for a key, and what it reads from them       *)
(* (encode_with_seq to next_key in src/src/engine.rs).  Tables knows a      *)
(* stored value as a record; here it is the byte string itself, because     *)
(* what can be told from the bytes is the question.                         *)
(***************************************************************************)
EXTENDS ByteOrder

CONSTANTS
    Base,      \* number of byte values (256)
    U32, U64   \* bytes of a u32 and of a u64 (4 and 8)

ASSUME WidthAssumption ==
    Base \in Nat /\ Base > 2 /\ U32 \in Nat \ {0} /\ U64 \in Nat \ {0, 1}

Tombstone == << 0 >>
TtlMarker == 1

(* An Option is a set with at most one element.                             *)
None == {}
Some(x) == {x}

EncodeWithSeq(v, seq) == ToLE(seq, U64, Base) \o v

(* decode_with_seq: a string too short for a sequence number has number 0.  *)
DecodeWithSeq(b) ==
    IF Len(b) >= U64 THEN SubSeq(b, U64 + 1, Len(b)) ELSE b

(* put_with_ttl: marker, expiry, value.                                     *)
WrapTtl(v, expiry) == << TtlMarker >> \o ToLE(expiry, U64, Base) \o v

UnwrapTtl(b, now) ==
    IF Len(b) >= 1 + U64 /\ b[1] = TtlMarker
    THEN IF now >= FromLE(SubSeq(b, 2, 1 + U64), Base)
         THEN None
         ELSE Some(SubSeq(b, 2 + U64, Len(b)))
    ELSE Some(b)

UnpackInner(b, now) == IF b = Tombstone THEN None ELSE UnwrapTtl(b, now)

UnpackValue(b, now) == UnpackInner(DecodeWithSeq(b), now)

----------------------------------------------------------------------------
(* Mutant of NextKey: the first byte is counted up instead of the last.     *)
NextKeyFirstByte(prefix) ==
    LET small == {i \in DOMAIN prefix : prefix[i] < Base - 1}
    IN  IF small # {} THEN [prefix EXCEPT ![Min(small)] = @ + 1]
                      ELSE Append(prefix, 0)

(* next_key: the last byte below the greatest is counted up; the bytes      *)
(* behind it stay.  A 0 is appended when there is no such byte.             *)
NextKey(prefix) ==
    LET small == {i \in DOMAIN prefix : prefix[i] < Base - 1}
    IN  IF small # {} THEN [prefix EXCEPT ![Max(small)] = @ + 1]
                      ELSE Append(prefix, 0)
=============================================================================
