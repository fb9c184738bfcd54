---------------------------- MODULE ManifestFile ----------------------------
(***************************************************************************)
(* The MANIFEST as bytes (src/src/manifest.rs).  A manifest is a sequence   *)
(* of levels, each a sequence of metas; the level field of SSTMeta is not   *)
(* written, decodes as 0 and is read by nobody, so it is left out.          *)
(* Engine takes a manifest cut short to be undecodable; here it is checked. *)
(***************************************************************************)
EXTENDS StoredValues

CONSTANTS Magic, Version

Header == Magic \o ToLE(Version, U32, Base)

Counted(bytes) == ToLE(Len(bytes), U32, Base) \o bytes

EncodeMeta(m) == ToLE(m.id, U64, Base) \o Counted(m.min) \o Counted(m.max)

(* The bytes of the first n metas of a level ...                            *)
EncodedMetas(metas) ==
    LET bytes[n \in 0 .. Len(metas)] ==
            IF n = 0 THEN ToLE(Len(metas), U32, Base)
            ELSE bytes[n - 1] \o EncodeMeta(metas[n])
    IN  bytes

EncodeLevel(metas) == EncodedMetas(metas)[Len(metas)]

(* ... and of the first n levels of a manifest.                             *)
EncodedLevels(levels) ==
    LET bytes[n \in 0 .. Len(levels)] ==
            IF n = 0 THEN Header \o ToLE(Len(levels), U32, Base)
            ELSE bytes[n - 1] \o EncodeLevel(levels[n])
    IN  bytes

EncodeManifest(levels) == EncodedLevels(levels)[Len(levels)]

(* A decoder takes a position and gives what it read and where it stopped.  *)
Corruption == [ok |-> FALSE]
Decoded(value, pos) == [ok |-> TRUE, value |-> value, pos |-> pos]

Number(data, pos, width) == FromLE(SubSeq(data, pos + 1, pos + width), Base)

DecodeBytes(data, pos) ==
    IF Len(data) < pos + U32 THEN Corruption
    ELSE LET end == pos + U32 + Number(data, pos, U32)
         IN  IF Len(data) < end THEN Corruption
             ELSE Decoded(SubSeq(data, pos + U32 + 1, end), end)

DecodeMeta(data, pos) ==
    IF Len(data) < pos + U64 THEN Corruption
    ELSE LET min == DecodeBytes(data, pos + U64)
         IN  IF ~min.ok THEN Corruption
             ELSE LET max == DecodeBytes(data, min.pos)
                  IN  IF ~max.ok THEN Corruption
                      ELSE Decoded([id |-> Number(data, pos, U64),
                                    min |-> min.value, max |-> max.value], max.pos)

(* n items one after the other, where item[p] is what is read at place p.   *)
DecodeMany(item, n, pos) ==
    LET read[i \in 0 .. n] ==
            IF i = 0 THEN Decoded(<< >>, pos)
            ELSE IF ~read[i - 1].ok THEN Corruption
            ELSE LET next == item[read[i - 1].pos]
                 IN  IF next.ok THEN Decoded(Append(read[i - 1].value, next.value), next.pos)
                                ELSE Corruption
    IN  read[n]

Places(data) == 0 .. Len(data)

DecodeMetas(data, pos) ==
    DecodeMany([p \in Places(data) |-> DecodeMeta(data, p)], Number(data, pos, U32), pos + U32)

(* Mutant of DecodeLevel: a file that ends here has no more files to name.  *)
DecodeLevelLenient(data, pos) ==
    IF Len(data) < pos + U32 THEN Decoded(<< >>, Len(data)) ELSE DecodeMetas(data, pos)

DecodeLevel(data, pos) ==
    IF Len(data) < pos + U32 THEN Corruption ELSE DecodeMetas(data, pos)

DecodeManifest(data) ==
    LET start == Len(Header) + U32
    IN  IF Len(data) < start \/ SubSeq(data, 1, Len(Header)) # Header THEN Corruption
        ELSE DecodeMany([p \in Places(data) |-> DecodeLevel(data, p)],
                        Number(data, Len(Header), U32), start)

(* load: a file that does not exist is an empty manifest.                   *)
LoadManifest(disk) == IF disk = None THEN Decoded(<< >>, 0)
                      ELSE DecodeManifest(CHOOSE bytes \in disk : TRUE)

----------------------------------------------------------------------------
(* add_sst: the levels up to the given one are created; level 0 is 1 here.  *)
AddMeta(levels, level, m) ==
    [i \in 1 .. Max({Len(levels), level + 1}) |->
        LET old == IF i <= Len(levels) THEN levels[i] ELSE << >>
        IN  IF i = level + 1 THEN Append(old, m) ELSE old]

(* retain: what is left of the first n of a sequence when only the members  *)
(* of kept stay.                                                            *)
Retained(seq, kept) ==
    LET left[n \in 0 .. Len(seq)] ==
            IF n = 0 THEN << >>
            ELSE IF seq[n] \in kept THEN Append(left[n - 1], seq[n]) ELSE left[n - 1]
    IN  left

Retain(seq, kept) == Retained(seq, kept)[Len(seq)]

(* A level without the meta of an id.                                       *)
Without(metas, id) == Retain(metas, {m \in Range(metas) : m.id # id})

(* Mutant of RemoveMeta: only level 0 is searched.                          *)
RemoveMetaTop(levels, id) ==
    [i \in DOMAIN levels |-> IF i = 1 THEN Without(levels[i], id) ELSE levels[i]]

(* remove_sst: from the first level that has the id.                        *)
RemoveMeta(levels, id) ==
    LET has == {i \in DOMAIN levels : \E j \in DOMAIN levels[i] : levels[i][j].id = id}
    IN  [i \in DOMAIN levels |->
            IF has # {} /\ i = Min(has) THEN Without(levels[i], id) ELSE levels[i]]
=============================================================================
