------------------------------ MODULE SSTable ------------------------------
(***************************************************************************)
(* The SSTable file: how the builder cuts sorted entries into blocks, how a *)
(* block is packed, and how the reader finds a key again through the bloom  *)
(* filter, the index and the block (src/src/sstable, src/src/filter).       *)
(*                                                                         *)
(* A key is a sequence of bytes, because blocks share key prefixes and the  *)
(* order is lexicographic.  A value is known by its length.  Keys are       *)
(* shorter than 2^16 bytes, which is what the length fields of a block hold. *)
(***************************************************************************)
EXTENDS Integers, SequencesExt, ByteOrder

CONSTANTS
    BlockSize,     \* target size of a data block, in bytes
    BitsPerKey,    \* bloom filter bits for each key
    MinBits,       \* least number of bits of a filter (64 in the code)
    NumHashes,     \* optimal_hashes(BitsPerKey)
    HashRange,     \* hashes wrap at this value (2^32 in the code)
    Hash(_)        \* double_hash: a pair <<h1, h2>> for a key

ASSUME FormatAssumption ==
    /\ BlockSize \in Nat /\ BitsPerKey \in Nat
    /\ MinBits \in Nat \ {0} /\ NumHashes \in Nat \ {0} /\ HashRange \in Nat \ {0}

----------------------------------------------------------------------------
(* Blocks.  ENTRY_HEADER bytes are counted for each entry.                  *)
Entry == [key : Seq(Nat), val : Nat]
Packed == [shared : Nat, suffix : Seq(Nat), val : Nat]
Block == [entries : Seq(Entry), size : Nat]

EntryHeader == 8

EntrySize(e) == EntryHeader + Len(e.key) + e.val

(* prefix_shared_len.                                                       *)
SharedLen(a, b) ==
    Max({n \in 0 .. Min({Len(a), Len(b)}) : \A i \in 1 .. n : a[i] = b[i]})

(* Block::encode: each key without the prefix it shares with the key before. *)
Encode(block) ==
    [i \in DOMAIN block |->
        LET key == block[i].key
            shared == IF i = 1 THEN 0 ELSE SharedLen(block[i - 1].key, key)
        IN  [shared |-> shared, suffix |-> SubSeq(key, shared + 1, Len(key)),
             val |-> block[i].val]]

(* Block::decode: every key is rebuilt from the one rebuilt before it ...   *)
DecodedKeys(enc) ==
    LET key[i \in 0 .. Len(enc)] ==
            IF i = 0 THEN << >>
            ELSE SubSeq(key[i - 1], 1, enc[i].shared) \o enc[i].suffix
    IN  key

(* ... and the size of a decoded block is that of its packed form.          *)
Offsets(enc) ==
    LET offset[i \in 0 .. Len(enc)] ==
            IF i = 0 THEN 0
            ELSE offset[i - 1] + EntryHeader + Len(enc[i].suffix) + enc[i].val
    IN  offset

Decode(enc) ==
    [entries |-> [i \in DOMAIN enc |-> [key |-> DecodedKeys(enc)[i], val |-> enc[i].val]],
     size |-> Offsets(enc)[Len(enc)]]

----------------------------------------------------------------------------
(* SSTableBuilder: the packed entries that are written, the index (place    *)
(* and last key of each block), the block being filled and its size.        *)
(* Places are counted in packed entries.                                    *)
NewBuilder == [data |-> << >>, index |-> << >>, current |-> << >>, size |-> 0]

FlushBlock(b) ==
    [data |-> b.data \o Encode(b.current),
     index |-> Append(b.index, [offset |-> Len(b.data), last |-> Last(b.current).key]),
     current |-> << >>, size |-> 0]

Add(b, e) ==
    LET c == IF b.size > 0 /\ b.size + EntrySize(e) > BlockSize THEN FlushBlock(b) ELSE b
    IN  [c EXCEPT !.current = Append(@, e), !.size = @ + EntrySize(e)]

(* The builder after n of the entries.                                      *)
Built(entries) ==
    LET b[n \in 0 .. Len(entries)] ==
            IF n = 0 THEN NewBuilder ELSE Add(b[n - 1], entries[n])
    IN  b

Finish(b) == IF b.current # << >> THEN FlushBlock(b) ELSE b

----------------------------------------------------------------------------
(* BloomFilter for n keys.                                                  *)
NumBits(n) == Max({n * BitsPerKey, MinBits})

(* The bits that stand for a key in a filter of size bits.                  *)
Probes(key, size) ==
    {((Hash(key)[1] + ((i * Hash(key)[2]) % HashRange)) % HashRange) % size :
        i \in 0 .. NumHashes - 1}

BuildBloom(keys) ==
    [numBits |-> NumBits(Len(keys)),
     bits |-> UNION {Probes(keys[i], NumBits(Len(keys))) : i \in DOMAIN keys}]

MayContain(bloom, key) == Probes(key, bloom.numBits) \subseteq bloom.bits

----------------------------------------------------------------------------
(* The file: the packed blocks one after the other, the index, its place    *)
(* and the filter over all keys.                                            *)
File(entries) ==
    LET b == Finish(Built(entries)[Len(entries)])
    IN  [data |-> b.data, index |-> b.index, indexOffset |-> Len(b.data),
         bloom |-> BuildBloom([i \in DOMAIN entries |-> entries[i].key])]

(* Mutant of BlockStart: the last block is taken for the index.             *)
BlockStartEarly(file, i) ==
    IF i < Len(file.index) THEN file.index[i].offset ELSE file.indexOffset

(* Where block i starts; the index comes after the last one.                *)
BlockStart(file, i) ==
    IF i <= Len(file.index) THEN file.index[i].offset ELSE file.indexOffset

(* The slice of the file that load_block decodes: up to the next block, or  *)
(* up to the index.                                                         *)
BlockData(file, i) == SubSeq(file.data, BlockStart(file, i) + 1, BlockStart(file, i + 1))

(* Mutant of BlockFor: a last key equal to the key is passed over.          *)
BlockForPastEqual(file, key) ==
    IF \E i \in DOMAIN file.index : Less(key, file.index[i].last)
    THEN Min({i \in DOMAIN file.index : Less(key, file.index[i].last)})
    ELSE 0

(* The block the index sends a key to: the first whose last key is not less *)
(* than it, 0 when there is none.                                           *)
BlockFor(file, key) ==
    IF \E i \in DOMAIN file.index : ~Less(file.index[i].last, key)
    THEN Min({i \in DOMAIN file.index : ~Less(file.index[i].last, key)})
    ELSE 0

NotFound == -1

(* The search inside a decoded block.                                       *)
InBlock(block, key) ==
    IF \E i \in DOMAIN block.entries : block.entries[i].key = key
    THEN block.entries[CHOOSE i \in DOMAIN block.entries : block.entries[i].key = key].val
    ELSE NotFound

----------------------------------------------------------------------------
(* What a table of entries, in the order of their keys, holds for a key.    *)
Sorted(t) == \A i \in 1 .. Len(t) - 1 : Less(t[i].key, t[i + 1].key)

Written(t, key) ==
    IF \E i \in DOMAIN t : t[i].key = key
    THEN t[CHOOSE i \in DOMAIN t : t[i].key = key].val
    ELSE NotFound
=============================================================================
