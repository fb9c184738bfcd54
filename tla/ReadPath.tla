------------------------------ MODULE ReadPath ------------------------------
(***************************************************************************)
(* SSTable readers that share one block cache.  The engine opens a reader   *)
(* for every SSTable it writes, drops the readers of the tables a           *)
(* compaction replaces, and reads through the others: point lookups (get)   *)
(* and whole tables, block by block (the iterator, used by scan and by      *)
(* compaction).  All of it happens under the engine's mutex: while a table  *)
(* is iterated nothing else happens.  Blocks of a dropped table stay in the *)
(* cache until they are evicted.                                            *)
(***************************************************************************)
EXTENDS SSTable, BlockCache

CONSTANTS
    SstContents, \* contents of the SSTables that get written
    Keys,        \* keys looked up
    MaxSsts      \* bound: SSTables written

ASSUME ContentsAssumption ==
    /\ MaxSsts \in Nat
    /\ \A t \in SstContents : t \in Seq(Entry) /\ t # << >> /\ Sorted(t)

VARIABLES
    ssts,       \* the open readers: id -> [file, entries that were added]
    nextId,     \* next_sst_id
    cache,      \* the shared BlockCache
    iter,       \* the SSTableIterator under way: its table, the next block, what it gave
    recent,     \* history: every block ever read, the last read first
    answer      \* history: what the last read returned and should return

vars == <<ssts, nextId, cache, iter, recent, answer>>

NoIter == [id |-> 0, block |-> 0, got |-> << >>]
Idle == iter = NoIter

CacheKey == [id : 1 .. MaxSsts, block : Nat \ {0}]

TypeOK ==
    /\ nextId \in 1 .. MaxSsts + 1 /\ DOMAIN ssts \subseteq 1 .. nextId - 1
    /\ \A i \in DOMAIN ssts : ssts[i].entries \in SstContents
    /\ DOMAIN cache.map \subseteq CacheKey /\ \A key \in DOMAIN cache.map : cache.map[key] \in Block
    /\ cache.order \in Seq(CacheKey) /\ cache.size \in Nat
    /\ iter \in [id : Nat, block : Nat, got : Seq(Entry)]
    /\ Idle \/ (iter.id \in DOMAIN ssts /\ iter.block \in 1 .. Len(ssts[iter.id].file.index) + 1)
    /\ recent \in Seq(CacheKey)

Init ==
    /\ ssts = << >> /\ nextId = 1
    /\ cache = EmptyCache /\ iter = NoIter /\ recent = << >>
    /\ answer = [got |-> NotFound, want |-> NotFound]

(* Mutant of NewId: the id of a dropped table is given out again.           *)
NewIdReused == 1 + Max(DOMAIN ssts \cup {0})

NewId == nextId

(* What a reader parses from the file that was built from t.                *)
Opened(t) == [file |-> File(t), entries |-> t]

(* maybe_flush and compact_level: build the file, open a reader on it.      *)
OpenSst(t) ==
    /\ Idle /\ nextId <= MaxSsts
    /\ ssts' = [i \in DOMAIN ssts \cup {NewId} |->
                   IF i = NewId THEN Opened(t) ELSE ssts[i]]
    /\ nextId' = nextId + 1
    /\ UNCHANGED <<cache, iter, recent, answer>>

(* compact_level: the reader of a replaced table is dropped.                *)
DropSst(id) ==
    /\ Idle
    /\ ssts' = [i \in DOMAIN ssts \ {id} |-> ssts[i]]
    /\ UNCHANGED <<nextId, cache, iter, recent, answer>>

(* load_block: from the cache c, or decoded from the file and then cached.  *)
Cached(c, id, b) == Capacity > 0 /\ [id |-> id, block |-> b] \in DOMAIN c.map

LoadBlock(c, id, b) ==
    IF Cached(c, id, b) THEN c.map[[id |-> id, block |-> b]]
                        ELSE Decode(BlockData(ssts[id].file, b))

CacheAfter(c, id, b) ==
    LET key == [id |-> id, block |-> b]
    IN  IF Capacity = 0 THEN c
        ELSE IF Cached(c, id, b) THEN Touch(c, key)
        ELSE Insert(c, key, LoadBlock(c, id, b))

(* The read leaves its trace in the cache and in the history.               *)
Load(id, b) ==
    /\ cache' = CacheAfter(cache, id, b)
    /\ recent' = LET key == [id |-> id, block |-> b] IN <<key>> \o Retain(recent, key)

(* SSTableReader::get.                                                      *)
Get(id, key) ==
    LET sst == ssts[id]
        b == BlockFor(sst.file, key)
        found == MayContain(sst.file.bloom, key) /\ b # 0
    IN  /\ Idle
        /\ answer' = [got |-> IF found THEN InBlock(LoadBlock(cache, id, b), key) ELSE NotFound,
                      want |-> Written(sst.entries, key)]
        /\ IF found THEN Load(id, b) ELSE UNCHANGED <<cache, recent>>
        /\ UNCHANGED <<ssts, nextId, iter>>

(* SSTableReader::iter.                                                     *)
Iterate(id) ==
    /\ Idle
    /\ iter' = [id |-> id, block |-> 1, got |-> << >>]
    /\ UNCHANGED <<ssts, nextId, cache, recent, answer>>

(* SSTableIterator::next, over the entries of one block ...                 *)
NextBlock ==
    /\ ~Idle /\ iter.block <= Len(ssts[iter.id].file.index)
    /\ iter' = [iter EXCEPT !.block = @ + 1,
                            !.got = @ \o LoadBlock(cache, iter.id, iter.block).entries]
    /\ Load(iter.id, iter.block)
    /\ UNCHANGED <<ssts, nextId, answer>>

(* ... and past the last one.                                               *)
IterateEnd ==
    /\ ~Idle /\ iter.block > Len(ssts[iter.id].file.index)
    /\ answer' = [got |-> iter.got, want |-> ssts[iter.id].entries]
    /\ iter' = NoIter
    /\ UNCHANGED <<ssts, nextId, cache, recent>>

Next ==
    \/ \E t \in SstContents : OpenSst(t)
    \/ \E id \in DOMAIN ssts : DropSst(id)
    \/ \E id \in DOMAIN ssts, key \in Keys : Get(id, key)
    \/ \E id \in DOMAIN ssts : Iterate(id)
    \/ NextBlock \/ IterateEnd

Spec == Init /\ [][Next]_vars

----------------------------------------------------------------------------
(* ReadsExact: get and the iterator return what was added to the table,     *)
(* whatever the block boundaries, shared prefixes, false positives of the   *)
(* filter and the blocks other tables left in the cache.                    *)
ReadsExact == answer.got = answer.want

(* CacheCoherent: a block cached under the id of an open table is that      *)
(* table's block, also after tables with other ids came and went.           *)
CacheCoherent ==
    \A key \in DOMAIN cache.map :
        key.id \in DOMAIN ssts =>
            cache.map[key] = Decode(BlockData(ssts[key.id].file, key.block))

(* CacheAccounted: the recency list names each cached block once, the total *)
(* is the sum of their sizes, and it stays within the capacity unless one   *)
(* block alone is larger.                                                   *)
CacheAccounted ==
    /\ IsInjective(cache.order) /\ ToSet(cache.order) = DOMAIN cache.map
    /\ cache.size = TotalSize(cache, cache.order)
    /\ cache.size <= Capacity \/ Len(cache.order) = 1

(* LruOrder: the cached blocks are the most recently read ones, in order of *)
(* their last read: no eviction ever takes a block that was read after one  *)
(* it keeps.                                                                *)
LruOrder == Capacity > 0 => IsPrefix(cache.order, recent)

----------------------------------------------------------------------------
(* The inductive invariant the proofs rest on.  A reader's file is the one  *)
(* that was built from what was added ...                                   *)
FilesBuilt == \A id \in DOMAIN ssts : ssts[id] = Opened(ssts[id].entries)

(* ... no block is cached under an id that is still to be given out ...     *)
IdsFresh == \A key \in DOMAIN cache.map : key.id < nextId

(* ... and an iterator has given the entries of the blocks before its next. *)
IterExact ==
    Idle \/ LET sst == ssts[iter.id]
            IN  iter.got = SubSeq(sst.entries, 1, BlockStart(sst.file, iter.block))

(* ReadInv: together with what reads return and what the cache holds, and   *)
(* with a history that names each block once.                               *)
ReadInv ==
    /\ TypeOK /\ FilesBuilt /\ IdsFresh /\ IterExact
    /\ ReadsExact /\ CacheCoherent /\ CacheAccounted /\ LruOrder
    /\ IsInjective(recent)
=============================================================================
