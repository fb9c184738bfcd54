------------------------------- MODULE Engine -------------------------------
(***************************************************************************)
(* The storage engine of src/src/engine.rs together with the memtable, the  *)
(* manifest, the SSTable files and the write-ahead log it drives.           *)
(*                                                                         *)
(* Every engine method runs under one mutex, so operations never overlap.   *)
(* What can happen in the middle of one is the death of the process, so an  *)
(* operation is a sequence of steps cut at every point where the directory  *)
(* changes: pc names the step that comes next, "idle" means that no         *)
(* operation is running and "down" that no process has the directory open.  *)
(*                                                                         *)
(* sync_wal is TRUE (the default): a log record is on disk when the write   *)
(* returns.  A file is either whole or torn; a torn SSTable or manifest     *)
(* does not decode.                                                         *)
(***************************************************************************)
EXTENDS Tables, Sequences

CONSTANTS
    MaxEntries,    \* memtable_size, counted in distinct keys
    L0Threshold,   \* l0_compaction_threshold
    Fanout,        \* growth of the threshold from level to level (10 in the code)
    MaxLevels,     \* max_levels
    TTLs,          \* time-to-live arguments of put_with_ttl
    Batches,       \* the write batches clients submit
    MaxSeq,        \* bound: sequence numbers handed out in one session
    MaxIds,        \* bound: largest SSTable id
    MaxNow,        \* bound: largest reading of the clock
    MaxOpens       \* bound: times the directory is opened again

VARIABLES
    active, frozen,         \* MemTable.active and MemTable.immutable
    out,                    \* entries of the SSTable being written (a local)
    levels,                 \* Manifest.levels: the SSTMeta of every level
    readers,                \* sst_readers: SSTMeta -> contents of the file
    nextId, nextSeq,        \* next_sst_id, next_seq
    nextSlot, base,         \* position stamps that order the Vecs, see Slots
    files,                  \* the .sst files: id -> [whole, table]
    diskManifest,           \* the MANIFEST file: [whole, metas]
    wal,                    \* what a replay of the log file yields
    pc, ret,                \* next step; the step that follows a manifest save
    cursor,                 \* loop variable of maybe_compact
    doomed,                 \* src_ids and dst_ids not yet removed
    batch, idx,             \* argument and loop variable of write_batch
    closing,                \* inside close
    now,                    \* the clock, in seconds
    latest,                 \* history: last stored value written to each key
    opens                   \* times the directory was opened again

mem == <<active, frozen, out>>
sst == <<levels, readers, nextId, nextSlot, base>>
disk == <<files, diskManifest, wal>>
ctl == <<ret, cursor, doomed, batch, idx, closing>>
ghost == <<now, latest, opens>>
vars == <<mem, sst, disk, pc, ctl, nextSeq, ghost>>

BatchOp == [key : Keys, val : Vals \cup {Tomb}]

Threshold(c) == L0Threshold * Fanout ^ c

ASSUME SizesAssumption ==
    /\ MaxEntries \in Nat /\ L0Threshold \in Nat /\ Fanout \in Nat
    /\ MaxLevels \in Nat \ {0}
    /\ \A c \in 0 .. MaxLevels - 1 : Threshold(c) \in Nat \ {0}
ASSUME InputsAssumption ==
    /\ TTLs \subseteq Nat
    /\ Batches \subseteq Seq(BatchOp) \ {<< >>}
ASSUME BoundsAssumption ==
    MaxSeq \in Nat /\ MaxIds \in Nat /\ MaxNow \in Nat /\ MaxOpens \in Nat

----------------------------------------------------------------------------
(* SSTMeta.  A meta also carries slot, the moment it was pushed: within one *)
(* level the manifest keeps push order.                                     *)
Meta == [id : Nat, level : Nat, slot : Nat, lo : Nat, hi : Nat]

EmptyKey == 0     \* the placeholder min_key and max_key repair writes

SstFile == [whole : BOOLEAN, table : Table]
TornFile == [whole |-> FALSE, table |-> EmptyTable]
WholeFile(t) == [whole |-> TRUE, table |-> t]

Steps == {"idle", "log", "apply", "flush", "build", "save", "saving", "resetwal",
          "compact", "merge", "unlink", "close", "closed", "down"}

TypeOK ==
    /\ active \in Table /\ frozen \in Table /\ out \in Table
    /\ levels \subseteq Meta /\ IsFiniteSet(levels)
    /\ DOMAIN readers \subseteq levels
    /\ \A m \in DOMAIN readers : readers[m] \in Table
    /\ nextId \in Nat \ {0} /\ nextSeq \in Nat /\ nextSlot \in Nat /\ base \in Nat
    /\ DOMAIN files \subseteq Nat
    /\ \A i \in DOMAIN files : files[i] \in SstFile
    /\ diskManifest.whole \in BOOLEAN
    /\ diskManifest.metas \subseteq Meta /\ IsFiniteSet(diskManifest.metas)
    /\ wal \in Table
    /\ pc \in Steps /\ ret \in Steps
    /\ cursor \in Nat /\ cursor < MaxLevels
    /\ doomed \subseteq Meta
    /\ batch \in Batches \cup {<< >>} /\ idx \in Nat
    /\ closing \in BOOLEAN
    /\ now \in Nat /\ latest \in Table /\ opens \in Nat

----------------------------------------------------------------------------
(* Mutant of After: a search that walks sst_readers from the front.         *)
AfterReversed(a, b) ==
    IF a.slot >= base \/ b.slot >= base
    THEN a.slot < b.slot
    ELSE a.level < b.level \/ (a.level = b.level /\ a.slot < b.slot)

(* Slots.  sst_readers is a Vec: pushes of this session come after what     *)
(* open loaded, in push order; open loads level 0 first, then level 1, and  *)
(* so on.  base separates the two: After(a, b) says that a stands after b.  *)
After(a, b) ==
    IF a.slot >= base \/ b.slot >= base
    THEN a.slot > b.slot
    ELSE a.level > b.level \/ (a.level = b.level /\ a.slot > b.slot)

(* Of the readers in S that hold k, the last: the one the loop of get over  *)
(* sst_readers.rev() stops at.                                              *)
TopReader(S, k) ==
    CHOOSE m \in S :
        /\ readers[m][k] # NoEntry
        /\ \A o \in S \ {m} : readers[o][k] # NoEntry => After(m, o)

InSsts(S, k) ==
    IF \E m \in S : readers[m][k] # NoEntry
    THEN readers[TopReader(S, k)][k]
    ELSE NoEntry

(* get: the active memtable, the frozen one, then the SSTables.             *)
Lookup(k) ==
    IF active[k] # NoEntry THEN active[k]
    ELSE IF frozen[k] # NoEntry THEN frozen[k]
    ELSE InSsts(DOMAIN readers, k)

(* A reader's place in sst_readers, counted from the front, and the reader  *)
(* at a place.                                                              *)
Place(m) == Cardinality({o \in DOMAIN readers : After(m, o)}) + 1
ReaderAt(n) == CHOOSE m \in DOMAIN readers : Place(m) = n

(* A map after the entries of t from [start, end) were inserted into it.    *)
Insert(map, t, start, end) ==
    [k \in Keys |-> IF t[k] # NoEntry /\ start <= k /\ k < end THEN t[k] ELSE map[k]]

(* Mutant of SstScan: the readers are taken newest first.                   *)
SstScanNewestFirst(start, end) ==
    LET count == Cardinality(DOMAIN readers)
        map[n \in 0 .. count] ==
            IF n = 0 THEN EmptyTable
            ELSE Insert(map[n - 1], readers[ReaderAt(count + 1 - n)], start, end)
    IN  map[count]

(* The loop of scan over sst_readers, front to back: map[n] is the map      *)
(* after n readers.                                                         *)
SstScan(start, end) ==
    LET count == Cardinality(DOMAIN readers)
        map[n \in 0 .. count] ==
            IF n = 0 THEN EmptyTable
            ELSE Insert(map[n - 1], readers[ReaderAt(n)], start, end)
    IN  map[count]

(* MemTable::scan: the frozen list, then the active one.                    *)
MemScan(start, end) ==
    Insert(Insert(EmptyTable, frozen, start, end), active, start, end)

(* scan: the map filled from the SSTables, then from the memtable, without  *)
(* its dead values.                                                         *)
Scan(start, end) ==
    LET map == Insert(SstScan(start, end), MemScan(start, end), start, end)
    IN  {<<k, map[k].val>> : k \in {x \in Keys : Live(map[x], now)}}

----------------------------------------------------------------------------
(* Init: open on a directory that does not exist yet.                       *)
Init ==
    /\ active = EmptyTable /\ frozen = EmptyTable /\ out = EmptyTable
    /\ levels = {} /\ readers = << >> /\ nextId = 1 /\ nextSlot = 1 /\ base = 1
    /\ files = << >> /\ diskManifest = [whole |-> TRUE, metas |-> {}]
    /\ wal = EmptyTable
    /\ pc = "idle" /\ ret = "idle" /\ cursor = 0 /\ doomed = {}
    /\ batch = << >> /\ idx = 0 /\ closing = FALSE
    /\ nextSeq = 1 /\ now = 0 /\ latest = EmptyTable /\ opens = 0

(* An id for each SSTable the operation may write: a flush and, after it,   *)
(* one compaction of each level but the last.                               *)
Room == nextId + MaxLevels <= MaxIds

(* Mutant of MemPut: freeze does not look whether the slot is free.         *)
MemPutOverFrozen(k, e) ==
    LET grown == [active EXCEPT ![k] = e]
        full == Cardinality(Held(grown)) > MaxEntries
    IN  /\ active' = IF full THEN EmptyTable ELSE grown
        /\ frozen' = IF full THEN grown ELSE frozen
        /\ UNCHANGED out

(* MemTable::put: upsert into the active list, which is frozen when it has  *)
(* grown past its limit and the immutable slot is free.                     *)
MemPut(k, e) ==
    LET grown == [active EXCEPT ![k] = e]
        full == Cardinality(Held(grown)) > MaxEntries /\ frozen = EmptyTable
    IN  /\ active' = IF full THEN EmptyTable ELSE grown
        /\ frozen' = IF full THEN grown ELSE frozen
        /\ UNCHANGED out

(* maybe_flush has work to do only when the immutable slot is taken.        *)
ThenMaybeFlush == pc' = IF frozen' # EmptyTable THEN "flush" ELSE "idle"

(* The log after a record for k was appended and synced.                    *)
Logged(k, e) == [wal EXCEPT ![k] = e]

(* The common body of put, delete and put_with_ttl: log, flush the log,     *)
(* insert into the memtable, maybe_flush.  logged is what a replay of the   *)
(* record yields, e what goes into the memtable.                            *)
WriteOne(k, e, logged) ==
    /\ pc = "idle" /\ Room /\ nextSeq <= MaxSeq
    /\ nextSeq' = nextSeq + 1
    /\ wal' = Logged(k, logged)
    /\ MemPut(k, e)
    /\ ThenMaybeFlush
    /\ latest' = [latest EXCEPT ![k] = e]
    /\ UNCHANGED <<sst, files, diskManifest, ctl, now, opens>>

Put(k, v) ==
    LET e == Stored(v, nextSeq, Never) IN WriteOne(k, e, e)

(* replay_wal turns a Delete record into the bare marker, sequence number 0. *)
Delete(k) == WriteOne(k, Stored(Tomb, nextSeq, Never), Stored(Tomb, 0, Never))

PutTtl(k, v, ttl) ==
    LET e == Stored(v, nextSeq, now + ttl) IN WriteOne(k, e, e)

(* write_batch stores raw values: no sequence number is taken or encoded.   *)
BatchEntry(op) == Stored(op.val, 0, Never)

WriteBatch(b) ==
    /\ pc = "idle" /\ Room
    /\ batch' = b /\ idx' = 1 /\ pc' = "log"
    /\ UNCHANGED <<mem, sst, disk, ret, cursor, doomed, closing, nextSeq, ghost>>

(* One log record for each operation of the batch.  They share one buffer,  *)
(* which may reach the file in any prefix.                                  *)
BatchLog ==
    /\ pc = "log"
    /\ wal' = Logged(batch[idx].key, BatchEntry(batch[idx]))
    /\ IF idx = Len(batch) THEN pc' = "apply" /\ idx' = 1
                           ELSE pc' = pc /\ idx' = idx + 1
    /\ UNCHANGED <<mem, sst, files, diskManifest, ret, cursor, doomed, batch, closing,
                   nextSeq, ghost>>

(* One memtable put for each operation of the batch, then maybe_flush.      *)
BatchApply ==
    /\ pc = "apply"
    /\ LET op == batch[idx]
       IN  /\ MemPut(op.key, BatchEntry(op))
           /\ latest' = [latest EXCEPT ![op.key] = BatchEntry(op)]
    /\ IF idx = Len(batch)
       THEN ThenMaybeFlush /\ batch' = << >> /\ idx' = 0
       ELSE UNCHANGED <<pc, batch>> /\ idx' = idx + 1
    /\ UNCHANGED <<sst, disk, ret, cursor, doomed, closing, nextSeq, now, opens>>

----------------------------------------------------------------------------
(* maybe_flush: take_immutable, allocate an id, create the file.            *)
FlushBegin ==
    /\ pc = "flush"
    /\ out' = frozen /\ frozen' = EmptyTable
    /\ nextId' = nextId + 1
    /\ files' = [i \in DOMAIN files \cup {nextId} |->
                    IF i = nextId THEN TornFile ELSE files[i]]
    /\ pc' = "build"
    /\ UNCHANGED <<active, levels, readers, nextSlot, base, diskManifest, wal, ctl,
                   nextSeq, ghost>>

(* builder.finish, SSTableReader::open, add_sst and the push of the reader  *)
(* for the SSTable begun last: its entries are out, its range theirs.       *)
AddSst(level) ==
    \E lo, hi \in Keys :
        LET id == nextId - 1
            m == [id |-> id, level |-> level, slot |-> nextSlot, lo |-> lo, hi |-> hi]
        IN  /\ Spans(out, lo, hi)
            /\ files' = [i \in DOMAIN files \cup {id} |->
                            IF i = id THEN WholeFile(out) ELSE files[i]]
            /\ levels' = levels \cup {m}
            /\ readers' = [r \in DOMAIN readers \cup {m} |->
                              IF r = m THEN out ELSE readers[r]]
            /\ nextSlot' = nextSlot + 1
            /\ out' = EmptyTable

(* Mutant of FlushBuild: the log is truncated before the manifest is saved. *)
FlushBuildResetFirst ==
    /\ pc = "build"
    /\ AddSst(0)
    /\ pc' = "save" /\ ret' = "resetwal"
    /\ wal' = EmptyTable
    /\ UNCHANGED <<active, frozen, nextId, base, diskManifest, cursor, doomed,
                   batch, idx, closing, nextSeq, ghost>>

FlushBuild ==
    /\ pc = "build"
    /\ AddSst(0)
    /\ pc' = "save" /\ ret' = "resetwal"
    /\ UNCHANGED <<active, frozen, nextId, base, diskManifest, wal, cursor, doomed,
                   batch, idx, closing, nextSeq, ghost>>

(* Manifest::save: File::create truncates the file ...                      *)
SaveBegin ==
    /\ pc = "save"
    /\ diskManifest' = [whole |-> FALSE, metas |-> {}]
    /\ pc' = "saving"
    /\ UNCHANGED <<mem, sst, files, wal, ctl, nextSeq, ghost>>

(* What encode writes: the metas, by level, in push order.                  *)
EncodedManifest == [whole |-> TRUE, metas |-> levels]

(* ... and write_all with sync_all makes it whole again.                    *)
SaveEnd ==
    /\ pc = "saving"
    /\ diskManifest' = EncodedManifest
    /\ pc' = ret
    /\ UNCHANGED <<mem, sst, files, wal, ctl, nextSeq, ghost>>

ResetWal ==
    /\ pc = "resetwal"
    /\ wal' = EmptyTable
    /\ cursor' = 0 /\ pc' = "compact"
    /\ UNCHANGED <<mem, sst, files, diskManifest, ret, doomed, batch, idx, closing,
                   nextSeq, ghost>>

----------------------------------------------------------------------------
(* ssts_at_level.                                                           *)
SstsAtLevel(c) == {m \in levels : m.level = c}

(* Mutant of Below: a level may also be exactly at its threshold.           *)
BelowOrAt(c) == Cardinality(SstsAtLevel(c)) <= Threshold(c)

(* The test of maybe_compact: no compaction of level c is due.              *)
Below(c) == Cardinality(SstsAtLevel(c)) < Threshold(c)

(* Mutant of LastLevel: the loop of maybe_compact runs over all levels.     *)
LastLevelTooFar == MaxLevels

(* Where the loop of maybe_compact stops: the last level is never compacted. *)
LastLevel == MaxLevels - 1

(* Mutant of Sources: the newest file of the level is left where it is.     *)
SourcesButNewest(c) ==
    {m \in SstsAtLevel(c) : \/ SstsAtLevel(c) = {m}
                            \/ \E o \in SstsAtLevel(c) : o.slot > m.slot}

(* src_metas.                                                               *)
Sources(c) == SstsAtLevel(c)

(* Mutant of Overlapping: files are compared with the lower end of the      *)
(* source range only.                                                       *)
OverlappingLowEnd(c) ==
    {m \in SstsAtLevel(c + 1) : /\ \E s \in Sources(c) : m.hi >= s.lo
                                /\ \A s \in Sources(c) : m.lo <= s.lo}

(* dst_metas: the next level's files that meet [global_min, global_max].    *)
Overlapping(c) ==
    {m \in SstsAtLevel(c + 1) : /\ \E s \in Sources(c) : m.hi >= s.lo
                                /\ \E s \in Sources(c) : m.lo <= s.hi}

(* What compact_level reads through find(|m| m.id == id): readers that      *)
(* share an id were opened on the same file.                                *)
Contents(m) ==
    IF \E r \in DOMAIN readers : r.id = m.id
    THEN readers[CHOOSE r \in DOMAIN readers : r.id = m.id]
    ELSE EmptyTable

(* Mutant of MergedAfter: the destination level is merged over the source.  *)
MergedAfterSwapped(a, b) == a.level > b.level \/ (a.level = b.level /\ a.slot > b.slot)

(* The merge loop inserts destination files first, then source files, each  *)
(* in manifest order: a is inserted after b.                                *)
MergedAfter(a, b) == a.level < b.level \/ (a.level = b.level /\ a.slot > b.slot)

(* all_entries after the loop and after retain dropped what is not live.    *)
Merge(S) ==
    [k \in Keys |->
        IF \E m \in S : Contents(m)[k] # NoEntry
        THEN LET last == CHOOSE m \in S :
                            /\ Contents(m)[k] # NoEntry
                            /\ \A o \in S \ {m} : Contents(o)[k] # NoEntry
                                                     => MergedAfter(m, o)
                 e == Contents(last)[k]
             IN  IF Live(e, now) THEN e ELSE NoEntry
        ELSE NoEntry]

(* Mutant of CompactSkip: the loop variable is not advanced.                *)
CompactSkipStuck ==
    /\ pc = "compact" /\ cursor < LastLevel
    /\ Below(cursor)
    /\ UNCHANGED vars

CompactSkip ==
    /\ pc = "compact" /\ cursor < LastLevel
    /\ Below(cursor)
    /\ cursor' = cursor + 1
    /\ UNCHANGED <<mem, sst, disk, pc, ret, doomed, batch, idx, closing, nextSeq, ghost>>

(* compact_level up to the creation of the new file, if there is anything   *)
(* to put in it.                                                            *)
CompactBegin ==
    LET olds == Sources(cursor) \cup Overlapping(cursor)
        merged == Merge(olds)
    IN  /\ pc = "compact" /\ cursor < LastLevel
        /\ ~Below(cursor)
        /\ doomed' = olds
        /\ IF merged = EmptyTable
           THEN pc' = "unlink" /\ UNCHANGED <<out, nextId, files>>
           ELSE /\ pc' = "merge"
                /\ out' = merged
                /\ nextId' = nextId + 1
                /\ files' = [i \in DOMAIN files \cup {nextId} |->
                                IF i = nextId THEN TornFile ELSE files[i]]
        /\ UNCHANGED <<active, frozen, levels, readers, nextSlot, base, diskManifest,
                       wal, ret, cursor, batch, idx, closing, nextSeq, ghost>>

CompactBuild ==
    /\ pc = "merge"
    /\ AddSst(cursor + 1)
    /\ pc' = "unlink"
    /\ UNCHANGED <<active, frozen, nextId, base, diskManifest, wal, ctl, nextSeq, ghost>>

(* remove_sst: the metas with this id in the first level that has one.      *)
RemovedBy(id) ==
    {m \in levels : m.id = id /\ \A o \in levels : o.id = id => m.level <= o.level}

(* One round of the removal loop: src_ids come before dst_ids.  After the   *)
(* last one the manifest is saved and maybe_compact goes on.                *)
Unlink ==
    \E m \in doomed :
        /\ pc = "unlink"
        /\ \A o \in doomed \ {m} : m.level < o.level \/ (m.level = o.level /\ m.slot < o.slot)
        /\ levels' = levels \ RemovedBy(m.id)
        /\ readers' = [r \in {x \in DOMAIN readers : x.id # m.id} |-> readers[r]]
        /\ files' = [i \in DOMAIN files \ {m.id} |-> files[i]]
        /\ doomed' = doomed \ {m}
        /\ IF doomed' = {} THEN pc' = "save" /\ ret' = "compact" /\ cursor' = cursor + 1
                           ELSE UNCHANGED <<pc, ret, cursor>>
        /\ UNCHANGED <<mem, nextId, nextSlot, base, diskManifest, wal, batch, idx,
                       closing, nextSeq, ghost>>

(* maybe_compact returns, and with it the operation.                        *)
CompactEnd ==
    /\ pc = "compact" /\ cursor = LastLevel
    /\ pc' = IF closing THEN "close" ELSE "idle"
    /\ UNCHANGED <<mem, sst, disk, ctl, nextSeq, ghost>>

----------------------------------------------------------------------------
(* close: freeze and flush what the memtable holds (at rest the immutable   *)
(* slot is free, so the first maybe_flush of close finds nothing to do) ... *)
Close ==
    /\ pc = "idle" /\ Room
    /\ closing' = TRUE
    /\ IF active = EmptyTable
       THEN pc' = "close" /\ UNCHANGED <<active, frozen>>
       ELSE pc' = "flush" /\ frozen' = active /\ active' = EmptyTable
    /\ UNCHANGED <<out, sst, disk, ret, cursor, doomed, batch, idx, nextSeq, ghost>>

(* ... then save the manifest once more ...                                 *)
CloseSave ==
    /\ pc = "close"
    /\ pc' = "save" /\ ret' = "closed"
    /\ UNCHANGED <<mem, sst, disk, cursor, doomed, batch, idx, closing, nextSeq, ghost>>

(* The engine's memory is gone; the directory stays.                        *)
Forget ==
    /\ pc' = "down" /\ ret' = "idle"
    /\ active' = EmptyTable /\ frozen' = EmptyTable /\ out' = EmptyTable
    /\ levels' = {} /\ readers' = << >> /\ nextId' = 1
    /\ cursor' = 0 /\ doomed' = {} /\ batch' = << >> /\ idx' = 0 /\ closing' = FALSE
    /\ nextSeq' = 1

(* ... and drop the engine, which ends the session.                         *)
Closed ==
    /\ pc = "closed"
    /\ Forget
    /\ UNCHANGED <<nextSlot, base, disk, ghost>>

(* The process dies, between or inside operations.  A batch that was being  *)
(* logged counts as written as far as its records reached the log.          *)
Kill ==
    /\ pc # "down"
    /\ Forget
    /\ latest' = [k \in Keys |-> IF pc \in {"log", "apply"} /\ wal[k] # NoEntry
                                 THEN wal[k] ELSE latest[k]]
    /\ UNCHANGED <<nextSlot, base, disk, now, opens>>

(* Manifest::decode: a manifest that was cut short is Corruption.           *)
ManifestDecodes == diskManifest.whole

(* Manifest::load succeeds, and every file it names that exists opens.      *)
Openable ==
    /\ ManifestDecodes
    /\ \A m \in diskManifest.metas : m.id \in DOMAIN files => files[m.id].whole

(* Mutant of Present: only the files of level 0 are opened.                 *)
PresentLevel0 == {m \in diskManifest.metas : m.id \in DOMAIN files /\ m.level = 0}

(* The metas of the manifest whose file exists: each gets a reader.         *)
Present == {m \in diskManifest.metas : m.id \in DOMAIN files}

(* Mutant of Replayed: the log is not read.                                 *)
ReplayedNothing == EmptyTable

(* The memtable replay_wal builds: it never freezes, whatever its size.     *)
Replayed == wal

(* open_with_options on an existing directory: metas whose file is missing  *)
(* stay in the manifest without a reader and do not count for next_sst_id.  *)
Open ==
    /\ pc = "down" /\ Openable /\ opens < MaxOpens
    /\ levels' = diskManifest.metas
    /\ readers' = [m \in Present |-> files[m.id].table]
    /\ \E n \in 1 .. MaxIds + 1 : /\ \A m \in Present : m.id < n
                                  /\ n = 1 \/ \E m \in Present : m.id = n - 1
                                  /\ nextId' = n
    /\ active' = Replayed
    /\ base' = nextSlot
    /\ opens' = opens + 1
    /\ pc' = "idle"
    /\ UNCHANGED <<frozen, out, nextSlot, disk, ctl, nextSeq, now, latest>>

(* open returns Corruption and nothing has changed.                         *)
OpenFails ==
    /\ pc = "down" /\ ~Openable
    /\ UNCHANGED vars

(* The files repair keeps: those SSTableReader::open accepts.               *)
Good == {i \in DOMAIN files : files[i].whole}

(* Engine::repair: every file that opens goes to level 0, in the order      *)
(* read_dir happens to list them and with placeholder ranges; the others    *)
(* are removed; the log is emptied.                                         *)
Repair ==
    /\ pc = "down"
    /\ LET n == Cardinality(Good)
       IN  /\ \E pos \in [Good -> 1 .. n] :
                /\ \A i, j \in Good : pos[i] = pos[j] => i = j
                /\ diskManifest' =
                     [whole |-> TRUE,
                      metas |-> {[id |-> i, level |-> 0, slot |-> pos[i],
                                  lo |-> EmptyKey, hi |-> EmptyKey] : i \in Good}]
           /\ nextSlot' = n + 1
           /\ files' = [i \in Good |-> files[i]]
    /\ wal' = EmptyTable
    /\ UNCHANGED <<mem, levels, readers, nextId, base, pc, ctl, nextSeq, ghost>>

(* A second passes; the clock is taken not to run backwards.                *)
Tick ==
    /\ now < MaxNow
    /\ now' = now + 1
    /\ UNCHANGED <<mem, sst, disk, pc, ctl, nextSeq, latest, opens>>

----------------------------------------------------------------------------
(* The steps of an operation that has begun.                                *)
Internal ==
    \/ BatchLog \/ BatchApply
    \/ FlushBegin \/ FlushBuild \/ SaveBegin \/ SaveEnd \/ ResetWal
    \/ CompactSkip \/ CompactBegin \/ CompactBuild \/ Unlink \/ CompactEnd
    \/ CloseSave

Request ==
    \/ \E k \in Keys, v \in Vals : Put(k, v)
    \/ \E k \in Keys : Delete(k)
    \/ \E k \in Keys, v \in Vals, ttl \in TTLs : PutTtl(k, v, ttl)
    \/ \E b \in Batches : WriteBatch(b)
    \/ Close

(* One session on a new directory, up to the end of its close.              *)
SessionNext == Internal \/ Request \/ Tick
Session == Init /\ [][SessionNext]_vars

(* Sessions that end in a close ...                                         *)
RestartNext == SessionNext \/ Closed \/ Open
RestartSpec == Init /\ [][RestartNext]_vars
FairRestartSpec == RestartSpec /\ WF_vars(Internal)

(* ... or in the death of the process ...                                   *)
CrashNext == RestartNext \/ Kill \/ OpenFails
CrashSpec == Init /\ [][CrashNext]_vars

(* ... after which repair may be run where the log has nothing to lose.     *)
MaintainedNext == CrashNext \/ (wal = EmptyTable /\ Repair)

----------------------------------------------------------------------------
(* NoStaleRead: between operations, get on a key whose last write is still  *)
(* live finds that very write, however flushes and compactions have moved   *)
(* it; an older value or an older tombstone of the key never hides it.      *)
NoStaleRead ==
    pc = "idle" =>
        \A k \in Keys : Live(latest[k], now) => Lookup(k) = latest[k]

(* ReadsLatest: what get returns is what the last write of the key says;    *)
(* in particular a deleted or expired key stays missing.                    *)
ReadsLatest ==
    pc = "idle" =>
        \A k \in Keys : Visible(Lookup(k), now) = Visible(latest[k], now)

(* ScansLatest: scan, which overwrites from the oldest reader to the active *)
(* list where get stops at the newest hit, lists exactly the keys of        *)
(* [start, end) whose last write is live, with the value of that write.     *)
ScansLatest ==
    pc = "idle" =>
        \A start, end \in Keys \cup {k + 1 : k \in Keys} :
            Scan(start, end) =
                {<<k, latest[k].val>> : k \in {x \in Keys : /\ start <= x /\ x < end
                                                            /\ Live(latest[x], now)}}

(* NothingLost: the last write of a key, while live, is held by a memtable  *)
(* or by an open SSTable, whatever the order they are searched in.          *)
NothingLost ==
    pc = "idle" =>
        \A k \in Keys : Live(latest[k], now) =>
            \/ latest[k] \in {active[k], frozen[k]}
            \/ \E m \in DOMAIN readers : readers[m][k] = latest[k]

(* OpensAfterCrash: a directory the engine left behind opens again.         *)
OpensAfterCrash == pc = "down" => Openable

(* LevelsDisjoint: below level 0 the files of a level have disjoint key     *)
(* ranges, leaving aside those the running compaction is about to remove.   *)
LevelsDisjoint ==
    \A a, b \in levels \ doomed :
        a # b /\ a.level = b.level /\ a.level > 0 => a.hi < b.lo \/ b.hi < a.lo

(* LevelOrder: of two files, the one pushed later is never on a deeper      *)
(* level, in this session or over a restart: deeper levels hold older data. *)
LevelOrder ==
    pc # "down" =>
        \A a, b \in levels \ doomed : a.slot > b.slot => a.level <= b.level

(* BelowThreshold: when an operation returns, compaction has brought every  *)
(* level but the last below its capacity.                                   *)
BelowThreshold ==
    pc = "idle" =>
        \A c \in 0 .. MaxLevels - 2 : Cardinality(SstsAtLevel(c)) < Threshold(c)

(* OpCompletes: an operation that has begun returns; flush, the compactions *)
(* that cascade from level to level and the removal loops come to an end.   *)
OpCompletes == pc # "idle" ~> pc \in {"idle", "closed", "down"}
=============================================================================
