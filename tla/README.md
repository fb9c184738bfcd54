# A TLA+ verification of rust-kvdb

This directory specifies and checks `src/` (crate `kv-engine`): an LSM-tree
key-value store with a write-ahead log, a memtable, SSTables in levels,
compaction, a block cache, crash recovery, a thread-safe handle, a command line
tool and an HTTP server. Source paths below are relative to `src/src/`.

## The system

| component | source | state | operations | hard part |
|---|---|---|---|---|
| storage engine | `engine.rs` | memtable, manifest, readers, `next_sst_id`, `next_seq`, log writer | put, delete, put_with_ttl, write_batch, get, get_at, scan, prefix_scan, close, open, repair; inside: flush, compaction, log reset, replay | order of directory updates against crashes; which copy of a key is found first |
| memtable | `memtable/memtable.rs` | active list, immutable slot | put with freeze, put_no_freeze, take_immutable | one immutable slot only |
| skip list | `memtable/skiplist.rs` | linked towers, size | insert (upsert), get, scan | raw pointers, size estimate |
| manifest | `manifest.rs` | SSTMeta per level | load, save, add_sst, remove_sst | rewritten in place |
| log | `wal/writer.rs`, `wal/record.rs` | file, buffer | append, flush, iterate | torn last record, appending behind it |
| SSTable | `sstable/*.rs` | file: blocks, index, filter | build, get, iterate | block boundaries, prefix compression |
| bloom filter | `filter/bloom.rs` | bits | build, may_contain | no false negatives |
| block cache | `cache/block_cache.rs` | map, recency list, byte total | get, put with eviction | accounting; shared between readers |
| write batch | `write_batch.rs` | list of operations | put, delete | said to be atomic |
| DB handle | end of `engine.rs` | mutex, reference count, metrics | all of the above, one at a time | poisoning; close with other handles |
| merge iterator | `compaction/merge_iterator.rs` | heap | next | not called by the engine |
| CLI | `bin/cli.rs` | none | one DB call each | parser of `batch` |
| HTTP server | `http/*.rs` | a shared handle | one DB call per request | concurrent requests |

How they interact: a write appends to the log, syncs it, inserts into the
memtable; when the memtable is full its list moves to the immutable slot and
the same call flushes it to a level-0 SSTable, saves the manifest, empties the
log, and compacts every level that reached its threshold. A read asks the
memtable and then the readers from the last of `sst_readers` to the first; readers go
through the shared block cache. Everything of the engine runs under one mutex on
the caller's thread: there is no background work. Threads and HTTP requests meet at
that mutex and at the reference count of the handle. What can interfere with an
operation of the engine is the death of the process in its middle, and what can
go wrong otherwise takes a long history of flushes, compactions and restarts.

What makes the parts correct:

- engine: a read returns the last write; nothing acknowledged is lost, also
  over crashes and restarts; a directory can be opened again; an operation ends;
- levels: files of one level below 0 are disjoint, deeper levels are older,
  levels stay below their thresholds; the manifest names exactly the files;
- log: what was synced survives a crash that cuts the file anywhere, and the
  cut file replays; bytes of keys and values come back as they were written;
- skip list: sorted, no dangling pointer, no leak, get agrees with iteration;
- SSTable, filter, cache: a lookup returns what was written; a cached block
  belongs to the file it is cached for; the cache keeps to its capacity and
  evicts the least recently used;
- handle: one thread at a time inside, no lost update, a call returns, what a
  panic left half done is never seen, close takes the engine only when nobody
  else can reach it.

## Modules

| module | what it is |
|---|---|
| `KVStore` | abstract specification: a map with expiry and a clock |
| `Tables` | stored values (sequence number, value or tombstone, expiry) and tables of them |
| `Engine` | engine, memtable, manifest, log and files as one state machine |
| `Snapshots` | `Engine` with a client that holds a snapshot and reads at it, and its inductive invariant |
| `EngineFaults` | `Engine` with I/O errors in a flush and in close |
| `EngineKV` | refinement mapping from `Engine` to `KVStore` |
| `EngineInv` | inductive invariants of a session and of sessions that follow one another |
| `EngineProofs` | proofs about one session, any number of levels; about sessions that end in a close and are opened again; about one session of at most two levels, the refinement of `KVStore` among them; and about snapshots |
| `EngineFaultInv`, `EngineFaultProofs` | inductive invariant of crashes, I/O errors and repair on one level, and proofs |
| `SSTable` | file format and lookup: block cutting, prefix compression, index, bloom filter |
| `BlockCache` | the LRU cache as operators on a cache value |
| `ReadPath` | readers that come and go, reading through one cache (composes `SSTable`, `BlockCache`) |
| `ReadPathProofs` | proofs about the file format (what is built is what is looked up), the cache and the readers that share it |
| `ByteOrder`, `ByteOrderProofs` | byte strings: their order, little-endian integers; lemmas about them, about parts of sequences, induction and recursion over `0 .. n` |
| `StoredValues` | the bytes stored for a key and what is read from them |
| `LogFile` | framing of log records and the reader of a cut or continued file |
| `ByteStore`, `ByteStoreProofs` | a database in its log: buffer, sync, crash, replay, CLI (composes the three above), and proofs |
| `SkipList` | the list as a heap of nodes with raw pointers |
| `MergeIterator` | the multi-way merge |
| `ManifestFile` | the manifest's bytes, its decoder, add and remove |
| `FlushPath` | memtable over skip lists, flush, compaction, manifest (composes the three above), and its inductive invariant |
| `FlushDataProofs` | proofs about the skip list and the manifest's bytes |
| `FlushPathProofs` | proofs about the files, flush, compaction, reopening and the merge |
| `DbHandle`, `DbHandleProofs` | Arc and mutex under concurrent threads and HTTP requests, and proofs |
| `MCEngine`, `MCService`, `MCReadPath`, `MCByteStore`, `MCFlushPath` | instances for TLC |

The three views of the engine overlap on purpose. `Engine` has the crash points
and the levels but treats a stored value as a record; `ByteStore` has the
bytes of log and values but no SSTables; `FlushPath` has the pointers and the
manifest's bytes but no crash. What one takes for granted another one checks:
`Engine` assumes that a manifest cut short does not decode and that the log gives
back what was synced; `ManifestReads` and `AckedSurvive` are those facts.

### Engine and the code

- `active`, `frozen`: the two lists of the memtable. A table maps a key to its
  stored value; `memtable_size` is counted in distinct keys, because
  `SkipList::insert` adds to its size for new keys only.
- `levels`: the manifest in memory, `readers`: `sst_readers`. A meta carries a
  `slot`, its position in push order. Pushes of a session are later than what
  open loaded; what open loaded is ordered level by level. `After` says which
  of two readers stands later, hence is asked first. Slots are never seen by
  the program; they stand for positions in its vectors.
- `files`, `diskManifest`, `wal`: the directory. A file is whole or torn. `wal`
  is what a replay yields.
- `pc` cuts an operation wherever the directory changes: `WriteOne` (put,
  delete, put_with_ttl: log and memtable), `BatchLog`/`BatchApply`,
  `FlushBegin` (file created), `FlushBuild` (file whole, reader pushed),
  `SaveBegin`/`SaveEnd` (manifest truncated, manifest whole), `ResetWal`,
  `CompactBegin`/`CompactBuild`, `Unlink` (one removed input), `CloseSave`.
  Between cuts nothing outside the process could tell the difference.
- `Kill` ends the process in any state, `Open` is `open_with_options` on what
  is left, `Repair` is `Engine::repair`.
- `latest` is a history variable: the last stored value written to each key. A
  batch that was being logged when the process died counts as written as far as
  it was logged.
- `Lookup` and `Scan` are the reads; they change nothing. `Lookup` goes through
  memtable and readers from the newest and stops at the first hit. `Scan` is the map
  of the code's `scan`: `SstScan` inserts every entry of the range from the readers,
  front to back of `sst_readers` (`ReaderAt`), and then what `MemTable::scan` has
  collected, the frozen list before the active one (`MemScan`), each insertion over
  the ones before; the dead values are filtered out last. Nothing in it uses `Lookup`.
- `Snapshots` adds `TakeSnapshot` and `GetAt`. To the code a snapshot is the number
  `next_seq` alone. `snap.view` and `snap.unnumbered` are history: the last write of
  every key at that moment, from which `SnapshotSteady` says what should be shown, and the
  keys a batch has written since. A batch write has number 0, below every snapshot,
  so numbers alone cannot tell which writes are older.

Five specifications share the actions: `Session` (a new directory up to the end
of close), `SnapSession` (the same with snapshots), `RestartSpec` (with reopening),
`CrashSpec` (with `Kill`) and, in `EngineFaults`, `FaultSpec`, with `repair` where the
log is empty (elsewhere it throws acknowledged writes away, which is what it is written
to do) and with I/O errors. An error ends the operation at the `?` where it occurs and goes to the caller; the engine
lives on, except in `close`, which owns it. `gap` records whether an error has
thrown a frozen memtable out of memory, and whether the log still has it.

### ByteStore and the code

A file is a sequence of cells: one per byte, and one per checksum, which holds
the bytes it covers (an ideal CRC). `Write` is the append to `BufWriter` and
`SyncLog` the `flush` + `sync_data`, the memtable puts and the return. `Crash`
keeps any prefix that contains what was synced; `Exit` is a drop without close.
`ReadLog` follows `WALReader::next`: a short length or a short body ends the
log, a wrong length or checksum is an error, which `open` passes on. `hist` is
the list of operations the log stands for, `safe` how many of them were
acknowledged after a sync. `Cli...` are the writing commands of `bin/cli.rs`,
with its own parser; a wrong command line exits without dropping anything.

### FlushPath and the code

A list is its heap: `nodes` maps the address of an allocated node to key, value and
`next`. Reading through a pointer to a freed node would be an error TLC
reports. `Put` is one operation of a put or a batch, `EndWrite` the `maybe_flush`
(and `maybe_compact`) every write ends with, `Replay` the `put_no_freeze` of
`replay_wal`, `CloseAndOpen` close followed by open. The random word of
`random_level` is any member of `Words`; the level is computed from it as the
code does. `Followed` is a lane from a node on, pointer by pointer, for one step more
than there are nodes, so a lane that ran in a circle would show. The folds of the code
(joining bytes, decoding items, filling the map of `compact_level`, its removal loop,
reading the levels in `open`, calls of `next`) are recursive functions over `0 .. n`,
the state after each round: `Runs(sources)[n]` is the merge iterator after *n* calls
and what they returned.

### DbHandle and the code

`refs` are the holders of the `Arc`: owners, and the server's `AppState`.
Requests borrow the server's handle. A call is cut into `Call`, `Lock` (or
`LockPanics`, the `unwrap` of a poisoned lock), `Finish` or `Panic`, and
`Return`. The engine behind the mutex is the number of writes it has applied; a
method reads it when it has the lock and writes back one more at its end, so an
overlap of two methods would lose one. A `Panic` comes before the effect of the call,
after it, or between the engine's change and the counters. `Close` is `try_unwrap`, `CloseRefused` the
drop of the handle it gives back, `CloseEngine` `Engine::close`.

### SSTable, BlockCache, ReadPath and the code

Keys are byte sequences here. `Built` is the builder after each of the entries
(`Add`, with `FlushBlock` when the block is full) and `Finish` its last block;
`Encode`/`Decode` pack a block with shared prefixes and rebuild
it; `BlockFor` is the binary search in the index and `BlockData` the slice that
is decoded. The hash is an operator constant; `Probes` keeps the wrap-around at
`HashRange`. `Rounds` is how often the eviction loop turns: until what is left
and the new block fit, or nothing is left. `ReadPath` keeps two histories: `recent`,
every block ever read in order of its last read, and `answer`, what the last
read returned beside what it should. An iterator takes one step per block; the
engine's mutex is held meanwhile, so nothing else happens until it has ended. What is
recursive here is a recursive function over `0 .. n`, which the proofs can reason
about.

## Runs

All runs switch deadlock checking off: a session that has closed, a client that
has used up its calls, or a handle that is gone, stops.

| run | specification | checks | states |
|---|---|---|---|
| `service` | `SnapSession`, 2 keys, 2 levels, TTL, batches | SessionInv, NoStaleRead, ReadsLatest, ScansLatest, SnapshotSteady, PlacedInv, ImplementsKVStore | 556 k |
| `restart` | `FairRestartSpec`, 3 keys, 3 levels, a batch | TypeOK, RestartInv, LevelsDisjoint, LevelOrder, BelowThreshold, NothingLost, OpCompletes | 305 k |
| `crash_log` | `FaultSpec`, 1 level, 2 errors | FaultInv, RecoversExactly, StillThere | 1.8 M |
| `read_path` | `ReadPath`, 3 SSTables | ReadInv, ReadsExact, CacheCoherent, CacheAccounted, LruOrder | 213 k |
| `flush_path` | `FlushPath`, 3 keys, 5 writes | FlushInv, NamesFiles, FindsLatest, ListsSound, ScansMerge, ManifestReads | 67 k |
| `byte_store` | `ByteStore`, 3 keys, 2 records, 2 reopenings | ByteInv, ReadsBack, AckedSurvive, OpensAgain, PrefixScans, BatchTaken | 677 k |
| `handles` | `DbHandle` with fairness, 2 threads, 1 request, 3 calls | TypeOK, Exclusive, ReadsRecent, MetricsExact, PanicHidden, CallsReturn | 308 k |
| `reopen` | `RestartSpec` | NoStaleRead violated | |
| `tombstone` | `Session` | ReadsLatest violated | |
| `crash_compaction` | `CrashSpec` | NothingLost violated | |
| `manifest_save` | `CrashSpec` | OpensAfterCrash violated | |
| `batch_flush` | `CrashSpec` | NothingLost violated | |

What they show:

- In one session a live last write is always what `get` finds, however often it
  was flushed and compacted (proved, see below). This rests on the
  order of levels: the loop of `maybe_compact` goes upward, so when level *c* is
  compacted every level above it has just been emptied, and pushing the merged
  file last is right.
- With two levels the engine implements the abstract store, deletes and expiry
  included (`service`, proved for every instance). With three it does not (`tombstone`): compaction drops
  a tombstone on level 1 while level 2 still has the old value.
- `scan` agrees with the last writes too (`ScansLatest`, proved), although it works the
  other way round: where `get` stops at the first hit from the back of the readers, `scan`
  lets every later reader overwrite what the earlier ones inserted.
- In a session a key is read at a snapshot as it was when the snapshot was taken, if it
  has not been written since, by put, delete or batch, or if it was missing then and has
  only been written by put and delete since (`SnapshotSteady`, proved). Where this ends, the
  code does not do what its comments say. A missing key that a batch writes is shown at
  every snapshot, because batch writes have no number and are read as number 0,
  although `engine.rs:278` says that `get_at` "Only returns values with `seq < snap.seq`
  (written before the snapshot)". The old version of an overwritten key may be gone from the
  memtable or merged away, and then `get_at` returns an older one from a file, or none;
  `engine.rs:271` calls the snapshot point-in-time. And `open` starts the numbers
  again at 1 (`engine.rs:182`), so a snapshot taken after a reopening misses keys of the
  sessions before.
- A clean close and reopen loses nothing (`restart`, proved), but the readers come back
  ordered by level and a read may then find an old value first (`reopen`).
- Without compaction, a crash at any point of single writes, flushes and close
  is recovered from exactly (`crash_log`, proved), and `repair` on a directory with an
  empty log loses nothing. An I/O error in a flush loses nothing either, but
  when it comes between `take_immutable` and the push of the reader the writes
  of the frozen memtable read as missing until the directory is opened again, and
  the next flush that succeeds empties the log that still has them: then they are
  lost (`gap = "gone"`). With compaction, removing the inputs
  before the manifest is saved loses data (`crash_compaction`); a crash inside
  the save makes the directory unreadable (`manifest_save`); and a batch that
  overflows the memtable loses its tail (`batch_flush`).
- A log cut anywhere by a crash replays and has every synced record
  (`byte_store`, proved). This ends when a record is appended behind a torn one, as `open`
  goes on to do: the next replay takes the start of that record for the tail of
  the torn one. Then it fails, or drops the later records, or, when the bytes
  happen to match, brings the unacknowledged write to life. The properties that hold are
  stated for logs where this has not happened (`buried`). `wal/writer.rs:71` calls the
  reader graceful about corruption; `replay_wal` returns its error.
- Values come back as written only if their bytes cannot be taken for
  something else (`Packs`): no tombstone byte, no TTL header, and in a batch, whose
  values carry no sequence number, shorter than one. `prefix_scan` is exact
  unless the prefix ends in `0xFF`. The tool's `batch` drops a delete at the end
  of the command line, as the one in the example of `README.md:135`.
- Every operation of a batch that was acknowledged survives (`AckedSurvive`), but a crash
  before that may leave a part of it: it is one log record per operation, although
  `engine.rs:230` speaks of a single one.
- Skip lists are sound and leak nothing, the manifest names exactly the files
  and no prefix of its bytes decodes, and the merge iterator yields the newest
  entry first (`flush_path`, proved). `random_level` works on `v | 1`, which has no
  trailing zeros, so every node has one lane and the list is a plain linked
  list; the doc comment of the module promises O(log n).
- One thread at a time is inside the engine and no update is lost; a panic
  poisons the handle for good and hides what it left (`handles`). Two closes at
  once can both be refused, and the engine is then dropped without `close`: the
  memtable stays in the log and is replayed.
- Lookups and iteration are exact and the cache is coherent (`read_path`, proved): ids
  are not reused in a session, so blocks of dropped files never answer for new ones.

`ScansLatest` is checked for every pair of bounds among the keys and their successors, so
also for ranges that take in the last key, all keys, one key, or none. In `service` three
numbered writes and any batches that the file ids allow take two compactions, and the
snapshot may be taken anew between any two operations.

Bounds. `MaxEntries = 0` makes every write a flush, so few writes reach deep
levels; `crash_log` uses 1 so that writes also rest in the log alone.
`L0Threshold = 1` and `Fanout = 2` let three writes cascade through
three levels, over two sessions in `restart`, where a batch around the middle key makes
files of two keys that others fall between; `tombstone` uses the code's factor of 10 and follows one script
of writes (`FillThenDelete`). Two or three keys are enough for files that
overlap, touch and are disjoint; one value and one TTL suffice because sequence
numbers tell writes apart. `MaxSeq`, `MaxIds`, `MaxNow` and `MaxOpens` bound
sequence numbers, file ids, the clock and reopenings, `MaxFaults` the I/O errors; they are guards of
requests only, so an operation that has begun is never cut short by a bound.
`byte_store` and `flush_path` use sixteen byte values and two-byte integers, so
that values, keys and lengths meet each other's special bytes; two records and two
reopenings suffice to tear a record, append behind it and replay. The keys
include a prefix of another and one that ends in the greatest byte. In
`flush_path` lists hold one or two entries before they freeze, two files fill
level 0 and five writes reach a second compaction. `handles` lets three calls of
two owners and a request overlap with clones, drops and closes. In `read_path`
the tables hold shared prefixes, several entries in a block and a value larger
than the cache; the hash makes keys collide, so false positives occur.

Fairness. `OpCompletes` assumes weak fairness of `Internal`, the steps of an
operation that has begun: it runs on the caller's thread, holds the only lock
it needs and waits for nothing, so it keeps being scheduled. `CallsReturn` assumes
weak fairness of each thread's own steps. `std::sync::Mutex` is not fair, so a
thread could be passed over for ever by others that keep calling; the property
is about callers that do not, which is what `MaxCalls` says. No client request,
clock tick or reopening is assumed to happen.

## Proofs

Everything proved about the engine holds for every set of keys and values, all
thresholds, time-to-lives and bounds, and, where nothing else is said, for
every number of levels and all batches. The assumptions are those
named in `Tables`, `Engine` and `EngineFaults` (`KeysAssumption`, `ValsAssumption`,
`SizesAssumption`, `InputsAssumption`, `BoundsAssumption`, `FaultsAssumption`; a level
threshold of 0, with which `compact_level` panics, is excluded). A theorem with a
restriction states it as its `ASSUME`. Each inductive invariant is also
checked by the run of its specification, but for `SnapInv`, which is only proved.

### One session (`EngineProofs`)

- `SessionInvariant`: `Session => []SessionInv`;
- `SessionReads`, `SessionLevels`, `SessionOrder`, `SessionCapacity`, `SessionTyped`:
  `NoStaleRead`, `LevelsDisjoint`, `LevelOrder`, `BelowThreshold` and `TypeOK` of
  every reachable state.

`NoStaleRead` is not inductive: it says nothing about the middle of an
operation, and it depends on where a value lies. `SessionInv` is `CoreInv` and
`BaseInv`. `CoreInv` adds

1. `ControlInv`: which locals are in use at which step;
2. `FilesInv`: every meta has a reader, ids and slots are unique, keys lie in
   the range of their meta;
3. `DisjointInv` and `OrderInv`: levels below 0 are disjoint and deeper files
   are older, leaving aside the inputs a compaction is removing;
4. `CapacityInv`: levels are below their threshold except where the running
   operation is about to compact, and a compaction of a level finds every level above
   it empty. This gives `OrderInv` for the merged file;
5. `FreshInv`: the last live write of a key is held by the first place, in the
   order of pushes, that holds the key, and during a merge the output takes it over.

`BaseInv` says that no reader was loaded by open, so the order of pushes is the
order `get` searches in. There is one lemma per conjunct, each with a case
for every action.

### At most two levels (`EngineProofs`, `MaxLevels <= 2`)

- `SessionPlaced`: `Session => []PlacedInv`;
- `SessionExact`, `SessionScans`: `ReadsLatest` and `ScansLatest` of every reachable state;
- `SessionImplements`: `Session => ImplementsKVStore`, the refinement of `KVStore`.

The restriction is needed: with three levels `ReadsLatest` is false (`tombstone`).
`PlacedInv` extends `FreshInv` to dead values: the last write of a key is the one
found for it, or it is dead and no place that will stay holds the key (`Gone`).
What makes it inductive is `MergeTakesAll`: when level 0 is merged into the last
level, every file that holds a key of the merge is among its inputs (the
others of level 1 do not overlap), so when the merge drops a dead value nothing
older is left to come back. The refinement maps a key to its `Holding`, and
`HoldingLatest` says that this is the last write or that both are dead. From that a
write is a `KVStore` write, `Tick` the store's, and every other step a stutter.

`SessionScans` is about the map `scan` fills. Readers have distinct places
(`ReaderPlaces`), the recursion over places does what one insertion per reader does
(`ScanSteps`, by the induction of `ByteOrderProofs`), and after *n* readers the map holds
for each key of the range the entry of the last of them that has the key
(`FilledIsFound`). After all of them and the two lists this is what `Lookup` finds
(`ScanFinds`), and `PlacedInv` says what that is.

### Snapshots (`EngineProofs`)

- `SnapInvariant`: `SnapSession => []SnapInv`, for any number of levels;
- `SnapshotsSteady`, for `MaxLevels <= 2`: `SnapSession => []SnapshotSteady`.

What `get_at` shows depends on where versions lie; `SnapInv` is about all of them,
wherever they are (`Versions`). Flushes and compactions make no version that was not
there before (`VersionsStep`), and a put brings in one whose number is at least that of
every snapshot taken so far. So a key that was missing has no version below the
snapshot's number, unless a batch has written it (`SnapshotHides`). A key that was not written since has its last write below the
snapshot's number, and `PlacedInv` says that no other version is found before it
(`SnapshotShows`).

### Sessions that follow one another (`EngineProofs`)

- `RestartInvariant`: `RestartSpec => []RestartInv`;
- `RestartKeeps`, `RestartOpens`, `RestartLevels`, `RestartOrder`, `RestartCapacity`,
  `RestartTyped`: `NothingLost`, `OpensAfterCrash` (after a close), `LevelsDisjoint`,
  `LevelOrder`, `BelowThreshold` and `TypeOK` of every reachable state.

While the directory is open `RestartInv` is `CoreInv`, without `BaseInv`, and
`DirectoryInv`: the file of every meta is whole, and from the moment close has flushed
the memtable the log is empty and the manifest it saves names every file. While
it is closed, `ClosedInv` states of the files on disk what `CoreInv` states of those in
memory. `FreshInv` is about the order of pushes and so survives a reopening.
`get` then searches in another order, which is why `NoStaleRead` is
not among these theorems and is in fact false (`reopen`).

### Crashes and errors (`EngineFaultProofs`, `MaxLevels = 1`, no batches)

- `FaultInvariant`: `FaultSpec => []FaultInv`;
- `FaultRecovers`, `FaultKeeps`: `RecoversExactly` and `StillThere` of every
  reachable state.

One level is an engine that never compacts, and no batches means single writes; with
either the claims are false (`crash_compaction`, `manifest_save`, `batch_flush`).
The number of deaths, errors, repairs and reopenings is free. `FaultInv` says that the log and
the memtables hold nothing but last writes (`LogInv`); that as long as no gap is
final, a key that is not in the log is in the files in memory, in those the
manifest on disk names, and in those `repair` would keep (`DiskInv`); and that
without a gap a key that is in no memtable is in the files (`MemoryInv`). The last
one is what lets `ResetWal` empty the log. `Kept` is "in the files": some file has
the last write, and the last pushed file that holds the key has it, unless `repair`
has left its mark. `Same` allows for a replayed delete, which has lost its sequence
number. Most steps neither write nor push a file. They are shown once to be
a `QuietStep`, and one lemma per conjunct covers all of those; writes, the push
of a file, `Open` and `Repair` have their own.

### The handle (`DbHandleProofs`)

Proved for every finite set of threads and requests
(`ThreadsAssumption`):

- `HandleTyped`: `Spec => []TypeOK`;
- `HandleExclusive`: `Spec => []Exclusive`;
- `HandleCounts`: `Spec => []MetricsExact`;
- `HandleReads`: `Spec => []ReadsRecent`;
- `HandlePoisoned`: `Spec => PanicHidden`.

Three inductive invariants carry them. `LifeInv` says who holds what: a thread
in a call holds a reference, directly or through the server, so `try_unwrap`
cannot succeed under it; this is why the engine is never taken out while somebody is
inside. `CountInv` accounts for every call between its beginning and its
acknowledgement: acknowledged writes plus those answered but not yet returned
(`Done`) are at most what is applied, and that plus the calls still waiting for their effect
(`Pending`) at most what was begun; what a method found is still what is applied while it is
inside. The cardinalities change by at most one per step, by the thread that
steps (`OneApart`, `StepCounts`). `PoisonInv` says that behind a poisoned mutex
nobody is inside and nobody has taken the engine out.

### SSTables and the block cache (`ReadPathProofs`)

Proved for every block size, number of filter bits and hashes, hash function,
cache capacity, set of tables and number of files (`FormatAssumption`,
`CapacityAssumption`, `ContentsAssumption`: tables are not empty and their keys come in
strict order, as the memtable and the merge hand them to the builder):

- `TableGet`: the search of `get` in the file built from a table (filter, index,
  slice, decoded block) finds for every key what the table holds, or nothing;
- `ReadInvariant`: `Spec => []ReadInv`;
- `ReadsAreExact`, `CacheIsCoherent`, `CacheIsAccounted`, `CacheInLruOrder`: `ReadsExact`,
  `CacheCoherent`, `CacheAccounted` and `LruOrder` of every reachable state.

The argument about the file follows the code. `DecodeEncode`: `decode` undoes `encode`, since
each key is rebuilt from the one before it (`KeysRebuilt`). `Filled` says of the builder
after *n* entries that what it has written is the first part of the table, cut into
blocks whose last keys and places the index has (`Cut`), and that the block being
filled has the rest; `FlushBlock` and `Add` keep it, so a finished file is `Cut`
(`FileSliced`) and `load_block` decodes a piece of the table (`BlockSliced`). Keys are in
lexicographic order, which is transitive (`LessTransitive`), so the first block whose
last key is not below a key is the one that has it (`BlockForEntry`).

`ReadsExact` depends on the blocks in the cache, and they on the ids: `ReadInv` adds
that no cached block has an id still to be given out (`IdsFresh`), that a reader's file
is the one built from its table (`FilesBuilt`), and that an iterator has given the entries
before its next block (`IterExact`). For the cache, `Touch` and `Insert` are shown to
keep the accounts (`TouchKeeps`, `EvictKeeps`, `InsertKeeps`): taking one key out of the
recency list takes its bytes out of the total, and eviction leaves a front part of the
list. A front part of the history stays one over both (`TouchOrder`, `InsertOrder`).

These proofs are by induction over positions. The library's induction theorems take an
operator as parameter and cannot be used; `ByteOrderProofs` derives induction in a form that
can be, on the set of numbers that have a property (`UpTo`), from the well-foundedness of
the subsets of a finite set (`LeastNat`).

### The log and the bytes (`ByteStoreProofs`)

Proved for every base above 2, both integer widths, any keys, values, times to live,
batches, wrong command lines and bounds (`WidthAssumption`, `ClientAssumption`,
`WidthsSuffice`, `BadCommandsAssumption`: the lengths of a record fit the `u32`
they are written in, expiries fit a `u64`, and the words of the commands differ):

- `ByteInvariant`: `Spec => []ByteInv`;
- `BytesSurvive`, `BytesOpenAgain`, `BytesReadBack`, `BytesPrefixScans`, `BytesBatchTaken`:
  `AckedSurvive`, `OpensAgain`, `ReadsBack`, `PrefixScans` and `BatchTaken` of every
  reachable state.

The lemmas come first. `ParsedPayload`: decode undoes encode, because the digits of a
length that fits give the length back (`FromToLE`) and the two lengths say where key and
value end. `RecordRead`: `next` at the start of a whole record returns it and stops behind it.
`TornRecord`: of a strict part of a record it returns nothing, with no error. So a file that is
whole records and a torn one replays to these records (`ReadTorn`), and what a crash leaves
of such a file is one again (`CutAgain`). `Unpacked`: the layers of the stored
bytes come off in the order they were put on, for values that pack. `PrefixWithin`,
`WithinPrefix` compare keys with a prefix and its `next_key`. `ParsedSpell` follows the
parser round by round.

`AckedSurvive` is not inductive: what a replay finds depends on where the records lie in the
file. `ByteInv` says that the file is the log of the first *n* operations and a torn end,
which is part of the next record of the log if there is one (`CutAt`); that the buffer has
the others, and nothing is torn in front of them; that the synced operations end within
`durable` (`SyncedInv`); and that the memtable holds what these operations stored, but
for those of a write that is being synced (`MemInv`). A crash that keeps what is durable
keeps the synced records whole (`SyncedFirst`), so `Open` finds them. `Write` needs
`~TornEnd`: behind a torn record the argument ends, and so does the claim (`buried`).

### From the memtable to the files (`FlushDataProofs`, `FlushPathProofs`)

Proved for every number of lanes and every height `random_level` may give, all keys and
values, byte base and widths, memtable size, threshold of level 0, magic and version
(`SkipListAssumption`, `FlushPathAssumption`; `FieldsSuffice`: key lengths and file
counts fit the `u32` they are written in, ids a `u64`). `MaxIds < 10 * L0Threshold`
keeps level 1 from filling up, which is the limit of this model and not of the code;
deeper levels are the subject of `EngineProofs`.

- `FlushInvariant`: `Spec => []FlushInv`;
- `FlushListsSound`, `FlushManifestReads`, `FlushNamesFiles`, `FlushFindsLatest`,
  `FlushScansMerge`: the other invariants of the run, of every reachable state.

`FlushInv` has five parts. `ListOK` states the pointers of a list without reference to
how it is walked: in each lane a node points to the node of the next higher key among those
that have the lane, and to null when there is none (`Linked`). `FrozenInWrite` says that
a frozen list is there only within a write and is not empty, and that the ids for its
file are left. `FilesOK` has the tables in key order, each with one reader and one meta, older ids
first on a level, only older ids on level 1 than on level 0, and level 1 disjoint. `Saved`:
the manifest on disk is the one in memory. The last part says where a key is found:
its last write is in the active list, or else the frozen one, or else in the file with
the highest id that has the key (`Held`). None of it follows from the properties, which
look at lists, bytes and readers through the code's own searches.

*Lists.* From `Linked`, a lane from a node on is all nodes above it, in order, and ends
(`LaneWalked`): each step goes to a higher key, so the places of a lane count the nodes
above. A walk lands on the last node below the key (`WalkLands`), so the descent finds
predecessors in every lane (`PredecessorsFound`) and `get` the node of the key
(`GetFinds`). Splicing a node behind these predecessors keeps `Linked` (`SplicedOK`,
`Upserted`, `InsertKeeps`), wherever its tower ends.

*Manifest.* A decoder is taken as a function from places to results. If every item of a
sequence decodes where it lies, the sequence does (`ManyRead`), which gives metas, levels
and the whole (`MetaRead`, `LevelRead`, `ManifestRead`). For the cuts, decoders that
agree on the front part of the bytes wherever they succeed (`Agrees`) stay so when they
are repeated (`ManyAgree`): what decodes from a front part decodes to the same place from
the whole, but the whole ends at its last byte (`ManifestCut`). `FilesWritable` draws from
`FilesOK` that the numbers a manifest holds fit their fields.

*Files.* `AddKeeps`, `RemoveKeeps` and `RemovedAll` follow the store through a flush and
the removal loop. After each input the map of `compact_level` holds for each key what the
newest input so far holds (`FilledHolds`): inputs come in the order of their ids, level 1
first. The keys a compaction leaves in place are not in the inputs of the source level,
because a file of level 1 that shares a key with one of them meets their range
(`MetaKeys`, `UnmetApart`), so the merged file, under the highest id, hides nothing
(`CompactKeeps`). Reopening finds the manifest saved, `next_sst_id` above all ids in it
and one reader per file (`FilesReopened`); the readers' order may be another one, and
`FlushFindsLatest` is about states where it is that of the ids (`InAgeOrder`; run
`reopen` shows the others).

*Merge.* After *n* calls there is, for each source, the rest of it, whose first entry is in
the heap (`Holds`). The entry popped is the least of the heap in `Ord for HeapEntry`
(`PoppedLeast`), so the keys come in order and for each key the first entry out is that of
the first source that had it (`MergeStep`, `MergedSound`). The sources of `ScansMerge` are
the lists and then the files by descending id, so this is the value `Held` says
(`ListsFirst`, `FilesByHighest`).

### Only model-checked

Every invariant of a passing run and the refinement `ImplementsKVStore` are proved, under the restrictions named above. Left to TLC alone are:

- liveness, `OpCompletes` and `CallsReturn`: out of the prover's reach;
- `crash_log`, proved for one level and single writes: with compaction or batches what
  should hold after a crash does not (`crash_compaction`, `batch_flush`).

## Not modelled

- I/O errors inside a compaction, and of the log itself;
- SSTable pages the code does not sync before it empties the log; a crash
  inside `repair`; a torn SSTable that happens to parse; corrupt input;
- keys of 64 KiB and more, whose length does not fit the block's `u16`;
- the second reading of the clock in `scan`, which can list a value that expires
  in between as empty;
- the rendering of the dashboard, JSON, routing and the socket of the HTTP server,
  logging, error types and empty placeholder modules: they keep no state of the
  database.

## Plan

1. Done: everything under Modules and Proofs.
2. Errors of a compaction; the two clock readings of `scan`; pages of an SSTable lost at a
   power failure.
3. `FlushPath` with more than two levels, as `Engine` has them, so that its limit on ids can
   go.
