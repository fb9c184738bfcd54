----------------------------- MODULE FlushPath -----------------------------
(***************************************************************************)
(* The way of a write from the memtable to a file the manifest names:       *)
(* MemTable over skip lists, flush, compaction of level 0 into level 1 and  *)
(* the manifest's bytes on disk.  Values carry no tombstones and no times   *)
(* to live here, and nothing crashes: Engine has both.  Level 1 does not    *)
(* fill up within the bounds, so it is never compacted itself.              *)
(***************************************************************************)
EXTENDS SkipList, MergeIterator, ManifestFile

CONSTANTS
    Keys, Vals,    \* byte strings
    MaxSize,       \* memtable_size
    L0Threshold,   \* l0_compaction_threshold
    MaxPuts,       \* bound: writes
    MaxIds         \* bound: SSTable ids

Byte == 0 .. Base - 1

ASSUME FlushPathAssumption ==
    /\ Keys \subseteq Seq(Byte) /\ Vals \subseteq Seq(Byte)
    /\ Magic \in Seq(Byte) /\ Version \in Nat
    /\ MaxSize \in Nat /\ L0Threshold \in Nat /\ MaxPuts \in Nat /\ MaxIds \in Nat
    /\ MaxIds < 10 * L0Threshold

(* Key lengths and file counts fit in a u32, ids in a u64.                  *)
ASSUME FieldsSuffice ==
    /\ \A k \in Keys : Fits(Len(k), U32, Base)
    /\ Fits(MaxIds, U32, Base) /\ Fits(MaxIds, U64, Base)

VARIABLES
    active, immutable,   \* MemTable: a list, and at most one frozen list
    levels,              \* Manifest.levels
    disk,                \* the MANIFEST file: None or Some(bytes)
    tables,              \* the .sst files: id -> entries in order
    readers,             \* sst_readers: the ids, in the order of the Vec
    nextId,              \* next_sst_id
    pc,                  \* "replay" inside open, "write" inside a write, or "idle"
    puts,                \* writes so far
    latest               \* history: last value written to each key, None or Some

vars == <<active, immutable, levels, disk, tables, readers, nextId, pc, puts, latest>>

(* open finds a log and no other file.                                      *)
Init ==
    /\ active = NewList /\ immutable = {}
    /\ levels = << >> /\ disk = None /\ tables = << >> /\ readers = << >>
    /\ nextId = 1
    /\ pc = "replay" /\ puts = 0 /\ latest = [k \in Keys |-> None]

Written(k, v) ==
    /\ puts < MaxPuts
    /\ puts' = puts + 1
    /\ latest' = [latest EXCEPT ![k] = Some(v)]

(* replay_wal: put_no_freeze for each record of the log ...                 *)
Replay(k, v) ==
    /\ pc = "replay"
    /\ \E w \in Words : active' = Insert(active, k, v, RandomLevel(w))
    /\ Written(k, v)
    /\ UNCHANGED <<immutable, levels, disk, tables, readers, nextId, pc>>

(* ... until the log is at its end.                                         *)
Replayed ==
    /\ pc = "replay"
    /\ pc' = "idle"
    /\ UNCHANGED <<active, immutable, levels, disk, tables, readers, nextId, puts, latest>>

(* Mutant of MemPut: freeze does not look at the slot.                      *)
MemPutTwice(grown) ==
    IF grown.size > MaxSize
    THEN active' = NewList /\ immutable' = immutable \cup {grown}
    ELSE active' = grown /\ UNCHANGED immutable

(* MemTable::put after the insert: freeze when the list is past its limit   *)
(* and the slot is free.                                                    *)
MemPut(grown) ==
    IF grown.size > MaxSize /\ immutable = {}
    THEN active' = NewList /\ immutable' = {grown}
    ELSE active' = grown /\ UNCHANGED immutable

(* One operation of a put or of a batch ...                                 *)
Put(k, v) ==
    /\ pc = "write" \/ (pc = "idle" /\ nextId + 1 <= MaxIds)
    /\ \E w \in Words : MemPut(Insert(active, k, v, RandomLevel(w)))
    /\ Written(k, v)
    /\ pc' = "write"
    /\ UNCHANGED <<levels, disk, tables, readers, nextId>>

----------------------------------------------------------------------------
(* The engine's files: manifest, tables, readers and the next id.           *)
Files == [levels |-> levels, tables |-> tables, readers |-> readers, next |-> nextId]

(* A new SSTable on a level, under the next id, and a reader for it.        *)
AddSst(db, level, entries) ==
    [levels |-> AddMeta(db.levels, level, [id |-> db.next, min |-> entries[1][1],
                                           max |-> entries[Len(entries)][1]]),
     tables |-> [id \in DOMAIN db.tables \cup {db.next} |->
                    IF id = db.next THEN entries ELSE db.tables[id]],
     readers |-> Append(db.readers, db.next),
     next |-> db.next + 1]

MetasAt(db, level) == IF level < Len(db.levels) THEN db.levels[level + 1] ELSE << >>

(* The members of a set, each behind those before it.                       *)
Ordered(S, before(_, _)) ==
    [i \in 1 .. Cardinality(S) |->
        CHOOSE x \in S : Cardinality({y \in S : before(y, x)}) = i - 1]

(* The values a table holds for a key: one at most.                         *)
Holding(entries, k) == {e[2] : e \in {x \in Range(entries) : x[1] = k}}

KeysOf(entries) == {entries[i][1] : i \in DOMAIN entries}

(* all_entries, the map compact_level fills, after the first n inputs: the  *)
(* insert of a later one replaces that of an earlier one.                   *)
Filled(db, metas) ==
    LET map[n \in 0 .. Len(metas)] ==
            IF n = 0 THEN << >>
            ELSE LET t == db.tables[metas[n].id]
                 IN  [k \in DOMAIN map[n - 1] \cup KeysOf(t) |->
                         IF k \in KeysOf(t) THEN CHOOSE v \in Holding(t, k) : TRUE
                                           ELSE map[n - 1][k]]
    IN  map

(* The map at last, in the order of its keys.                               *)
MergedEntries(db, metas) ==
    LET map == Filled(db, metas)[Len(metas)]
        keys == Ordered(DOMAIN map, Less)
    IN  [i \in DOMAIN keys |-> << keys[i], map[keys[i]] >>]

(* One round of the removal loop ...                                        *)
RemoveSst(db, m) ==
    [levels |-> RemoveMeta(db.levels, m.id),
     tables |-> [id \in DOMAIN db.tables \ {m.id} |-> db.tables[id]],
     readers |-> Retain(db.readers, Range(db.readers) \ {m.id}),
     next |-> db.next]

(* ... and the files after n rounds.                                        *)
Removed(db, metas) ==
    LET left[n \in 0 .. Len(metas)] ==
            IF n = 0 THEN db ELSE RemoveSst(left[n - 1], metas[n])
    IN  left

(* compact_level(0): destination files that meet the sources, then the      *)
(* sources; add the merged file, remove the inputs.                         *)
Compacted(db) ==
    LET src == MetasAt(db, 0)
        meets(m) == /\ \E i \in DOMAIN src : ~Less(m.max, src[i].min)
                    /\ \E i \in DOMAIN src : ~Less(src[i].max, m.min)
        dst == Retain(MetasAt(db, 1), {m \in Range(MetasAt(db, 1)) : meets(m)})
        added == AddSst(db, 1, MergedEntries(db, dst \o src))
    IN  Removed(added, src \o dst)[Len(src \o dst)]

(* maybe_compact, with only level 0 ever at its threshold.                  *)
MaybeCompacted(db) ==
    IF Len(MetasAt(db, 0)) < L0Threshold THEN db ELSE Compacted(db)

(* maybe_flush: the frozen list, if there is one, becomes a file of level 0,*)
(* and maybe_compact follows.                                               *)
MaybeFlushed(db, frozen) ==
    IF frozen = {} THEN db
    ELSE MaybeCompacted(AddSst(db, 0, Iter(CHOOSE list \in frozen : TRUE)))

(* ... at whose end maybe_flush runs; flush and compaction save.            *)
EndWrite ==
    LET db == MaybeFlushed(Files, immutable)
    IN  /\ pc = "write" /\ pc' = "idle"
        /\ immutable' = {}
        /\ levels' = db.levels /\ tables' = db.tables
        /\ readers' = db.readers /\ nextId' = db.next
        /\ disk' = IF immutable = {} THEN disk ELSE Some(EncodeManifest(db.levels))
        /\ UNCHANGED <<active, puts, latest>>

Named(ls) == UNION {Range(ls[i]) : i \in DOMAIN ls}

(* The readers open has after the files of the first n levels.              *)
Opened(ls) ==
    LET ids[n \in 0 .. Len(ls)] ==
            IF n = 0 THEN << >> ELSE ids[n - 1] \o [i \in DOMAIN ls[n] |-> ls[n][i].id]
    IN  ids

(* close freezes the list unless it is empty, flushes and saves; open, with *)
(* an empty log, takes the manifest from its bytes and opens the files      *)
(* level by level.                                                          *)
CloseAndOpen ==
    LET frozen == IF active.size <= ListSize THEN {} ELSE {active}
        db == MaybeFlushed(Files, frozen)
    IN  /\ pc = "idle" /\ nextId + 1 <= MaxIds
        /\ active' = NewList
        /\ tables' = db.tables
        /\ disk' = Some(EncodeManifest(db.levels))
        /\ LoadManifest(disk').ok
        /\ levels' = LoadManifest(disk').value
        /\ readers' = Opened(levels')[Len(levels')]
        /\ nextId' = 1 + Max({0} \cup {m.id : m \in Named(levels')})
        /\ UNCHANGED <<immutable, pc, puts, latest>>

Next ==
    \/ \E k \in Keys, v \in Vals : Replay(k, v) \/ Put(k, v)
    \/ Replayed \/ EndWrite \/ CloseAndOpen

Spec == Init /\ [][Next]_vars

----------------------------------------------------------------------------
Lists == {active} \cup immutable

(* The tables that hold entries of the memtable and of the files, newest    *)
(* first: ids are handed out in the order of age.                           *)
Sources ==
    LET ids == Ordered(DOMAIN tables, LAMBDA a, b : a > b)
        lists == IF immutable = {} THEN << Iter(active) >>
                 ELSE << Iter(active), Iter(CHOOSE l \in immutable : TRUE) >>
    IN  lists \o [i \in DOMAIN ids |-> tables[ids[i]]]

(* get: the lists through their towers, then the readers from the last.     *)
Find(k) ==
    LET at == {i \in DOMAIN readers : Holding(tables[readers[i]], k) # {}}
    IN  IF Get(active, k) # {} THEN Get(active, k)
        ELSE IF \E l \in immutable : Get(l, k) # {} THEN UNION {Get(l, k) : l \in immutable}
        ELSE IF at = {} THEN None ELSE Holding(tables[readers[Max(at)]], k)

(* FindsLatest: through freezes, flushes, compactions and reopening, the    *)
(* search by towers and by readers finds the last value of every key, as    *)
(* long as the readers stand in the order of their age, which open breaks   *)
(* when there are files on two levels.                                      *)
InAgeOrder == \A i, j \in DOMAIN readers : i < j => readers[i] < readers[j]

FindsLatest == InAgeOrder => \A k \in Keys : Find(k) = latest[k]

(* ListsSound: a list yields its keys in strict order, each lane runs       *)
(* inside the one below it, get by towers agrees with the bottom lane, and  *)
(* drop frees every node that was allocated.                                *)
ListsSound ==
    \A l \in Lists :
        LET entries == Iter(l)
            lane(i) == Range(LaneFrom(l.nodes, Head0, i))
        IN  /\ \A i \in 1 .. Len(entries) - 1 : Less(entries[i][1], entries[i + 1][1])
            /\ \A i \in 2 .. MaxLevel : lane(i) \subseteq lane(i - 1)
            /\ \A k \in Keys : Get(l, k) = Holding(entries, k)
            /\ Leaked(l) = {}

(* ScansMerge: the merge iterator, given the lists and files newest first,  *)
(* yields every entry in key order, and the first one of a key is its last  *)
(* write.  The scan of a list is its entries in the range.                  *)
ScansMerge ==
    LET out == Merged(Sources)
    IN  /\ \A i \in 1 .. Len(out) - 1 : ~Less(out[i + 1][1], out[i][1])
        /\ \A k \in Keys :
              LET at == {i \in DOMAIN out : out[i][1] = k}
              IN  latest[k] = IF at = {} THEN None ELSE Some(out[Min(at)][2])
        /\ \A start, end \in Keys :
              ScanList(active, start, end) =
                  Retain(Iter(active), {e \in Range(Iter(active)) :
                                           ~Less(e[1], start) /\ Less(e[1], end)})

(* ManifestReads: the bytes on disk decode to the manifest in memory, and   *)
(* cut short anywhere they do not decode at all.                            *)
ManifestReads ==
    \A bytes \in disk :
        /\ LoadManifest(disk).ok /\ LoadManifest(disk).value = levels
        /\ \A n \in 0 .. Len(bytes) - 1 : ~DecodeManifest(SubSeq(bytes, 1, n)).ok

(* NamesFiles: the manifest names exactly the files there are, each once    *)
(* and with one reader, and states the first and the last key it holds.     *)
NamesFiles ==
    /\ {m.id : m \in Named(levels)} = DOMAIN tables
    /\ \A i, j \in DOMAIN levels : \A x \in DOMAIN levels[i], y \in DOMAIN levels[j] :
          levels[i][x].id = levels[j][y].id => i = j /\ x = y
    /\ Range(readers) = DOMAIN tables /\ IsInjective(readers)
    /\ \A m \in Named(levels) : /\ m.min = tables[m.id][1][1]
                                /\ m.max = tables[m.id][Len(tables[m.id])][1]

----------------------------------------------------------------------------
(* The inductive invariant the proofs rest on.  The pointers of a list: in  *)
(* each lane a node points to the next higher key, and the head to the      *)
(* least.                                                                   *)
Above(nodes, n, lane) ==
    {m \in DOMAIN nodes \ {Head0} :
        lane \in DOMAIN nodes[m].next /\ (n = Head0 \/ Less(nodes[n].key, nodes[m].key))}

Linked(nodes) ==
    \A n \in DOMAIN nodes : \A i \in DOMAIN nodes[n].next :
        LET above == Above(nodes, n, i)
            succ == nodes[n].next[i]
        IN  IF above = {} THEN succ = Null
            ELSE succ \in above /\ \A m \in above \ {succ} : Less(nodes[succ].key, nodes[m].key)

(* Towers start at the bottom lane, and no two nodes have the same key.     *)
NodesOK(nodes) ==
    /\ DOMAIN nodes \subseteq Nat /\ IsFiniteSet(DOMAIN nodes) /\ Head0 \in DOMAIN nodes
    /\ \A n \in DOMAIN nodes :
          /\ nodes[n] = [key |-> nodes[n].key, value |-> nodes[n].value,
                         next |-> nodes[n].next]
          /\ \E lanes \in 1 .. MaxLevel : DOMAIN nodes[n].next = 1 .. lanes
          /\ n # Head0 => nodes[n].key \in Keys /\ nodes[n].value \in Vals
    /\ DOMAIN nodes[Head0].next = 1 .. MaxLevel
    /\ \A m, n \in DOMAIN nodes \ {Head0} : nodes[m].key = nodes[n].key => m = n
    /\ Linked(nodes)

(* A list is larger than an empty one when it has entries.                  *)
ListOK(list) ==
    /\ list = [nodes |-> list.nodes, size |-> list.size] /\ list.size \in Nat
    /\ NodesOK(list.nodes)
    /\ list.size >= ListSize
    /\ list.size > ListSize <=> DOMAIN list.nodes # {Head0}

TypeOK ==
    /\ \A l \in Lists : ListOK(l)
    /\ \A bytes \in disk : bytes \in Seq(Byte)
    /\ nextId \in 1 .. MaxIds + 1 /\ puts \in 0 .. MaxPuts
    /\ pc \in {"replay", "idle", "write"}
    /\ latest \in [Keys -> {None} \cup {Some(v) : v \in Vals}]

(* A frozen list is there only until the write ends; then there are ids for *)
(* its file and for the one a compaction makes.                             *)
FrozenInWrite ==
    /\ pc # "write" => immutable = {}
    /\ immutable = {} \/ \E l \in immutable : immutable = {l} /\ DOMAIN l.nodes # {Head0}
    /\ pc = "write" => nextId + 1 <= MaxIds

InKeyOrder(t) == \A i, j \in DOMAIN t : i < j => Less(t[i][1], t[j][1])

TableOK(t) == t \in Seq(Keys \X Vals) /\ t # << >> /\ InKeyOrder(t)

Meta == [id : Nat, min : Keys, max : Keys]

MetaOf(id, t) == [id |-> id, min |-> t[1][1], max |-> t[Len(t)][1]]

ByAge(metas) == \A i, j \in DOMAIN metas : i < j => metas[i].id < metas[j].id

(* The files: sorted tables under ids given out before, each with one       *)
(* reader and one place in the manifest; on each level the older first, on  *)
(* level 1 only older ones than on level 0 and no two with a key in common. *)
FilesOK(db) ==
    LET L0 == MetasAt(db, 0)
        L1 == MetasAt(db, 1)
    IN  /\ db.tables = [id \in DOMAIN db.tables |-> db.tables[id]]
        /\ db.next \in Nat \ {0} /\ DOMAIN db.tables \subseteq 1 .. db.next - 1
        /\ \A id \in DOMAIN db.tables : TableOK(db.tables[id])
        /\ db.levels \in Seq(Seq(Meta)) /\ Len(db.levels) <= 2
        /\ {m.id : m \in Range(L0) \cup Range(L1)} = DOMAIN db.tables
        /\ \A m \in Range(L0) \cup Range(L1) : m = MetaOf(m.id, db.tables[m.id])
        /\ ByAge(L0) /\ ByAge(L1)
        /\ \A m0 \in Range(L0), m1 \in Range(L1) : m1.id < m0.id
        /\ \A m, o \in Range(L1) : m = o \/ Less(m.max, o.min) \/ Less(o.max, m.min)
        /\ db.readers \in Seq(Nat) /\ Range(db.readers) = DOMAIN db.tables
        /\ IsInjective(db.readers)

(* The manifest on disk is the one in memory.                               *)
Saved == IF disk = None THEN levels = << >> ELSE disk = Some(EncodeManifest(levels))

(* The last value of a key is in the newest source that holds the key: the  *)
(* active list, the frozen one, the file with the highest id.               *)
Values(list, k) ==
    {list.nodes[n].value : n \in {m \in DOMAIN list.nodes \ {Head0} : list.nodes[m].key = k}}

Newest(files, k) ==
    LET at == {id \in DOMAIN files : Holding(files[id], k) # {}}
    IN  IF at = {} THEN None ELSE Holding(files[Max(at)], k)

Held(k) ==
    IF Values(active, k) # {} THEN Values(active, k)
    ELSE IF \E l \in immutable : Values(l, k) # {} THEN UNION {Values(l, k) : l \in immutable}
    ELSE Newest(tables, k)

FlushInv ==
    /\ TypeOK /\ FrozenInWrite /\ FilesOK(Files) /\ Saved
    /\ \A k \in Keys : latest[k] = Held(k)
=============================================================================
