----------------------------- MODULE EngineInv -----------------------------
(***************************************************************************)
(* The inductive invariant of a session: why a compaction never puts old    *)
(* data in front of new.                                                    *)
(***************************************************************************)
EXTENDS Engine

(* The files that count: once the merged file is in place, the inputs still *)
(* waiting to be removed do not.                                            *)
Settled == IF pc = "unlink" THEN levels \ doomed ELSE levels

(* Where in an operation each local variable is in use.                     *)
ControlInv ==
    /\ pc \notin {"apply", "flush"} => frozen = EmptyTable
    /\ pc \notin {"build", "merge"} => out = EmptyTable
    /\ pc \in {"save", "saving"} => ret \in {"resetwal", "compact", "closed"}
    /\ pc \in {"log", "apply"} => batch \in Batches /\ idx \in 1 .. Len(batch)
    /\ pc \in {"merge", "unlink"} => cursor < MaxLevels - 1
    /\ pc \in {"merge", "unlink"} => doomed \subseteq levels
    /\ pc \notin {"merge", "unlink"} => doomed = {}
    /\ pc = "merge" => doomed = Sources(cursor) \cup Overlapping(cursor)
    /\ pc # "down"

(* Every file of the manifest has a reader, ids and slots are never reused, *)
(* and a reader's keys lie in the range its meta states.                    *)
FilesInv ==
    /\ DOMAIN readers = levels
    /\ \A m \in levels : /\ m.id < nextId /\ m.slot < nextSlot
                         /\ m.lo <= m.hi
                         /\ \A k \in Keys : readers[m][k] # NoEntry => m.lo <= k /\ k <= m.hi
    /\ pc \in {"build", "merge"} => \A m \in levels : m.id < nextId - 1
    /\ \A a, b \in levels : a.id = b.id \/ a.slot = b.slot => a = b
    /\ pc = "merge" => \A k \in Held(out) : \E m \in doomed : m.lo <= k /\ k <= m.hi

(* The files of a level below 0 are disjoint.                               *)
DisjointInv ==
    \A a, b \in Settled :
        a # b /\ a.level = b.level /\ a.level > 0 => a.hi < b.lo \/ b.hi < a.lo

(* Later pushes are on the same or a shallower level.                       *)
OrderInv ==
    \A a, b \in Settled : a.slot > b.slot => a.level <= b.level

(* A compaction of level c finds every level above it empty: the levels     *)
(* below capacity stay so until the loop of maybe_compact reaches them.     *)
CapacityInv ==
    /\ \A c \in 0 .. MaxLevels - 2 :
          \/ Below(c)
          \/ c = 0 /\ (pc = "resetwal" \/ (pc \in {"save", "saving"} /\ ret = "resetwal"))
          \/ c = cursor /\ (pc = "compact" \/ (pc \in {"save", "saving"} /\ ret = "compact"))
                        /\ \A m \in levels : m.level >= c
          \/ c \in {cursor, cursor + 1} /\ pc \in {"merge", "unlink"}
    /\ pc = "merge" => \A m \in levels : m.level >= cursor
    /\ pc = "unlink" => \A m \in levels \ doomed : m.level > cursor
    /\ pc = "unlink" => \A m \in doomed : m.level \in {cursor, cursor + 1}

(* m answers for k: every other file that holds k was pushed before it.     *)
OnTop(m, k) ==
    \A o \in levels \ {m} : readers[o][k] # NoEntry => m.slot > o.slot

(* Where the last write of a key is found: in the first place of the search *)
(* order that holds the key at all.                                         *)
Fresh(k) ==
    \/ active[k] = latest[k]
    \/ active[k] = NoEntry /\ frozen[k] = latest[k]
    \/ /\ active[k] = NoEntry /\ frozen[k] = NoEntry
       /\ pc = "build" /\ out[k] = latest[k]
    \/ /\ active[k] = NoEntry /\ frozen[k] = NoEntry
       /\ pc = "build" => out[k] = NoEntry
       /\ \E m \in levels :
            /\ readers[m][k] = latest[k] /\ OnTop(m, k)
            /\ pc = "unlink" => m \notin doomed
            /\ pc = "merge" => out[k] = IF m \in doomed THEN latest[k] ELSE NoEntry

FreshInv == \A k \in Keys : Live(latest[k], now) => Fresh(k)

(* All of the above: why no step of an engine that has the directory open   *)
(* loses a live value, in the first session and in those after it.          *)
CoreInv ==
    /\ TypeOK /\ ControlInv /\ FilesInv
    /\ DisjointInv /\ OrderInv /\ CapacityInv /\ FreshInv

(* Nothing was loaded by open: every reader was pushed in this session.     *)
BaseInv == base <= nextSlot /\ \A m \in levels : base <= m.slot

(* SessionInv: the inductive invariant of a session on a new directory.     *)
SessionInv == CoreInv /\ BaseInv

----------------------------------------------------------------------------
(* Compaction drops dead values, and with them the marker of a delete.      *)
(* Gone(k): the last write of k is dead and no place of the search order    *)
(* that will stay holds the key; while the merge runs, what still answers   *)
(* for it is that last write.                                               *)
Gone(k) ==
    /\ ~Live(latest[k], now)
    /\ active[k] = NoEntry /\ frozen[k] = NoEntry /\ out[k] = NoEntry
    /\ \A m \in levels : readers[m][k] # NoEntry => m \in doomed
    /\ pc = "merge" =>
          \/ \A m \in levels : readers[m][k] = NoEntry
          \/ \E m \in levels : /\ readers[m][k] = latest[k] /\ OnTop(m, k)
                               /\ latest[k] # NoEntry

(* PlacedInv: the last write of a key, dead or alive, is the one found for  *)
(* it, or it is dead and nothing is.  With at most two levels the merge     *)
(* that drops a dead value takes in every file that holds the key, so no    *)
(* older value can come back; with three it need not.                       *)
PlacedInv ==
    /\ \A m \in levels : m.level < MaxLevels
    /\ \A k \in Keys : (latest[k] # NoEntry /\ Fresh(k)) \/ Gone(k)

----------------------------------------------------------------------------
(* What a close leaves for the next open: the file of every meta is whole,  *)
(* the log holds nothing the memtable does not, and from the moment close   *)
(* has flushed the memtable both are empty.                                 *)
DirectoryInv ==
    /\ \A m \in levels : m.id \in DOMAIN files /\ files[m.id] = WholeFile(readers[m])
    /\ pc = "idle" => ~closing /\ (active = EmptyTable => wal = EmptyTable)
    /\ pc \in {"log", "apply"} => ~closing
    /\ closing => active = EmptyTable
    /\ \/ pc \in {"compact", "merge", "unlink", "close", "closed"}
       \/ pc \in {"save", "saving"} /\ ret \in {"compact", "closed"}
       => wal = EmptyTable
    /\ pc \in {"close", "closed"} \/ (pc \in {"save", "saving"} /\ ret = "closed") => closing
    /\ pc = "closed" => diskManifest = EncodedManifest

(* The contents open will give the reader of a meta.                        *)
OnDisk(m) == files[m.id].table

(* The same facts as CoreInv states of the files in memory, of those the    *)
(* manifest on disk names.                                                  *)
DiskFilesInv ==
    /\ \A m \in diskManifest.metas :
          /\ m.id \in DOMAIN files /\ files[m.id].whole
          /\ m.slot < nextSlot /\ m.lo <= m.hi
          /\ \A k \in Keys : OnDisk(m)[k] # NoEntry => m.lo <= k /\ k <= m.hi
    /\ \A a, b \in diskManifest.metas :
          /\ a.id = b.id \/ a.slot = b.slot => a = b
          /\ a # b /\ a.level = b.level /\ a.level > 0 => a.hi < b.lo \/ b.hi < a.lo
          /\ a.slot > b.slot => a.level <= b.level
    /\ \A c \in 0 .. MaxLevels - 2 :
          Cardinality({m \in diskManifest.metas : m.level = c}) < Threshold(c)
    /\ \A k \in Keys : Live(latest[k], now) =>
          \E m \in diskManifest.metas :
             /\ OnDisk(m)[k] = latest[k]
             /\ \A o \in diskManifest.metas \ {m} : OnDisk(o)[k] # NoEntry => m.slot > o.slot

(* After a close nothing is left in memory and nothing in the log.          *)
ClosedInv ==
    /\ active = EmptyTable /\ frozen = EmptyTable /\ out = EmptyTable /\ wal = EmptyTable
    /\ levels = {} /\ doomed = {} /\ ~closing
    /\ diskManifest.whole
    /\ DiskFilesInv

(* RestartInv: the inductive invariant of sessions that end in a close.     *)
RestartInv ==
    /\ TypeOK
    /\ IF pc = "down" THEN ClosedInv ELSE CoreInv /\ DirectoryInv
=============================================================================
