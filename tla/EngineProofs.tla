---------------------------- MODULE EngineProofs ----------------------------
(***************************************************************************)
(* Proofs, for every value of the constants, about one session of the       *)
(* engine: SessionInv is inductive, and no read of a session is stale; about*)
(* sessions that follow one another on the same directory; and, with at most*)
(* two levels, that PlacedInv is inductive, every read of a session is      *)
(* exact, the entries scan collects are those get finds, a snapshot goes on *)
(* showing what has not been written since, and a session implements the    *)
(* key-value store of KVStore.                                              *)
(***************************************************************************)
EXTENDS EngineInv, EngineKV, Snapshots, ByteOrderProofs

(* The empty entry and the empty table are typed.                           *)
LEMMA EmptyTyped == NoEntry \in Entry /\ EmptyTable \in Table
  BY DEF NoEntry, Entry, EmptyTable, Table, Never

(* A live stored value is not the empty entry.                              *)
LEMMA LiveIsEntry ==
  ASSUME NEW e, NEW t, Live(e, t) PROVE e # NoEntry
  BY ValsAssumption DEF Live, NoEntry

(* Live values do not come back to life as the clock advances.              *)
LEMMA LiveBefore ==
  ASSUME NEW e \in Entry, NEW t \in Nat, Live(e, t + 1) PROVE Live(e, t)
  BY DEF Live, Entry, Never

(* MemTable::put keeps both memtables typed.                                *)
LEMMA MemPutTyped ==
  ASSUME TypeOK, NEW k \in Keys, NEW e \in Entry, MemPut(k, e)
  PROVE  active' \in Table /\ frozen' \in Table /\ out' \in Table
  BY EmptyTyped DEF TypeOK, MemPut, Table

(* The new file of AddSst leaves the manifest, the readers and the          *)
(* directory typed.                                                         *)
LEMMA AddSstTyped ==
  ASSUME TypeOK, NEW c \in Nat, AddSst(c)
  PROVE  /\ levels' \subseteq Meta /\ IsFiniteSet(levels')
         /\ DOMAIN readers' \subseteq levels'
         /\ \A m \in DOMAIN readers' : readers'[m] \in Table
         /\ DOMAIN files' \subseteq Nat
         /\ \A i \in DOMAIN files' : files'[i] \in SstFile
         /\ nextSlot' \in Nat /\ out' \in Table
<1>1. PICK lo \in Keys, hi \in Keys :
        LET id == nextId - 1
            m == [id |-> id, level |-> c, slot |-> nextSlot, lo |-> lo, hi |-> hi]
        IN  /\ files' = [i \in DOMAIN files \cup {id} |->
                            IF i = id THEN WholeFile(out) ELSE files[i]]
            /\ levels' = levels \cup {m}
            /\ readers' = [r \in DOMAIN readers \cup {m} |->
                              IF r = m THEN out ELSE readers[r]]
            /\ nextSlot' = nextSlot + 1
            /\ out' = EmptyTable
  BY DEF AddSst
<1> DEFINE id == nextId - 1
           m == [id |-> id, level |-> c, slot |-> nextSlot, lo |-> lo, hi |-> hi]
<1>2. id \in Nat /\ m \in Meta
  BY KeysAssumption DEF TypeOK, Meta
<1>3. IsFiniteSet(levels')
  BY <1>1, FS_AddElement DEF TypeOK
<1>4. WholeFile(out) \in SstFile
  BY DEF WholeFile, SstFile, TypeOK
<1> QED
  BY <1>1, <1>2, <1>3, <1>4, EmptyTyped DEF TypeOK

(* put, delete and put_with_ttl are writes of one typed, non-empty entry.   *)
LEMMA SessionCases ==
  ASSUME TypeOK, SessionNext
  PROVE  \/ \E k \in Keys, e \in Entry \ {NoEntry}, l \in Entry : WriteOne(k, e, l)
         \/ \E b \in Batches : WriteBatch(b)
         \/ Close \/ Internal \/ Tick
<1>1. CASE Internal \/ Tick
  BY <1>1
<1>2. CASE Request
  <2>1. ASSUME NEW k \in Keys, NEW v \in Vals, Put(k, v)
        PROVE  \E e \in Entry \ {NoEntry}, l \in Entry : WriteOne(k, e, l)
    <3>1. Stored(v, nextSeq, Never) \in Entry \ {NoEntry}
      BY ValsAssumption DEF Stored, Entry, NoEntry, TypeOK, Never
    <3> QED BY <2>1, <3>1 DEF Put
  <2>2. ASSUME NEW k \in Keys, Delete(k)
        PROVE  \E e \in Entry \ {NoEntry}, l \in Entry : WriteOne(k, e, l)
    <3>1. Stored(Tomb, nextSeq, Never) \in Entry \ {NoEntry} /\ Stored(Tomb, 0, Never) \in Entry
      BY ValsAssumption DEF Stored, Entry, NoEntry, TypeOK, Never
    <3> QED BY <2>2, <3>1 DEF Delete
  <2>3. ASSUME NEW k \in Keys, NEW v \in Vals, NEW ttl \in TTLs, PutTtl(k, v, ttl)
        PROVE  \E e \in Entry \ {NoEntry}, l \in Entry : WriteOne(k, e, l)
    <3>1. Stored(v, nextSeq, now + ttl) \in Entry \ {NoEntry}
      BY InputsAssumption, ValsAssumption DEF Stored, Entry, NoEntry, TypeOK
    <3> QED BY <2>3, <3>1 DEF PutTtl
  <2> QED BY <1>2, <2>1, <2>2, <2>3 DEF Request
<1> QED BY <1>1, <1>2 DEF SessionNext

(* The operation a batch is working on is typed.                            *)
LEMMA BatchOpTyped ==
  ASSUME ControlInv, pc \in {"log", "apply"}
  PROVE  batch[idx].key \in Keys /\ BatchEntry(batch[idx]) \in Entry \ {NoEntry}
<1>1. batch \in Seq(BatchOp) /\ idx \in 1 .. Len(batch)
  BY InputsAssumption DEF ControlInv
<1>2. batch[idx] \in BatchOp
  BY <1>1
<1> QED
  BY <1>2, ValsAssumption DEF BatchOp, BatchEntry, Stored, Entry, NoEntry, Never

(* What a merge yields is a table.                                          *)
LEMMA MergeTyped ==
  ASSUME TypeOK, NEW S PROVE Merge(S) \in Table
<1>1. ASSUME NEW m PROVE Contents(m) \in Table
  BY EmptyTyped DEF Contents, TypeOK
<1> QED BY <1>1, EmptyTyped DEF Merge, Table

(* TypeOK is preserved by every step of a session.                          *)
LEMMA TypeStep ==
  ASSUME TypeOK, ControlInv, SessionNext PROVE TypeOK'
<1> USE SizesAssumption, InputsAssumption
<1>1. ASSUME NEW k \in Keys, NEW e \in Entry, NEW l \in Entry, WriteOne(k, e, l)
      PROVE  TypeOK'
  <2>1. active' \in Table /\ frozen' \in Table /\ out' \in Table
    BY <1>1, MemPutTyped DEF WriteOne
  <2>2. wal' \in Table /\ latest' \in Table
    BY <1>1 DEF WriteOne, Logged, TypeOK, Table
  <2>3. pc' \in Steps
    BY <1>1 DEF WriteOne, ThenMaybeFlush, Steps
  <2> QED
    BY <1>1, <2>1, <2>2, <2>3 DEF WriteOne, TypeOK, sst, ctl
<1>2. ASSUME NEW b \in Batches, WriteBatch(b) PROVE TypeOK'
  BY <1>2 DEF WriteBatch, TypeOK, mem, sst, disk, ghost, Steps
<1>3. CASE Close
  BY <1>3, EmptyTyped DEF Close, TypeOK, sst, disk, ghost, Steps
<1>4. CASE Tick
  BY <1>4 DEF Tick, TypeOK, mem, sst, disk, ctl
<1>5. CASE BatchLog
  <2>1. wal' \in Table
    BY <1>5, BatchOpTyped DEF BatchLog, Logged, TypeOK, Table
  <2> QED
    BY <1>5, <2>1 DEF BatchLog, TypeOK, mem, sst, ghost, Steps
<1>6. CASE BatchApply
  <2>1. batch[idx].key \in Keys /\ BatchEntry(batch[idx]) \in Entry
    BY <1>6, BatchOpTyped DEF BatchApply
  <2>2. active' \in Table /\ frozen' \in Table /\ out' \in Table
    BY <1>6, <2>1, MemPutTyped DEF BatchApply
  <2>3. latest' \in Table
    BY <1>6, <2>1 DEF BatchApply, TypeOK, Table
  <2>4. pc' \in Steps /\ batch' \in Batches \cup {<< >>} /\ idx' \in Nat
    BY <1>6 DEF BatchApply, TypeOK, ThenMaybeFlush, Steps
  <2> QED
    BY <1>6, <2>2, <2>3, <2>4 DEF BatchApply, TypeOK, sst, disk
<1>7. CASE FlushBegin
  <2>1. TornFile \in SstFile
    BY EmptyTyped DEF TornFile, SstFile
  <2> QED
    BY <1>7, <2>1, EmptyTyped DEF FlushBegin, TypeOK, ctl, ghost, Steps
<1>8. CASE FlushBuild
  <2>1. AddSst(0) BY <1>8 DEF FlushBuild
  <2> QED
    BY <1>8, <2>1, AddSstTyped DEF FlushBuild, TypeOK, ghost, Steps
<1>9. CASE SaveBegin
  BY <1>9, FS_EmptySet DEF SaveBegin, TypeOK, mem, sst, ctl, ghost, Steps
<1>10. CASE SaveEnd
  BY <1>10 DEF SaveEnd, EncodedManifest, TypeOK, mem, sst, ctl, ghost
<1>11. CASE ResetWal
  BY <1>11, EmptyTyped DEF ResetWal, TypeOK, mem, sst, ghost, Steps
<1>12. CASE CompactSkip
  BY <1>12 DEF CompactSkip, LastLevel, TypeOK, mem, sst, disk, ghost
<1>13. CASE CompactBegin
  <2>1. TornFile \in SstFile
    BY EmptyTyped DEF TornFile, SstFile
  <2>2. Merge(Sources(cursor) \cup Overlapping(cursor)) \in Table
    BY MergeTyped
  <2>3. out' \in Table /\ nextId' \in Nat \ {0} /\ pc' \in Steps
    BY <1>13, <2>2 DEF CompactBegin, TypeOK, Steps
  <2>4. DOMAIN files' \subseteq Nat /\ \A i \in DOMAIN files' : files'[i] \in SstFile
    BY <1>13, <2>1 DEF CompactBegin, TypeOK
  <2>5. doomed' \subseteq Meta
    BY <1>13 DEF CompactBegin, Sources, Overlapping, SstsAtLevel, TypeOK
  <2> QED
    BY <1>13, <2>3, <2>4, <2>5 DEF CompactBegin, TypeOK, ghost
<1>14. CASE CompactBuild
  <2>1. AddSst(cursor + 1) /\ cursor + 1 \in Nat BY <1>14 DEF CompactBuild, TypeOK
  <2> QED
    BY <1>14, <2>1, AddSstTyped DEF CompactBuild, TypeOK, ctl, ghost, Steps
<1>15. CASE Unlink
  <2>1. PICK m \in doomed :
          /\ levels' = levels \ RemovedBy(m.id)
          /\ readers' = [r \in {x \in DOMAIN readers : x.id # m.id} |-> readers[r]]
          /\ files' = [i \in DOMAIN files \ {m.id} |-> files[i]]
          /\ doomed' = doomed \ {m}
    BY <1>15 DEF Unlink
  <2>2. levels' \subseteq Meta /\ IsFiniteSet(levels')
    BY <2>1, FS_Subset DEF TypeOK
  <2>3. DOMAIN readers' \subseteq levels'
    BY <2>1 DEF RemovedBy, TypeOK
  <2>4. cursor' \in Nat /\ cursor' < MaxLevels /\ pc' \in Steps /\ ret' \in Steps
    BY <1>15 DEF Unlink, TypeOK, ControlInv, Steps
  <2> QED
    BY <1>15, <2>1, <2>2, <2>3, <2>4 DEF Unlink, TypeOK, mem, ghost
<1>16. CASE CompactEnd
  BY <1>16 DEF CompactEnd, TypeOK, mem, sst, disk, ctl, ghost, Steps
<1>17. CASE CloseSave
  BY <1>17 DEF CloseSave, TypeOK, mem, sst, disk, ghost, Steps
<1> QED
  BY SessionCases, <1>1, <1>2, <1>3, <1>4, <1>5, <1>6, <1>7, <1>8, <1>9, <1>10, <1>11,
     <1>12, <1>13, <1>14, <1>15, <1>16, <1>17 DEF Internal

(* A non-empty batch has a first operation.                                 *)
LEMMA BatchNonEmpty ==
  ASSUME NEW b \in Batches PROVE 1 \in 1 .. Len(b) /\ Len(b) \in Nat
<1>1. b \in Seq(BatchOp) /\ b # << >>
  BY InputsAssumption
<1> QED BY <1>1

(* An SSTable id names one file, so remove_sst removes exactly that one.    *)
LEMMA RemovesOne ==
  ASSUME TypeOK, FilesInv, NEW m \in levels
  PROVE  RemovedBy(m.id) = {m}
  BY DEF RemovedBy, FilesInv, TypeOK, Meta

(* ControlInv is preserved by every step of a session.                      *)
LEMMA ControlStep ==
  ASSUME TypeOK, ControlInv, FilesInv, SessionNext PROVE ControlInv'
<1> USE SizesAssumption DEF Steps
<1>1. ASSUME NEW k \in Keys, NEW e \in Entry, NEW l \in Entry, WriteOne(k, e, l)
      PROVE  ControlInv'
  BY <1>1 DEF WriteOne, MemPut, ThenMaybeFlush, ControlInv, sst, ctl
<1>2. ASSUME NEW b \in Batches, WriteBatch(b) PROVE ControlInv'
  BY <1>2, BatchNonEmpty DEF WriteBatch, ControlInv, mem, sst, disk, ghost
<1>3. CASE Close
  BY <1>3 DEF Close, ControlInv, sst, disk, ghost
<1>4. CASE Tick
  <2>1. Sources(cursor)' = Sources(cursor) /\ Overlapping(cursor)' = Overlapping(cursor)
    BY <1>4 DEF Tick, Sources, Overlapping, SstsAtLevel, sst, ctl
  <2> QED BY <1>4, <2>1 DEF Tick, ControlInv, mem, sst, disk, ctl
<1>5. CASE BatchLog
  <2>1. Len(batch) \in Nat /\ 1 \in 1 .. Len(batch)
    BY <1>5, BatchNonEmpty DEF BatchLog, ControlInv
  <2> QED
    BY <1>5, <2>1 DEF BatchLog, ControlInv, mem, sst, ghost
<1>6. CASE BatchApply
  <2>1. Len(batch) \in Nat
    BY <1>6, BatchNonEmpty DEF BatchApply, ControlInv
  <2>2. out' = EmptyTable /\ doomed' = {}
    BY <1>6 DEF BatchApply, MemPut, ControlInv
  <2> QED
    BY <1>6, <2>1, <2>2 DEF BatchApply, ThenMaybeFlush, ControlInv, sst, disk
<1>7. CASE FlushBegin
  BY <1>7 DEF FlushBegin, ControlInv, ctl, ghost
<1>8. CASE FlushBuild
  BY <1>8 DEF FlushBuild, AddSst, ControlInv, ghost
<1>9. CASE SaveBegin
  BY <1>9 DEF SaveBegin, ControlInv, mem, sst, ctl, ghost
<1>10. CASE SaveEnd
  BY <1>10 DEF SaveEnd, ControlInv, mem, sst, ctl, ghost
<1>11. CASE ResetWal
  BY <1>11 DEF ResetWal, ControlInv, mem, sst, ghost
<1>12. CASE CompactSkip
  BY <1>12 DEF CompactSkip, ControlInv, mem, sst, disk, ghost
<1>13. CASE CompactBegin
  <2>1. Sources(cursor)' = Sources(cursor) /\ Overlapping(cursor)' = Overlapping(cursor)
    BY <1>13 DEF CompactBegin, Sources, Overlapping, SstsAtLevel
  <2>2. Sources(cursor) \cup Overlapping(cursor) \subseteq levels
    BY DEF Sources, Overlapping, SstsAtLevel
  <2> QED
    BY <1>13, <2>1, <2>2 DEF CompactBegin, LastLevel, ControlInv, ghost
<1>14. CASE CompactBuild
  BY <1>14 DEF CompactBuild, AddSst, ControlInv, ctl, ghost
<1>15. CASE Unlink
  <2>1. PICK m \in doomed : /\ levels' = levels \ RemovedBy(m.id)
                            /\ doomed' = doomed \ {m}
    BY <1>15 DEF Unlink
  <2>2. levels' = levels \ {m} /\ doomed' \subseteq levels'
    BY <1>15, <2>1, RemovesOne DEF Unlink, ControlInv
  <2> QED
    BY <1>15, <2>2 DEF Unlink, ControlInv, mem, ghost
<1>16. CASE CompactEnd
  BY <1>16 DEF CompactEnd, ControlInv, mem, sst, disk, ctl, ghost
<1>17. CASE CloseSave
  BY <1>17 DEF CloseSave, ControlInv, mem, sst, disk, ghost
<1> QED
  BY SessionCases, <1>1, <1>2, <1>3, <1>4, <1>5, <1>6, <1>7, <1>8, <1>9, <1>10, <1>11,
     <1>12, <1>13, <1>14, <1>15, <1>16, <1>17 DEF Internal

(* What AddSst does, in terms of the new meta n.                            *)
LEMMA AddSstAdds ==
  ASSUME TypeOK, FilesInv, NEW c \in Nat, AddSst(c), \A m \in levels : m.id < nextId - 1
  PROVE  \E n \in Meta :
           /\ n.id = nextId - 1 /\ n.level = c /\ n.slot = nextSlot
           /\ n.lo \in Held(out) /\ n.hi \in Held(out) /\ n.lo <= n.hi
           /\ \A k \in Held(out) : n.lo <= k /\ k <= n.hi
           /\ n \notin levels
           /\ levels' = levels \cup {n} /\ DOMAIN readers' = levels'
           /\ readers'[n] = out /\ \A m \in levels : readers'[m] = readers[m]
           /\ nextSlot' = nextSlot + 1 /\ out' = EmptyTable
<1>1. PICK lo \in Keys, hi \in Keys :
        LET id == nextId - 1
            m == [id |-> id, level |-> c, slot |-> nextSlot, lo |-> lo, hi |-> hi]
        IN  /\ Spans(out, lo, hi)
            /\ levels' = levels \cup {m}
            /\ readers' = [r \in DOMAIN readers \cup {m} |->
                              IF r = m THEN out ELSE readers[r]]
            /\ nextSlot' = nextSlot + 1
            /\ out' = EmptyTable
  BY DEF AddSst
<1> DEFINE n == [id |-> nextId - 1, level |-> c, slot |-> nextSlot, lo |-> lo, hi |-> hi]
<1>2. n \in Meta
  BY KeysAssumption DEF TypeOK, Meta
<1>3. n \notin levels
  BY DEF TypeOK, FilesInv
<1>4. lo \in Held(out) /\ hi \in Held(out) /\ \A k \in Held(out) : lo <= k /\ k <= hi
  BY <1>1 DEF Spans
<1>5. DOMAIN readers' = levels' /\ readers'[n] = out
      /\ \A m \in levels : readers'[m] = readers[m]
  BY <1>1, <1>3 DEF FilesInv
<1>6. lo <= hi
  BY <1>4
<1> WITNESS n \in Meta
<1> QED BY <1>1, <1>3, <1>4, <1>5, <1>6

(* An id names one reader, so find(|m| m.id == id) is the meta's own file.  *)
LEMMA ContentsOf ==
  ASSUME TypeOK, FilesInv, NEW m \in levels
  PROVE  Contents(m) = readers[m]
<1>1. \E r \in DOMAIN readers : r.id = m.id
  BY DEF FilesInv
<1>2. \A r \in DOMAIN readers : r.id = m.id => r = m
  BY DEF FilesInv
<1> QED BY <1>1, <1>2 DEF Contents

(* A merge only holds keys one of its inputs holds.                         *)
LEMMA MergeHeld ==
  ASSUME TypeOK, FilesInv, NEW S \in SUBSET levels, NEW k \in Held(Merge(S))
  PROVE  \E m \in S : readers[m][k] # NoEntry
<1>1. \E m \in S : Contents(m)[k] # NoEntry
  BY DEF Held, Merge
<1> QED BY <1>1, ContentsOf

(* FilesInv does not depend on anything but these variables.                *)
LEMMA FilesSame ==
  ASSUME FilesInv, UNCHANGED <<levels, readers, nextId, nextSlot>>,
         pc' \notin {"build", "merge"}
  PROVE  FilesInv'
  BY DEF FilesInv

(* A file pushed with the id and the slot handed out for it keeps FilesInv. *)
LEMMA FilesPushed ==
  ASSUME TypeOK, FilesInv, NEW n \in Meta,
         n.id = nextId - 1, n.slot = nextSlot, n.lo <= n.hi,
         \A k \in Held(out) : n.lo <= k /\ k <= n.hi,
         \A m \in levels : m.id < nextId - 1,
         levels' = levels \cup {n}, DOMAIN readers' = levels',
         readers'[n] = out, \A m \in levels : readers'[m] = readers[m],
         nextSlot' = nextSlot + 1, nextId' = nextId,
         pc' \notin {"build", "merge"}
  PROVE  FilesInv'
<1>1. DOMAIN readers' = levels'
  OBVIOUS
<1>2. \A m \in levels : /\ m.id < nextId /\ m.slot < nextSlot'
                        /\ m.lo <= m.hi
                        /\ \A k \in Keys : readers'[m][k] # NoEntry => m.lo <= k /\ k <= m.hi
  BY DEF FilesInv, TypeOK, Meta
<1>3. /\ n.id < nextId /\ n.slot < nextSlot'
      /\ n.lo <= n.hi
      /\ \A k \in Keys : readers'[n][k] # NoEntry => n.lo <= k /\ k <= n.hi
  BY DEF FilesInv, TypeOK, Held
<1>4. \A m \in levels : m.id # n.id /\ m.slot # n.slot
  BY DEF FilesInv, TypeOK, Meta
<1>5. \A x, y \in levels' : x.id = y.id \/ x.slot = y.slot => x = y
  BY <1>4 DEF FilesInv
<1> QED
  BY <1>1, <1>2, <1>3, <1>5 DEF FilesInv

(* FilesInv is preserved by every step of a session.                        *)
LEMMA FilesStep ==
  ASSUME TypeOK, ControlInv, FilesInv, SessionNext PROVE FilesInv'
<1>1. ASSUME NEW k \in Keys, NEW e \in Entry, NEW l \in Entry, WriteOne(k, e, l)
      PROVE  FilesInv'
  BY <1>1, FilesSame DEF WriteOne, ThenMaybeFlush, sst
<1>2. ASSUME NEW b \in Batches, WriteBatch(b) PROVE FilesInv'
  BY <1>2, FilesSame DEF WriteBatch, sst
<1>3. CASE Close
  BY <1>3, FilesSame DEF Close, sst
<1>4. CASE Tick
  BY <1>4 DEF Tick, FilesInv, Held, mem, sst, ctl
<1>5. CASE BatchLog
  BY <1>5, FilesSame DEF BatchLog, sst
<1>6. CASE BatchApply
  BY <1>6, FilesSame DEF BatchApply, ThenMaybeFlush, sst
<1>7. CASE FlushBegin
  BY <1>7 DEF FlushBegin, FilesInv, TypeOK, Meta
<1>8. CASE FlushBuild
  <2>1. AddSst(0) /\ \A m \in levels : m.id < nextId - 1
    BY <1>8 DEF FlushBuild, FilesInv
  <2>2. PICK n \in Meta :
           /\ n.id = nextId - 1 /\ n.level = 0 /\ n.slot = nextSlot /\ n.lo <= n.hi
           /\ \A k \in Held(out) : n.lo <= k /\ k <= n.hi
           /\ levels' = levels \cup {n} /\ DOMAIN readers' = levels'
           /\ readers'[n] = out /\ \A m \in levels : readers'[m] = readers[m]
           /\ nextSlot' = nextSlot + 1
    BY <2>1, AddSstAdds
  <2>3. nextId' = nextId /\ pc' = "save"
    BY <1>8 DEF FlushBuild
  <2> QED BY <2>1, <2>2, <2>3, FilesPushed
<1>9. CASE SaveBegin
  BY <1>9, FilesSame DEF SaveBegin, sst
<1>10. CASE SaveEnd
  BY <1>10, FilesSame DEF SaveEnd, ControlInv, sst
<1>11. CASE ResetWal
  BY <1>11, FilesSame DEF ResetWal, sst
<1>12. CASE CompactSkip
  BY <1>12, FilesSame DEF CompactSkip, sst
<1>13. CASE CompactBegin
  <2> DEFINE olds == Sources(cursor) \cup Overlapping(cursor)
  <2>1. olds \in SUBSET levels
    BY DEF Sources, Overlapping, SstsAtLevel
  <2>2. UNCHANGED <<levels, readers, nextSlot>> /\ nextId' \in {nextId, nextId + 1}
        /\ doomed' = olds
    BY <1>13 DEF CompactBegin
  <2>3. CASE pc' = "merge"
    <3>1. out' = Merge(olds) /\ nextId' = nextId + 1
      BY <1>13, <2>3 DEF CompactBegin
    <3>2. \A k \in Held(out') : \E m \in olds : m.lo <= k /\ k <= m.hi
      <4> TAKE k \in Held(out')
      <4>1. PICK m \in olds : readers[m][k] # NoEntry
        BY <2>1, <3>1, MergeHeld
      <4>2. k \in Keys BY DEF Held
      <4> QED BY <2>1, <4>1, <4>2 DEF FilesInv
    <3> HIDE DEF olds
    <3>3. Held(out)' = Held(out') BY DEF Held
    <3> QED BY <2>1, <2>2, <2>3, <3>1, <3>2, <3>3 DEF FilesInv, TypeOK, Meta
  <2>4. CASE pc' # "merge"
    <3>1. pc' = "unlink" /\ nextId' = nextId
      BY <1>13, <2>4 DEF CompactBegin
    <3> QED BY <2>2, <3>1, FilesSame
  <2> QED BY <2>3, <2>4
<1>14. CASE CompactBuild
  <2>1. AddSst(cursor + 1) /\ cursor + 1 \in Nat /\ \A m \in levels : m.id < nextId - 1
    BY <1>14 DEF CompactBuild, FilesInv, TypeOK
  <2>2. PICK n \in Meta :
           /\ n.id = nextId - 1 /\ n.slot = nextSlot /\ n.lo <= n.hi
           /\ \A k \in Held(out) : n.lo <= k /\ k <= n.hi
           /\ levels' = levels \cup {n} /\ DOMAIN readers' = levels'
           /\ readers'[n] = out /\ \A m \in levels : readers'[m] = readers[m]
           /\ nextSlot' = nextSlot + 1
    BY <2>1, AddSstAdds
  <2>3. nextId' = nextId /\ pc' = "unlink"
    BY <1>14 DEF CompactBuild
  <2> QED BY <2>1, <2>2, <2>3, FilesPushed
<1>15. CASE Unlink
  <2>1. PICK m \in doomed :
          /\ levels' = levels \ RemovedBy(m.id)
          /\ readers' = [r \in {x \in DOMAIN readers : x.id # m.id} |-> readers[r]]
    BY <1>15 DEF Unlink
  <2>2. m \in levels
    BY <1>15 DEF Unlink, ControlInv
  <2>3. levels' = levels \ {m}
    BY <2>1, <2>2, RemovesOne
  <2>4. {x \in DOMAIN readers : x.id # m.id} = levels'
    BY <2>2, <2>3 DEF FilesInv
  <2>5. nextId' = nextId /\ nextSlot' = nextSlot
        /\ pc' \notin {"build", "merge"}
    BY <1>15 DEF Unlink
  <2> QED BY <2>1, <2>3, <2>4, <2>5 DEF FilesInv
<1>16. CASE CompactEnd
  BY <1>16, FilesSame DEF CompactEnd, sst
<1>17. CASE CloseSave
  BY <1>17, FilesSame DEF CloseSave, sst
<1> QED
  BY SessionCases, <1>1, <1>2, <1>3, <1>4, <1>5, <1>6, <1>7, <1>8, <1>9, <1>10, <1>11,
     <1>12, <1>13, <1>14, <1>15, <1>16, <1>17 DEF Internal

----------------------------------------------------------------------------
(* Which files count changes only when a file is added or a compaction      *)
(* starts to remove its inputs; each removal then leaves Settled as it is.  *)
LEMMA SettledStep ==
  ASSUME TypeOK, ControlInv, FilesInv, SessionNext
  PROVE  \/ Settled' \subseteq Settled
         \/ FlushBuild
         \/ CompactBuild
<1>1. ASSUME NEW k \in Keys, NEW e \in Entry, NEW l \in Entry, WriteOne(k, e, l)
      PROVE  Settled' = Settled
  BY <1>1 DEF WriteOne, ThenMaybeFlush, Settled, sst
<1>2. ASSUME NEW b \in Batches, WriteBatch(b) PROVE Settled' = Settled
  BY <1>2 DEF WriteBatch, Settled, sst
<1>3. CASE Unlink
  <2>1. PICK m \in doomed :
          /\ levels' = levels \ RemovedBy(m.id)
          /\ doomed' = doomed \ {m}
    BY <1>3 DEF Unlink
  <2>2. levels' = levels \ {m} /\ pc = "unlink"
    BY <1>3, <2>1, RemovesOne DEF Unlink, ControlInv
  <2> QED BY <1>3, <2>1, <2>2 DEF Unlink, Settled
<1>4. CASE CompactBegin
  BY <1>4 DEF CompactBegin, Settled
<1>5. CASE Close \/ Tick \/ BatchLog \/ BatchApply \/ FlushBegin \/ SaveBegin
  BY <1>5 DEF Close, Tick, BatchLog, BatchApply, FlushBegin, SaveBegin,
              ThenMaybeFlush, Settled, sst, ctl
<1>6. CASE SaveEnd \/ ResetWal \/ CompactSkip \/ CompactEnd \/ CloseSave
  BY <1>6 DEF SaveEnd, ResetWal, CompactSkip, CompactEnd, CloseSave, ControlInv,
              Settled, sst, ctl
<1> QED
  BY SessionCases, <1>1, <1>2, <1>3, <1>4, <1>5, <1>6 DEF Internal

(* A file the merge leaves alone lies on one side of all keys it merged.    *)
LEMMA OutsideMerge ==
  ASSUME TypeOK, FilesInv, DisjointInv, ControlInv, pc = "merge",
         NEW q \in levels \ doomed, q.level = cursor + 1,
         NEW lo \in Held(out), NEW hi \in Held(out), lo <= hi
  PROVE  q.hi < lo \/ hi < q.lo
<1>1. doomed = Sources(cursor) \cup Overlapping(cursor) /\ doomed \subseteq levels
  BY DEF ControlInv
<1>2. q \in Meta /\ q.lo <= q.hi /\ cursor \in Nat
  BY DEF TypeOK, FilesInv
<1>3. \A m \in levels : m \in Meta /\ m.lo <= m.hi
  BY DEF TypeOK, FilesInv
<1>4. PICK a \in doomed : a.lo <= lo /\ lo <= a.hi
  BY DEF FilesInv
<1>5. PICK b \in doomed : b.lo <= hi /\ hi <= b.hi
  BY DEF FilesInv
<1>6. \A m \in Overlapping(cursor) : m.hi < q.lo \/ q.hi < m.lo
  BY <1>1, <1>2 DEF DisjointInv, Settled, Overlapping, SstsAtLevel
<1>7. lo \in Nat /\ hi \in Nat
  BY KeysAssumption DEF Held
<1>8. CASE \A s \in Sources(cursor) : q.hi < s.lo
  <2>1. CASE a \in Sources(cursor)
    BY <1>1, <1>2, <1>3, <1>4, <1>7, <1>8, <2>1 DEF Meta
  <2>2. CASE a \in Overlapping(cursor)
    <3>1. PICK s \in Sources(cursor) : a.hi >= s.lo
      BY <2>2 DEF Overlapping
    <3> QED
      BY <1>1, <1>2, <1>3, <1>4, <1>6, <1>7, <1>8, <2>2, <3>1 DEF Meta
  <2> QED BY <1>1, <2>1, <2>2
<1>9. CASE \A s \in Sources(cursor) : s.hi < q.lo
  <2>1. CASE b \in Sources(cursor)
    BY <1>1, <1>2, <1>3, <1>5, <1>7, <1>9, <2>1 DEF Meta
  <2>2. CASE b \in Overlapping(cursor)
    <3>1. PICK s \in Sources(cursor) : b.lo <= s.hi
      BY <2>2 DEF Overlapping
    <3> QED
      BY <1>1, <1>2, <1>3, <1>5, <1>6, <1>7, <1>9, <2>2, <3>1 DEF Meta
  <2> QED BY <1>1, <2>1, <2>2
<1>10. \/ \A s \in Sources(cursor) : q.hi < s.lo
       \/ \A s \in Sources(cursor) : s.hi < q.lo
  <2>1. q \notin Overlapping(cursor) /\ q \in SstsAtLevel(cursor + 1)
    BY <1>1 DEF SstsAtLevel
  <2>2. Sources(cursor) \subseteq levels
    BY <1>1
  <2> QED BY <1>2, <1>3, <2>1, <2>2 DEF Overlapping, Meta
<1> QED BY <1>8, <1>9, <1>10

(* DisjointInv is preserved by every step of a session.                     *)
LEMMA DisjointStep ==
  ASSUME TypeOK, ControlInv, FilesInv, DisjointInv, SessionNext PROVE DisjointInv'
<1>1. CASE Settled' \subseteq Settled
  BY <1>1 DEF DisjointInv
<1>2. CASE FlushBuild
  <2>1. AddSst(0) /\ \A m \in levels : m.id < nextId - 1
    BY <1>2 DEF FlushBuild, FilesInv
  <2>2. PICK n \in Meta : n.level = 0 /\ levels' = levels \cup {n}
    BY <2>1, AddSstAdds
  <2>3. Settled' = Settled \cup {n}
    BY <1>2, <2>2 DEF FlushBuild, Settled
  <2> QED BY <2>2, <2>3 DEF DisjointInv
<1>3. CASE CompactBuild
  <2>1. AddSst(cursor + 1) /\ cursor + 1 \in Nat /\ \A m \in levels : m.id < nextId - 1
    BY <1>3 DEF CompactBuild, FilesInv, TypeOK
  <2>2. PICK n \in Meta :
          /\ n.level = cursor + 1 /\ n.lo \in Held(out) /\ n.hi \in Held(out)
          /\ n.lo <= n.hi /\ levels' = levels \cup {n}
    BY <2>1, AddSstAdds
  <2>3. Settled' \subseteq (levels \ doomed) \cup {n}
    BY <1>3, <2>2 DEF CompactBuild, Settled, ctl
  <2>4. \A q \in levels \ doomed : q.level = n.level => q.hi < n.lo \/ n.hi < q.lo
    BY <1>3, <2>2, OutsideMerge DEF CompactBuild
  <2>5. levels \ doomed \subseteq Settled
    BY DEF Settled
  <2> QED BY <2>3, <2>4, <2>5 DEF DisjointInv
<1> QED BY <1>1, <1>2, <1>3, SettledStep

(* OrderInv is preserved by every step of a session.                        *)
LEMMA OrderStep ==
  ASSUME TypeOK, ControlInv, FilesInv, OrderInv, CapacityInv, SessionNext
  PROVE  OrderInv'
<1>1. CASE Settled' \subseteq Settled
  BY <1>1 DEF OrderInv
<1>2. CASE FlushBuild
  <2>1. AddSst(0) /\ \A m \in levels : m.id < nextId - 1
    BY <1>2 DEF FlushBuild, FilesInv
  <2>2. PICK n \in Meta : n.level = 0 /\ n.slot = nextSlot /\ levels' = levels \cup {n}
    BY <2>1, AddSstAdds
  <2>3. Settled' = Settled \cup {n} /\ Settled \subseteq levels
    BY <1>2, <2>2 DEF FlushBuild, Settled
  <2>4. \A m \in levels : m \in Meta /\ m.slot < n.slot
    BY <2>2 DEF FilesInv, TypeOK
  <2> QED BY <2>2, <2>3, <2>4 DEF OrderInv, Meta
<1>3. CASE CompactBuild
  <2>1. AddSst(cursor + 1) /\ cursor + 1 \in Nat /\ \A m \in levels : m.id < nextId - 1
    BY <1>3 DEF CompactBuild, FilesInv, TypeOK
  <2>2. PICK n \in Meta :
          n.level = cursor + 1 /\ n.slot = nextSlot /\ levels' = levels \cup {n}
    BY <2>1, AddSstAdds
  <2>3. Settled' \subseteq (levels \ doomed) \cup {n}
    BY <1>3, <2>2 DEF CompactBuild, Settled, ctl
  <2>4. \A m \in levels : m \in Meta /\ m.slot < n.slot
    BY <2>2 DEF FilesInv, TypeOK
  <2>5. \A m \in levels \ doomed : m.level >= n.level
    <3>1. doomed = Sources(cursor) \cup Overlapping(cursor)
      BY <1>3 DEF CompactBuild, ControlInv
    <3>2. \A m \in levels \ doomed : m.level # cursor
      BY <3>1 DEF Sources, SstsAtLevel
    <3>3. \A m \in levels : m.level >= cursor
      BY <1>3 DEF CompactBuild, CapacityInv
    <3> QED BY <2>2, <2>4, <3>2, <3>3 DEF TypeOK, Meta
  <2>6. levels \ doomed \subseteq Settled
    BY DEF Settled
  <2> QED BY <2>2, <2>3, <2>4, <2>5, <2>6 DEF OrderInv, Meta
<1> QED BY <1>1, <1>2, <1>3, SettledStep

(* Whether a level is below capacity depends on its files alone.            *)
LEMMA BelowSame ==
  ASSUME NEW c, SstsAtLevel(c)' = SstsAtLevel(c) PROVE Below(c)' <=> Below(c)
  BY DEF Below

(* An empty level is below capacity.                                        *)
LEMMA EmptyBelow ==
  ASSUME NEW c \in 0 .. MaxLevels - 2, SstsAtLevel(c)' = {} PROVE Below(c)'
<1>1. Threshold(c) \in Nat \ {0}
  BY SizesAssumption
<1>2. Cardinality({}) = 0
  BY FS_EmptySet
<1> QED BY <1>1, <1>2 DEF Below

(* Outside a compaction every level but the last is below capacity, except  *)
(* level 0 between the push of a new file and maybe_compact.                *)
LEMMA CapacityQuiet ==
  ASSUME CapacityInv, UNCHANGED levels,
         pc \notin {"save", "saving", "resetwal", "compact", "merge", "unlink"},
         pc' \notin {"merge", "unlink"}
  PROVE  CapacityInv'
<1>1. \A c \in 0 .. MaxLevels - 2 : Below(c)
  BY DEF CapacityInv
<1>2. \A c \in 0 .. MaxLevels - 2 : Below(c)'
  BY <1>1, BelowSame DEF SstsAtLevel
<1> QED BY <1>2 DEF CapacityInv

(* CapacityInv is preserved by every step of a session.                     *)
LEMMA CapacityStep ==
  ASSUME TypeOK, ControlInv, FilesInv, CapacityInv, SessionNext PROVE CapacityInv'
<1> USE SizesAssumption
<1>0. ASSUME UNCHANGED levels PROVE \A c \in 0 .. MaxLevels - 2 : Below(c)' <=> Below(c)
  BY <1>0, BelowSame DEF SstsAtLevel
<1>1. ASSUME NEW k \in Keys, NEW e \in Entry, NEW l \in Entry, WriteOne(k, e, l)
      PROVE  CapacityInv'
  BY <1>1, CapacityQuiet DEF WriteOne, ThenMaybeFlush, sst
<1>2. ASSUME NEW b \in Batches, WriteBatch(b) PROVE CapacityInv'
  BY <1>2, CapacityQuiet DEF WriteBatch, sst
<1>3. CASE Close
  BY <1>3, CapacityQuiet DEF Close, sst
<1>4. CASE Tick
  <2>1. UNCHANGED <<levels, pc, ret, cursor, doomed>>
    BY <1>4 DEF Tick, sst, ctl
  <2> QED BY <2>1, <1>0 DEF CapacityInv
<1>5. CASE BatchLog
  BY <1>5, CapacityQuiet DEF BatchLog, sst
<1>6. CASE BatchApply
  BY <1>6, CapacityQuiet DEF BatchApply, ThenMaybeFlush, sst
<1>7. CASE FlushBegin
  BY <1>7, CapacityQuiet DEF FlushBegin
<1>8. CASE FlushBuild
  <2>1. AddSst(0) /\ \A m \in levels : m.id < nextId - 1
    BY <1>8 DEF FlushBuild, FilesInv
  <2>2. PICK n \in Meta : n.level = 0 /\ levels' = levels \cup {n}
    BY <2>1, AddSstAdds
  <2>3. \A c \in 1 .. MaxLevels - 2 : SstsAtLevel(c)' = SstsAtLevel(c)
    BY <2>2 DEF SstsAtLevel
  <2>4. \A c \in 1 .. MaxLevels - 2 : Below(c)
    BY <1>8 DEF FlushBuild, CapacityInv
  <2>5. \A c \in 1 .. MaxLevels - 2 : Below(c)'
    BY <2>3, <2>4, BelowSame
  <2>6. pc' = "save" /\ ret' = "resetwal"
    BY <1>8 DEF FlushBuild
  <2> QED BY <2>5, <2>6 DEF CapacityInv
<1>9. CASE SaveBegin
  <2>1. UNCHANGED <<levels, ret, cursor>> /\ pc = "save" /\ pc' = "saving"
    BY <1>9 DEF SaveBegin, sst, ctl
  <2> QED BY <2>1, <1>0 DEF CapacityInv
<1>10. CASE SaveEnd
  <2>1. UNCHANGED <<levels, ret, cursor>> /\ pc = "saving" /\ pc' = ret
        /\ ret \in {"resetwal", "compact", "closed"}
    BY <1>10 DEF SaveEnd, ControlInv, sst, ctl
  <2> QED BY <2>1, <1>0 DEF CapacityInv
<1>11. CASE ResetWal
  <2>1. UNCHANGED levels /\ pc = "resetwal" /\ pc' = "compact" /\ cursor' = 0
    BY <1>11 DEF ResetWal, sst
  <2>2. \A m \in levels : m.level >= 0
    BY DEF TypeOK, Meta
  <2> QED BY <2>1, <2>2, <1>0 DEF CapacityInv
<1>12. CASE CompactSkip
  <2>1. UNCHANGED levels /\ pc = "compact" /\ pc' = "compact" /\ cursor' = cursor + 1
        /\ Below(cursor)
    BY <1>12 DEF CompactSkip, sst
  <2>2. \A c \in 0 .. MaxLevels - 2 : Below(c)
    BY <2>1 DEF CapacityInv
  <2> QED BY <2>1, <2>2, <1>0 DEF CapacityInv
<1>13. CASE CompactBegin
  <2>1. UNCHANGED <<levels, cursor>> /\ pc = "compact" /\ pc' \in {"merge", "unlink"}
        /\ ~Below(cursor) /\ cursor \in 0 .. MaxLevels - 2
        /\ doomed' = Sources(cursor) \cup Overlapping(cursor)
    BY <1>13 DEF CompactBegin, LastLevel, TypeOK
  <2>2. \A m \in levels : m.level >= cursor
    BY <2>1 DEF CapacityInv
  <2>3. \A m \in levels \ doomed' : m.level > cursor
    BY <2>1, <2>2 DEF Sources, SstsAtLevel, TypeOK, Meta
  <2>4. \A m \in doomed' : m.level \in {cursor, cursor + 1}
    BY <2>1 DEF Sources, Overlapping, SstsAtLevel
  <2>5. \A c \in 0 .. MaxLevels - 2 : Below(c) \/ c = cursor
    BY <2>1 DEF CapacityInv
  <2> QED BY <2>1, <2>2, <2>3, <2>4, <2>5, <1>0 DEF CapacityInv
<1>14. CASE CompactBuild
  <2>1. AddSst(cursor + 1) /\ cursor + 1 \in Nat /\ \A m \in levels : m.id < nextId - 1
    BY <1>14 DEF CompactBuild, FilesInv, TypeOK
  <2>2. PICK n \in Meta :
          n.level = cursor + 1 /\ n \notin levels /\ levels' = levels \cup {n}
    BY <2>1, AddSstAdds
  <2>3. UNCHANGED <<cursor, doomed>> /\ pc = "merge" /\ pc' = "unlink"
    BY <1>14 DEF CompactBuild, ctl
  <2>4. \A c \in 0 .. MaxLevels - 2 : c # cursor + 1 => (Below(c)' <=> Below(c))
    BY <2>2, BelowSame DEF SstsAtLevel
  <2>5. doomed = Sources(cursor) \cup Overlapping(cursor)
    BY <2>3 DEF ControlInv
  <2>6. \A m \in levels' \ doomed : m.level > cursor
    <3>1. \A m \in levels : m.level >= cursor
      BY <2>3 DEF CapacityInv
    <3> QED BY <2>2, <2>5, <3>1 DEF Sources, SstsAtLevel, TypeOK, Meta
  <2>7. \A m \in doomed : m.level \in {cursor, cursor + 1}
    BY <2>5 DEF Sources, Overlapping, SstsAtLevel
  <2> QED BY <2>3, <2>4, <2>6, <2>7 DEF CapacityInv
<1>15. CASE Unlink
  <2>1. PICK m \in doomed :
          /\ levels' = levels \ RemovedBy(m.id)
          /\ doomed' = doomed \ {m}
    BY <1>15 DEF Unlink
  <2>2. levels' = levels \ {m} /\ pc = "unlink" /\ cursor \in Nat /\ cursor < MaxLevels - 1
    BY <1>15, <2>1, RemovesOne DEF Unlink, ControlInv, TypeOK
  <2>3. \A x \in levels \ doomed : x.level > cursor
    BY <2>2 DEF CapacityInv
  <2>4. m.level \in {cursor, cursor + 1}
    BY <2>2 DEF CapacityInv
  <2>5. \A c \in 0 .. MaxLevels - 2 : c \notin {cursor, cursor + 1} => Below(c)'
    <3>1. \A c \in 0 .. MaxLevels - 2 :
             c \notin {cursor, cursor + 1} => SstsAtLevel(c)' = SstsAtLevel(c)
      BY <2>2, <2>4 DEF SstsAtLevel
    <3>2. \A c \in 0 .. MaxLevels - 2 : c \notin {cursor, cursor + 1} => Below(c)
      BY <2>2 DEF CapacityInv
    <3> QED BY <3>1, <3>2, BelowSame
  <2>6. CASE doomed' # {}
    <3>1. pc' = "unlink" /\ cursor' = cursor
      BY <1>15, <2>6 DEF Unlink
    <3> QED BY <2>1, <2>2, <2>3, <2>5, <3>1 DEF CapacityInv
  <2>7. CASE doomed' = {}
    <3>1. pc' = "save" /\ ret' = "compact" /\ cursor' = cursor + 1
      BY <1>15, <2>7 DEF Unlink
    <3>2. \A x \in levels' : x.level > cursor
      BY <2>1, <2>2, <2>3, <2>7
    <3>3. \A c \in 0 .. MaxLevels - 2 : c = cursor => Below(c)'
      <4> SUFFICES ASSUME NEW c \in 0 .. MaxLevels - 2, c = cursor PROVE Below(c)'
        OBVIOUS
      <4>1. SstsAtLevel(c)' = {}
        BY <2>2, <3>2 DEF SstsAtLevel
      <4> QED BY <4>1, EmptyBelow
    <3>4. \A x \in levels' : x.level >= cursor + 1
      BY <2>2, <3>2 DEF TypeOK, Meta
    <3> QED BY <2>5, <3>1, <3>3, <3>4 DEF CapacityInv
  <2> QED BY <2>6, <2>7
<1>16. CASE CompactEnd
  <2>1. UNCHANGED levels /\ pc = "compact" /\ cursor = MaxLevels - 1
        /\ pc' \in {"close", "idle"}
    BY <1>16 DEF CompactEnd, LastLevel, sst
  <2>2. \A c \in 0 .. MaxLevels - 2 : Below(c)
    BY <2>1 DEF CapacityInv
  <2> QED BY <2>1, <2>2, <1>0 DEF CapacityInv
<1>17. CASE CloseSave
  <2>1. UNCHANGED levels /\ pc = "close" /\ pc' = "save"
    BY <1>17 DEF CloseSave, sst
  <2> QED BY <2>1, CapacityQuiet
<1> QED
  BY SessionCases, <1>1, <1>2, <1>3, <1>4, <1>5, <1>6, <1>7, <1>8, <1>9, <1>10, <1>11,
     <1>12, <1>13, <1>14, <1>15, <1>16, <1>17 DEF Internal

----------------------------------------------------------------------------
(* A memtable insert makes the written entry the first one found ...        *)
LEMMA MemPutFresh ==
  ASSUME TypeOK, NEW k \in Keys, NEW e \in Entry, MemPut(k, e),
         latest' = [latest EXCEPT ![k] = e]
  PROVE  Fresh(k)' /\ latest'[k] = e
<1>1. \/ active' = [active EXCEPT ![k] = e]
      \/ active' = EmptyTable /\ frozen' = [active EXCEPT ![k] = e]
  BY DEF MemPut
<1> QED BY <1>1 DEF Fresh, TypeOK, Table, EmptyTable

(* ... and does not move any other key out of the search order.             *)
LEMMA MemPutOthers ==
  ASSUME TypeOK, NEW k \in Keys, NEW e \in Entry, MemPut(k, e),
         latest' = [latest EXCEPT ![k] = e], UNCHANGED <<levels, readers>>,
         pc \notin {"build", "merge", "unlink"}, pc' \notin {"build", "merge", "unlink"},
         NEW j \in Keys \ {k}, Fresh(j)
  PROVE  Fresh(j)'
<1> DEFINE grown == [active EXCEPT ![k] = e]
<1>1. \/ active' = grown /\ frozen' = frozen
      \/ active' = EmptyTable /\ frozen' = grown /\ frozen = EmptyTable
  BY DEF MemPut
<1>2. grown[j] = active[j] /\ latest'[j] = latest[j]
  BY DEF TypeOK, Table
<1>3. EmptyTable[j] = NoEntry
  BY DEF EmptyTable
<1>4. \A m \in levels : OnTop(m, j)' <=> OnTop(m, j)
  BY DEF OnTop
<1> HIDE DEF grown
<1> QED BY <1>1, <1>2, <1>3, <1>4 DEF Fresh

(* Steps that only touch the disk, the loop variables or the clock.         *)
LEMMA FreshQuiet ==
  ASSUME UNCHANGED <<active, frozen, levels, readers, latest>>,
         \/ UNCHANGED <<pc, out, doomed>>
         \/ /\ pc \notin {"build", "merge", "unlink"}
            /\ pc' \notin {"build", "merge", "unlink"},
         NEW k \in Keys, Fresh(k)
  PROVE  Fresh(k)'
<1>1. \A m \in levels : OnTop(m, k)' <=> OnTop(m, k)
  BY DEF OnTop
<1> QED BY <1>1 DEF Fresh

(* The merge of compact_level: for a key whose newest file is m, the merged *)
(* entry is m's if m takes part and the entry is live; if m does not take   *)
(* part no input holds the key.                                             *)
LEMMA MergeLatest ==
  ASSUME TypeOK, FilesInv, DisjointInv, OrderInv, CapacityInv,
         pc = "compact", cursor < MaxLevels - 1, ~Below(cursor),
         NEW k \in Keys, latest[k] # NoEntry,
         NEW m \in levels, readers[m][k] = latest[k], OnTop(m, k),
         NEW S, S = Sources(cursor) \cup Overlapping(cursor)
  PROVE  Merge(S)[k] = IF m \in S /\ Live(latest[k], now) THEN latest[k] ELSE NoEntry
<1>1. S \subseteq levels /\ \A x \in S : Contents(x) = readers[x]
  BY ContentsOf DEF Sources, Overlapping, SstsAtLevel
<1>2. latest[k] # NoEntry
  OBVIOUS
<1>3. \A x \in levels : x \in Meta
  BY DEF TypeOK
<1>4. \A x \in levels \ {m} : readers[x][k] # NoEntry => m.slot > x.slot /\ m.level <= x.level
  BY DEF OnTop, OrderInv, Settled
<1>5. cursor \in 0 .. MaxLevels - 2
  BY SizesAssumption DEF TypeOK
<1>6. \A x \in levels : x.level >= cursor
  BY <1>5 DEF CapacityInv
<1>7. CASE m \in S
  <2> DEFINE LastOne(x) == /\ Contents(x)[k] # NoEntry
                        /\ \A o \in S \ {x} : Contents(o)[k] # NoEntry => MergedAfter(x, o)
  <2>1. LastOne(m)
    BY <1>1, <1>2, <1>3, <1>4, <1>7 DEF MergedAfter, Meta
  <2>2. ASSUME NEW x \in S, LastOne(x) PROVE x = m
    BY <1>1, <1>3, <1>7, <2>1, <2>2 DEF MergedAfter, Meta
  <2>3. (CHOOSE x \in S : LastOne(x)) = m
    BY <1>7, <2>1, <2>2
  <2>4. Contents(m)[k] = latest[k]
    BY <1>1, <1>7
  <2> QED BY <1>2, <1>7, <2>3, <2>4 DEF Merge
<1>8. CASE m \notin S
  <2>1. ASSUME NEW o \in S, readers[o][k] # NoEntry PROVE FALSE
    <3>1. m.level <= o.level /\ m # o
      BY <1>1, <1>4, <1>8, <2>1
    <3>2. m.level # cursor
      BY <1>8 DEF Sources, SstsAtLevel
    <3>3. o.level \in {cursor, cursor + 1}
      BY <2>1 DEF Sources, Overlapping, SstsAtLevel
    <3>4. m.level = cursor + 1 /\ o.level = cursor + 1
      BY <1>1, <1>3, <1>5, <1>6, <3>1, <3>2, <3>3 DEF Meta
    <3>5. m.lo <= k /\ k <= m.hi /\ o.lo <= k /\ k <= o.hi
      BY <1>1, <1>2, <2>1 DEF FilesInv
    <3>6. m.hi < o.lo \/ o.hi < m.lo
      BY <1>1, <1>5, <3>1, <3>4 DEF DisjointInv, Settled
    <3> QED BY <1>1, <1>3, <3>5, <3>6, KeysAssumption DEF Meta
  <2> QED BY <1>1, <1>8, <2>1 DEF Merge
<1> QED BY <1>7, <1>8

(* A write is found first from the step on that inserts it.                 *)
LEMMA WriteStep ==
  ASSUME TypeOK, ControlInv, SessionNext, NEW k \in Keys, latest'[k] # latest[k]
  PROVE  Fresh(k)' /\ latest'[k] # NoEntry
<1>1. ASSUME NEW j \in Keys, NEW e \in Entry, NEW l \in Entry, WriteOne(j, e, l), e # NoEntry
      PROVE  Fresh(k)' /\ latest'[k] # NoEntry
  <2>1. MemPut(j, e) /\ latest' = [latest EXCEPT ![j] = e]
    BY <1>1 DEF WriteOne
  <2>2. k = j
    BY <2>1 DEF TypeOK, Table
  <2> QED BY <1>1, <2>1, <2>2, MemPutFresh
<1>2. CASE BatchApply
  <2>1. batch[idx].key \in Keys /\ BatchEntry(batch[idx]) \in Entry
        /\ BatchEntry(batch[idx]) # NoEntry
    BY <1>2, BatchOpTyped DEF BatchApply
  <2>2. MemPut(batch[idx].key, BatchEntry(batch[idx]))
        /\ latest' = [latest EXCEPT ![batch[idx].key] = BatchEntry(batch[idx])]
    BY <1>2 DEF BatchApply
  <2>3. k = batch[idx].key
    BY <2>1, <2>2 DEF TypeOK, Table
  <2> QED BY <2>1, <2>2, <2>3, MemPutFresh
<1>3. ASSUME UNCHANGED latest PROVE FALSE
  BY <1>3
<1>4. CASE Close \/ Tick \/ BatchLog \/ FlushBegin \/ FlushBuild \/ SaveBegin \/ SaveEnd
  BY <1>3, <1>4 DEF Close, Tick, BatchLog, FlushBegin, FlushBuild, SaveBegin, SaveEnd, ghost
<1>5. CASE ResetWal \/ CompactSkip \/ CompactBegin \/ CompactBuild \/ Unlink \/ CompactEnd
           \/ CloseSave \/ \E b \in Batches : WriteBatch(b)
  BY <1>3, <1>5 DEF ResetWal, CompactSkip, CompactBegin, CompactBuild, Unlink, CompactEnd,
                    CloseSave, WriteBatch, ghost
<1> QED
  BY SessionCases, <1>1, <1>2, <1>4, <1>5 DEF Internal

(* A step that does not write a key keeps its last write where it is found; *)
(* only a merge may drop it, and only when it is dead.                      *)
LEMMA KeepStep ==
  ASSUME TypeOK, ControlInv, FilesInv, DisjointInv, OrderInv, CapacityInv, SessionNext,
         NEW k \in Keys, latest'[k] = latest[k], latest[k] # NoEntry, Fresh(k),
         Live(latest[k], now) \/ ~CompactBegin
  PROVE  Fresh(k)'
<1>0. EmptyTable[k] = NoEntry
  BY DEF EmptyTable
<1>1. ASSUME NEW j \in Keys, NEW e \in Entry, NEW l \in Entry, WriteOne(j, e, l)
      PROVE  Fresh(k)'
  <2>1. UNCHANGED <<levels, readers>> /\ pc = "idle" /\ pc' \in {"flush", "idle"}
        /\ MemPut(j, e) /\ latest' = [latest EXCEPT ![j] = e]
    BY <1>1 DEF WriteOne, ThenMaybeFlush, sst
  <2> QED BY <2>1, MemPutFresh, MemPutOthers
<1>2. ASSUME NEW b \in Batches, WriteBatch(b) PROVE Fresh(k)'
  BY <1>2, FreshQuiet DEF WriteBatch, mem, sst, ghost
<1>3. CASE Close
  <2>1. frozen = EmptyTable /\ UNCHANGED <<levels, readers, latest>>
        /\ pc = "idle" /\ pc' \in {"flush", "close"}
    BY <1>3 DEF Close, ControlInv, sst, ghost
  <2>2. \/ UNCHANGED <<active, frozen>>
        \/ frozen' = active /\ active' = EmptyTable
    BY <1>3 DEF Close
  <2>3. \A m \in levels : OnTop(m, k)' <=> OnTop(m, k)
    BY <2>1 DEF OnTop
  <2> QED BY <1>0, <2>1, <2>2, <2>3 DEF Fresh
<1>4. CASE Tick
  BY <1>4, FreshQuiet DEF Tick, mem, sst, ctl
<1>5. CASE BatchLog
  BY <1>5, FreshQuiet DEF BatchLog, mem, sst, ghost
<1>6. CASE BatchApply
  <2>1. batch[idx].key \in Keys /\ BatchEntry(batch[idx]) \in Entry
    BY <1>6, BatchOpTyped DEF BatchApply
  <2>2. UNCHANGED <<levels, readers>> /\ pc = "apply" /\ pc' \in {"apply", "flush", "idle"}
        /\ MemPut(batch[idx].key, BatchEntry(batch[idx]))
        /\ latest' = [latest EXCEPT ![batch[idx].key] = BatchEntry(batch[idx])]
    BY <1>6 DEF BatchApply, ThenMaybeFlush, sst
  <2>3. CASE k = batch[idx].key
    BY <2>1, <2>2, <2>3, MemPutFresh
  <2>4. CASE k # batch[idx].key
    BY <2>1, <2>2, <2>4, MemPutOthers
  <2> QED BY <2>3, <2>4
<1>7. CASE FlushBegin
  <2>1. out' = frozen /\ frozen' = EmptyTable /\ pc = "flush" /\ pc' = "build"
        /\ UNCHANGED <<active, levels, readers, latest>>
    BY <1>7 DEF FlushBegin, ghost
  <2>2. \A m \in levels : OnTop(m, k)' <=> OnTop(m, k)
    BY <2>1 DEF OnTop
  <2> QED BY <1>0, <2>1, <2>2 DEF Fresh
<1>8. CASE FlushBuild
  <2>1. AddSst(0) /\ \A m \in levels : m.id < nextId - 1
    BY <1>8 DEF FlushBuild, FilesInv
  <2>2. PICK n \in Meta :
          /\ n.slot = nextSlot /\ n \notin levels
          /\ levels' = levels \cup {n}
          /\ readers'[n] = out /\ \A m \in levels : readers'[m] = readers[m]
    BY <2>1, AddSstAdds
  <2>3. UNCHANGED <<active, frozen, latest>> /\ pc = "build" /\ pc' = "save"
    BY <1>8 DEF FlushBuild, ghost
  <2>5. OnTop(n, k)'
    BY <2>2 DEF OnTop, FilesInv, TypeOK, Meta
  <2>6. ASSUME NEW m \in levels, OnTop(m, k), out[k] = NoEntry PROVE OnTop(m, k)'
    BY <2>2, <2>6 DEF OnTop
  <2> QED BY <2>2, <2>3, <2>5, <2>6 DEF Fresh
<1>9. CASE SaveBegin
  BY <1>9, FreshQuiet DEF SaveBegin, mem, sst, ghost
<1>10. CASE SaveEnd
  BY <1>10, FreshQuiet DEF SaveEnd, ControlInv, mem, sst, ghost
<1>11. CASE ResetWal
  BY <1>11, FreshQuiet DEF ResetWal, mem, sst, ghost
<1>12. CASE CompactSkip
  BY <1>12, FreshQuiet DEF CompactSkip, mem, sst, ghost
<1>13. CASE CompactBegin
  <2> DEFINE S == Sources(cursor) \cup Overlapping(cursor)
  <2>1. /\ UNCHANGED <<active, frozen, levels, readers, latest>>
        /\ pc = "compact" /\ cursor < MaxLevels - 1 /\ ~Below(cursor) /\ doomed' = S
        /\ \/ pc' = "unlink" /\ Merge(S) = EmptyTable
           \/ pc' = "merge" /\ out' = Merge(S)
    BY <1>13 DEF CompactBegin, LastLevel, ghost
  <2>2. Live(latest[k], now)
    BY <1>13
  <2>4. \A m \in levels : OnTop(m, k)' <=> OnTop(m, k)
    BY <2>1 DEF OnTop
  <2>5. ASSUME NEW m \in levels, readers[m][k] = latest[k], OnTop(m, k)
        PROVE  Merge(S)[k] = IF m \in S THEN latest[k] ELSE NoEntry
    BY <2>1, <2>2, <2>5, MergeLatest
  <2> HIDE DEF S
  <2> QED BY <1>0, <2>1, <2>4, <2>5 DEF Fresh
<1>14. CASE CompactBuild
  <2>1. AddSst(cursor + 1) /\ cursor + 1 \in Nat /\ \A m \in levels : m.id < nextId - 1
    BY <1>14 DEF CompactBuild, FilesInv, TypeOK
  <2>2. PICK n \in Meta :
          /\ n.slot = nextSlot /\ n \notin levels
          /\ levels' = levels \cup {n}
          /\ readers'[n] = out /\ \A m \in levels : readers'[m] = readers[m]
    BY <2>1, AddSstAdds
  <2>3. UNCHANGED <<active, frozen, latest, doomed>> /\ pc = "merge" /\ pc' = "unlink"
        /\ doomed \subseteq levels
    BY <1>14 DEF CompactBuild, ControlInv, ctl, ghost
  <2>5. OnTop(n, k)'
    BY <2>2 DEF OnTop, FilesInv, TypeOK, Meta
  <2>6. ASSUME NEW m \in levels, OnTop(m, k), out[k] = NoEntry PROVE OnTop(m, k)'
    BY <2>2, <2>6 DEF OnTop
  <2> QED BY <2>2, <2>3, <2>5, <2>6 DEF Fresh
<1>15. CASE Unlink
  <2>1. PICK m \in doomed :
          /\ levels' = levels \ RemovedBy(m.id)
          /\ readers' = [r \in {x \in DOMAIN readers : x.id # m.id} |-> readers[r]]
          /\ doomed' = doomed \ {m}
    BY <1>15 DEF Unlink
  <2>2. /\ m \in levels /\ pc = "unlink" /\ pc' \in {"unlink", "save"}
        /\ UNCHANGED <<active, frozen, latest>>
    BY <1>15 DEF Unlink, ControlInv, mem, ghost
  <2>3. levels' = levels \ {m}
    BY <2>1, <2>2, RemovesOne
  <2>4. {x \in DOMAIN readers : x.id # m.id} = levels'
    BY <2>2, <2>3 DEF FilesInv
  <2>5. \A x \in levels' : readers'[x] = readers[x]
    BY <2>1, <2>4
  <2>7. ASSUME NEW x \in levels', OnTop(x, k) PROVE OnTop(x, k)'
    BY <2>3, <2>5, <2>7 DEF OnTop
  <2> QED BY <2>1, <2>2, <2>3, <2>5, <2>7 DEF Fresh
<1>16. CASE CompactEnd
  BY <1>16, FreshQuiet DEF CompactEnd, mem, sst, ghost
<1>17. CASE CloseSave
  BY <1>17, FreshQuiet DEF CloseSave, mem, sst, ghost
<1> QED
  BY SessionCases, <1>1, <1>2, <1>3, <1>4, <1>5, <1>6, <1>7, <1>8, <1>9, <1>10, <1>11,
     <1>12, <1>13, <1>14, <1>15, <1>16, <1>17 DEF Internal

(* The clock of a session stands still or advances by one.                  *)
LEMMA ClockStep ==
  ASSUME TypeOK, SessionNext PROVE now' \in {now, now + 1}
<1>1. ASSUME NEW k \in Keys, NEW e \in Entry, NEW l \in Entry, WriteOne(k, e, l)
      PROVE  now' = now
  BY <1>1 DEF WriteOne
<1>2. CASE Close \/ Tick \/ BatchLog \/ BatchApply \/ FlushBegin \/ FlushBuild \/ SaveBegin
           \/ SaveEnd
  BY <1>2 DEF Close, Tick, BatchLog, BatchApply, FlushBegin, FlushBuild, SaveBegin, SaveEnd,
              ghost
<1>3. CASE ResetWal \/ CompactSkip \/ CompactBegin \/ CompactBuild \/ Unlink \/ CompactEnd
           \/ CloseSave \/ \E b \in Batches : WriteBatch(b)
  BY <1>3 DEF ResetWal, CompactSkip, CompactBegin, CompactBuild, Unlink, CompactEnd,
              CloseSave, WriteBatch, ghost
<1> QED BY SessionCases, <1>1, <1>2, <1>3 DEF Internal

(* FreshInv is preserved by every step of a session.                        *)
LEMMA FreshStep ==
  ASSUME CoreInv, SessionNext PROVE FreshInv'
<1> USE DEF CoreInv
<1> SUFFICES ASSUME NEW k \in Keys, Live(latest[k], now)' PROVE Fresh(k)'
  BY DEF FreshInv
<1>1. CASE latest'[k] # latest[k]
  BY <1>1, WriteStep
<1>2. CASE latest'[k] = latest[k]
  <2>1. latest[k] \in Entry /\ now \in Nat
    BY DEF TypeOK, Table
  <2>2. Live(latest[k], now') /\ now' \in {now, now + 1}
    BY <1>2, ClockStep DEF Live
  <2>3. Live(latest[k], now)
    BY <2>1, <2>2, LiveBefore
  <2>4. latest[k] # NoEntry /\ Fresh(k)
    BY <2>3, LiveIsEntry DEF FreshInv
  <2> QED BY <1>2, <2>3, <2>4, KeepStep
<1> QED BY <1>1, <1>2

----------------------------------------------------------------------------
(* A new directory satisfies the invariant.                                 *)
LEMMA SessionInit == Init => SessionInv
<1> SUFFICES ASSUME Init PROVE SessionInv
  OBVIOUS
<1> USE SizesAssumption DEF Init
<1>1. TypeOK
  <2>1. readers = << >> /\ DOMAIN readers = {} /\ files = << >> /\ DOMAIN files = {}
    OBVIOUS
  <2>2. IsFiniteSet(levels) /\ IsFiniteSet(diskManifest.metas)
    BY FS_EmptySet
  <2>3. cursor \in Nat /\ cursor < MaxLevels
    OBVIOUS
  <2>4. pc \in Steps /\ ret \in Steps /\ closing \in BOOLEAN
        /\ diskManifest.whole \in BOOLEAN /\ diskManifest.metas = {}
    BY DEF Steps
  <2>5. active \in Table /\ frozen \in Table /\ out \in Table /\ wal \in Table
        /\ latest \in Table
    BY EmptyTyped
  <2>6. levels = {} /\ doomed = {} /\ batch = << >>
    OBVIOUS
  <2>7. /\ nextId \in Nat \ {0} /\ nextSeq \in Nat /\ nextSlot \in Nat /\ base \in Nat
        /\ idx \in Nat /\ now \in Nat /\ opens \in Nat
    OBVIOUS
  <2> HIDE DEF Init
  <2> QED
    BY <2>1, <2>2, <2>3, <2>4, <2>5, <2>6, <2>7 DEF TypeOK
<1>2. ControlInv /\ FilesInv /\ DisjointInv /\ OrderInv
  BY DEF ControlInv, FilesInv, DisjointInv, OrderInv, Settled
<1>3. CapacityInv
  <2>1. \A c \in 0 .. MaxLevels - 2 : Below(c)
    <3> SUFFICES ASSUME NEW c \in 0 .. MaxLevels - 2 PROVE Below(c)
      OBVIOUS
    <3>1. SstsAtLevel(c) = {} /\ Cardinality({}) = 0
      BY FS_EmptySet DEF SstsAtLevel
    <3>2. Threshold(c) \in Nat \ {0}
      OBVIOUS
    <3> QED BY <3>1, <3>2 DEF Below
  <2> QED BY <2>1 DEF CapacityInv
<1>4. FreshInv
  <2>1. \A k \in Keys : ~Live(latest[k], now)
    BY LiveIsEntry DEF EmptyTable
  <2> QED BY <2>1 DEF FreshInv
<1>5. BaseInv
  BY DEF BaseInv
<1> QED BY <1>1, <1>2, <1>3, <1>4, <1>5 DEF SessionInv, CoreInv

(* A step that changes nothing keeps the invariant.                         *)
LEMMA CoreStutter == CoreInv /\ UNCHANGED vars => CoreInv'
<1> SUFFICES ASSUME CoreInv, UNCHANGED vars PROVE CoreInv'
  OBVIOUS
<1> USE DEF CoreInv, vars, mem, sst, disk, ctl, ghost
<1>1. TypeOK' BY DEF TypeOK
<1>2. ControlInv' BY DEF ControlInv, Sources, Overlapping, SstsAtLevel
<1>3. FilesInv' BY DEF FilesInv, Held
<1>4. DisjointInv' /\ OrderInv' BY DEF DisjointInv, OrderInv, Settled
<1>5. CapacityInv' BY DEF CapacityInv, Below, SstsAtLevel
<1>6. FreshInv' BY DEF FreshInv, Fresh, OnTop, Live
<1> QED BY <1>1, <1>2, <1>3, <1>4, <1>5, <1>6

(* Every step of a session preserves CoreInv, whatever open loaded.         *)
LEMMA CoreStep == CoreInv /\ SessionNext => CoreInv'
<1> SUFFICES ASSUME CoreInv, SessionNext PROVE CoreInv'
  OBVIOUS
<1>1. TypeOK /\ ControlInv /\ FilesInv /\ DisjointInv /\ OrderInv /\ CapacityInv
  BY DEF CoreInv
<1>2. TypeOK' /\ ControlInv' /\ FilesInv'
  BY <1>1, TypeStep, ControlStep, FilesStep
<1>3. DisjointInv' /\ OrderInv' /\ CapacityInv'
  BY <1>1, DisjointStep, OrderStep, CapacityStep
<1> QED BY <1>2, <1>3, FreshStep DEF CoreInv

(* Steps other than the push of a reader neither add files nor move base.   *)
LEMMA NewFiles ==
  ASSUME TypeOK, SessionNext
  PROVE  base' = base /\ (UNCHANGED <<levels, nextSlot>> \/ FlushBuild \/ CompactBuild
                          \/ (levels' \subseteq levels /\ nextSlot' = nextSlot))
<1>1. ASSUME NEW k \in Keys, NEW e \in Entry, NEW l \in Entry, WriteOne(k, e, l)
      PROVE  UNCHANGED <<base, levels, nextSlot>>
  BY <1>1 DEF WriteOne, sst
<1>2. CASE FlushBuild \/ CompactBuild
  BY <1>2 DEF FlushBuild, CompactBuild
<1>3. CASE Unlink
  BY <1>3 DEF Unlink
<1>4. CASE Close \/ Tick \/ BatchLog \/ BatchApply \/ FlushBegin \/ SaveBegin \/ SaveEnd
  BY <1>4 DEF Close, Tick, BatchLog, BatchApply, FlushBegin, SaveBegin, SaveEnd, sst
<1>5. CASE ResetWal \/ CompactSkip \/ CompactBegin \/ CompactEnd
           \/ CloseSave \/ \E b \in Batches : WriteBatch(b)
  BY <1>5 DEF ResetWal, CompactSkip, CompactBegin, CompactEnd, CloseSave, WriteBatch, sst
<1> QED BY SessionCases, <1>1, <1>2, <1>3, <1>4, <1>5 DEF Internal

(* A reader pushed now stands after every reader open loaded.               *)
LEMMA BaseStep ==
  ASSUME TypeOK, FilesInv, BaseInv, SessionNext PROVE BaseInv'
<1>1. CASE UNCHANGED <<levels, nextSlot>> \/ (levels' \subseteq levels /\ nextSlot' = nextSlot)
  BY <1>1, NewFiles DEF BaseInv
<1>2. ASSUME NEW c \in Nat, AddSst(c), \A m \in levels : m.id < nextId - 1
      PROVE  BaseInv'
  <2>1. PICK n \in Meta :
          n.slot = nextSlot /\ levels' = levels \cup {n} /\ nextSlot' = nextSlot + 1
    BY <1>2, AddSstAdds
  <2> QED BY <2>1, NewFiles DEF BaseInv, TypeOK
<1>3. CASE FlushBuild
  BY <1>2, <1>3 DEF FlushBuild, FilesInv
<1>4. CASE CompactBuild
  BY <1>2, <1>4 DEF CompactBuild, FilesInv, TypeOK
<1> QED BY <1>1, <1>3, <1>4, NewFiles

(* SessionInv holds in every state of a session: compaction finds the       *)
(* shallower levels empty, so what it pushes to the end of sst_readers is   *)
(* never older than what stands before it.                                  *)
THEOREM SessionInvariant == Session => []SessionInv
<1>1. SessionInv /\ SessionNext => SessionInv'
  BY CoreStep, BaseStep DEF SessionInv, CoreInv
<1>2. SessionInv /\ UNCHANGED vars => SessionInv'
  BY CoreStutter DEF SessionInv, BaseInv, vars, sst
<1>3. SessionInv /\ [SessionNext]_vars => SessionInv'
  BY <1>1, <1>2
<1> QED BY <1>3, SessionInit, PTL DEF Session

(* Of readers pushed in this session, the search stops at the newest one    *)
(* that holds the key.                                                      *)
LEMMA TopRead ==
  ASSUME TypeOK, BaseInv, NEW S \in SUBSET levels, NEW k \in Keys,
         NEW m \in S, readers[m][k] # NoEntry,
         \A o \in S \ {m} : readers[o][k] # NoEntry => m.slot > o.slot
  PROVE  InSsts(S, k) = readers[m][k]
<1>1. \A a \in S : a \in Meta /\ a.slot >= base
  BY DEF BaseInv, TypeOK, Meta
<1>2. \A a, b \in S : After(a, b) <=> a.slot > b.slot
  BY <1>1 DEF After
<1> DEFINE Top(x) == /\ readers[x][k] # NoEntry
                     /\ \A o \in S \ {x} : readers[o][k] # NoEntry => After(x, o)
<1>3. Top(m)
  BY <1>2
<1>4. ASSUME NEW x \in S, Top(x) PROVE x = m
  BY <1>1, <1>2, <1>3, <1>4 DEF Meta
<1>5. (CHOOSE x \in S : Top(x)) = m
  BY <1>3, <1>4
<1>6. TopReader(S, k) = m
  BY <1>5 DEF TopReader
<1> QED BY <1>6 DEF InSsts

(* The entry FreshInv places in the readers is the one get returns.         *)
LEMMA FreshIsRead ==
  ASSUME SessionInv, pc = "idle", NEW k \in Keys, Fresh(k), latest[k] # NoEntry
  PROVE  Lookup(k) = latest[k]
<1> USE DEF SessionInv, CoreInv
<1>2. frozen[k] = NoEntry
  BY DEF ControlInv, EmptyTable
<1>3. CASE active[k] = latest[k]
  BY <1>3 DEF Lookup
<1>4. CASE active[k] = NoEntry
  <2>1. PICK m \in levels : readers[m][k] = latest[k] /\ OnTop(m, k)
    BY <1>2, <1>4 DEF Fresh
  <2>2. InSsts(levels, k) = latest[k]
    BY <2>1, TopRead DEF OnTop
  <2> QED BY <1>2, <1>4, <2>2 DEF Lookup, FilesInv
<1> QED BY <1>2, <1>3, <1>4 DEF Fresh

(* In a session get never answers with an older value of a key than its     *)
(* last live write, whatever the sizes and thresholds of the options.       *)
THEOREM SessionReads == Session => []NoStaleRead
<1>1. SessionInv => NoStaleRead
  BY FreshIsRead, LiveIsEntry DEF NoStaleRead, SessionInv, CoreInv, FreshInv
<1> QED BY <1>1, SessionInvariant, PTL

(* In a session the files of each level below 0 stay disjoint between       *)
(* operations: compact_level merges every file its output overlaps.         *)
THEOREM SessionLevels == Session => []LevelsDisjoint
<1>1. SessionInv => LevelsDisjoint
  BY DEF SessionInv, CoreInv, DisjointInv, Settled, LevelsDisjoint
<1> QED BY <1>1, SessionInvariant, PTL

(* In a session a reader pushed later is never on a deeper level than an    *)
(* earlier one, so the reverse walk of get goes from new to old.            *)
THEOREM SessionOrder == Session => []LevelOrder
<1>1. SessionInv => LevelOrder
  BY DEF SessionInv, CoreInv, OrderInv, Settled, LevelOrder
<1> QED BY <1>1, SessionInvariant, PTL

(* When an operation of a session returns, no level is over its threshold:  *)
(* one pass of maybe_compact is enough, however far it cascades.            *)
THEOREM SessionCapacity == Session => []BelowThreshold
<1>1. SessionInv => BelowThreshold
  BY DEF SessionInv, CoreInv, CapacityInv, BelowThreshold, Below
<1> QED BY <1>1, SessionInvariant, PTL

(* The state of a session is typed.                                         *)
THEOREM SessionTyped == Session => []TypeOK
<1>1. SessionInv => TypeOK
  BY DEF SessionInv, CoreInv
<1> QED BY <1>1, SessionInvariant, PTL

----------------------------------------------------------------------------
(* Sessions that follow one another on the same directory, each ended by    *)
(* close: RestartInv is inductive, and no live value is lost from one       *)
(* session to the next.                                                     *)

(* The file of every meta is whole and holds what its reader holds.         *)
FilesOnDisk ==
    \A m \in levels : m.id \in DOMAIN files /\ files[m.id] = WholeFile(readers[m])

(* The file AddSst finishes is the one its new meta names.                  *)
LEMMA OnDiskPushed ==
  ASSUME TypeOK, FilesInv, FilesOnDisk, NEW c \in Nat, AddSst(c),
         \A m \in levels : m.id < nextId - 1
  PROVE  FilesOnDisk'
<1>1. PICK n \in Meta :
        /\ n.id = nextId - 1 /\ n \notin levels
        /\ levels' = levels \cup {n}
        /\ readers'[n] = out /\ \A m \in levels : readers'[m] = readers[m]
  BY AddSstAdds
<1>2. files' = [i \in DOMAIN files \cup {nextId - 1} |->
                  IF i = nextId - 1 THEN WholeFile(out) ELSE files[i]]
  BY DEF AddSst
<1>3. \A m \in levels : m.id # nextId - 1
  BY DEF TypeOK, Meta
<1> QED BY <1>1, <1>2, <1>3 DEF FilesOnDisk, WholeFile

(* A file begun under a new id is none of those the manifest names.         *)
LEMMA OnDiskBegun ==
  ASSUME TypeOK, FilesInv, FilesOnDisk, UNCHANGED <<levels, readers>>,
         \/ UNCHANGED files
         \/ files' = [i \in DOMAIN files \cup {nextId} |->
                        IF i = nextId THEN TornFile ELSE files[i]]
  PROVE  FilesOnDisk'
<1>1. \A m \in levels : m.id # nextId
  BY DEF FilesInv, TypeOK, Meta
<1> QED BY <1>1 DEF FilesOnDisk, WholeFile

(* FilesOnDisk is preserved by every step of a session.                     *)
LEMMA OnDiskStep ==
  ASSUME TypeOK, ControlInv, FilesInv, FilesOnDisk, SessionNext PROVE FilesOnDisk'
<1>1. ASSUME NEW k \in Keys, NEW e \in Entry, NEW l \in Entry, WriteOne(k, e, l)
      PROVE  FilesOnDisk'
  BY <1>1, OnDiskBegun DEF WriteOne, sst
<1>2. CASE FlushBegin \/ CompactBegin
  BY <1>2, OnDiskBegun DEF FlushBegin, CompactBegin
<1>3. CASE FlushBuild
  BY <1>3, OnDiskPushed DEF FlushBuild, FilesInv
<1>4. CASE CompactBuild
  <2>1. AddSst(cursor + 1) /\ cursor + 1 \in Nat /\ \A m \in levels : m.id < nextId - 1
    BY <1>4 DEF CompactBuild, FilesInv, TypeOK
  <2> QED BY <2>1, OnDiskPushed
<1>5. CASE Unlink
  <2>1. PICK m \in doomed :
          /\ levels' = levels \ RemovedBy(m.id)
          /\ readers' = [r \in {x \in DOMAIN readers : x.id # m.id} |-> readers[r]]
          /\ files' = [i \in DOMAIN files \ {m.id} |-> files[i]]
    BY <1>5 DEF Unlink
  <2>2. m \in levels
    BY <1>5 DEF Unlink, ControlInv
  <2>3. levels' = levels \ {m}
    BY <2>1, <2>2, RemovesOne
  <2>4. \A x \in levels' : x \in DOMAIN readers /\ x.id # m.id
    BY <2>2, <2>3 DEF FilesInv
  <2> QED BY <2>1, <2>3, <2>4 DEF FilesOnDisk, WholeFile
<1>6. CASE Close \/ Tick \/ BatchLog \/ BatchApply \/ SaveBegin \/ SaveEnd \/ ResetWal
  BY <1>6, OnDiskBegun DEF Close, Tick, BatchLog, BatchApply, SaveBegin, SaveEnd, ResetWal,
                           sst, disk
<1>7. CASE CompactSkip \/ CompactEnd \/ CloseSave \/ \E b \in Batches : WriteBatch(b)
  BY <1>7, OnDiskBegun DEF CompactSkip, CompactEnd, CloseSave, WriteBatch, sst, disk
<1> QED
  BY SessionCases, <1>1, <1>2, <1>3, <1>4, <1>5, <1>6, <1>7 DEF Internal

(* A memtable that has just taken an entry is not empty, or it was frozen.  *)
LEMMA MemPutHolds ==
  ASSUME TypeOK, NEW k \in Keys, NEW e \in Entry \ {NoEntry}, MemPut(k, e)
  PROVE  active' # EmptyTable \/ frozen' # EmptyTable
<1>1. [active EXCEPT ![k] = e] # EmptyTable
  <2>1. [active EXCEPT ![k] = e][k] = e /\ EmptyTable[k] = NoEntry
    BY DEF TypeOK, Table, EmptyTable
  <2> QED BY <2>1
<1> QED BY <1>1 DEF MemPut

(* DirectoryInv is preserved by every step of a session.                    *)
LEMMA DirectoryStep ==
  ASSUME TypeOK, ControlInv, FilesInv, DirectoryInv, SessionNext PROVE DirectoryInv'
<1>0. FilesOnDisk'
  BY OnDiskStep DEF DirectoryInv, FilesOnDisk
<1> USE DEF DirectoryInv
<1>1. ASSUME NEW k \in Keys, NEW e \in Entry \ {NoEntry}, NEW l \in Entry, WriteOne(k, e, l)
      PROVE  DirectoryInv'
  <2>1. active' # EmptyTable \/ frozen' # EmptyTable
    BY <1>1, MemPutHolds DEF WriteOne
  <2>2. pc' = (IF frozen' # EmptyTable THEN "flush" ELSE "idle") /\ ~closing /\ ~closing'
    BY <1>1 DEF WriteOne, ThenMaybeFlush, ctl
  <2> QED BY <1>0, <2>1, <2>2 DEF FilesOnDisk
<1>2. ASSUME NEW b \in Batches, WriteBatch(b) PROVE DirectoryInv'
  BY <1>0, <1>2 DEF WriteBatch, FilesOnDisk
<1>3. CASE Close
  BY <1>0, <1>3 DEF Close, FilesOnDisk, disk
<1>4. CASE Tick
  BY <1>0, <1>4 DEF Tick, FilesOnDisk, EncodedManifest, mem, sst, disk, ctl
<1>5. CASE BatchLog
  BY <1>0, <1>5 DEF BatchLog, FilesOnDisk
<1>6. CASE BatchApply
  <2>1. active' # EmptyTable \/ frozen' # EmptyTable
    <3>1. batch[idx].key \in Keys /\ BatchEntry(batch[idx]) \in Entry \ {NoEntry}
      BY <1>6, BatchOpTyped DEF BatchApply
    <3> QED BY <1>6, <3>1, MemPutHolds DEF BatchApply
  <2>2. pc' \in {"apply", IF frozen' # EmptyTable THEN "flush" ELSE "idle"}
        /\ ~closing /\ ~closing'
    BY <1>6 DEF BatchApply, ThenMaybeFlush
  <2> QED BY <1>0, <2>1, <2>2 DEF FilesOnDisk
<1>7. CASE FlushBegin
  BY <1>0, <1>7 DEF FlushBegin, FilesOnDisk, ctl
<1>8. CASE FlushBuild
  BY <1>0, <1>8 DEF FlushBuild, FilesOnDisk
<1>9. CASE SaveBegin
  BY <1>0, <1>9 DEF SaveBegin, FilesOnDisk, ctl, mem
<1>10. CASE SaveEnd
  <2>1. /\ UNCHANGED <<active, wal, levels, ret, closing>> /\ pc = "saving" /\ pc' = ret
        /\ diskManifest' = EncodedManifest /\ ret \in {"resetwal", "compact", "closed"}
    BY <1>10 DEF SaveEnd, ControlInv, mem, sst, ctl
  <2>2. EncodedManifest' = EncodedManifest
    BY <2>1 DEF EncodedManifest
  <2> QED BY <1>0, <2>1, <2>2 DEF FilesOnDisk
<1>11. CASE ResetWal
  BY <1>0, <1>11 DEF ResetWal, FilesOnDisk, mem
<1>12. CASE CompactSkip
  BY <1>0, <1>12 DEF CompactSkip, FilesOnDisk, mem, disk
<1>13. CASE CompactBegin
  BY <1>0, <1>13 DEF CompactBegin, FilesOnDisk
<1>14. CASE CompactBuild
  BY <1>0, <1>14 DEF CompactBuild, FilesOnDisk, ctl
<1>15. CASE Unlink
  <2>1. /\ pc = "unlink" /\ UNCHANGED <<active, wal, closing>>
        /\ pc' = "unlink" \/ (pc' = "save" /\ ret' = "compact")
    BY <1>15 DEF Unlink, mem
  <2> QED BY <1>0, <2>1 DEF FilesOnDisk
<1>16. CASE CompactEnd
  BY <1>0, <1>16 DEF CompactEnd, FilesOnDisk, mem, disk, ctl
<1>17. CASE CloseSave
  BY <1>0, <1>17 DEF CloseSave, FilesOnDisk, mem, disk
<1> QED
  BY SessionCases, <1>1, <1>2, <1>3, <1>4, <1>5, <1>6, <1>7, <1>8, <1>9, <1>10, <1>11,
     <1>12, <1>13, <1>14, <1>15, <1>16, <1>17 DEF Internal

----------------------------------------------------------------------------
(* The end of close leaves on disk what the engine held in memory.          *)
LEMMA ClosedStep ==
  ASSUME CoreInv, DirectoryInv, Closed PROVE TypeOK' /\ pc' = "down" /\ ClosedInv'
<1> USE DEF CoreInv
<1>1. /\ pc = "closed" /\ pc' = "down" /\ ret' = "idle"
      /\ active' = EmptyTable /\ frozen' = EmptyTable /\ out' = EmptyTable
      /\ levels' = {} /\ readers' = << >> /\ nextId' = 1 /\ cursor' = 0 /\ doomed' = {}
      /\ batch' = << >> /\ idx' = 0 /\ closing' = FALSE /\ nextSeq' = 1
      /\ UNCHANGED <<nextSlot, base, files, diskManifest, wal, now, latest, opens>>
  BY DEF Closed, Forget, disk, ghost
<1>2. TypeOK'
  <2>1. DOMAIN readers' = {} /\ IsFiniteSet(levels')
    BY <1>1, FS_EmptySet
  <2>2. pc' \in Steps /\ ret' \in Steps /\ closing' \in BOOLEAN
    BY <1>1 DEF Steps
  <2>3. active' \in Table /\ frozen' \in Table /\ out' \in Table /\ wal' \in Table
        /\ latest' \in Table
    BY <1>1, EmptyTyped DEF TypeOK
  <2>4. cursor' \in Nat /\ cursor' < MaxLevels
    BY <1>1, SizesAssumption
  <2>5. /\ diskManifest'.whole \in BOOLEAN /\ diskManifest'.metas \subseteq Meta
        /\ IsFiniteSet(diskManifest'.metas)
        /\ DOMAIN files' \subseteq Nat /\ \A i \in DOMAIN files' : files'[i] \in SstFile
    BY <1>1 DEF TypeOK
  <2>6. /\ nextId' \in Nat \ {0} /\ nextSeq' \in Nat /\ nextSlot' \in Nat /\ base' \in Nat
        /\ idx' \in Nat /\ now' \in Nat /\ opens' \in Nat
    BY <1>1 DEF TypeOK
  <2> QED BY <1>1, <2>1, <2>2, <2>3, <2>4, <2>5, <2>6 DEF TypeOK
<1>3. /\ active = EmptyTable /\ frozen = EmptyTable /\ wal = EmptyTable
      /\ diskManifest.whole /\ diskManifest.metas = levels
  <2>1. diskManifest = [whole |-> TRUE, metas |-> levels]
    BY <1>1 DEF DirectoryInv, EncodedManifest
  <2>2. closing /\ wal = EmptyTable /\ frozen = EmptyTable
    BY <1>1 DEF DirectoryInv, ControlInv
  <2>3. active = EmptyTable
    BY <2>2 DEF DirectoryInv
  <2> QED BY <2>1, <2>2, <2>3
<1>4. \A m \in levels : m.id \in DOMAIN files /\ files[m.id].whole /\ OnDisk(m) = readers[m]
  <2> SUFFICES ASSUME NEW m \in levels
               PROVE  m.id \in DOMAIN files /\ files[m.id].whole /\ OnDisk(m) = readers[m]
    OBVIOUS
  <2>1. m.id \in DOMAIN files /\ files[m.id] = [whole |-> TRUE, table |-> readers[m]]
    BY DEF DirectoryInv, WholeFile
  <2> QED BY <2>1 DEF OnDisk
<1>5. DiskFilesInv
  <2>1. \A m \in levels :
          /\ m.id \in DOMAIN files /\ files[m.id].whole
          /\ m.slot < nextSlot /\ m.lo <= m.hi
          /\ \A k \in Keys : OnDisk(m)[k] # NoEntry => m.lo <= k /\ k <= m.hi
    BY <1>4 DEF FilesInv
  <2>2. \A a, b \in levels :
          /\ a.id = b.id \/ a.slot = b.slot => a = b
          /\ a # b /\ a.level = b.level /\ a.level > 0 => a.hi < b.lo \/ b.hi < a.lo
          /\ a.slot > b.slot => a.level <= b.level
    BY <1>1 DEF FilesInv, DisjointInv, OrderInv, Settled
  <2>3. \A c \in 0 .. MaxLevels - 2 : Cardinality({m \in levels : m.level = c}) < Threshold(c)
    BY <1>1 DEF CapacityInv, Below, SstsAtLevel
  <2>4. ASSUME NEW k \in Keys, Live(latest[k], now)
        PROVE  \E m \in levels :
                 /\ OnDisk(m)[k] = latest[k]
                 /\ \A o \in levels \ {m} : OnDisk(o)[k] # NoEntry => m.slot > o.slot
    <3>1. latest[k] # NoEntry /\ Fresh(k) /\ active[k] = NoEntry /\ frozen[k] = NoEntry
      BY <1>3, <2>4, LiveIsEntry DEF FreshInv, EmptyTable
    <3>2. PICK m \in levels : readers[m][k] = latest[k] /\ OnTop(m, k)
      BY <1>1, <3>1 DEF Fresh
    <3> QED BY <1>4, <3>2 DEF OnTop
  <2> QED BY <1>3, <2>1, <2>2, <2>3, <2>4 DEF DiskFilesInv
<1>6. DiskFilesInv'
  BY <1>1, <1>5 DEF DiskFilesInv, OnDisk, Live
<1> QED BY <1>1, <1>2, <1>3, <1>6 DEF ClosedInv

(* Open finds in the directory what CoreInv asks of an engine at rest.      *)
LEMMA OpenStep ==
  ASSUME TypeOK, ClosedInv, Open PROVE CoreInv' /\ DirectoryInv' /\ pc' = "idle"
<1> DEFINE M == diskManifest.metas
<1>1. /\ levels' = M /\ readers' = [m \in Present |-> files[m.id].table]
      /\ \A m \in Present : m.id < nextId'
      /\ nextId' \in 1 .. MaxIds + 1
      /\ active' = wal /\ opens' = opens + 1 /\ pc' = "idle" /\ base' = nextSlot
      /\ UNCHANGED <<frozen, out, nextSlot, files, diskManifest, wal, ret, cursor, doomed,
                     batch, idx, closing, nextSeq, now, latest>>
  BY DEF Open, Replayed, disk, ctl
<1>2. Present = M /\ DOMAIN readers' = M /\ \A m \in M : readers'[m] = OnDisk(m)
  BY <1>1 DEF ClosedInv, DiskFilesInv, Present, OnDisk
<1>3. active' = EmptyTable /\ frozen' = EmptyTable /\ out' = EmptyTable /\ wal' = EmptyTable
      /\ doomed' = {} /\ ~closing'
  BY <1>1 DEF ClosedInv
<1>4. TypeOK'
  <2>1. \A m \in M : readers'[m] \in Table
    BY <1>2 DEF ClosedInv, DiskFilesInv, TypeOK, OnDisk, SstFile
  <2>2. nextId' \in Nat \ {0}
    BY <1>1, BoundsAssumption
  <2>3. /\ active' \in Table /\ frozen' \in Table /\ out' \in Table
        /\ wal' \in Table /\ latest' \in Table
    BY <1>1, <1>3, EmptyTyped DEF TypeOK
  <2>4. /\ levels' \subseteq Meta /\ IsFiniteSet(levels')
        /\ DOMAIN readers' \subseteq levels'
    BY <1>1, <1>2 DEF TypeOK
  <2>5. \A m \in DOMAIN readers' : readers'[m] \in Table
    BY <1>2, <2>1
  <2>6. /\ nextSeq' \in Nat /\ nextSlot' \in Nat /\ base' \in Nat
        /\ now' \in Nat /\ opens' \in Nat /\ idx' \in Nat
        /\ cursor' \in Nat /\ cursor' < MaxLevels
    BY <1>1 DEF TypeOK
  <2>7. /\ DOMAIN files' \subseteq Nat
        /\ \A i \in DOMAIN files' : files'[i] \in SstFile
        /\ diskManifest'.whole \in BOOLEAN
        /\ diskManifest'.metas \subseteq Meta /\ IsFiniteSet(diskManifest'.metas)
    BY <1>1 DEF TypeOK
  <2>8. /\ pc' \in Steps /\ ret' \in Steps /\ doomed' \subseteq Meta
        /\ batch' \in Batches \cup {<< >>} /\ closing' \in BOOLEAN
    BY <1>1 DEF TypeOK, Steps
  <2> QED BY <2>2, <2>3, <2>4, <2>5, <2>6, <2>7, <2>8 DEF TypeOK
<1>5. ControlInv'
  BY <1>1, <1>3 DEF ControlInv
<1>6. FilesInv'
  <2>1. \A m \in M : /\ m.id < nextId' /\ m.slot < nextSlot' /\ m.lo <= m.hi
                     /\ \A k \in Keys : readers'[m][k] # NoEntry => m.lo <= k /\ k <= m.hi
    BY <1>1, <1>2 DEF ClosedInv, DiskFilesInv
  <2>2. \A a, b \in M : a.id = b.id \/ a.slot = b.slot => a = b
    BY DEF ClosedInv, DiskFilesInv
  <2> QED BY <1>1, <1>2, <2>1, <2>2 DEF FilesInv
<1>7. Settled' = M
  BY <1>1 DEF Settled
<1>8. DisjointInv' /\ OrderInv'
  BY <1>7 DEF DisjointInv, OrderInv, ClosedInv, DiskFilesInv
<1>9. CapacityInv'
  <2>1. \A c \in 0 .. MaxLevels - 2 : Below(c)'
    BY <1>1 DEF ClosedInv, DiskFilesInv, Below, SstsAtLevel
  <2> QED BY <1>1, <2>1 DEF CapacityInv
<1>10. FreshInv'
  <2> SUFFICES ASSUME NEW k \in Keys, Live(latest[k], now)' PROVE Fresh(k)'
    BY DEF FreshInv
  <2>1. Live(latest[k], now)
    BY <1>1 DEF Live
  <2>2. PICK m \in M : /\ OnDisk(m)[k] = latest[k]
                       /\ \A o \in M \ {m} : OnDisk(o)[k] # NoEntry => m.slot > o.slot
    BY <2>1 DEF ClosedInv, DiskFilesInv
  <2>3. readers'[m][k] = latest'[k] /\ OnTop(m, k)'
    BY <1>1, <1>2, <2>2 DEF OnTop
  <2>4. active'[k] = NoEntry /\ frozen'[k] = NoEntry
    BY <1>3 DEF EmptyTable
  <2> QED BY <1>1, <2>3, <2>4 DEF Fresh
<1>11. DirectoryInv'
  <2>1. \A m \in M : m.id \in DOMAIN files /\ files[m.id] = WholeFile(readers'[m])
    <3> SUFFICES ASSUME NEW m \in M
                 PROVE  m.id \in DOMAIN files /\ files[m.id] = WholeFile(readers'[m])
      OBVIOUS
    <3>1. m.id \in DOMAIN files /\ files[m.id].whole = TRUE
      BY DEF ClosedInv, DiskFilesInv, TypeOK, SstFile
    <3>2. files[m.id] \in SstFile /\ readers'[m] = files[m.id].table
      BY <1>2, <3>1 DEF TypeOK, OnDisk
    <3> QED BY <3>1, <3>2 DEF WholeFile, SstFile
  <2> QED BY <1>1, <1>3, <2>1 DEF DirectoryInv
<1> QED BY <1>1, <1>4, <1>5, <1>6, <1>8, <1>9, <1>10, <1>11 DEF CoreInv

(* A directory nobody has open does not change as the clock runs.           *)
LEMMA DownStep ==
  ASSUME TypeOK, ClosedInv, pc = "down", SessionNext
  PROVE  TypeOK' /\ ClosedInv' /\ pc' = "down"
<1>1. Tick
  <2>1. ASSUME NEW k \in Keys, NEW e \in Entry, NEW l \in Entry, WriteOne(k, e, l) PROVE FALSE
    BY <2>1 DEF WriteOne
  <2>2. ~Close /\ ~BatchLog /\ ~BatchApply /\ ~FlushBegin /\ ~FlushBuild /\ ~SaveBegin
        /\ ~SaveEnd /\ ~ResetWal
    BY DEF Close, BatchLog, BatchApply, FlushBegin, FlushBuild, SaveBegin, SaveEnd, ResetWal
  <2>3. ~CompactSkip /\ ~CompactBegin /\ ~CompactBuild /\ ~Unlink /\ ~CompactEnd /\ ~CloseSave
        /\ \A b \in Batches : ~WriteBatch(b)
    BY DEF CompactSkip, CompactBegin, CompactBuild, Unlink, CompactEnd, CloseSave, WriteBatch
  <2> QED BY SessionCases, <2>1, <2>2, <2>3 DEF Internal
<1>2. /\ now' = now + 1 /\ pc' = "down"
      /\ UNCHANGED <<active, frozen, out, levels, readers, nextId, nextSlot, base, files,
                     diskManifest, wal, ret, cursor, doomed, batch, idx, closing, nextSeq,
                     latest, opens>>
  BY <1>1 DEF Tick, mem, sst, disk, ctl
<1>3. TypeOK'
  BY <1>2 DEF TypeOK
<1>4. \A k \in Keys : Live(latest[k], now)' => Live(latest[k], now)
  <2> SUFFICES ASSUME NEW k \in Keys, Live(latest[k], now + 1) PROVE Live(latest[k], now)
    BY <1>2 DEF Live
  <2>1. latest[k] \in Entry /\ now \in Nat
    BY DEF TypeOK, Table
  <2> QED BY <2>1, LiveBefore
<1>5. DiskFilesInv'
  BY <1>2, <1>4 DEF ClosedInv, DiskFilesInv, OnDisk
<1> QED BY <1>2, <1>3, <1>5 DEF ClosedInv

----------------------------------------------------------------------------
(* A new directory satisfies RestartInv.                                    *)
LEMMA RestartInit == Init => RestartInv
<1> SUFFICES ASSUME Init PROVE RestartInv
  OBVIOUS
<1>1. CoreInv
  BY SessionInit DEF SessionInv
<1>2. DirectoryInv
  BY DEF Init, DirectoryInv
<1> QED BY <1>1, <1>2 DEF Init, RestartInv, CoreInv

(* RestartInv holds in every state of sessions that end in a close: what    *)
(* close leaves in the directory is what open needs to start from.          *)
THEOREM RestartInvariant == RestartSpec => []RestartInv
<1>1. RestartInv /\ RestartNext => RestartInv'
  <2> SUFFICES ASSUME RestartInv, RestartNext PROVE RestartInv'
    OBVIOUS
  <2>1. CASE SessionNext /\ pc # "down"
    <3>1. CoreInv' /\ DirectoryInv'
      BY <2>1, CoreStep, DirectoryStep DEF RestartInv, CoreInv
    <3> QED BY <3>1 DEF RestartInv, CoreInv, ControlInv
  <2>2. CASE SessionNext /\ pc = "down"
    BY <2>2, DownStep DEF RestartInv
  <2>3. CASE Closed
    <3>1. pc # "down"
      BY <2>3 DEF Closed
    <3> QED BY <2>3, <3>1, ClosedStep DEF RestartInv
  <2>4. CASE Open
    <3>1. pc = "down"
      BY <2>4 DEF Open
    <3> QED BY <2>4, <3>1, OpenStep DEF RestartInv, CoreInv
  <2> QED BY <2>1, <2>2, <2>3, <2>4 DEF RestartNext
<1>2. RestartInv /\ UNCHANGED vars => RestartInv'
  <2> SUFFICES ASSUME RestartInv, UNCHANGED vars PROVE RestartInv'
    OBVIOUS
  <2>1. CASE pc = "down"
    <3>1. TypeOK'
      BY DEF RestartInv, TypeOK, vars, mem, sst, disk, ctl, ghost
    <3>2. ClosedInv'
      BY <2>1 DEF RestartInv, ClosedInv, DiskFilesInv, OnDisk, Live, vars, mem, sst, disk,
                  ctl, ghost
    <3> QED BY <2>1, <3>1, <3>2 DEF RestartInv, vars
  <2>2. CASE pc # "down"
    <3>1. CoreInv'
      BY <2>2, CoreStutter DEF RestartInv
    <3>2. DirectoryInv'
      BY <2>2 DEF RestartInv, DirectoryInv, EncodedManifest, vars, mem, sst, disk, ctl
    <3> QED BY <2>2, <3>1, <3>2 DEF RestartInv, CoreInv, vars
  <2> QED BY <2>1, <2>2
<1>3. RestartInv /\ [RestartNext]_vars => RestartInv'
  BY <1>1, <1>2
<1> QED BY <1>3, RestartInit, PTL DEF RestartSpec

(* A value that is live is never lost over flushes, compactions, closes and *)
(* reopenings, whatever the sizes, thresholds and number of levels: a       *)
(* memtable or an open file still holds it, even where get finds an older   *)
(* one first.                                                               *)
THEOREM RestartKeeps == RestartSpec => []NothingLost
<1>1. RestartInv => NothingLost
  <2> SUFFICES ASSUME RestartInv, pc = "idle", NEW k \in Keys, Live(latest[k], now)
               PROVE  \/ latest[k] \in {active[k], frozen[k]}
                      \/ \E m \in DOMAIN readers : readers[m][k] = latest[k]
    BY DEF NothingLost
  <2>1. Fresh(k) /\ DOMAIN readers = levels
    BY DEF RestartInv, CoreInv, FreshInv, FilesInv
  <2> QED BY <2>1 DEF Fresh
<1> QED BY <1>1, RestartInvariant, PTL

(* A directory that close left behind opens again.                          *)
THEOREM RestartOpens == RestartSpec => []OpensAfterCrash
<1>1. RestartInv => OpensAfterCrash
  BY DEF RestartInv, ClosedInv, DiskFilesInv, OpensAfterCrash, Openable, ManifestDecodes
<1> QED BY <1>1, RestartInvariant, PTL

(* The files of each level below 0 are disjoint in every later session too. *)
THEOREM RestartLevels == RestartSpec => []LevelsDisjoint
<1>1. RestartInv => LevelsDisjoint
  BY DEF RestartInv, ClosedInv, CoreInv, DisjointInv, Settled, LevelsDisjoint
<1> QED BY <1>1, RestartInvariant, PTL

(* Deeper levels hold older pushes in every later session too: what the     *)
(* merge order of compact_level relies on survives a reopening, although    *)
(* the order get walks the readers in does not.                             *)
THEOREM RestartOrder == RestartSpec => []LevelOrder
<1>1. RestartInv => LevelOrder
  BY DEF RestartInv, CoreInv, OrderInv, Settled, LevelOrder
<1> QED BY <1>1, RestartInvariant, PTL

(* A reopened directory is within its thresholds, and each operation of a   *)
(* later session leaves it so.                                              *)
THEOREM RestartCapacity == RestartSpec => []BelowThreshold
<1>1. RestartInv => BelowThreshold
  BY DEF RestartInv, CoreInv, CapacityInv, BelowThreshold, Below
<1> QED BY <1>1, RestartInvariant, PTL

(* The state stays typed over restarts.                                     *)
THEOREM RestartTyped == RestartSpec => []TypeOK
<1>1. RestartInv => TypeOK
  BY DEF RestartInv
<1> QED BY <1>1, RestartInvariant, PTL

----------------------------------------------------------------------------
(* An engine with at most two levels.                                       *)

(* A dead value stays dead.                                                 *)
LEMMA DeadStays ==
  ASSUME TypeOK, SessionNext, NEW e \in Entry, ~Live(e, now) PROVE ~Live(e, now')
<1>1. now' \in {now, now + 1} /\ now \in Nat
  BY ClockStep DEF TypeOK
<1> QED BY <1>1, LiveBefore

(* Every file is on one of the configured levels.                           *)
LEMMA LevelStep ==
  ASSUME TypeOK, ControlInv, FilesInv, SessionNext, \A m \in levels : m.level < MaxLevels
  PROVE  \A m \in levels' : m.level < MaxLevels
<1>1. CASE UNCHANGED <<levels, nextSlot>> \/ (levels' \subseteq levels /\ nextSlot' = nextSlot)
  BY <1>1
<1>2. CASE FlushBuild
  <2>1. AddSst(0) /\ \A m \in levels : m.id < nextId - 1
    BY <1>2 DEF FlushBuild, FilesInv
  <2>2. PICK n \in Meta : n.level = 0 /\ levels' = levels \cup {n}
    BY <2>1, AddSstAdds
  <2> QED BY <2>2, SizesAssumption
<1>3. CASE CompactBuild
  <2>1. AddSst(cursor + 1) /\ cursor + 1 \in Nat /\ \A m \in levels : m.id < nextId - 1
    BY <1>3 DEF CompactBuild, FilesInv, TypeOK
  <2>2. PICK n \in Meta : n.level = cursor + 1 /\ levels' = levels \cup {n}
    BY <2>1, AddSstAdds
  <2>3. cursor + 1 < MaxLevels
    BY <1>3, SizesAssumption DEF CompactBuild, ControlInv, TypeOK
  <2> QED BY <2>2, <2>3
<1> QED BY <1>1, <1>2, <1>3, NewFiles

----------------------------------------------------------------------------
(* With two levels, the inputs of a merge that includes the newest file for *)
(* a key are all the files that hold the key.                               *)
LEMMA MergeTakesAll ==
  ASSUME MaxLevels <= 2, TypeOK, FilesInv, DisjointInv,
         cursor < MaxLevels - 1, \A m \in levels : m.level < MaxLevels,
         NEW k \in Keys,
         NEW m \in Sources(cursor) \cup Overlapping(cursor), readers[m][k] # NoEntry,
         pc = "compact",
         NEW o \in levels, readers[o][k] # NoEntry
  PROVE  o \in Sources(cursor) \cup Overlapping(cursor)
<1>1. cursor = 0
  BY SizesAssumption DEF TypeOK
<1>2. m \in levels /\ m \in Meta /\ o \in Meta /\ o.level \in {0, 1}
  <2>1. m \in levels
    BY DEF Sources, Overlapping, SstsAtLevel
  <2>2. levels \subseteq Meta
    BY DEF TypeOK
  <2>3. o.level \in Nat /\ o.level < MaxLevels
    BY <2>2 DEF Meta
  <2> QED BY <2>1, <2>2, <2>3, SizesAssumption
<1>3. m.lo <= k /\ k <= m.hi /\ o.lo <= k /\ k <= o.hi
  BY <1>2 DEF FilesInv
<1>4. CASE o.level = 0
  BY <1>1, <1>4 DEF Sources, SstsAtLevel
<1>5. CASE o.level = 1 /\ m \in Sources(cursor)
  <2>1. o.hi >= m.lo /\ o.lo <= m.hi
    BY <1>2, <1>3, KeysAssumption DEF Meta
  <2> QED BY <1>1, <1>5, <2>1 DEF Overlapping, SstsAtLevel
<1>6. CASE o.level = 1 /\ m \in Overlapping(cursor)
  <2>1. m.level = 1
    BY <1>1, <1>6 DEF Overlapping, SstsAtLevel
  <2>2. ~(m.hi < o.lo) /\ ~(o.hi < m.lo)
    BY <1>2, <1>3, KeysAssumption DEF Meta
  <2>3. m = o
    BY <1>2, <1>6, <2>1, <2>2 DEF DisjointInv, Settled
  <2> QED BY <2>3
<1> QED BY <1>2, <1>4, <1>5, <1>6

(* A merge that drops a key drops its last trace.                           *)
LEMMA DropStep ==
  ASSUME MaxLevels <= 2, CoreInv, \A m \in levels : m.level < MaxLevels, CompactBegin,
         NEW k \in Keys, latest[k] # NoEntry, Fresh(k), ~Live(latest[k], now)
  PROVE  Fresh(k)' \/ Gone(k)'
<1> USE DEF CoreInv
<1> DEFINE S == Sources(cursor) \cup Overlapping(cursor)
<1>0. EmptyTable[k] = NoEntry
  BY DEF EmptyTable
<1>1. /\ UNCHANGED <<active, frozen, levels, readers, latest, now>>
      /\ pc = "compact" /\ cursor < MaxLevels - 1 /\ ~Below(cursor) /\ doomed' = S
      /\ \/ pc' = "unlink" /\ Merge(S) = EmptyTable /\ out' = out
         \/ pc' = "merge" /\ out' = Merge(S)
  BY DEF CompactBegin, LastLevel, ghost
<1>2. out = EmptyTable /\ doomed = {} /\ frozen = EmptyTable
  BY <1>1 DEF ControlInv
<1>3. \A m \in levels : OnTop(m, k)' <=> OnTop(m, k)
  BY <1>1 DEF OnTop
<1>4. CASE active[k] # NoEntry
  BY <1>0, <1>1, <1>2, <1>4 DEF Fresh
<1>5. CASE active[k] = NoEntry
  <2>1. PICK m \in levels : readers[m][k] = latest[k] /\ OnTop(m, k)
    BY <1>0, <1>1, <1>2, <1>5 DEF Fresh
  <2>2. Merge(S)[k] = NoEntry
    BY <1>1, <2>1, MergeLatest
  <2>3. out'[k] = NoEntry
    BY <1>0, <1>1, <1>2, <2>2
  <2>4. CASE m \in S
    <3>1. \A o \in levels : readers[o][k] # NoEntry => o \in S
      BY <1>1, <2>1, <2>4, MergeTakesAll
    <3>3. ~Live(latest[k], now)'
      BY <1>1
    <3> HIDE DEF S
    <3> QED BY <1>0, <1>1, <1>2, <1>3, <1>5, <2>1, <2>3, <3>1, <3>3 DEF Gone
  <2>5. CASE m \notin S
    <3> HIDE DEF S
    <3> QED BY <1>0, <1>1, <1>2, <1>3, <1>5, <2>1, <2>3, <2>5 DEF Fresh
  <2> QED BY <2>4, <2>5
<1> QED BY <1>4, <1>5

(* Gone does not depend on anything but these variables.                    *)
LEMMA GoneQuiet ==
  ASSUME UNCHANGED <<active, frozen, out, levels, readers, doomed, latest>>,
         pc' = "merge" => pc = "merge", NEW k \in Keys, ~Live(latest'[k], now'), Gone(k)
  PROVE  Gone(k)'
<1>1. \A m \in levels : OnTop(m, k)' <=> OnTop(m, k)
  BY DEF OnTop
<1> QED BY <1>1 DEF Gone

(* A memtable insert leaves the other keys gone, and its own key placed.    *)
LEMMA GoneMemPut ==
  ASSUME TypeOK, NEW j \in Keys, NEW e \in Entry \ {NoEntry}, MemPut(j, e),
         latest' = [latest EXCEPT ![j] = e], UNCHANGED <<levels, readers, doomed, now>>,
         pc' # "merge", NEW k \in Keys, Gone(k)
  PROVE  (latest'[k] # NoEntry /\ Fresh(k)') \/ Gone(k)'
<1>1. CASE k = j
  BY <1>1, MemPutFresh
<1>2. CASE k # j
  <2>1. active'[k] = NoEntry /\ frozen'[k] = NoEntry /\ out'[k] = NoEntry
        /\ latest'[k] = latest[k]
    BY <1>2 DEF MemPut, Gone, TypeOK, Table, EmptyTable
  <2> QED BY <2>1 DEF Gone
<1> QED BY <1>1, <1>2

(* A new file without the key leaves it gone.                               *)
LEMMA GonePushed ==
  ASSUME TypeOK, FilesInv, NEW c \in Nat, AddSst(c), \A m \in levels : m.id < nextId - 1,
         UNCHANGED <<active, frozen, doomed, latest>>, pc' # "merge",
         NEW k \in Keys, ~Live(latest'[k], now'), Gone(k)
  PROVE  Gone(k)'
<1>1. PICK n \in Meta :
        /\ levels' = levels \cup {n} /\ readers'[n] = out
        /\ \A m \in levels : readers'[m] = readers[m]
        /\ out' = EmptyTable
  BY AddSstAdds
<1> QED BY <1>1 DEF Gone, EmptyTable

(* A key that is gone stays so until it is written again.                   *)
LEMMA GoneStep ==
  ASSUME CoreInv, SessionNext, NEW k \in Keys, Gone(k)
  PROVE  (latest'[k] # NoEntry /\ Fresh(k)') \/ Gone(k)'
<1> USE DEF CoreInv
<1> DEFINE Kept == (latest'[k] # NoEntry /\ Fresh(k)') \/ Gone(k)'
<1>0. EmptyTable[k] = NoEntry /\ ~Live(latest[k], now')
  <2>1. latest[k] \in Entry
    BY DEF TypeOK, Table
  <2> QED BY <2>1, DeadStays DEF Gone, EmptyTable
<1>1. ASSUME NEW j \in Keys, NEW e \in Entry \ {NoEntry}, NEW l \in Entry, WriteOne(j, e, l)
      PROVE  Kept
  <2>1. MemPut(j, e) /\ latest' = [latest EXCEPT ![j] = e]
        /\ UNCHANGED <<levels, readers, doomed, now>> /\ pc' # "merge"
    BY <1>1 DEF WriteOne, ThenMaybeFlush, sst, ctl
  <2> QED BY <2>1, GoneMemPut
<1>2. ASSUME NEW b \in Batches, WriteBatch(b) PROVE Kept
  BY <1>0, <1>2, GoneQuiet DEF WriteBatch, mem, sst, ghost
<1>3. CASE Close
  <2>1. /\ UNCHANGED <<out, levels, readers, doomed, now, latest>>
        /\ pc' \in {"flush", "close"}
        /\ \/ UNCHANGED <<active, frozen>>
           \/ frozen' = active /\ active' = EmptyTable
    BY <1>3 DEF Close, sst, ghost
  <2> QED BY <1>0, <2>1 DEF Gone
<1>4. CASE Tick
  BY <1>0, <1>4, GoneQuiet DEF Tick, mem, sst, ctl
<1>5. CASE BatchLog
  BY <1>0, <1>5, GoneQuiet DEF BatchLog, mem, sst, ghost
<1>6. CASE BatchApply
  <2>1. batch[idx].key \in Keys /\ BatchEntry(batch[idx]) \in Entry \ {NoEntry}
    BY <1>6, BatchOpTyped DEF BatchApply
  <2>2. /\ UNCHANGED <<levels, readers, doomed, now>> /\ pc' # "merge"
        /\ MemPut(batch[idx].key, BatchEntry(batch[idx]))
        /\ latest' = [latest EXCEPT ![batch[idx].key] = BatchEntry(batch[idx])]
    BY <1>6 DEF BatchApply, ThenMaybeFlush, sst
  <2> QED BY <2>1, <2>2, GoneMemPut
<1>7. CASE FlushBegin
  <2>1. out' = frozen /\ frozen' = EmptyTable /\ pc' = "build"
        /\ UNCHANGED <<active, levels, readers, doomed, latest>>
    BY <1>7 DEF FlushBegin, ctl, ghost
  <2> QED BY <1>0, <2>1 DEF Gone
<1>8. CASE FlushBuild
  <2>1. AddSst(0) /\ (\A m \in levels : m.id < nextId - 1)
        /\ UNCHANGED <<active, frozen, doomed, latest>> /\ pc' # "merge"
    BY <1>8 DEF FlushBuild, FilesInv, ghost
  <2> QED BY <1>0, <2>1, GonePushed
<1>9. CASE SaveBegin
  BY <1>0, <1>9, GoneQuiet DEF SaveBegin, mem, sst, ctl, ghost
<1>10. CASE SaveEnd
  BY <1>0, <1>10, GoneQuiet DEF SaveEnd, ControlInv, mem, sst, ctl, ghost
<1>11. CASE ResetWal
  BY <1>0, <1>11, GoneQuiet DEF ResetWal, mem, sst, ghost
<1>12. CASE CompactSkip
  BY <1>0, <1>12, GoneQuiet DEF CompactSkip, mem, sst, ghost
<1>13. CASE CompactBegin
  <2> DEFINE S == Sources(cursor) \cup Overlapping(cursor)
  <2>1. /\ UNCHANGED <<active, frozen, levels, readers, latest, now>>
        /\ pc = "compact" /\ doomed' = S
        /\ \/ pc' = "unlink" /\ out' = out
           \/ pc' = "merge" /\ out' = Merge(S)
    BY <1>13 DEF CompactBegin, ghost
  <2>2. doomed = {}
    BY <2>1 DEF ControlInv
  <2>3. \A m \in levels : readers[m][k] = NoEntry
    BY <2>2 DEF Gone
  <2>4. S \in SUBSET levels
    BY DEF Sources, Overlapping, SstsAtLevel
  <2>5. k \notin Held(Merge(S))
    BY <2>3, <2>4, MergeHeld
  <2>6. out'[k] = NoEntry
    BY <2>1, <2>5 DEF Held, Gone
  <2> HIDE DEF S
  <2> QED BY <1>0, <2>1, <2>3, <2>6 DEF Gone
<1>14. CASE CompactBuild
  <2>1. AddSst(cursor + 1) /\ cursor + 1 \in Nat /\ (\A m \in levels : m.id < nextId - 1)
        /\ UNCHANGED <<active, frozen, doomed, latest>> /\ pc' # "merge"
    BY <1>14 DEF CompactBuild, FilesInv, TypeOK, ctl, ghost
  <2> QED BY <1>0, <2>1, GonePushed
<1>15. CASE Unlink
  <2>1. PICK m \in doomed :
          /\ levels' = levels \ RemovedBy(m.id)
          /\ readers' = [r \in {x \in DOMAIN readers : x.id # m.id} |-> readers[r]]
          /\ doomed' = doomed \ {m}
    BY <1>15 DEF Unlink
  <2>2. /\ m \in levels /\ pc = "unlink" /\ pc' # "merge"
        /\ UNCHANGED <<active, frozen, out, latest>>
    BY <1>15 DEF Unlink, ControlInv, mem, ghost
  <2>3. levels' = levels \ {m}
    BY <2>1, <2>2, RemovesOne
  <2>4. {x \in DOMAIN readers : x.id # m.id} = levels'
    BY <2>2, <2>3 DEF FilesInv
  <2>5. \A x \in levels' : readers'[x] = readers[x]
    BY <2>1, <2>4
  <2> QED BY <1>0, <2>1, <2>2, <2>3, <2>5 DEF Gone
<1>16. CASE CompactEnd
  BY <1>0, <1>16, GoneQuiet DEF CompactEnd, mem, sst, ctl, ghost
<1>17. CASE CloseSave
  BY <1>0, <1>17, GoneQuiet DEF CloseSave, mem, sst, ghost
<1> QED
  BY SessionCases, <1>1, <1>2, <1>3, <1>4, <1>5, <1>6, <1>7, <1>8, <1>9, <1>10, <1>11,
     <1>12, <1>13, <1>14, <1>15, <1>16, <1>17 DEF Internal

(* PlacedInv is preserved by every step of a session with two levels.       *)
LEMMA PlacedStep ==
  ASSUME MaxLevels <= 2, CoreInv, PlacedInv, SessionNext PROVE PlacedInv'
<1> USE DEF CoreInv
<1>1. \A m \in levels' : m.level < MaxLevels
  BY LevelStep DEF PlacedInv
<1>2. ASSUME NEW k \in Keys PROVE (latest'[k] # NoEntry /\ Fresh(k)') \/ Gone(k)'
  <2>1. CASE Gone(k)
    BY <2>1, GoneStep
  <2>2. CASE latest'[k] # latest[k]
    BY <2>2, WriteStep
  <2>3. CASE ~Gone(k) /\ latest'[k] = latest[k]
    <3>1. latest[k] # NoEntry /\ Fresh(k)
      BY <2>3 DEF PlacedInv
    <3>2. CASE CompactBegin /\ ~Live(latest[k], now)
      BY <2>3, <3>1, <3>2, DropStep DEF PlacedInv
    <3>3. CASE Live(latest[k], now) \/ ~CompactBegin
      BY <2>3, <3>1, <3>3, KeepStep
    <3> QED BY <3>2, <3>3
  <2> QED BY <2>1, <2>2, <2>3
<1> QED BY <1>1, <1>2 DEF PlacedInv

----------------------------------------------------------------------------
(* On a new directory no key has been written and nothing is held.          *)
LEMMA PlacedInit == Init => PlacedInv
<1> SUFFICES ASSUME Init PROVE PlacedInv
  OBVIOUS
<1>1. ASSUME NEW k \in Keys PROVE Gone(k)
  <2>1. ~Live(NoEntry, now)
    BY LiveIsEntry
  <2> QED BY <2>1 DEF Init, Gone, EmptyTable
<1> QED BY <1>1 DEF Init, PlacedInv

(* With at most two levels, in every state of a session the last write of a *)
(* key is the one found for it, or it is dead and nothing is found: no      *)
(* compaction brings an older value back by dropping a delete marker.       *)
THEOREM SessionPlaced == ASSUME MaxLevels <= 2 PROVE Session => []PlacedInv
<1>1. SessionInv /\ PlacedInv /\ SessionNext => PlacedInv'
  BY PlacedStep DEF SessionInv
<1>2. PlacedInv /\ UNCHANGED vars => PlacedInv'
  <2> SUFFICES ASSUME PlacedInv, UNCHANGED vars PROVE PlacedInv'
    OBVIOUS
  <2> QED BY DEF PlacedInv, Fresh, Gone, OnTop, Live, vars, mem, sst, ctl, ghost
<1>3. SessionInv /\ PlacedInv /\ [SessionNext]_vars => PlacedInv'
  BY <1>1, <1>2
<1> QED BY <1>3, PlacedInit, SessionInvariant, PTL DEF Session

(* Between operations, what get finds for a key is its last write, or both  *)
(* are dead.                                                                *)
LEMMA PlacedIsRead ==
  ASSUME SessionInv, PlacedInv, pc = "idle", NEW k \in Keys
  PROVE  \/ Lookup(k) = latest[k]
         \/ ~Live(Lookup(k), now) /\ ~Live(latest[k], now)
<1>1. CASE latest[k] # NoEntry /\ Fresh(k)
  BY <1>1, FreshIsRead
<1>2. CASE Gone(k)
  <2>1. doomed = {} /\ DOMAIN readers = levels
    BY DEF SessionInv, CoreInv, ControlInv, FilesInv
  <2>2. Lookup(k) = NoEntry
    BY <1>2, <2>1 DEF Gone, Lookup, InSsts
  <2> QED BY <1>2, <2>2, LiveIsEntry DEF Gone
<1> QED BY <1>1, <1>2 DEF PlacedInv

(* With at most two levels get is exact: a deleted or expired key stays     *)
(* missing and any other reads as its last write, however flushes and       *)
(* compactions have moved it.                                               *)
THEOREM SessionExact == ASSUME MaxLevels <= 2 PROVE Session => []ReadsLatest
<1>1. SessionInv /\ PlacedInv => ReadsLatest
  BY PlacedIsRead DEF ReadsLatest, Visible
<1> QED BY <1>1, SessionInvariant, SessionPlaced, PTL

(* Between operations the places of the readers are 1 up to their number,   *)
(* in the order of their slots.                                             *)
LEMMA ReaderPlaces ==
  ASSUME SessionInv, pc = "idle", NEW N, N = Cardinality(DOMAIN readers)
  PROVE  /\ N \in Nat
         /\ \A m \in levels : Place(m) \in 1 .. N
         /\ \A a, b \in levels : a.slot < b.slot => Place(a) < Place(b)
         /\ \A a, b \in levels : Place(a) = Place(b) => a = b
         /\ \A n \in 1 .. N : ReaderAt(n) \in levels /\ Place(ReaderAt(n)) = n
<1>1. /\ DOMAIN readers = levels /\ IsFiniteSet(levels) /\ base \in Nat
      /\ \A m \in levels : m \in Meta /\ base <= m.slot
      /\ \A a, b \in levels : a.slot = b.slot => a = b
  BY DEF SessionInv, CoreInv, FilesInv, BaseInv, TypeOK
<1> DEFINE Behind(m) == {o \in levels : After(m, o)}
<1>2. \A a, b \in levels : After(a, b) <=> a.slot > b.slot
  BY <1>1 DEF After, Meta
<1>3. \A m \in levels : Place(m) = Cardinality(Behind(m)) + 1
  BY <1>1 DEF Place
<1>4. N \in Nat /\ N = Cardinality(levels)
  BY <1>1, FS_CardinalityType
<1>5. \A m \in levels : m \notin Behind(m) /\ Behind(m) \subseteq levels
  BY <1>1, <1>2 DEF Meta
<1>6. ASSUME NEW a \in levels, NEW b \in levels, a.slot < b.slot
      PROVE  /\ Behind(a) \subseteq Behind(b) /\ a \in Behind(b) /\ a \notin Behind(a)
  BY <1>1, <1>2, <1>6 DEF Meta
<1> HIDE DEF Behind
<1>7. ASSUME NEW m \in levels
      PROVE  /\ IsFiniteSet(Behind(m)) /\ Cardinality(Behind(m)) \in Nat
             /\ Cardinality(Behind(m)) < N
  <2>1. IsFiniteSet(Behind(m)) /\ Cardinality(Behind(m)) <= N
        /\ (Cardinality(Behind(m)) = N => Behind(m) = levels)
    BY <1>1, <1>4, <1>5, FS_Subset
  <2>2. Cardinality(Behind(m)) # N
    BY <1>5, <2>1
  <2>3. Cardinality(Behind(m)) \in Nat
    BY <2>1, FS_CardinalityType
  <2> QED BY <1>4, <2>1, <2>2, <2>3
<1>8. \A m \in levels : Place(m) \in 1 .. N
  BY <1>3, <1>4, <1>7
<1>9. ASSUME NEW a \in levels, NEW b \in levels, a.slot < b.slot
      PROVE  Place(a) < Place(b)
  <2>1. /\ Cardinality(Behind(a)) <= Cardinality(Behind(b))
        /\ (Cardinality(Behind(a)) = Cardinality(Behind(b)) => Behind(a) = Behind(b))
    BY <1>6, <1>7, <1>9, FS_Subset
  <2>2. Cardinality(Behind(a)) # Cardinality(Behind(b))
    BY <1>6, <1>9, <2>1
  <2> QED BY <1>3, <1>7, <2>1, <2>2
<1>10. ASSUME NEW a \in levels, NEW b \in levels, Place(a) = Place(b) PROVE a = b
  <2>1. a.slot = b.slot \/ a.slot < b.slot \/ b.slot < a.slot
    BY <1>1 DEF Meta
  <2>2. Place(a) \in 1 .. N /\ Place(b) \in 1 .. N
    BY <1>8
  <2> QED BY <1>1, <1>4, <1>9, <1>10, <2>1, <2>2
<1> DEFINE f == [m \in levels |-> Place(m)]
<1>11. f \in Injection(levels, 1 .. N)
  BY <1>8, <1>10 DEF Injection, IsInjective
<1>12. IsFiniteSet(1 .. N) /\ Cardinality(1 .. N) = N
  <2>1. /\ IsFiniteSet(1 .. N)
        /\ Cardinality(1 .. N) = IF 1 > N THEN 0 ELSE N - 1 + 1
    <3>1. 1 \in Int /\ N \in Int
      BY <1>4
    <3> QED BY <3>1, FS_Interval
  <2> QED BY <1>4, <2>1
<1>13. f \in Surjection(levels, 1 .. N)
  <2> HIDE DEF f
  <2> QED BY <1>4, <1>11, <1>12, FS_Injection
<1>14. ASSUME NEW n \in 1 .. N PROVE ReaderAt(n) \in levels /\ Place(ReaderAt(n)) = n
  <2>1. \E m \in levels : Place(m) = n
    BY <1>13 DEF Surjection
  <2>2. ReaderAt(n) = CHOOSE m \in levels : Place(m) = n
    BY <1>1 DEF ReaderAt
  <2> HIDE DEF f
  <2> QED BY <2>1, <2>2
<1> QED BY <1>4, <1>8, <1>9, <1>10, <1>14

(* The map scan fills from sst_readers, reader by reader.                   *)
LEMMA ScanSteps ==
  ASSUME NEW start, NEW end, NEW N \in Nat, N = Cardinality(DOMAIN readers)
  PROVE  \E map :
           /\ SstScan(start, end) = map[N] /\ map[0] = EmptyTable
           /\ \A n \in 1 .. N :
                map[n] = Insert(map[n - 1], readers[ReaderAt(n)], start, end)
<1> DEFINE StepOf(x, n) == Insert(x, readers[ReaderAt(n)], start, end)
           Is(f, m) == f = [n \in 0 .. m |-> IF n = 0 THEN EmptyTable ELSE StepOf(f[n - 1], n)]
           map == CHOOSE f : Is(f, N)
           T == {m \in 0 .. N : \E f : Is(f, m)}
<1>1. SstScan(start, end) = map[N]
  BY DEF SstScan
<1> HIDE DEF StepOf, map
<1>2. 0 \in T
  <2>1. Is([n \in 0 .. 0 |-> EmptyTable], 0)
    OBVIOUS
  <2> HIDE DEF Is
  <2> QED BY <2>1
<1>3. ASSUME NEW m \in 1 .. N, m - 1 \in T PROVE m \in T
  <2>1. PICK f : Is(f, m - 1)
    BY <1>3
  <2> DEFINE g == [n \in 0 .. m |-> IF n = m THEN StepOf(f[m - 1], m) ELSE f[n]]
  <2>2. ASSUME NEW n \in 0 .. m PROVE g[n] = IF n = 0 THEN EmptyTable ELSE StepOf(g[n - 1], n)
    <3>1. CASE n = 0
      <4>1. n # m /\ 0 \in 0 .. m - 1
        BY <3>1
      <4> QED BY <2>1, <3>1, <4>1
    <3>2. CASE n = m
      <4>1. n # 0 /\ n - 1 \in 0 .. m /\ n - 1 # m
        BY <3>2
      <4> QED BY <3>2, <4>1
    <3>3. CASE n # 0 /\ n # m
      <4>1. n \in 0 .. m - 1 /\ n - 1 \in 0 .. m - 1 /\ n - 1 \in 0 .. m /\ n - 1 # m
        BY <3>3
      <4> QED BY <2>1, <3>3, <4>1
    <3> QED BY <3>1, <3>2, <3>3
  <2>3. g = [n \in 0 .. m |-> g[n]]
    OBVIOUS
  <2> HIDE DEF g
  <2>4. Is(g, m)
    BY <2>2, <2>3
  <2> HIDE DEF Is
  <2> QED BY <2>4
<1>4. N \in T
  <2>1. 0 .. N \subseteq T
    <3> HIDE DEF T
    <3> QED BY <1>2, <1>3, UpTo
  <2> HIDE DEF T
  <2> QED BY <2>1
<1>5. Is(map, N)
  <2> HIDE DEF Is
  <2> QED BY <1>4 DEF map
<1>6. /\ map[0] = EmptyTable
      /\ \A n \in 1 .. N : map[n] = StepOf(map[n - 1], n)
  <2>1. 0 \in 0 .. N /\ \A n \in 1 .. N : n \in 0 .. N /\ n # 0
    OBVIOUS
  <2> QED BY <1>5, <2>1
<1> QED BY <1>1, <1>6 DEF StepOf

(* Of the readers that hold a key of the range, the last to be inserted is  *)
(* the one whose entry stays: the one get stops at.                         *)
LEMMA FilledIsFound ==
  ASSUME SessionInv, pc = "idle", NEW start, NEW end, NEW k \in Keys
  PROVE  SstScan(start, end)[k] =
           IF start <= k /\ k < end THEN InSsts(DOMAIN readers, k) ELSE NoEntry
<1> DEFINE N == Cardinality(DOMAIN readers)
           inRange == start <= k /\ k < end
           From(m, n) == /\ readers[m][k] # NoEntry
                         /\ \A o \in levels : Place(o) <= n /\ o # m /\ readers[o][k] # NoEntry
                                                => m.slot > o.slot
           Fill(e, n) ==
             \/ e = NoEntry /\ (inRange => \A o \in levels : Place(o) <= n => readers[o][k] = NoEntry)
             \/ inRange /\ \E m \in levels : Place(m) <= n /\ From(m, n) /\ e = readers[m][k]
<1>1. /\ DOMAIN readers = levels /\ TypeOK /\ BaseInv
      /\ \A a, b \in levels : a.slot = b.slot => a = b
      /\ \A m \in levels : m.slot \in Nat
  BY DEF SessionInv, CoreInv, FilesInv, TypeOK, Meta
<1>2. /\ N \in Nat
      /\ \A m \in levels : Place(m) \in 1 .. N
      /\ \A a, b \in levels : a.slot < b.slot => Place(a) < Place(b)
      /\ \A a, b \in levels : Place(a) = Place(b) => a = b
      /\ \A n \in 1 .. N : ReaderAt(n) \in levels /\ Place(ReaderAt(n)) = n
  BY ReaderPlaces
<1> HIDE DEF N, inRange
<1>3. PICK map : /\ SstScan(start, end) = map[N] /\ map[0] = EmptyTable
                 /\ \A n \in 1 .. N :
                      map[n] = Insert(map[n - 1], readers[ReaderAt(n)], start, end)
  BY <1>2, ScanSteps DEF N
<1> DEFINE T == {n \in 0 .. N : Fill(map[n][k], n)}
<1>4. 0 \in T
  <2>1. map[0][k] = NoEntry
    BY <1>3 DEF EmptyTable
  <2>2. \A o \in levels : ~ (Place(o) <= 0)
    BY <1>2
  <2>3. Fill(NoEntry, 0)
    BY <2>2
  <2> HIDE DEF Fill
  <2> QED BY <1>2, <2>1, <2>3
<1>5. ASSUME NEW n \in 1 .. N, n - 1 \in T PROVE n \in T
  <2> DEFINE r == ReaderAt(n)
  <2>1. r \in levels /\ Place(r) = n /\ n \in Nat /\ n \in 0 .. N
    BY <1>2, <1>5
  <2>2. map[n][k] = IF readers[r][k] # NoEntry /\ inRange THEN readers[r][k] ELSE map[n - 1][k]
    BY <1>3, <1>5 DEF Insert, inRange
  <2>3. \A o \in levels : Place(o) <= n => o = r \/ Place(o) <= n - 1
    BY <1>2, <2>1
  <2>4. \A o \in levels : Place(o) <= n - 1 => Place(o) <= n
    BY <1>2, <2>1
  <2>5. Fill(map[n - 1][k], n - 1)
    BY <1>5
  <2> HIDE DEF r
  <2>6. CASE readers[r][k] # NoEntry /\ inRange
    <3>1. ASSUME NEW o \in levels, Place(o) <= n, o # r PROVE r.slot > o.slot
      <4>1. Place(o) < n
        BY <1>2, <2>1, <3>1
      <4>2. ~ (Place(r) < Place(o))
        BY <1>2, <2>1, <4>1
      <4> QED BY <1>1, <1>2, <2>1, <3>1, <4>2
    <3>2. From(r, n)
      BY <2>6, <3>1
    <3>3. Place(r) <= n /\ map[n][k] = readers[r][k]
      BY <2>1, <2>2, <2>6
    <3> HIDE DEF From
    <3>4. Fill(map[n][k], n)
      BY <2>1, <2>6, <3>2, <3>3
    <3> HIDE DEF Fill
    <3> QED BY <2>1, <3>4
  <2>7. CASE ~ (readers[r][k] # NoEntry /\ inRange)
    <3>1. map[n][k] = map[n - 1][k]
      BY <2>2, <2>7
    <3>2. Fill(map[n - 1][k], n)
      BY <2>3, <2>4, <2>5, <2>7
    <3> HIDE DEF Fill
    <3> QED BY <2>1, <3>1, <3>2
  <2> QED BY <2>6, <2>7
<1>6. Fill(map[N][k], N)
  <2>1. 0 .. N \subseteq T
    <3> HIDE DEF T
    <3> QED BY <1>2, <1>4, <1>5, UpTo
  <2>2. N \in 0 .. N
    BY <1>2
  <2> HIDE DEF Fill
  <2> QED BY <2>1, <2>2
<1>7. \A o \in levels : Place(o) <= N
  BY <1>2
<1>8. CASE inRange /\ \E m \in levels : From(m, N) /\ map[N][k] = readers[m][k]
  <2>1. PICK m \in levels : From(m, N) /\ map[N][k] = readers[m][k]
    BY <1>8
  <2>2. \A o \in levels \ {m} : readers[o][k] # NoEntry => m.slot > o.slot
    BY <1>7, <2>1
  <2>3. InSsts(levels, k) = readers[m][k]
    BY <1>1, <2>1, <2>2, TopRead
  <2> QED BY <1>1, <1>3, <1>8, <2>1, <2>3 DEF inRange
<1>9. CASE map[N][k] = NoEntry /\ (inRange => \A o \in levels : readers[o][k] = NoEntry)
  <2>1. inRange => InSsts(levels, k) = NoEntry
    BY <1>9 DEF InSsts
  <2> QED BY <1>1, <1>3, <1>9, <2>1 DEF inRange
<1> QED
  <2> HIDE DEF From
  <2> QED BY <1>6, <1>7, <1>8, <1>9

(* scan fills its map with what get would find for each key of its range.   *)
LEMMA ScanFinds ==
  ASSUME SessionInv, pc = "idle", NEW start, NEW end
  PROVE  Scan(start, end) =
           {<<k, Lookup(k).val>> : k \in {x \in Keys : /\ start <= x /\ x < end
                                                       /\ Live(Lookup(x), now)}}
<1> DEFINE map == Insert(SstScan(start, end), MemScan(start, end), start, end)
<1>1. ASSUME NEW k \in Keys
      PROVE  map[k] = IF start <= k /\ k < end THEN Lookup(k) ELSE NoEntry
  <2>1. SstScan(start, end)[k] =
          IF start <= k /\ k < end THEN InSsts(DOMAIN readers, k) ELSE NoEntry
    BY FilledIsFound
  <2>2. MemScan(start, end)[k] =
          IF start <= k /\ k < end
          THEN IF active[k] # NoEntry THEN active[k] ELSE frozen[k]
          ELSE NoEntry
    BY DEF MemScan, Insert, EmptyTable
  <2>3. map[k] = IF MemScan(start, end)[k] # NoEntry /\ start <= k /\ k < end
                 THEN MemScan(start, end)[k] ELSE SstScan(start, end)[k]
    BY DEF Insert
  <2> HIDE DEF map
  <2> QED BY <2>1, <2>2, <2>3 DEF Lookup
<1>2. Scan(start, end) = {<<k, map[k].val>> : k \in {x \in Keys : Live(map[x], now)}}
  BY DEF Scan
<1>3. ~Live(NoEntry, now)
  BY LiveIsEntry
<1> HIDE DEF map
<1> QED BY <1>1, <1>2, <1>3

(* With at most two levels scan lists exactly the live keys of its range,   *)
(* each with the value last written: filling a map front to back from the   *)
(* readers, then from the memtable, leaves what get finds from the back.    *)
THEOREM SessionScans == ASSUME MaxLevels <= 2 PROVE Session => []ScansLatest
<1>1. SessionInv /\ PlacedInv => ScansLatest
  <2> SUFFICES ASSUME SessionInv, PlacedInv, pc = "idle",
                      NEW start \in Keys \cup {k + 1 : k \in Keys},
                      NEW end \in Keys \cup {k + 1 : k \in Keys}
               PROVE  Scan(start, end) =
                        {<<k, latest[k].val>> : k \in {x \in Keys : /\ start <= x /\ x < end
                                                                    /\ Live(latest[x], now)}}
    BY DEF ScansLatest
  <2>1. \A k \in Keys : /\ Live(Lookup(k), now) <=> Live(latest[k], now)
                        /\ Live(latest[k], now) => Lookup(k).val = latest[k].val
    BY PlacedIsRead
  <2>2. Scan(start, end) =
          {<<k, Lookup(k).val>> : k \in {x \in Keys : /\ start <= x /\ x < end
                                                      /\ Live(Lookup(x), now)}}
    BY ScanFinds
  <2> QED BY <2>1, <2>2
<1> QED BY <1>1, SessionInvariant, SessionPlaced, PTL

----------------------------------------------------------------------------
(* Versions(k) looks at the tables and the history only.                    *)
LEMMA VersionsSame ==
  ASSUME UNCHANGED <<active, frozen, out, levels, readers, latest>>, NEW k \in Keys
  PROVE  Versions(k)' = Versions(k)
  BY DEF Versions

(* An insert into the memtable adds the inserted entry only.                *)
LEMMA MemPutVersions ==
  ASSUME TypeOK, NEW k \in Keys, NEW e \in Entry, MemPut(k, e),
         latest' = [latest EXCEPT ![k] = e], UNCHANGED <<levels, readers>>, NEW j \in Keys
  PROVE  Versions(j)' \subseteq Versions(j) \cup {NoEntry, latest'[j]}
<1> DEFINE grown == [active EXCEPT ![k] = e]
<1>1. \/ active' = grown /\ frozen' = frozen
      \/ active' = EmptyTable /\ frozen' = grown
  BY DEF MemPut
<1>2. grown[j] \in {active[j], latest'[j]}
  BY DEF TypeOK, Table
<1>3. out' = out /\ EmptyTable[j] = NoEntry
  BY DEF MemPut, EmptyTable
<1> HIDE DEF grown
<1>4. active'[j] \in Versions(j) \cup {NoEntry, latest'[j]}
      /\ frozen'[j] \in Versions(j) \cup {NoEntry, latest'[j]}
  BY <1>1, <1>2, <1>3 DEF Versions
<1> QED BY <1>3, <1>4 DEF Versions

(* A new file holds what was written out.                                   *)
LEMMA AddSstVersions ==
  ASSUME TypeOK, FilesInv, NEW c \in Nat, AddSst(c), \A m \in levels : m.id < nextId - 1,
         UNCHANGED <<active, frozen, latest>>, NEW j \in Keys
  PROVE  Versions(j)' \subseteq Versions(j) \cup {NoEntry, latest'[j]}
<1>1. PICK n \in Meta : /\ levels' = levels \cup {n} /\ DOMAIN readers' = levels'
                        /\ readers'[n] = out /\ \A m \in levels : readers'[m] = readers[m]
                        /\ out' = EmptyTable
  BY AddSstAdds
<1>2. DOMAIN readers = levels /\ EmptyTable[j] = NoEntry
  BY DEF FilesInv, EmptyTable
<1>3. \A m \in DOMAIN readers' : readers'[m][j] \in Versions(j)
  BY <1>1, <1>2 DEF Versions
<1> QED BY <1>1, <1>2, <1>3 DEF Versions

(* A step of a session leaves no version of a key that was not there before *)
(* but the one it writes.                                                   *)
LEMMA VersionsStep ==
  ASSUME TypeOK, ControlInv, FilesInv, SessionNext, NEW j \in Keys
  PROVE  Versions(j)' \subseteq Versions(j) \cup {NoEntry, latest'[j]}
<1>0. EmptyTable[j] = NoEntry
  BY DEF EmptyTable
<1>1. ASSUME NEW k \in Keys, NEW e \in Entry, NEW l \in Entry, WriteOne(k, e, l)
      PROVE  Versions(j)' \subseteq Versions(j) \cup {NoEntry, latest'[j]}
  <2>1. UNCHANGED <<levels, readers>> /\ MemPut(k, e) /\ latest' = [latest EXCEPT ![k] = e]
    BY <1>1 DEF WriteOne, sst
  <2> QED BY <2>1, MemPutVersions
<1>2. ASSUME NEW b \in Batches, WriteBatch(b)
      PROVE  Versions(j)' \subseteq Versions(j) \cup {NoEntry, latest'[j]}
  BY <1>2, VersionsSame DEF WriteBatch, mem, sst, ghost
<1>3. CASE Close
  <2>1. UNCHANGED <<out, levels, readers, latest>>
        /\ \/ UNCHANGED <<active, frozen>>
           \/ frozen' = active /\ active' = EmptyTable
    BY <1>3 DEF Close, sst, ghost
  <2> QED BY <1>0, <2>1 DEF Versions
<1>4. CASE Tick
  BY <1>4, VersionsSame DEF Tick, mem, sst, ctl
<1>5. CASE BatchLog
  BY <1>5, VersionsSame DEF BatchLog, mem, sst, ghost
<1>6. CASE BatchApply
  <2>1. batch[idx].key \in Keys /\ BatchEntry(batch[idx]) \in Entry
    BY <1>6, BatchOpTyped DEF BatchApply
  <2>2. UNCHANGED <<levels, readers>> /\ MemPut(batch[idx].key, BatchEntry(batch[idx]))
        /\ latest' = [latest EXCEPT ![batch[idx].key] = BatchEntry(batch[idx])]
    BY <1>6 DEF BatchApply, sst
  <2> QED BY <2>1, <2>2, MemPutVersions
<1>7. CASE FlushBegin
  <2>1. out' = frozen /\ frozen' = EmptyTable /\ UNCHANGED <<active, levels, readers, latest>>
    BY <1>7 DEF FlushBegin, ghost
  <2> QED BY <1>0, <2>1 DEF Versions
<1>8. CASE FlushBuild
  <2>1. AddSst(0) /\ (\A m \in levels : m.id < nextId - 1) /\ UNCHANGED <<active, frozen, latest>>
    BY <1>8 DEF FlushBuild, FilesInv, ghost
  <2> QED BY <2>1, AddSstVersions
<1>9. CASE SaveBegin
  BY <1>9, VersionsSame DEF SaveBegin, mem, sst, ghost
<1>10. CASE SaveEnd
  BY <1>10, VersionsSame DEF SaveEnd, mem, sst, ghost
<1>11. CASE ResetWal
  BY <1>11, VersionsSame DEF ResetWal, mem, sst, ghost
<1>12. CASE CompactSkip
  BY <1>12, VersionsSame DEF CompactSkip, mem, sst, ghost
<1>13. CASE CompactBegin
  <2> DEFINE S == Sources(cursor) \cup Overlapping(cursor)
  <2>1. UNCHANGED <<active, frozen, levels, readers, latest>>
        /\ (out' = out \/ out' = Merge(S))
    BY <1>13 DEF CompactBegin, ghost
  <2>2. S \subseteq levels
    BY DEF Sources, Overlapping, SstsAtLevel
  <2>3. \A m \in S : Contents(m) = readers[m]
    BY <2>2, ContentsOf
  <2> HIDE DEF S
  <2>4. Merge(S)[j] \in {NoEntry} \cup {readers[m][j] : m \in DOMAIN readers}
    <3>1. CASE \E m \in S : Contents(m)[j] # NoEntry
      <4> DEFINE Stays(m) == /\ Contents(m)[j] # NoEntry
                             /\ \A o \in S \ {m} : Contents(o)[j] # NoEntry => MergedAfter(m, o)
                 e == Contents(CHOOSE m \in S : Stays(m))[j]
      <4>1. Merge(S)[j] = IF Live(e, now) THEN e ELSE NoEntry
        BY <3>1 DEF Merge
      <4>2. e \in {NoEntry} \cup {readers[m][j] : m \in DOMAIN readers}
        BY <1>0 DEF Contents
      <4> HIDE DEF e
      <4> QED BY <4>1, <4>2
    <3>2. CASE ~ \E m \in S : Contents(m)[j] # NoEntry
      BY <3>2 DEF Merge
    <3> QED BY <3>1, <3>2
  <2> QED BY <2>1, <2>4 DEF Versions
<1>14. CASE CompactBuild
  <2>1. AddSst(cursor + 1) /\ cursor + 1 \in Nat /\ (\A m \in levels : m.id < nextId - 1)
        /\ UNCHANGED <<active, frozen, latest>>
    BY <1>14 DEF CompactBuild, FilesInv, TypeOK, ghost
  <2> QED BY <2>1, AddSstVersions
<1>15. CASE Unlink
  <2>1. PICK m \in doomed :
          readers' = [r \in {x \in DOMAIN readers : x.id # m.id} |-> readers[r]]
    BY <1>15 DEF Unlink
  <2>2. UNCHANGED <<active, frozen, out, latest>>
    BY <1>15 DEF Unlink, mem, ghost
  <2>3. \A r \in DOMAIN readers' : r \in DOMAIN readers /\ readers'[r] = readers[r]
    BY <2>1
  <2> QED BY <2>2, <2>3 DEF Versions
<1>16. CASE CompactEnd
  BY <1>16, VersionsSame DEF CompactEnd, mem, sst, ghost
<1>17. CASE CloseSave
  BY <1>17, VersionsSame DEF CloseSave, mem, sst, ghost
<1> QED
  BY SessionCases, <1>1, <1>2, <1>3, <1>4, <1>5, <1>6, <1>7, <1>8, <1>9, <1>10, <1>11,
     <1>12, <1>13, <1>14, <1>15, <1>16, <1>17 DEF Internal

(* A step of a session leaves the last write of a key alone, or gives it    *)
(* the next number, or is a batch's and gives it the number 0.              *)
LEMMA NumberStep ==
  ASSUME TypeOK, ControlInv, SessionNext, NEW j \in Keys
  PROVE  /\ nextSeq' \in {nextSeq, nextSeq + 1}
         /\ \/ latest'[j] = latest[j]
            \/ latest'[j] # NoEntry /\ latest'[j].seq = nextSeq /\ nextSeq' = nextSeq + 1
            \/ latest'[j] # NoEntry /\ latest'[j].seq = 0
<1> DEFINE Goal == /\ nextSeq' \in {nextSeq, nextSeq + 1}
                   /\ \/ latest'[j] = latest[j]
                      \/ latest'[j] # NoEntry /\ latest'[j].seq = nextSeq /\ nextSeq' = nextSeq + 1
                      \/ latest'[j] # NoEntry /\ latest'[j].seq = 0
<1>1. ASSUME NEW k \in Keys, NEW v, v # Absent, NEW x, NEW l,
             WriteOne(k, Stored(v, nextSeq, x), l)
      PROVE  Goal
  <2>1. latest' = [latest EXCEPT ![k] = Stored(v, nextSeq, x)] /\ nextSeq' = nextSeq + 1
    BY <1>1 DEF WriteOne
  <2>2. Stored(v, nextSeq, x).seq = nextSeq /\ Stored(v, nextSeq, x) # NoEntry
    BY <1>1 DEF Stored, NoEntry
  <2>3. latest'[j] = latest[j] \/ latest'[j] = Stored(v, nextSeq, x)
    BY <2>1 DEF TypeOK, Table
  <2> QED BY <2>1, <2>2, <2>3
<1>2. CASE \E k \in Keys, v \in Vals : Put(k, v)
  BY <1>1, <1>2, ValsAssumption DEF Put
<1>3. CASE \E k \in Keys : Delete(k)
  BY <1>1, <1>3, ValsAssumption DEF Delete
<1>4. CASE \E k \in Keys, v \in Vals, ttl \in TTLs : PutTtl(k, v, ttl)
  BY <1>1, <1>4, ValsAssumption DEF PutTtl
<1>5. CASE BatchApply
  <2> DEFINE op == batch[idx]
  <2>1. op.key \in Keys /\ BatchEntry(op) # NoEntry
    BY <1>5, BatchOpTyped DEF BatchApply
  <2>2. latest' = [latest EXCEPT ![op.key] = BatchEntry(op)] /\ nextSeq' = nextSeq
    BY <1>5 DEF BatchApply
  <2>3. BatchEntry(op).seq = 0
    BY DEF BatchEntry, Stored
  <2>4. latest'[j] = latest[j] \/ latest'[j] = BatchEntry(op)
    BY <2>1, <2>2 DEF TypeOK, Table
  <2> HIDE DEF op
  <2> QED BY <2>1, <2>2, <2>3, <2>4
<1>6. CASE Close \/ Tick \/ BatchLog \/ FlushBegin \/ FlushBuild \/ SaveBegin \/ SaveEnd
  BY <1>6 DEF Close, Tick, BatchLog, FlushBegin, FlushBuild, SaveBegin, SaveEnd, ghost
<1>7. CASE ResetWal \/ CompactSkip \/ CompactBegin \/ CompactBuild \/ Unlink \/ CompactEnd
           \/ CloseSave \/ \E b \in Batches : WriteBatch(b)
  BY <1>7 DEF ResetWal, CompactSkip, CompactBegin, CompactBuild, Unlink, CompactEnd,
              CloseSave, WriteBatch, ghost
<1> QED BY <1>2, <1>3, <1>4, <1>5, <1>6, <1>7 DEF SessionNext, Request, Internal

(* A session with snapshots is a session.                                   *)
LEMMA SnapSessions == SnapSession => Session
<1>1. SnapInit => Init
  BY DEF SnapInit
<1>2. [SnapNext]_svars => [SessionNext]_vars
  BY DEF SnapNext, TakeSnapshot, svars
<1> QED BY <1>1, <1>2, PTL DEF SnapSession, Session

(* SnapInv holds of the state open leaves on a new directory.               *)
LEMMA SnapStarts == SnapInit => SnapInv
<1> SUFFICES ASSUME SnapInit PROVE SnapInv
  OBVIOUS
<1>1. \A k \in Keys : EmptyTable[k] = NoEntry /\ NoEntry.seq = 0
  BY DEF EmptyTable, NoEntry
<1>2. \A k \in Keys : Versions(k) = {NoEntry}
  BY <1>1 DEF SnapInit, Init, Versions
<1>3. /\ nextSeq = 1 /\ latest = EmptyTable
      /\ snap = [seq |-> 1, view |-> EmptyTable, unnumbered |-> {}]
  BY DEF SnapInit, Init, Taken
<1> QED BY <1>1, <1>2, <1>3, EmptyTyped DEF SnapInv

(* SnapInv is preserved by every step of a session and by a snapshot.       *)
LEMMA SnapStep ==
  ASSUME SnapInv, TypeOK, ControlInv, FilesInv, SnapNext
  PROVE  SnapInv'
<1>1. nextSeq \in Nat /\ \A k \in Keys : latest[k].seq \in Nat
  BY DEF TypeOK, Table, Entry
<1>2. CASE SessionNext /\ snap' = [snap EXCEPT !.unnumbered = @ \cup BatchWrites]
  <2>1. nextSeq' \in {nextSeq, nextSeq + 1}
    BY <1>2, KeysAssumption, NumberStep
  <2>2. /\ snap'.seq = snap.seq /\ snap'.view = snap.view
        /\ snap'.unnumbered = snap.unnumbered \cup BatchWrites
        /\ snap' \in [seq : 1 .. nextSeq, view : Table, unnumbered : SUBSET Keys]
    BY <1>2 DEF SnapInv, BatchWrites
  <2>3. ASSUME NEW k \in Keys
        PROVE  /\ latest'[k].seq < nextSeq'
               /\ latest'[k] = NoEntry => Versions(k)' = {NoEntry}
               /\ snap'.view[k].seq < snap'.seq
               /\ snap'.view[k] = NoEntry /\ k \notin snap'.unnumbered
                    => \A e \in Versions(k)' : e = NoEntry \/ e.seq >= snap'.seq
    <3>1. \/ latest'[k] = latest[k]
          \/ latest'[k] # NoEntry /\ latest'[k].seq = nextSeq /\ nextSeq' = nextSeq + 1
          \/ latest'[k] # NoEntry /\ latest'[k].seq = 0
      BY <1>2, NumberStep
    <3>2. Versions(k)' \subseteq Versions(k) \cup {NoEntry, latest'[k]}
      BY <1>2, VersionsStep
    <3>3. latest[k] \in Versions(k) /\ latest'[k] \in Versions(k)'
      BY DEF Versions
    <3>4. latest'[k].seq < nextSeq'
      BY <1>1, <2>1, <3>1 DEF SnapInv
    <3>5. latest'[k] = NoEntry => Versions(k)' = {NoEntry}
      BY <3>1, <3>2, <3>3 DEF SnapInv
    <3>6. ASSUME k \notin snap'.unnumbered, snap.view[k] = NoEntry, NEW e \in Versions(k)'
          PROVE  e = NoEntry \/ e.seq >= snap.seq
      <4>1. k \notin snap.unnumbered /\ k \notin BatchWrites
        BY <2>2, <3>6
      <4>2. CASE e \in Versions(k)
        BY <3>6, <4>1, <4>2 DEF SnapInv
      <4>3. CASE e = latest'[k] /\ latest'[k] # latest[k]
        <5>1. e.seq = nextSeq
          BY <3>1, <4>1, <4>3 DEF BatchWrites
        <5>2. snap.seq \in 1 .. nextSeq
          BY DEF SnapInv
        <5> QED BY <1>1, <5>1, <5>2
      <4> QED BY <3>2, <3>3, <3>6, <4>2, <4>3
    <3>7. snap.view[k].seq < snap.seq
      BY DEF SnapInv
    <3> QED BY <2>2, <3>4, <3>5, <3>6, <3>7
  <2>4. snap' \in [seq : 1 .. nextSeq', view : Table, unnumbered : SUBSET Keys]
    <3>1. 1 .. nextSeq \subseteq 1 .. nextSeq'
      BY <1>1, <2>1
    <3> QED BY <2>2, <3>1
  <2> QED BY <2>3, <2>4 DEF SnapInv
<1>3. CASE TakeSnapshot
  <2>1. snap' = [seq |-> nextSeq, view |-> latest, unnumbered |-> {}] /\ UNCHANGED vars
    BY <1>3 DEF TakeSnapshot, Taken
  <2>2. UNCHANGED <<active, frozen, out, levels, readers, latest, nextSeq>>
    BY <2>1 DEF vars, mem, sst, ghost
  <2>3. \A k \in Keys : Versions(k)' = Versions(k)
    BY <2>2, VersionsSame
  <2>4. \A k \in Keys : latest[k] = NoEntry => \A e \in Versions(k)' : e = NoEntry
    BY <2>3 DEF SnapInv
  <2>5. snap'.seq = nextSeq /\ \A k \in Keys : snap'.view[k] = latest[k]
    BY <2>1
  <2>6. nextSeq \in 1 .. nextSeq /\ latest \in Table
    BY <1>1 DEF SnapInv, TypeOK
  <2>7. snap' \in [seq : 1 .. nextSeq, view : Table, unnumbered : SUBSET Keys]
    BY <2>1, <2>6
  <2> QED BY <1>1, <2>2, <2>3, <2>4, <2>5, <2>7 DEF SnapInv
<1> QED BY <1>2, <1>3 DEF SnapNext

(* The numbers of a session: every one given out is below the next, those   *)
(* a snapshot should show are below its own, and those put, put_with_ttl    *)
(* and delete took after it are not.                                        *)
THEOREM SnapInvariant == SnapSession => []SnapInv
<1>1. SnapInv /\ SessionInv /\ [SnapNext]_svars => SnapInv'
  <2>1. SnapInv /\ UNCHANGED svars => SnapInv'
    <3> SUFFICES ASSUME SnapInv, UNCHANGED svars PROVE SnapInv'
      OBVIOUS
    <3>1. UNCHANGED <<active, frozen, out, levels, readers, latest, nextSeq, snap>>
      BY DEF svars, vars, mem, sst, ghost
    <3>2. \A k \in Keys : Versions(k)' = Versions(k)
      BY <3>1, VersionsSame
    <3> QED BY <3>1, <3>2 DEF SnapInv
  <2> QED BY <2>1, SnapStep DEF SessionInv, CoreInv
<1> QED BY <1>1, SnapStarts, SnapSessions, SessionInvariant, PTL DEF SnapSession

(* A key that was missing when the snapshot was taken, and that no batch    *)
(* has written since, is missing in it: every version of it is passed over. *)
LEMMA SnapshotHides ==
  ASSUME SnapInv, SessionInv, NEW k \in Keys,
         snap.view[k] = NoEntry, k \notin snap.unnumbered
  PROVE  GetAt(k, snap.seq) = Absent
<1> DEFINE older == {m \in DOMAIN readers : readers[m][k].seq < snap.seq}
<1>1. snap.seq \in Nat
  BY DEF SnapInv, SessionInv, CoreInv, TypeOK
<1>2. active[k].seq \in Nat /\ frozen[k].seq \in Nat
      /\ \A m \in DOMAIN readers : readers[m][k].seq \in Nat
  BY DEF SessionInv, CoreInv, TypeOK, Table, Entry
<1>3. \A e \in Versions(k) : e = NoEntry \/ e.seq >= snap.seq
  BY DEF SnapInv
<1>4. InMemory(k) = NoEntry \/ ~(InMemory(k).seq < snap.seq)
  BY <1>1, <1>2, <1>3 DEF Versions, InMemory
<1>5. \A m \in older : readers[m][k] = NoEntry
  BY <1>1, <1>2, <1>3 DEF Versions
<1>6. InSsts(older, k) = NoEntry
  BY <1>5 DEF InSsts
<1>7. Visible(NoEntry, now) = Absent
  BY LiveIsEntry DEF Visible
<1> QED BY <1>4, <1>6, <1>7 DEF GetAt

(* A key that has not been written since the snapshot was taken is found    *)
(* as it was: no version of it is passed over that is needed.               *)
LEMMA SnapshotShows ==
  ASSUME SnapInv, SessionInv, PlacedInv, pc = "idle",
         NEW k \in Keys, latest[k] = snap.view[k]
  PROVE  GetAt(k, snap.seq) = Visible(latest[k], now)
<1> DEFINE older == {m \in DOMAIN readers : readers[m][k].seq < snap.seq}
<1>1. frozen[k] = NoEntry /\ doomed = {} /\ DOMAIN readers = levels /\ TypeOK /\ BaseInv
  BY DEF SessionInv, CoreInv, ControlInv, FilesInv, EmptyTable
<1>2. latest[k].seq < snap.seq
  BY DEF SnapInv
<1>3. CASE latest[k] # NoEntry /\ active[k] = latest[k]
  BY <1>2, <1>3 DEF GetAt, InMemory
<1>4. CASE latest[k] # NoEntry /\ Fresh(k) /\ active[k] # latest[k]
  <2>1. active[k] = NoEntry
    BY <1>1, <1>4 DEF Fresh
  <2>2. PICK m \in levels : readers[m][k] = latest[k] /\ OnTop(m, k)
    BY <1>1, <1>4 DEF Fresh
  <2>3. older \in SUBSET levels /\ m \in older
    BY <1>1, <1>2, <2>2
  <2>4. InSsts(older, k) = latest[k]
    BY <1>1, <1>4, <2>2, <2>3, TopRead DEF OnTop
  <2>5. InMemory(k) = NoEntry
    BY <1>1, <2>1 DEF InMemory
  <2> QED BY <2>4, <2>5 DEF GetAt
<1>5. CASE Gone(k)
  <2>1. InMemory(k) = NoEntry /\ InSsts(older, k) = NoEntry
    BY <1>1, <1>5 DEF Gone, InMemory, InSsts
  <2>2. ~Live(NoEntry, now) /\ ~Live(latest[k], now)
    BY <1>5, LiveIsEntry DEF Gone
  <2> QED BY <2>1, <2>2 DEF GetAt, Visible
<1> QED BY <1>3, <1>4, <1>5 DEF PlacedInv

(* With at most two levels a key is read at a snapshot as it was when the   *)
(* snapshot was taken, if it has not been written since, or was missing     *)
(* and no batch has written it.                                             *)
THEOREM SnapshotsSteady == ASSUME MaxLevels <= 2 PROVE SnapSession => []SnapshotSteady
<1>1. SnapInv /\ SessionInv /\ PlacedInv => SnapshotSteady
  <2> SUFFICES ASSUME SnapInv, SessionInv, PlacedInv, pc = "idle", NEW k \in Keys,
                      \/ latest[k] = snap.view[k]
                      \/ snap.view[k] = NoEntry /\ k \notin snap.unnumbered
               PROVE  GetAt(k, snap.seq) = Visible(snap.view[k], now)
    BY DEF SnapshotSteady
  <2>1. Visible(NoEntry, now) = Absent
    BY LiveIsEntry DEF Visible
  <2> QED BY <2>1, SnapshotHides, SnapshotShows
<1> QED BY <1>1, SnapInvariant, SnapSessions, SessionInvariant, SessionPlaced, PTL

----------------------------------------------------------------------------
(* In every state of a session, inside an operation too, the entry that     *)
(* answers for a key is its last write, or both are dead.                   *)
LEMMA HoldingLatest ==
  ASSUME SessionInv, PlacedInv, NEW k \in Keys
  PROVE  \/ Holding(k) = latest[k]
         \/ ~Live(Holding(k), now) /\ ~Live(latest[k], now)
<1>1. DOMAIN readers = levels /\ TypeOK /\ BaseInv
  BY DEF SessionInv, CoreInv, FilesInv
<1>2. CASE latest[k] # NoEntry /\ Fresh(k)
  <2>1. CASE \/ active[k] = latest[k]
             \/ active[k] = NoEntry /\ frozen[k] = latest[k]
             \/ /\ active[k] = NoEntry /\ frozen[k] = NoEntry
                /\ pc = "build" /\ out[k] = latest[k]
    BY <1>2, <2>1 DEF Holding
  <2>2. CASE /\ active[k] = NoEntry /\ frozen[k] = NoEntry
             /\ pc = "build" => out[k] = NoEntry
             /\ \E m \in levels : /\ readers[m][k] = latest[k] /\ OnTop(m, k)
                                  /\ pc = "unlink" => m \notin doomed
    <3>1. PICK m \in levels : /\ readers[m][k] = latest[k] /\ OnTop(m, k)
                              /\ pc = "unlink" => m \notin doomed
      BY <2>2
    <3>2. CASE pc = "unlink"
      <4>1. InSsts(levels \ doomed, k) = latest[k]
        BY <1>1, <1>2, <3>1, <3>2, TopRead DEF OnTop
      <4> QED BY <1>1, <2>2, <3>2, <4>1 DEF Holding
    <3>3. CASE pc # "unlink"
      <4>1. InSsts(levels, k) = latest[k]
        BY <1>1, <1>2, <3>1, TopRead DEF OnTop
      <4> QED BY <1>1, <2>2, <3>3, <4>1 DEF Holding
    <3> QED BY <3>2, <3>3
  <2> QED BY <1>2, <2>1, <2>2 DEF Fresh
<1>3. CASE Gone(k)
  <2>1. CASE pc = "merge" /\ \E m \in levels : readers[m][k] # NoEntry
    <3>1. PICK m \in levels : readers[m][k] = latest[k] /\ OnTop(m, k) /\ latest[k] # NoEntry
      BY <1>3, <2>1 DEF Gone
    <3>2. InSsts(levels, k) = latest[k]
      BY <1>1, <3>1, TopRead DEF OnTop
    <3> QED BY <1>1, <1>3, <2>1, <3>2 DEF Gone, Holding
  <2>2. CASE ~(pc = "merge" /\ \E m \in levels : readers[m][k] # NoEntry)
    <3>1. pc \notin {"merge", "unlink"} => doomed = {}
      BY DEF SessionInv, CoreInv, ControlInv
    <3>2. Holding(k) = NoEntry
      BY <1>1, <1>3, <2>2, <3>1 DEF Gone, Holding, InSsts
    <3> QED BY <1>3, <3>2, LiveIsEntry DEF Gone
  <2> QED BY <2>1, <2>2
<1> QED BY <1>2, <1>3 DEF PlacedInv

(* So the store and the expiry times of KVStore are those of the last       *)
(* writes.                                                                  *)
StoreLatest ==
    /\ VisibleStore = [k \in Keys |-> Visible(latest[k], now)]
    /\ VisibleExpiry = [k \in Keys |-> IF Live(latest[k], now) THEN latest[k].exp ELSE Never]

LEMMA VisibleLatest == SessionInv /\ PlacedInv => StoreLatest
<1> SUFFICES ASSUME SessionInv, PlacedInv PROVE StoreLatest
  OBVIOUS
<1>1. \A k \in Keys : /\ Live(Holding(k), now) <=> Live(latest[k], now)
                      /\ Live(latest[k], now) => Holding(k) = latest[k]
  BY HoldingLatest
<1> QED BY <1>1 DEF StoreLatest, VisibleStore, VisibleExpiry, Visible

(* The same in the next state.                                              *)
LEMMA VisibleLatestNext == SessionInv' /\ PlacedInv' => StoreLatest'
BY VisibleLatest, PTL

(* A function that changes at one argument only is the old one with that    *)
(* argument's value replaced.                                               *)
LEMMA ChangedAt ==
  ASSUME NEW S, NEW f, NEW g, NEW a \in S, NEW x,
         f = [j \in S |-> f[j]], g = [j \in S |-> g[j]],
         g[a] = x, \A j \in S \ {a} : g[j] = f[j]
  PROVE  g = [f EXCEPT ![a] = x]
<1>1. [f EXCEPT ![a] = x] = [j \in S |-> IF j = a THEN x ELSE f[j]]
  OBVIOUS
<1> QED BY <1>1

(* A write of a value is a write of the store, and of an expired value the  *)
(* removal of the key.                                                      *)
LEMMA WritesStore ==
  ASSUME TypeOK, SessionInv, PlacedInv, SessionInv', PlacedInv',
         NEW k \in Keys, NEW v \in Vals, NEW s \in Nat, NEW e \in Nat \cup {Never},
         latest' = [latest EXCEPT ![k] = Stored(v, s, e)], now' = now
  PROVE  KV!Write(k, v, e)
<1>1. /\ VisibleStore = [j \in Keys |-> Visible(latest[j], now)]
      /\ VisibleExpiry = [j \in Keys |-> IF Live(latest[j], now) THEN latest[j].exp ELSE Never]
  BY VisibleLatest DEF StoreLatest
<1>2. /\ VisibleStore' = [j \in Keys |-> Visible(latest'[j], now')]
      /\ VisibleExpiry' = [j \in Keys |-> IF Live(latest'[j], now') THEN latest'[j].exp ELSE Never]
  BY VisibleLatestNext DEF StoreLatest
<1>3. latest'[k] = Stored(v, s, e) /\ \A j \in Keys \ {k} : latest'[j] = latest[j]
  BY DEF TypeOK, Table
<1>4. Live(latest'[k], now) <=> (e = Never \/ now < e)
  BY <1>3 DEF Live, Stored
<1>5. now \in Nat /\ latest'[k].val = v /\ latest'[k].exp = e
  BY <1>3 DEF TypeOK, Stored
<1>6. \A j \in Keys \ {k} : VisibleStore'[j] = VisibleStore[j] /\ VisibleExpiry'[j] = VisibleExpiry[j]
  BY <1>1, <1>2, <1>3
<1>7. CASE e = Never \/ now < e
  <2>1. VisibleStore'[k] = v /\ VisibleExpiry'[k] = e
    BY <1>2, <1>4, <1>5, <1>7 DEF Visible
  <2>2. VisibleStore' = [VisibleStore EXCEPT ![k] = v]
    BY <1>1, <1>2, <1>6, <2>1, ChangedAt
  <2>3. VisibleExpiry' = [VisibleExpiry EXCEPT ![k] = e]
    BY <1>1, <1>2, <1>6, <2>1, ChangedAt
  <2> QED BY <1>5, <1>7, <2>2, <2>3 DEF KV!Write, KV!Never, Never
<1>8. CASE ~(e = Never \/ now < e)
  <2>1. VisibleStore'[k] = Absent /\ VisibleExpiry'[k] = Never
    BY <1>2, <1>4, <1>5, <1>8 DEF Visible
  <2>2. VisibleStore' = [VisibleStore EXCEPT ![k] = Absent]
    BY <1>1, <1>2, <1>6, <2>1, ChangedAt
  <2>3. VisibleExpiry' = [VisibleExpiry EXCEPT ![k] = Never]
    BY <1>1, <1>2, <1>6, <2>1, ChangedAt
  <2> QED BY <1>5, <1>8, <2>2, <2>3 DEF KV!Write, KV!Never, Never
<1> QED BY <1>7, <1>8

(* A write of the marker removes the key from the store.                    *)
LEMMA DeletesStore ==
  ASSUME TypeOK, SessionInv, PlacedInv, SessionInv', PlacedInv',
         NEW k \in Keys, NEW s \in Nat,
         latest' = [latest EXCEPT ![k] = Stored(Tomb, s, Never)], now' = now
  PROVE  KV!Delete(k)
<1>1. /\ VisibleStore = [j \in Keys |-> Visible(latest[j], now)]
      /\ VisibleExpiry = [j \in Keys |-> IF Live(latest[j], now) THEN latest[j].exp ELSE Never]
  BY VisibleLatest DEF StoreLatest
<1>2. /\ VisibleStore' = [j \in Keys |-> Visible(latest'[j], now')]
      /\ VisibleExpiry' = [j \in Keys |-> IF Live(latest'[j], now') THEN latest'[j].exp ELSE Never]
  BY VisibleLatestNext DEF StoreLatest
<1>3. latest'[k] = Stored(Tomb, s, Never) /\ \A j \in Keys \ {k} : latest'[j] = latest[j]
  BY DEF TypeOK, Table
<1>4. ~Live(latest'[k], now)
  BY <1>3, ValsAssumption DEF Live, Stored
<1>5. \A j \in Keys \ {k} : VisibleStore'[j] = VisibleStore[j] /\ VisibleExpiry'[j] = VisibleExpiry[j]
  BY <1>1, <1>2, <1>3
<1>6. VisibleStore'[k] = Absent /\ VisibleExpiry'[k] = Never
  BY <1>2, <1>4 DEF Visible
<1>7. VisibleStore' = [VisibleStore EXCEPT ![k] = Absent]
  BY <1>1, <1>2, <1>5, <1>6, ChangedAt
<1>8. VisibleExpiry' = [VisibleExpiry EXCEPT ![k] = Never]
  BY <1>1, <1>2, <1>5, <1>6, ChangedAt
<1> QED BY <1>7, <1>8 DEF KV!Delete, KV!Never, Never

(* A second that passes expires the same keys in the engine and the store.  *)
LEMMA TicksStore ==
  ASSUME TypeOK, SessionInv, PlacedInv, SessionInv', PlacedInv',
         UNCHANGED latest, now' = now + 1
  PROVE  KV!Tick
<1>1. /\ VisibleStore = [j \in Keys |-> Visible(latest[j], now)]
      /\ VisibleExpiry = [j \in Keys |-> IF Live(latest[j], now) THEN latest[j].exp ELSE Never]
  BY VisibleLatest DEF StoreLatest
<1>2. /\ VisibleStore' = [j \in Keys |-> Visible(latest'[j], now')]
      /\ VisibleExpiry' = [j \in Keys |-> IF Live(latest'[j], now') THEN latest'[j].exp ELSE Never]
  BY VisibleLatestNext DEF StoreLatest
<1> DEFINE gone == {k \in Keys : VisibleExpiry[k] # Never /\ VisibleExpiry[k] <= now'}
<1>3. ASSUME NEW k \in Keys
      PROVE  /\ Live(latest[k], now') <=> Live(latest[k], now) /\ k \notin gone
             /\ k \in gone => Live(latest[k], now)
  <2>1. latest[k] \in Entry /\ now \in Nat
    BY DEF TypeOK, Table
  <2>2. VisibleExpiry[k] = IF Live(latest[k], now) THEN latest[k].exp ELSE Never
    BY <1>1
  <2> QED BY <2>1, <2>2 DEF Live, Entry, Never
<1>4. VisibleStore' = [k \in Keys |-> IF k \in gone THEN Absent ELSE VisibleStore[k]]
  BY <1>1, <1>2, <1>3 DEF Visible
<1>5. VisibleExpiry' = [k \in Keys |-> IF k \in gone THEN Never ELSE VisibleExpiry[k]]
  BY <1>1, <1>2, <1>3
<1> QED BY <1>4, <1>5 DEF KV!Tick, KV!Never, Never

(* The steps that write nothing leave the store alone.                      *)
LEMMA StoreStutters ==
  ASSUME SessionInv, PlacedInv, SessionInv', PlacedInv', UNCHANGED <<latest, now>>
  PROVE  UNCHANGED KV!vars
<1>1. /\ VisibleStore = [j \in Keys |-> Visible(latest[j], now)]
      /\ VisibleExpiry = [j \in Keys |-> IF Live(latest[j], now) THEN latest[j].exp ELSE Never]
  BY VisibleLatest DEF StoreLatest
<1>2. /\ VisibleStore' = [j \in Keys |-> Visible(latest'[j], now')]
      /\ VisibleExpiry' = [j \in Keys |-> IF Live(latest'[j], now') THEN latest'[j].exp ELSE Never]
  BY VisibleLatestNext DEF StoreLatest
<1> QED BY <1>1, <1>2 DEF KV!vars

(* Every step of a session is a step of the store or leaves it alone.       *)
LEMMA StoreStep ==
  ASSUME SessionInv, PlacedInv, SessionInv', PlacedInv', SessionNext
  PROVE  [KV!Next]_(KV!vars)
<1>0. TypeOK /\ ControlInv /\ nextSeq \in Nat /\ now \in Nat
  BY DEF SessionInv, CoreInv, TypeOK
<1>1. ASSUME NEW k \in Keys, NEW v \in Vals, Put(k, v) PROVE KV!Next
  <2>1. latest' = [latest EXCEPT ![k] = Stored(v, nextSeq, Never)] /\ now' = now
    BY <1>1 DEF Put, WriteOne
  <2>2. KV!Write(k, v, Never)
    BY <1>0, <2>1, WritesStore
  <2> QED BY <2>2 DEF KV!Next, KV!Put, KV!Never, Never
<1>2. ASSUME NEW k \in Keys, Delete(k) PROVE KV!Next
  <2>1. latest' = [latest EXCEPT ![k] = Stored(Tomb, nextSeq, Never)] /\ now' = now
    BY <1>2 DEF Delete, WriteOne
  <2>2. KV!Delete(k)
    BY <1>0, <2>1, DeletesStore
  <2> QED BY <2>2 DEF KV!Next
<1>3. ASSUME NEW k \in Keys, NEW v \in Vals, NEW ttl \in TTLs, PutTtl(k, v, ttl) PROVE KV!Next
  <2>1. latest' = [latest EXCEPT ![k] = Stored(v, nextSeq, now + ttl)] /\ now' = now
    BY <1>3 DEF PutTtl, WriteOne
  <2>2. now + ttl \in Nat
    BY <1>0, InputsAssumption
  <2>3. KV!Write(k, v, now + ttl)
    BY <1>0, <2>1, <2>2, WritesStore
  <2> QED BY <2>3 DEF KV!Next, KV!PutTtl
<1>4. CASE Tick
  <2>1. KV!Tick
    BY <1>0, <1>4, TicksStore DEF Tick
  <2> QED BY <2>1 DEF KV!Next
<1>5. CASE BatchApply
  <2> DEFINE op == batch[idx]
  <2>1. op.key \in Keys /\ op.val \in Vals \cup {Tomb}
    <3>1. batch \in Seq(BatchOp) /\ idx \in 1 .. Len(batch)
      BY <1>0, <1>5, InputsAssumption DEF BatchApply, ControlInv
    <3>2. op \in BatchOp
      BY <3>1
    <3> QED BY <3>2 DEF BatchOp
  <2>2. latest' = [latest EXCEPT ![op.key] = Stored(op.val, 0, Never)] /\ now' = now
    BY <1>5 DEF BatchApply, BatchEntry
  <2> HIDE DEF op
  <2>3. CASE op.val \in Vals
    <3>1. KV!Write(op.key, op.val, Never)
      BY <1>0, <2>1, <2>2, <2>3, WritesStore
    <3> QED BY <2>1, <2>3, <3>1 DEF KV!Next, KV!Put, KV!Never, Never
  <2>4. CASE op.val = Tomb
    <3>1. KV!Delete(op.key)
      BY <1>0, <2>1, <2>2, <2>4, DeletesStore
    <3> QED BY <2>1, <3>1 DEF KV!Next
  <2> QED BY <2>1, <2>3, <2>4
<1>6. ASSUME UNCHANGED <<latest, now>> PROVE UNCHANGED KV!vars
  BY <1>6, StoreStutters
<1>7. CASE Close \/ \E b \in Batches : WriteBatch(b)
  BY <1>6, <1>7 DEF Close, WriteBatch, ghost
<1>8. CASE BatchLog \/ FlushBegin \/ FlushBuild \/ SaveBegin \/ SaveEnd \/ ResetWal
           \/ CompactSkip
  BY <1>6, <1>8 DEF BatchLog, FlushBegin, FlushBuild, SaveBegin, SaveEnd, ResetWal,
                    CompactSkip, ghost
<1>9. CASE CompactBegin \/ CompactBuild \/ Unlink \/ CompactEnd \/ CloseSave
  BY <1>6, <1>9 DEF CompactBegin, CompactBuild, Unlink, CompactEnd, CloseSave, ghost
<1> QED
  BY <1>1, <1>2, <1>3, <1>4, <1>5, <1>7, <1>8, <1>9 DEF SessionNext, Request, Internal

(* A new directory is an empty store.                                       *)
LEMMA StoreInit == Init => KV!Init
<1> SUFFICES ASSUME Init PROVE KV!Init
  OBVIOUS
<1>1. SessionInv /\ PlacedInv
  BY SessionInit, PlacedInit
<1>2. /\ VisibleStore = [j \in Keys |-> Visible(latest[j], now)]
      /\ VisibleExpiry = [j \in Keys |-> IF Live(latest[j], now) THEN latest[j].exp ELSE Never]
  BY <1>1, VisibleLatest DEF StoreLatest
<1>3. \A k \in Keys : ~Live(latest[k], now)
  BY LiveIsEntry DEF Init, EmptyTable
<1> QED BY <1>2, <1>3 DEF Init, KV!Init, KV!Never, Never, Visible

(* With at most two levels a session implements KVStore: no flush, save,    *)
(* log truncation or compaction changes what any key reads as, and each     *)
(* write changes its own key in the way the API says.                       *)
THEOREM SessionImplements == ASSUME MaxLevels <= 2 PROVE Session => ImplementsKVStore
<1>1. SessionInv /\ PlacedInv /\ SessionInv' /\ PlacedInv' /\ [SessionNext]_vars
        => [KV!Next]_(KV!vars)
  <2> SUFFICES ASSUME SessionInv, PlacedInv, SessionInv', PlacedInv', [SessionNext]_vars
               PROVE  [KV!Next]_(KV!vars)
    OBVIOUS
  <2>1. CASE SessionNext
    BY <2>1, StoreStep
  <2>2. CASE UNCHANGED vars
    <3>1. UNCHANGED KV!vars
      BY <2>2, StoreStutters DEF vars, ghost
    <3> QED BY <3>1
  <2> QED BY <2>1, <2>2
<1> QED
  BY <1>1, StoreInit, SessionInvariant, SessionPlaced, PTL
     DEF Session, ImplementsKVStore, KV!Spec
============================================================================
