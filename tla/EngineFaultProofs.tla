-------------------------- MODULE EngineFaultProofs --------------------------
(***************************************************************************)
(* Proofs about an engine of one level whose process may die at any step    *)
(* and whose flushes and closes may fail: FaultInv is inductive, the state  *)
(* is recovered exactly, and an error alone costs no data.                  *)
(***************************************************************************)
EXTENDS EngineFaultInv, EngineProofs

(* Same relates no entry to the empty one, and a live value to itself only. *)
LEMMA SameEntry ==
  ASSUME NEW e, NEW f, Same(e, f)
  PROVE  /\ e # NoEntry <=> f # NoEntry
         /\ \A t : Live(f, t) => e = f
         /\ \A t : Visible(e, t) = Visible(f, t)
  BY ValsAssumption DEF Same, NoEntry, Live, Visible

(* Kept looks at the files of S only.                                       *)
LEMMA KeptSame ==
  ASSUME NEW S, NEW F, NEW G, NEW e, NEW k,
         \A m \in S : G[m.id] = F[m.id], Kept(S, F, e, k)
  PROVE  Kept(S, G, e, k)
  BY DEF Kept, Holds, Answers

(* A file pushed on top that does not hold the key changes nothing.         *)
LEMMA KeptUnder ==
  ASSUME NEW S, NEW F, NEW G, NEW e, NEW k, NEW n,
         \A m \in S : G[m.id] = F[m.id], Kept(S, F, e, k),
         G[n.id].table[k] = NoEntry
  PROVE  Kept(S \cup {n}, G, e, k)
<1>1. Holds(S \cup {n}, G, e, k)
  BY DEF Kept, Holds
<1>2. ASSUME Answers(S, F, e, k) PROVE Answers(S \cup {n}, G, e, k)
  BY <1>2 DEF Answers
<1> QED BY <1>1, <1>2 DEF Kept

(* A file pushed on top with the last write of the key answers for it.      *)
LEMMA KeptOnTop ==
  ASSUME NEW S, NEW G, NEW e, NEW k, NEW n,
         \A m \in S : n.slot > m.slot,
         G[n.id].table[k] # NoEntry, Same(G[n.id].table[k], e)
  PROVE  Kept(S \cup {n}, G, e, k)
<1>1. e # NoEntry
  BY SameEntry
<1> QED BY <1>1 DEF Kept, Holds, Answers

----------------------------------------------------------------------------
(* A step of an engine that is open and stays so, or loses its memory, and  *)
(* that writes nothing and pushes no file: it may drop what is buffered,    *)
(* save the manifest, touch files the manifest does not name and, once the  *)
(* manifest names every file, empty the log.                                *)
QuietStep ==
    /\ pc # "down" /\ UNCHANGED <<latest, nextSlot>>
    /\ IsFiniteSet(DOMAIN files')
    /\ \A m \in levels : m.id \in DOMAIN files' /\ files'[m.id] = files[m.id]
    /\ \/ UNCHANGED diskManifest
       \/ diskManifest' = EncodedManifest
       \/ diskManifest' = [whole |-> FALSE, metas |-> {}]
    /\ \/ UNCHANGED wal
       \/ wal' = EmptyTable /\ pc = "resetwal" /\ UNCHANGED diskManifest
    /\ gap' # "gone" => gap # "gone" /\ (UNCHANGED wal \/ gap = "none")
    /\ \/ /\ pc' = "down" /\ levels' = {} /\ readers' = << >>
          /\ active' = EmptyTable /\ frozen' = EmptyTable /\ out' = EmptyTable
       \/ /\ pc' # "down" /\ UNCHANGED <<levels, readers>>
          /\ \A m \in levels : m.id < nextId'
          /\ pc' = "build" => \A m \in levels : m.id < nextId' - 1
          /\ pc' = "resetwal" => diskManifest' = EncodedManifest
          /\ \A k \in Keys : Buffered(k)' \in {Buffered(k), NoEntry}
          /\ gap' = "none" => gap = "none" /\ \A k \in Keys : Buffered(k)' = Buffered(k)

(* What a quiet step leaves of the files.                                   *)
LEMMA QuietFiles ==
  ASSUME FaultInv, QuietStep PROVE OneLevelFiles'
<1> USE DEF FaultInv, OneLevelFiles, Sound
<1>1. \A m \in levels : /\ m.level = 0 /\ m.slot < nextSlot'
                        /\ m.id \in DOMAIN files' /\ files'[m.id].whole
                        /\ files'[m.id] = files[m.id]
  BY DEF QuietStep
<1>2. diskManifest'.metas \subseteq levels
  BY DEF QuietStep, EncodedManifest
<1>3. Sound(diskManifest.metas, files, nextSlot)' /\ IsFiniteSet(DOMAIN files')
  BY <1>1, <1>2 DEF QuietStep
<1>4. CASE pc' = "down"
  <2>1. levels' = {} /\ DOMAIN readers' = {}
    BY <1>4 DEF QuietStep
  <2> QED BY <1>3, <1>4, <2>1
<1>5. CASE pc' # "down"
  <2>1. UNCHANGED <<levels, readers>>
    BY <1>5 DEF QuietStep
  <2>2. Sound(levels, files, nextSlot)'
    BY <1>1, <2>1
  <2>3. pc' = "resetwal" => diskManifest' = EncodedManifest'
    BY <1>5, <2>1 DEF QuietStep, EncodedManifest
  <2>4. pc' = "build" => \A m \in levels : m.id < nextId' - 1
    BY <1>5 DEF QuietStep
  <2>5. \A m \in levels : m.id < nextId' /\ readers[m] = files'[m.id].table
    BY <1>1, <1>5 DEF QuietStep
  <2> QED BY <1>2, <1>3, <1>5, <2>1, <2>2, <2>3, <2>4, <2>5
<1> QED BY <1>4, <1>5

(* What is buffered after the memory is gone.                               *)
LEMMA NothingBuffered ==
  ASSUME NEW k \in Keys, active = EmptyTable, frozen = EmptyTable, out = EmptyTable
  PROVE  Buffered(k) = NoEntry
  BY DEF Buffered, EmptyTable

(* A quiet step puts nothing into the log or the memtables.                 *)
LEMMA QuietLog ==
  ASSUME FaultInv, QuietStep PROVE LogInv'
<1> SUFFICES ASSUME NEW k \in Keys
             PROVE  /\ wal'[k] # NoEntry => Same(wal'[k], latest'[k])
                    /\ Buffered(k)' # NoEntry => Same(Buffered(k)', latest'[k])
  BY DEF LogInv
<1>1. wal'[k] \in {wal[k], NoEntry} /\ latest'[k] = latest[k]
  BY DEF QuietStep, EmptyTable
<1>2. Buffered(k)' \in {Buffered(k), NoEntry}
  BY DEF QuietStep, Buffered, EmptyTable
<1> QED BY <1>1, <1>2 DEF FaultInv, LogInv

(* In a state where the log may be emptied nothing is buffered, and the     *)
(* manifest on disk names every file.                                       *)
LEMMA ReadyToReset ==
  ASSUME FaultInv, pc = "resetwal", gap = "none", NEW k \in Keys
  PROVE  Kept(levels, files, latest[k], k) /\ diskManifest.metas = levels
<1>1. Buffered(k) = NoEntry
  BY NothingBuffered DEF FaultInv, OneLevelControl
<1>2. Kept(levels, files, latest[k], k)
  BY <1>1 DEF FaultInv, MemoryInv
<1>3. diskManifest.metas = levels
  BY DEF FaultInv, OneLevelFiles, EncodedManifest
<1> QED BY <1>2, <1>3

(* A key kept in whole files is among those repair would keep.              *)
LEMMA KeptIsGood ==
  ASSUME NEW S, NEW F, NEW e, NEW k, Kept(S, F, e, k),
         \A m \in S : m.id \in DOMAIN F /\ F[m.id].whole
  PROVE  \/ e = NoEntry
         \/ \E i \in {j \in DOMAIN F : F[j].whole} : Same(F[i].table[k], e)
  BY DEF Kept, Holds

(* A quiet step leaves what is not in the log in the files.                 *)
LEMMA QuietDisk ==
  ASSUME FaultInv, QuietStep PROVE DiskInv'
<1> SUFFICES ASSUME gap' # "gone", NEW k \in Keys, wal'[k] = NoEntry
             PROVE  /\ pc' # "down" => Kept(levels', files', latest'[k], k)
                    /\ diskManifest'.whole => Kept(diskManifest'.metas, files', latest'[k], k)
                    /\ pc' = "down" => \/ latest'[k] = NoEntry
                                       \/ \E i \in Good' : Same(files'[i].table[k], latest'[k])
  BY DEF DiskInv
<1>1. gap # "gone" /\ (wal' = wal \/ gap = "none") /\ latest'[k] = latest[k]
  BY DEF QuietStep
<1>2. \A m \in levels : /\ m.id \in DOMAIN files' /\ files'[m.id].whole
                        /\ files'[m.id] = files[m.id]
  BY DEF QuietStep, FaultInv, OneLevelFiles, Sound
<1>3. Kept(levels, files, latest[k], k)
      /\ (diskManifest.whole => Kept(diskManifest.metas, files, latest[k], k))
  <2>1. CASE UNCHANGED wal
    BY <1>1, <2>1 DEF QuietStep, FaultInv, DiskInv
  <2>2. CASE ~UNCHANGED wal
    <3>1. pc = "resetwal" /\ gap = "none"
      BY <1>1, <2>2 DEF QuietStep
    <3> QED BY <3>1, ReadyToReset
  <2> QED BY <2>1, <2>2
<1>4. Kept(levels, files', latest'[k], k)
  BY <1>1, <1>2, <1>3, KeptSame
<1>5. diskManifest'.whole => Kept(diskManifest'.metas, files', latest'[k], k)
  <2>1. CASE UNCHANGED diskManifest
    <3>1. diskManifest.metas \subseteq levels
      BY DEF FaultInv, OneLevelFiles, QuietStep
    <3>2. \A m \in diskManifest.metas : files'[m.id] = files[m.id]
      BY <1>2, <3>1
    <3> QED BY <1>1, <1>3, <2>1, <3>2, KeptSame
  <2>2. CASE diskManifest' = EncodedManifest
    BY <1>4, <2>2 DEF EncodedManifest
  <2>3. CASE diskManifest' = [whole |-> FALSE, metas |-> {}]
    BY <2>3
  <2> QED BY <2>1, <2>2, <2>3 DEF QuietStep
<1>6. latest'[k] = NoEntry \/ \E i \in Good' : Same(files'[i].table[k], latest'[k])
  BY <1>2, <1>4, KeptIsGood DEF Good
<1>7. pc' # "down" => levels' = levels
  BY DEF QuietStep
<1> QED BY <1>4, <1>5, <1>6, <1>7

(* A quiet step leaves what is not buffered in the files.                   *)
LEMMA QuietMemory ==
  ASSUME FaultInv, QuietStep PROVE MemoryInv'
<1> SUFFICES ASSUME gap' = "none", pc' # "down", NEW k \in Keys, Buffered(k)' = NoEntry
             PROVE  Kept(levels', files', latest'[k], k)
  BY DEF MemoryInv
<1>1. /\ gap = "none" /\ pc # "down" /\ Buffered(k)' = Buffered(k)
      /\ levels' = levels /\ latest'[k] = latest[k]
      /\ \A m \in levels : files'[m.id] = files[m.id]
  BY DEF QuietStep
<1>2. Kept(levels, files, latest[k], k)
  BY <1>1 DEF FaultInv, MemoryInv
<1> QED BY <1>1, <1>2, KeptSame

----------------------------------------------------------------------------
(* The gap after a step: what has gone stays gone, emptying the log loses   *)
(* what was only there, and only the end of the process closes a gap.       *)
LEMMA AftermathGap ==
  ASSUME OneLevelControl, Aftermath
  PROVE  /\ gap' \in {"none", "logged", "gone"}
         /\ gap' # "gone" => gap # "gone" /\ (wal' = EmptyTable => gap = "none")
         /\ gap' = "none" /\ pc' # "down" => gap = "none"
  BY DEF OneLevelControl, Aftermath

(* Outside a write at most one of the memtables and out is in use.          *)
LEMMA BufferedAs ==
  ASSUME OneLevelControl, NEW k \in Keys
  PROVE  /\ pc = "idle" => Buffered(k) = active[k]
         /\ pc = "flush" => Buffered(k) = frozen[k]
         /\ pc = "build" => Buffered(k) = out[k]
         /\ pc \notin {"idle", "flush", "build"} => Buffered(k) = NoEntry
  BY DEF OneLevelControl, Buffered, EmptyTable

(* The steps of an engine that is open, but for writes and the push of a    *)
(* new file, are quiet.                                                     *)
LEMMA QuietCases ==
  ASSUME FaultInv, pc # "down", Aftermath,
         \/ Close \/ Tick \/ FlushBegin \/ SaveBegin \/ SaveEnd \/ ResetWal
         \/ CompactEnd \/ CloseSave \/ Closed \/ Kill
  PROVE  QuietStep
<1> DEFINE Gap1 == gap' # "gone" => gap # "gone" /\ (wal' = EmptyTable => gap = "none")
           Gap2 == gap' = "none" /\ pc' # "down" => gap = "none"
<1>0. OneLevelControl /\ OneLevelFiles /\ TypeOK /\ Gap1 /\ Gap2
  BY AftermathGap DEF FaultInv
<1>1. /\ IsFiniteSet(DOMAIN files)
      /\ \A m \in levels : m.id \in DOMAIN files /\ m.id < nextId /\ m.id \in Nat
  BY <1>0 DEF OneLevelFiles, Sound, TypeOK, Meta
<1>2. pc = "build" => \A m \in levels : m.id < nextId - 1
  BY <1>0 DEF OneLevelFiles
<1>3. pc = "resetwal" => diskManifest = EncodedManifest
  BY <1>0 DEF OneLevelFiles
<1>4. CASE Close
  <2>1. \A k \in Keys : Buffered(k)' = Buffered(k)
    BY <1>0, <1>4 DEF Close, Buffered, OneLevelControl, EmptyTable
  <2> QED BY <1>0, <1>1, <1>4, <2>1 DEF QuietStep, Close, sst, disk, ghost
<1>5. CASE Tick
  <2>1. \A k \in Keys : Buffered(k)' = Buffered(k)
    BY <1>5 DEF Tick, Buffered, mem
  <2> QED BY <1>0, <1>1, <1>2, <1>3, <1>5, <2>1 DEF QuietStep, Tick, sst, disk
<1>6. CASE FlushBegin
  <2>1. \A k \in Keys : Buffered(k)' = Buffered(k)
    BY <1>0, <1>6 DEF FlushBegin, Buffered, OneLevelControl, EmptyTable
  <2>2. \A m \in levels : /\ m.id \in DOMAIN files' /\ files'[m.id] = files[m.id]
                          /\ m.id < nextId' /\ m.id < nextId' - 1
    BY <1>0, <1>1, <1>6 DEF FlushBegin, TypeOK
  <2>3. IsFiniteSet(DOMAIN files')
    BY <1>1, <1>6, FS_AddElement DEF FlushBegin
  <2> QED BY <1>0, <1>6, <2>1, <2>2, <2>3 DEF QuietStep, FlushBegin, ghost
<1>7. CASE SaveBegin
  <2>1. \A k \in Keys : Buffered(k)' = Buffered(k)
    BY <1>7 DEF SaveBegin, Buffered, mem
  <2> QED BY <1>0, <1>1, <1>7, <2>1 DEF QuietStep, SaveBegin, sst, ghost
<1>8. CASE SaveEnd
  <2>1. \A k \in Keys : Buffered(k)' = Buffered(k)
    BY <1>8 DEF SaveEnd, Buffered, mem
  <2>2. pc' \in {"resetwal", "closed"}
    BY <1>0, <1>8 DEF SaveEnd, OneLevelControl
  <2> QED BY <1>0, <1>1, <1>8, <2>1, <2>2 DEF QuietStep, SaveEnd, sst, ghost
<1>9. CASE ResetWal
  <2>1. \A k \in Keys : Buffered(k)' = Buffered(k)
    BY <1>9 DEF ResetWal, Buffered, mem
  <2> QED BY <1>0, <1>1, <1>9, <2>1 DEF QuietStep, ResetWal, sst, ghost
<1>10. CASE CompactEnd \/ CloseSave
  <2>1. \A k \in Keys : Buffered(k)' = Buffered(k)
    BY <1>10 DEF CompactEnd, CloseSave, Buffered, mem
  <2> QED BY <1>0, <1>1, <1>10, <2>1 DEF QuietStep, CompactEnd, CloseSave, sst, disk, ghost
<1>11. CASE Closed \/ Kill
  <2>1. latest' = latest
    <3>1. CASE Kill
      <4>1. latest' = [k \in Keys |-> latest[k]]
        BY <1>0, <3>1 DEF Kill, OneLevelControl
      <4> QED BY <1>0, <4>1 DEF TypeOK, Table
    <3> QED BY <1>11, <3>1 DEF Closed, ghost
  <2> QED BY <1>0, <1>1, <1>11, <2>1 DEF QuietStep, Closed, Kill, Forget, disk
<1> QED BY <1>4, <1>5, <1>6, <1>7, <1>8, <1>9, <1>10, <1>11

(* The error of a step is quiet, if what it left of the directory is.       *)
LEMMA ErrorQuiet ==
  ASSUME FaultInv, pc \notin {"down", "idle"}, ReturnsErr, ~closing => nextId' \in {nextId, nextId + 1},
         UNCHANGED <<latest, nextSlot>>, DOMAIN files' = DOMAIN files,
         \A m \in levels : m.id \in DOMAIN files' /\ files'[m.id] = files[m.id],
         UNCHANGED diskManifest \/ diskManifest' = EncodedManifest,
         \/ UNCHANGED wal
         \/ wal' = EmptyTable /\ pc = "resetwal" /\ UNCHANGED diskManifest,
         Aftermath \/ (UNCHANGED wal /\ Dropped),
         pc \in {"flush", "build"} => Dropped
  PROVE  QuietStep
<1>0. OneLevelControl /\ OneLevelFiles /\ TypeOK /\ IsFiniteSet(DOMAIN files)
  BY DEF FaultInv, OneLevelFiles
<1>1. CASE closing
  <2>1. Aftermath
    BY <1>1 DEF Dropped
  <2> QED BY <1>0, <1>1, <2>1, AftermathGap DEF QuietStep, ReturnsErr, Forget
<1>2. CASE ~closing
  <2>1. /\ pc' = "idle" /\ frozen' = EmptyTable /\ out' = EmptyTable
        /\ UNCHANGED <<active, levels, readers>>
    BY <1>2 DEF ReturnsErr
  <2>2. \A k \in Keys : Buffered(k)' = NoEntry
    BY <1>0, <2>1 DEF Buffered, OneLevelControl, EmptyTable
  <2>3. \A m \in levels : m.id < nextId'
    <3>1. \A m \in levels : m.id < nextId /\ m.id \in Nat
      BY <1>0 DEF OneLevelFiles, TypeOK, Meta
    <3> QED BY <1>0, <1>2, <3>1 DEF TypeOK
  <2>4. gap' # "gone" => gap # "gone" /\ (UNCHANGED wal \/ gap = "none")
    BY <1>0, <1>2, AftermathGap DEF Dropped
  <2>5. gap' = "none" => gap = "none" /\ \A k \in Keys : Buffered(k) = NoEntry
    <3>1. ASSUME gap' = "none" PROVE Aftermath /\ pc \notin {"flush", "build"}
      BY <1>2, <3>1 DEF Dropped
    <3> QED BY <1>0, <2>1, <3>1, AftermathGap, BufferedAs
  <2> QED BY <1>0, <2>1, <2>2, <2>3, <2>4, <2>5 DEF QuietStep
<1> QED BY <1>1, <1>2

(* The errors of a flush and of close are quiet.                            *)
LEMMA ErrorCases ==
  ASSUME FaultInv, CreateFails \/ BuildFails \/ SaveFails \/ SaveCutShort \/ ResetFails
  PROVE  QuietStep
<1>0. OneLevelControl /\ OneLevelFiles /\ TypeOK
  BY DEF FaultInv
<1>1. \A m \in levels : m.id \in DOMAIN files
  BY <1>0 DEF OneLevelFiles, Sound
<1>2. CASE CreateFails
  BY <1>1, <1>2, ErrorQuiet DEF CreateFails, disk, ghost
<1>3. CASE BuildFails
  <2>1. \A m \in levels : m.id # nextId - 1
    BY <1>0, <1>3 DEF BuildFails, OneLevelFiles, TypeOK, Meta
  <2>2. PICK left : files' = [files EXCEPT ![nextId - 1] = left]
    BY <1>3 DEF BuildFails
  <2>3. /\ DOMAIN files' = DOMAIN files
        /\ \A m \in levels : m.id \in DOMAIN files' /\ files'[m.id] = files[m.id]
    BY <1>1, <2>1, <2>2
  <2> QED BY <1>3, <2>3, ErrorQuiet DEF BuildFails, ghost
<1>4. CASE SaveFails
  BY <1>1, <1>4, ErrorQuiet DEF SaveFails, disk, ghost
<1>5. CASE SaveCutShort
  BY <1>1, <1>5, ErrorQuiet DEF SaveCutShort, ghost
<1>6. CASE ResetFails
  BY <1>1, <1>6, ErrorQuiet DEF ResetFails, ghost
<1> QED BY <1>2, <1>3, <1>4, <1>5, <1>6

----------------------------------------------------------------------------
(* A write: the log and the memtable take the new value, everything else    *)
(* stays where it is.                                                       *)
LEMMA WriteKeeps ==
  ASSUME FaultInv, NEW k \in Keys, NEW e \in Entry \ {NoEntry}, NEW l \in Entry, Same(l, e),
         WriteOne(k, e, l), Aftermath
  PROVE  OneLevelFiles' /\ LogInv' /\ DiskInv' /\ MemoryInv'
<1>0. OneLevelControl /\ OneLevelFiles /\ TypeOK /\ LogInv /\ DiskInv /\ MemoryInv
  BY DEF FaultInv
<1>1. /\ pc = "idle" /\ pc' \in {"flush", "idle"}
      /\ wal' = [wal EXCEPT ![k] = l] /\ latest' = [latest EXCEPT ![k] = e]
      /\ UNCHANGED <<levels, readers, nextId, nextSlot, files, diskManifest>>
  BY DEF WriteOne, Logged, ThenMaybeFlush, sst
<1>2. /\ wal'[k] = l /\ latest'[k] = e /\ Buffered(k)' = e /\ l # NoEntry
  <2>1. l # NoEntry
    BY SameEntry
  <2>2. Buffered(k)' = e
    BY <1>0 DEF WriteOne, MemPut, Buffered, TypeOK, Table, EmptyTable
  <2> QED BY <1>0, <1>1, <2>1, <2>2 DEF TypeOK, Table
<1>3. ASSUME NEW o \in Keys \ {k}
      PROVE  wal'[o] = wal[o] /\ latest'[o] = latest[o] /\ Buffered(o)' = Buffered(o)
  <2>1. Buffered(o)' = Buffered(o)
    BY <1>0, <1>1 DEF WriteOne, MemPut, Buffered, TypeOK, Table, EmptyTable, OneLevelControl
  <2> QED BY <1>0, <1>1, <2>1 DEF TypeOK, Table
<1>4. (gap' # "gone" => gap # "gone") /\ (gap' = "none" => gap = "none")
  BY <1>0, <1>1, AftermathGap
<1>5. OneLevelFiles'
  BY <1>0, <1>1 DEF OneLevelFiles, Sound
<1>6. LogInv'
  BY <1>0, <1>2, <1>3 DEF LogInv, Same
<1>7. DiskInv'
  <2> SUFFICES ASSUME gap' # "gone", NEW o \in Keys, wal'[o] = NoEntry
               PROVE  /\ Kept(levels, files, latest'[o], o)
                      /\ diskManifest.whole => Kept(diskManifest.metas, files, latest'[o], o)
    BY <1>1 DEF DiskInv
  <2>1. o # k
    BY <1>2
  <2> QED BY <1>0, <1>1, <1>3, <1>4, <2>1 DEF DiskInv
<1>8. MemoryInv'
  <2> SUFFICES ASSUME gap' = "none", NEW o \in Keys, Buffered(o)' = NoEntry
               PROVE  Kept(levels, files, latest'[o], o)
    BY <1>1 DEF MemoryInv
  <2>1. o # k
    BY <1>2
  <2> QED BY <1>0, <1>1, <1>3, <1>4, <2>1 DEF MemoryInv
<1> QED BY <1>5, <1>6, <1>7, <1>8

(* The push of the flushed file: it has the last write of every key it      *)
(* holds, and stands in front of the others.                                *)
LEMMA PushKeeps ==
  ASSUME FaultInv, FlushBuild, Aftermath
  PROVE  OneLevelFiles' /\ LogInv' /\ DiskInv' /\ MemoryInv'
<1>0. OneLevelControl /\ OneLevelFiles /\ TypeOK /\ LogInv /\ DiskInv /\ MemoryInv
  BY DEF FaultInv
<1>1. /\ pc = "build" /\ pc' = "save" /\ AddSst(0)
      /\ UNCHANGED <<active, frozen, nextId, diskManifest, wal, latest>>
  BY DEF FlushBuild, ghost
<1>2. PICK lo \in Keys, hi \in Keys :
        LET id == nextId - 1
            m == [id |-> id, level |-> 0, slot |-> nextSlot, lo |-> lo, hi |-> hi]
        IN  /\ files' = [i \in DOMAIN files \cup {id} |->
                            IF i = id THEN WholeFile(out) ELSE files[i]]
            /\ levels' = levels \cup {m}
            /\ readers' = [r \in DOMAIN readers \cup {m} |->
                              IF r = m THEN out ELSE readers[r]]
            /\ nextSlot' = nextSlot + 1
            /\ out' = EmptyTable
  BY <1>1 DEF AddSst
<1> DEFINE n == [id |-> nextId - 1, level |-> 0, slot |-> nextSlot, lo |-> lo, hi |-> hi]
<1>3. /\ n.id = nextId - 1 /\ n.level = 0 /\ n.slot = nextSlot /\ n.id \in Nat
      /\ levels' = levels \cup {n} /\ nextSlot' = nextSlot + 1 /\ out' = EmptyTable
  BY <1>0, <1>2 DEF TypeOK
<1>4. \A m \in levels : /\ m.level = 0 /\ m.slot < nextSlot /\ m.slot \in Nat
                        /\ m.id < nextId - 1 /\ m.id # n.id /\ m # n
  BY <1>0, <1>1, <1>3 DEF OneLevelFiles, Sound, TypeOK, Meta
<1>5. /\ n.id \in DOMAIN files' /\ files'[n.id].whole /\ files'[n.id].table = out
      /\ readers'[n] = out /\ DOMAIN readers' = levels'
  BY <1>0, <1>2, <1>3 DEF WholeFile, OneLevelFiles
<1>6. \A m \in levels : /\ m.id \in DOMAIN files' /\ files'[m.id] = files[m.id]
                        /\ readers'[m] = readers[m]
  BY <1>0, <1>2, <1>4 DEF OneLevelFiles, Sound
<1> HIDE DEF n
<1>7. OneLevelFiles'
  <2>1. diskManifest.metas \subseteq levels
    BY <1>0, <1>1 DEF OneLevelFiles
  <2>2. Sound(levels, files, nextSlot)'
    BY <1>0, <1>3, <1>4, <1>5, <1>6 DEF OneLevelFiles, Sound, TypeOK
  <2>3. Sound(diskManifest.metas, files, nextSlot)'
    BY <1>1, <1>3, <2>1, <2>2 DEF Sound
  <2>4. \A m \in levels' : m.id < nextId' /\ readers'[m] = files'[m.id].table
    BY <1>0, <1>1, <1>3, <1>5, <1>6 DEF OneLevelFiles, TypeOK
  <2>5. IsFiniteSet(DOMAIN files')
    BY <1>0, <1>2, FS_AddElement DEF OneLevelFiles
  <2> QED BY <1>1, <1>3, <1>5, <2>1, <2>2, <2>3, <2>4, <2>5 DEF OneLevelFiles
<1>8. \A k \in Keys : Buffered(k) = out[k] /\ Buffered(k)' = NoEntry
  BY <1>0, <1>1, <1>3 DEF Buffered, OneLevelControl, EmptyTable
<1>9. LogInv'
  BY <1>0, <1>1, <1>8 DEF LogInv
<1>10. (gap' # "gone" => gap # "gone") /\ (gap' = "none" => gap = "none")
  BY <1>0, <1>1, AftermathGap
<1>11. ASSUME NEW k \in Keys, out[k] # NoEntry \/ Kept(levels, files, latest[k], k)
       PROVE  Kept(levels', files', latest'[k], k)
  <2>1. CASE out[k] # NoEntry
    <3>1. Same(out[k], latest[k])
      BY <1>0, <1>8, <2>1 DEF LogInv
    <3>2. \A m \in levels : n.slot > m.slot
      BY <1>0, <1>3, <1>4 DEF TypeOK
    <3>3. Kept(levels \cup {n}, files', latest[k], k)
      BY <1>5, <2>1, <3>1, <3>2, KeptOnTop
    <3> QED BY <1>1, <1>3, <3>3
  <2>2. CASE out[k] = NoEntry
    <3>1. Kept(levels \cup {n}, files', latest[k], k)
      BY <1>5, <1>6, <1>11, <2>2, KeptUnder
    <3> QED BY <1>1, <1>3, <3>1
  <2> QED BY <2>1, <2>2
<1>12. DiskInv'
  <2> SUFFICES ASSUME gap' # "gone", NEW k \in Keys, wal[k] = NoEntry
               PROVE  /\ Kept(levels', files', latest'[k], k)
                      /\ diskManifest.whole => Kept(diskManifest.metas, files', latest'[k], k)
    BY <1>1 DEF DiskInv
  <2>1. /\ Kept(levels, files, latest[k], k)
        /\ diskManifest.whole => Kept(diskManifest.metas, files, latest[k], k)
    BY <1>0, <1>1, <1>10 DEF DiskInv
  <2>2. \A m \in diskManifest.metas : files'[m.id] = files[m.id]
    BY <1>0, <1>1, <1>6 DEF OneLevelFiles
  <2> QED BY <1>1, <1>11, <2>1, <2>2, KeptSame
<1>13. MemoryInv'
  <2> SUFFICES ASSUME gap' = "none", NEW k \in Keys
               PROVE  Kept(levels', files', latest'[k], k)
    BY DEF MemoryInv
  <2>1. out[k] # NoEntry \/ Kept(levels, files, latest[k], k)
    BY <1>0, <1>1, <1>8, <1>10 DEF MemoryInv
  <2> QED BY <1>11, <2>1
<1> QED BY <1>7, <1>9, <1>12, <1>13

----------------------------------------------------------------------------
(* open: the readers are the files of the manifest, the memtable is the log. *)
LEMMA OpenKeeps ==
  ASSUME FaultInv, Open, Aftermath
  PROVE  TypeOK' /\ OneLevelFiles' /\ LogInv' /\ DiskInv' /\ MemoryInv'
<1> DEFINE M == diskManifest.metas
<1>0. OneLevelControl /\ OneLevelFiles /\ TypeOK /\ LogInv /\ DiskInv
  BY DEF FaultInv
<1>1. /\ pc = "down" /\ pc' = "idle" /\ levels' = M
      /\ readers' = [m \in Present |-> files[m.id].table]
      /\ \A m \in Present : m.id < nextId'
      /\ nextId' \in 1 .. MaxIds + 1
      /\ active' = wal /\ opens' = opens + 1 /\ base' = nextSlot
      /\ UNCHANGED <<frozen, out, nextSlot, files, diskManifest, wal, ret, cursor, doomed,
                     batch, idx, closing, nextSeq, now, latest>>
  BY DEF Open, Replayed, disk, ctl
<1>2. Present = M /\ DOMAIN readers' = M /\ \A m \in M : readers'[m] = files[m.id].table
  BY <1>0, <1>1 DEF OneLevelFiles, Sound, Present
<1>3. frozen = EmptyTable /\ out = EmptyTable
  BY <1>0, <1>1 DEF OneLevelControl
<1>4. TypeOK'
  <2>1. \A m \in M : readers'[m] \in Table
    BY <1>0, <1>2 DEF OneLevelFiles, Sound, TypeOK, SstFile
  <2>2. nextId' \in Nat \ {0}
    BY <1>1, BoundsAssumption
  <2>3. active' \in Table /\ wal' \in Table /\ frozen' \in Table /\ out' \in Table
    BY <1>0, <1>1 DEF TypeOK
  <2>4. levels' \subseteq Meta /\ IsFiniteSet(levels') /\ DOMAIN readers' \subseteq levels'
    BY <1>0, <1>1, <1>2 DEF TypeOK
  <2>5. pc' \in Steps
    BY <1>1 DEF Steps
  <2>6. \A m \in DOMAIN readers' : readers'[m] \in Table
    BY <1>2, <2>1
  <2> HIDE DEF M
  <2> QED BY <1>0, <1>1, <2>2, <2>3, <2>4, <2>5, <2>6 DEF TypeOK
<1>5. OneLevelFiles'
  BY <1>0, <1>1, <1>2 DEF OneLevelFiles, Sound
<1>6. \A k \in Keys : Buffered(k)' = wal[k]
  BY <1>1, <1>3 DEF Buffered, EmptyTable
<1>7. LogInv'
  BY <1>0, <1>1, <1>6 DEF LogInv
<1>8. gap' # "gone" => \A k \in Keys : wal[k] = NoEntry => Kept(M, files, latest[k], k)
  <2>1. diskManifest.whole
    BY DEF Open, Openable, ManifestDecodes
  <2> QED BY <1>0, <1>1, <2>1, AftermathGap DEF DiskInv
<1>9. DiskInv'
  BY <1>1, <1>8 DEF DiskInv
<1>10. MemoryInv'
  BY <1>1, <1>6, <1>8 DEF MemoryInv
<1> QED BY <1>4, <1>5, <1>7, <1>9, <1>10

(* repair: every file that opens is put in the manifest, so what the files  *)
(* hold stays held, although their order is lost.                           *)
LEMMA RepairKeeps ==
  ASSUME FaultInv, Repair, Aftermath, wal = EmptyTable
  PROVE  TypeOK' /\ OneLevelFiles' /\ LogInv' /\ DiskInv' /\ MemoryInv'
<1> DEFINE n == Cardinality(Good)
<1>0. OneLevelControl /\ OneLevelFiles /\ TypeOK /\ LogInv /\ DiskInv
  BY DEF FaultInv
<1>1. /\ pc = "down" /\ nextSlot' = n + 1 /\ files' = [i \in Good |-> files[i]]
      /\ wal' = EmptyTable
      /\ UNCHANGED <<active, frozen, out, levels, readers, nextId, base, pc, ret, cursor,
                     doomed, batch, idx, closing, nextSeq, now, latest, opens>>
  BY DEF Repair, mem, ctl, ghost
<1>2. PICK pos \in [Good -> 1 .. n] :
        /\ \A i, j \in Good : pos[i] = pos[j] => i = j
        /\ diskManifest' = [whole |-> TRUE,
                            metas |-> {[id |-> i, level |-> 0, slot |-> pos[i],
                                        lo |-> EmptyKey, hi |-> EmptyKey] : i \in Good}]
  BY DEF Repair
<1> DEFINE f == [i \in Good |-> [id |-> i, level |-> 0, slot |-> pos[i],
                                 lo |-> EmptyKey, hi |-> EmptyKey]]
           M == diskManifest'.metas
<1>3. Good \subseteq DOMAIN files /\ IsFiniteSet(Good) /\ n \in Nat /\ Good \subseteq Nat
  <2>1. Good \in SUBSET (DOMAIN files)
    BY DEF Good
  <2>2. IsFiniteSet(Good)
    BY <1>0, <2>1, FS_Subset DEF OneLevelFiles
  <2> QED BY <1>0, <2>1, <2>2, FS_CardinalityType DEF TypeOK
<1>4. M = {f[i] : i \in Good} /\ diskManifest'.whole
  BY <1>2
<1>5. \A i \in Good : /\ f[i].id = i /\ f[i].level = 0 /\ f[i].slot = pos[i]
                      /\ f[i].lo = EmptyKey /\ f[i] \in Meta
                      /\ pos[i] \in Nat /\ pos[i] < n + 1
  BY <1>2, <1>3 DEF Meta, EmptyKey
<1>6. IsFiniteSet(M)
  <2>1. f \in Surjection(Good, M)
    BY <1>4 DEF Surjection
  <2> QED BY <1>3, <2>1, FS_Surjection
<1>7. Good' = Good /\ \A i \in Good : files'[i] = files[i] /\ files[i].whole
  BY <1>1 DEF Good
<1> HIDE DEF f, n
<1>8. TypeOK'
  <2>1. M \subseteq Meta
    BY <1>4, <1>5
  <2>2. DOMAIN files' \subseteq Nat /\ \A i \in DOMAIN files' : files'[i] \in SstFile
    BY <1>0, <1>1, <1>3 DEF TypeOK
  <2> QED BY <1>0, <1>1, <1>3, <1>4, <1>6, <2>1, <2>2, EmptyTyped DEF TypeOK
<1>9. OneLevelFiles'
  <2>1. Sound(diskManifest.metas, files, nextSlot)'
    BY <1>1, <1>2, <1>4, <1>5, <1>7 DEF Sound
  <2>2. levels' = {} /\ DOMAIN readers' = {} /\ pc' = "down"
    BY <1>0, <1>1 DEF OneLevelControl, OneLevelFiles
  <2>3. IsFiniteSet(DOMAIN files')
    BY <1>1, <1>3
  <2> QED BY <2>1, <2>2, <2>3 DEF OneLevelFiles, Sound
<1>10. LogInv'
  BY <1>0, <1>1 DEF LogInv, Buffered, EmptyTable
<1>11. DiskInv'
  <2> SUFFICES ASSUME gap' # "gone", NEW k \in Keys
               PROVE  /\ Kept(M, files', latest[k], k)
                      /\ \/ latest[k] = NoEntry
                         \/ \E i \in Good : Same(files'[i].table[k], latest[k])
    BY <1>1, <1>7 DEF DiskInv
  <2>1. latest[k] = NoEntry \/ \E i \in Good : Same(files[i].table[k], latest[k])
    BY <1>0, <1>1, AftermathGap DEF DiskInv, EmptyTable
  <2>2. Holds(M, files', latest[k], k)
    BY <1>4, <1>5, <1>7, <2>1 DEF Holds
  <2>3. Answers(M, files', latest[k], k) \/ \E m \in M : m.lo = EmptyKey
    <3>1. CASE Good = {}
      BY <1>4, <2>1, <3>1 DEF Answers
    <3>2. CASE Good # {}
      BY <1>4, <1>5, <3>2
    <3> QED BY <3>1, <3>2
  <2> QED BY <1>7, <2>1, <2>2, <2>3 DEF Kept
<1>12. MemoryInv'
  BY <1>1 DEF MemoryInv
<1> QED BY <1>8, <1>9, <1>10, <1>11, <1>12

(* Nothing changes while no process has the directory open.                 *)
LEMMA DownKeeps ==
  ASSUME FaultInv, pc = "down", Tick \/ OpenFails, Aftermath
  PROVE  TypeOK' /\ OneLevelFiles' /\ LogInv' /\ DiskInv' /\ MemoryInv'
<1>0. OneLevelControl /\ OneLevelFiles /\ TypeOK /\ LogInv /\ DiskInv
  BY DEF FaultInv
<1>1. /\ now' \in {now, now + 1}
      /\ UNCHANGED <<active, frozen, out, levels, readers, nextId, nextSlot, base, files,
                     diskManifest, wal, pc, ret, cursor, doomed, batch, idx, closing,
                     nextSeq, latest, opens>>
  BY DEF Tick, OpenFails, vars, mem, sst, disk, ctl, ghost
<1>2. TypeOK'
  BY <1>0, <1>1 DEF TypeOK
<1>3. OneLevelFiles' /\ LogInv' /\ MemoryInv'
  BY <1>0, <1>1 DEF OneLevelFiles, Sound, EncodedManifest, LogInv, Buffered, MemoryInv
<1>4. DiskInv'
  BY <1>0, <1>1, AftermathGap DEF DiskInv, Good
<1> QED BY <1>2, <1>3, <1>4

----------------------------------------------------------------------------
(* What a session may do on one level without batches.  A delete is logged  *)
(* as the bare marker, everything else as it goes into the memtable.        *)
LEMMA OneLevelCases ==
  ASSUME MaxLevels = 1, Batches = {}, TypeOK, OneLevelControl, SessionNext
  PROVE  \/ \E k \in Keys, e \in Entry \ {NoEntry}, l \in Entry :
               Same(l, e) /\ WriteOne(k, e, l)
         \/ Close \/ Tick \/ FlushBegin \/ FlushBuild \/ SaveBegin \/ SaveEnd \/ ResetWal
         \/ CompactEnd \/ CloseSave
<1>1. ASSUME NEW k \in Keys, NEW v \in Vals, Put(k, v)
      PROVE  \E e \in Entry \ {NoEntry}, l \in Entry : Same(l, e) /\ WriteOne(k, e, l)
  <2>1. Stored(v, nextSeq, Never) \in Entry \ {NoEntry}
    BY ValsAssumption DEF Stored, Entry, NoEntry, TypeOK, Never
  <2> QED BY <1>1, <2>1 DEF Put, Same
<1>2. ASSUME NEW k \in Keys, Delete(k)
      PROVE  \E e \in Entry \ {NoEntry}, l \in Entry : Same(l, e) /\ WriteOne(k, e, l)
  <2>1. /\ Stored(Tomb, nextSeq, Never) \in Entry \ {NoEntry}
        /\ Stored(Tomb, 0, Never) \in Entry
        /\ Same(Stored(Tomb, 0, Never), Stored(Tomb, nextSeq, Never))
    BY ValsAssumption DEF Stored, Entry, NoEntry, TypeOK, Never, Same
  <2> QED BY <1>2, <2>1 DEF Delete
<1>3. ASSUME NEW k \in Keys, NEW v \in Vals, NEW ttl \in TTLs, PutTtl(k, v, ttl)
      PROVE  \E e \in Entry \ {NoEntry}, l \in Entry : Same(l, e) /\ WriteOne(k, e, l)
  <2>1. Stored(v, nextSeq, now + ttl) \in Entry \ {NoEntry}
    BY InputsAssumption, ValsAssumption DEF Stored, Entry, NoEntry, TypeOK
  <2> QED BY <1>3, <2>1 DEF PutTtl, Same
<1>4. ~CompactSkip /\ ~CompactBegin
  BY DEF CompactSkip, CompactBegin, LastLevel, TypeOK
<1>5. ~BatchLog /\ ~BatchApply /\ ~CompactBuild /\ ~Unlink
  BY DEF BatchLog, BatchApply, CompactBuild, Unlink, OneLevelControl
<1>6. CASE Request
  BY <1>1, <1>2, <1>3, <1>6 DEF Request
<1>7. CASE Internal \/ Tick
  BY <1>4, <1>5, <1>7 DEF Internal
<1> QED BY <1>6, <1>7 DEF SessionNext

(* The control state of one level is one of a session.                      *)
LEMMA OneLevelIsControl ==
  ASSUME OneLevelControl, pc # "down" PROVE ControlInv
  BY DEF OneLevelControl, ControlInv

(* The manifest on disk is typed after a save as before it.                 *)
LEMMA ManifestTyped ==
  ASSUME TypeOK, UNCHANGED diskManifest \/ diskManifest' = EncodedManifest
  PROVE  /\ diskManifest'.whole \in BOOLEAN /\ diskManifest'.metas \subseteq Meta
         /\ IsFiniteSet(diskManifest'.metas)
<1>1. CASE UNCHANGED diskManifest
  BY <1>1 DEF TypeOK
<1>2. CASE diskManifest' = EncodedManifest
  BY <1>2 DEF TypeOK, EncodedManifest
<1> QED BY <1>1, <1>2

(* Forget leaves the state typed, whatever happened to the directory.       *)
LEMMA ForgetTyped ==
  ASSUME TypeOK, Forget, UNCHANGED <<nextSlot, base, now, latest, opens>>,
         DOMAIN files' \subseteq Nat, \A i \in DOMAIN files' : files'[i] \in SstFile,
         UNCHANGED diskManifest \/ diskManifest' = EncodedManifest, wal' \in Table
  PROVE  TypeOK'
<1>1. DOMAIN readers' = {} /\ levels' = {} /\ IsFiniteSet(levels')
  BY FS_EmptySet DEF Forget
<1>2. pc' \in Steps /\ ret' \in Steps /\ closing' \in BOOLEAN
  BY DEF Forget, Steps
<1>3. active' \in Table /\ frozen' \in Table /\ out' \in Table /\ latest' \in Table
  BY EmptyTyped DEF Forget, TypeOK
<1>4. /\ cursor' \in Nat /\ cursor' < MaxLevels /\ doomed' \subseteq Meta
      /\ batch' \in Batches \cup {<< >>} /\ idx' \in Nat
      /\ nextId' \in Nat \ {0} /\ nextSeq' \in Nat
  BY SizesAssumption DEF Forget
<1>5. /\ diskManifest'.whole \in BOOLEAN /\ diskManifest'.metas \subseteq Meta
      /\ IsFiniteSet(diskManifest'.metas)
  BY ManifestTyped
<1>6. nextSlot' \in Nat /\ base' \in Nat /\ now' \in Nat /\ opens' \in Nat
  BY DEF TypeOK
<1> QED BY <1>1, <1>2, <1>3, <1>4, <1>5, <1>6 DEF TypeOK

(* An error leaves the state typed.                                         *)
LEMMA ErrorTyped ==
  ASSUME TypeOK, ReturnsErr, UNCHANGED <<nextSlot, base, now, latest, opens>>,
         ~closing => nextId' \in {nextId, nextId + 1},
         DOMAIN files' \subseteq Nat, \A i \in DOMAIN files' : files'[i] \in SstFile,
         UNCHANGED diskManifest \/ diskManifest' = EncodedManifest, wal' \in Table
  PROVE  TypeOK'
<1>1. CASE closing
  BY <1>1, ForgetTyped DEF ReturnsErr
<1>2. CASE ~closing
  <2>1. /\ pc' = "idle" /\ frozen' = EmptyTable /\ out' = EmptyTable
        /\ UNCHANGED <<active, levels, readers, ret, cursor, doomed, batch, idx, closing,
                       nextSeq>>
    BY <1>2 DEF ReturnsErr, ctl
  <2>2. pc' \in Steps /\ frozen' \in Table /\ out' \in Table
    BY <2>1, EmptyTyped DEF Steps
  <2>3. /\ diskManifest'.whole \in BOOLEAN /\ diskManifest'.metas \subseteq Meta
        /\ IsFiniteSet(diskManifest'.metas)
    BY ManifestTyped
  <2>4. nextId' \in Nat \ {0}
    BY <1>2 DEF TypeOK
  <2> QED BY <2>1, <2>2, <2>3, <2>4 DEF TypeOK
<1> QED BY <1>1, <1>2

(* The five errors leave the state typed.                                   *)
LEMMA ErrorsTyped ==
  ASSUME TypeOK, CreateFails \/ BuildFails \/ SaveFails \/ SaveCutShort \/ ResetFails
  PROVE  TypeOK'
<1>0. /\ DOMAIN files \subseteq Nat /\ wal \in Table /\ EmptyTable \in Table
      /\ \A i \in DOMAIN files : files[i] \in SstFile
  BY EmptyTyped DEF TypeOK
<1>1. CASE CreateFails
  BY <1>0, <1>1, ErrorTyped DEF CreateFails, disk, ghost
<1>2. CASE BuildFails
  <2>1. TornFile \in SstFile /\ WholeFile(out) \in SstFile
    BY EmptyTyped DEF TornFile, WholeFile, SstFile, TypeOK
  <2>2. DOMAIN files' \subseteq Nat /\ \A i \in DOMAIN files' : files'[i] \in SstFile
    BY <1>0, <1>2, <2>1 DEF BuildFails
  <2> QED BY <1>0, <1>2, <2>2, ErrorTyped DEF BuildFails, ghost
<1>3. CASE SaveFails
  BY <1>0, <1>3, ErrorTyped DEF SaveFails, disk, ghost
<1>4. CASE SaveCutShort
  BY <1>0, <1>4, ErrorTyped DEF SaveCutShort, ghost
<1>5. CASE ResetFails
  BY <1>0, <1>5, ErrorTyped DEF ResetFails, ghost
<1> QED BY <1>1, <1>2, <1>3, <1>4, <1>5

(* OneLevelControl is preserved by every step.                              *)
LEMMA OneLevelControlStep ==
  ASSUME MaxLevels = 1, Batches = {}, TypeOK, OneLevelControl, FaultNext
  PROVE  OneLevelControl'
<1>1. CASE MaintainedNext /\ Aftermath
  <2>0. gap' \in {"none", "logged", "gone"}
    BY <1>1, AftermathGap
  <2>1. ASSUME NEW k \in Keys, NEW e \in Entry, NEW l \in Entry, WriteOne(k, e, l)
        PROVE  OneLevelControl'
    <3>1. /\ pc' = IF frozen' # EmptyTable THEN "flush" ELSE "idle"
          /\ out' = EmptyTable /\ doomed' = {}
          /\ frozen' = EmptyTable \/ active' = EmptyTable
      BY <2>1 DEF WriteOne, ThenMaybeFlush, MemPut, OneLevelControl, ctl
    <3> QED BY <2>0, <3>1 DEF OneLevelControl
  <2>2. CASE Close
    BY <2>0, <2>2 DEF Close, OneLevelControl
  <2>3. CASE Tick
    BY <2>0, <2>3 DEF Tick, OneLevelControl, mem, sst, ctl
  <2>4. CASE FlushBegin
    BY <2>0, <2>4 DEF FlushBegin, OneLevelControl, ctl
  <2>5. CASE FlushBuild
    BY <2>0, <2>5 DEF FlushBuild, AddSst, OneLevelControl
  <2>6. CASE SaveBegin
    BY <2>0, <2>6 DEF SaveBegin, OneLevelControl, mem, ctl
  <2>7. CASE SaveEnd
    BY <2>0, <2>7 DEF SaveEnd, OneLevelControl, mem, ctl
  <2>8. CASE ResetWal
    BY <2>0, <2>8 DEF ResetWal, OneLevelControl, mem
  <2>9. CASE CompactEnd
    BY <2>0, <2>9 DEF CompactEnd, OneLevelControl, mem, ctl
  <2>10. CASE CloseSave
    BY <2>0, <2>10 DEF CloseSave, OneLevelControl, mem
  <2>11. CASE Closed \/ Kill
    BY <2>0, <2>11 DEF Closed, Kill, Forget, OneLevelControl
  <2>12. CASE Open
    BY <2>0, <2>12 DEF Open, OneLevelControl, ctl
  <2>13. CASE OpenFails
    BY <2>0, <2>13 DEF OpenFails, OneLevelControl, vars, mem, sst, ctl
  <2>14. CASE Repair
    BY <2>0, <2>14 DEF Repair, OneLevelControl, mem, ctl
  <2> QED
    BY <1>1, <2>1, <2>2, <2>3, <2>4, <2>5, <2>6, <2>7, <2>8, <2>9, <2>10, <2>11, <2>12,
       <2>13, <2>14, OneLevelCases DEF MaintainedNext, CrashNext, RestartNext
<1>2. CASE CreateFails \/ BuildFails \/ SaveFails \/ SaveCutShort \/ ResetFails
  <2>1. pc \notin {"idle", "down"} /\ ReturnsErr /\ (Dropped \/ Aftermath)
    BY <1>2 DEF CreateFails, BuildFails, SaveFails, SaveCutShort, ResetFails
  <2>2. gap' \in {"none", "logged", "gone"}
    BY <2>1, AftermathGap DEF Dropped
  <2>3. active = EmptyTable /\ doomed = {}
    BY <2>1 DEF OneLevelControl
  <2> QED BY <2>1, <2>2, <2>3 DEF ReturnsErr, Forget, OneLevelControl, ctl
<1> QED BY <1>1, <1>2 DEF FaultNext

(* FaultInv is preserved by every step.                                     *)
LEMMA FaultStep ==
  ASSUME MaxLevels = 1, Batches = {}, FaultInv, FaultNext PROVE FaultInv'
<1>0. TypeOK /\ OneLevelControl
  BY DEF FaultInv
<1>1. OneLevelControl'
  BY <1>0, OneLevelControlStep
<1>2. ASSUME QuietStep PROVE OneLevelFiles' /\ LogInv' /\ DiskInv' /\ MemoryInv'
  BY <1>2, QuietFiles, QuietLog, QuietDisk, QuietMemory
<1>3. CASE CreateFails \/ BuildFails \/ SaveFails \/ SaveCutShort \/ ResetFails
  <2>1. TypeOK'
    BY <1>0, <1>3, ErrorsTyped
  <2>2. QuietStep
    BY <1>3, ErrorCases
  <2> QED BY <1>1, <1>2, <2>1, <2>2 DEF FaultInv
<1>4. CASE MaintainedNext /\ Aftermath
  <2>1. CASE SessionNext /\ pc # "down"
    <3>1. TypeOK'
      BY <1>0, <2>1, OneLevelIsControl, TypeStep
    <3>2. ASSUME NEW k \in Keys, NEW e \in Entry \ {NoEntry}, NEW l \in Entry, Same(l, e),
                 WriteOne(k, e, l)
          PROVE  OneLevelFiles' /\ LogInv' /\ DiskInv' /\ MemoryInv'
      BY <1>4, <3>2, WriteKeeps
    <3>3. CASE FlushBuild
      BY <1>1, <1>4, <3>1, <3>3, PushKeeps DEF FaultInv
    <3>4. CASE Close \/ Tick \/ FlushBegin \/ SaveBegin \/ SaveEnd \/ ResetWal
               \/ CompactEnd \/ CloseSave
      <4>1. QuietStep
        BY <1>4, <2>1, <3>4, QuietCases
      <4> QED BY <1>1, <1>2, <3>1, <4>1 DEF FaultInv
    <3> QED BY <1>0, <1>1, <2>1, <3>1, <3>2, <3>3, <3>4, OneLevelCases DEF FaultInv
  <2>2. CASE SessionNext /\ pc = "down"
    <3>1. Tick
      BY <1>0, <2>2, OneLevelCases DEF WriteOne, Close, FlushBegin, FlushBuild, SaveBegin,
             SaveEnd, ResetWal, CompactEnd, CloseSave
    <3> QED BY <1>1, <1>4, <2>2, <3>1, DownKeeps DEF FaultInv
  <2>3. CASE Closed \/ Kill
    <3>1. QuietStep
      BY <1>4, <2>3, QuietCases DEF Closed, Kill
    <3>2. TypeOK'
      <4>1. Forget /\ UNCHANGED <<nextSlot, base, files, diskManifest, wal, now, opens>>
        BY <2>3 DEF Closed, Kill, disk, ghost
      <4>2. latest' = latest
        BY <3>1 DEF QuietStep
      <4>3. /\ DOMAIN files' \subseteq Nat /\ wal' \in Table
            /\ \A i \in DOMAIN files' : files'[i] \in SstFile
        BY <1>0, <4>1 DEF TypeOK
      <4> QED BY <1>0, <4>1, <4>2, <4>3, ForgetTyped
    <3> QED BY <1>1, <1>2, <3>1, <3>2 DEF FaultInv
  <2>4. CASE Open
    BY <1>1, <1>4, <2>4, OpenKeeps DEF FaultInv
  <2>5. CASE OpenFails
    BY <1>1, <1>4, <2>5, DownKeeps DEF FaultInv, OpenFails
  <2>6. CASE wal = EmptyTable /\ Repair
    BY <1>1, <1>4, <2>6, RepairKeeps DEF FaultInv
  <2> QED
    BY <1>4, <2>1, <2>2, <2>3, <2>4, <2>5, <2>6 DEF MaintainedNext, CrashNext, RestartNext
<1> QED BY <1>3, <1>4 DEF FaultNext

(* A new directory satisfies FaultInv.                                      *)
LEMMA FaultInitial == FaultInit => FaultInv
<1> SUFFICES ASSUME FaultInit PROVE FaultInv
  OBVIOUS
<1>1. TypeOK
  BY SessionInit DEF FaultInit, SessionInv, CoreInv
<1>2. DOMAIN readers = {} /\ DOMAIN files = {} /\ IsFiniteSet(DOMAIN files)
  BY FS_EmptySet DEF FaultInit, Init
<1>3. OneLevelControl /\ OneLevelFiles
  BY <1>2 DEF FaultInit, Init, OneLevelControl, OneLevelFiles, Sound
<1>4. \A k \in Keys : wal[k] = NoEntry /\ Buffered(k) = NoEntry /\ latest[k] = NoEntry
  BY DEF FaultInit, Init, Buffered, EmptyTable
<1>5. \A k \in Keys : Kept({}, files, NoEntry, k)
  BY DEF Kept, Holds, Answers
<1>6. levels = {} /\ diskManifest.metas = {} /\ pc = "idle"
  BY DEF FaultInit, Init
<1> QED BY <1>1, <1>3, <1>4, <1>5, <1>6 DEF FaultInv, LogInv, DiskInv, MemoryInv

(* FaultInv holds in every state an engine of one level can reach through   *)
(* single writes, deaths of the process, errors of flush and close, and     *)
(* repairs of directories with an empty log.                                *)
THEOREM FaultInvariant == ASSUME MaxLevels = 1, Batches = {} PROVE FaultSpec => []FaultInv
<1>1. FaultInv /\ FaultNext => FaultInv'
  BY FaultStep
<1>2. FaultInv /\ UNCHANGED faultVars => FaultInv'
  <2> SUFFICES ASSUME FaultInv, UNCHANGED faultVars PROVE FaultInv'
    OBVIOUS
  <2>1. UNCHANGED <<active, frozen, out, levels, readers, nextId, nextSlot, base, files,
                    diskManifest, wal, pc, ret, cursor, doomed, batch, idx, closing,
                    nextSeq, now, latest, opens, gap>>
    BY DEF faultVars, vars, mem, sst, disk, ctl, ghost
  <2>2. TypeOK'
    BY <2>1 DEF FaultInv, TypeOK
  <2>3. OneLevelControl' /\ OneLevelFiles'
    BY <2>1 DEF FaultInv, OneLevelControl, OneLevelFiles, Sound, EncodedManifest
  <2>4. LogInv' /\ DiskInv' /\ MemoryInv'
    BY <2>1 DEF FaultInv, LogInv, DiskInv, MemoryInv, Buffered, Good
  <2> QED BY <2>2, <2>3, <2>4 DEF FaultInv
<1>3. FaultInv /\ [FaultNext]_faultVars => FaultInv'
  BY <1>1, <1>2
<1> QED BY <1>3, FaultInitial, PTL DEF FaultSpec

(* On one level every reader stands after those pushed before it.           *)
LEMMA AfterByPush ==
  ASSUME TypeOK, OneLevelFiles, NEW a \in levels, NEW b \in levels
  PROVE  After(a, b) <=> a.slot > b.slot
<1>1. a.level = 0 /\ b.level = 0
  BY DEF OneLevelFiles, Sound
<1> QED BY <1>1 DEF After

(* What get finds for a key that is kept in the files in order.             *)
LEMMA AnswersIsRead ==
  ASSUME TypeOK, OneLevelFiles, NEW k \in Keys, NEW e, Answers(levels, files, e, k)
  PROVE  Same(InSsts(DOMAIN readers, k), e)
<1>0. DOMAIN readers = levels /\ \A m \in levels : readers[m] = files[m.id].table
  BY DEF OneLevelFiles
<1>1. CASE e = NoEntry
  BY <1>0, <1>1 DEF Answers, InSsts, Same
<1>2. CASE e # NoEntry
  <2>1. PICK m \in levels :
          /\ Same(readers[m][k], e)
          /\ \A o \in levels \ {m} : readers[o][k] # NoEntry => m.slot > o.slot
    BY <1>0, <1>2 DEF Answers
  <2>2. readers[m][k] # NoEntry
    BY <1>2, <2>1, SameEntry
  <2>3. \A o \in levels \ {m} : readers[o][k] # NoEntry => After(m, o) /\ ~After(o, m)
    <3>1. \A o \in levels : o.slot \in Nat
      BY DEF TypeOK, Meta
    <3> QED BY <2>1, <3>1, AfterByPush
  <2>4. TopReader(levels, k) = m
    BY <2>2, <2>3 DEF TopReader
  <2> QED BY <1>0, <2>1, <2>2, <2>4 DEF InSsts
<1> QED BY <1>1, <1>2

(* Whatever step of a write, a flush or a close the process dies in or an   *)
(* error ends, every key reads as its last write says, for any keys, sizes  *)
(* and expiries and any number of deaths, errors and reopenings.            *)
THEOREM FaultRecovers ==
  ASSUME MaxLevels = 1, Batches = {} PROVE FaultSpec => []RecoversExactly
<1>1. FaultInv => RecoversExactly
  <2> SUFFICES ASSUME FaultInv, gap = "none", ~Repaired, pc = "idle", NEW k \in Keys
               PROVE  /\ Live(latest[k], now) => Lookup(k) = latest[k]
                      /\ Visible(Lookup(k), now) = Visible(latest[k], now)
    BY DEF RecoversExactly, NoStaleRead, ReadsLatest
  <2>1. frozen[k] = NoEntry /\ Buffered(k) = active[k]
    BY BufferedAs DEF FaultInv, OneLevelControl, EmptyTable
  <2>2. Same(Lookup(k), latest[k])
    <3>1. CASE active[k] # NoEntry
      BY <2>1, <3>1 DEF FaultInv, LogInv, Lookup
    <3>2. CASE active[k] = NoEntry
      <4>1. Answers(levels, files, latest[k], k)
        BY <2>1, <3>2 DEF FaultInv, MemoryInv, Kept, Repaired
      <4> QED BY <2>1, <3>2, <4>1, AnswersIsRead DEF FaultInv, Lookup
    <3> QED BY <3>1, <3>2
  <2> QED BY <2>2, SameEntry
<1> QED BY <1>1, FaultInvariant, PTL

(* Until a later flush empties the log, an error costs no data: a live last *)
(* write is in a memtable, in an open file or in the log.                   *)
THEOREM FaultKeeps == ASSUME MaxLevels = 1, Batches = {} PROVE FaultSpec => []StillThere
<1>1. FaultInv => StillThere
  <2> SUFFICES ASSUME FaultInv, pc = "idle", gap # "gone", NEW k \in Keys,
                      Live(latest[k], now)
               PROVE  \/ latest[k] \in {active[k], frozen[k], wal[k]}
                      \/ \E m \in DOMAIN readers : readers[m][k] = latest[k]
    BY DEF StillThere
  <2>1. CASE wal[k] # NoEntry
    <3>1. Same(wal[k], latest[k])
      BY <2>1 DEF FaultInv, LogInv
    <3> QED BY <3>1, SameEntry
  <2>2. CASE wal[k] = NoEntry
    <3>1. Holds(levels, files, latest[k], k) /\ latest[k] # NoEntry
      BY <2>2, LiveIsEntry DEF FaultInv, DiskInv, Kept
    <3>2. PICK m \in levels : Same(readers[m][k], latest[k])
      BY <3>1 DEF Holds, FaultInv, OneLevelFiles
    <3> QED BY <3>2, SameEntry DEF FaultInv, OneLevelFiles
  <2> QED BY <2>1, <2>2
<1> QED BY <1>1, FaultInvariant, PTL
=============================================================================
