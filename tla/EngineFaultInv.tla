--------------------------- MODULE EngineFaultInv ---------------------------
(***************************************************************************)
(* Why an engine of one level, which never compacts, recovers from a death  *)
(* of the process at any step and from the I/O errors of EngineFaults: the  *)
(* inductive invariant of FaultSpec without batches.                        *)
(***************************************************************************)
EXTENDS EngineFaults, EngineInv

(* A replayed delete has lost its sequence number: two stored values say    *)
(* the same if they are equal or both tombstones.                           *)
Same(e, f) == e = f \/ (e.val = Tomb /\ f.val = Tomb)

(* Some file of S has the last write e of k; F is the directory.            *)
Holds(S, F, e, k) ==
    e = NoEntry \/ \E m \in S : Same(F[m.id].table[k], e)

(* The last pushed of the files of S that hold k has the last write.        *)
Answers(S, F, e, k) ==
    IF e = NoEntry
    THEN \A m \in S : F[m.id].table[k] = NoEntry
    ELSE \E m \in S :
            /\ Same(F[m.id].table[k], e)
            /\ \A o \in S \ {m} : F[o.id].table[k] # NoEntry => m.slot > o.slot

(* What is known of k where only the files of S are left: they have its     *)
(* last write, and in front unless repair has shuffled them.                *)
Kept(S, F, e, k) ==
    /\ Holds(S, F, e, k)
    /\ Answers(S, F, e, k) \/ \E m \in S : m.lo = EmptyKey

(* Where in an operation each local variable is in use.                     *)
OneLevelControl ==
    /\ pc \notin {"log", "apply", "merge", "unlink"} /\ doomed = {}
    /\ pc # "flush" => frozen = EmptyTable
    /\ pc # "build" => out = EmptyTable
    /\ pc # "idle" => active = EmptyTable
    /\ pc \in {"save", "saving"} => ret \in {"resetwal", "closed"}
    /\ pc = "down" => levels = {}
    /\ gap \in {"none", "logged", "gone"}

(* Every meta of S belongs to level 0 and to a whole file, and no two were  *)
(* pushed at the same time.                                                 *)
Sound(S, F, slots) ==
    /\ \A m \in S : /\ m.level = 0 /\ m.slot < slots
                    /\ m.id \in DOMAIN F /\ F[m.id].whole
    /\ \A a, b \in S : a.slot = b.slot => a = b

(* The files in memory and those the manifest on disk names.                *)
OneLevelFiles ==
    /\ Sound(levels, files, nextSlot)
    /\ Sound(diskManifest.metas, files, nextSlot)
    /\ pc # "down" => diskManifest.metas \subseteq levels
    /\ DOMAIN readers = levels /\ IsFiniteSet(DOMAIN files)
    /\ \A m \in levels : m.id < nextId /\ readers[m] = files[m.id].table
    /\ pc = "build" => \A m \in levels : m.id < nextId - 1
    /\ pc = "resetwal" => diskManifest = EncodedManifest

(* What the memtables hold, with the one that is being written to a file.   *)
Buffered(k) ==
    IF active[k] # NoEntry THEN active[k]
    ELSE IF frozen[k] # NoEntry THEN frozen[k] ELSE out[k]

(* Log and memtables never hold anything but the last write.                *)
LogInv ==
    \A k \in Keys : /\ wal[k] # NoEntry => Same(wal[k], latest[k])
                    /\ Buffered(k) # NoEntry => Same(Buffered(k), latest[k])

(* A key that is not in the log is in the files: those in memory, those the *)
(* manifest on disk names, and those repair would keep.                     *)
DiskInv ==
    gap # "gone" =>
        \A k \in Keys : wal[k] = NoEntry =>
            /\ pc # "down" => Kept(levels, files, latest[k], k)
            /\ diskManifest.whole => Kept(diskManifest.metas, files, latest[k], k)
            /\ pc = "down" => \/ latest[k] = NoEntry
                              \/ \E i \in Good : Same(files[i].table[k], latest[k])

(* Unless an error has thrown a frozen memtable away, a key that is not in  *)
(* a memtable is in the files.                                              *)
MemoryInv ==
    gap = "none" /\ pc # "down" =>
        \A k \in Keys : Buffered(k) = NoEntry => Kept(levels, files, latest[k], k)

(* FaultInv: the inductive invariant of crashes and errors on one level.    *)
FaultInv ==
    /\ TypeOK /\ OneLevelControl /\ OneLevelFiles
    /\ LogInv /\ DiskInv /\ MemoryInv
=============================================================================
