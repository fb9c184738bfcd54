---------------------------- MODULE EngineFaults ----------------------------
(***************************************************************************)
(* Engine with I/O errors in a flush and in close: the ? operators of       *)
(* maybe_flush, close, Manifest::save and reset_wal in src/src/engine.rs    *)
(* and src/src/manifest.rs.  An error goes to the caller and the engine     *)
(* lives on; only close, which owns the engine, drops it.  Errors of a      *)
(* compaction are left out.                                                 *)
(***************************************************************************)
EXTENDS Engine

CONSTANT MaxFaults      \* bound: errors in all

ASSUME FaultsAssumption == MaxFaults \in Nat

VARIABLES
    faults,    \* errors so far
    gap        \* history: frozen writes an error threw out of memory are "none",
               \* "logged" as yet, or "gone" from the log as well

faultVars == <<vars, faults, gap>>

FaultInit == Init /\ faults = 0 /\ gap = "none"

Fault == faults < MaxFaults /\ faults' = faults + 1

(* The error reaches the caller.                                            *)
ReturnsErr ==
    IF closing
    THEN Forget
    ELSE /\ pc' = "idle" /\ frozen' = EmptyTable /\ out' = EmptyTable
         /\ UNCHANGED <<active, levels, readers, ctl, nextSeq>>

(* What becomes of the gap when the process ends or the log is emptied.     *)
Aftermath ==
    gap' = IF gap # "logged" THEN gap
           ELSE IF wal' = EmptyTable THEN "gone"
           ELSE IF pc' = "down" THEN "none" ELSE gap

(* The frozen memtable was a local of maybe_flush, and is dropped.          *)
Dropped == IF closing THEN Aftermath ELSE gap' = IF gap = "gone" THEN gap ELSE "logged"

(* The file cannot be created; its id is taken all the same.                *)
CreateFails ==
    /\ pc = "flush" /\ Fault
    /\ ReturnsErr
    /\ ~closing => nextId' = nextId + 1
    /\ UNCHANGED <<nextSlot, base, disk, ghost>>
    /\ Dropped

(* Mutant of BuildFails: the log is emptied although the file is not whole. *)
BuildFailsReset ==
    /\ pc = "build" /\ Fault
    /\ ReturnsErr
    /\ ~closing => UNCHANGED nextId
    /\ wal' = EmptyTable
    /\ UNCHANGED <<nextSlot, base, files, diskManifest, ghost>>
    /\ Dropped

(* The file cannot be filled or finished, or not opened when it is whole.   *)
BuildFails ==
    /\ pc = "build" /\ Fault
    /\ ReturnsErr
    /\ ~closing => UNCHANGED nextId
    /\ \E left \in {TornFile, WholeFile(out)} : files' = [files EXCEPT ![nextId - 1] = left]
    /\ UNCHANGED <<nextSlot, base, diskManifest, wal, ghost>>
    /\ Dropped

(* Manifest::save fails: the file cannot be created ...                     *)
SaveFails ==
    /\ pc = "save" /\ ret \in {"resetwal", "closed"} /\ Fault
    /\ ReturnsErr
    /\ ~closing => UNCHANGED nextId
    /\ UNCHANGED <<nextSlot, base, disk, ghost>>
    /\ Aftermath

(* ... or it is left cut short, or whole and only its sync failed.          *)
SaveCutShort ==
    /\ pc = "saving" /\ ret \in {"resetwal", "closed"} /\ Fault
    /\ diskManifest' \in {diskManifest, EncodedManifest}
    /\ ReturnsErr
    /\ ~closing => UNCHANGED nextId
    /\ UNCHANGED <<nextSlot, base, files, wal, ghost>>
    /\ Aftermath

(* reset_wal fails: before or after the log is truncated.                   *)
ResetFails ==
    /\ pc = "resetwal" /\ Fault
    /\ wal' \in {wal, EmptyTable}
    /\ ReturnsErr
    /\ ~closing => UNCHANGED nextId
    /\ UNCHANGED <<nextSlot, base, files, diskManifest, ghost>>
    /\ Aftermath

FaultNext ==
    \/ MaintainedNext /\ Aftermath /\ UNCHANGED faults
    \/ CreateFails \/ BuildFails \/ SaveFails \/ SaveCutShort \/ ResetFails

FaultSpec == FaultInit /\ [][FaultNext]_faultVars

----------------------------------------------------------------------------
(* repair has left its mark: files with placeholder ranges.                 *)
Repaired == \E m \in levels : m.lo = EmptyKey

(* RecoversExactly: whatever step of a write, a flush or a close the        *)
(* process dies in or an I/O error ends, every key reads as its last write  *)
(* says, after the error or after opening the directory again.  Two things  *)
(* void this: repair, which gives up the order of the files, and the error  *)
(* that throws the frozen memtable away, until the next open replays it -   *)
(* for good, if another flush has emptied the log before.                   *)
RecoversExactly == gap = "none" /\ ~Repaired => NoStaleRead /\ ReadsLatest

(* StillThere: the last write of a key, while live, is in a memtable, in an *)
(* open SSTable or in the log.  An I/O error alone never costs data; the    *)
(* flush after it may.                                                      *)
StillThere ==
    pc = "idle" /\ gap # "gone" =>
        \A k \in Keys : Live(latest[k], now) =>
            \/ latest[k] \in {active[k], frozen[k], wal[k]}
            \/ \E m \in DOMAIN readers : readers[m][k] = latest[k]
=============================================================================
