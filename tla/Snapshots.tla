----------------------------- MODULE Snapshots -----------------------------
(***************************************************************************)
(* Engine with a client that holds a snapshot and reads at it: Snapshot,    *)
(* snapshot and get_at of src/src/engine.rs.                                *)
(*                                                                         *)
(* A snapshot is only a number, next_seq at the time.  What it should show  *)
(* is history: view is the last write of every key when it was taken, and   *)
(* unnumbered the keys a batch has written since, with the number 0.  The   *)
(* client takes a snapshot at the start of the session, and may take a new  *)
(* one between any two operations.                                          *)
(***************************************************************************)
EXTENDS Engine

VARIABLE snap         \* the snapshot held: [seq, view, unnumbered]

svars == <<vars, snap>>

(* MemTable::get.                                                           *)
InMemory(k) == IF active[k] # NoEntry THEN active[k] ELSE frozen[k]

(* Mutant of GetAt: the write numbered like the snapshot is shown in it.    *)
GetAtUpTo(k, s) ==
    LET older == {m \in DOMAIN readers : readers[m][k].seq <= s}
    IN  IF InMemory(k) # NoEntry /\ InMemory(k).seq <= s
        THEN Visible(InMemory(k), now)
        ELSE Visible(InSsts(older, k), now)

(* get_at: a version numbered s or higher is passed over, and the search    *)
(* goes on in the SSTables behind it.                                       *)
GetAt(k, s) ==
    LET older == {m \in DOMAIN readers : readers[m][k].seq < s}
    IN  IF InMemory(k) # NoEntry /\ InMemory(k).seq < s
        THEN Visible(InMemory(k), now)
        ELSE Visible(InSsts(older, k), now)

----------------------------------------------------------------------------
(* Engine::snapshot.                                                        *)
Taken == [seq |-> nextSeq, view |-> latest, unnumbered |-> {}]

SnapInit == Init /\ snap = Taken

TakeSnapshot == pc = "idle" /\ snap' = Taken /\ UNCHANGED vars

(* What an operation of a batch writes in this step.                        *)
BatchWrites == {k \in Keys : latest'[k] # latest[k] /\ latest'[k].seq = 0}

SnapNext ==
    \/ SessionNext /\ snap' = [snap EXCEPT !.unnumbered = @ \cup BatchWrites]
    \/ TakeSnapshot

(* A session on a new directory whose client takes snapshots.               *)
SnapSession == SnapInit /\ [][SnapNext]_svars

----------------------------------------------------------------------------
(* SnapshotSteady: a key is read at a snapshot as it was when the snapshot  *)
(* was taken, through every flush and compaction: get_at passes over no     *)
(* version it needs and finds none it must not show.  This is so of a key   *)
(* that has not been written since, by put, delete or batch, and of a key   *)
(* that was missing, however often it was put and deleted since; not of a   *)
(* value that was overwritten, nor of a missing key a batch has written.    *)
SnapshotSteady ==
    pc = "idle" =>
        \A k \in Keys :
            \/ latest[k] = snap.view[k]
            \/ snap.view[k] = NoEntry /\ k \notin snap.unnumbered
            => GetAt(k, snap.seq) = Visible(snap.view[k], now)

----------------------------------------------------------------------------
(* Every version of k in a place a flush or a compaction takes it to.       *)
Versions(k) ==
    {latest[k], active[k], frozen[k], out[k]} \cup {readers[m][k] : m \in DOMAIN readers}

(* SnapInv: what numbers say.  Those given out are below next_seq, a key    *)
(* never written has no version, the snapshot's number is above the writes  *)
(* it should show and, batches aside, not above those it should hide.       *)
SnapInv ==
    /\ snap \in [seq : 1 .. nextSeq, view : Table, unnumbered : SUBSET Keys]
    /\ \A k \in Keys :
        /\ latest[k].seq < nextSeq
        /\ latest[k] = NoEntry => Versions(k) = {NoEntry}
        /\ snap.view[k].seq < snap.seq
        /\ snap.view[k] = NoEntry /\ k \notin snap.unnumbered
              => \A e \in Versions(k) : e = NoEntry \/ e.seq >= snap.seq
=============================================================================
