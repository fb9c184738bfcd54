----------------------------- MODULE ByteStore -----------------------------
(***************************************************************************)
(* A database that fits into its memtable, down to the bytes: what the      *)
(* command line tool works with, one process per command.  The log file is  *)
(* the only file; the memtable is what a replay built plus the writes since.*)
(*                                                                         *)
(* A write goes to the buffer of WALWriter, and to the disk with a sync; a  *)
(* crash keeps some prefix of what was handed to the operating system or    *)
(* sat in the buffer, but never less than what was synced.                  *)
(***************************************************************************)
EXTENDS LogFile

CONSTANTS
    Keys,                  \* byte strings clients use as keys
    Puts,                  \* pairs of a key and a value they put
    TTLs,                  \* times to live
    Batches,               \* write batches, as sequences of operations
    BadCommands,           \* command lines the tool does not understand
    PutWord, DeleteWord, BatchWord,   \* the words of its commands
    ScanPrefixes,              \* arguments of prefix_scan
    MaxRecords,            \* bound: records appended in all
    MaxNow,                \* bound: reading of the clock
    MaxOpens               \* bound: times the database is opened again

VARIABLES
    mem,        \* the memtable: key -> Some(stored bytes) or None
    buf,        \* BufWriter: records not yet handed to the file
    file,       \* the log file, as cells
    durable,    \* cells of the file that are synced
    sync,       \* opts.sync_wal
    pc, todo,   \* "sync": todo is logged, to be synced and applied
    nextSeq,    \* next_seq
    now,        \* the clock
    opens,      \* times the database was opened again
    appended,   \* records appended in all
    hist,       \* history: the operations in the log, in order
    safe,       \* history: how many of them were synced and acknowledged
    buried,     \* history: a record was appended behind a torn one
    asked       \* history: command line of the tool, and the batch it made of it

log == <<buf, file, durable>>
ghost == <<hist, safe, buried>>
vars == <<mem, log, sync, pc, todo, nextSeq, now, opens, appended, ghost, asked>>

(* An operation: a write method with its arguments, and what it drew from   *)
(* the clock and from next_seq.                                             *)
Op(m, k, v, exp, seq) == [method |-> m, key |-> k, val |-> v, exp |-> exp, seq |-> seq]
BatchPut(k, v) == Op("batch put", k, v, 0, 0)
BatchDelete(k) == Op("batch delete", k, << >>, 0, 0)

Byte == 0 .. Base - 1

BatchOp ==
    [method : {"batch put"}, key : Keys, val : Seq(Byte), exp : {0}, seq : {0}]
    \cup [method : {"batch delete"}, key : Keys, val : {<< >>}, exp : {0}, seq : {0}]

ASSUME ClientAssumption ==
    /\ Keys \subseteq Seq(Byte) /\ Puts \subseteq Keys \X Seq(Byte)
    /\ Batches \subseteq Seq(BatchOp)
    /\ PutWord # DeleteWord /\ PutWord # BatchWord /\ DeleteWord # BatchWord
    /\ TTLs \subseteq Nat /\ ScanPrefixes \subseteq Seq(Byte)
    /\ MaxRecords \in Nat /\ MaxNow \in Nat /\ MaxOpens \in Nat

(* Cells behind the length of the largest record for a key and a value:     *)
(* checksum, operation, two lengths, sequence number and expiry.            *)
Largest(key, val) == 2 + 2 * U32 + Len(key) + 2 * U64 + 1 + Len(val)

(* The lengths fit the four bytes they are written in, and expiries fit u64.*)
ASSUME WidthsSuffice ==
    /\ \A k \in Keys : Fits(Largest(k, << >>), U32, Base)
    /\ \A p \in Puts : Fits(Largest(p[1], p[2]), U32, Base)
    /\ \A b \in Batches : \A i \in DOMAIN b : Fits(Largest(b[i].key, b[i].val), U32, Base)
    /\ \A ttl \in TTLs : Fits(MaxNow + ttl, U64, Base)

NoCall == [args |-> << >>, took |-> << >>]

TypeOK ==
    /\ \A k \in DOMAIN mem : mem[k] = None \/ \E b \in mem[k] : mem[k] = Some(b)
    /\ durable \in 0 .. Len(file)
    /\ sync \in BOOLEAN /\ pc \in {"idle", "sync", "down"}
    /\ nextSeq \in Nat /\ now \in 0 .. MaxNow /\ opens \in 0 .. MaxOpens
    /\ safe \in 0 .. MaxRecords /\ buried \in BOOLEAN
    /\ appended \in Len(hist) .. MaxRecords
    /\ pc # "sync" => todo = << >>
    /\ pc = "down" => buf = << >>

----------------------------------------------------------------------------
(* The bytes the memtable gets.  A batch has no sequence number.            *)
StoredBytes(o) ==
    CASE o.method = "put"          -> EncodeWithSeq(o.val, o.seq)
      [] o.method = "put_with_ttl" -> EncodeWithSeq(WrapTtl(o.val, o.exp), o.seq)
      [] o.method = "delete"       -> EncodeWithSeq(Tombstone, o.seq)
      [] o.method = "batch put"    -> o.val
      [] o.method = "batch delete" -> Tombstone

IsDelete(o) == o.method \in {"delete", "batch delete"}

(* Mutant of LogRecord: deletes are logged like puts.                       *)
LogRecordAsPut(o) ==
    [op |-> PutType, key |-> o.key,
     value |-> IF o.method = "batch delete" THEN << >> ELSE StoredBytes(o)]

(* The record the log gets.                                                 *)
LogRecord(o) ==
    [op |-> IF IsDelete(o) THEN DeleteType ELSE PutType, key |-> o.key,
     value |-> IF o.method = "batch delete" THEN << >> ELSE StoredBytes(o)]

LogRecords(ops) == [i \in DOMAIN ops |-> LogRecord(ops[i])]

Encoded(ops) == EncodeAll(LogRecords(ops))

(* Where a key occurs last in a sequence of operations or records.          *)
LastOf(items, k) == Max({i \in DOMAIN items : items[i].key = k})

On(items, k) == \E i \in DOMAIN items : items[i].key = k

(* The memtable after one put for each operation: the last on a key stays.  *)
Applied(ops) ==
    [k \in Keys |-> IF On(ops, k) THEN Some(StoredBytes(ops[LastOf(ops, k)])) ELSE mem[k]]

EmptyMem == [k \in Keys |-> None]

(* replay_wal: the value of a Delete record is not looked at.               *)
Replayed(records) ==
    [k \in Keys |->
        IF On(records, k)
        THEN LET r == records[LastOf(records, k)]
             IN  Some(IF r.op = DeleteType THEN Tombstone ELSE r.value)
        ELSE None]

----------------------------------------------------------------------------
Init ==
    /\ mem = EmptyMem /\ buf = << >> /\ file = << >> /\ durable = 0
    /\ sync \in BOOLEAN
    /\ pc = "idle" /\ todo = << >> /\ nextSeq = 1 /\ now = 0
    /\ opens = 0 /\ appended = 0
    /\ hist = << >> /\ safe = 0 /\ buried = FALSE /\ asked = NoCall

TornEnd == ReadLog(file).stop < Len(file)

(* Append the records of ops; then sync and apply, or apply at once.        *)
Write(ops, flush) ==
    /\ pc = "idle" /\ appended + Len(ops) <= MaxRecords
    /\ appended' = appended + Len(ops)
    /\ buf' = buf \o Encoded(ops)
    /\ IF flush THEN pc' = "sync" /\ todo' = ops /\ UNCHANGED mem
                ELSE mem' = Applied(ops) /\ UNCHANGED <<pc, todo>>
    /\ hist' = hist \o ops
    /\ buried' = (buried \/ TornEnd)
    /\ UNCHANGED <<file, durable, sync, now, opens, safe>>

WriteOne(o) == Write(<< o >>, sync) /\ nextSeq' = nextSeq + 1

Put(k, v) == WriteOne(Op("put", k, v, 0, nextSeq))
PutTtl(k, v, ttl) == WriteOne(Op("put_with_ttl", k, v, now + ttl, nextSeq))
Delete(k) == WriteOne(Op("delete", k, << >>, 0, nextSeq))

(* A batch is synced whatever sync_wal says; an empty one does nothing.     *)
WriteBatch(ops) ==
    /\ IF ops = << >>
       THEN pc = "idle" /\ UNCHANGED <<mem, log, sync, pc, todo, now, opens, appended, ghost>>
       ELSE Write(ops, TRUE)
    /\ UNCHANGED nextSeq

(* Mutant of SyncLog: sync_data without handing over the buffer first.      *)
SyncLogBuffered ==
    /\ pc = "sync"
    /\ durable' = Len(file \o buf)
    /\ mem' = Applied(todo)
    /\ pc' = "idle" /\ todo' = << >> /\ asked' = NoCall
    /\ safe' = Len(hist)
    /\ UNCHANGED <<buf, file, sync, nextSeq, now, opens, appended, hist, buried>>

(* Mutant of SyncLog: the buffer is handed over but not synced.             *)
SyncLogUnsynced ==
    /\ pc = "sync"
    /\ file' = file \o buf /\ buf' = << >>
    /\ mem' = Applied(todo)
    /\ pc' = "idle" /\ todo' = << >> /\ asked' = NoCall
    /\ safe' = Len(hist)
    /\ UNCHANGED <<durable, sync, nextSeq, now, opens, appended, hist, buried>>

(* WALWriter::flush, the memtable puts and the return of the write.         *)
SyncLog ==
    /\ pc = "sync"
    /\ file' = file \o buf /\ buf' = << >> /\ durable' = Len(file')
    /\ mem' = Applied(todo)
    /\ pc' = "idle" /\ todo' = << >> /\ asked' = NoCall
    /\ safe' = Len(hist)
    /\ UNCHANGED <<sync, nextSeq, now, opens, appended, hist, buried>>

----------------------------------------------------------------------------
(* The words that ask the tool for the first i operations of a batch.       *)
Spelled(ops) ==
    LET words[i \in 0 .. Len(ops)] ==
            IF i = 0 THEN << BatchWord >>
            ELSE words[i - 1] \o IF IsDelete(ops[i]) THEN << DeleteWord, ops[i].key >>
                                                     ELSE << PutWord, ops[i].key, ops[i].val >>
    IN  words

Spell(ops) == Spelled(ops)[Len(ops)]

(* The loop over the words behind "batch", after n rounds; i is its index.  *)
(* It goes on while there are three more words, also when the next          *)
(* operation is a delete, and ends at a word it does not know.              *)
BatchRounds(args) ==
    LET at[n \in 0 .. Len(args)] ==
            IF n = 0 THEN [ok |-> TRUE, ops |-> << >>, i |-> 2]
            ELSE LET s == at[n - 1]
                 IN  IF ~s.ok \/ s.i + 2 > Len(args) THEN s
                     ELSE IF args[s.i] = PutWord
                          THEN [ok |-> TRUE, i |-> s.i + 3,
                                ops |-> Append(s.ops, BatchPut(args[s.i + 1], args[s.i + 2]))]
                     ELSE IF args[s.i] = DeleteWord
                          THEN [ok |-> TRUE, i |-> s.i + 2,
                                ops |-> Append(s.ops, BatchDelete(args[s.i + 1]))]
                     ELSE [s EXCEPT !.ok = FALSE]
    IN  at

(* Mutant of ParseBatch: the last word is not looked at.                    *)
ParseBatchShort(args) ==
    LET short == SubSeq(args, 1, Len(args) - 1) IN BatchRounds(short)[Len(short)]

ParseBatch(args) == BatchRounds(args)[Len(args)]

(* What each command of the tool needs on its command line.                 *)
Understood(args) ==
    \/ args[1] = PutWord /\ Len(args) >= 3
    \/ args[1] = DeleteWord /\ Len(args) >= 2
    \/ args[1] = BatchWord /\ ParseBatch(args).ok

ASSUME BadCommandsAssumption == \A args \in BadCommands : ~Understood(args)

(* Memory is gone.                                                          *)
Forget ==
    /\ pc' = "down" /\ mem' = EmptyMem /\ buf' = << >> /\ todo' = << >>
    /\ nextSeq' = 1 /\ asked' = NoCall

(* The tool, which opens the database with the default options (sync_wal):  *)
(* put, delete, batch, or process::exit, which drops nothing.  The reading  *)
(* commands change nothing.                                                 *)
CliPut(args) ==
    /\ sync /\ Understood(args) /\ args[1] = PutWord
    /\ Put(args[2], args[3])
    /\ UNCHANGED asked

CliDelete(args) ==
    /\ sync /\ Understood(args) /\ args[1] = DeleteWord
    /\ Delete(args[2])
    /\ UNCHANGED asked

CliBatch(args) ==
    LET ops == ParseBatch(args).ops
    IN  /\ sync /\ Understood(args) /\ args[1] = BatchWord
        /\ WriteBatch(ops)
        /\ asked' = [args |-> args, took |-> ops]

CliFails(args) ==
    /\ sync /\ pc = "idle" /\ ~Understood(args)
    /\ Forget
    /\ UNCHANGED <<file, durable, sync, now, opens, appended, ghost>>

----------------------------------------------------------------------------
(* The last handle is dropped without close: BufWriter hands over what it   *)
(* holds, nothing is synced.                                                *)
Exit ==
    /\ pc = "idle"
    /\ Forget
    /\ file' = file \o buf
    /\ UNCHANGED <<durable, sync, now, opens, appended, ghost>>

(* The process dies or the machine does.                                    *)
Crash ==
    /\ opens < MaxOpens
    /\ pc # "down" \/ durable < Len(file)
    /\ \E n \in durable .. Len(file \o buf) : file' = SubSeq(file \o buf, 1, n)
    /\ Forget
    /\ UNCHANGED <<durable, sync, now, opens, appended, ghost>>

(* open: replay, then append to what is there.                              *)
Open ==
    /\ pc = "down" /\ opens < MaxOpens
    /\ LET read == ReadLog(file)
       IN  /\ read.ok
           /\ mem' = Replayed(read.records)
           /\ hist' = IF buried THEN hist ELSE SubSeq(hist, 1, Len(read.records))
    /\ pc' = "idle" /\ sync' \in BOOLEAN /\ opens' = opens + 1
    /\ UNCHANGED <<log, todo, nextSeq, now, appended, safe, buried, asked>>

(* replay_wal returns the reader's error and open fails.                    *)
OpenFails ==
    /\ pc = "down" /\ ~ReadLog(file).ok
    /\ UNCHANGED vars

Tick ==
    /\ now < MaxNow
    /\ now' = now + 1
    /\ UNCHANGED <<mem, log, sync, pc, todo, nextSeq, opens, appended, ghost, asked>>

Commands == BadCommands \cup {Spell(b) : b \in Batches}
            \cup {<< PutWord, p[1], p[2] >> : p \in Puts}
            \cup {<< DeleteWord, k >> : k \in Keys}

Api ==
    /\ \/ \E p \in Puts : Put(p[1], p[2])
       \/ \E p \in Puts, ttl \in TTLs : PutTtl(p[1], p[2], ttl)
       \/ \E k \in Keys : Delete(k)
       \/ \E b \in Batches : WriteBatch(b)
    /\ UNCHANGED asked

Cli == \E args \in Commands : CliPut(args) \/ CliDelete(args) \/ CliBatch(args) \/ CliFails(args)

Next == Api \/ Cli \/ SyncLog \/ Exit \/ Crash \/ Open \/ OpenFails \/ Tick

Spec == Init /\ [][Next]_vars

----------------------------------------------------------------------------
Get(k) == UNION {UnpackValue(b, now) : b \in mem[k]}

(* scan over the memtable, and prefix_scan.                                 *)
Scan(start, end) ==
    {e \in UNION {{k} \X Get(k) : k \in Keys} : ~Less(e[1], start) /\ Less(e[1], end)}

PrefixScan(prefix) == Scan(prefix, NextKey(prefix))

(* What an operation promises for its key.                                  *)
Meaning(o) ==
    IF IsDelete(o) \/ (o.method = "put_with_ttl" /\ now >= o.exp) THEN None ELSE Some(o.val)

(* The values that come back: a put must not look like a tombstone or like  *)
(* a value with a time to live, a batch put neither that nor as long as a   *)
(* sequence number.                                                         *)
Packs(o) ==
    CASE o.method = "put"       -> o.val # Tombstone /\ (Len(o.val) > U64 => o.val[1] # TtlMarker)
      [] o.method = "batch put" -> o.val # Tombstone /\ Len(o.val) < U64
      [] OTHER                  -> TRUE

(* ReadsBack: what get decodes from the bytes is what the last operation on *)
(* the key said, live or replayed from the log, before or after a crash,    *)
(* for the values that pack.  Behind a torn record all bets are off: its    *)
(* missing bytes may be those the next record begins with, and a write that *)
(* never returned comes to life.                                            *)
ReadsBack ==
    pc = "idle" /\ ~buried =>
        \A k \in Keys :
            IF On(hist, k)
            THEN LET o == hist[LastOf(hist, k)] IN Packs(o) => Get(k) = Meaning(o)
            ELSE Get(k) = None

(* AckedSurvive: an operation that was synced before it returned, every     *)
(* operation of a batch included, is still there after any crash, as long   *)
(* as nothing was appended behind a torn record.                            *)
AckedSurvive == pc = "idle" /\ ~buried => safe <= Len(hist)

(* OpensAgain: a log whose last record a crash cut anywhere replays.  Also  *)
(* this ends with the first record appended behind the torn one.            *)
OpensAgain == pc = "down" /\ ~buried => ReadLog(file).ok

(* PrefixScans: prefix_scan lists every key with the prefix, unless all     *)
(* its bytes are the greatest, and no other key, unless it ends in one.     *)
PrefixScans ==
    pc = "idle" =>
        \A p \in ScanPrefixes :
            LET within == UNION {{k} \X Get(k) : k \in {x \in Keys : IsPrefix(p, x)}}
            IN  /\ (\E i \in DOMAIN p : p[i] < Base - 1) => within \subseteq PrefixScan(p)
                /\ (p # << >> => p[Len(p)] < Base - 1) => PrefixScan(p) \subseteq within

(* BatchTaken: the tool writes exactly the batch its command line spells,   *)
(* provided that it ends in a put.                                          *)
BatchTaken ==
    \A b \in Batches :
        asked.args = Spell(b) /\ ~IsDelete(b[Len(b)]) => asked.took = b

----------------------------------------------------------------------------
(* What holds in every state, for the proofs.                               *)
Operation ==
    {o \in [method : {"put", "put_with_ttl", "delete", "batch put", "batch delete"},
            key : Keys, val : Seq(Byte), exp : Nat, seq : Nat] :
        Fits(Largest(o.key, o.val), U32, Base) /\ Fits(o.exp, U64, Base)}

Cell == Seq(Byte) \ {<< >>}

TypesInv ==
    /\ TypeOK
    /\ DOMAIN mem = Keys
    /\ hist \in Seq(Operation) /\ todo \in Seq(Operation)
    /\ buf \in Seq(Cell) /\ file \in Seq(Cell)

First(n) == SubSeq(hist, 1, n)
After(n) == SubSeq(hist, n + 1, Len(hist))

(* Where whole records end, the file ends or is cut inside a record: the    *)
(* next one of the log, if a crash took more.  The other records of the log *)
(* are in the buffer.                                                       *)
CutAt(n) ==
    \E torn \in {SubSeq(file, Len(Encoded(First(n))) + 1, Len(file))} :
        /\ file = Encoded(First(n)) \o torn
        /\ NextRecord(torn, 0).kind = "end"
        /\ n < Len(hist) => IsStrictPrefix(torn, EncodeRecord(LogRecord(hist[n + 1])))
        /\ pc # "down" => buf = Encoded(After(n)) /\ (n < Len(hist) => torn = << >>)

LogInv == ~buried => \E n \in 0 .. Len(hist) : CutAt(n)

(* What was acknowledged after a sync is on the disk.                       *)
SyncedInv == ~buried => safe <= Len(hist) /\ Len(Encoded(First(safe))) <= durable

(* The memtable has for each key what the last of these operations stored,  *)
(* or the tombstone a replay makes of a delete.                             *)
Holds(ops) ==
    \A k \in Keys :
        IF On(ops, k)
        THEN LET o == ops[LastOf(ops, k)]
             IN  mem[k] = Some(StoredBytes(o)) \/ (IsDelete(o) /\ mem[k] = Some(Tombstone))
        ELSE mem[k] = None

MemInv ==
    ~buried =>
        /\ pc = "idle" => Holds(hist)
        /\ pc = "sync" => \E n \in 0 .. Len(hist) : todo = After(n) /\ Holds(First(n))

(* The tool takes what the loop over its words gives.                       *)
AskedInv ==
    \/ asked = NoCall
    \/ asked.args \in Commands /\ asked.took = ParseBatch(asked.args).ops

ByteInv == TypesInv /\ LogInv /\ SyncedInv /\ MemInv /\ AskedInv
=============================================================================
