------------------------------ MODULE LogFile ------------------------------
(***************************************************************************)
(* The write-ahead log as a file (src/src/wal): how records are framed and  *)
(* what WALReader makes of a file that a crash has cut short, or that was   *)
(* appended to after that.                                                  *)
(*                                                                         *)
(* A file is a sequence of cells.  A byte b is the cell <<b>>; a checksum   *)
(* is one cell, the bytes it covers: two different payloads never have the  *)
(* same checksum.  So what passes the checksum was written by encode, and   *)
(* the checks decode makes after it cannot fail.                            *)
(***************************************************************************)
EXTENDS StoredValues

PutType == 1
DeleteType == 2

Cells(bytes) == [i \in DOMAIN bytes |-> << bytes[i] >>]

(* Record::crc_payload.                                                     *)
Payload(r) ==
    << r.op >> \o ToLE(Len(r.key), U32, Base) \o r.key
               \o ToLE(Len(r.value), U32, Base) \o r.value

(* Record::encode: length of what follows, checksum, payload.               *)
EncodeRecord(r) ==
    LET p == Payload(r)
    IN  Cells(ToLE(1 + Len(p), U32, Base)) \o << p >> \o Cells(p)

(* The records one after the other: the cells of the first i.               *)
Framed(records) ==
    LET cells[i \in 0 .. Len(records)] ==
            IF i = 0 THEN << >> ELSE cells[i - 1] \o EncodeRecord(records[i])
    IN  cells

EncodeAll(records) == Framed(records)[Len(records)]

(* Fewest cells of a record after its length.                               *)
MinRecord == 1 + 1 + 2 * U32

(* Record::decode succeeds.                                                 *)
Sound(buf) == Len(buf) >= MinRecord /\ Cells(buf[1]) = Tail(buf)

(* The record decode returns for a payload.                                 *)
Parsed(p) ==
    LET keyEnd == 1 + U32 + FromLE(SubSeq(p, 2, 1 + U32), Base)
    IN  [op |-> p[1],
         key |-> SubSeq(p, 2 + U32, keyEnd),
         value |-> SubSeq(p, keyEnd + U32 + 1, Len(p))]

(* Mutant of NextRecord: a record cut short at the end is an error.         *)
NextRecordStrict(file, pos) ==
    LET left == Len(file) - pos
        len == FromLE([i \in 1 .. U32 |-> file[pos + i][1]], Base)
        buf == SubSeq(file, pos + U32 + 1, pos + U32 + len)
    IN  IF left = 0 THEN [kind |-> "end"]
        ELSE IF left < U32 \/ left - U32 < len \/ ~Sound(buf) THEN [kind |-> "error"]
        ELSE [kind |-> "record", record |-> Parsed(buf[1]), pos |-> pos + U32 + len]

(* WALReader::next from a position: the end of the file in the middle of a  *)
(* record ends the iteration, a record that does not decode is an error.    *)
NextRecord(file, pos) ==
    LET left == Len(file) - pos
        len == FromLE([i \in 1 .. U32 |-> file[pos + i][1]], Base)
        buf == SubSeq(file, pos + U32 + 1, pos + U32 + len)
    IN  IF left < U32 \/ left - U32 < len THEN [kind |-> "end"]
        ELSE IF ~Sound(buf) THEN [kind |-> "error"]
        ELSE [kind |-> "record", record |-> Parsed(buf[1]), pos |-> pos + U32 + len]

(* The loop of replay_wal after n rounds: the records so far, where reading *)
(* stands, and what next returned.  Without a record the loop is over.      *)
Rounds(file) ==
    LET at[n \in 0 .. Len(file) + 1] ==
            IF n = 0 THEN [kind |-> "record", records |-> << >>, pos |-> 0]
            ELSE LET prev == at[n - 1]
                     next == NextRecord(file, prev.pos)
                 IN  IF prev.kind # "record" THEN prev
                     ELSE IF next.kind # "record" THEN [prev EXCEPT !.kind = next.kind]
                     ELSE [kind |-> "record", records |-> Append(prev.records, next.record),
                           pos |-> next.pos]
    IN  at

(* All records up to the end or the first error, and where reading stopped. *)
ReadLog(file) ==
    LET last == Rounds(file)[Len(file) + 1]
    IN  [ok |-> last.kind = "end", records |-> last.records, stop |-> last.pos]
=============================================================================
