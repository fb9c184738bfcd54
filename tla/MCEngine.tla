------------------------------ MODULE MCEngine ------------------------------
(* Instances of Engine for TLC.                                            *)
EXTENDS EngineKV, EngineInv

CONSTANTS v1, v2

NoBatches == {}

(* One batch of two puts.                                                   *)
PutBatches == { << [key |-> 1, val |-> v1], [key |-> 2, val |-> v1] >> }

(* One batch of two puts around the key in the middle.                      *)
OuterBatch == { << [key |-> 1, val |-> v1], [key |-> 3, val |-> v1] >> }

(* Two operations on distinct keys, an overwrite inside a batch, and a      *)
(* delete after a put of the same key.                                      *)
SmallBatches ==
    { << [key |-> 1, val |-> v1], [key |-> 2, val |-> Tomb] >>,
      << [key |-> 2, val |-> v1], [key |-> 2, val |-> Tomb] >> }

(* Puts keys 1 to 10 in turn, then deletes key 1: with the code's factor of  *)
(* ten this is the shortest way to get a value to level 2 and its tombstone *)
(* to level 1.                                                              *)
FillThenDelete ==
    latest' # latest =>
        IF nextSeq <= 10 THEN latest'[nextSeq].val = v1 /\ latest[nextSeq] = NoEntry
                         ELSE latest'[1].val = Tomb
=============================================================================
