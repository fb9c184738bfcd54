------------------------------ MODULE EngineKV ------------------------------
(***************************************************************************)
(* The engine implements the key-value store of KVStore: seen through the   *)
(* value a get would find, every step of the engine is a step of the store  *)
(* or leaves it alone.                                                      *)
(***************************************************************************)
EXTENDS Engine

(* The stored value that answers for a key.  Two steps hide behind the      *)
(* mutex: while a flush is under way (between take_immutable and the push   *)
(* of the new reader) the frozen memtable is the local variable that out    *)
(* stands for, and while a compaction removes its inputs one by one the     *)
(* ones still there no longer count.                                        *)
Holding(k) ==
    IF active[k] # NoEntry THEN active[k]
    ELSE IF frozen[k] # NoEntry THEN frozen[k]
    ELSE IF pc = "build" /\ out[k] # NoEntry THEN out[k]
    ELSE IF pc = "unlink" THEN InSsts(DOMAIN readers \ doomed, k)
    ELSE InSsts(DOMAIN readers, k)

VisibleStore == [k \in Keys |-> Visible(Holding(k), now)]
VisibleExpiry == [k \in Keys |-> IF Live(Holding(k), now) THEN Holding(k).exp ELSE Never]

KV == INSTANCE KVStore WITH store <- VisibleStore, expiry <- VisibleExpiry

(* ImplementsKVStore: no flush, manifest save, log truncation, compaction   *)
(* or removal of a file changes what any key reads as, and each write       *)
(* changes its own key in the way the API says.  Holds with at most two     *)
(* levels; see ReadsLatest for what goes wrong with three.                  *)
ImplementsKVStore == KV!Spec
=============================================================================
