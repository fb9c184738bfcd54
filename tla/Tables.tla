------------------------------- MODULE Tables -------------------------------
(***************************************************************************)
(* The data the engine moves around: the value stored for a key, and the   *)
(* sorted tables that hold one stored value for each key (the skip lists    *)
(* of the memtable, the SSTables, and what a replay of the log yields).     *)
(*                                                                         *)
(* A stored value carries what engine.rs packs into its bytes: a sequence   *)
(* number, the value or the tombstone, and an expiry.  Vals stands for      *)
(* payloads that survive that packing (shorter than 8 bytes when they come  *)
(* from a batch, not the tombstone byte, not starting like a TTL header).   *)
(***************************************************************************)
EXTENDS Integers, FiniteSets

CONSTANTS
    Keys,      \* the keys, as numbers: only their order matters
    Vals,      \* user values
    Tomb,      \* the TOMBSTONE marker
    Absent     \* "no value": what get returns for a missing key

ASSUME KeysAssumption == Keys \subseteq Nat /\ Keys # {} /\ IsFiniteSet(Keys)
ASSUME ValsAssumption == Tomb \notin Vals /\ Absent \notin Vals /\ Tomb # Absent

Never == -1          \* expiry of a value written without a time-to-live

Entry == [seq : Nat, val : Vals \cup {Tomb, Absent}, exp : Int]

NoEntry == [seq |-> 0, val |-> Absent, exp |-> Never]

(* encode_with_seq, with the TTL header put_with_ttl adds.                  *)
Stored(v, s, e) == [seq |-> s, val |-> v, exp |-> e]

Table == [Keys -> Entry]

EmptyTable == [k \in Keys |-> NoEntry]

Held(t) == {k \in Keys : t[k] # NoEntry}

(* unpack_inner: neither a tombstone nor past its expiry at time now.       *)
Live(e, now) == e.val \in Vals /\ (e.exp = Never \/ now < e.exp)

(* unpack_value: what a client sees of a stored value.                      *)
Visible(e, now) == IF Live(e, now) THEN e.val ELSE Absent

(* min_key and max_key of a non-empty table.                                *)
Spans(t, lo, hi) ==
    /\ lo \in Held(t) /\ hi \in Held(t)
    /\ \A k \in Held(t) : lo <= k /\ k <= hi
=============================================================================
