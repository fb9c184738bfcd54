----------------------------- MODULE BlockCache -----------------------------
(***************************************************************************)
(* The LRU cache of decoded blocks (src/src/cache/block_cache.rs), as       *)
(* operators on a cache value: blocks by cache key, the recency list with   *)
(* the most recent key first, and the running total of their sizes.         *)
(***************************************************************************)
EXTENDS Integers, SequencesExt

CONSTANT Capacity     \* block_cache_size, in bytes; 0 turns the cache off

ASSUME CapacityAssumption == Capacity \in Nat

EmptyCache == [map |-> << >>, order |-> << >>, size |-> 0]

(* The bytes a cached block counts for; 0 for a key that is not cached.     *)
SizeOf(c, key) == IF key \in DOMAIN c.map THEN c.map[key].size ELSE 0

(* The bytes of the first n of the keys, for each n, and of all of them.    *)
Totals(c, keys) ==
    LET t[n \in 0 .. Len(keys)] == IF n = 0 THEN 0 ELSE t[n - 1] + SizeOf(c, keys[n])
    IN  t

TotalSize(c, keys) == Totals(c, keys)[Len(keys)]

(* retain(|k| k != key) on a recency list: what is left of the first n.     *)
Retained(order, key) ==
    LET r[n \in 0 .. Len(order)] ==
            IF n = 0 THEN << >>
            ELSE IF order[n] = key THEN r[n - 1] ELSE Append(r[n - 1], order[n])
    IN  r

Retain(order, key) == Retained(order, key)[Len(order)]

(* Mutant of Touch: a hit leaves the recency list alone.                    *)
TouchNothing(c, key) == c

(* What get does on a hit.                                                  *)
Touch(c, key) ==
    [map |-> c.map, order |-> <<key>> \o Retain(c.order, key), size |-> c.size]

(* The entry put replaces, taken out.                                       *)
Without(c, key) ==
    [map |-> [x \in DOMAIN c.map \ {key} |-> c.map[x]],
     order |-> IF key \in DOMAIN c.map THEN Retain(c.order, key) ELSE c.order,
     size |-> c.size - SizeOf(c, key)]

(* The total after n rounds of the eviction loop, which pops the back.      *)
Popped(c) ==
    LET left[n \in 0 .. Len(c.order)] ==
            IF n = 0 THEN c.size
            ELSE left[n - 1] - SizeOf(c, c.order[Len(c.order) - n + 1])
    IN  left

(* Mutant of Rounds: one entry at most makes room.                          *)
RoundsOne(c, bytes) == IF c.size + bytes > Capacity /\ c.order # << >> THEN 1 ELSE 0

(* How many rounds it takes to make room for bytes more.                    *)
Rounds(c, bytes) ==
    Min({n \in 0 .. Len(c.order) : n = Len(c.order) \/ Popped(c)[n] + bytes <= Capacity})

(* The eviction loop of put.                                                *)
Evict(c, bytes) ==
    LET n == Rounds(c, bytes)
        kept == SubSeq(c.order, 1, Len(c.order) - n)
        gone == SubSeq(c.order, Len(c.order) - n + 1, Len(c.order))
    IN  [map |-> [x \in DOMAIN c.map \ ToSet(gone) |-> c.map[x]],
         order |-> kept,
         size |-> Popped(c)[n]]

(* put.                                                                     *)
Insert(c, key, block) ==
    LET e == Evict(Without(c, key), block.size)
    IN  [map |-> [x \in DOMAIN e.map \cup {key} |-> IF x = key THEN block ELSE e.map[x]],
         order |-> <<key>> \o e.order,
         size |-> e.size + block.size]
=============================================================================
