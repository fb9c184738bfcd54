----------------------------- MODULE MCReadPath -----------------------------
(* An instance of ReadPath for TLC.                                        *)
EXTENDS ReadPath

E(k, v) == [key |-> k, val |-> v]

(* Three keys with common prefixes, packed into one block, and a value      *)
(* larger than a block and than the whole cache; a table of one block; a    *)
(* table that holds one of the keys with another value.                     *)
SmallTables ==
    { << E(<<0>>, 1), E(<<0, 0>>, 1), E(<<0, 1>>, 1), E(<<1>>, 40) >>,
      << E(<<0>>, 2), E(<<0, 1>>, 2) >>,
      << E(<<0, 1>>, 3) >> }

(* The keys of the tables, and one before, between and after them.          *)
LookedUp == { << >>, <<0>>, <<0, 0>>, <<0, 0, 1>>, <<0, 1>>, <<1>>, <<1, 0>> }

(* A hash that makes different keys collide.                                *)
SmallHash(key) == <<Len(key), 1 + 2 * Len(key)>>
=============================================================================
