----------------------------- MODULE MCByteStore -----------------------------
(* An instance of ByteStore for TLC: sixteen byte values, two-byte integers. *)
EXTENDS ByteStore

(* 15 is the greatest byte.                                                 *)
SmallKeys == { <<1>>, <<1, 15>>, <<2>> }

(* Ordinary values and the empty one, the tombstone, and a value that looks *)
(* like one with a time to live.                                            *)
SmallPuts ==
    { << <<1>>, <<5>> >>, << <<1, 15>>, <<7, 8>> >>, << <<2>>, << >> >>,
      << <<2>>, <<0>> >>, << <<2>>, <<1, 9, 9>> >> }

SmallPrefixes == { << >>, <<1>>, <<1, 2>>, <<1, 15>>, <<15>> }

PutW == <<11>>
DeleteW == <<12>>
BatchW == <<13>>

SmallBatches ==
    { << BatchPut(<<2>>, <<5>>), BatchPut(<<1, 15>>, <<7, 8>>) >>,
      << BatchDelete(<<2>>), BatchPut(<<2>>, <<5>>) >>,
      << BatchPut(<<2>>, <<5>>), BatchDelete(<<2>>) >> }

SmallBadCommands == { << PutW, <<2>> >>, << BatchW, <<5>>, <<1>>, <<2>>, <<1>> >> }
=============================================================================
