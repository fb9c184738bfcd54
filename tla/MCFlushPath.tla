----------------------------- MODULE MCFlushPath -----------------------------
(* An instance of FlushPath for TLC: sixteen byte values, two-byte integers. *)
EXTENDS FlushPath

SmallKeys == { <<1>>, <<1, 0>>, <<2>> }
SmallVals == { << >>, <<7, 7, 7>> }
MagicBytes == <<4, 11>>
=============================================================================
