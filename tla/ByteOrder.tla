----------------------------- MODULE ByteOrder -----------------------------
(***************************************************************************)
(* Byte strings as sequences of numbers: their order, and integers packed   *)
(* into them with the least byte first (to_le_bytes, from_le_bytes).        *)
(***************************************************************************)
EXTENDS Integers, SequencesExt

(* The order of keys, that of byte slices.                                  *)
Less(a, b) ==
    \/ IsStrictPrefix(a, b)
    \/ \E i \in DOMAIN a \cap DOMAIN b :
          a[i] < b[i] /\ \A j \in 1 .. i - 1 : a[j] = b[j]

(* n with its last 0 .. width digits cut off.                               *)
Shifted(n, width, base) ==
    LET left[i \in 0 .. width] == IF i = 0 THEN n ELSE left[i - 1] \div base
    IN  left

(* n as width digits in the given base; what does not fit is cut off.       *)
ToLE(n, width, base) ==
    LET left == Shifted(n, width, base) IN [i \in 1 .. width |-> left[i - 1] % base]

Fits(n, width, base) == Shifted(n, width, base)[width] = 0

(* The number that the last i digits make.                                  *)
Summed(digits, base) ==
    LET sum[i \in 0 .. Len(digits)] ==
            IF i = 0 THEN 0 ELSE base * sum[i - 1] + digits[Len(digits) - i + 1]
    IN  sum

FromLE(digits, base) == Summed(digits, base)[Len(digits)]
=============================================================================
