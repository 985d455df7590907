---------------------------------- MODULE Bits --------------------------------
(***************************************************************************)
(* Numbers and bytes as bits, most significant first, for the codings of   *)
(* HPACK.                                                                  *)
(***************************************************************************)
EXTENDS Integers, Sequences

\* 2^n
Pow2[n \in Nat] == IF n = 0 THEN 1 ELSE 2 * Pow2[n - 1]

\* The bits of a number, and the number that some bits stand for.
BitsOf(n, count) == [k \in 1 .. count |-> (n \div Pow2[count - k]) % 2]
NumberOf(bits) ==
    LET upTo[k \in 0 .. Len(bits)] == IF k = 0 THEN 0 ELSE 2 * upTo[k - 1] + bits[k]
    IN upTo[Len(bits)]

\* Eight bits to a byte.
BytesOf(bits) == [k \in 1 .. Len(bits) \div 8 |-> NumberOf(SubSeq(bits, 8 * k - 7, 8 * k))]
===============================================================================
