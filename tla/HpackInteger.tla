----------------------------- MODULE HpackInteger -----------------------------
(***************************************************************************)
(* hpack/encode.rs and hpack/decode.rs: integers with a prefix.  The low   *)
(* bits of the first byte hold a small value; a larger one fills them and  *)
(* goes on in groups of seven bits, least significant first, the top bit   *)
(* of a byte saying that another follows.                                  *)
(*                                                                         *)
(* usize has WordBits bits here and 64 in the code.                        *)
(***************************************************************************)
EXTENDS Bits

CONSTANT WordBits

ASSUME HpackIntegerAssumption == WordBits \in Nat \ {0}

WordMax == Pow2[WordBits] - 1

\* What fills a prefix.
Full(prefixBits) == Pow2[prefixBits] - 1

\* The bytes of n behind a full prefix.
Groups[n \in Nat] == IF n < 128 THEN <<n>> ELSE <<128 + (n % 128)>> \o Groups[n \div 128]

\* SEEDED FAULT: a value that just fills the prefix is written in it alone.
EncodeIntegerTight(value, prefixBits, mark) ==
    IF value <= Full(prefixBits) THEN <<mark + value>>
    ELSE <<mark + Full(prefixBits)>> \o Groups[value - Full(prefixBits)]

\* encode_integer: mark is the representation's pattern above the prefix.
EncodeInteger(value, prefixBits, mark) ==
    IF value < Full(prefixBits) THEN <<mark + value>>
    ELSE <<mark + Full(prefixBits)>> \o Groups[value - Full(prefixBits)]

\* SEEDED FAULT: only the shift is looked at, and bits shifted out are lost.
OverflowsLate(digit, shift) == shift >= WordBits

\* A digit shifted past the word, or a bit of it.
Overflows(digit, shift) == shift >= WordBits \/ digit > WordMax \div Pow2[shift]

\* What decode_integer knows after each byte: Reading, Done, or the error.
Take(before, byte, shift) ==
    LET digit == byte % 128
        sum   == before.value + ((digit * Pow2[shift]) % Pow2[WordBits])
    IN IF Overflows(digit, shift) \/ sum > WordMax
       THEN [before EXCEPT !.is = "InvalidInteger"]
       ELSE [is    |-> IF byte < 128 THEN "Done" ELSE "Reading",
             value |-> sum,
             used  |-> before.used + 1]

\* The loop of decode_integer, byte by byte.
Reading(data, prefixBits) ==
    LET first == data[1] % Pow2[prefixBits]
        after[k \in 1 .. Len(data)] ==
            IF k = 1
            THEN [is |-> IF first < Full(prefixBits) THEN "Done" ELSE "Reading",
                  value |-> first, used |-> 1]
            ELSE LET before == after[k - 1] IN
                 IF before.is = "Reading" THEN Take(before, data[k], 7 * (k - 2)) ELSE before
    IN after

\* decode_integer: the value and how many bytes it took, or an error.  The loop
\* ends with the first byte behind the prefix that has no top bit.
DecodeInteger(data, prefixBits) ==
    LET ends == {k \in 2 .. Len(data) : data[k] < 128}
        last == Reading(data, prefixBits)[IF ends = {} THEN Len(data)
                                          ELSE CHOOSE k \in ends : \A j \in ends : k <= j]
    IN IF data = <<>> \/ last.is = "Reading"
       THEN [is |-> "Incomplete", value |-> 0, used |-> 0]
       ELSE last
===============================================================================
