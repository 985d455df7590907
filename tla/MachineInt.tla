------------------------------ MODULE MachineInt ------------------------------
(***************************************************************************)
(* The fixed-width integers the connection layer counts bytes with: i32    *)
(* for windows, u32 for counters and frame fields, usize (wider) for       *)
(* lengths.  A release build wraps on overflow, which is what is modelled; *)
(* a build with overflow checks panics at the same step.                   *)
(*                                                                         *)
(* Every sum below has operands that are in range, so its exact value is   *)
(* less than one modulus away and wrapping is one conditional correction.  *)
(***************************************************************************)
EXTENDS Integers

CONSTANTS
    I32Max,     \* i32::MAX, 2^31 - 1 in the code
    USizeMod    \* number of usize values, 2^64 in the code

ASSUME MachineIntAssumption ==
    /\ \E h \in 0 .. I32Max : I32Max = 2 * h + 1
    /\ USizeMod \in Nat
    /\ USizeMod > 4 * (I32Max + 1)

I32Min  == -(I32Max + 1)
U32Max  == 2 * I32Max + 1
U32Mod  == U32Max + 1

I32   == I32Min .. I32Max
U32   == 0 .. U32Max
U31   == 0 .. I32Max    \* the fields whose top bit the decoder rejects or masks
USize == 0 .. USizeMod - 1

\* The result of an i32 `+=` or `-=` whose exact value is x.
WrapI32(x) == IF x > I32Max THEN x - U32Mod
              ELSE IF x < I32Min THEN x + U32Mod ELSE x

\* The result of a u32 `+=` whose exact value is x.
WrapU32(x) == IF x > U32Max THEN x - U32Mod ELSE x

\* `u as i32`: the same bits, read as signed.
AsI32(u) == IF u > I32Max THEN u - U32Mod ELSE u

\* `i as usize`: sign extension, so that a negative number is a huge length.
AsUSize(i) == IF i < 0 THEN i + USizeMod ELSE i

Lesser(a, b) == IF a <= b THEN a ELSE b
===============================================================================
