------------------------------- MODULE MCHpack --------------------------------
(***************************************************************************)
(* Header fields for the runs of Hpack: names a and b with two values, one *)
(* static field, a name that the static table has, and a field that fits   *)
(* the table only by itself.                                               *)
(***************************************************************************)
EXTENDS Hpack

F(name, value) == [name |-> name, value |-> value]
Small == {F("a", 1), F("a", 2), F("b", 1), F("s", 1)}
Large == F("b", 9)

AllFields == Small \cup {F("s", 0), Large}
FieldSize(f) == IF f = Large THEN 3 ELSE IF f.value = 2 THEN 2 ELSE 1

Lists == {<<f>> : f \in AllFields} \cup {<<F("a", 1), F("a", 2)>>, <<F("b", 1), F("a", 1), F("s", 1)>>}
OtherL == {<<F("a", 1)>>, <<Large>>, <<F("b", 1), F("a", 1), F("s", 1)>>, <<F("s", 0)>>, <<F("a", 2)>>}
StaticOnly == {<<F("s", 0)>>}
StaticF == {F("s", 0)}
StaticN == {"s"}
===============================================================================
