-------------------------------- MODULE Exchange -------------------------------
(***************************************************************************)
(* What a client and a server promise their applications, whatever frames  *)
(* and windows it takes.  An exchange is a message up and a message down;  *)
(* a message is a sequence of parts, of which "end" and "reset" are last.  *)
(* The server's application speaks of an exchange it has heard of, and     *)
(* each application hears what the other one said: all of it in order,     *)
(* with nothing left out, repeated or made up, and later.                  *)
(***************************************************************************)
EXTENDS Naturals, Sequences

CONSTANT Ids

VARIABLES
    said,   \* direction and id -> the parts handed over
    heard   \* ... and the parts that have come out

Messages == {"up", "down"} \X Ids
Closing  == {"end", "reset"}

Extends(longer, shorter) ==
    /\ Len(longer) > Len(shorter)
    /\ SubSeq(longer, 1, Len(shorter)) = shorter

OnlyLast(parts) == \A k \in 1 .. Len(parts) - 1 : parts[k] \notin Closing

Init == said = [m \in Messages |-> <<>>] /\ heard = [m \in Messages |-> <<>>]

Say(m) ==
    /\ m[1] = "down" => heard[<<"up", m[2]>>] # <<>>
    /\ Extends(said'[m], said[m]) /\ OnlyLast(said'[m])
    /\ said' = [said EXCEPT ![m] = said'[m]]
    /\ UNCHANGED heard

Hear(m) ==
    /\ Extends(heard'[m], heard[m]) /\ Len(heard'[m]) <= Len(said[m])
    /\ heard'[m] = SubSeq(said[m], 1, Len(heard'[m]))
    /\ heard' = [heard EXCEPT ![m] = heard'[m]]
    /\ UNCHANGED said

Next == \E m \in Messages : Say(m) \/ Hear(m)

Spec == Init /\ [][Next]_<<said, heard>>
===============================================================================
