--------------------------------- MODULE Fifo ---------------------------------
(***************************************************************************)
(* What a coded stream promises, whatever carries it: messages come out as *)
(* they went in, each once, in the order they were sent, some time later.  *)
(* FrameReader implements it for frames and Hpack for header lists.        *)
(***************************************************************************)
EXTENDS Naturals, Sequences

VARIABLES sent, received

Init == sent = <<>> /\ received = <<>>

Send == /\ Len(sent') > Len(sent)
        /\ SubSeq(sent', 1, Len(sent)) = sent
        /\ UNCHANGED received

Receive == /\ Len(received') > Len(received)
           /\ Len(received') <= Len(sent)
           /\ received' = SubSeq(sent, 1, Len(received'))
           /\ UNCHANGED sent

Next == Send \/ Receive

Spec == Init /\ [][Next]_<<sent, received>>
===============================================================================
