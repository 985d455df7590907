----------------------------- MODULE MCConnection -----------------------------
(***************************************************************************)
(* Small instances of Connection for TLC.                                  *)
(***************************************************************************)
EXTENDS Connection

NoSettings == [x \in {} |-> 0]

\* SETTINGS that leave everything alone, shrink and grow the initial window.
EmptySettings  == {NoSettings}
ResizeSettings == {NoSettings} \cup {[x \in {"initialWindow"} |-> w] : w \in {0, 6}}

\* The initial window shrinks, or grows together with the frames.
FlowSettings == {[x \in {"initialWindow"} |-> 0], [x \in {"initialWindow", "maxFrame"} |-> 6]}
===============================================================================
