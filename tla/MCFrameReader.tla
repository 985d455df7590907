---------------------------- MODULE MCFrameReader -----------------------------
(***************************************************************************)
(* Frames for the run of FrameReader.  MaxFrameSize is 12: a GOAWAY with 4 *)
(* bytes of debug data is of the greatest size, two settings fit it.       *)
(***************************************************************************)
EXTENDS FrameReader

Own == {
    [type |-> "DATA", id |-> 1, flag |-> TRUE, prio |-> FALSE, n |-> 0],
    [type |-> "HEADERS", id |-> 1, flag |-> FALSE, prio |-> TRUE, n |-> 2],
    [type |-> "SETTINGS", id |-> 0, flag |-> FALSE, prio |-> FALSE, n |-> 2],
    [type |-> "WINDOW_UPDATE", id |-> 0, flag |-> FALSE, prio |-> FALSE, n |-> 7],
    [type |-> "GOAWAY", id |-> 0, flag |-> FALSE, prio |-> FALSE, n |-> 4]}

Wire(type, id, len, pad, value) ==
    [type |-> type, id |-> id, flag |-> type = "DATA", prio |-> type = "HEADERS",
     len |-> len, pad |-> pad, value |-> value]

\* Of others.  Padding that leaves one byte of data, that leaves a priority and
\* no more, that leaves a promise; padding longer than the frame, or that eats
\* into the priority; SETTINGS on a stream, a zero increment, a frame that is
\* too large.
Foreign == {
    Wire("DATA", 1, 6, 4, 1), Wire("HEADERS", 1, 8, 2, 1), Wire("PUSH_PROMISE", 1, 6, 1, 1),
    Wire("DATA", 1, 6, 6, 1), Wire("HEADERS", 1, 8, 3, 1), Wire("SETTINGS", 1, 0, NoPad, 1),
    Wire("WINDOW_UPDATE", 1, 4, NoPad, 0), Wire("DATA", 1, 13, NoPad, 1)}

\* None of them is padding only, though legal.
ASSUME ForeignAssumption == NothingOnlyPadded
===============================================================================
