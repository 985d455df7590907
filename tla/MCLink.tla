-------------------------------- MODULE MCLink --------------------------------
(***************************************************************************)
(* Exchanges for the runs of Link.                                         *)
(***************************************************************************)
EXTENDS Link

\* Each body fits the window of its stream.  The answers together exceed the
\* window of the connection, and so do the upload and either of them, which
\* the code takes out of the same window.
Fitting == <<[up |-> 3, down |-> 3], [up |-> 0, down |-> 2]>>

\* A body of one byte more than the initial window of a stream.
TooLong == <<[up |-> 0, down |-> 5]>>
===============================================================================
