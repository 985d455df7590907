-------------------------- MODULE MCServerConnection --------------------------
(***************************************************************************)
(* Small instances of ServerConnection for TLC.                            *)
(***************************************************************************)
EXTENDS ServerConnection

NoSettings == [x \in {} |-> 0]

\* SETTINGS that leave everything alone.
EmptySettings == {NoSettings}
===============================================================================
