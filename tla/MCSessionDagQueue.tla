-------------------------- MODULE MCSessionDagQueue --------------------------
(* Backoff values for TLC.  The configured default, 0 3000 5000 10000 ms, is *)
(* a first retry at once and then growing delays.                            *)
EXTENDS SessionDagQueue

ZeroThenOne == <<0, 1>>
AlwaysOne == <<1>>
=============================================================================
