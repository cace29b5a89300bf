----------------------------- MODULE MCPlayerSync -----------------------------
(* Small instances of PlayerSync for TLC. A uuid is written as the connection *)
(* that is listed under it.                                                   *)
EXTENDS PlayerSync

CONSTANTS p1, p2, p3

Two == {p1, p2}
Three == {p1, p2, p3}

\* Everybody has a uuid of its own.
OwnUuids == [p \in Players |-> p]

\* p1 and p2 are two connections of one player: nothing in the server refuses
\* the second login, and a client that reconnects is one until the first
\* connection has timed out.
SharedUuids == [p \in Players |-> IF p = p2 THEN p1 ELSE p]
===============================================================================
