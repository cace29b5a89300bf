------------------------------- MODULE MCReactor -------------------------------
(* Small instances of Reactor for TLC.                                        *)
EXTENDS Reactor, TLC

CONSTANTS c1, c2, f1, f2

\* One connection is served through the reactor, the other need only join.
ThreeAndOne == [c \in Clients |-> IF c = c1 THEN 3 ELSE 1]

\* The number of a descriptor tells nothing.
Symmetry == Permutations(Fds)
===============================================================================
