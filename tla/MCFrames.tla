------------------------------- MODULE MCFrames -------------------------------
(* Frames over bytes of three bits, so that the lengths of frames, four and   *)
(* up, take two bytes, and thresholds on which bodies lie, below and above.   *)
EXTENDS Frames

\* Bodies of one byte more than each other, past the threshold on either side.
MCSpoken == {[k \in 1 .. n |-> IF k = 1 THEN 3 ELSE 7 - k] : n \in {1, 2, 3}}

\* And one there is room for only in play.
MCBodies == MCSpoken \cup {<<3, 5, 4, 5>>}
===============================================================================
