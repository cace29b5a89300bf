------------------------------ MODULE PlayerList ------------------------------
(* What the player synchronization of src/client/sync.go promises, with no    *)
(* goroutine, lock or packet in it: players enter a world and leave it, any   *)
(* two players settled in it see each other, and nobody settled in it sees a  *)
(* player whose departure is complete. PlayerSync.tla is the code, and        *)
(* implements this module.                                                    *)

CONSTANT Players   \* the connections of one server, one player each

VARIABLES
  phase,   \* where each player's stay stands, one of Phases
  sees     \* sees[r] is the set of other players on r's screen

listVars == <<phase, sees>>

Phases == {"out", "joining", "in", "leaving", "left"}

ListInit == /\ phase = [p \in Players |-> "out"]
            /\ sees  = [p \in Players |-> {}]

Move(p, from, to) == /\ phase[p] = from
                     /\ phase' = [phase EXCEPT ![p] = to]
                     /\ UNCHANGED sees

Enter(p) == Move(p, "out", "joining")

\* A join is over once it owes nobody anything: the player sees everyone that
\* is settled, they see it, and what it saw of those that left is gone again.
Settle(p) == /\ Move(p, "joining", "in")
             /\ \A q \in Players \ {p} :
                  /\ phase[q] = "in"   => q \in sees[p] /\ p \in sees[q]
                  /\ phase[q] = "left" => q \notin sees[p]

Leave(p) == Move(p, "in", "leaving")

\* A departure is complete once nobody settled sees the player any more.
Depart(p) == /\ Move(p, "leaving", "left")
             /\ \A q \in Players \ {p} : phase[q] = "in" => p \notin sees[q]

\* A connection that ends before its player entered the world.
Abandon(p) == Move(p, "out", "left")

\* A player appears on a screen while it is in the world, or, late, to someone
\* whose own join is still catching up with who left.
Appear(r, o) == /\ r # o
                /\ phase[r] # "out"
                /\ \/ phase[o] \in {"joining", "in"}
                   \/ phase[o] \in {"leaving", "left"} /\ phase[r] = "joining"
                /\ sees' = [sees EXCEPT ![r] = @ \cup {o}]
                /\ UNCHANGED phase

\* Only a player that left disappears.
Disappear(r, o) == /\ phase[o] \in {"leaving", "left"}
                   /\ sees' = [sees EXCEPT ![r] = @ \ {o}]
                   /\ UNCHANGED phase

ListNext == \/ \E p \in Players : \/ Enter(p) \/ Settle(p) \/ Leave(p)
                                  \/ Depart(p) \/ Abandon(p)
            \/ \E r, o \in Players : Appear(r, o) \/ Disappear(r, o)

ListSafety == ListInit /\ [][ListNext]_listVars

\* What a join or a departure has begun, it ends.
ListLiveness == \A p \in Players : /\ phase[p] = "joining" ~> phase[p] = "in"
                                   /\ phase[p] = "leaving" ~> phase[p] = "left"

ListSpec == ListSafety /\ ListLiveness
===============================================================================
