--------------------------- MODULE PlayerSyncProofs ---------------------------
(* What holds of the player synchronization whatever the connections are: its *)
(* types, no ghosts, nobody missing, how a client's world follows its         *)
(* connection's record when packets are refused, and that all of it           *)
(* implements PlayerList.                                                     *)
(*                                                                            *)
(* And what the clients draw of each other, however often they move: nothing  *)
(* is relayed about a player the record lacks, no entity jumps back to where  *)
(* its player was, and a client that a move has reached draws the player      *)
(* where it is, if that is a place it can be told.                            *)
EXTENDS PlayerSync, TLAPS

-------------------------------------------------------------------------------
(* The inductive invariant. NoGhosts and MutualSight speak of players whose   *)
(* join is over; these are the obligations still open while one is under way. *)

\* A player is on the roster from its add to its remove.
Places == \A p \in Players : p \in roster <=> pc[p] \in Joining \cup Settled

\* Nobody is shown itself, or visits itself.
Visiting == {"showOther", "showSelf", "recheck", "unghost"}
Others == \A p \in Players : /\ p \notin shown[p]
                             /\ p \notin todo[p]
                             /\ pc[p] \in Visiting => cur[p] # p

\* Only players that have been on the roster are shown, or shown to.
Entered == \A p, q \in Players :
  /\ q \in shown[p] => pc[p] # "out" /\ pc[q] # "out"
  /\ q \in todo[p] => pc[q] # "out"
  /\ pc[p] \in Visiting => pc[cur[p]] # "out"

\* A player found off the roster stays off it.
Unghosting == \A p \in Players : pc[p] = "unghost" => cur[p] \notin roster

\* A player that left is in a record only while somebody is bound to take it
\* out: its own departure, or the recheck of the join that put it there.
GhostsPending ==
  \A r, o \in Players : r \in roster /\ o \in shown[r] =>
    \/ o \in roster
    \/ pc[o] = "left"
    \/ pc[o] = "leaving" /\ r \in todo[o]
    \/ pc[r] \in {"showSelf", "recheck", "unghost"} /\ cur[r] = o

\* Of two players in the world one is not in the other's record only while a
\* join of either is bound to put it there.
WillVisit(p, q) == pc[p] = "added" \/ (pc[p] \in Joining /\ q \in todo[p])
SightPending ==
  \A r, o \in roster : r # o =>
    \/ o \in shown[r]
    \/ WillVisit(r, o) \/ (pc[r] = "showOther" /\ cur[r] = o)
    \/ WillVisit(o, r) \/ (pc[o] \in {"showOther", "showSelf"} /\ cur[o] = r)

SyncInv == /\ TypeOK /\ Places /\ Others /\ Entered /\ Unghosting
           /\ GhostsPending /\ SightPending

-------------------------------------------------------------------------------
(* Types                                                                      *)

\* What a spawn and a relay make of an entity is something a client can draw.
LEMMA LookType ==
  /\ NoPose \in Pose /\ NoLook \in Look
  /\ \A s \in Pose : Spawned(s) \in Look
  /\ \A look \in Look, k \in Kinds, s \in Pose : Relayed(look, k, s) \in Look
<1>1. NoPose \in Pose
  BY MovesAssumption DEF NoPose, Pose
<1>2. ASSUME NEW s \in Pose PROVE Spawned(s) \in Look
  BY DEF Pose, Spawned, Look
<1>3. ASSUME NEW look \in Look, NEW k \in Kinds, NEW s \in Pose
      PROVE  Relayed(look, k, s) \in Look
  BY DEF Pose, Relayed, Look, Kinds
<1> QED BY <1>1, <1>2, <1>3 DEF NoLook

\* showPlayer keeps the types of what it writes.
LEMMA ShowType ==
  ASSUME TypeOK, NEW r \in Players, NEW o \in Players, NEW s \in Pose,
         ShowPlayer(r, o, s)
  PROVE  /\ shown' \in [Players -> SUBSET Players]
         /\ entities' \in [Players -> SUBSET Players]
         /\ listed' \in [Players -> SUBSET Uuids]
         /\ screen' \in [Players -> [Players -> Look]]
<1>1. Uuid[o] \in Uuids
  BY UuidAssumption
<1>2. Spawned(s) \in Look
  BY LookType
<1>3. shown' \in [Players -> SUBSET Players]
  BY DEF ShowPlayer, TypeOK
<1>4. CASE o \in shown[r] \/ r \in dead
  BY <1>3, <1>4 DEF ShowPlayer, Unwritten, TypeOK
<1>5. CASE ~(o \in shown[r] \/ r \in dead)
  <2>1. entities' = entities \/ entities' = [entities EXCEPT ![r] = @ \cup {o}]
    BY <1>5 DEF ShowPlayer
  <2>2. listed' = [listed EXCEPT ![r] = @ \cup {Uuid[o]}]
    BY <1>5 DEF ShowPlayer
  <2>3. screen' = screen \/ screen' = [screen EXCEPT ![r][o] = Spawned(s)]
    BY <1>5 DEF ShowPlayer
  <2>4. /\ entities \in [Players -> SUBSET Players] /\ listed \in [Players -> SUBSET Uuids]
        /\ screen \in [Players -> [Players -> Look]]
    BY DEF TypeOK
  <2>5. entities' \in [Players -> SUBSET Players]
    BY <2>1, <2>4
  <2>6. listed' \in [Players -> SUBSET Uuids]
    BY <1>1, <2>2, <2>4
  <2>7. screen' \in [Players -> [Players -> Look]]
    BY <1>2, <2>3, <2>4
  <2> QED BY <1>3, <2>5, <2>6, <2>7
<1> QED BY <1>4, <1>5

\* hidePlayer does so too.
LEMMA HideType ==
  ASSUME TypeOK, NEW r \in Players, NEW o \in Players, HidePlayer(r, o)
  PROVE  /\ shown' \in [Players -> SUBSET Players]
         /\ entities' \in [Players -> SUBSET Players]
         /\ listed' \in [Players -> SUBSET Uuids]
         /\ screen' \in [Players -> [Players -> Look]]
<1>1. shown' \in [Players -> SUBSET Players]
  BY DEF HidePlayer, TypeOK
<1>2. CASE o \notin shown[r] \/ r \in dead
  BY <1>1, <1>2 DEF HidePlayer, Unwritten, TypeOK
<1>3. CASE ~(o \notin shown[r] \/ r \in dead)
  <2>1. entities' = [entities EXCEPT ![r] = @ \ {o}]
    BY <1>3 DEF HidePlayer
  <2>2. listed' = listed \/ listed' = [listed EXCEPT ![r] = @ \ {Uuid[o]}]
    BY <1>3 DEF HidePlayer
  <2>3. screen' = [screen EXCEPT ![r][o] = NoLook]
    BY <1>3 DEF HidePlayer
  <2>4. /\ entities \in [Players -> SUBSET Players] /\ listed \in [Players -> SUBSET Uuids]
        /\ screen \in [Players -> [Players -> Look]]
    BY DEF TypeOK
  <2>5. entities' \in [Players -> SUBSET Players]
    BY <2>1, <2>4
  <2>6. listed' \in [Players -> SUBSET Uuids]
    BY <2>2, <2>4
  <2>7. screen' \in [Players -> [Players -> Look]]
    BY <2>3, <2>4, LookType
  <2> QED BY <1>1, <2>5, <2>6, <2>7
<1> QED BY <1>2, <1>3

\* A step of a goroutine goes from one of its places in the code to another.
LEMMA GotoType ==
  ASSUME TypeOK, NEW p \in Players, NEW from, NEW to \in PCs, Goto(p, from, to)
  PROVE  /\ pc' \in [Players -> PCs]
         /\ pc[p] = from /\ pc'[p] = to
         /\ \A q \in Players \ {p} : pc'[q] = pc[q]
  BY DEF Goto, TypeOK

\* The recorded pose of a move is a pose.
LEMMA RecordType ==
  ASSUME TypeOK, NEW p \in Players, Sync(p)
  PROVE  \E k \in Kinds, s \in Pose : Record(p, k, s)
<1>1. pose[p] \in Pose /\ moves[p] \in 0..MaxMoves
  BY DEF TypeOK
<1>2. moves[p] < MaxMoves
  BY DEF Sync, SyncPosition, SyncRotation, SyncPositionRotation, SyncSneaking,
         SyncSwing, Record
<1>3. moves[p] + 1 \in 0..MaxMoves
  BY <1>1, <1>2, MovesAssumption
<1>4. CASE SyncPosition(p)
  <2> PICK f \in Reaches(p) :
        Record(p, "position", [pose[p] EXCEPT !.pos = moves[p] + 1, !.far = f])
    BY <1>4 DEF SyncPosition
  <2>1. [pose[p] EXCEPT !.pos = moves[p] + 1, !.far = f] \in Pose
    BY <1>1, <1>3 DEF Pose, Reaches
  <2> QED BY <2>1 DEF Kinds
<1>5. CASE SyncRotation(p)
  <2>1. [pose[p] EXCEPT !.yaw = moves[p] + 1] \in Pose
    BY <1>1, <1>3 DEF Pose
  <2> QED BY <2>1, <1>5 DEF SyncRotation, Kinds
<1>6. CASE SyncPositionRotation(p)
  <2> PICK f \in Reaches(p) :
        Record(p, "rotation", [pose[p] EXCEPT !.pos = moves[p] + 1,
                                              !.yaw = moves[p] + 1, !.far = f])
    BY <1>6 DEF SyncPositionRotation
  <2>1. [pose[p] EXCEPT !.pos = moves[p] + 1, !.yaw = moves[p] + 1, !.far = f] \in Pose
    BY <1>1, <1>3 DEF Pose, Reaches
  <2> QED BY <2>1 DEF Kinds
<1>7. CASE SyncSneaking(p)
  <2>1. [pose[p] EXCEPT !.sneaking = ~@] \in Pose
    BY <1>1 DEF Pose
  <2> QED BY <2>1, <1>7 DEF SyncSneaking, Kinds
<1>8. CASE SyncSwing(p)
  BY <1>1, <1>8 DEF SyncSwing, Kinds
<1> QED BY <1>4, <1>5, <1>6, <1>7, <1>8 DEF Sync

\* No step leaves the types.
LEMMA TypeStep == TypeOK /\ [Next]_vars => TypeOK'
<1> SUFFICES ASSUME TypeOK, [Next]_vars PROVE TypeOK'
  OBVIOUS
<1> USE DEF PCs, Joining, Settled, Leaving
<1>1. ASSUME NEW p \in Players, JoinAdd(p) PROVE TypeOK'
  BY <1>1, GotoType DEF JoinAdd, TypeOK, clients
<1>2. ASSUME NEW p \in Players, JoinOthers(p) PROVE TypeOK'
  BY <1>2, GotoType DEF JoinOthers, TypeOK, clients, server
<1>3. ASSUME NEW p \in Players, NEW o \in Players, JoinVisit(p, o) PROVE TypeOK'
  BY <1>3, GotoType DEF JoinVisit, TypeOK, clients, server
<1>4. ASSUME NEW p \in Players, JoinShowOther(p) PROVE TypeOK'
  <2>1. cur[p] \in Players /\ held[p] \in Pose
    BY DEF TypeOK
  <2> QED BY <1>4, <2>1, GotoType, ShowType, LookType DEF JoinShowOther, TypeOK
<1>5. ASSUME NEW p \in Players, JoinShowSelf(p) PROVE TypeOK'
  <2>1. cur[p] \in Players /\ pose[p] \in Pose
    BY DEF TypeOK
  <2> QED BY <1>5, <2>1, GotoType, ShowType DEF JoinShowSelf, TypeOK
<1>6. ASSUME NEW p \in Players, JoinRecheck(p) PROVE TypeOK'
  <2>1. pc' \in [Players -> PCs]
    BY <1>6, GotoType DEF JoinRecheck
  <2> QED BY <1>6, <2>1 DEF JoinRecheck, TypeOK, clients, server
<1>7. ASSUME NEW p \in Players, JoinUnghost(p) PROVE TypeOK'
  <2>1. cur[p] \in Players
    BY DEF TypeOK
  <2> QED BY <1>7, <2>1, GotoType, HideType DEF JoinUnghost, TypeOK
<1>8. ASSUME NEW p \in Players, JoinDone(p) PROVE TypeOK'
  BY <1>8, GotoType DEF JoinDone, TypeOK, clients, server
<1>9. ASSUME NEW p \in Players, Sync(p) PROVE TypeOK'
  <2> PICK k \in Kinds, s \in Pose : Record(p, k, s)
    BY <1>9, RecordType
  <2>1. moves[p] + 1 \in 0..MaxMoves
    BY MovesAssumption DEF Record, TypeOK
  <2> QED BY <2>1, GotoType DEF Record, TypeOK, clients
<1>10. ASSUME NEW p \in Players, RelayOthers(p) PROVE TypeOK'
  BY <1>10, GotoType DEF RelayOthers, TypeOK, clients, server
<1>11. ASSUME NEW p \in Players, NEW o \in Players, Relay(p, o) PROVE TypeOK'
  <2>1. screen' \in [Players -> [Players -> Look]]
    <3>1. Relayed(screen[o][p], kind[p], held[p]) \in Look
      BY LookType DEF TypeOK
    <3> QED BY <1>11, <3>1 DEF Relay, RelayToKnown, Undelivered, TypeOK
  <2> QED BY <1>11, <2>1 DEF Relay, TypeOK, server
<1>12. ASSUME NEW p \in Players, RelayDone(p) PROVE TypeOK'
  BY <1>12, GotoType, LookType DEF RelayDone, TypeOK, clients, server, Kinds
<1>13. ASSUME NEW p \in Players, LeaveRemove(p) PROVE TypeOK'
  BY <1>13, GotoType DEF LeaveRemove, TypeOK, clients
<1>14. ASSUME NEW p \in Players, LeaveUnjoined(p) PROVE TypeOK'
  BY <1>14, GotoType DEF LeaveUnjoined, TypeOK, clients, server
<1>15. ASSUME NEW p \in Players, LeaveOthers(p) PROVE TypeOK'
  BY <1>15, GotoType DEF LeaveOthers, TypeOK, clients, server
<1>16. ASSUME NEW p \in Players, NEW o \in Players, LeaveHide(p, o) PROVE TypeOK'
  BY <1>16, HideType DEF LeaveHide, TypeOK
<1>17. ASSUME NEW p \in Players, LeaveDone(p) PROVE TypeOK'
  BY <1>17, GotoType DEF LeaveDone, TypeOK, clients, server
<1>18. ASSUME NEW p \in Players, WriteFails(p) PROVE TypeOK'
  BY <1>18 DEF WriteFails, TypeOK, server, threads
<1>19. CASE UNCHANGED vars
  BY <1>19 DEF vars, server, threads, clients, TypeOK
<1> QED
  BY <1>1, <1>2, <1>3, <1>4, <1>5, <1>6, <1>7, <1>8, <1>9, <1>10, <1>11,
     <1>12, <1>13, <1>14, <1>15, <1>16, <1>17, <1>18, <1>19
  DEF Next, JoinStep, RelayStep, LeaveStep

\* Type correctness of the whole state, the clients' screens included.
THEOREM TypeCorrect == Spec => []TypeOK
<1>1. Init => TypeOK
  BY LookType, UuidAssumption, MovesAssumption DEF Init, TypeOK, PCs, Kinds
<1> QED BY <1>1, TypeStep, PTL DEF Spec


-------------------------------------------------------------------------------
(* Joins and leaves                                                           *)

\* The inductive invariant is preserved by every step.
LEMMA SyncStep == SyncInv /\ [Next]_vars => SyncInv'
<1> SUFFICES ASSUME SyncInv, [Next]_vars PROVE SyncInv'
  OBVIOUS
<1> USE DEF PCs, Joining, Settled, Leaving, Visiting, WillVisit
<1>0. TypeOK /\ TypeOK'
  BY TypeStep DEF SyncInv
<1>1. ASSUME NEW p \in Players, JoinAdd(p) PROVE SyncInv'
  <2>1. Places'
    BY <1>1, <1>0 DEF JoinAdd, Goto, clients, SyncInv, TypeOK, Places
  <2>2. Others'
    BY <1>1, <1>0 DEF JoinAdd, Goto, clients, SyncInv, TypeOK, Others
  <2>3. Entered'
    BY <1>1, <1>0 DEF JoinAdd, Goto, clients, SyncInv, TypeOK, Entered
  <2>4. Unghosting'
    BY <1>1, <1>0 DEF JoinAdd, Goto, clients, SyncInv, TypeOK, Unghosting,
       Places, Others, Entered
  <2>5. GhostsPending'
    BY <1>1, <1>0 DEF JoinAdd, Goto, clients, SyncInv, TypeOK, GhostsPending,
       Places, Others, Entered
  <2>6. SightPending'
    BY <1>1, <1>0 DEF JoinAdd, Goto, clients, SyncInv, TypeOK, SightPending
  <2> QED BY <1>0, <2>1, <2>2, <2>3, <2>4, <2>5, <2>6 DEF SyncInv
<1>2. ASSUME NEW p \in Players, JoinOthers(p) PROVE SyncInv'
  <2>1. Places'
    BY <1>2, <1>0 DEF JoinOthers, Goto, server, clients, SyncInv, TypeOK,
       Places
  <2>2. Others'
    BY <1>2, <1>0 DEF JoinOthers, Goto, server, clients, SyncInv, TypeOK,
       Others
  <2>3. Entered'
    BY <1>2, <1>0 DEF JoinOthers, Goto, server, clients, SyncInv, TypeOK,
       Entered, Places
  <2>4. Unghosting'
    BY <1>2, <1>0 DEF JoinOthers, Goto, server, clients, SyncInv, TypeOK,
       Unghosting
  <2>5. GhostsPending'
    BY <1>2, <1>0 DEF JoinOthers, Goto, server, clients, SyncInv, TypeOK,
       GhostsPending
  <2>6. SightPending'
    BY <1>2, <1>0 DEF JoinOthers, Goto, server, clients, SyncInv, TypeOK,
       SightPending
  <2> QED BY <1>0, <2>1, <2>2, <2>3, <2>4, <2>5, <2>6 DEF SyncInv
<1>3. ASSUME NEW p \in Players, NEW o \in Players, JoinVisit(p, o) PROVE SyncInv'
  <2>1. Places'
    BY <1>3, <1>0 DEF JoinVisit, Goto, server, clients, SyncInv, TypeOK,
       Places
  <2>2. Others'
    BY <1>3, <1>0 DEF JoinVisit, Goto, server, clients, SyncInv, TypeOK,
       Others
  <2>3. Entered'
    BY <1>3, <1>0 DEF JoinVisit, Goto, server, clients, SyncInv, TypeOK,
       Entered
  <2>4. Unghosting'
    BY <1>3, <1>0 DEF JoinVisit, Goto, server, clients, SyncInv, TypeOK,
       Unghosting
  <2>5. GhostsPending'
    BY <1>3, <1>0 DEF JoinVisit, Goto, server, clients, SyncInv, TypeOK,
       GhostsPending
  <2>6. SightPending'
    BY <1>3, <1>0 DEF JoinVisit, Goto, server, clients, SyncInv, TypeOK,
       SightPending
  <2> QED BY <1>0, <2>1, <2>2, <2>3, <2>4, <2>5, <2>6 DEF SyncInv
<1>4. ASSUME NEW p \in Players, JoinShowOther(p) PROVE SyncInv'
  <2>1. Places'
    BY <1>4, <1>0 DEF JoinShowOther, Goto, ShowPlayer, SyncInv, TypeOK, Places
  <2>2. Others'
    BY <1>4, <1>0 DEF JoinShowOther, Goto, ShowPlayer, SyncInv, TypeOK, Others
  <2>3. Entered'
    BY <1>4, <1>0 DEF JoinShowOther, Goto, ShowPlayer, SyncInv, TypeOK,
       Entered
  <2>4. Unghosting'
    BY <1>4, <1>0 DEF JoinShowOther, Goto, ShowPlayer, SyncInv, TypeOK,
       Unghosting
  <2>5. GhostsPending'
    BY <1>4, <1>0 DEF JoinShowOther, Goto, ShowPlayer, SyncInv, TypeOK,
       GhostsPending
  <2>6. SightPending'
    BY <1>4, <1>0 DEF JoinShowOther, Goto, ShowPlayer, SyncInv, TypeOK,
       SightPending
  <2> QED BY <1>0, <2>1, <2>2, <2>3, <2>4, <2>5, <2>6 DEF SyncInv
<1>5. ASSUME NEW p \in Players, JoinShowSelf(p) PROVE SyncInv'
  <2>1. Places'
    BY <1>5, <1>0 DEF JoinShowSelf, Goto, ShowPlayer, SyncInv, TypeOK, Places
  <2>2. Others'
    BY <1>5, <1>0 DEF JoinShowSelf, Goto, ShowPlayer, SyncInv, TypeOK, Others
  <2>3. Entered'
    BY <1>5, <1>0 DEF JoinShowSelf, Goto, ShowPlayer, SyncInv, TypeOK, Entered
  <2>4. Unghosting'
    BY <1>5, <1>0 DEF JoinShowSelf, Goto, ShowPlayer, SyncInv, TypeOK,
       Unghosting
  <2>5. GhostsPending'
    BY <1>5, <1>0 DEF JoinShowSelf, Goto, ShowPlayer, SyncInv, TypeOK,
       GhostsPending, Places
  <2>6. SightPending'
    BY <1>5, <1>0 DEF JoinShowSelf, Goto, ShowPlayer, SyncInv, TypeOK,
       SightPending
  <2> QED BY <1>0, <2>1, <2>2, <2>3, <2>4, <2>5, <2>6 DEF SyncInv
<1>6. ASSUME NEW p \in Players, JoinRecheck(p) PROVE SyncInv'
  <2>1. Places'
    BY <1>6, <1>0 DEF JoinRecheck, Goto, server, SyncInv, TypeOK, Places
  <2>2. Others'
    BY <1>6, <1>0 DEF JoinRecheck, Goto, server, SyncInv, TypeOK, Others
  <2>3. Entered'
    BY <1>6, <1>0 DEF JoinRecheck, Goto, server, SyncInv, TypeOK, Entered
  <2>4. Unghosting'
    BY <1>6, <1>0 DEF JoinRecheck, Goto, server, SyncInv, TypeOK, Unghosting
  <2>5. GhostsPending'
    BY <1>6, <1>0 DEF JoinRecheck, Goto, server, SyncInv, TypeOK,
       GhostsPending
  <2>6. SightPending'
    BY <1>6, <1>0 DEF JoinRecheck, Goto, server, SyncInv, TypeOK, SightPending
  <2> QED BY <1>0, <2>1, <2>2, <2>3, <2>4, <2>5, <2>6 DEF SyncInv
<1>7. ASSUME NEW p \in Players, JoinUnghost(p) PROVE SyncInv'
  <2>1. Places'
    BY <1>7, <1>0 DEF JoinUnghost, Goto, HidePlayer, SyncInv, TypeOK, Places
  <2>2. Others'
    BY <1>7, <1>0 DEF JoinUnghost, Goto, HidePlayer, SyncInv, TypeOK, Others
  <2>3. Entered'
    BY <1>7, <1>0 DEF JoinUnghost, Goto, HidePlayer, SyncInv, TypeOK, Entered
  <2>4. Unghosting'
    BY <1>7, <1>0 DEF JoinUnghost, Goto, HidePlayer, SyncInv, TypeOK,
       Unghosting
  <2>5. GhostsPending'
    BY <1>7, <1>0 DEF JoinUnghost, Goto, HidePlayer, SyncInv, TypeOK,
       GhostsPending
  <2>6. SightPending'
    BY <1>7, <1>0 DEF JoinUnghost, Goto, HidePlayer, SyncInv, TypeOK, Places,
       Others, Entered, Unghosting, GhostsPending, SightPending
  <2> QED BY <1>0, <2>1, <2>2, <2>3, <2>4, <2>5, <2>6 DEF SyncInv
<1>8. ASSUME NEW p \in Players, JoinDone(p) PROVE SyncInv'
  <2>1. Places'
    BY <1>8, <1>0 DEF JoinDone, Goto, server, SyncInv, TypeOK, Places
  <2>2. Others'
    BY <1>8, <1>0 DEF JoinDone, Goto, server, SyncInv, TypeOK, Others
  <2>3. Entered'
    BY <1>8, <1>0 DEF JoinDone, Goto, server, SyncInv, TypeOK, Entered
  <2>4. Unghosting'
    BY <1>8, <1>0 DEF JoinDone, Goto, server, SyncInv, TypeOK, Unghosting
  <2>5. GhostsPending'
    BY <1>8, <1>0 DEF JoinDone, Goto, server, SyncInv, TypeOK, GhostsPending
  <2>6. SightPending'
    BY <1>8, <1>0 DEF JoinDone, Goto, server, SyncInv, TypeOK, SightPending
  <2> QED BY <1>0, <2>1, <2>2, <2>3, <2>4, <2>5, <2>6 DEF SyncInv
<1>9. ASSUME NEW p \in Players, Sync(p) PROVE SyncInv'
  <2> PICK k \in Kinds, s \in Pose : Record(p, k, s)
    BY <1>9, <1>0, RecordType
  <2>1. Places'
    BY <1>0 DEF Record, Goto, SyncInv, TypeOK, Places
  <2>2. Others'
    BY <1>0 DEF Record, Goto, SyncInv, TypeOK, Others
  <2>3. Entered'
    BY <1>0 DEF Record, Goto, SyncInv, TypeOK, Entered
  <2>4. Unghosting'
    BY <1>0 DEF Record, Goto, SyncInv, TypeOK, Unghosting
  <2>5. GhostsPending'
    BY <1>0 DEF Record, Goto, SyncInv, TypeOK, GhostsPending
  <2>6. SightPending'
    BY <1>0 DEF Record, Goto, SyncInv, TypeOK, SightPending
  <2> QED BY <1>0, <2>1, <2>2, <2>3, <2>4, <2>5, <2>6 DEF SyncInv
<1>10. ASSUME NEW p \in Players, RelayOthers(p) PROVE SyncInv'
  <2>1. Places'
    BY <1>10, <1>0 DEF RelayOthers, Goto, server, SyncInv, TypeOK, Places
  <2>2. Others'
    BY <1>10, <1>0 DEF RelayOthers, Goto, server, SyncInv, TypeOK, Others
  <2>3. Entered'
    <3>1. /\ UNCHANGED <<shown, cur, roster>> /\ roster \subseteq Players
          /\ todo' = [todo EXCEPT ![p] = roster \ {p}]
          /\ todo \in [Players -> SUBSET Players] /\ cur \in [Players -> Players]
      BY <1>10, <1>0 DEF RelayOthers, server, SyncInv, TypeOK
    <3>2. ASSUME NEW q \in Players
          PROVE  (pc'[q] = "out" <=> pc[q] = "out") /\ (pc'[q] \in Visiting => pc[q] \in Visiting)
      BY <1>10, <1>0 DEF RelayOthers, Goto, SyncInv, TypeOK, Visiting
    <3>3. ASSUME NEW q \in Players, NEW r \in Players, r \in todo'[q]
          PROVE  pc'[r] # "out"
      <4>1. r \in todo[q] \/ r \in roster
        BY <3>1, <3>3
      <4>2. pc[r] # "out"
        BY <4>1, <1>0 DEF SyncInv, Entered, Places, Joining, Settled
      <4>. QED BY <4>2, <3>2
    <3>4. Entered
      BY <1>0 DEF SyncInv
    <3> HIDE DEF Visiting
    <3>. QED BY <3>1, <3>2, <3>3, <3>4 DEF Entered
  <2>4. Unghosting'
    BY <1>10, <1>0 DEF RelayOthers, Goto, server, SyncInv, TypeOK, Unghosting
  <2>5. GhostsPending'
    BY <1>10, <1>0 DEF RelayOthers, Goto, server, SyncInv, TypeOK,
       GhostsPending
  <2>6. SightPending'
    BY <1>10, <1>0 DEF RelayOthers, Goto, server, SyncInv, TypeOK,
       SightPending
  <2> QED BY <1>0, <2>1, <2>2, <2>3, <2>4, <2>5, <2>6 DEF SyncInv
<1>11. ASSUME NEW p \in Players, NEW o \in Players, Relay(p, o) PROVE SyncInv'
  <2>1. Places'
    BY <1>11, <1>0 DEF Relay, server, SyncInv, TypeOK, Places
  <2>2. Others'
    BY <1>11, <1>0 DEF Relay, server, SyncInv, TypeOK, Others
  <2>3. Entered'
    BY <1>11, <1>0 DEF Relay, server, SyncInv, TypeOK, Entered
  <2>4. Unghosting'
    BY <1>11, <1>0 DEF Relay, server, SyncInv, TypeOK, Unghosting
  <2>5. GhostsPending'
    BY <1>11, <1>0 DEF Relay, server, SyncInv, TypeOK, GhostsPending
  <2>6. SightPending'
    BY <1>11, <1>0 DEF Relay, server, SyncInv, TypeOK, SightPending
  <2> QED BY <1>0, <2>1, <2>2, <2>3, <2>4, <2>5, <2>6 DEF SyncInv
<1>12. ASSUME NEW p \in Players, RelayDone(p) PROVE SyncInv'
  <2>1. Places'
    BY <1>12, <1>0 DEF RelayDone, Goto, server, SyncInv, TypeOK, Places
  <2>2. Others'
    BY <1>12, <1>0 DEF RelayDone, Goto, server, SyncInv, TypeOK, Others
  <2>3. Entered'
    BY <1>12, <1>0 DEF RelayDone, Goto, server, SyncInv, TypeOK, Entered
  <2>4. Unghosting'
    BY <1>12, <1>0 DEF RelayDone, Goto, server, SyncInv, TypeOK, Unghosting
  <2>5. GhostsPending'
    BY <1>12, <1>0 DEF RelayDone, Goto, server, SyncInv, TypeOK, GhostsPending
  <2>6. SightPending'
    BY <1>12, <1>0 DEF RelayDone, Goto, server, SyncInv, TypeOK, SightPending
  <2> QED BY <1>0, <2>1, <2>2, <2>3, <2>4, <2>5, <2>6 DEF SyncInv
<1>13. ASSUME NEW p \in Players, LeaveRemove(p) PROVE SyncInv'
  <2>1. Places'
    BY <1>13, <1>0 DEF LeaveRemove, Goto, SyncInv, TypeOK, Places
  <2>2. Others'
    BY <1>13, <1>0 DEF LeaveRemove, Goto, SyncInv, TypeOK, Others
  <2>3. Entered'
    BY <1>13, <1>0 DEF LeaveRemove, Goto, SyncInv, TypeOK, Entered
  <2>4. Unghosting'
    BY <1>13, <1>0 DEF LeaveRemove, Goto, SyncInv, TypeOK, Unghosting
  <2>5. GhostsPending'
    BY <1>13, <1>0 DEF LeaveRemove, Goto, SyncInv, TypeOK, GhostsPending
  <2>6. SightPending'
    BY <1>13, <1>0 DEF LeaveRemove, Goto, SyncInv, TypeOK, SightPending
  <2> QED BY <1>0, <2>1, <2>2, <2>3, <2>4, <2>5, <2>6 DEF SyncInv
<1>14. ASSUME NEW p \in Players, LeaveUnjoined(p) PROVE SyncInv'
  <2>1. Places'
    BY <1>14, <1>0 DEF LeaveUnjoined, Goto, server, SyncInv, TypeOK, Places
  <2>2. Others'
    BY <1>14, <1>0 DEF LeaveUnjoined, Goto, server, SyncInv, TypeOK, Others
  <2>3. Entered'
    BY <1>14, <1>0 DEF LeaveUnjoined, Goto, server, SyncInv, TypeOK, Entered
  <2>4. Unghosting'
    BY <1>14, <1>0 DEF LeaveUnjoined, Goto, server, SyncInv, TypeOK,
       Unghosting
  <2>5. GhostsPending'
    BY <1>14, <1>0 DEF LeaveUnjoined, Goto, server, SyncInv, TypeOK,
       GhostsPending
  <2>6. SightPending'
    BY <1>14, <1>0 DEF LeaveUnjoined, Goto, server, SyncInv, TypeOK,
       SightPending
  <2> QED BY <1>0, <2>1, <2>2, <2>3, <2>4, <2>5, <2>6 DEF SyncInv
<1>15. ASSUME NEW p \in Players, LeaveOthers(p) PROVE SyncInv'
  <2>1. Places'
    BY <1>15, <1>0 DEF LeaveOthers, Goto, server, SyncInv, TypeOK, Places
  <2>2. Others'
    BY <1>15, <1>0 DEF LeaveOthers, Goto, server, SyncInv, TypeOK, Others
  <2>3. Entered'
    <3>1. /\ UNCHANGED <<shown, cur, roster>> /\ roster \subseteq Players
          /\ todo' = [todo EXCEPT ![p] = roster \ {p}]
          /\ todo \in [Players -> SUBSET Players] /\ cur \in [Players -> Players]
      BY <1>15, <1>0 DEF LeaveOthers, server, SyncInv, TypeOK
    <3>2. ASSUME NEW q \in Players
          PROVE  (pc'[q] = "out" <=> pc[q] = "out") /\ (pc'[q] \in Visiting => pc[q] \in Visiting)
      BY <1>15, <1>0 DEF LeaveOthers, Goto, SyncInv, TypeOK, Visiting
    <3>3. ASSUME NEW q \in Players, NEW r \in Players, r \in todo'[q]
          PROVE  pc'[r] # "out"
      <4>1. r \in todo[q] \/ r \in roster
        BY <3>1, <3>3
      <4>2. pc[r] # "out"
        BY <4>1, <1>0 DEF SyncInv, Entered, Places, Joining, Settled
      <4>. QED BY <4>2, <3>2
    <3>4. Entered
      BY <1>0 DEF SyncInv
    <3> HIDE DEF Visiting
    <3>. QED BY <3>1, <3>2, <3>3, <3>4 DEF Entered
  <2>4. Unghosting'
    BY <1>15, <1>0 DEF LeaveOthers, Goto, server, SyncInv, TypeOK, Unghosting
  <2>5. GhostsPending'
    BY <1>15, <1>0 DEF LeaveOthers, Goto, server, SyncInv, TypeOK,
       GhostsPending
  <2>6. SightPending'
    BY <1>15, <1>0 DEF LeaveOthers, Goto, server, SyncInv, TypeOK,
       SightPending
  <2> QED BY <1>0, <2>1, <2>2, <2>3, <2>4, <2>5, <2>6 DEF SyncInv
<1>16. ASSUME NEW p \in Players, NEW o \in Players, LeaveHide(p, o) PROVE SyncInv'
  <2>1. Places'
    BY <1>16, <1>0 DEF LeaveHide, HidePlayer, SyncInv, TypeOK, Places
  <2>2. Others'
    BY <1>16, <1>0 DEF LeaveHide, HidePlayer, SyncInv, TypeOK, Others
  <2>3. Entered'
    BY <1>16, <1>0 DEF LeaveHide, HidePlayer, SyncInv, TypeOK, Entered
  <2>4. Unghosting'
    BY <1>16, <1>0 DEF LeaveHide, HidePlayer, SyncInv, TypeOK, Unghosting
  <2>5. GhostsPending'
    BY <1>16, <1>0 DEF LeaveHide, HidePlayer, SyncInv, TypeOK, GhostsPending
  <2>6. SightPending'
    <3>1. pc[p] = "leaving" /\ roster' = roster /\ pc' = pc /\ cur' = cur
      BY <1>16 DEF LeaveHide
    <3>2. p \notin roster
      BY <3>1 DEF SyncInv, Places
    <3>3. \A x \in Players \ {p} : todo'[x] = todo[x]
      BY <1>16, <1>0 DEF LeaveHide, TypeOK
    <3>4. \A r \in Players, x \in Players \ {p} : x \in shown[r] => x \in shown'[r]
      BY <1>16, <1>0 DEF LeaveHide, HidePlayer, TypeOK
    <3>5. \A r \in roster : r \in Players \ {p}
      BY <3>2, <1>0 DEF TypeOK
    <3> QED BY <3>1, <3>3, <3>4, <3>5 DEF SyncInv, SightPending
  <2> QED BY <1>0, <2>1, <2>2, <2>3, <2>4, <2>5, <2>6 DEF SyncInv
<1>17. ASSUME NEW p \in Players, LeaveDone(p) PROVE SyncInv'
  <2>1. Places'
    BY <1>17, <1>0 DEF LeaveDone, Goto, server, SyncInv, TypeOK, Places
  <2>2. Others'
    BY <1>17, <1>0 DEF LeaveDone, Goto, server, SyncInv, TypeOK, Others
  <2>3. Entered'
    BY <1>17, <1>0 DEF LeaveDone, Goto, server, SyncInv, TypeOK, Entered
  <2>4. Unghosting'
    BY <1>17, <1>0 DEF LeaveDone, Goto, server, SyncInv, TypeOK, Unghosting
  <2>5. GhostsPending'
    BY <1>17, <1>0 DEF LeaveDone, Goto, server, SyncInv, TypeOK, GhostsPending
  <2>6. SightPending'
    BY <1>17, <1>0 DEF LeaveDone, Goto, server, SyncInv, TypeOK, SightPending
  <2> QED BY <1>0, <2>1, <2>2, <2>3, <2>4, <2>5, <2>6 DEF SyncInv
<1>18. ASSUME NEW p \in Players, WriteFails(p) PROVE SyncInv'
  <2>1. Places'
    BY <1>18, <1>0 DEF WriteFails, server, threads, SyncInv, TypeOK, Places
  <2>2. Others'
    BY <1>18, <1>0 DEF WriteFails, server, threads, SyncInv, TypeOK, Others
  <2>3. Entered'
    BY <1>18, <1>0 DEF WriteFails, server, threads, SyncInv, TypeOK, Entered
  <2>4. Unghosting'
    BY <1>18, <1>0 DEF WriteFails, server, threads, SyncInv, TypeOK,
       Unghosting
  <2>5. GhostsPending'
    BY <1>18, <1>0 DEF WriteFails, server, threads, SyncInv, TypeOK,
       GhostsPending
  <2>6. SightPending'
    BY <1>18, <1>0 DEF WriteFails, server, threads, SyncInv, TypeOK,
       SightPending
  <2> QED BY <1>0, <2>1, <2>2, <2>3, <2>4, <2>5, <2>6 DEF SyncInv
<1>19. CASE UNCHANGED vars
  BY <1>19, <1>0 DEF vars, server, threads, SyncInv, Places, Others, Entered,
     Unghosting, GhostsPending, SightPending
<1> QED
  BY <1>1, <1>2, <1>3, <1>4, <1>5, <1>6, <1>7, <1>8, <1>9, <1>10,
     <1>11, <1>12, <1>13, <1>14, <1>15, <1>16, <1>17, <1>18, <1>19
  DEF Next, JoinStep, RelayStep, LeaveStep

\* The inductive invariant holds of every run.
THEOREM SyncInvariant == Spec => []SyncInv
<1>1. Init => SyncInv
  <2> SUFFICES ASSUME Init PROVE SyncInv
    OBVIOUS
  <2>1. TypeOK
    BY LookType, UuidAssumption, MovesAssumption DEF Init, TypeOK, PCs, Kinds
  <2> QED BY <2>1 DEF Init, SyncInv, Places, Others, Entered, Unghosting,
        GhostsPending, SightPending, Joining, Settled, Visiting
<1> QED BY <1>1, SyncStep, PTL DEF Spec

\* No ghosts, for any number of connections: what a settled player's record
\* holds beyond the roster is on its way out of it.
THEOREM NoGhostsAlways == Spec => []NoGhosts
<1>1. SyncInv => NoGhosts
  BY DEF SyncInv, Places, GhostsPending, NoGhosts, Settled, Joining
<1> QED BY <1>1, SyncInvariant, PTL

\* Nobody missing, for any number of connections: two players whose joins are
\* over have each other in their records.
THEOREM MutualSightAlways == Spec => []MutualSight
<1>1. SyncInv => MutualSight
  BY DEF SyncInv, Places, SightPending, MutualSight, WillVisit, Settled, Joining
<1> QED BY <1>1, SyncInvariant, PTL

-------------------------------------------------------------------------------
(* The clients                                                                *)

\* The assumption the code makes of its players, and nothing in it enforces.
DistinctUuids == \A p, q \in Players : Uuid[p] = Uuid[q] => p = q

\* A player whose client reports no place beyond fixed point is never at one, nor
\* spawned at one.
StaysNear == \A p \in Players :
  /\ p \notin Wanderers => ~pose[p].far
  /\ pc[p] = "showOther" /\ cur[p] \notin Wanderers => ~held[p].far

\* A client still reached has entities of players in the record only, and of all
\* those whose spawn it was not refused.
EntitiesRecorded == \A r \in Players \ dead :
  /\ entities[r] \subseteq shown[r]
  /\ \A o \in shown[r] : Unrefused(r, o) => o \in entities[r]

\* Its list has all of them, and nobody else where no name is asked for.
ListRecorded == \A r \in Players \ dead :
  /\ \A o \in shown[r] : Uuid[o] \in listed[r]
  /\ r \notin ByName => listed[r] = {Uuid[r]} \cup {Uuid[o] : o \in shown[r]}

\* A move keeps a player that stays near where it may be.
LEMMA MoveNear ==
  ASSUME TypeOK, NEW p \in Players, Sync(p), p \notin Wanderers, ~pose[p].far
  PROVE  ~pose'[p].far
<1>1. pose[p] \in Pose /\ Reaches(p) = {FALSE}
  BY DEF TypeOK, Reaches
<1>2. \E s : ~s.far /\ pose' = [pose EXCEPT ![p] = s]
  <2>1. CASE SyncPosition(p)
    <3> DEFINE s == [pose[p] EXCEPT !.pos = moves[p] + 1, !.far = FALSE]
    <3>1. ~s.far /\ pose' = [pose EXCEPT ![p] = s]
      BY <1>1, <2>1 DEF SyncPosition, Record, Pose
    <3> HIDE DEF s
    <3> QED BY <3>1
  <2>2. CASE SyncRotation(p)
    <3> DEFINE s == [pose[p] EXCEPT !.yaw = moves[p] + 1]
    <3>1. ~s.far /\ pose' = [pose EXCEPT ![p] = s]
      BY <1>1, <2>2 DEF SyncRotation, Record, Pose
    <3> HIDE DEF s
    <3> QED BY <3>1
  <2>3. CASE SyncPositionRotation(p)
    <3> DEFINE s == [pose[p] EXCEPT !.pos = moves[p] + 1, !.yaw = moves[p] + 1,
                                    !.far = FALSE]
    <3>1. ~s.far /\ pose' = [pose EXCEPT ![p] = s]
      BY <1>1, <2>3 DEF SyncPositionRotation, Record, Pose
    <3> HIDE DEF s
    <3> QED BY <3>1
  <2>4. CASE SyncSneaking(p)
    <3> DEFINE s == [pose[p] EXCEPT !.sneaking = ~@]
    <3>1. ~s.far /\ pose' = [pose EXCEPT ![p] = s]
      BY <1>1, <2>4 DEF SyncSneaking, Record, Pose
    <3> HIDE DEF s
    <3> QED BY <3>1
  <2>5. CASE SyncSwing(p)
    BY <2>5 DEF SyncSwing, Record
  <2> QED BY <2>1, <2>2, <2>3, <2>4, <2>5 DEF Sync
<1> QED BY <1>1, <1>2 DEF TypeOK

\* Every step keeps those players near.
LEMMA NearStep == TypeOK /\ StaysNear /\ [Next]_vars => StaysNear'
<1> SUFFICES ASSUME TypeOK, StaysNear, [Next]_vars PROVE StaysNear'
  OBVIOUS
<1>1. ASSUME NEW p \in Players, Sync(p) PROVE StaysNear'
  <2> PICK k \in Kinds, s \in Pose : Record(p, k, s)
    BY <1>1, RecordType
  <2>1. /\ pc'[p] = "moved" /\ cur' = cur
        /\ \A q \in Players \ {p} : pc'[q] = pc[q] /\ held'[q] = held[q] /\ pose'[q] = pose[q]
    BY DEF Record, Goto, TypeOK
  <2>2. p \notin Wanderers => ~pose'[p].far
    BY <1>1, MoveNear DEF StaysNear
  <2> QED BY <2>1, <2>2 DEF StaysNear
<1>2. ASSUME NEW p \in Players, NEW o \in Players, JoinVisit(p, o) PROVE StaysNear'
  <2>1. /\ pose' = pose /\ cur'[p] = o /\ held'[p] = pose[o]
        /\ \A q \in Players \ {p} : pc'[q] = pc[q] /\ held'[q] = held[q] /\ cur'[q] = cur[q]
    BY <1>2 DEF JoinVisit, Goto, TypeOK, server
  <2> QED BY <2>1 DEF StaysNear
<1>3. ASSUME NEW p \in Players, JoinShowOther(p) PROVE StaysNear'
  <2>1. /\ pose' = pose /\ cur' = cur /\ pc'[p] = "showSelf"
        /\ \A q \in Players \ {p} : pc'[q] = pc[q] /\ held'[q] = held[q]
    BY <1>3 DEF JoinShowOther, Goto, TypeOK
  <2> QED BY <2>1 DEF StaysNear
<1>4. ASSUME NEW p \in Players, JoinRecheck(p) \/ JoinUnghost(p) \/ RelayDone(p)
      PROVE  StaysNear'
  <2>1. /\ pose' = pose /\ pc'[p] # "showOther"
        /\ \A q \in Players \ {p} : pc'[q] = pc[q] /\ held'[q] = held[q] /\ cur'[q] = cur[q]
    BY <1>4 DEF JoinRecheck, JoinUnghost, RelayDone, Goto, TypeOK, server
  <2> QED BY <2>1 DEF StaysNear
<1>5. ASSUME NEW p \in Players, NEW to, to # "showOther",
             pc' = [pc EXCEPT ![p] = to], UNCHANGED <<pose, cur, held>>
      PROVE  StaysNear'
  BY <1>5 DEF StaysNear, TypeOK
<1>6. ASSUME UNCHANGED <<pose, cur, held, pc>> PROVE StaysNear'
  BY <1>6 DEF StaysNear
<1>7. ASSUME NEW p \in Players, JoinStep(p) PROVE StaysNear'
  <2>1. ASSUME JoinOthers(p) \/ JoinShowSelf(p) \/ JoinDone(p) PROVE StaysNear'
    BY <1>5, <2>1 DEF JoinOthers, JoinShowSelf, JoinDone, Goto, server
  <2> QED BY <1>2, <1>3, <1>4, <1>7, <2>1 DEF JoinStep
<1>8. ASSUME NEW p \in Players, RelayStep(p) \/ LeaveStep(p) PROVE StaysNear'
  <2>1. ASSUME RelayOthers(p) \/ LeaveOthers(p) \/ LeaveDone(p) PROVE StaysNear'
    BY <1>5, <2>1 DEF RelayOthers, LeaveOthers, LeaveDone, Goto, server
  <2>2. ASSUME NEW o \in Players, Relay(p, o) \/ LeaveHide(p, o) PROVE StaysNear'
    BY <1>6, <2>2 DEF Relay, LeaveHide, server
  <2> QED BY <1>4, <1>8, <2>1, <2>2 DEF RelayStep, LeaveStep
<1>9. ASSUME NEW p \in Players, JoinAdd(p) \/ LeaveRemove(p) \/ LeaveUnjoined(p)
      PROVE  StaysNear'
  BY <1>5, <1>9 DEF JoinAdd, LeaveRemove, LeaveUnjoined, Goto, server
<1>10. ASSUME NEW p \in Players, WriteFails(p) PROVE StaysNear'
  BY <1>6, <1>10 DEF WriteFails, server, threads
<1>11. ASSUME UNCHANGED vars PROVE StaysNear'
  BY <1>6, <1>11 DEF vars, server, threads
<1> QED BY <1>1, <1>7, <1>8, <1>9, <1>10, <1>11 DEF Next

\* They start near.
LEMMA NearInvariant == Spec => []StaysNear
<1>1. Init => StaysNear
  BY DEF Init, StaysNear, NoPose
<1>2. SyncInv => TypeOK
  BY DEF SyncInv
<1> QED BY <1>1, <1>2, NearStep, SyncInvariant, PTL DEF Spec

\* showPlayer keeps every client's world in step with its connection's record,
\* as far as it can be told.
LEMMA ShowEntities ==
  ASSUME TypeOK, EntitiesRecorded, NEW r \in Players, NEW o \in Players, NEW s,
         ShowPlayer(r, o, s), dead' = dead, o \notin Wanderers => ~s.far
  PROVE  EntitiesRecorded'
<1> SUFFICES ASSUME NEW x \in Players \ dead
             PROVE  /\ entities'[x] \subseteq shown'[x]
                    /\ \A q \in shown'[x] : Unrefused(x, q) => q \in entities'[x]
  BY DEF EntitiesRecorded
<1>1. /\ entities[x] \subseteq shown[x]
      /\ \A q \in shown[x] : Unrefused(x, q) => q \in entities[x]
  BY DEF EntitiesRecorded
<1>2. shown'[x] = IF x = r THEN shown[x] \cup {o} ELSE shown[x]
  BY DEF ShowPlayer, TypeOK
<1>3. CASE x # r \/ o \in shown[r]
  <2>1. entities'[x] = entities[x]
    BY <1>3 DEF ShowPlayer, Unwritten, TypeOK
  <2> QED BY <1>1, <1>2, <1>3, <2>1
<1>4. CASE x = r /\ o \notin shown[r]
  <2>1. \/ entities'[x] = entities[x] \cup {o}
        \/ entities'[x] = entities[x] /\ (OutOfReach(r, s) \/ r \in ByName)
    BY <1>4 DEF ShowPlayer, TypeOK
  <2>2. OutOfReach(r, s) \/ r \in ByName => ~Unrefused(r, o)
    BY DEF OutOfReach, Unrefused
  <2> QED BY <1>1, <1>2, <1>4, <2>1, <2>2
<1> QED BY <1>3, <1>4

\* hidePlayer does so too.
LEMMA HideEntities ==
  ASSUME TypeOK, EntitiesRecorded, NEW r \in Players, NEW o \in Players,
         HidePlayer(r, o), dead' = dead
  PROVE  EntitiesRecorded'
<1> SUFFICES ASSUME NEW x \in Players \ dead
             PROVE  /\ entities'[x] \subseteq shown'[x]
                    /\ \A q \in shown'[x] : Unrefused(x, q) => q \in entities'[x]
  BY DEF EntitiesRecorded
<1>1. /\ entities[x] \subseteq shown[x]
      /\ \A q \in shown[x] : Unrefused(x, q) => q \in entities[x]
  BY DEF EntitiesRecorded
<1>2. shown'[x] = IF x = r THEN shown[x] \ {o} ELSE shown[x]
  BY DEF HidePlayer, TypeOK
<1>3. CASE x # r \/ o \notin shown[r]
  <2>1. entities'[x] = entities[x]
    BY <1>3 DEF HidePlayer, Unwritten, TypeOK
  <2> QED BY <1>1, <1>2, <1>3, <2>1
<1>4. CASE x = r /\ o \in shown[r]
  <2>1. entities'[x] = entities[x] \ {o}
    BY <1>4 DEF HidePlayer, TypeOK
  <2> QED BY <1>1, <1>2, <1>4, <2>1
<1> QED BY <1>3, <1>4

\* showPlayer lists whom it shows, whatever becomes of the entity.
LEMMA ShowLists ==
  ASSUME TypeOK, ListRecorded, NEW r \in Players, NEW o \in Players, NEW s,
         ShowPlayer(r, o, s), dead' = dead
  PROVE  ListRecorded'
<1> SUFFICES ASSUME NEW x \in Players \ dead
             PROVE  /\ \A q \in shown'[x] : Uuid[q] \in listed'[x]
                    /\ x \notin ByName =>
                         listed'[x] = {Uuid[x]} \cup {Uuid[q] : q \in shown'[x]}
  BY DEF ListRecorded
<1>1. /\ \A q \in shown[x] : Uuid[q] \in listed[x]
      /\ x \notin ByName => listed[x] = {Uuid[x]} \cup {Uuid[q] : q \in shown[x]}
  BY DEF ListRecorded
<1>2. shown'[x] = IF x = r THEN shown[x] \cup {o} ELSE shown[x]
  BY DEF ShowPlayer, TypeOK
<1>3. CASE x # r \/ o \in shown[r]
  <2>1. listed'[x] = listed[x] /\ shown'[x] = shown[x]
    BY <1>2, <1>3 DEF ShowPlayer, Unwritten, TypeOK
  <2> QED BY <1>1, <2>1
<1>4. CASE x = r /\ o \notin shown[r]
  <2>1. listed'[x] = listed[x] \cup {Uuid[o]} /\ shown'[x] = shown[x] \cup {o}
    BY <1>2, <1>4 DEF ShowPlayer, TypeOK
  <2> QED BY <1>1, <2>1
<1> QED BY <1>3, <1>4

\* hidePlayer takes nobody else off the list when no two of the players involved
\* share a uuid.
LEMMA HideLists ==
  ASSUME DistinctUuids, TypeOK, ListRecorded,
         NEW r \in Players, NEW o \in Players, r # o, HidePlayer(r, o), dead' = dead
  PROVE  ListRecorded'
<1> SUFFICES ASSUME NEW x \in Players \ dead
             PROVE  /\ \A q \in shown'[x] : Uuid[q] \in listed'[x]
                    /\ x \notin ByName =>
                         listed'[x] = {Uuid[x]} \cup {Uuid[q] : q \in shown'[x]}
  BY DEF ListRecorded
<1>1. /\ \A q \in shown[x] : Uuid[q] \in listed[x]
      /\ x \notin ByName => listed[x] = {Uuid[x]} \cup {Uuid[q] : q \in shown[x]}
  BY DEF ListRecorded
<1>2. shown'[x] = IF x = r THEN shown[x] \ {o} ELSE shown[x]
  BY DEF HidePlayer, TypeOK
<1>3. CASE x # r \/ o \notin shown[r]
  <2>1. listed'[x] = listed[x] /\ shown'[x] = shown[x]
    BY <1>2, <1>3 DEF HidePlayer, Unwritten, TypeOK
  <2> QED BY <1>1, <2>1
<1>4. CASE x = r /\ o \in shown[r]
  <2>1. shown'[x] = shown[x] \ {o}
    BY <1>2, <1>4
  <2>2. listed'[x] = listed[x] \ {Uuid[o]} \/ (listed'[x] = listed[x] /\ x \in ByName)
    BY <1>4 DEF HidePlayer, TypeOK
  <2>3. shown[x] \subseteq Players
    BY DEF TypeOK
  <2>4. Uuid[x] # Uuid[o] /\ \A q \in shown[x] : Uuid[q] = Uuid[o] => q = o
    BY <1>4, <2>3 DEF DistinctUuids
  <2> QED BY <1>1, <1>4, <2>1, <2>2, <2>4
<1> QED BY <1>3, <1>4

\* What every step leaves of the worlds but a spawn and a removal.
LEMMA WorldsStay ==
  ASSUME Next,
         \A p \in Players : /\ ~JoinShowOther(p) /\ ~JoinShowSelf(p) /\ ~JoinUnghost(p)
                            /\ \A o \in Players : ~LeaveHide(p, o)
  PROVE  UNCHANGED <<shown, entities, listed>> /\ dead \subseteq dead'
<1>1. ASSUME NEW p \in Players, WriteFails(p)
      PROVE  UNCHANGED <<shown, entities, listed>> /\ dead \subseteq dead'
  BY <1>1 DEF WriteFails, server
<1>2. ASSUME NEW p \in Players, Sync(p)
      PROVE  UNCHANGED <<shown, entities, listed>> /\ dead \subseteq dead'
  BY <1>2 DEF Sync, SyncPosition, SyncRotation, SyncPositionRotation, SyncSneaking,
     SyncSwing, Record, clients
<1>3. ASSUME NEW p \in Players, JoinAdd(p) \/ LeaveRemove(p) \/ LeaveUnjoined(p)
      PROVE  UNCHANGED <<shown, entities, listed>> /\ dead \subseteq dead'
  BY <1>3 DEF JoinAdd, LeaveRemove, LeaveUnjoined, server, clients
<1>4. ASSUME NEW p \in Players, JoinStep(p) \/ RelayStep(p) \/ LeaveStep(p)
      PROVE  UNCHANGED <<shown, entities, listed>> /\ dead \subseteq dead'
  BY <1>4 DEF JoinStep, RelayStep, LeaveStep, JoinOthers, JoinVisit, JoinRecheck,
     JoinDone, RelayOthers, Relay, RelayDone, LeaveOthers, LeaveDone, server, clients
<1> QED BY <1>1, <1>2, <1>3, <1>4 DEF Next

\* Every step keeps the entities in step with the records.
LEMMA EntitiesStep ==
  ASSUME TypeOK, StaysNear, EntitiesRecorded, Next PROVE EntitiesRecorded'
<1>1. ASSUME NEW p \in Players, JoinShowOther(p) PROVE EntitiesRecorded'
  <2>1. /\ cur[p] \in Players /\ dead' = dead /\ ShowPlayer(p, cur[p], held[p])
        /\ cur[p] \notin Wanderers => ~held[p].far
    BY <1>1 DEF TypeOK, StaysNear, JoinShowOther, Goto
  <2> QED BY <2>1, ShowEntities
<1>2. ASSUME NEW p \in Players, JoinShowSelf(p) PROVE EntitiesRecorded'
  <2>1. /\ cur[p] \in Players /\ dead' = dead /\ ShowPlayer(cur[p], p, pose[p])
        /\ p \notin Wanderers => ~pose[p].far
    BY <1>2 DEF TypeOK, StaysNear, JoinShowSelf
  <2> QED BY <2>1, ShowEntities
<1>3. ASSUME NEW p \in Players, JoinUnghost(p) PROVE EntitiesRecorded'
  <2>1. cur[p] \in Players /\ dead' = dead /\ HidePlayer(p, cur[p])
    BY <1>3 DEF TypeOK, JoinUnghost
  <2> QED BY <2>1, HideEntities
<1>4. ASSUME NEW p \in Players, NEW o \in Players, LeaveHide(p, o) PROVE EntitiesRecorded'
  <2>1. dead' = dead /\ HidePlayer(o, p)
    BY <1>4 DEF LeaveHide
  <2> QED BY <2>1, HideEntities
<1>5. ASSUME UNCHANGED <<shown, entities, listed>>, dead \subseteq dead'
      PROVE  EntitiesRecorded'
  BY <1>5 DEF EntitiesRecorded
<1> QED BY <1>1, <1>2, <1>3, <1>4, <1>5, WorldsStay

\* Every step keeps the lists in step, too.
LEMMA ListsStep ==
  ASSUME DistinctUuids, SyncInv, ListRecorded, Next PROVE ListRecorded'
<1>0. TypeOK
  BY DEF SyncInv
<1>1. ASSUME NEW p \in Players, JoinShowOther(p) \/ JoinShowSelf(p) PROVE ListRecorded'
  <2>1. /\ cur[p] \in Players /\ dead' = dead
        /\ ShowPlayer(p, cur[p], held[p]) \/ ShowPlayer(cur[p], p, pose[p])
    BY <1>0, <1>1 DEF TypeOK, JoinShowOther, JoinShowSelf
  <2> QED BY <1>0, <2>1, ShowLists
<1>2. ASSUME NEW p \in Players, JoinUnghost(p) PROVE ListRecorded'
  <2>1. /\ cur[p] \in Players /\ dead' = dead /\ HidePlayer(p, cur[p])
        /\ pc[p] = "unghost"
    BY <1>0, <1>2 DEF TypeOK, JoinUnghost, Goto
  <2>2. cur[p] # p
    BY <2>1 DEF SyncInv, Others, Visiting
  <2> QED BY <1>0, <2>1, <2>2, HideLists
<1>3. ASSUME NEW p \in Players, NEW o \in Players, LeaveHide(p, o) PROVE ListRecorded'
  <2>1. o # p /\ dead' = dead /\ HidePlayer(o, p)
    BY <1>3 DEF SyncInv, Others, LeaveHide
  <2> QED BY <1>0, <2>1, HideLists
<1>4. ASSUME UNCHANGED <<shown, entities, listed>>, dead \subseteq dead' PROVE ListRecorded'
  BY <1>4 DEF ListRecorded
<1> QED BY <1>1, <1>2, <1>3, <1>4, WorldsStay

\* A client's world follows its connection's record, whichever packets are
\* refused -- provided no two of the connections are of one profile.
THEOREM WorldFollowsRecordAlways ==
  ASSUME DistinctUuids PROVE Spec => []WorldFollowsRecord
<1> DEFINE Inv == EntitiesRecorded /\ ListRecorded
<1>1. Init => Inv
  BY DEF Init, EntitiesRecorded, ListRecorded
<1>2. SyncInv /\ StaysNear /\ Inv /\ [Next]_vars => Inv'
  <2>1. CASE Next
    BY <2>1, EntitiesStep, ListsStep DEF SyncInv
  <2>2. CASE UNCHANGED vars
    BY <2>2 DEF EntitiesRecorded, ListRecorded, vars, server, clients
  <2> QED BY <2>1, <2>2
<1>3. Inv => WorldFollowsRecord
  BY DEF EntitiesRecorded, ListRecorded, WorldFollowsRecord
<1> HIDE DEF Inv
<1> QED BY <1>1, <1>2, <1>3, SyncInvariant, NearInvariant, PTL DEF Spec

-------------------------------------------------------------------------------
(* The player list                                                            *)

phaseBar == [p \in Players |-> Stay(p)]

\* A goroutine's step from one place to another moves its player's stay.
LEMMA StayMoves ==
  ASSUME TypeOK, NEW p \in Players, NEW from, NEW to, Goto(p, from, to)
  PROVE  /\ \A q \in Players \ {p} : Stay(q)' = Stay(q)
         /\ phaseBar' = [phaseBar EXCEPT ![p] = Stay(p)']
<1>1. \A q \in Players \ {p} : Stay(q)' = Stay(q)
  BY DEF Goto, TypeOK, Stay
<1> QED BY <1>1 DEF phaseBar

\* A step of a goroutine within one stay, records left alone, is a stutter.
LEMMA StayStutters ==
  ASSUME TypeOK, NEW p \in Players, NEW from, NEW to, Goto(p, from, to),
         Stay(p)' = Stay(p)
  PROVE  phaseBar' = phaseBar
  BY StayMoves DEF phaseBar

\* What showPlayer and hidePlayer do to the records.
LEMMA ShowRecord ==
  ASSUME NEW r, NEW o, NEW s, ShowPlayer(r, o, s)
  PROVE  shown' = [shown EXCEPT ![r] = @ \cup {o}]
  BY DEF ShowPlayer

\* The other half of it.
LEMMA HideRecord ==
  ASSUME NEW r, NEW o, HidePlayer(r, o)
  PROVE  shown' = [shown EXCEPT ![r] = @ \ {o}]
  BY DEF HidePlayer

\* Every step of the goroutines is a step of the player list, or none.
LEMMA ListStep ==
  SyncInv /\ SyncInv' /\ [Next]_vars => [List!ListNext]_<<phaseBar, shown>>
<1> SUFFICES ASSUME SyncInv, SyncInv', [Next]_vars
             PROVE  [List!ListNext]_<<phaseBar, shown>>
  OBVIOUS
<1> USE DEF Joining, Settled, Leaving
<1>0. TypeOK
  BY DEF SyncInv
<1>a. \A p \in Players : phaseBar[p] = Stay(p)
  BY DEF phaseBar
<1>1. ASSUME NEW p \in Players, JoinAdd(p) PROVE List!Enter(p)
  <2>1. Stay(p) = "out" /\ Stay(p)' = "joining"
    BY <1>0, <1>1 DEF JoinAdd, Goto, Stay, TypeOK
  <2> QED BY <1>0, <1>1, <1>a, <2>1, StayMoves
          DEF JoinAdd, List!Enter, List!Move, phaseBar
<1>2. ASSUME NEW p \in Players, JoinDone(p) PROVE List!Settle(p)
  <2>1. Stay(p) = "joining" /\ Stay(p)' = "in"
    BY <1>0, <1>2 DEF JoinDone, Goto, Stay, TypeOK
  <2>2. List!Move(p, "joining", "in")
    BY <1>0, <1>2, <1>a, <2>1, StayMoves DEF JoinDone, List!Move, server, phaseBar
  <2>3. ASSUME NEW q \in Players \ {p}, Stay(q) = "in"
        PROVE  q \in shown[p] /\ p \in shown[q]
    <3>1. p \in roster /\ q \in roster /\ pc[q] \in Settled /\ pc[p] = "joining"
      BY <1>2, <2>3 DEF SyncInv, Places, JoinDone, Goto, Stay
    <3> QED BY <1>2, <3>1 DEF JoinDone, SyncInv, SightPending, WillVisit
  <2>4. ASSUME NEW q \in Players \ {p}, Stay(q) = "left" PROVE q \notin shown[p]
    <3>1. pc[q] = "gone" /\ pc[p] = "joining" /\ p \in roster /\ q \notin roster
      BY <1>0, <1>2, <2>4 DEF SyncInv, Places, JoinDone, Goto, Stay, TypeOK, PCs
    <3> QED BY <3>1 DEF SyncInv, GhostsPending
  <2> QED BY <1>a, <2>2, <2>3, <2>4 DEF List!Settle, phaseBar
<1>3. ASSUME NEW p \in Players, LeaveRemove(p) PROVE List!Leave(p)
  <2>1. Stay(p) = "in" /\ Stay(p)' = "leaving"
    BY <1>0, <1>3 DEF LeaveRemove, Goto, Stay, TypeOK
  <2> QED BY <1>0, <1>3, <1>a, <2>1, StayMoves
          DEF LeaveRemove, List!Leave, List!Move, phaseBar
<1>4. ASSUME NEW p \in Players, LeaveDone(p) PROVE List!Depart(p)
  <2>1. Stay(p) = "leaving" /\ Stay(p)' = "left"
    BY <1>0, <1>4 DEF LeaveDone, Goto, Stay, TypeOK
  <2>2. List!Move(p, "leaving", "left")
    BY <1>0, <1>4, <1>a, <2>1, StayMoves DEF LeaveDone, List!Move, server, phaseBar
  <2>3. ASSUME NEW q \in Players \ {p}, Stay(q) = "in" PROVE p \notin shown[q]
    <3>1. pc[q] \in Settled /\ q \in roster /\ pc[p] = "leaving" /\ p \notin roster
      BY <1>4, <2>3 DEF SyncInv, Places, LeaveDone, Goto, Stay
    <3> QED BY <1>4, <3>1 DEF SyncInv, GhostsPending, LeaveDone
  <2> QED BY <1>a, <2>2, <2>3 DEF List!Depart, phaseBar
<1>5. ASSUME NEW p \in Players, LeaveUnjoined(p) PROVE List!Abandon(p)
  <2>1. Stay(p) = "out" /\ Stay(p)' = "left"
    BY <1>0, <1>5 DEF LeaveUnjoined, Goto, Stay, TypeOK
  <2> QED BY <1>0, <1>5, <1>a, <2>1, StayMoves
          DEF LeaveUnjoined, List!Abandon, List!Move, server, phaseBar
<1>6. ASSUME NEW p \in Players, JoinShowOther(p) PROVE List!Appear(p, cur[p])
  <2>1. cur[p] \in Players /\ cur[p] # p /\ pc[cur[p]] # "out" /\ pc[p] = "showOther"
    BY <1>0, <1>6 DEF SyncInv, Others, Entered, Visiting, JoinShowOther, Goto, TypeOK
  <2>2. phaseBar' = phaseBar
    <3>1. Stay(p) = "joining" /\ Stay(p)' = "joining"
      BY <1>0, <1>6 DEF JoinShowOther, Goto, Stay, TypeOK
    <3> QED BY <1>0, <1>6, <3>1, StayStutters DEF JoinShowOther
  <2>3. Stay(p) = "joining" /\ Stay(cur[p]) \in {"joining", "in", "leaving", "left"}
    BY <1>0, <2>1 DEF Stay, TypeOK, PCs
  <2> QED BY <1>6, <1>a, <2>1, <2>2, <2>3, ShowRecord
          DEF JoinShowOther, List!Appear, phaseBar
<1>7. ASSUME NEW p \in Players, JoinShowSelf(p) PROVE List!Appear(cur[p], p)
  <2>1. cur[p] \in Players /\ cur[p] # p /\ pc[cur[p]] # "out" /\ pc[p] = "showSelf"
    BY <1>0, <1>7 DEF SyncInv, Others, Entered, Visiting, JoinShowSelf, Goto, TypeOK
  <2>2. phaseBar' = phaseBar
    <3>1. Stay(p) = "joining" /\ Stay(p)' = "joining"
      BY <1>0, <1>7 DEF JoinShowSelf, Goto, Stay, TypeOK
    <3> QED BY <1>0, <1>7, <3>1, StayStutters DEF JoinShowSelf
  <2>3. Stay(p) = "joining" /\ Stay(cur[p]) # "out"
    BY <1>0, <2>1 DEF Stay, TypeOK, PCs
  <2> QED BY <1>7, <1>a, <2>1, <2>2, <2>3, ShowRecord
          DEF JoinShowSelf, List!Appear, phaseBar
<1>8. ASSUME NEW p \in Players, JoinUnghost(p) PROVE List!Disappear(p, cur[p])
  <2>1. /\ cur[p] \in Players /\ pc[cur[p]] # "out"
        /\ cur[p] \notin roster /\ pc[p] = "unghost"
    BY <1>0, <1>8
    DEF SyncInv, Entered, Unghosting, Visiting, JoinUnghost, Goto, TypeOK
  <2>2. phaseBar' = phaseBar
    <3>1. Stay(p) = "joining" /\ Stay(p)' = "joining"
      BY <1>0, <1>8 DEF JoinUnghost, Goto, Stay, TypeOK
    <3> QED BY <1>0, <1>8, <3>1, StayStutters DEF JoinUnghost
  <2>3. Stay(cur[p]) \in {"leaving", "left"}
    BY <1>0, <2>1 DEF SyncInv, Places, Stay, TypeOK, PCs
  <2> QED BY <1>8, <1>a, <2>1, <2>2, <2>3, HideRecord
          DEF JoinUnghost, List!Disappear, phaseBar
<1>9. ASSUME NEW p \in Players, NEW o \in Players, LeaveHide(p, o)
      PROVE  List!Disappear(o, p)
  <2>1. phaseBar' = phaseBar
    BY <1>9 DEF LeaveHide, phaseBar, Stay
  <2>2. Stay(p) = "leaving"
    BY <1>9 DEF LeaveHide, Stay
  <2> QED BY <1>9, <1>a, <2>1, <2>2, HideRecord
          DEF LeaveHide, List!Disappear, phaseBar
<1>10. ASSUME NEW p \in Players, NEW o \in Players,
              \/ JoinOthers(p) \/ JoinVisit(p, o) \/ JoinRecheck(p)
              \/ RelayOthers(p) \/ RelayDone(p) \/ LeaveOthers(p) \/ Sync(p)
       PROVE  UNCHANGED <<phaseBar, shown>>
  <2>1. CASE JoinOthers(p)
    BY <1>0, <2>1, StayStutters DEF JoinOthers, Goto, Stay, TypeOK, server
  <2>2. CASE JoinVisit(p, o)
    BY <1>0, <2>2, StayStutters DEF JoinVisit, Goto, Stay, TypeOK, server
  <2>3. CASE JoinRecheck(p)
    BY <1>0, <2>3, StayStutters DEF JoinRecheck, Goto, Stay, TypeOK, server
  <2>4. CASE RelayOthers(p)
    BY <1>0, <2>4, StayStutters DEF RelayOthers, Goto, Stay, TypeOK, server
  <2>5. CASE RelayDone(p)
    BY <1>0, <2>5, StayStutters DEF RelayDone, Goto, Stay, TypeOK, server
  <2>6. CASE LeaveOthers(p)
    BY <1>0, <2>6, StayStutters DEF LeaveOthers, Goto, Stay, TypeOK, server
  <2>7. CASE Sync(p)
    <3> PICK k \in Kinds, s \in Pose : Record(p, k, s)
      BY <1>0, <2>7, RecordType
    <3> QED BY <1>0, StayStutters DEF Record, Goto, Stay, TypeOK
  <2> QED BY <1>10, <2>1, <2>2, <2>3, <2>4, <2>5, <2>6, <2>7
<1>11. ASSUME UNCHANGED <<pc, shown>> PROVE UNCHANGED <<phaseBar, shown>>
  BY <1>11 DEF phaseBar, Stay
<1>12. ASSUME NEW p \in Players, NEW o \in Players, Relay(p, o) \/ WriteFails(p)
       PROVE  UNCHANGED <<pc, shown>>
  BY <1>12 DEF Relay, WriteFails, server, threads
<1>13. CASE UNCHANGED vars
  BY <1>11, <1>13 DEF vars, server, threads
<1>14. ASSUME NEW p \in Players, JoinShowOther(p) \/ JoinShowSelf(p) \/ JoinUnghost(p)
       PROVE  cur[p] \in Players
  BY <1>0 DEF TypeOK
<1> QED
  BY <1>1, <1>2, <1>3, <1>4, <1>5, <1>6, <1>7, <1>8, <1>9, <1>10, <1>11, <1>12,
     <1>13, <1>14
  DEF Next, JoinStep, RelayStep, LeaveStep, List!ListNext

\* The synchronization implements the player list: to any number of connections
\* it is the world of PlayerList, in which joins end in mutual sight and
\* departures in nobody settled seeing the player.
THEOREM ImplementsList == Spec => ImplementsListSafety
<1>1. Init => List!ListInit
  <2> SUFFICES ASSUME Init PROVE List!ListInit
    OBVIOUS
  <2>1. \A p \in Players : Stay(p) = "out"
    BY DEF Init, Stay, Joining, Settled, Leaving
  <2> QED BY <2>1 DEF Init, List!ListInit
<1>2. SyncInv /\ SyncInv' /\ [Next]_vars => [List!ListNext]_List!listVars
  BY ListStep DEF List!listVars, phaseBar
<1> QED BY <1>1, <1>2, SyncInvariant, PTL DEF Spec, ImplementsListSafety, List!ListSafety

-------------------------------------------------------------------------------
(* What the clients draw: the inductive invariant.                            *)

\* One place is at or behind another in the order its player reported them.
Behind(a, b) == a.pos <= b.pos /\ a.yaw <= b.yaw
Same(a, b) == a.pos = b.pos /\ a.yaw = b.yaw

\* A place is numbered by a move that was made.
PosesNumbered == \A p \in Players : pose[p].pos <= moves[p] /\ pose[p].yaw <= moves[p]

\* The snapshot a relay carries is not stale: its goroutine alone moves its
\* player. The one a join carries may be, and is behind.
Snapshots == \A p \in Players :
  /\ pc[p] \in {"moved", "relaying"} => held[p] = pose[p]
  /\ pc[p] = "showOther" => Behind(held[p], pose[cur[p]])

\* No screen is ahead of what it shows.
ScreensBehind == \A r, o \in Players : Behind(screen[r][o], pose[o])

\* A client that a move has reached draws the latest one, or it is on its way, or
\* it is one the client could not be told of.
OnItsWay(o, r) ==
  /\ kind[o] \in {"position", "rotation"}
  /\ pc[o] = "moved" \/ (pc[o] = "relaying" /\ r \in todo[o])
PuttingRight ==
  \A r \in roster \ dead, o \in Players :
    o \in entities[r] /\ screen[r][o].moved =>
      Same(screen[r][o], pose[o]) \/ OnItsWay(o, r) \/ OutOfReach(r, pose[o])

MovesInv == /\ SyncInv /\ StaysNear /\ PosesNumbered /\ Snapshots /\ ScreensBehind
            /\ EntitiesRecorded /\ PuttingRight

-------------------------------------------------------------------------------
(* Screens                                                                    *)

\* What showPlayer and hidePlayer change on a screen, and for whom.
LEMMA ShowScreen ==
  ASSUME TypeOK, NEW r \in Players, NEW o \in Players, NEW s, ShowPlayer(r, o, s),
         NEW x \in Players, NEW y \in Players
  PROVE  \/ /\ x = r /\ y = o /\ o \notin shown[r] /\ r \notin dead
            /\ screen'[x][y] = Spawned(s) /\ y \in entities'[x] /\ y \in shown'[x]
         \/ /\ screen'[x][y] = screen[x][y]
            /\ y \in entities'[x] => y \in entities[x]
  BY DEF ShowPlayer, Unwritten, TypeOK

\* The other half of it.
LEMMA HideScreen ==
  ASSUME TypeOK, NEW r \in Players, NEW o \in Players, HidePlayer(r, o),
         NEW x \in Players, NEW y \in Players
  PROVE  IF x = r /\ y = o /\ o \in shown[r] /\ r \notin dead
         THEN screen'[x][y] = NoLook /\ y \notin entities'[x]
         ELSE screen'[x][y] = screen[x][y]
  BY DEF HidePlayer, Unwritten, TypeOK

\* What a screen shows of a player changes as it is spawned, as it goes, and
\* as a relay of its own reaches a client that has it.
SpawnedBy(r, o, s) ==
  /\ o \notin shown[r] /\ o \in shown'[r]
  /\ o \in entities'[r] /\ screen'[r][o] = Spawned(s)
  /\ s = pose[o] \/ (pc[r] = "showOther" /\ cur[r] = o /\ s = held[r])
Hidden(r, o) == o \in shown[r] /\ o \notin entities'[r] /\ screen'[r][o] = NoLook
RelayedTo(r, o) == /\ o \in shown[r] /\ Relay(o, r)
                   /\ screen'[r][o] = Relayed(screen[r][o], kind[o], held[o])

\* Nothing else does.
LEMMA ScreenChange ==
  ASSUME TypeOK, Next, NEW r \in Players, NEW o \in Players,
         screen'[r][o] # screen[r][o]
  PROVE  /\ r \notin dead
         /\ (\E s : SpawnedBy(r, o, s)) \/ Hidden(r, o) \/ RelayedTo(r, o)
<1>1. ASSUME NEW p \in Players, JoinShowOther(p)
      PROVE  r \notin dead /\ \E s : SpawnedBy(r, o, s)
  <2>1. cur[p] \in Players /\ pc[p] = "showOther" /\ ShowPlayer(p, cur[p], held[p])
    BY <1>1 DEF JoinShowOther, Goto, TypeOK
  <2>2. /\ r = p /\ o = cur[p] /\ o \notin shown[r] /\ r \notin dead
        /\ screen'[r][o] = Spawned(held[p]) /\ o \in entities'[r] /\ o \in shown'[r]
    BY <2>1, ShowScreen
  <2> QED BY <2>1, <2>2 DEF SpawnedBy
<1>2. ASSUME NEW p \in Players, JoinShowSelf(p)
      PROVE  r \notin dead /\ \E s : SpawnedBy(r, o, s)
  <2>1. cur[p] \in Players /\ ShowPlayer(cur[p], p, pose[p])
    BY <1>2 DEF JoinShowSelf, TypeOK
  <2>2. /\ r = cur[p] /\ o = p /\ o \notin shown[r] /\ r \notin dead
        /\ screen'[r][o] = Spawned(pose[p]) /\ o \in entities'[r] /\ o \in shown'[r]
    BY <2>1, ShowScreen
  <2> QED BY <2>2 DEF SpawnedBy
<1>3. ASSUME NEW p \in Players, JoinUnghost(p) PROVE r \notin dead /\ Hidden(r, o)
  <2>1. cur[p] \in Players /\ HidePlayer(p, cur[p])
    BY <1>3 DEF JoinUnghost, TypeOK
  <2> QED BY <2>1, HideScreen DEF Hidden
<1>4. ASSUME NEW p \in Players, NEW q \in Players, LeaveHide(p, q)
      PROVE  r \notin dead /\ Hidden(r, o)
  BY <1>4, HideScreen DEF Hidden, LeaveHide
<1>5. ASSUME NEW p \in Players, NEW q \in Players, Relay(p, q)
      PROVE  r \notin dead /\ RelayedTo(r, o)
  <2>1. r = q /\ o = p /\ o \in shown[r] /\ r \notin dead
    BY <1>5 DEF Relay, RelayToKnown, Undelivered, TypeOK
  <2>2. screen'[r][o] = Relayed(screen[r][o], kind[o], held[o])
    BY <1>5, <2>1 DEF Relay, RelayToKnown, Undelivered, TypeOK
  <2> QED BY <1>5, <2>1, <2>2 DEF RelayedTo
<1> QED
  BY <1>1, <1>2, <1>3, <1>4, <1>5
  DEF Next, JoinStep, RelayStep, LeaveStep, Sync, SyncPosition, SyncRotation,
      SyncPositionRotation, SyncSneaking, SyncSwing, Record, JoinAdd, JoinOthers,
      JoinVisit, JoinRecheck, JoinDone, RelayOthers, RelayDone, LeaveRemove,
      LeaveUnjoined, LeaveOthers, LeaveDone, WriteFails, clients

\* A relay brings an entity to where the snapshot is, or leaves it.
LEMMA RelayedPlace ==
  ASSUME NEW look \in Look, NEW k \in Kinds, NEW s \in Pose
  PROVE  IF k \in {"position", "rotation"}
         THEN Same(Relayed(look, k, s), s)
         ELSE /\ Same(Relayed(look, k, s), look)
              /\ Relayed(look, k, s).moved = look.moved
  BY DEF Relayed, Look, Pose, Kinds, Same

-------------------------------------------------------------------------------
(* Moves                                                                      *)

\* A move goes on from where the player was, and one that is relayed as another
\* stance or a swing does not go anywhere.
LEMMA MoveOn ==
  ASSUME TypeOK, PosesNumbered, NEW p \in Players, Sync(p)
  PROVE  \E k \in Kinds, s \in Pose :
           /\ Record(p, k, s) /\ Behind(pose[p], s)
           /\ s.pos <= moves[p] + 1 /\ s.yaw <= moves[p] + 1
           /\ k \in {"position", "rotation"} \/ (Same(pose[p], s) /\ s.far = pose[p].far)
<1>1. /\ pose[p] \in Pose /\ moves[p] \in 0..MaxMoves
      /\ pose[p].pos <= moves[p] /\ pose[p].yaw <= moves[p]
  BY DEF TypeOK, PosesNumbered
<1>2. moves[p] < MaxMoves
  BY DEF Sync, SyncPosition, SyncRotation, SyncPositionRotation, SyncSneaking,
         SyncSwing, Record
<1>3. moves[p] + 1 \in 0..MaxMoves /\ moves[p] \in Nat
  BY <1>1, <1>2, MovesAssumption
<1>4. pose[p].pos \in Nat /\ pose[p].yaw \in Nat
  BY <1>1, MovesAssumption DEF Pose
<1>5. CASE SyncPosition(p)
  <2> PICK f \in Reaches(p) :
        Record(p, "position", [pose[p] EXCEPT !.pos = moves[p] + 1, !.far = f])
    BY <1>5 DEF SyncPosition
  <2> DEFINE s == [pose[p] EXCEPT !.pos = moves[p] + 1, !.far = f]
  <2>1. s \in Pose /\ s.pos = moves[p] + 1 /\ s.yaw = pose[p].yaw
    BY <1>1, <1>3 DEF Pose, Reaches
  <2>2. Record(p, "position", s)
    OBVIOUS
  <2> HIDE DEF s
  <2> QED BY <1>1, <1>3, <1>4, <2>1, <2>2 DEF Kinds, Behind
<1>6. CASE SyncRotation(p)
  <2> DEFINE s == [pose[p] EXCEPT !.yaw = moves[p] + 1]
  <2>1. s \in Pose /\ s.yaw = moves[p] + 1 /\ s.pos = pose[p].pos
    BY <1>1, <1>3 DEF Pose
  <2>2. Record(p, "rotation", s)
    BY <1>6 DEF SyncRotation
  <2> HIDE DEF s
  <2> QED BY <1>1, <1>3, <1>4, <2>1, <2>2 DEF Kinds, Behind
<1>7. CASE SyncPositionRotation(p)
  <2> PICK f \in Reaches(p) :
        Record(p, "rotation", [pose[p] EXCEPT !.pos = moves[p] + 1,
                                              !.yaw = moves[p] + 1, !.far = f])
    BY <1>7 DEF SyncPositionRotation
  <2> DEFINE s == [pose[p] EXCEPT !.pos = moves[p] + 1, !.yaw = moves[p] + 1, !.far = f]
  <2>1. s \in Pose /\ s.pos = moves[p] + 1 /\ s.yaw = moves[p] + 1
    BY <1>1, <1>3 DEF Pose, Reaches
  <2>2. Record(p, "rotation", s)
    OBVIOUS
  <2> HIDE DEF s
  <2> QED BY <1>1, <1>3, <1>4, <2>1, <2>2 DEF Kinds, Behind
<1>8. CASE SyncSneaking(p)
  <2> DEFINE s == [pose[p] EXCEPT !.sneaking = ~@]
  <2>1. s \in Pose /\ s.pos = pose[p].pos /\ s.yaw = pose[p].yaw /\ s.far = pose[p].far
    BY <1>1 DEF Pose
  <2>2. Record(p, "stance", s)
    BY <1>8 DEF SyncSneaking
  <2> HIDE DEF s
  <2> QED BY <1>1, <1>3, <1>4, <2>1, <2>2 DEF Kinds, Behind, Same
<1>9. CASE SyncSwing(p)
  <2>1. Record(p, "swing", pose[p])
    BY <1>9 DEF SyncSwing
  <2> QED BY <1>1, <1>3, <1>4, <2>1 DEF Kinds, Behind, Same
<1> QED BY <1>5, <1>6, <1>7, <1>8, <1>9 DEF Sync

\* Nobody else moves a player, and only forward.
LEMMA PosesStep ==
  ASSUME TypeOK, PosesNumbered, Next
  PROVE  PosesNumbered' /\ \A o \in Players : Behind(pose[o], pose'[o])
<1>1. \A o \in Players : /\ pose[o].pos \in Nat /\ pose[o].yaw \in Nat
                         /\ moves[o] \in Nat
  BY MovesAssumption DEF TypeOK, Pose
<1>2. ASSUME NEW p \in Players, Sync(p)
      PROVE  PosesNumbered' /\ \A o \in Players : Behind(pose[o], pose'[o])
  <2> PICK k \in Kinds, s \in Pose :
        /\ Record(p, k, s) /\ Behind(pose[p], s)
        /\ s.pos <= moves[p] + 1 /\ s.yaw <= moves[p] + 1
    BY <1>2, MoveOn
  <2>1. /\ pose'[p] = s /\ moves'[p] = moves[p] + 1
        /\ \A o \in Players \ {p} : pose'[o] = pose[o] /\ moves'[o] = moves[o]
    BY DEF Record, TypeOK
  <2>2. ASSUME NEW o \in Players
        PROVE  /\ Behind(pose[o], pose'[o])
               /\ pose'[o].pos <= moves'[o] /\ pose'[o].yaw <= moves'[o]
    <3>1. CASE o = p
      BY <2>1, <3>1
    <3>2. CASE o # p
      BY <1>1, <2>1, <3>2 DEF PosesNumbered, Behind
    <3> QED BY <3>1, <3>2
  <2> QED BY <2>2 DEF PosesNumbered
<1>3. ASSUME UNCHANGED <<pose, moves>>
      PROVE  PosesNumbered' /\ \A o \in Players : Behind(pose[o], pose'[o])
  BY <1>1, <1>3 DEF PosesNumbered, Behind
<1> QED
  BY <1>2, <1>3
  DEF Next, JoinStep, RelayStep, LeaveStep, JoinAdd, JoinOthers, JoinVisit,
      JoinShowOther, JoinShowSelf, JoinRecheck, JoinUnghost, JoinDone, RelayOthers,
      Relay, RelayDone, LeaveRemove, LeaveUnjoined, LeaveOthers, LeaveHide, LeaveDone,
      WriteFails, server, threads

\* Being behind carries over.
LEMMA BehindTrans ==
  ASSUME NEW a, NEW b, NEW c, Behind(a, b), Behind(b, c),
         \A s \in {a, b, c} : s.pos \in Nat /\ s.yaw \in Nat
  PROVE  Behind(a, c)
  BY DEF Behind

\* What a goroutine carries is its own, and so is its player.
Acts(p) ==
  \/ JoinAdd(p) \/ JoinStep(p) \/ Sync(p) \/ RelayStep(p)
  \/ LeaveRemove(p) \/ LeaveUnjoined(p) \/ LeaveStep(p) \/ WriteFails(p)

\* The step of one leaves the others where they were.
LEMMA OthersStay ==
  ASSUME TypeOK, NEW p \in Players, Acts(p), NEW q \in Players \ {p}
  PROVE  /\ pc'[q] = pc[q] /\ todo'[q] = todo[q] /\ cur'[q] = cur[q]
         /\ held'[q] = held[q] /\ kind'[q] = kind[q] /\ pose'[q] = pose[q]
<1>1. CASE Sync(p)
  <2> PICK k \in Kinds, s \in Pose : Record(p, k, s)
    BY <1>1, RecordType
  <2> QED BY DEF Record, Goto, TypeOK
<1>2. CASE JoinAdd(p) \/ JoinStep(p)
  BY <1>2
  DEF JoinAdd, JoinStep, JoinOthers, JoinVisit, JoinShowOther, JoinShowSelf,
      JoinRecheck, JoinUnghost, JoinDone, Goto, TypeOK, server
<1>3. CASE RelayStep(p)
  BY <1>3 DEF RelayStep, RelayOthers, Relay, RelayDone, Goto, TypeOK, server
<1>4. CASE LeaveRemove(p) \/ LeaveUnjoined(p) \/ LeaveStep(p) \/ WriteFails(p)
  BY <1>4
  DEF LeaveRemove, LeaveUnjoined, LeaveStep, LeaveOthers, LeaveHide, LeaveDone,
      WriteFails, Goto, TypeOK, server, threads
<1> QED BY <1>1, <1>2, <1>3, <1>4 DEF Acts

\* What a snapshot has to do with its player.
LEMMA SnapshotsStep ==
  ASSUME SyncInv, PosesNumbered, Snapshots, Next PROVE Snapshots'
<1> SUFFICES ASSUME NEW x \in Players
             PROVE  /\ pc'[x] \in {"moved", "relaying"} => held'[x] = pose'[x]
                    /\ pc'[x] = "showOther" => Behind(held'[x], pose'[cur'[x]])
  BY DEF Snapshots
<1>0. TypeOK /\ cur[x] \in Players
  BY DEF SyncInv, TypeOK
<1>1. /\ PosesNumbered' /\ Behind(pose[cur[x]], pose'[cur[x]])
      /\ \A o \in Players : /\ pose[o].pos \in Nat /\ pose[o].yaw \in Nat
                            /\ held[o].pos \in Nat /\ held[o].yaw \in Nat
      /\ \A o \in Players : pose'[o].pos \in Nat /\ pose'[o].yaw \in Nat
  <2>1. TypeOK'
    BY <1>0, TypeStep
  <2> QED BY <1>0, <2>1, PosesStep, MovesAssumption DEF TypeOK, Pose
<1>2. ASSUME pc'[x] = pc[x], held'[x] = held[x], cur'[x] = cur[x], pose'[x] = pose[x]
      PROVE  /\ pc'[x] \in {"moved", "relaying"} => held'[x] = pose'[x]
             /\ pc'[x] = "showOther" => Behind(held'[x], pose'[cur'[x]])
  <2>1. CASE pc[x] = "showOther"
    <3>1. Behind(held[x], pose[cur[x]])
      BY <2>1 DEF Snapshots
    <3>2. Behind(held[x], pose'[cur[x]])
      BY <1>0, <1>1, <3>1, BehindTrans
    <3> QED BY <1>2, <2>1, <3>2
  <2>2. CASE pc[x] # "showOther"
    BY <1>2, <2>2 DEF Snapshots
  <2> QED BY <2>1, <2>2
<1>3. PICK p \in Players : Acts(p)
  BY DEF Next, Acts
<1>4. CASE p # x
  BY <1>0, <1>2, <1>3, <1>4, OthersStay
<1>5. CASE p = x
  <2>1. CASE Sync(x)
    <3> PICK k \in Kinds, s \in Pose : Record(x, k, s)
      BY <1>0, <2>1, RecordType
    <3> QED BY <1>0 DEF Record, Goto, TypeOK
  <2>2. ASSUME NEW o \in Players, JoinVisit(x, o)
        PROVE  /\ pc'[x] = "showOther"
               /\ Behind(held'[x], pose'[cur'[x]])
    <3>1. /\ pc'[x] = "showOther" /\ held'[x] = pose[o] /\ cur'[x] = o
          /\ pose'[o] = pose[o]
      BY <1>0, <2>2 DEF JoinVisit, Goto, TypeOK, server
    <3> QED BY <1>1, <3>1 DEF Behind
  <2>3. CASE RelayOthers(x)
    BY <1>0, <2>3 DEF RelayOthers, Goto, TypeOK, server, Snapshots
  <2>4. CASE WriteFails(x) \/ \E o \in Players : Relay(x, o) \/ LeaveHide(x, o)
    BY <1>2, <2>4 DEF WriteFails, Relay, LeaveHide, server, threads
  <2>5. ASSUME \/ JoinAdd(x) \/ JoinOthers(x) \/ JoinShowOther(x) \/ JoinShowSelf(x)
               \/ JoinRecheck(x) \/ JoinUnghost(x) \/ JoinDone(x) \/ RelayDone(x)
               \/ LeaveRemove(x) \/ LeaveUnjoined(x) \/ LeaveOthers(x) \/ LeaveDone(x)
        PROVE  pc'[x] \notin {"moved", "relaying", "showOther"}
    BY <1>0, <2>5
    DEF JoinAdd, JoinOthers, JoinShowOther, JoinShowSelf, JoinRecheck, JoinUnghost,
        JoinDone, RelayDone, LeaveRemove, LeaveUnjoined, LeaveOthers, LeaveDone, Goto,
        TypeOK
  <2> QED
    BY <1>3, <1>5, <2>1, <2>2, <2>3, <2>4, <2>5 DEF Acts, JoinStep, RelayStep, LeaveStep
<1> QED BY <1>4, <1>5

\* A screen follows its players, and does not run ahead of them.
LEMMA ScreensStep ==
  ASSUME SyncInv, PosesNumbered, Snapshots, ScreensBehind, Next PROVE ScreensBehind'
<1> SUFFICES ASSUME NEW r \in Players, NEW o \in Players
             PROVE  Behind(screen'[r][o], pose'[o])
  BY DEF ScreensBehind
<1>0. TypeOK /\ TypeOK'
  BY TypeStep DEF SyncInv
<1>1. Behind(pose[o], pose'[o])
  BY <1>0, PosesStep
<1>2. \A s \in Pose \cup Look : s.pos \in Nat /\ s.yaw \in Nat
  BY MovesAssumption DEF Pose, Look
<1>3. /\ screen[r][o] \in Look /\ screen'[r][o] \in Look /\ pose[o] \in Pose
      /\ pose'[o] \in Pose /\ held[r] \in Pose /\ held[o] \in Pose /\ kind[o] \in Kinds
  BY <1>0 DEF TypeOK
<1>4. Behind(screen[r][o], pose'[o])
  <2>1. Behind(screen[r][o], pose[o])
    BY DEF ScreensBehind
  <2> QED BY <1>1, <1>2, <1>3, <2>1, BehindTrans
<1>5. CASE screen'[r][o] = screen[r][o]
  BY <1>4, <1>5
<1>6. ASSUME NEW s, SpawnedBy(r, o, s) PROVE Behind(screen'[r][o], pose'[o])
  <2>1. Behind(s, pose[o]) /\ s \in Pose
    BY <1>2, <1>3, <1>6 DEF SpawnedBy, Snapshots, Behind
  <2>2. Behind(s, pose'[o])
    BY <1>1, <1>2, <1>3, <2>1, BehindTrans
  <2> QED BY <1>6, <2>2 DEF SpawnedBy, Spawned, Behind
<1>7. ASSUME Hidden(r, o) PROVE Behind(screen'[r][o], pose'[o])
  BY <1>2, <1>3, <1>7 DEF Hidden, NoLook, Spawned, NoPose, Behind
<1>8. ASSUME RelayedTo(r, o) PROVE Behind(screen'[r][o], pose'[o])
  <2>1. held[o] = pose[o] /\ pose'[o] = pose[o]
    BY <1>8 DEF RelayedTo, Relay, Snapshots, server
  <2>2. Same(screen'[r][o], pose[o]) \/ Same(screen'[r][o], screen[r][o])
    BY <1>3, <1>8, <2>1, RelayedPlace DEF RelayedTo
  <2> QED BY <1>2, <1>3, <1>4, <2>1, <2>2 DEF Same, Behind
<1> QED BY <1>0, <1>5, <1>6, <1>7, <1>8, ScreenChange

\* An entity that is newly in a world is newly spawned.
LEMMA NewlySpawned ==
  ASSUME TypeOK, Next, NEW r \in Players, NEW o \in Players,
         o \in entities'[r], o \notin entities[r]
  PROVE  \E s : screen'[r][o] = Spawned(s)
<1>1. ASSUME NEW p \in Players, JoinShowOther(p) \/ JoinShowSelf(p)
      PROVE  \E s : screen'[r][o] = Spawned(s)
  <2>1. cur[p] \in Players
    BY DEF TypeOK
  <2>2. ShowPlayer(p, cur[p], held[p]) \/ ShowPlayer(cur[p], p, pose[p])
    BY <1>1 DEF JoinShowOther, JoinShowSelf
  <2> QED BY <2>1, <2>2, ShowScreen
<1>2. ASSUME NEW x \in Players, NEW y \in Players, HidePlayer(x, y) PROVE FALSE
  <2>1. entities' = entities \/ entities' = [entities EXCEPT ![x] = @ \ {y}]
    BY <1>2 DEF HidePlayer, Unwritten
  <2>2. entities \in [Players -> SUBSET Players]
    BY DEF TypeOK
  <2> QED BY <2>1, <2>2
<1>3. ASSUME NEW p \in Players, JoinUnghost(p) PROVE FALSE
  <2>1. cur[p] \in Players
    BY DEF TypeOK
  <2> QED BY <1>2, <1>3, <2>1 DEF JoinUnghost
<1>4. ASSUME NEW p \in Players, NEW q \in Players, LeaveHide(p, q) PROVE FALSE
  BY <1>2, <1>4 DEF LeaveHide
<1> QED BY <1>1, <1>3, <1>4, WorldsStay

\* A connection that comes onto the roster has been shown nobody.
LEMMA ShownOnRoster ==
  ASSUME SyncInv, Next, NEW r \in Players, NEW o \in Players, o \in shown[r], r \in roster'
  PROVE  r \in roster /\ r # o
<1>1. r # o /\ pc[r] # "out"
  BY DEF SyncInv, Others, Entered
<1>2. ASSUME NEW p \in Players, JoinAdd(p) PROVE r \in roster
  BY <1>1, <1>2 DEF JoinAdd, Goto
<1>3. ASSUME roster' \subseteq roster PROVE r \in roster
  BY <1>3
<1> QED
  BY <1>1, <1>2, <1>3
  DEF Next, JoinStep, RelayStep, LeaveStep, Sync, SyncPosition, SyncRotation,
      SyncPositionRotation, SyncSneaking, SyncSwing, Record, JoinOthers,
      JoinVisit, JoinShowOther, JoinShowSelf, JoinRecheck, JoinUnghost, JoinDone,
      RelayOthers, Relay, RelayDone, LeaveRemove, LeaveUnjoined, LeaveOthers, LeaveHide,
      LeaveDone, WriteFails, server

\* What a client draws of a player is settled by the player's own relays alone.
LEMMA PuttingRightStep ==
  ASSUME SyncInv, PosesNumbered, Snapshots, EntitiesRecorded, PuttingRight, Next
  PROVE  PuttingRight'
<1> SUFFICES ASSUME NEW r \in roster' \ dead', NEW o \in Players,
                    o \in entities'[r], screen'[r][o].moved
             PROVE  \/ Same(screen'[r][o], pose'[o])
                    \/ OutOfReach(r, pose'[o])
                    \/ /\ kind'[o] \in {"position", "rotation"}
                       /\ pc'[o] = "moved" \/ (pc'[o] = "relaying" /\ r \in todo'[o])
  BY DEF PuttingRight, OnItsWay, OutOfReach
<1>0. TypeOK /\ r \in Players /\ r \notin dead /\ r \notin dead'
  <2>1. TypeOK /\ TypeOK'
    BY TypeStep DEF SyncInv
  <2>2. dead \subseteq dead'
    BY DEF Next, JoinStep, RelayStep, LeaveStep, Sync, SyncPosition, SyncRotation,
           SyncPositionRotation, SyncSneaking, SyncSwing, Record, JoinAdd, JoinOthers,
           JoinVisit, JoinShowOther, JoinShowSelf, JoinRecheck, JoinUnghost, JoinDone,
           RelayOthers, Relay, RelayDone, LeaveRemove, LeaveUnjoined, LeaveOthers,
           LeaveHide, LeaveDone, WriteFails, clients
  <2> QED BY <2>1, <2>2 DEF TypeOK
<1>1. o \in entities[r]
  <2> SUFFICES ASSUME o \notin entities[r] PROVE FALSE
    OBVIOUS
  <2> PICK s : screen'[r][o] = Spawned(s)
    BY <1>0, NewlySpawned
  <2> QED BY DEF Spawned
<1>2. o \in shown[r]
  BY <1>0, <1>1 DEF EntitiesRecorded
<1>3. r \in roster /\ r # o
  BY <1>0, <1>2, ShownOnRoster
<1>4. ASSUME screen[r][o].moved
      PROVE  Same(screen[r][o], pose[o]) \/ OnItsWay(o, r) \/ OutOfReach(r, pose[o])
  BY <1>0, <1>1, <1>3, <1>4 DEF PuttingRight
<1>5. PICK p \in Players : Acts(p)
  BY DEF Next, Acts
<1>6. CASE Relay(o, r)
  <2>1. pose' = pose /\ held[o] = pose[o] /\ pc[o] = "relaying"
    BY <1>6 DEF Relay, Snapshots, server
  <2>2. screen[r][o] \in Look /\ kind[o] \in Kinds /\ held[o] \in Pose
    BY <1>0 DEF TypeOK
  <2>3. CASE Undelivered(r, kind[o], held[o])
    BY <1>0, <2>1, <2>3 DEF Undelivered
  <2>4. CASE ~Undelivered(r, kind[o], held[o])
    <3>1. screen'[r][o] = Relayed(screen[r][o], kind[o], held[o])
      BY <1>0, <1>2, <1>6, <2>4 DEF Relay, RelayToKnown, TypeOK
    <3>2. CASE kind[o] \in {"position", "rotation"}
      BY <2>1, <2>2, <3>1, <3>2, RelayedPlace
    <3>3. CASE kind[o] \notin {"position", "rotation"}
      <4>1. Same(screen'[r][o], screen[r][o]) /\ screen[r][o].moved
        BY <2>2, <3>1, <3>3, RelayedPlace
      <4>2. Same(screen[r][o], pose[o]) \/ OutOfReach(r, pose[o])
        BY <1>4, <3>3, <4>1 DEF OnItsWay
      <4> QED BY <2>1, <4>1, <4>2 DEF Same
    <3> QED BY <3>2, <3>3
  <2> QED BY <2>3, <2>4
<1>7. CASE ~Relay(o, r)
  <2>1. screen'[r][o] = screen[r][o]
    <3>1. ~Hidden(r, o) /\ ~RelayedTo(r, o) /\ \A s : ~SpawnedBy(r, o, s)
      BY <1>1, <1>2, <1>7 DEF Hidden, RelayedTo, SpawnedBy
    <3> QED BY <1>0, <3>1, ScreenChange
  <2>2. Same(screen[r][o], pose[o]) \/ OnItsWay(o, r) \/ OutOfReach(r, pose[o])
    BY <1>4, <2>1
  <2>3. CASE p # o
    BY <1>0, <1>5, <2>1, <2>2, <2>3, OthersStay DEF OnItsWay
  <2>4. CASE p = o
    <3>1. CASE Sync(o)
      <4> PICK k \in Kinds, s \in Pose :
            /\ Record(o, k, s)
            /\ k \in {"position", "rotation"} \/ (Same(pose[o], s) /\ s.far = pose[o].far)
        BY <1>0, <3>1, MoveOn
      <4>1. /\ pc[o] = "in" /\ pc'[o] = "moved" /\ pose'[o] = s /\ kind'[o] = k
        BY <1>0 DEF Record, Goto, TypeOK
      <4> QED BY <2>1, <2>2, <4>1 DEF OnItsWay, Same, OutOfReach
    <3>2. CASE RelayOthers(o)
      <4>1. /\ pc'[o] = "relaying" /\ r \in todo'[o] /\ kind'[o] = kind[o]
            /\ pose'[o] = pose[o]
        BY <1>0, <1>3, <3>2 DEF RelayOthers, Goto, TypeOK, server
      <4> QED BY <2>1, <2>2, <4>1 DEF OnItsWay
    <3>3. CASE \E q \in Players : Relay(o, q)
      <4> PICK q \in Players : Relay(o, q)
        BY <3>3
      <4>1. /\ pc'[o] = pc[o] /\ kind'[o] = kind[o] /\ pose'[o] = pose[o]
            /\ r \in todo[o] => r \in todo'[o]
        BY <1>0, <1>7 DEF Relay, TypeOK, server
      <4> QED BY <2>1, <2>2, <4>1 DEF OnItsWay
    <3>4. CASE WriteFails(o)
      BY <2>1, <2>2, <3>4 DEF WriteFails, OnItsWay, server, threads
    <3>5. CASE \/ JoinAdd(o) \/ JoinStep(o) \/ RelayDone(o) \/ LeaveRemove(o)
               \/ LeaveUnjoined(o) \/ LeaveStep(o)
      <4>1. pose'[o] = pose[o]
        BY <3>5
        DEF JoinStep, LeaveStep, JoinAdd, JoinOthers, JoinVisit, JoinShowOther,
            JoinShowSelf, JoinRecheck, JoinUnghost, JoinDone, RelayDone, LeaveRemove,
            LeaveUnjoined, LeaveOthers, LeaveHide, LeaveDone, server
      <4>2. ~OnItsWay(o, r)
        BY <1>0, <3>5
        DEF OnItsWay, JoinStep, LeaveStep, JoinAdd, JoinOthers, JoinVisit, JoinShowOther,
            JoinShowSelf, JoinRecheck, JoinUnghost, JoinDone, RelayDone, LeaveRemove,
            LeaveUnjoined, LeaveOthers, LeaveHide, LeaveDone, Goto
      <4> QED BY <2>1, <2>2, <4>1, <4>2
    <3> QED BY <1>5, <2>4, <3>1, <3>2, <3>3, <3>4, <3>5 DEF Acts, RelayStep
  <2> QED BY <2>3, <2>4
<1> QED BY <1>6, <1>7

-------------------------------------------------------------------------------
(* What follows for moves                                                     *)

\* Every step keeps all of it.
LEMMA MovesStep == MovesInv /\ [Next]_vars => MovesInv'
<1> SUFFICES ASSUME MovesInv, [Next]_vars PROVE MovesInv'
  OBVIOUS
<1>1. CASE Next
  <2>1. SyncInv' /\ TypeOK /\ StaysNear'
    BY <1>1, SyncStep, NearStep DEF MovesInv, SyncInv
  <2>2. PosesNumbered' /\ Snapshots' /\ ScreensBehind' /\ EntitiesRecorded' /\ PuttingRight'
    BY <1>1, <2>1, PosesStep, SnapshotsStep, ScreensStep, EntitiesStep, PuttingRightStep
       DEF MovesInv
  <2> QED BY <2>1, <2>2 DEF MovesInv
<1>2. CASE UNCHANGED vars
  <2>1. SyncInv' /\ StaysNear'
    BY <1>2, SyncStep, NearStep DEF MovesInv, SyncInv
  <2>2. PosesNumbered' /\ Snapshots' /\ ScreensBehind' /\ EntitiesRecorded' /\ PuttingRight'
    BY <1>2
    DEF MovesInv, PosesNumbered, Snapshots, ScreensBehind, EntitiesRecorded, PuttingRight,
        OnItsWay, vars, server, threads, clients
  <2> QED BY <2>1, <2>2 DEF MovesInv
<1> QED BY <1>1, <1>2

\* It holds from the start.
LEMMA MovesInvariant == Spec => []MovesInv
<1>1. SyncInv /\ StaysNear /\ Init => MovesInv
  BY MovesAssumption
  DEF Init, MovesInv, PosesNumbered, Snapshots, ScreensBehind, EntitiesRecorded,
      PuttingRight, NoPose, NoLook, Spawned, Behind
<1> QED BY <1>1, MovesStep, SyncInvariant, NearInvariant, PTL DEF Spec

\* Once a move of a player has reached a client, and no later one is on its way,
\* the client draws the player's body where the player is, if it can be told.
THEOREM PositionPutRightAlways == Spec => []PositionPutRight
<1>1. MovesInv => PositionPutRight
  BY DEF MovesInv, SyncInv, TypeOK, PuttingRight, PositionPutRight, Same, OnItsWay
<1> QED BY <1>1, MovesInvariant, PTL

\* Nothing is written about a player the record lacks, nor, where no spawn is
\* refused, about an entity the client does not have: not before its spawn, and
\* not after it is gone.
THEOREM RelaysFollowRecordAlways == Spec => RelaysFollowRecord
<1>1. MovesInv /\ [Next]_vars =>
        [\A r, o \in Players :
           screen'[r][o] # screen[r][o] =>
             /\ o \in shown[r] \cup shown'[r]
             /\ Unrefused(r, o) => o \in entities[r] \cup entities'[r]]_vars
  <2> SUFFICES ASSUME MovesInv, Next, NEW r \in Players, NEW o \in Players,
                      screen'[r][o] # screen[r][o]
               PROVE  /\ o \in shown[r] \cup shown'[r]
                      /\ Unrefused(r, o) => o \in entities[r] \cup entities'[r]
    BY DEF vars
  <2>1. r \notin dead /\ ((\E s : SpawnedBy(r, o, s)) \/ Hidden(r, o) \/ RelayedTo(r, o))
    BY ScreenChange DEF MovesInv, SyncInv
  <2>2. o \in shown[r] => (Unrefused(r, o) => o \in entities[r])
    BY <2>1 DEF MovesInv, EntitiesRecorded
  <2> QED BY <2>1, <2>2 DEF SpawnedBy, Hidden, RelayedTo
<1> QED BY <1>1, MovesInvariant, PTL DEF Spec, RelaysFollowRecord

\* No entity jumps back: whichever join spawned it, and however old the snapshot
\* that one carried, what comes after is not older.
THEOREM NeverBackwardsAlways == Spec => NeverBackwards
<1>1. MovesInv /\ [Next]_vars =>
        [\A r, o \in Players :
           o \in entities[r] /\ o \in entities'[r] =>
             /\ screen'[r][o].pos >= screen[r][o].pos
             /\ screen'[r][o].yaw >= screen[r][o].yaw]_vars
  <2> SUFFICES ASSUME MovesInv, Next, NEW r \in Players, NEW o \in Players,
                      o \in entities[r], o \in entities'[r]
               PROVE  /\ screen'[r][o].pos >= screen[r][o].pos
                      /\ screen'[r][o].yaw >= screen[r][o].yaw
    BY DEF vars
  <2>0. TypeOK /\ TypeOK'
    BY TypeStep DEF MovesInv, SyncInv
  <2>1. /\ screen[r][o] \in Look /\ held[o] \in Pose /\ kind[o] \in Kinds
        /\ \A s \in Pose \cup Look : s.pos \in Nat /\ s.yaw \in Nat
    BY <2>0, MovesAssumption DEF TypeOK, Pose, Look
  <2>2. CASE screen'[r][o] = screen[r][o]
    BY <2>1, <2>2
  <2>3. CASE screen'[r][o] # screen[r][o]
    <3>1. r \notin dead /\ ((\E s : SpawnedBy(r, o, s)) \/ Hidden(r, o) \/ RelayedTo(r, o))
      BY <2>0, <2>3, ScreenChange
    <3>2. RelayedTo(r, o)
      BY <3>1 DEF MovesInv, EntitiesRecorded, SpawnedBy, Hidden
    <3>3. Behind(screen[r][o], held[o])
      BY <3>2 DEF RelayedTo, Relay, MovesInv, Snapshots, ScreensBehind
    <3>4. \/ Same(screen'[r][o], held[o])
          \/ Same(screen'[r][o], screen[r][o])
      BY <2>1, <3>2, RelayedPlace DEF RelayedTo
    <3> QED BY <2>1, <3>3, <3>4 DEF Behind, Same
  <2> QED BY <2>2, <2>3
<1> QED BY <1>1, MovesInvariant, PTL DEF Spec, NeverBackwards
===============================================================================
