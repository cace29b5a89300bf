------------------------------ MODULE PlayerSync ------------------------------
(* How one connection's player reaches the others: the roster, the joins, the *)
(* leaves and the relays of src/client/sync.go.                               *)
(*                                                                            *)
(* A player is one connection. Everything a player does here -- its join, its *)
(* moves, its leave -- runs in that order on the goroutine that reads its     *)
(* connection, and interleaves with every other player's. No goroutine holds  *)
(* two locks, so each action below is one critical section: of the roster's   *)
(* mutex ps.mu, or of one connection's mutex c.mu. A snapshot of the roster   *)
(* or of a player is a local of its goroutine and may be stale when used.     *)
EXTENDS Naturals, FiniteSets

CONSTANTS
  Players,    \* the connections of one server
  Uuids,      \* the uuids of their profiles
  Uuid,       \* Uuid[p], under which a client lists p
  FixedPoint, \* the connections of 1.8 and before, whose packets place an
              \* entity in 32 bits of fixed point
  ByName,     \* those of 1.7.6 and before, whose packets say a profile's name
  Wanderers,  \* the players whose clients report places beyond fixed point:
              \* a move's coordinates are relayed as they came
  Fragile,    \* bound: the connections that may die under a writer
  MaxMoves    \* bound: how many moves one player makes

ASSUME UuidAssumption == Uuid \in [Players -> Uuids]
ASSUME FixedPointAssumption == FixedPoint \subseteq Players
ASSUME ByNameAssumption == ByName \subseteq FixedPoint
ASSUME FragileAssumption == Fragile \subseteq Players
ASSUME MovesAssumption == MaxMoves \in Nat

VARIABLES
  \* what the server holds
  roster,     \* PlayerSync.players
  shown,      \* shown[r] is r's shownPlayers, the record of who it was shown
  pose,       \* pose[p] is where p is, turned to and whether it sneaks
  \* the goroutine reading each player's connection
  pc,         \* what it does next
  todo,       \* the connections its loop over others(c) has yet to visit
  cur,        \* the one a join is visiting
  held,       \* the snapshot it carries: of cur in a join, of itself in a relay
  kind,       \* what it relays
  moves,      \* how many moves it has made
  \* the clients at the far ends
  dead,       \* the connections nothing written to reaches any more
  entities,   \* entities[r] is the set of players in r's world
  listed,     \* listed[r] is the set of uuids in r's player list
  screen      \* screen[r][o] is how the entity of o looks to r

server == <<roster, shown, pose>>
threads == <<pc, todo, cur, held, kind, moves>>
clients == <<dead, entities, listed, screen>>
vars == <<server, threads, clients>>

-------------------------------------------------------------------------------
(* Data. A position, an angle and a stance are abstracted to what a relay can *)
(* get wrong about them: whether it is the latest one. Positions and angles   *)
(* are numbered by the move that reported them; a stance is a flag; far says  *)
(* that the latest position is one fixed point cannot hold.                   *)

Pose == [pos : 0..MaxMoves, yaw : 0..MaxMoves, far : BOOLEAN, sneaking : BOOLEAN]
NoPose == [pos |-> 0, yaw |-> 0, far |-> FALSE, sneaking |-> FALSE]

\* What a client was last told of an entity, and draws where it has it: the body
\* and the head turn separately, and moved says that a position has reached it
\* since the spawn.
Look == [pos : 0..MaxMoves, yaw : 0..MaxMoves, head : 0..MaxMoves,
         sneaking : BOOLEAN, moved : BOOLEAN]

Spawned(s) == [pos |-> s.pos, yaw |-> s.yaw, head |-> s.yaw,
               sneaking |-> s.sneaking, moved |-> FALSE]
NoLook == Spawned(NoPose)

Kinds == {"none", "position", "rotation", "stance", "swing"}

\* Mutant: the angles of a turn are taken for a position further on.
RelayedSwapped(look, k, s) ==
  CASE k = "position" -> [look EXCEPT !.pos = s.pos, !.yaw = s.yaw, !.moved = TRUE]
    [] k = "rotation" -> [look EXCEPT !.pos = s.pos + s.yaw, !.yaw = s.yaw,
                                      !.head = s.yaw, !.moved = TRUE]
    [] k = "stance"   -> [look EXCEPT !.sneaking = s.sneaking]
    [] OTHER          -> look

\* The look of an entity after a relay: relayMove's position packet, which
\* carries the angles of the body, and the head packet when the move carried
\* a rotation; the byte both stances travel in; or a swing, which passes.
Relayed(look, k, s) ==
  CASE k = "position" -> [look EXCEPT !.pos = s.pos, !.yaw = s.yaw, !.moved = TRUE]
    [] k = "rotation" -> [look EXCEPT !.pos = s.pos, !.yaw = s.yaw,
                                      !.head = s.yaw, !.moved = TRUE]
    [] k = "stance"   -> [look EXCEPT !.sneaking = s.sneaking]
    [] OTHER          -> look

Joining  == {"added", "joining", "showOther", "showSelf", "recheck", "unghost"}
Settled  == {"in", "moved", "relaying"}
Leaving  == {"left", "leaving"}
PCs      == {"out", "gone"} \cup Joining \cup Settled \cup Leaving

TypeOK ==
  /\ roster   \in SUBSET Players
  /\ shown    \in [Players -> SUBSET Players]
  /\ pose     \in [Players -> Pose]
  /\ pc       \in [Players -> PCs]
  /\ todo     \in [Players -> SUBSET Players]
  /\ cur      \in [Players -> Players]
  /\ held     \in [Players -> Pose]
  /\ kind     \in [Players -> Kinds]
  /\ moves    \in [Players -> 0..MaxMoves]
  /\ dead     \in SUBSET Fragile
  /\ entities \in [Players -> SUBSET Players]
  /\ listed   \in [Players -> SUBSET Uuids]
  /\ screen   \in [Players -> [Players -> Look]]

Init ==
  /\ roster   = {}
  /\ shown    = [p \in Players |-> {}]
  /\ pose     = [p \in Players |-> NoPose]
  /\ pc       = [p \in Players |-> "out"]
  /\ todo     = [p \in Players |-> {}]
  /\ cur      = [p \in Players |-> p]
  /\ held     = [p \in Players |-> NoPose]
  /\ kind     = [p \in Players |-> "none"]
  /\ moves    = [p \in Players |-> 0]
  /\ dead     = {}
  /\ entities = [p \in Players |-> {}]
  /\ listed   = [p \in Players |-> {Uuid[p]}]
  /\ screen   = [r \in Players |-> [o \in Players |-> NoLook]]

-------------------------------------------------------------------------------
(* What is decided under a recipient's lock. writeSyncPackets ends a batch at *)
(* its first error, and an error is logged and the record stands: nothing     *)
(* written to a dead connection arrives, and on a live one a packet arrives   *)
(* unless the recipient's version refuses to translate it. Two do so: fixed   *)
(* point cannot hold every place (positionTo1_8), and a packet that names a   *)
(* profile finds it forgotten when listings elsewhere pushed it off the cache *)
(* all connections share. The cache is Profiles's; here it may have forgotten *)
(* any profile whenever one is looked up. A list entry is never refused.      *)

Goto(p, from, to) == pc[p] = from /\ pc' = [pc EXCEPT ![p] = to]

\* An entity of that pose is somewhere the client's packets cannot say.
OutOfReach(r, s) == r \in FixedPoint /\ s.far

\* No packet reaches the client.
Unwritten == UNCHANGED <<entities, listed, screen>>

\* Mutant: spawns the player again although it is already there.
ShowPlayerAgain(r, o, s) ==
  /\ shown' = [shown EXCEPT ![r] = @ \cup {o}]
  /\ IF r \in dead
     THEN Unwritten
     ELSE /\ listed' = [listed EXCEPT ![r] = @ \cup {Uuid[o]}]
          /\ \/ /\ ~OutOfReach(r, s)
                /\ entities' = [entities EXCEPT ![r] = @ \cup {o}]
                /\ screen'   = [screen EXCEPT ![r][o] = Spawned(s)]
             \/ /\ OutOfReach(r, s) \/ r \in ByName
                /\ UNCHANGED <<entities, screen>>

\* Mutant: the entity is added before the list entry, and may end the batch.
ShowPlayerUnlisted(r, o, s) ==
  /\ shown' = [shown EXCEPT ![r] = @ \cup {o}]
  /\ IF o \in shown[r] \/ r \in dead
     THEN Unwritten
     ELSE \/ /\ ~OutOfReach(r, s)
             /\ listed'   = [listed EXCEPT ![r] = @ \cup {Uuid[o]}]
             /\ entities' = [entities EXCEPT ![r] = @ \cup {o}]
             /\ screen'   = [screen EXCEPT ![r][o] = Spawned(s)]
          \/ (OutOfReach(r, s) \/ r \in ByName) /\ Unwritten

\* showPlayer: the record is marked before anything is written; then the list
\* entry, which arrives, and the entity with its stance, which may be refused.
ShowPlayer(r, o, s) ==
  /\ shown' = [shown EXCEPT ![r] = @ \cup {o}]
  /\ IF o \in shown[r] \/ r \in dead
     THEN Unwritten
     ELSE /\ listed' = [listed EXCEPT ![r] = @ \cup {Uuid[o]}]
          /\ \/ /\ ~OutOfReach(r, s)
                /\ entities' = [entities EXCEPT ![r] = @ \cup {o}]
                /\ screen'   = [screen EXCEPT ![r][o] = Spawned(s)]
             \/ /\ OutOfReach(r, s) \/ r \in ByName
                /\ UNCHANGED <<entities, screen>>

\* hidePlayer: the entity goes by its id, the list entry by its uuid -- or, where
\* a client's packet says the name, by a name that may be forgotten.
HidePlayer(r, o) ==
  /\ shown' = [shown EXCEPT ![r] = @ \ {o}]
  /\ IF o \notin shown[r] \/ r \in dead
     THEN Unwritten
     ELSE /\ entities' = [entities EXCEPT ![r] = @ \ {o}]
          /\ screen'   = [screen EXCEPT ![r][o] = NoLook]
          /\ \/ listed' = [listed EXCEPT ![r] = @ \ {Uuid[o]}]
             \/ r \in ByName /\ UNCHANGED listed

\* A relay carries where its player is, and is refused with that.
Undelivered(r, k, s) ==
  r \in dead \/ (k \in {"position", "rotation"} /\ OutOfReach(r, s))

\* Mutant: relays to anyone on the roster, shown the player or not.
RelayToAnyone(r, o, k, s) ==
  screen' = IF ~Undelivered(r, k, s)
            THEN [screen EXCEPT ![r][o] = Relayed(@, k, s)]
            ELSE screen

\* relayToKnown: dropped where the player was never shown, or is gone again.
\* The record is all it asks, so it writes about a spawn that was refused, too.
RelayToKnown(r, o, k, s) ==
  screen' = IF o \in shown[r] /\ ~Undelivered(r, k, s)
            THEN [screen EXCEPT ![r][o] = Relayed(@, k, s)]
            ELSE screen

-------------------------------------------------------------------------------
(* JoinPlayerSync                                                             *)

\* ps.add(c): onto the roster before anything is sent.
JoinAdd(p) ==
  /\ Goto(p, "out", "added")
  /\ roster' = roster \cup {p}
  /\ UNCHANGED <<shown, pose, todo, cur, held, kind, moves, clients>>

\* ps.others(c). The snapshot of itself the join takes just before is pose[p]:
\* nothing but this goroutine changes it.
JoinOthers(p) ==
  /\ Goto(p, "added", "joining")
  /\ todo' = [todo EXCEPT ![p] = roster \ {p}]
  /\ UNCHANGED <<server, cur, held, kind, moves, clients>>

\* Mutant: the loop does not advance past the connection it visits.
JoinVisitStuck(p, o) ==
  /\ Goto(p, "joining", "showOther")
  /\ o \in todo[p]
  /\ cur'  = [cur EXCEPT ![p] = o]
  /\ held' = [held EXCEPT ![p] = pose[o]]
  /\ UNCHANGED <<server, todo, kind, moves, clients>>

\* The loop visits the others in any order: others() ranges over a map.
JoinVisit(p, o) ==
  /\ Goto(p, "joining", "showOther")
  /\ o \in todo[p]
  /\ todo' = [todo EXCEPT ![p] = @ \ {o}]
  /\ cur'  = [cur EXCEPT ![p] = o]
  /\ held' = [held EXCEPT ![p] = pose[o]]
  /\ UNCHANGED <<server, kind, moves, clients>>

JoinShowOther(p) ==
  /\ Goto(p, "showOther", "showSelf")
  /\ ShowPlayer(p, cur[p], held[p])
  /\ held' = [held EXCEPT ![p] = NoPose]
  /\ UNCHANGED <<roster, pose, todo, cur, kind, moves, dead>>

JoinShowSelf(p) ==
  /\ Goto(p, "showSelf", "recheck")
  /\ ShowPlayer(cur[p], p, pose[p])
  /\ UNCHANGED <<roster, pose, todo, cur, held, kind, moves, dead>>

\* Mutant: the join does not check whether the one it was shown has left.
JoinNoRecheck(p) ==
  /\ Goto(p, "recheck", "joining")
  /\ cur' = [cur EXCEPT ![p] = p]
  /\ UNCHANGED <<server, todo, held, kind, moves, clients>>

\* ps.contains(other), once both have been shown.
JoinRecheck(p) ==
  /\ Goto(p, "recheck", IF cur[p] \in roster THEN "joining" ELSE "unghost")
  /\ cur' = [cur EXCEPT ![p] = IF @ \in roster THEN p ELSE @]
  /\ UNCHANGED <<server, todo, held, kind, moves, clients>>

\* Mutant: a player that left mid-join ends the loop instead of its turn.
JoinUnghostBreaks(p) ==
  /\ Goto(p, "unghost", "in")
  /\ HidePlayer(p, cur[p])
  /\ cur'  = [cur EXCEPT ![p] = p]
  /\ todo' = [todo EXCEPT ![p] = {}]
  /\ UNCHANGED <<roster, pose, held, kind, moves, dead>>

JoinUnghost(p) ==
  /\ Goto(p, "unghost", "joining")
  /\ HidePlayer(p, cur[p])
  /\ cur' = [cur EXCEPT ![p] = p]
  /\ UNCHANGED <<roster, pose, todo, held, kind, moves, dead>>

JoinDone(p) ==
  /\ Goto(p, "joining", "in")
  /\ todo[p] = {}
  /\ UNCHANGED <<server, todo, cur, held, kind, moves, clients>>

-------------------------------------------------------------------------------
(* SyncPosition, SyncRotation, SyncPositionRotation, SyncSneaking, SyncSwing  *)

\* Mutant: the snapshot is taken before the move is recorded.
RecordAfterSnapshot(p, k, s) ==
  /\ Goto(p, "in", "moved")
  /\ moves[p] < MaxMoves
  /\ moves' = [moves EXCEPT ![p] = @ + 1]
  /\ pose'  = [pose EXCEPT ![p] = s]
  /\ held'  = [held EXCEPT ![p] = pose[p]]
  /\ kind'  = [kind EXCEPT ![p] = k]
  /\ UNCHANGED <<roster, shown, todo, cur, clients>>

\* The record of the move, under the player's own lock; what is relayed of it
\* leaves with the snapshot taken there.
Record(p, k, s) ==
  /\ Goto(p, "in", "moved")
  /\ moves[p] < MaxMoves
  /\ moves' = [moves EXCEPT ![p] = @ + 1]
  /\ pose'  = [pose EXCEPT ![p] = s]
  /\ held'  = [held EXCEPT ![p] = s]
  /\ kind'  = [kind EXCEPT ![p] = k]
  /\ UNCHANGED <<roster, shown, todo, cur, clients>>

\* Where a move may put a player: nothing checks the coordinates it came with.
Reaches(p) == IF p \in Wanderers THEN BOOLEAN ELSE {FALSE}

SyncPosition(p) ==
  \E f \in Reaches(p) :
    Record(p, "position", [pose[p] EXCEPT !.pos = moves[p] + 1, !.far = f])
SyncRotation(p) == Record(p, "rotation", [pose[p] EXCEPT !.yaw = moves[p] + 1])
SyncPositionRotation(p) ==
  \E f \in Reaches(p) :
    Record(p, "rotation",
           [pose[p] EXCEPT !.pos = moves[p] + 1, !.yaw = moves[p] + 1, !.far = f])

\* A stance that did not change is not relayed, and changes nothing.
SyncSneaking(p) == Record(p, "stance", [pose[p] EXCEPT !.sneaking = ~@])

SyncSwing(p) == Record(p, "swing", pose[p])

\* others(c), then each of them in turn.
RelayOthers(p) ==
  /\ Goto(p, "moved", "relaying")
  /\ todo' = [todo EXCEPT ![p] = roster \ {p}]
  /\ UNCHANGED <<server, cur, held, kind, moves, clients>>

Relay(p, o) ==
  /\ pc[p] = "relaying"
  /\ o \in todo[p]
  /\ todo' = [todo EXCEPT ![p] = @ \ {o}]
  /\ RelayToKnown(o, p, kind[p], held[p])
  /\ UNCHANGED <<server, pc, cur, held, kind, moves, dead, entities, listed>>

RelayDone(p) ==
  /\ Goto(p, "relaying", "in")
  /\ todo[p] = {}
  /\ held' = [held EXCEPT ![p] = NoPose]
  /\ kind' = [kind EXCEPT ![p] = "none"]
  /\ UNCHANGED <<server, todo, cur, moves, clients>>

-------------------------------------------------------------------------------
(* leavePlayerSync, called when the connection has ended                      *)

\* ps.remove(c) found the player on the roster.
LeaveRemove(p) ==
  /\ Goto(p, "in", "left")
  /\ roster' = roster \ {p}
  /\ UNCHANGED <<shown, pose, todo, cur, held, kind, moves, clients>>

\* ps.remove(c) found nobody: the connection ended before its join.
LeaveUnjoined(p) ==
  /\ Goto(p, "out", "gone")
  /\ UNCHANGED <<server, todo, cur, held, kind, moves, clients>>

\* Mutant: the departure is broadcast to those whose own join is over.
LeaveOthersSettled(p) ==
  /\ Goto(p, "left", "leaving")
  /\ todo' = [todo EXCEPT ![p] = {q \in roster \ {p} : pc[q] \in Settled}]
  /\ UNCHANGED <<server, cur, held, kind, moves, clients>>

LeaveOthers(p) ==
  /\ Goto(p, "left", "leaving")
  /\ todo' = [todo EXCEPT ![p] = roster \ {p}]
  /\ UNCHANGED <<server, cur, held, kind, moves, clients>>

LeaveHide(p, o) ==
  /\ pc[p] = "leaving"
  /\ o \in todo[p]
  /\ todo' = [todo EXCEPT ![p] = @ \ {o}]
  /\ HidePlayer(o, p)
  /\ UNCHANGED <<roster, pose, pc, cur, held, kind, moves, dead>>

LeaveDone(p) ==
  /\ Goto(p, "leaving", "gone")
  /\ todo[p] = {}
  /\ UNCHANGED <<server, todo, cur, held, kind, moves, clients>>

-------------------------------------------------------------------------------
(* A connection dies under its writers: a deadline passes or the peer is gone.*)
(* The stream keeps the error, so nothing written later arrives either. What  *)
(* fails on a live connection is one packet, in the operators above.          *)
WriteFails(p) ==
  /\ p \in Fragile \ dead
  /\ pc[p] \notin {"out", "gone"}
  /\ dead' = dead \cup {p}
  /\ UNCHANGED <<server, threads, entities, listed, screen>>

JoinStep(p) ==
  \/ JoinOthers(p) \/ JoinShowOther(p) \/ JoinShowSelf(p) \/ JoinRecheck(p)
  \/ JoinUnghost(p) \/ JoinDone(p) \/ \E o \in Players : JoinVisit(p, o)
RelayStep(p) ==
  RelayOthers(p) \/ RelayDone(p) \/ \E o \in Players : Relay(p, o)
LeaveStep(p) ==
  LeaveOthers(p) \/ LeaveDone(p) \/ \E o \in Players : LeaveHide(p, o)
Sync(p) ==
  \/ SyncPosition(p) \/ SyncRotation(p) \/ SyncPositionRotation(p)
  \/ SyncSneaking(p) \/ SyncSwing(p)

Next == \E p \in Players :
  \/ JoinAdd(p) \/ JoinStep(p) \/ Sync(p) \/ RelayStep(p)
  \/ LeaveRemove(p) \/ LeaveUnjoined(p) \/ LeaveStep(p) \/ WriteFails(p)

Spec == Init /\ [][Next]_vars

\* Every loop here ends on its own: each write is bounded by syncWriteTimeout,
\* and no lock is held but around one. That a player joins, moves or leaves is
\* up to its client.
Fairness == \A p \in Players : WF_vars(JoinStep(p) \/ RelayStep(p) \/ LeaveStep(p))

FairSpec == Spec /\ Fairness

-------------------------------------------------------------------------------
(* Properties                                                                 *)

\* Ghosts: a player settled in the world has nobody in its record but players
\* that are on the roster, or whose departure is still on its way to it: the
\* removal has happened and its broadcast has not reached this connection. It
\* is what the order of JoinPlayerSync -- add, show, recheck -- is there for.
NoGhosts ==
  \A r, o \in Players :
    pc[r] \in Settled /\ o \in shown[r] =>
      \/ o \in roster
      \/ pc[o] = "left"
      \/ pc[o] = "leaving" /\ r \in todo[o]

\* Missing players: any two players whose joins are over have each other in
\* their records, however the two joins interleaved.
MutualSight ==
  \A r, o \in Players :
    r # o /\ pc[r] \in Settled /\ pc[o] \in Settled => o \in shown[r]

\* The connections and players between which no spawn and no relay is refused.
Unrefused(r, o) == r \notin ByName /\ (r \in FixedPoint => o \notin Wanderers)

\* JoinPlayerSync: "the recipient's world ends up matching its record of it", of
\* which this is what a refused packet cannot put out of step, on any connection
\* alive: a client has no entity its connection's record lacks, and a list entry
\* for everyone in the record; it has an entity for each of them it can be told
\* of; and its list holds nobody else, unless a name may have been forgotten.
WorldFollowsRecord ==
  \A r \in Players \ dead :
    /\ entities[r] \subseteq shown[r]
    /\ \A o \in shown[r] : Uuid[o] \in listed[r]
    /\ \A o \in shown[r] : Unrefused(r, o) => o \in entities[r]
    /\ r \notin ByName => listed[r] = {Uuid[r]} \cup {Uuid[o] : o \in shown[r]}

\* showPlayer: the list entry goes first, "because a player entity whose uuid has
\* no entry is refused", and however sends interleave, "the recipient's world ends
\* up matching its record of it": everybody in a live connection's record is on
\* its client's player list for as long as it is in the record.
ShownAreListed ==
  \A r \in Players \ dead : \A o \in shown[r] : Uuid[o] \in listed[r]

\* Once a move of o reached r after the spawn, and no later move is on its way,
\* r draws the body of o where o is, unless that is a place r's version cannot
\* say: no other relay of one player is lost, dropped or reordered for a client
\* that has its entity, and one that was refused is made up for by the next.
PositionPutRight ==
  \A r \in roster \ dead, o \in roster :
    /\ o \in entities[r] /\ screen[r][o].moved
    /\ pc[o] = "in" /\ ~OutOfReach(r, pose[o])
    => screen[r][o].pos = pose[o].pos /\ screen[r][o].yaw = pose[o].yaw

\* relayToKnown: a relay dropped before the spawn "is simply dropped, and the
\* next move after the spawn puts the entity right": once a move has reached r
\* and nothing is on its way, what r draws of o is what o is: the head, "the
\* part of a player everyone actually watches", and the stance with the body.
NextMovePutsRight ==
  \A r \in roster \ dead, o \in roster :
    o \in shown[r] /\ screen[r][o].moved /\ pc[o] = "in" =>
      /\ screen[r][o].pos = pose[o].pos
      /\ screen[r][o].yaw = pose[o].yaw
      /\ screen[r][o].head = pose[o].yaw
      /\ screen[r][o].sneaking = pose[o].sneaking

\* No client ever sees an entity jump back to where its player was before: the
\* two joins that may each carry a snapshot of one player spawn it once.
NeverBackwards ==
  [][\A r, o \in Players :
       o \in entities[r] /\ o \in entities'[r] =>
         /\ screen'[r][o].pos >= screen[r][o].pos
         /\ screen'[r][o].yaw >= screen[r][o].yaw]_vars

\* Nothing is relayed to a client about a player its connection's record lacks,
\* nor, where no spawn is refused, about an entity not in its world: however a
\* move, a join and a leave interleave, "a relay cannot land before its player
\* exists or after it is gone".
RelaysFollowRecord ==
  [][\A r, o \in Players :
       screen'[r][o] # screen[r][o] =>
         /\ o \in shown[r] \cup shown'[r]
         /\ Unrefused(r, o) => o \in entities[r] \cup entities'[r]]_vars

\* What the players are promised. The stay of p, read off its goroutine:
Stay(p) == CASE pc[p] = "out"       -> "out"
             [] pc[p] \in Joining   -> "joining"
             [] pc[p] \in Settled   -> "in"
             [] pc[p] \in Leaving   -> "leaving"
             [] OTHER               -> "left"

List == INSTANCE PlayerList WITH phase <- [p \in Players |-> Stay(p)], sees <- shown

\* The joins, leaves and relays implement the player list, step by step, and
\* end what they begin.
ImplementsListSafety == List!ListSafety
ImplementsListLiveness == List!ListLiveness
===============================================================================
