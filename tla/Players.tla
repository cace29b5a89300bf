-------------------------------- MODULE Players --------------------------------
(* The packets that list the players, put the client where it stands and ask  *)
(* it whether it is still there, and the steps that carry them along the      *)
(* versions.                                                                  *)
EXTENDS Entities

(***************************************************************************)
(* The player list. From 1.19.3 a packet names what it sets, and each of   *)
(* its entries holds those fields and no others, in this order.            *)
(***************************************************************************)
PlayerInfoActions ==
  << <<"add_player", As("string", <<"username">>) \o As("properties", <<"properties">>)>>,
     <<"initialize_chat", As("bool", <<"chatSession">>)>>,
     <<"update_game_mode", As("varint", <<"gameMode">>)>>,
     <<"update_listed", As("bool", <<"listed">>)>>,
     <<"update_latency", As("varint", <<"latency">>)>>,
     <<"update_display_name", As("bool", <<"displayName">>)>>,
     <<"update_list_order", As("varint", <<"listOrder">>)>>,
     <<"update_hat", As("bool", <<"showHat">>)>> >>

EntryOf(actions) ==
  As("uuid", <<"uuid">>)
    \o FlattenSeq([i \in DOMAIN PlayerInfoActions |->
                     IF PlayerInfoActions[i][1] \in actions THEN PlayerInfoActions[i][2] ELSE <<>>])

Listing == As("actions", <<"actions">>) \o As("entries", <<"entries">>)

(* The session and the display name are always written absent, whatever the   *)
(* entry is.                                                                  *)
PlayerInfoUpdate(p) ==
  LET entry(e) == Written(EntryOf(p.actions), LAMBDA name :
                    IF name \in {"chatSession", "displayName"} THEN FALSE ELSE e[name])
  IN  Written(Listing, LAMBDA name :
        IF name = "actions" THEN p.actions
        ELSE [i \in DOMAIN p.entries |-> entry(p.entries[i])])

ReadEntries(r, layout) == [i \in DOMAIN r.v.entries |-> Read(r.v.entries[i], layout)]
EntriesFit(each) == \A i \in DOMAIN each : each[i].fits /\ each[i].rest = <<>>
Absent(each, name) ==
  \A i \in DOMAIN each : name \in DOMAIN each[i].v => ~each[i].v[name]

(* The entries again, each in the new layout, behind what goes before them.   *)
WriteEntries(r, head, own, each, layout, ownOf(_)) ==
  WriteOnly(r, head, own @@ [entries |-> [i \in DOMAIN each |-> Put(each[i], layout, ownOf(each[i]))]])

dropPlayerInfoAction(b, dropped) ==
  LET r == Read(b, Listing)
      kept == r.v.actions \ {dropped}
      each == ReadEntries(r, EntryOf(r.v.actions))
  IN  IF ~r.fits \/ ~EntriesFit(each) THEN Misread
      ELSE Where(r, Absent(each, "chatSession") /\ Absent(each, "displayName"),
                 WriteEntries(r, Listing, [actions |-> kept], each, EntryOf(kept),
                              LAMBDA e : None))

DowngradePlayerInfoUpdateTo1_21_2(b) == dropPlayerInfoAction(b, "update_hat")
DowngradePlayerInfoUpdateTo1_21(b) == dropPlayerInfoAction(b, "update_list_order")

(* Before 1.19.3 a packet sets one thing, or adds players with everything.    *)
AddPlayer1_19_1 == 0
UpdateGameMode1_19_1 == 1
UpdateLatency1_19_1 == 2
UpdateDisplayName1_19_1 == 3
RemovePlayer1_19_1 == 4
NoAction == -1

playerInfoAction1_19_1(actions) ==
  IF "add_player" \in actions THEN AddPlayer1_19_1
  ELSE CASE actions = {"update_game_mode"} -> UpdateGameMode1_19_1
         [] actions = {"update_latency"} -> UpdateLatency1_19_1
         [] actions = {"update_display_name"} -> UpdateDisplayName1_19_1
         [] OTHER -> NoAction

AddedPlayer ==
  Profile \o As("varint", <<"gameMode", "latency">>) \o As("bool", <<"displayName">>)

EntryOf1_19_1(action) ==
  CASE action = AddPlayer1_19_1 -> AddedPlayer \o As("bool", <<"profileKey">>)
    [] action = UpdateGameMode1_19_1 -> As("uuid", <<"uuid">>) \o As("varint", <<"gameMode">>)
    [] action = UpdateLatency1_19_1 -> As("uuid", <<"uuid">>) \o As("varint", <<"latency">>)
    [] action = UpdateDisplayName1_19_1 -> As("uuid", <<"uuid">>) \o As("bool", <<"displayName">>)

ActionListing == As("varint", <<"action">>) \o As("entries", <<"entries">>)

DowngradePlayerInfoUpdateTo1_19_1(b) ==
  LET r == Read(b, Listing)
      action == playerInfoAction1_19_1(r.v.actions)
      each == ReadEntries(r, EntryOf(r.v.actions))
      \* Survival and no latency, for a player that was said to have neither.
      own(e) == [displayName |-> FALSE, profileKey |-> FALSE]
                  @@ (IF "gameMode" \in DOMAIN e.v THEN None ELSE [gameMode |-> 0])
                  @@ (IF "latency" \in DOMAIN e.v THEN None ELSE [latency |-> 0])
  IN  IF ~r.fits THEN Misread
      ELSE IF action = NoAction THEN Refused
      ELSE IF ~EntriesFit(each) THEN Misread
      ELSE Where(r, Absent(each, "chatSession") /\ Absent(each, "displayName"),
                 WriteEntries(r, ActionListing, [action |-> action], each,
                              EntryOf1_19_1(action), own))

DowngradePlayerInfoUpdateTo1_18_2(b) ==
  LET r == Read(b, ActionListing)
      each == ReadEntries(r, EntryOf1_19_1(AddPlayer1_19_1))
  IN  IF ~r.fits THEN Misread
      ELSE IF r.v.action # AddPlayer1_19_1 THEN Body(b)
      ELSE IF ~EntriesFit(each) THEN Misread
      ELSE Where(r, Absent(each, "displayName") /\ Absent(each, "profileKey"),
                 WriteEntries(r, ActionListing, None, each, AddedPlayer, LAMBDA e : None))

PlayerInfoRemove(p) == Written(As("uuids", <<"uuids">>), LAMBDA name : p[name])

DowngradePlayerInfoRemoveTo1_19_1(b) ==
  Body(Written(As("varint", <<"action">>), LAMBDA name : RemovePlayer1_19_1) \o b)

(* 1.7.6 lists one player, by name, and whether it is on.                     *)
pingMax1_7_6 == 32767
writePlayerListItem1_7_6 ==
  As("string", <<"username">>) \o As("bool", <<"online">>) \o As("short", <<"ping">>)

\* The entry the 1.8 list's update adds, where the step takes it at all.
ListedPlayer(b) ==
  LET r == Read(b, ActionListing)
      added == /\ r.fits /\ r.v.action = AddPlayer1_19_1 /\ Len(r.v.entries) = 1
      each == ReadEntries(r, AddedPlayer)
  IN  [misread |-> ~r.fits \/ (added /\ ~EntriesFit(each)),
       taken |-> /\ added
                 /\ EntriesFit(each)
                 /\ each[1].v.latency \in 0 .. pingMax1_7_6
                 /\ Absent(each, "displayName")
                 /\ r.rest = <<>>,
       player |-> IF added THEN each[1].v ELSE NoOptional]

DowngradePlayerInfoUpdateTo1_7_6(b) ==
  LET listed == ListedPlayer(b)
  IN  IF listed.misread THEN Misread
      ELSE IF ~listed.taken THEN Refused
      ELSE Body(Written(writePlayerListItem1_7_6, LAMBDA name :
             CASE name = "username" -> listed.player.username
               [] name = "online" -> TRUE
               [] name = "ping" -> listed.player.latency))

(* A removal names the player as profiles has it.                             *)
DowngradePlayerInfoRemoveTo1_7_6(b, profiles) ==
  LET r == Read(b, As("varint", <<"action">>) \o As("uuids", <<"uuids">>))
      uuid == r.v.uuids[1]
  IN  Where(r, /\ r.v.action = RemovePlayer1_19_1 /\ Len(r.v.uuids) = 1
               /\ r.rest = <<>> /\ uuid \in DOMAIN profiles,
            WriteOnly(r, writePlayerListItem1_7_6,
                      [username |-> profiles[uuid].username, online |-> FALSE, ping |-> 0]))

(***************************************************************************)
(* Where the client stands, and what lets it into the world.               *)
(***************************************************************************)
Teleport == As("varint", <<"teleportId">>)
Rotation == As("float", <<"yaw", "pitch">>)

PlayerPosition(p) ==
  Written(Teleport \o Position \o Delta \o Rotation \o As("int", <<"relatives">>),
          LAMBDA name : p[name])

\* The bits that say a coordinate is relative, in 1.21 and before.
relativeFlags1_21 == 0 .. 31
DowngradePlayerPositionTo1_21(b) ==
  LET r == Read(b, Teleport \o Position \o Delta \o Rotation \o As("int", <<"relatives">>))
  IN  Where(r, /\ r.v.deltaX = 0 /\ r.v.deltaY = 0 /\ r.v.deltaZ = 0
               /\ r.v.relatives \in relativeFlags1_21,
            WriteOnly(r, Position \o Rotation \o As("byte", <<"relatives">>) \o Teleport, None))

\* Mutant: the flag at the end is forgotten, and the next step reads past the body.
PositionWithoutDismount(b) == Body(b)

DowngradePlayerPositionTo1_19_3(b) ==
  WriteBehind(b, As("bool", <<"dismountVehicle">>), [dismountVehicle |-> FALSE])

PositionHead == Position \o Rotation \o As("byte", <<"relatives">>)

DowngradePlayerPositionTo1_16_4(b) ==
  WriteOnly(Read(b, PositionHead \o Teleport \o As("bool", <<"dismountVehicle">>)),
            PositionHead \o Teleport, None)

DowngradePlayerPositionTo1_8(b) ==
  WriteAll(Read(b, PositionHead \o Teleport), PositionHead, None)

(* 1.7.6 is told where its eyes are: 1.62 of a block, as near as 64ths come.  *)
eyeHeight1_7_6 == 104
DowngradePlayerPositionTo1_7_6(b) ==
  LET r == Read(b, PositionHead)
  IN  Where(r, r.v.relatives = 0,
            WriteAll(r, Position \o Rotation \o OnGround,
                     [y |-> r.v.y + eyeHeight1_7_6, onGround |-> FALSE]))

(* What a 1.20.3 client waits for before it draws the world is an event, and  *)
(* before it the place of its spawn, whose three numbers share a long.        *)
GameEventStartWaitingForChunks == 13
GameEvent(p) == Written(As("byte", <<"event">>) \o As("float", <<"value">>), LAMBDA name : p[name])

DowngradeGameEventTo1_20_2(b) ==
  LET r == Read(b, As("byte", <<"event">>) \o As("float", <<"value">>))
  IN  Where(r, r.v.event = GameEventStartWaitingForChunks,
            WriteOnly(r, As("x z y", <<"spawn">>) \o As("float", <<"angle">>),
                      [spawn |-> <<0, 0, 0>>, angle |-> 0]))

DowngradeSetDefaultSpawnPositionTo1_16_4(b) ==
  WriteOnly(Read(b, As("x z y", <<"spawn">>) \o As("float", <<"angle">>)),
            As("x z y", <<"spawn">>), None)

DowngradeSetDefaultSpawnPositionTo1_13_2(b) ==
  WriteThen(Read(b, As("x z y", <<"spawn">>)), As("x y z", <<"spawn">>), None)

DowngradeSetDefaultSpawnPositionTo1_7_6(b) ==
  WriteAll(Read(b, As("x y z", <<"spawn">>)), As("three ints", <<"spawn">>), None)

(***************************************************************************)
(* The keep alive: a long, and before 1.12.2 as many bits as an int has.   *)
(***************************************************************************)
KeepAlive(p) == Written(As("long", <<"id">>), LAMBDA name : p[name])

\* The low half of a long, with its sign.
LowHalf(long) == ((long + IntMax + 1) % (2 * (IntMax + 1))) - IntMax - 1

DowngradeKeepAliveTo1_12_1(b) ==
  LET r == Read(b, As("long", <<"id">>))
  IN  Where(r, r.v.id \in -IntMax - 1 .. IntMax, WriteOnly(r, As("varint", <<"id">>), None))

UpgradeKeepAliveFrom1_12_1(b) ==
  WriteOnly(Read(b, As("varint", <<"id">>)), As("long", <<"id">>), None)

DowngradeKeepAliveTo1_7_6(b) ==
  WriteAll(Read(b, As("varint", <<"id">>)), As("int", <<"id">>), None)

UpgradeKeepAliveFrom1_7_6(b) ==
  WriteAll(Read(b, As("int", <<"id">>)), As("varint", <<"id">>), None)

\* Mutant: the low half of the clock, whatever it is.
LowHalfOfClock(clock) == LowHalf(clock)

\* The id SendKeepAlive gives a keep alive at that millisecond; zero is none.
KeepAliveId(clock) == IF LowHalf(clock) = 0 THEN 1 ELSE LowHalf(clock)
===============================================================================
