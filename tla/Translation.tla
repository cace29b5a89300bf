------------------------------- MODULE Translation -------------------------------
(* A client of any supported version and the server that only speaks the      *)
(* newest: every packet goes through Registry.EncodeClientbound or            *)
(* Registry.UpgradeBody, one version at a time (src/protocol/registry.go).    *)
(* The connection's packets are carried one after the other; the profile      *)
(* cache is shared, and other 1.7.6 clients' lists are put into it meanwhile. *)
EXTENDS Registrations, Clients, Profiles

CONSTANTS
  ClientIds,     \* the numbers that handshakes name
  Accounts,      \* for each uuid the name and the skin it has
  Stands,        \* where a player is: x, y, z, yaw, pitch, onGround
  Clocks,        \* milliseconds at which keep alives are sent
  Save,          \* the directory of the world
  KeySets        \* the keys a player may hold down

ASSUME AccountsAssumption == Accounts \in [Uuids -> Noted1_7_6]

VARIABLES
  version,   \* the client's
  walk       \* the packet on its way, or none
vars == <<version, walk, profiles, order>>

Still == [packet |-> "none", way |-> "none", sent |-> <<>>, body |-> <<>>, at |-> Zero, end |-> "whole"]
Idle == walk.packet = "none"

Init ==
  /\ version \in {GetProtocolVersionById(id) : id \in ClientIds} \ {Zero}
  /\ walk = Still
  /\ CacheInit

PhaseOf(packet) ==
  CASE packet \in {"LoginStart", "EncryptionRequest", "EncryptionResponse", "LoginSuccess"} -> "login"
    [] packet = "RegistryData" -> "configuration"
    [] packet = "UpdateTags" -> IF HasConfigurationPhase(version) THEN "configuration" ELSE "play"
    [] OTHER -> "play"

\* Carried all the way, to the client or to the decoder.
Arrived ==
  /\ ~Idle
  /\ walk.end = "whole"
  /\ walk.at = IF walk.way = "down" THEN version ELSE Latest
Reached(kinds) == Arrived /\ walk.packet \in kinds

(***************************************************************************)
(* What the server says: each packet as it encodes it, at the newest.      *)
(***************************************************************************)
Say(packet, sent, body) ==
  LET carried == GetClientboundId(PhaseOf(packet), packet, version) # -1
  IN  /\ walk' = [packet |-> packet, way |-> "down", sent |-> sent,
                  body |-> IF carried THEN body ELSE <<>>, at |-> Latest,
                  end |-> IF carried THEN "whole" ELSE "refused"]
      /\ UNCHANGED <<version, cache>>

SayGreeting ==
  /\ Idle
  /\ \E uuid \in Uuids :
       LET asked == [serverId |-> "", publicKey |-> 1, verifyToken |-> 2, shouldAuthenticate |-> TRUE]
           admitted == Accounts[uuid] @@ [uuid |-> uuid, sessionId |-> 3]
       IN  \/ Say("EncryptionRequest", asked, EncryptionRequest(asked))
           \/ Say("LoginSuccess", admitted, LoginSuccess(admitted))

overworldDimension == "minecraft:overworld"
viewDistance == 8
simulationDistance == 2
GameModeNone == -1

\* The login packet and the client's own entry in the list, enterPlay.
SayLogin ==
  /\ Idle
  /\ \E gameMode \in {0, 3}, onlineMode \in BOOLEAN :
       LET login == [entityId |-> 1, hardcore |-> FALSE, dimensions |-> <<overworldDimension>>,
                     maxPlayers |-> 0, viewDistance |-> viewDistance,
                     simulationDistance |-> simulationDistance, reducedDebugInfo |-> FALSE,
                     showDeathScreen |-> TRUE, doLimitedCrafting |-> FALSE,
                     dimensionType |-> overworldDimensionTypeId, dimension |-> overworldDimension,
                     seed |-> 0, gameMode |-> gameMode, previousGameMode |-> GameModeNone,
                     isDebug |-> FALSE, isFlat |-> FALSE, deathLocation |-> NoOptional,
                     portalCooldown |-> 0, seaLevel |-> 0, onlineMode |-> onlineMode,
                     enforcesSecureChat |-> FALSE]
       IN  Say("Login", login, PlayLogin(login))

SayListed ==
  /\ Idle
  /\ \E uuid \in Uuids, gameMode \in {0, 3} :
       LET entry == Accounts[uuid] @@ [uuid |-> uuid, gameMode |-> gameMode, listed |-> TRUE,
                                       latency |-> 0, listOrder |-> 0, showHat |-> TRUE]
           info == [actions |-> {"add_player", "update_game_mode", "update_listed", "update_hat"},
                    entries |-> <<entry>>]
       IN  Say("PlayerInfoUpdate", info, PlayerInfoUpdate(info))

SayUnlisted ==
  /\ Idle
  /\ \E uuid \in Uuids :
       LET info == [uuids |-> <<uuid>>] IN Say("PlayerInfoRemove", info, PlayerInfoRemove(info))

(* The rest of the join: the registries and the tags where the version reads  *)
(* them, where the client stands, and that the chunks are next.               *)
SayRegistries ==
  /\ Idle
  /\ \E i \in DOMAIN PacketsFor(version) :
       LET data == PacketsFor(version)[i]
       IN  Say(data.packet, [gameData |-> data.body],
               Written(<< <<"gameData", data.body.form>> >>, LAMBDA name : data.body))

spawnTeleportId == 1
SayPosition ==
  /\ Idle
  /\ \E stand \in Stands :
       LET position == [teleportId |-> spawnTeleportId, deltaX |-> 0, deltaY |-> 0, deltaZ |-> 0,
                        yaw |-> 0, pitch |-> 0, relatives |-> 0] @@ stand
       IN  Say("PlayerPosition", position, PlayerPosition(position))

SayChunksNext ==
  /\ Idle
  /\ LET event == [event |-> GameEventStartWaitingForChunks, value |-> 0]
     IN  Say("GameEvent", event, GameEvent(event))

(* A chunk of the world, in the packets the version has it in; or, where the  *)
(* server has none, of the void.                                              *)
Loaded == Load(Save)

SayChunk ==
  /\ Idle
  /\ \E void \in BOOLEAN :
       /\ ~void => Loaded.is = "found"
       /\ \E chunk \in IF void THEN Void(version) ELSE Loaded.v.chunks :
            \E carried \in ToSet(prepare(version, chunk)) : Say(carried[1], [void |-> void], carried[2])

SayCenter ==
  /\ Idle
  /\ Loaded.is = "found"
  /\ \E i \in DOMAIN startPackets(version) :
       Say(startPackets(version)[i], Loaded.v.center,
           Written(As("varint", <<"x", "z">>), LAMBDA name : Loaded.v.center[name]))

\* What the player synchronization shows of another player.
SayEntity ==
  /\ Idle
  /\ \E uuid \in Uuids, stand \in Stands :
       LET entity == stand @@ [entityId |-> 2, uuid |-> uuid, type |-> PlayerEntityTypeId,
                               velocity |-> 0, headYaw |-> stand.yaw, data |-> 0, path |-> 0]
       IN  \/ Say("AddEntity", entity, AddEntity(entity))
           \/ Say("EntityPositionSync", entity, EntityPositionSync(entity))
           \/ Say("RotateHead", entity, RotateHead(entity))

SayStance ==
  /\ Idle
  /\ \E sneaking, sprinting \in BOOLEAN :
       LET stance == [entityId |-> 2, sneaking |-> sneaking, sprinting |-> sprinting,
                      hand |-> 0, animation |-> 1, duration |-> 6, entityIds |-> <<2>>]
       IN  \/ Say("SetEntityData", stance, SetEntityData(stance))
           \/ Say("SwingAnimation", stance, SwingAnimation(stance))
           \/ Say("RemoveEntities", stance, RemoveEntities(stance))

\* SendKeepAlive: the id is what the connection then waits on.
SayKeepAlive ==
  /\ Idle
  /\ \E clock \in Clocks :
       LET ask == [id |-> KeepAliveId(clock)] IN Say("KeepAlive", ask, KeepAlive(ask))

(***************************************************************************)
(* One step down, DowngradeBody; that of a list entry is noted on the way. *)
(***************************************************************************)
Underway(way) == walk.way = way /\ walk.end = "whole" /\ ~Arrived

Stepped(b, next) ==
  walk' = [walk EXCEPT !.body = b.fields, !.end = b.end,
                       !.at = IF b.end = "whole" THEN next ELSE walk.at]

DowngradeStep ==
  /\ Underway("down")
  /\ Stepped(Downgrade(walk.packet, walk.at, walk.body, profiles), PreviousProtocolVersion[walk.at])
  /\ IF walk.packet = "PlayerInfoUpdate" /\ walk.at = V1_8 /\ ListedPlayer(walk.body).taken
       THEN LET player == ListedPlayer(walk.body).player
            IN  put(player.uuid, [username |-> player.username, properties |-> player.properties])
       ELSE UNCHANGED cache
  /\ UNCHANGED version

\* Another connection's list, at any time; only what the oldest clients are told of
\* players depends on it.
OthersListed ==
  /\ version < V1_8
  /\ Idle \/ walk.packet \in {"PlayerInfoUpdate", "PlayerInfoRemove", "AddEntity"}
  /\ \E uuid \in Uuids : put(uuid, Accounts[uuid])
  /\ UNCHANGED <<version, walk>>

(***************************************************************************)
(* What the client says: in its own layout, and up from there, UpgradeBody.*)
(***************************************************************************)
Tell(packet, meant, layout) ==
  /\ walk' = [packet |-> packet, way |-> "up", sent |-> meant,
              body |-> SentAs(version, layout, meant), at |-> version, end |-> "whole"]
  /\ UNCHANGED <<version, cache>>

Tells(packet, meant) == Tell(packet, meant, RunOf(Sends(packet), version))

TellLogin ==
  /\ Idle
  /\ \E uuid \in Uuids \cup {NoOptional} : \E key \in {NoOptional, 4} :
       /\ uuid = NoOptional => version < V1_20_2
       /\ Tells("LoginStart", [name |-> "name", profileKey |-> key, uuid |-> uuid])

TellSecret ==
  /\ Idle
  /\ LET answer == [sharedSecret |-> 1, verifyToken |-> 2, salt |-> 5, signature |-> 6]
     IN  \/ Tells("EncryptionResponse", answer @@ [signed |-> FALSE])
         \/ /\ MaySignEncryptionChallenge(version)
            /\ Tell("EncryptionResponse", answer @@ [signed |-> TRUE], SendsSigned)

\* An arm is swung, a teleport answered where it is, a command given.
TellMotion ==
  /\ Idle
  /\ \/ \E hand \in {0, 1} : Tells("Punch", [entityId |-> 2, hand |-> hand])
     \/ \E stand \in Stands :
          version >= V1_9 /\ Tells("AcceptTeleportation", stand @@ [teleportId |-> spawnTeleportId])
     \/ \E i \in DOMAIN Commands(version) :
          Tells("PlayerCommand", [entityId |-> 1, command |-> Commands(version)[i], data |-> 0])

TellKeys == Idle /\ \E keys \in KeySets : Tells("PlayerInput", [keys |-> keys])

TellMoved ==
  /\ Idle
  /\ \E stand \in Stands, onGround \in {0, 1} :
       \/ Tells("MovePlayerPosition", stand @@ [flags |-> onGround])
       \/ Tells("MovePlayerPositionRotation", stand @@ [flags |-> onGround])
       \/ Tells("MovePlayerRotation", stand @@ [flags |-> onGround])

\* The client answers a keep alive with what it read.
Answer ==
  /\ Reached({"KeepAlive"}) /\ walk.way = "down"
  /\ LET read == Of(walk.body, "id")
     IN  walk' = [walk EXCEPT !.way = "up", !.body = SentAs(version, RunOf(ReadsKeepAlive, version), [id |-> read])]
  /\ UNCHANGED <<version, cache>>

UpgradeStep ==
  /\ Underway("up")
  /\ Stepped(Upgrade(walk.packet, walk.at, walk.body), NextProtocolVersion[walk.at])
  /\ UNCHANGED <<version, cache>>

\* What has arrived is read, and what was refused not sent.
Finish ==
  /\ ~Idle
  /\ Arrived \/ walk.end # "whole"
  /\ walk' = Still
  /\ UNCHANGED <<version, cache>>

Next ==
  \/ SayGreeting \/ SayLogin \/ SayListed \/ SayUnlisted \/ SayRegistries \/ SayPosition
  \/ SayChunksNext \/ SayChunk \/ SayCenter \/ SayEntity \/ SayStance \/ SayKeepAlive
  \/ TellLogin \/ TellSecret \/ TellMotion \/ TellKeys \/ TellMoved \/ Answer
  \/ DowngradeStep \/ UpgradeStep \/ OthersListed \/ Finish

Spec == Init /\ [][Next]_vars
===============================================================================
