-------------------------------- MODULE Clients --------------------------------
(* The clients, which are not in this repository: what a client of each       *)
(* version reads and sends, field by field, as the code that speaks to them   *)
(* has it. An era is <<first version, layout>>, until the next one begins.    *)
(* The layouts are written down here once more, from what is read, and not    *)
(* put together from the steps.                                               *)
EXTENDS World, Entities

(***************************************************************************)
(* What a client reads before it is in the world.                          *)
(***************************************************************************)
ReadsEncryptionRequest ==
  << <<V1_7_2, << <<"serverId", "string">>, <<"publicKey", "short bytes">>,
                 <<"verifyToken", "short bytes">> >>>>,
     <<V1_8, As("string", <<"serverId">>) \o As("bytes", <<"publicKey", "verifyToken">>)>>,
     <<V1_20_5, As("string", <<"serverId">>) \o As("bytes", <<"publicKey", "verifyToken">>)
                  \o As("bool", <<"shouldAuthenticate">>)>> >>

Account == As("uuid", <<"uuid">>) \o As("string", <<"username">>)
Skin == As("properties", <<"properties">>)

ReadsLoginSuccess ==
  << <<V1_7_2, As("string", <<"uuid", "username">>)>>,
     <<V1_16, Account>>,
     <<V1_19, Account \o Skin>>,
     <<V1_20_5, Account \o Skin \o As("bool", <<"strictErrorHandling">>)>>,
     <<V1_21_2, Account \o Skin>>,
     <<V26_2, Account \o Skin \o As("uuid", <<"sessionId">>)>> >>

ReadsLogin ==
  LET oldest == As("int", <<"entityId">>)
                  \o As("byte", <<"gameMode", "dimension", "difficulty", "maxPlayers">>)
                  \o As("string", <<"levelType">>)
      numbered == As("int", <<"entityId">>) \o As("byte", <<"gameMode">>) \o As("int", <<"dimension">>)
      reduced == As("bool", <<"reducedDebugInfo">>)
      screens == As("bool", <<"reducedDebugInfo", "showDeathScreen">>)
      flat == As("bool", <<"isDebug", "isFlat">>)
      modes == As("byte", <<"gameMode", "previousGameMode">>)
      worlds == modes \o As("strings", <<"dimensions">>) \o As("nbt", <<"registryCodec">>)
      place == As("string", <<"dimension">>) \o As("long", <<"seed">>)
      named == As("string", <<"dimensionType">>) \o place
      spelled == As("nbt", <<"dimensionType">>) \o place
      flagged == As("int", <<"entityId">>) \o As("bool", <<"hardcore">>) \o worlds
      views == As("varint", <<"maxPlayers", "viewDistance", "simulationDistance">>)
      death == As("optional location", <<"deathLocation">>)
      portal == As("varint", <<"portalCooldown">>)
      rules == As("int", <<"entityId">>) \o As("bool", <<"hardcore">>) \o As("strings", <<"dimensions">>)
                 \o views \o As("bool", <<"reducedDebugInfo", "showDeathScreen", "doLimitedCrafting">>)
      typed == rules \o As("varint", <<"dimensionType">>) \o place
      sea == As("varint", <<"seaLevel">>)
      secure == As("bool", <<"enforcesSecureChat">>)
  IN  << <<V1_7_2, oldest>>,
         <<V1_8, oldest \o reduced>>,
         <<V1_9_1, numbered \o As("byte", <<"difficulty", "maxPlayers">>)
                     \o As("string", <<"levelType">>) \o reduced>>,
         <<V1_14, numbered \o As("byte", <<"maxPlayers">>) \o As("string", <<"levelType">>)
                    \o As("varint", <<"viewDistance">>) \o reduced>>,
         <<V1_15, numbered \o As("long", <<"seed">>) \o As("byte", <<"maxPlayers">>)
                    \o As("string", <<"levelType">>) \o As("varint", <<"viewDistance">>) \o screens>>,
         <<V1_16, As("int", <<"entityId">>) \o worlds \o named \o As("byte", <<"maxPlayers">>)
                    \o As("varint", <<"viewDistance">>) \o screens \o flat>>,
         <<V1_16_2, flagged \o spelled \o As("varint", <<"maxPlayers", "viewDistance">>) \o screens \o flat>>,
         <<V1_18, flagged \o spelled \o views \o screens \o flat>>,
         <<V1_19, flagged \o named \o views \o screens \o flat \o death>>,
         <<V1_20, flagged \o named \o views \o screens \o flat \o death \o portal>>,
         <<V1_20_2, rules \o named \o modes \o flat \o death \o portal>>,
         <<V1_20_5, typed \o modes \o flat \o death \o portal \o secure>>,
         <<V1_21_2, typed \o modes \o flat \o death \o portal \o sea \o secure>>,
         <<V26_2, typed \o modes \o flat \o death \o portal \o sea \o As("bool", <<"onlineMode">>) \o secure>>,
         <<V26_3, typed \o As("varint", <<"gameMode", "previousGameMode">>) \o flat \o death
                    \o portal \o sea \o As("bool", <<"onlineMode">>) \o secure>> >>

(***************************************************************************)
(* The players.                                                            *)
(***************************************************************************)
ReadsAddEntity ==
  LET who == As("varint", <<"entityId">>) \o As("uuid", <<"uuid">>)
      at == As("double", <<"x", "y", "z">>)
      stands(kind) == As(kind, <<"x", "y", "z">>) \o As("angle", <<"yaw", "pitch">>)
      holds == As("short", <<"heldItem">>) \o As("metadata 1.8", <<"metadata">>)
      turned == As("angle", <<"pitch", "yaw", "headYaw">>) \o As("varint", <<"data">>)
  IN  << <<V1_7_2, As("varint", <<"entityId">>) \o As("string", <<"uuid", "username">>)
                     \o stands("fixed") \o holds>>,
         <<V1_7_6, As("varint", <<"entityId">>) \o As("string", <<"uuid", "username">>)
                     \o As("three strings", <<"properties">>) \o stands("fixed") \o holds>>,
         <<V1_8, who \o stands("fixed") \o holds>>,
         <<V1_9, who \o stands("double") \o As("metadata", <<"metadata">>)>>,
         <<V1_15, who \o stands("double")>>,
         <<V1_20_2, who \o As("varint", <<"type">>) \o at \o turned
                      \o As("short", <<"velocityX", "velocityY", "velocityZ">>)>>,
         <<V1_21_9, who \o As("varint", <<"type">>) \o at \o As("byte", <<"velocity">>) \o turned>> >>

ReadsEntityPositionSync ==
  LET id == As("varint", <<"entityId">>)
      ground == As("bool", <<"onGround">>)
      stands(kind) == As(kind, <<"x", "y", "z">>)
      turns(kind) == As(kind, <<"yaw", "pitch">>)
  IN  << <<V1_7_2, As("int", <<"entityId">>) \o stands("fixed") \o turns("angle")>>,
         <<V1_8, id \o stands("fixed") \o turns("angle") \o ground>>,
         <<V1_9, id \o stands("double") \o turns("angle") \o ground>>,
         <<V1_21_2, id \o stands("double") \o As("double", <<"deltaX", "deltaY", "deltaZ">>)
                      \o turns("float") \o ground>>,
         <<V26_3, id \o As("varint", <<"path">>) \o stands("double") \o turns("float") \o ground>> >>

ReadsSwingAnimation ==
  << <<V1_7_2, << <<"entityId", "varint">>, <<"animation", "byte">> >>>>,
     <<V26_3, As("varint", <<"entityId", "hand", "animation", "duration">>)>> >>

ReadsSetEntityData ==
  << <<V1_7_2, << <<"entityId", "int">>, <<"metadata", "metadata 1.8">> >>>>,
     <<V1_8, << <<"entityId", "varint">>, <<"metadata", "metadata 1.8">> >>>>,
     <<V1_9, << <<"entityId", "varint">>, <<"metadata", "metadata">> >>>> >>

ReadsRotateHead ==
  << <<V1_7_2, << <<"entityId", "int">>, <<"headYaw", "angle">> >>>>,
     <<V1_8, << <<"entityId", "varint">>, <<"headYaw", "angle">> >>>> >>

ReadsRemoveEntities ==
  LET several == << <<"count", "varint">>, <<"entityIds", "varints">> >>
  IN  << <<V1_7_2, << <<"count", "byte">>, <<"entityIds", "ints">> >>>>,
         <<V1_8, several>>, <<V1_17, As("varint", <<"entityId">>)>>, <<V1_17_1, several>> >>

OneListed == << <<"username", "string">>, <<"online", "bool">>, <<"ping", "short">> >>
ReadsPlayerInfoUpdate ==
  << <<V1_7_2, OneListed>>,
     <<V1_8, << <<"action", "varint">>, <<"entries", "entries">> >>>>,
     <<V1_19_3, << <<"actions", "actions">>, <<"entries", "entries">> >>>> >>

ReadsPlayerInfoRemove ==
  << <<V1_7_2, OneListed>>,
     <<V1_8, << <<"action", "varint">>, <<"uuids", "uuids">> >>>>,
     <<V1_19_3, As("uuids", <<"uuids">>)>> >>

(* What it reads of one player in the list: by the action, 0 to add one, or   *)
(* by the set of actions, in the order the version lists them.                *)
KnownActions(version) ==
  <<"add_player", "initialize_chat", "update_game_mode", "update_listed", "update_latency",
    "update_display_name">>
    \o (IF version >= V1_21_2 THEN <<"update_list_order">> ELSE <<>>)
    \o (IF version >= V1_21_4 THEN <<"update_hat">> ELSE <<>>)

Sets1(action) ==
  CASE action = "add_player" -> << <<"username", "string">>, <<"properties", "properties">> >>
    [] action = "initialize_chat" -> As("bool", <<"chatSession">>)
    [] action = "update_game_mode" -> As("varint", <<"gameMode">>)
    [] action = "update_listed" -> As("bool", <<"listed">>)
    [] action = "update_latency" -> As("varint", <<"latency">>)
    [] action = "update_display_name" -> As("bool", <<"displayName">>)
    [] action = "update_list_order" -> As("varint", <<"listOrder">>)
    [] action = "update_hat" -> As("bool", <<"showHat">>)

ReadsListEntry(version, fields) ==
  IF version >= V1_19_3
    THEN LET actions == SelectSeq(KnownActions(version), LAMBDA a : a \in Of(fields, "actions"))
         IN  As("uuid", <<"uuid">>) \o FlattenSeq([i \in DOMAIN actions |-> Sets1(actions[i])])
  ELSE CASE Of(fields, "action") = 0 ->
              Account \o Skin \o As("varint", <<"gameMode", "latency">>)
                \o As("bool", IF version >= V1_19 THEN <<"displayName", "profileKey">>
                              ELSE <<"displayName">>)
         [] Of(fields, "action") = 1 -> As("uuid", <<"uuid">>) \o As("varint", <<"gameMode">>)
         [] Of(fields, "action") = 2 -> As("uuid", <<"uuid">>) \o As("varint", <<"latency">>)
         [] Of(fields, "action") = 3 -> As("uuid", <<"uuid">>) \o As("bool", <<"displayName">>)

(***************************************************************************)
(* Where it stands, and whether it is there.                               *)
(***************************************************************************)
ReadsPlayerPosition ==
  LET stands == As("double", <<"x", "y", "z">>)
      turned == As("float", <<"yaw", "pitch">>)
      flags == As("byte", <<"relatives">>)
      id == As("varint", <<"teleportId">>)
  IN  << <<V1_7_2, stands \o turned \o As("bool", <<"onGround">>)>>,
         <<V1_8, stands \o turned \o flags>>,
         <<V1_9, stands \o turned \o flags \o id>>,
         <<V1_17, stands \o turned \o flags \o id \o As("bool", <<"dismountVehicle">>)>>,
         <<V1_19_4, stands \o turned \o flags \o id>>,
         <<V1_21_2, id \o stands \o As("double", <<"deltaX", "deltaY", "deltaZ">>) \o turned
                      \o As("int", <<"relatives">>)>> >>

ReadsGameEvent ==
  << <<V1_7_2, As("three ints", <<"spawn">>)>>,
     <<V1_8, As("x y z", <<"spawn">>)>>,
     <<V1_14, As("x z y", <<"spawn">>)>>,
     <<V1_17, As("x z y", <<"spawn">>) \o As("float", <<"angle">>)>>,
     <<V1_20_3, << <<"event", "byte">>, <<"value", "float">> >>>> >>

\* The registries and the tags, by the form they are in, and the centre of the chunks.
ReadsRegistryData ==
  << <<V1_20_2, << <<"gameData", "combined">> >>>>, <<V1_20_5, << <<"gameData", "one registry">> >>>> >>
ReadsUpdateTags ==
  << <<V1_13, << <<"gameData", "three kinds">> >>>>, <<V1_14, << <<"gameData", "four kinds">> >>>>,
     <<V1_17, << <<"gameData", "named">> >>>> >>
ReadsSetChunkCacheCenter == << <<V1_14, As("varint", <<"x", "z">>)>> >>

\* The answer is laid out as the question.
ReadsKeepAlive ==
  << <<V1_7_2, As("int", <<"id">>)>>, <<V1_8, As("varint", <<"id">>)>>,
     <<V1_12_2, As("long", <<"id">>)>> >>

(***************************************************************************)
(* The chunks.                                                             *)
(***************************************************************************)
FourMasks(kind) == As(kind, <<"skyMask", "blockMask", "emptySkyMask", "emptyBlockMask">>)
TwoArrays(kind) == As(kind, <<"skyLight", "blockLight">>)

ReadsLevelChunkWithLight ==
  LET at == As("int", <<"x", "z">>)
      blocks == << <<"sections", "sections">>, <<"blockEntities", "varint">> >>
      heights(kind) == As(kind, <<"heightmaps">>)
      light == FourMasks("bit set") \o TwoArrays("counted arrays")
      biomes(kind) == As(kind, <<"biomes">>)
      older == at \o As("bool", <<"whole">>) \o As("varint", <<"mask">>) \o heights("named compound")
  IN  << <<V1_14, older \o blocks>>,
         <<V1_15, older \o biomes("ints") \o blocks>>,
         <<V1_16, at \o As("bool", <<"whole", "forget">>) \o As("varint", <<"mask">>)
                    \o heights("named compound") \o biomes("ints") \o blocks>>,
         <<V1_16_2, older \o biomes("varints") \o blocks>>,
         <<V1_17, at \o As("bit set", <<"mask">>) \o heights("named compound") \o biomes("varints")
                    \o blocks>>,
         <<V1_18, at \o heights("named compound") \o blocks \o As("bool", <<"trustEdges">>) \o light>>,
         <<V1_20, at \o heights("named compound") \o blocks \o light>>,
         <<V1_20_2, at \o heights("compound") \o blocks \o light>>,
         <<V1_21_5, at \o heights("heightmap list") \o blocks \o light>>,
         <<V26_3, at \o heights("heightmap list") \o blocks \o FourMasks("bit set bytes")
                    \o TwoArrays("counted arrays")>> >>

ReadsLightUpdate ==
  << <<V1_14, As("varint", <<"x", "z">>) \o FourMasks("varint") \o TwoArrays("arrays")>>,
     <<V1_16, As("varint", <<"x", "z">>) \o As("bool", <<"trustEdges">>) \o FourMasks("varint")
                \o TwoArrays("arrays")>>,
     <<V1_17, As("varint", <<"x", "z">>) \o As("bool", <<"trustEdges">>) \o FourMasks("bit set")
                \o TwoArrays("counted arrays")>> >>

ReadsLevelChunkWithSectionLight ==
  LET front == As("int", <<"x", "z">>) \o As("bool", <<"whole">>) \o As("varint", <<"mask">>)
                 \o As("sections", <<"sections">>)
      whole == << <<"blocks", "shorts">>, <<"blockLight", "light arrays">>,
                  <<"skyLight", "light arrays">>, <<"biomes", "bytes">> >>
  IN  << <<V1_7_2, << <<"count", "short">>, <<"length", "int">>, <<"skyLightSent", "bool">>,
                     <<"chunk", "deflated">>, <<"x", "int">>, <<"z", "int">>, <<"mask", "short">>,
                     <<"addMask", "short">> >>>>,
         <<V1_8, << <<"skyLightSent", "bool">>, <<"count", "varint">>, <<"x", "int">>,
                   <<"z", "int">>, <<"mask", "short">> >> \o whole>>,
         <<V1_9, front>>,
         <<V1_9_3, front \o As("varint", <<"blockEntities">>)>> >>

Deflated == << <<"numbers", "bytes">>, <<"variants", "nibbles">>, <<"blockLight", "light arrays">>,
               <<"skyLight", "light arrays">>, <<"biomes", "bytes">> >>

\* The body of a section, by the bits of its entries, and of the biomes behind them.
ReadsSection(version, bits) ==
  LET array(name) == IF version < V1_21_5 THEN <<name, "counted longs">> ELSE <<name, "longs">>
      counts == (IF version >= V1_14 THEN As("short", <<"blockCount">>) ELSE <<>>)
                  \o (IF version >= V26_1 THEN As("short", <<"fluidCount">>) ELSE <<>>)
      palette == CASE bits = 0 /\ version >= V1_18 -> As("varint", <<"value">>)
                   [] bits \in 1 .. 3 \/ (bits > 3 /\ version < V1_13) -> As("varints", <<"palette">>)
                   [] OTHER -> <<>>
      biomes == << <<"biomeBits", "byte">>, <<"biome", "varint">>, array("biomeLongs")>>
  IN  counts \o As("byte", <<"bits">>) \o palette \o <<array("longs")>>
        \o (IF version >= V1_18 THEN biomes ELSE <<>>)
        \o (IF version < V1_14 THEN As("light", <<"blockLight", "skyLight">>) ELSE <<>>)

ReadsBiomes(version) ==
  CASE version < V1_13 -> As("bytes", <<"biomes">>)
    [] OTHER -> As("ints", <<"biomes">>)

ReadsSections(version, fields) ==
  LET sections == Of(fields, "sections")
      named == IF version >= V1_18 THEN sectionCount ELSE Cardinality(Of(fields, "mask"))
      behind == IF version < V1_15 THEN <<ReadsBiomes(version)>> ELSE <<>>
  IN  /\ Len(sections) = named + Len(behind)
      /\ \A i \in 1 .. named :
           /\ Has(sections[i], "bits")
           /\ Layout(sections[i]) = ReadsSection(version, Of(sections[i], "bits"))
      /\ \A i \in DOMAIN behind : Layout(sections[named + i]) = behind[i]

(***************************************************************************)
(* A packet of that layout, all the way down.                              *)
(***************************************************************************)
Reads(packet) ==
  CASE packet = "EncryptionRequest" -> ReadsEncryptionRequest
    [] packet = "LoginSuccess" -> ReadsLoginSuccess
    [] packet = "Login" -> ReadsLogin
    [] packet = "AddEntity" -> ReadsAddEntity
    [] packet = "EntityPositionSync" -> ReadsEntityPositionSync
    [] packet = "SwingAnimation" -> ReadsSwingAnimation
    [] packet = "SetEntityData" -> ReadsSetEntityData
    [] packet = "RotateHead" -> ReadsRotateHead
    [] packet = "RemoveEntities" -> ReadsRemoveEntities
    [] packet = "PlayerInfoUpdate" -> ReadsPlayerInfoUpdate
    [] packet = "PlayerInfoRemove" -> ReadsPlayerInfoRemove
    [] packet = "PlayerPosition" -> ReadsPlayerPosition
    [] packet = "GameEvent" -> ReadsGameEvent
    [] packet = "KeepAlive" -> ReadsKeepAlive
    [] packet = "RegistryData" -> ReadsRegistryData
    [] packet = "UpdateTags" -> ReadsUpdateTags
    [] packet = "SetChunkCacheCenter" -> ReadsSetChunkCacheCenter
    [] packet = "LevelChunkWithLight" -> ReadsLevelChunkWithLight
    [] packet = "LightUpdate" -> ReadsLightUpdate
    [] packet = "LevelChunkWithSectionLight" -> ReadsLevelChunkWithSectionLight

ClientReads(version, packet, fields) ==
  /\ Layout(fields) = RunOf(Reads(packet), version)
  /\ Has(fields, "entries") =>
       \A i \in DOMAIN Of(fields, "entries") :
         Layout(Of(fields, "entries")[i]) = ReadsListEntry(version, fields)
  /\ Has(fields, "sections") => ReadsSections(version, fields)
  /\ Has(fields, "chunk") => Layout(Of(fields, "chunk")) = Deflated

(***************************************************************************)
(* What a client sends.                                                    *)
(***************************************************************************)
Sends(packet) ==
  LET command == As("varint", <<"entityId", "action", "data">>)
      steers == As("float", <<"sideways", "forward">>)
      keyed == As("string", <<"name">>) \o As("optional key", <<"profileKey">>)
      turns == As("float", <<"yaw", "pitch">>)
      flags == As("byte", <<"flags">>)
      eyes == As("double", <<"x", "y", "stance", "z">>)
      feet == As("double", <<"x", "y", "z">>)
  IN  CASE packet = "LoginStart" ->
             << <<V1_7_2, As("string", <<"name">>)>>,
                <<V1_19, keyed>>,
                <<V1_19_1, keyed \o As("optional uuid", <<"uuid">>)>>,
                <<V1_19_3, As("string", <<"name">>) \o As("optional uuid", <<"uuid">>)>>,
                <<V1_20_2, As("string", <<"name">>) \o As("uuid", <<"uuid">>)>> >>
        [] packet = "EncryptionResponse" ->
             << <<V1_7_2, As("short bytes", <<"sharedSecret", "verifyToken">>)>>,
                <<V1_8, As("bytes", <<"sharedSecret", "verifyToken">>)>>,
                <<V1_19, << <<"sharedSecret", "bytes">>, <<"encrypted", "bool">>,
                           <<"verifyToken", "bytes">> >>>>,
                <<V1_19_3, As("bytes", <<"sharedSecret", "verifyToken">>)>> >>
        [] packet = "Punch" ->
             << <<V1_7_2, << <<"entityId", "int">>, <<"animation", "byte">> >>>>,
                <<V1_8, <<>>>>, <<V1_9, As("varint", <<"hand">>)>>, <<V26_3, <<>>>> >>
        [] packet = "AcceptTeleportation" ->
             << <<V1_9, As("varint", <<"teleportId">>)>>,
                <<V26_3, As("varint", <<"teleportId">>) \o feet \o turns>> >>
        [] packet = "PlayerCommand" ->
             << <<V1_7_2, << <<"entityId", "int">>, <<"action", "byte">>, <<"data", "int">> >>>>,
                <<V1_8, command>> >>
        [] packet = "PlayerInput" ->
             << <<V1_7_2, steers \o As("bool", <<"jump", "unmount">>)>>,
                <<V1_8, steers \o flags>>,
                <<V1_21_2, As("byte", <<"keys">>)>> >>
        [] packet = "KeepAlive" -> ReadsKeepAlive
        [] packet = "MovePlayerPosition" -> << <<V1_7_2, eyes \o flags>>, <<V1_8, feet \o flags>> >>
        [] packet = "MovePlayerPositionRotation" ->
             << <<V1_7_2, eyes \o turns \o flags>>, <<V1_8, feet \o turns \o flags>> >>
        [] packet = "MovePlayerRotation" -> << <<V1_7_2, turns \o flags>> >>

\* One that the client signs the challenge with instead, in 1.19 and 1.19.1.
SendsSigned == << <<"sharedSecret", "bytes">>, <<"encrypted", "bool">>, <<"salt", "long">>,
                  <<"signature", "bytes">> >>

(* The commands by the number a client sends; those a version has no number   *)
(* for it does not send.                                                      *)
Commands(version) ==
  LET shift == <<"press shift", "release shift">>
      start == <<"leave bed", "start sprinting", "stop sprinting">>
      rest == <<"start riding jump", "stop riding jump", "open inventory", "start gliding">>
  IN  IF version < V1_9 THEN shift \o start \o <<"riding jump", "open inventory">>
      ELSE IF version < V1_21_6 THEN shift \o start \o rest
      ELSE start \o rest

CommandNumber(version, command) ==
  LET i == CHOOSE j \in DOMAIN Commands(version) : Commands(version)[j] = command
  IN  IF version < V1_8 THEN i ELSE i - 1

(* What it sends for what it means: a command by its number, the keys by two  *)
(* axes and some flags before 1.21.2, and the rest as it is.                  *)
Axis(keys, ahead, behind) ==
  (IF ahead \in keys THEN 1 ELSE 0) - (IF behind \in keys THEN 1 ELSE 0)

SentAs(version, layout, m) ==
  Written(layout, LAMBDA name :
    CASE name = "action" -> CommandNumber(version, m.command)
      [] name = "sideways" -> Axis(m.keys, "left", "right")
      [] name = "forward" -> Axis(m.keys, "forward", "backward")
      [] name = "flags" /\ "keys" \in DOMAIN m -> m.keys \cap {"jump", "sneak"}
      [] name = "jump" -> "jump" \in m.keys
      [] name = "unmount" -> "sneak" \in m.keys
      [] name = "animation" -> 1
      [] name = "stance" -> m.y + 104
      [] name = "encrypted" -> ~m.signed
      [] OTHER -> m[name])

\* The number the client's registry has for a player.
PlayerType(version) ==
  RunOf(<< <<V1_20_2, 122>>, <<V1_20_3, 124>>, <<V1_20_5, 128>>, <<V1_21_2, 148>>,
           <<V1_21_4, 147>>, <<V1_21_5, 148>>, <<V1_21_6, 149>>, <<V1_21_9, 151>>,
           <<V1_21_11, 155>>, <<V26_2, 156>>, <<V26_3, 159>> >>, version)

\* The number of the serializer of a pose, which no client before 1.14 has.
PoseSerializer(version) ==
  RunOf(<< <<V1_14, 18>>, <<V1_19_3, 19>>, <<V1_19_4, 20>>, <<V1_20_5, 21>>, <<V1_21_9, 20>> >>,
        version)
===============================================================================
