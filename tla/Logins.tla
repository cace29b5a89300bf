-------------------------------- MODULE Logins --------------------------------
(* What the packets of the login phase and the play phase's login packet hold *)
(* and the steps that carry them along the versions. Layouts are named for    *)
(* the version, newest, that lays the fields out so.                          *)
EXTENDS Bodies, GameData

(***************************************************************************)
(* The login phase.                                                        *)
(***************************************************************************)
EncryptionRequest(p) ==
  Written(As("string", <<"serverId">>) \o As("bytes", <<"publicKey", "verifyToken">>)
            \o As("bool", <<"shouldAuthenticate">>), LAMBDA name : p[name])

(* The flag is 1.20.5's; an older client always authenticates.                *)
DowngradeEncryptionRequestTo1_20_3(b) ==
  LET layout == As("string", <<"serverId">>) \o As("bytes", <<"publicKey", "verifyToken">>)
      r == Read(b, layout \o As("bool", <<"shouldAuthenticate">>))
  IN  Where(r, r.v.shouldAuthenticate, WriteOnly(r, layout, None))

(* 1.7.6 counts the bytes of an array with a short.                           *)
DowngradeEncryptionRequestTo1_7_6(b) ==
  WriteAll(Read(b, As("string", <<"serverId">>) \o As("bytes", <<"publicKey", "verifyToken">>)),
           As("string", <<"serverId">>) \o As("short bytes", <<"publicKey", "verifyToken">>), None)

Profile == As("uuid", <<"uuid">>) \o As("string", <<"username">>) \o As("properties", <<"properties">>)

LoginSuccess(p) ==
  Written(Profile \o As("uuid", <<"sessionId">>), LAMBDA name : p[name])

DowngradeLoginSuccessTo26_1(b) ==
  WriteOnly(Read(b, Profile \o As("uuid", <<"sessionId">>)), Profile, None)

(* 1.21 to 1.20.5 are told what to do about a packet they cannot handle.      *)
strictErrorHandling == TRUE
DowngradeLoginSuccessTo1_21(b) ==
  WriteOnly(Read(b, Profile), Profile \o As("bool", <<"strictErrorHandling">>),
            [strictErrorHandling |-> strictErrorHandling])

DowngradeLoginSuccessTo1_20_3(b) ==
  WriteOnly(Read(b, Profile \o As("bool", <<"strictErrorHandling">>)), Profile, None)

DowngradeLoginSuccessTo1_18_2(b) ==
  WriteOnly(Read(b, Profile), As("uuid", <<"uuid">>) \o As("string", <<"username">>), None)

DowngradeLoginSuccessTo1_15_2(b) ==
  WriteThen(Read(b, As("uuid", <<"uuid">>)), As("string", <<"uuid">>), None)

(* The hello on the way up: the key of 1.19 and 1.19.1, which is dropped, and *)
(* the uuid, which was none, then optional, then always there. An optional    *)
(* that is absent is NoOptional; zeros for a uuid are 0.                      *)
NoOptional == -1

UpgradeLoginStartFrom1_18_2(b) ==
  WriteBehind(b, As("optional key", <<"profileKey">>), [profileKey |-> NoOptional])

UpgradeLoginStartFrom1_19(b) ==
  WriteBehind(b, As("optional uuid", <<"uuid">>), [uuid |-> NoOptional])

UpgradeLoginStartFrom1_19_1(b) ==
  WriteThen(Read(b, As("string", <<"name">>) \o As("optional key", <<"profileKey">>)),
            As("string", <<"name">>), None)

UpgradeLoginStartFrom1_20(b) ==
  LET r == Read(b, As("string", <<"name">>) \o As("optional uuid", <<"uuid">>))
  IN  WriteOnly(r, As("string", <<"name">>) \o As("uuid", <<"uuid">>),
                [uuid |-> IF r.v.uuid = NoOptional THEN 0 ELSE r.v.uuid])

DecodeLoginStart == As("string", <<"name">>) \o As("uuid", <<"uuid">>)

DecodeEncryptionResponse == As("bytes", <<"sharedSecret", "verifyToken">>)

(* The answer to the challenge on the way up. From 1.19 to 1.19.1 it is one   *)
(* of two things, an encrypted token or a salt and a signature: the second is *)
(* handed on as a token of no bytes, which is 0.                              *)
UpgradeEncryptionResponseFrom1_7_6(b) ==
  WriteAll(Read(b, As("short bytes", <<"sharedSecret", "verifyToken">>)),
           As("bytes", <<"sharedSecret", "verifyToken">>), None)

UpgradeEncryptionResponseFrom1_18_2(b) ==
  WriteOnly(Read(b, As("bytes", <<"sharedSecret", "verifyToken">>)),
            As("bytes", <<"sharedSecret">>) \o As("bool", <<"encrypted">>)
              \o As("bytes", <<"verifyToken">>),
            [encrypted |-> TRUE])

UpgradeEncryptionResponseFrom1_19_1(b) ==
  LET head == As("bytes", <<"sharedSecret">>) \o As("bool", <<"encrypted">>)
      r == Read(b, head)
      answer == IF r.v.encrypted THEN Read(b, head \o As("bytes", <<"verifyToken">>))
                ELSE Read(b, head \o As("long", <<"salt">>) \o As("bytes", <<"signature">>))
  IN  IF ~r.fits THEN Misread
      ELSE WriteOnly(answer, DecodeEncryptionResponse,
                     IF r.v.encrypted THEN None ELSE [verifyToken |-> 0])

(***************************************************************************)
(* The play login. Its layouts overlap: a step names the part it reads.    *)
(***************************************************************************)
LoginHead ==
  As("int", <<"entityId">>) \o As("bool", <<"hardcore">>) \o As("strings", <<"dimensions">>)
    \o As("varint", <<"maxPlayers", "viewDistance", "simulationDistance">>)
    \o As("bool", <<"reducedDebugInfo", "showDeathScreen", "doLimitedCrafting">>)

GameModes(kind) == As(kind, <<"gameMode", "previousGameMode">>)
World == As("string", <<"dimension">>) \o As("long", <<"seed">>)
WorldFlags == As("bool", <<"isDebug", "isFlat">>)
DeathAndPortal == As("optional location", <<"deathLocation">>) \o As("varint", <<"portalCooldown">>)

(* LoginClientboundPacket.Encode. The previous mode is an optional: 0 for     *)
(* none, -1, and one more than the mode.                                      *)
PlayLogin(p) ==
  Written(LoginHead \o As("varint", <<"dimensionType">>) \o World \o GameModes("varint")
            \o WorldFlags \o DeathAndPortal \o As("varint", <<"seaLevel">>)
            \o As("bool", <<"onlineMode", "enforcesSecureChat">>),
          LAMBDA name : IF name = "previousGameMode" THEN p[name] + 1 ELSE p[name])

(* A byte: what is -1 to a client that reads it signed is 255.                *)
Byte(value) == value % 256

DowngradePlayLoginTo26_2(b) ==
  LET front == LoginHead \o As("varint", <<"dimensionType">>) \o World
      r == Read(b, front \o GameModes("varint"))
  IN  WriteThen(r, front \o GameModes("byte"),
                [gameMode |-> Byte(r.v.gameMode),
                 previousGameMode |-> Byte(r.v.previousGameMode - 1)])

copySpawnInfoAfterDimensionType == World \o GameModes("byte") \o WorldFlags \o DeathAndPortal
copySpawnInfo == As("varint", <<"dimensionType">>) \o copySpawnInfoAfterDimensionType

DowngradePlayLoginTo26_1(b) ==
  LET front == LoginHead \o copySpawnInfo \o As("varint", <<"seaLevel">>)
  IN  WriteThen(Read(b, front \o As("bool", <<"onlineMode">>)), front, None)

DowngradePlayLoginTo1_21(b) ==
  LET front == LoginHead \o copySpawnInfo
  IN  WriteThen(Read(b, front \o As("varint", <<"seaLevel">>)), front, None)

(* The one dimension type, by its index and by its name.                      *)
overworldDimensionTypeId == 0
overworldDimensionType == "minecraft:overworld"

DowngradePlayLoginTo1_20_3(b) ==
  LET r == Read(b, LoginHead \o As("varint", <<"dimensionType">>)
                     \o copySpawnInfoAfterDimensionType \o As("bool", <<"enforcesSecureChat">>))
  IN  Where(r, r.v.dimensionType = overworldDimensionTypeId,
            WriteOnly(r, LoginHead \o As("string", <<"dimensionType">>)
                           \o copySpawnInfoAfterDimensionType,
                      [dimensionType |-> overworldDimensionType]))

(* Before 1.20.2 the registries are in the middle of the login.               *)
LoginFront == As("int", <<"entityId">>) \o As("bool", <<"hardcore">>) \o GameModes("byte")
                \o As("strings", <<"dimensions">>)
LoginCounts == As("varint", <<"maxPlayers", "viewDistance", "simulationDistance">>)

DowngradePlayLoginTo1_20(b) ==
  LET r == Read(b, LoginHead \o As("string", <<"dimensionType">>) \o World \o GameModes("byte"))
  IN  IF RegistryCodecFor(V1_20) = NoData THEN Refused
      ELSE WriteThen(r, LoginFront \o As("nbt", <<"registryCodec">>)
                          \o As("string", <<"dimensionType">>) \o World \o LoginCounts
                          \o As("bool", <<"reducedDebugInfo", "showDeathScreen">>),
                     [registryCodec |-> RegistryCodecFor(V1_20)])

DowngradePlayLoginTo1_19_4(b) ==
  LET front == LoginFront \o As("nbt", <<"registryCodec">>)
                 \o As("string", <<"dimensionType">>) \o World \o LoginCounts
                 \o As("bool", <<"reducedDebugInfo", "showDeathScreen">>) \o WorldFlags
                 \o As("optional location", <<"deathLocation">>)
      r == Read(b, front \o As("varint", <<"portalCooldown">>))
  IN  IF RegistryCodecFor(V1_19_4) = NoData THEN Refused
      ELSE WriteOnly(r, front, [registryCodec |-> RegistryCodecFor(V1_19_4)])

swapPlayLoginRegistries(b, codec) ==
  LET layout == LoginFront \o As("nbt", <<"registryCodec">>)
  IN  IF codec = NoData THEN Refused
      ELSE WriteThen(Read(b, layout), layout, [registryCodec |-> codec])

DowngradePlayLoginTo1_19_3(b) == swapPlayLoginRegistries(b, RegistryCodecFor(V1_19_3))
DowngradePlayLoginTo1_19_1(b) == swapPlayLoginRegistries(b, RegistryCodecFor(V1_19_1))
DowngradePlayLoginTo1_19(b) == swapPlayLoginRegistries(b, RegistryCodecFor(V1_19))

(* Before 1.19 the dimension type is spelled out, and nobody has died.        *)
DowngradePlayLoginTo1_18_2(b) ==
  LET behind == World \o LoginCounts
                  \o As("bool", <<"reducedDebugInfo", "showDeathScreen">>) \o WorldFlags
      front == LoginFront \o As("nbt", <<"registryCodec">>)
      r == Read(b, front \o As("string", <<"dimensionType">>) \o behind
                     \o As("optional location", <<"deathLocation">>))
  IN  IF NoData \in {RegistryCodecFor(V1_18_2), DimensionTypeFor(V1_18_2)} THEN Refused
      ELSE Where(r, r.v.dimensionType = overworldDimensionType,
                 WriteOnly(r, front \o As("nbt", <<"dimensionType">>) \o behind,
                           [registryCodec |-> RegistryCodecFor(V1_18_2),
                            dimensionType |-> DimensionTypeFor(V1_18_2)]))

\* The registries and the dimension type behind them, of a version; the steps
\* to 1.18, 1.17.1 and 1.16.4 put them in.
LoginRegistries == LoginFront \o As("nbt", <<"registryCodec", "dimensionType">>)
RegistriesOf(version) ==
  [registryCodec |-> RegistryCodecFor(version), dimensionType |-> DimensionTypeFor(version)]
HasRegistries(version) == NoData \notin {RegistryCodecFor(version), DimensionTypeFor(version)}

DowngradePlayLoginTo1_18(b) ==
  IF HasRegistries(V1_18)
    THEN WriteThen(Read(b, LoginRegistries), LoginRegistries, RegistriesOf(V1_18))
    ELSE Refused

DowngradePlayLoginTo1_17_1(b) ==
  LET front == LoginRegistries \o World \o As("varint", <<"maxPlayers", "viewDistance">>)
  IN  IF HasRegistries(V1_17_1)
        THEN WriteThen(Read(b, front \o As("varint", <<"simulationDistance">>)), front,
                       RegistriesOf(V1_17_1))
        ELSE Refused

DowngradePlayLoginTo1_16_4(b) ==
  IF HasRegistries(V1_16_4)
    THEN WriteThen(Read(b, LoginRegistries), LoginRegistries, RegistriesOf(V1_16_4))
    ELSE Refused

(* The flag becomes a bit of the game mode, and the players fit a byte.       *)
hardcoreBit == 8
DowngradePlayLoginTo1_16_1(b) ==
  LET older == GameModes("byte") \o As("strings", <<"dimensions">>)
                 \o As("nbt", <<"registryCodec">>)
      r == Read(b, LoginRegistries \o World \o As("varint", <<"maxPlayers">>))
  IN  IF ~HasRegistries(V1_16_1) THEN Refused
      ELSE Where(r, r.v.gameMode < hardcoreBit,
                 WriteThen(r, As("int", <<"entityId">>) \o older
                                \o As("string", <<"dimensionType">>) \o World
                                \o As("byte", <<"maxPlayers">>),
                           [gameMode |-> r.v.gameMode + (IF r.v.hardcore THEN hardcoreBit ELSE 0),
                            maxPlayers |-> Min({Max({r.v.maxPlayers, 0}), 255})]
                           @@ RegistriesOf(V1_16_1)))

(* Before 1.16 the world is a number, and flat a kind of level.               *)
dimensions1_15_2 ==
  ("minecraft:the_nether" :> -1) @@ ("minecraft:overworld" :> 0) @@ ("minecraft:the_end" :> 1)

DowngradePlayLoginTo1_15_2(b) ==
  LET r == Read(b, As("int", <<"entityId">>) \o GameModes("byte")
                     \o As("strings", <<"dimensions">>) \o As("nbt", <<"registryCodec">>)
                     \o As("string", <<"dimensionType">>) \o World
                     \o As("byte", <<"maxPlayers">>) \o As("varint", <<"viewDistance">>)
                     \o As("bool", <<"reducedDebugInfo", "showDeathScreen">>) \o WorldFlags)
  IN  Where(r, r.v.dimension \in DOMAIN dimensions1_15_2,
            WriteOnly(r, As("int", <<"entityId">>) \o As("byte", <<"gameMode">>)
                           \o As("int", <<"dimension">>) \o As("long", <<"seed">>)
                           \o As("byte", <<"maxPlayers">>) \o As("string", <<"levelType">>)
                           \o As("varint", <<"viewDistance">>)
                           \o As("bool", <<"reducedDebugInfo", "showDeathScreen">>),
                      [dimension |-> dimensions1_15_2[r.v.dimension],
                       levelType |-> IF r.v.isFlat THEN "flat" ELSE "default"]))

OldLoginFront == As("int", <<"entityId">>) \o As("byte", <<"gameMode">>) \o As("int", <<"dimension">>)
LevelType == As("byte", <<"maxPlayers">>) \o As("string", <<"levelType">>)

DowngradePlayLoginTo1_14_4(b) ==
  LET behind == LevelType \o As("varint", <<"viewDistance">>) \o As("bool", <<"reducedDebugInfo">>)
  IN  WriteOnly(Read(b, OldLoginFront \o As("long", <<"seed">>) \o behind
                          \o As("bool", <<"showDeathScreen">>)),
                OldLoginFront \o behind, None)

(* The difficulty, which became a packet of its own.                          *)
peaceful == 0
DowngradePlayLoginTo1_13_2(b) ==
  WriteOnly(Read(b, OldLoginFront \o LevelType \o As("varint", <<"viewDistance">>)
                      \o As("bool", <<"reducedDebugInfo">>)),
            OldLoginFront \o As("byte", <<"difficulty">>) \o LevelType
              \o As("bool", <<"reducedDebugInfo">>),
            [difficulty |-> peaceful])

DowngradePlayLoginTo1_9(b) ==
  LET behind == As("byte", <<"difficulty">>) \o LevelType \o As("bool", <<"reducedDebugInfo">>)
      r == Read(b, OldLoginFront \o behind)
  IN  Where(r, r.v.dimension \in -128 .. 127,
            WriteOnly(r, As("int", <<"entityId">>) \o As("byte", <<"gameMode", "dimension">>)
                           \o behind,
                      [dimension |-> Byte(r.v.dimension)]))

DowngradePlayLoginTo1_7_6(b) ==
  LET layout == As("int", <<"entityId">>) \o As("byte", <<"gameMode", "dimension", "difficulty">>)
                  \o LevelType
  IN  WriteAll(Read(b, layout \o As("bool", <<"reducedDebugInfo">>)), layout, None)
===============================================================================
