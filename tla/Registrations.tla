----------------------------- MODULE Registrations -----------------------------
(* Which step carries which packet off which version: registerTransformers of *)
(* src/protocol/packets.go, and the walk along the versions that takes the    *)
(* steps, src/protocol/registry.go. A packet that a version registers no step *)
(* for leaves it as it came.                                                  *)
EXTENDS Players, Serverbound, World, PacketIds

(***************************************************************************)
(* Down. A step is <<packet, version>>, the version it starts from.        *)
(***************************************************************************)
DowngradeFrom26(step, b) ==
  CASE step = <<"Login", V26_3>> -> DowngradePlayLoginTo26_2(b)
    [] step = <<"AddEntity", V26_3>> -> DowngradeAddEntityTo26_2(b)
    [] step = <<"EntityPositionSync", V26_3>> -> DowngradeEntityPositionSyncTo26_2(b)
    [] step = <<"SwingAnimation", V26_3>> -> DowngradeSwingAnimationTo26_2(b)
    [] step = <<"LevelChunkWithLight", V26_3>> -> DowngradeLevelChunkWithLightTo26_2(b)
    [] step = <<"LightUpdate", V26_3>> -> DowngradeLightUpdateTo26_2(b)
    [] step = <<"LoginSuccess", V26_2>> -> DowngradeLoginSuccessTo26_1(b)
    [] step = <<"Login", V26_2>> -> DowngradePlayLoginTo26_1(b)
    [] step = <<"AddEntity", V26_2>> -> DowngradeAddEntityTo26_1(b)
    [] OTHER -> Body(b)

DowngradeFrom1_21(step, b) ==
  CASE step = <<"AddEntity", V1_21_11>> -> DowngradeAddEntityTo1_21_9(b)
    [] step = <<"AddEntity", V1_21_9>> -> DowngradeAddEntityTo1_21_7(b)
    [] step = <<"SetEntityData", V1_21_9>> -> DowngradeSetEntityDataTo1_21_7(b)
    [] step = <<"AddEntity", V1_21_6>> -> DowngradeAddEntityTo1_21_5(b)
    [] step = <<"AddEntity", V1_21_5>> -> DowngradeAddEntityTo1_21_4(b)
    [] step = <<"LevelChunkWithLight", V1_21_5>> -> DowngradeLevelChunkWithLightTo1_21_4(b)
    [] step = <<"AddEntity", V1_21_4>> -> DowngradeAddEntityTo1_21_2(b)
    [] step = <<"PlayerInfoUpdate", V1_21_4>> -> DowngradePlayerInfoUpdateTo1_21_2(b)
    [] step = <<"LoginSuccess", V1_21_2>> -> DowngradeLoginSuccessTo1_21(b)
    [] step = <<"Login", V1_21_2>> -> DowngradePlayLoginTo1_21(b)
    [] step = <<"AddEntity", V1_21_2>> -> DowngradeAddEntityTo1_21(b)
    [] step = <<"PlayerInfoUpdate", V1_21_2>> -> DowngradePlayerInfoUpdateTo1_21(b)
    [] step = <<"PlayerPosition", V1_21_2>> -> DowngradePlayerPositionTo1_21(b)
    [] step = <<"EntityPositionSync", V1_21_2>> -> DowngradeEntityPositionSyncTo1_21(b)
    [] OTHER -> Body(b)

DowngradeFrom1_20(step, b) ==
  CASE step = <<"EncryptionRequest", V1_20_5>> -> DowngradeEncryptionRequestTo1_20_3(b)
    [] step = <<"LoginSuccess", V1_20_5>> -> DowngradeLoginSuccessTo1_20_3(b)
    [] step = <<"Login", V1_20_5>> -> DowngradePlayLoginTo1_20_3(b)
    [] step = <<"AddEntity", V1_20_5>> -> DowngradeAddEntityTo1_20_3(b)
    [] step = <<"SetEntityData", V1_20_5>> -> DowngradeSetEntityDataTo1_20_3(b)
    [] step = <<"AddEntity", V1_20_3>> -> DowngradeAddEntityTo1_20_2(b)
    [] step = <<"GameEvent", V1_20_3>> -> DowngradeGameEventTo1_20_2(b)
    [] step = <<"Login", V1_20_2>> -> DowngradePlayLoginTo1_20(b)
    [] step = <<"AddEntity", V1_20_2>> -> DowngradeAddEntityTo1_20(b)
    [] step = <<"LevelChunkWithLight", V1_20_2>> -> DowngradeLevelChunkWithLightTo1_20(b)
    [] step = <<"Login", V1_20>> -> DowngradePlayLoginTo1_19_4(b)
    [] step = <<"LevelChunkWithLight", V1_20>> -> DowngradeLevelChunkWithLightTo1_19_4(b)
    [] OTHER -> Body(b)

DowngradeFrom1_19(step, b) ==
  CASE step = <<"Login", V1_19_4>> -> DowngradePlayLoginTo1_19_3(b)
    [] step = <<"PlayerPosition", V1_19_4>> -> DowngradePlayerPositionTo1_19_3(b)
    [] step = <<"SetEntityData", V1_19_4>> -> DowngradeSetEntityDataTo1_19_3(b)
    [] step = <<"Login", V1_19_3>> -> DowngradePlayLoginTo1_19_1(b)
    [] step = <<"PlayerInfoUpdate", V1_19_3>> -> DowngradePlayerInfoUpdateTo1_19_1(b)
    [] step = <<"PlayerInfoRemove", V1_19_3>> -> DowngradePlayerInfoRemoveTo1_19_1(b)
    [] step = <<"SetEntityData", V1_19_3>> -> DowngradeSetEntityDataTo1_19_1(b)
    [] step = <<"Login", V1_19_1>> -> DowngradePlayLoginTo1_19(b)
    [] step = <<"Login", V1_19>> -> DowngradePlayLoginTo1_18_2(b)
    [] step = <<"PlayerInfoUpdate", V1_19>> -> DowngradePlayerInfoUpdateTo1_18_2(b)
    [] step = <<"LoginSuccess", V1_19>> -> DowngradeLoginSuccessTo1_18_2(b)
    [] OTHER -> Body(b)

DowngradeFrom1_17(step, b) ==
  CASE step = <<"Login", V1_18_2>> -> DowngradePlayLoginTo1_18(b)
    [] step = <<"Login", V1_18>> -> DowngradePlayLoginTo1_17_1(b)
    [] step = <<"LevelChunkWithLight", V1_18>> -> DowngradeLevelChunkWithLightTo1_17_1(b)
    [] step = <<"RemoveEntities", V1_17_1>> -> DowngradeRemoveEntitiesTo1_17(b)
    [] step = <<"Login", V1_17>> -> DowngradePlayLoginTo1_16_4(b)
    [] step = <<"LevelChunkWithLight", V1_17>> -> DowngradeLevelChunkTo1_16_4(b)
    [] step = <<"LightUpdate", V1_17>> -> DowngradeLightUpdateTo1_16_4(b)
    [] step = <<"PlayerPosition", V1_17>> -> DowngradePlayerPositionTo1_16_4(b)
    [] step = <<"GameEvent", V1_17>> -> DowngradeSetDefaultSpawnPositionTo1_16_4(b)
    [] step = <<"RemoveEntities", V1_17>> -> DowngradeRemoveEntitiesTo1_16_4(b)
    [] OTHER -> Body(b)

DowngradeFrom1_14(step, b) ==
  CASE step = <<"Login", V1_16_2>> -> DowngradePlayLoginTo1_16_1(b)
    [] step = <<"LevelChunkWithLight", V1_16_2>> -> DowngradeLevelChunkTo1_16_1(b)
    [] step = <<"LoginSuccess", V1_16>> -> DowngradeLoginSuccessTo1_15_2(b)
    [] step = <<"Login", V1_16>> -> DowngradePlayLoginTo1_15_2(b)
    [] step = <<"LevelChunkWithLight", V1_16>> -> DowngradeLevelChunkTo1_15_2(b)
    [] step = <<"LightUpdate", V1_16>> -> DowngradeLightUpdateTo1_15_2(b)
    [] step = <<"Login", V1_15>> -> DowngradePlayLoginTo1_14_4(b)
    [] step = <<"LevelChunkWithLight", V1_15>> -> DowngradeLevelChunkTo1_14_4(b)
    [] step = <<"AddEntity", V1_15>> -> DowngradeAddPlayerTo1_14_4(b)
    [] step = <<"Login", V1_14>> -> DowngradePlayLoginTo1_13_2(b)
    [] step = <<"GameEvent", V1_14>> -> DowngradeSetDefaultSpawnPositionTo1_13_2(b)
    [] step = <<"SetEntityData", V1_14>> -> DowngradeSetEntityDataTo1_13_2(b)
    [] OTHER -> Body(b)

DowngradeFrom1_9(step, b) ==
  CASE step = <<"Login", V1_9_1>> -> DowngradePlayLoginTo1_9(b)
    [] step = <<"KeepAlive", V1_12_2>> -> DowngradeKeepAliveTo1_12_1(b)
    [] step = <<"PlayerPosition", V1_9>> -> DowngradePlayerPositionTo1_8(b)
    [] step = <<"EntityPositionSync", V1_9>> -> DowngradeEntityPositionSyncTo1_8(b)
    [] step = <<"AddEntity", V1_9>> -> DowngradeAddEntityTo1_8(b)
    [] step = <<"SetEntityData", V1_9>> -> DowngradeSetEntityDataTo1_8(b)
    [] OTHER -> Body(b)

DowngradeFrom1_7_6(step, b, profiles) ==
  CASE step = <<"AddEntity", V1_7_6>> -> DowngradeAddEntityTo1_7_2(b)
    [] step = <<"KeepAlive", V1_8>> -> DowngradeKeepAliveTo1_7_6(b)
    [] step = <<"EncryptionRequest", V1_8>> -> DowngradeEncryptionRequestTo1_7_6(b)
    [] step = <<"Login", V1_8>> -> DowngradePlayLoginTo1_7_6(b)
    [] step = <<"GameEvent", V1_8>> -> DowngradeSetDefaultSpawnPositionTo1_7_6(b)
    [] step = <<"PlayerPosition", V1_8>> -> DowngradePlayerPositionTo1_7_6(b)
    [] step = <<"PlayerInfoUpdate", V1_8>> -> DowngradePlayerInfoUpdateTo1_7_6(b)
    [] step = <<"PlayerInfoRemove", V1_8>> -> DowngradePlayerInfoRemoveTo1_7_6(b, profiles)
    [] step = <<"AddEntity", V1_8>> -> DowngradeAddEntityTo1_7_6(b, profiles)
    [] step = <<"RemoveEntities", V1_8>> -> DowngradeRemoveEntitiesTo1_7_6(b)
    [] step = <<"EntityPositionSync", V1_8>> -> DowngradeEntityPositionSyncTo1_7_6(b)
    [] step = <<"RotateHead", V1_8>> -> DowngradeRotateHeadTo1_7_6(b)
    [] step = <<"SetEntityData", V1_8>> -> DowngradeSetEntityDataTo1_7_6(b)
    [] OTHER -> Body(b)

(* The chunk with its light takes the chunk's and the light's steps at once,  *)
(* down to 1.14, and from there has steps of its own; where neither has one,  *)
(* both are as they were.                                                     *)
DowngradeSectionLight(version, b, Carried(_, _, _)) ==
  CASE version > V1_14 ->
         Paired(LAMBDA chunk : Carried("LevelChunkWithLight", version, chunk),
                LAMBDA light : Carried("LightUpdate", version, light), b)
    [] version = V1_14 -> DowngradeLevelChunkWithSectionLightTo1_13_2(b)
    [] version = V1_13 -> DowngradeLevelChunkWithSectionLightTo1_12_2(b)
    [] version = V1_9_3 -> DowngradeLevelChunkWithSectionLightTo1_9_2(b)
    [] version = V1_9 -> DowngradeLevelChunkWithSectionLightTo1_8(b)
    [] version = V1_8 -> DowngradeLevelChunkWithSectionLightTo1_7_6(b)
    [] OTHER -> Body(b)

\* The registered step of a packet off a version.
DowngradeOne(packet, version, b, profiles) ==
  LET step == <<packet, version>>
  IN  CASE version >= V26_1 -> DowngradeFrom26(step, b)
        [] version \in V1_21 .. V1_21_11 -> DowngradeFrom1_21(step, b)
        [] version \in V1_20 .. V1_20_5 -> DowngradeFrom1_20(step, b)
        [] version \in V1_19 .. V1_19_4 -> DowngradeFrom1_19(step, b)
        [] version \in V1_17 .. V1_18_2 -> DowngradeFrom1_17(step, b)
        [] version \in V1_14 .. V1_16_4 -> DowngradeFrom1_14(step, b)
        [] version \in V1_9 .. V1_13_2 -> DowngradeFrom1_9(step, b)
        [] OTHER -> DowngradeFrom1_7_6(step, b, profiles)

Downgrade(packet, version, b, profiles) ==
  IF packet = "LevelChunkWithSectionLight"
    THEN DowngradeSectionLight(version, b, LAMBDA of, at, half : DowngradeOne(of, at, half, profiles))
    ELSE DowngradeOne(packet, version, b, profiles)

(***************************************************************************)
(* Up. A step is <<packet, version>>, the version it starts from.          *)
(***************************************************************************)
UpgradeFrom1_7_6(step, b) ==
  CASE step = <<"KeepAlive", V1_7_6>> -> UpgradeKeepAliveFrom1_7_6(b)
    [] step = <<"EncryptionResponse", V1_7_6>> -> UpgradeEncryptionResponseFrom1_7_6(b)
    [] step = <<"MovePlayerPosition", V1_7_6>> -> UpgradeMovePlayerPositionFrom1_7_6(b)
    [] step = <<"MovePlayerPositionRotation", V1_7_6>> -> UpgradeMovePlayerPositionRotationFrom1_7_6(b)
    [] step = <<"Punch", V1_7_6>> -> UpgradePunchFrom1_7_6(b)
    [] step = <<"PlayerCommand", V1_7_6>> -> UpgradePlayerCommandFrom1_7_6(b)
    [] step = <<"PlayerInput", V1_7_6>> -> UpgradePlayerInputFrom1_7_6(b)
    [] OTHER -> Body(b)

UpgradeFrom1_8(step, b) ==
  CASE step = <<"Punch", V26_2>> -> UpgradePunchFrom26_2(b)
    [] step = <<"AcceptTeleportation", V26_2>> -> UpgradeAcceptTeleportationFrom26_2(b)
    [] step = <<"PlayerInput", V1_21>> -> UpgradePlayerInputFrom1_21(b)
    [] step = <<"PlayerCommand", V1_21_5>> -> UpgradePlayerCommandFrom1_21_5(b)
    [] step = <<"LoginStart", V1_20>> -> UpgradeLoginStartFrom1_20(b)
    [] step = <<"LoginStart", V1_19_1>> -> UpgradeLoginStartFrom1_19_1(b)
    [] step = <<"EncryptionResponse", V1_19_1>> -> UpgradeEncryptionResponseFrom1_19_1(b)
    [] step = <<"LoginStart", V1_19>> -> UpgradeLoginStartFrom1_19(b)
    [] step = <<"LoginStart", V1_18_2>> -> UpgradeLoginStartFrom1_18_2(b)
    [] step = <<"EncryptionResponse", V1_18_2>> -> UpgradeEncryptionResponseFrom1_18_2(b)
    [] step = <<"KeepAlive", V1_12_1>> -> UpgradeKeepAliveFrom1_12_1(b)
    [] step = <<"Punch", V1_8>> -> UpgradePunchFrom1_8(b)
    [] step = <<"PlayerCommand", V1_8>> -> UpgradePlayerCommandFrom1_8(b)
    [] OTHER -> Body(b)

Upgrade(packet, version, b) ==
  IF version = V1_7_6 THEN UpgradeFrom1_7_6(<<packet, version>>, b)
  ELSE UpgradeFrom1_8(<<packet, version>>, b)
===============================================================================
