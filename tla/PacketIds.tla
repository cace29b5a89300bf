------------------------------ MODULE PacketIds ------------------------------
(* The numbers packets go by, the tables of src/protocol/packets.go. A table  *)
(* of the code names every version; here a packet's ids are runs, <<the first *)
(* version of a run, the id>>, with -1 where the packet has none. Before the  *)
(* handshake a connection is on version Zero, which is below every other.     *)
EXTENDS Versions, TLC

At(phase, packet, runs) == <<phase, packet>> :> runs

ServerboundLoginRuns ==
  At("handshake", "Handshake",
     <<<<Zero, 0>>>>) @@
  At("status", "StatusRequest",
     <<<<Zero, 0>>, <<V1_7_2, 0>>>>) @@
  At("status", "PingRequest",
     <<<<Zero, 1>>, <<V1_7_2, 1>>>>) @@
  At("login", "LoginStart",
     <<<<V1_7_2, 0>>>>) @@
  At("login", "EncryptionResponse",
     <<<<V1_7_2, 1>>>>) @@
  At("login", "LoginPluginResponse",
     <<<<V1_13, 2>>>>) @@
  At("login", "LoginAcknowledged",
     <<<<V1_20_2, 3>>>>) @@
  At("configuration", "AcknowledgeFinishConfiguration",
     <<<<V1_20_2, 2>>, <<V1_20_5, 3>>>>) @@
  At("configuration", "KeepAlive",
     <<<<V1_20_2, 3>>, <<V1_20_5, 4>>>>)

ServerboundPlayRuns ==
  At("play", "KeepAlive",
     <<<<V1_7_2, 0>>, <<V1_9, 11>>, <<V1_12, 12>>, <<V1_12_1, 11>>,
       <<V1_13, 14>>, <<V1_14, 15>>, <<V1_16, 16>>, <<V1_17, 15>>,
       <<V1_19, 17>>, <<V1_19_1, 18>>, <<V1_19_3, 17>>, <<V1_19_4, 18>>,
       <<V1_20_2, 20>>, <<V1_20_3, 21>>, <<V1_20_5, 24>>, <<V1_21_2, 26>>,
       <<V1_21_6, 27>>, <<V26_1, 28>>>>) @@
  At("play", "AcceptTeleportation",
     <<<<V1_9, 0>>>>) @@
  At("play", "ClientTickEnd",
     <<<<V1_21_2, 11>>, <<V1_21_6, 12>>, <<V26_1, 13>>>>) @@
  At("play", "MovePlayerPosition",
     <<<<V1_7_2, 4>>, <<V1_9, 12>>, <<V1_12, 14>>, <<V1_12_1, 13>>,
       <<V1_13, 16>>, <<V1_14, 17>>, <<V1_16, 18>>, <<V1_17, 17>>,
       <<V1_19, 19>>, <<V1_19_1, 20>>, <<V1_19_3, 19>>, <<V1_19_4, 20>>,
       <<V1_20_2, 22>>, <<V1_20_3, 23>>, <<V1_20_5, 26>>, <<V1_21_2, 28>>,
       <<V1_21_6, 29>>, <<V26_1, 30>>>>) @@
  At("play", "MovePlayerPositionRotation",
     <<<<V1_7_2, 6>>, <<V1_9, 13>>, <<V1_12, 15>>, <<V1_12_1, 14>>,
       <<V1_13, 17>>, <<V1_14, 18>>, <<V1_16, 19>>, <<V1_17, 18>>,
       <<V1_19, 20>>, <<V1_19_1, 21>>, <<V1_19_3, 20>>, <<V1_19_4, 21>>,
       <<V1_20_2, 23>>, <<V1_20_3, 24>>, <<V1_20_5, 27>>, <<V1_21_2, 29>>,
       <<V1_21_6, 30>>, <<V26_1, 31>>>>) @@
  At("play", "MovePlayerRotation",
     <<<<V1_7_2, 5>>, <<V1_9, 14>>, <<V1_12, 16>>, <<V1_12_1, 15>>,
       <<V1_13, 18>>, <<V1_14, 19>>, <<V1_16, 20>>, <<V1_17, 19>>,
       <<V1_19, 21>>, <<V1_19_1, 22>>, <<V1_19_3, 21>>, <<V1_19_4, 22>>,
       <<V1_20_2, 24>>, <<V1_20_3, 25>>, <<V1_20_5, 28>>, <<V1_21_2, 30>>,
       <<V1_21_6, 31>>, <<V26_1, 32>>>>) @@
  At("play", "MovePlayerStatus",
     <<<<V1_7_2, 3>>, <<V1_9, 15>>, <<V1_12, 13>>, <<V1_12_1, 12>>,
       <<V1_13, 15>>, <<V1_14, 20>>, <<V1_16, 21>>, <<V1_17, 20>>,
       <<V1_19, 22>>, <<V1_19_1, 23>>, <<V1_19_3, 22>>, <<V1_19_4, 23>>,
       <<V1_20_2, 25>>, <<V1_20_3, 26>>, <<V1_20_5, 29>>, <<V1_21_2, 31>>,
       <<V1_21_6, 32>>, <<V26_1, 33>>>>) @@
  At("play", "PlayerCommand",
     <<<<V1_7_2, 11>>, <<V1_9, 20>>, <<V1_12, 21>>, <<V1_13, 25>>,
       <<V1_14, 27>>, <<V1_16, 28>>, <<V1_17, 27>>, <<V1_19, 29>>,
       <<V1_19_1, 30>>, <<V1_19_3, 29>>, <<V1_19_4, 30>>, <<V1_20_2, 33>>,
       <<V1_20_3, 34>>, <<V1_20_5, 37>>, <<V1_21_2, 39>>, <<V1_21_4, 40>>,
       <<V1_21_6, 41>>, <<V26_1, 42>>>>) @@
  At("play", "PlayerInput",
     <<<<V1_7_2, 12>>, <<V1_9, 21>>, <<V1_12, 22>>, <<V1_13, 26>>,
       <<V1_14, 28>>, <<V1_16, 29>>, <<V1_17, 28>>, <<V1_19, 30>>,
       <<V1_19_1, 31>>, <<V1_19_3, 30>>, <<V1_19_4, 31>>, <<V1_20_2, 34>>,
       <<V1_20_3, 35>>, <<V1_20_5, 38>>, <<V1_21_2, 40>>, <<V1_21_4, 41>>,
       <<V1_21_6, 42>>, <<V26_1, 43>>>>) @@
  At("play", "Punch",
     <<<<V1_7_2, 10>>, <<V1_9, 26>>, <<V1_12, 29>>, <<V1_13, 39>>,
       <<V1_14, 42>>, <<V1_16, 43>>, <<V1_16_2, 44>>, <<V1_19, 46>>,
       <<V1_19_1, 47>>, <<V1_20_2, 50>>, <<V1_20_3, 51>>, <<V1_20_5, 54>>,
       <<V1_21_2, 56>>, <<V1_21_4, 58>>, <<V1_21_5, 59>>, <<V1_21_6, 60>>,
       <<V26_1, 63>>, <<V26_3, 46>>>>) @@
  At("play", "PlayerLoaded",
     <<<<V1_21_4, 42>>, <<V1_21_6, 43>>, <<V26_1, 44>>>>)

ClientboundLoginRuns ==
  At("status", "StatusResponse",
     <<<<Zero, 0>>, <<V1_7_2, 0>>>>) @@
  At("status", "PongResponse",
     <<<<Zero, 1>>, <<V1_7_2, 1>>>>) @@
  At("login", "Disconnect",
     <<<<V1_7_2, 0>>>>) @@
  At("login", "EncryptionRequest",
     <<<<V1_7_2, 1>>>>) @@
  At("login", "LoginSuccess",
     <<<<V1_7_2, 2>>>>) @@
  At("login", "SetCompression",
     <<<<V1_8, 3>>>>) @@
  At("login", "LoginPluginRequest",
     <<<<V1_13, 4>>>>) @@
  At("configuration", "FinishConfiguration",
     <<<<V1_20_2, 2>>, <<V1_20_5, 3>>>>) @@
  At("configuration", "KeepAlive",
     <<<<V1_20_2, 3>>, <<V1_20_5, 4>>>>) @@
  At("configuration", "RegistryData",
     <<<<V1_20_2, 5>>, <<V1_20_5, 7>>>>)

ClientboundWorldRuns ==
  At("play", "UpdateTags",
     <<<<V1_13, 85>>, <<V1_14, 91>>, <<V1_15, 92>>, <<V1_16, 91>>,
       <<V1_17, 102>>, <<V1_18, 103>>, <<V1_19, 104>>, <<V1_19_1, 107>>,
       <<V1_19_3, 106>>, <<V1_19_4, 110>>, <<V1_20_2, -1>>>>) @@
  At("configuration", "UpdateTags",
     <<<<V1_20_2, 8>>, <<V1_20_3, 9>>, <<V1_20_5, 13>>, <<V26_3, 14>>>>) @@
  At("play", "AddEntity",
     <<<<V1_7_2, 12>>, <<V1_9, 5>>, <<V1_16, 4>>, <<V1_19, 2>>,
       <<V1_19_4, 3>>, <<V1_20_2, 1>>>>) @@
  At("play", "SwingAnimation",
     <<<<V1_7_2, 11>>, <<V1_9, 6>>, <<V1_16, 5>>, <<V1_17, 6>>, <<V1_19, 3>>,
       <<V1_19_4, 4>>, <<V1_20_2, 3>>, <<V1_21_5, 2>>, <<V26_3, 123>>>>) @@
  At("play", "EntityPositionSync",
     <<<<V1_7_2, 24>>, <<V1_9, 74>>, <<V1_9_3, 73>>, <<V1_12, 75>>,
       <<V1_12_1, 76>>, <<V1_13, 80>>, <<V1_14, 86>>, <<V1_15, 87>>,
       <<V1_16, 86>>, <<V1_17, 97>>, <<V1_18, 98>>, <<V1_19, 99>>,
       <<V1_19_1, 102>>, <<V1_19_3, 100>>, <<V1_19_4, 104>>, <<V1_20_2, 107>>,
       <<V1_20_3, 109>>, <<V1_20_5, 112>>, <<V1_21_2, 32>>, <<V1_21_5, 31>>,
       <<V1_21_9, 35>>>>) @@
  At("play", "GameEvent",
     <<<<V1_7_2, 5>>, <<V1_9, 67>>, <<V1_12, 69>>, <<V1_12_1, 70>>,
       <<V1_13, 73>>, <<V1_14, 77>>, <<V1_15, 78>>, <<V1_16, 66>>,
       <<V1_17, 75>>, <<V1_19, 74>>, <<V1_19_1, 77>>, <<V1_19_3, 76>>,
       <<V1_19_4, 80>>, <<V1_20_2, 82>>, <<V1_20_3, 32>>, <<V1_20_5, 34>>,
       <<V1_21_2, 35>>, <<V1_21_5, 34>>, <<V1_21_9, 38>>, <<V26_3, 39>>>>) @@
  At("play", "KeepAlive",
     <<<<V1_7_2, 0>>, <<V1_9, 31>>, <<V1_13, 33>>, <<V1_14, 32>>,
       <<V1_15, 33>>, <<V1_16, 32>>, <<V1_16_2, 31>>, <<V1_17, 33>>,
       <<V1_19, 30>>, <<V1_19_1, 32>>, <<V1_19_3, 31>>, <<V1_19_4, 35>>,
       <<V1_20_2, 36>>, <<V1_20_5, 38>>, <<V1_21_2, 39>>, <<V1_21_5, 38>>,
       <<V1_21_9, 43>>, <<V26_1, 44>>, <<V26_3, 45>>>>) @@
  At("play", "LevelChunkWithLight",
     <<<<V1_14, 33>>, <<V1_15, 34>>, <<V1_16, 33>>, <<V1_16_2, 32>>,
       <<V1_17, 34>>, <<V1_19, 31>>, <<V1_19_1, 33>>, <<V1_19_3, 32>>,
       <<V1_19_4, 36>>, <<V1_20_2, 37>>, <<V1_20_5, 39>>, <<V1_21_2, 40>>,
       <<V1_21_5, 39>>, <<V1_21_9, 44>>, <<V26_1, 45>>, <<V26_3, 46>>>>) @@
  At("play", "LightUpdate",
     <<<<V1_14, 36>>, <<V1_15, 37>>, <<V1_16, 36>>, <<V1_16_2, 35>>,
       <<V1_17, 37>>, <<V1_18, -1>>>>) @@
  At("play", "LevelChunkWithSectionLight",
     <<<<V1_7_2, 38>>, <<V1_9, 32>>, <<V1_13, 34>>, <<V1_14, -1>>>>)

ClientboundPlayRuns ==
  At("play", "Login",
     <<<<V1_7_2, 1>>, <<V1_9, 35>>, <<V1_13, 37>>, <<V1_15, 38>>,
       <<V1_16, 37>>, <<V1_16_2, 36>>, <<V1_17, 38>>, <<V1_19, 35>>,
       <<V1_19_1, 37>>, <<V1_19_3, 36>>, <<V1_19_4, 40>>, <<V1_20_2, 41>>,
       <<V1_20_5, 43>>, <<V1_21_2, 44>>, <<V1_21_5, 43>>, <<V1_21_9, 48>>,
       <<V26_1, 49>>, <<V26_3, 50>>>>) @@
  At("play", "PlayerInfoRemove",
     <<<<V1_7_2, 56>>, <<V1_9, 45>>, <<V1_12_1, 46>>, <<V1_13, 48>>,
       <<V1_14, 51>>, <<V1_15, 52>>, <<V1_16, 51>>, <<V1_16_2, 50>>,
       <<V1_17, 54>>, <<V1_19, 52>>, <<V1_19_1, 55>>, <<V1_19_3, 53>>,
       <<V1_19_4, 57>>, <<V1_20_2, 59>>, <<V1_20_5, 61>>, <<V1_21_2, 63>>,
       <<V1_21_5, 62>>, <<V1_21_9, 67>>, <<V26_1, 69>>, <<V26_3, 70>>>>) @@
  At("play", "PlayerInfoUpdate",
     <<<<V1_7_2, 56>>, <<V1_9, 45>>, <<V1_12_1, 46>>, <<V1_13, 48>>,
       <<V1_14, 51>>, <<V1_15, 52>>, <<V1_16, 51>>, <<V1_16_2, 50>>,
       <<V1_17, 54>>, <<V1_19, 52>>, <<V1_19_1, 55>>, <<V1_19_3, 54>>,
       <<V1_19_4, 58>>, <<V1_20_2, 60>>, <<V1_20_5, 62>>, <<V1_21_2, 64>>,
       <<V1_21_5, 63>>, <<V1_21_9, 68>>, <<V26_1, 70>>, <<V26_3, 71>>>>) @@
  At("play", "PlayerPosition",
     <<<<V1_7_2, 8>>, <<V1_9, 46>>, <<V1_12_1, 47>>, <<V1_13, 50>>,
       <<V1_14, 53>>, <<V1_15, 54>>, <<V1_16, 53>>, <<V1_16_2, 52>>,
       <<V1_17, 56>>, <<V1_19, 54>>, <<V1_19_1, 57>>, <<V1_19_3, 56>>,
       <<V1_19_4, 60>>, <<V1_20_2, 62>>, <<V1_20_5, 64>>, <<V1_21_2, 66>>,
       <<V1_21_5, 65>>, <<V1_21_9, 70>>, <<V26_1, 72>>, <<V26_3, 73>>>>) @@
  At("play", "RemoveEntities",
     <<<<V1_7_2, 19>>, <<V1_9, 48>>, <<V1_12, 49>>, <<V1_12_1, 50>>,
       <<V1_13, 53>>, <<V1_14, 55>>, <<V1_15, 56>>, <<V1_16, 55>>,
       <<V1_16_2, 54>>, <<V1_17, 58>>, <<V1_19, 56>>, <<V1_19_1, 59>>,
       <<V1_19_3, 58>>, <<V1_19_4, 62>>, <<V1_20_2, 64>>, <<V1_20_5, 66>>,
       <<V1_21_2, 71>>, <<V1_21_5, 70>>, <<V1_21_9, 75>>, <<V26_1, 77>>,
       <<V26_3, 78>>>>) @@
  At("play", "RotateHead",
     <<<<V1_7_2, 25>>, <<V1_9, 52>>, <<V1_12, 53>>, <<V1_12_1, 54>>,
       <<V1_13, 57>>, <<V1_14, 59>>, <<V1_15, 60>>, <<V1_16, 59>>,
       <<V1_16_2, 58>>, <<V1_17, 62>>, <<V1_19, 60>>, <<V1_19_1, 63>>,
       <<V1_19_3, 62>>, <<V1_19_4, 66>>, <<V1_20_2, 68>>, <<V1_20_3, 70>>,
       <<V1_20_5, 72>>, <<V1_21_2, 77>>, <<V1_21_5, 76>>, <<V1_21_9, 81>>,
       <<V26_1, 83>>, <<V26_3, 85>>>>) @@
  At("play", "SetChunkCacheCenter",
     <<<<V1_14, 64>>, <<V1_15, 65>>, <<V1_16, 64>>, <<V1_17, 73>>,
       <<V1_19, 72>>, <<V1_19_1, 75>>, <<V1_19_3, 74>>, <<V1_19_4, 78>>,
       <<V1_20_2, 80>>, <<V1_20_3, 82>>, <<V1_20_5, 84>>, <<V1_21_2, 88>>,
       <<V1_21_5, 87>>, <<V1_21_9, 92>>, <<V26_1, 94>>, <<V26_3, 96>>>>) @@
  At("play", "SetEntityData",
     <<<<V1_7_2, 28>>, <<V1_9, 57>>, <<V1_12, 59>>, <<V1_12_1, 60>>,
       <<V1_13, 63>>, <<V1_14, 67>>, <<V1_15, 68>>, <<V1_17, 77>>,
       <<V1_19_1, 80>>, <<V1_19_3, 78>>, <<V1_19_4, 82>>, <<V1_20_2, 84>>,
       <<V1_20_3, 86>>, <<V1_20_5, 88>>, <<V1_21_2, 93>>, <<V1_21_5, 92>>,
       <<V1_21_9, 97>>, <<V26_1, 99>>, <<V26_3, 101>>>>)

ServerboundRuns == ServerboundLoginRuns @@ ServerboundPlayRuns
ClientboundRuns ==
  ClientboundLoginRuns @@ ClientboundWorldRuns @@ ClientboundPlayRuns

\* A run that begins at Zero is of Zero alone, unless another begins after it.
IdIn(runs, version) ==
  LET upTo == {i \in DOMAIN runs :
                 runs[i][1] <= version /\ (runs[i][1] = Zero => version = Zero)}
  IN  IF upTo = {} THEN -1
      ELSE runs[CHOOSE i \in upTo : \A j \in upTo : j <= i][2]

(* The maps the registry is built with, registerPackets.                      *)
IdsOf(table) ==
  [key \in DOMAIN table |->
     [version \in Supported \cup {Zero} |-> IdIn(table[key], version)]]
clientboundIds == IdsOf(ClientboundRuns)
serverboundIds == IdsOf(ServerboundRuns)

(* GetClientboundId: -1 for a packet the version has no id for.               *)
GetClientboundId(phase, packet, version) ==
  IF <<phase, packet>> \in DOMAIN clientboundIds
    THEN clientboundIds[<<phase, packet>>][version] ELSE -1

\* Mutant: one table for every phase.
TypesOfAnyPhase(phase, version, id) ==
  {key[2] : key \in {k \in DOMAIN serverboundIds : serverboundIds[k][version] = id}}

(* GetServerboundType: every packet of the phase that id is given to, one at  *)
(* most where the tables are right (the code keeps the last registered).      *)
GetServerboundTypes(phase, version, id) ==
  {key[2] : key \in {k \in DOMAIN serverboundIds :
                       k[1] = phase /\ serverboundIds[k][version] = id}}
===============================================================================
