------------------------------- MODULE Entities -------------------------------
(* The packets that show players to each other and place the client, and the  *)
(* keep alives, and the steps that carry them along the versions.             *)
(* Coordinates are whole 64ths of a block, rotations whole degrees.           *)
EXTENDS Logins

CONSTANT IntMax   \* the largest coordinate a fixed-point int holds, in 32nds

ASSUME IntMaxAssumption == IntMax \in Nat

(* Angle: degrees as one of 256 steps around the circle, cut off towards zero *)
(* and to a byte.                                                             *)
Angle(degrees) ==
  LET steps == IF degrees >= 0 THEN (degrees * 256) \div 360
               ELSE -((-degrees * 256) \div 360)
  IN  Byte(steps)

Position == As("double", <<"x", "y", "z">>)
Delta == As("double", <<"deltaX", "deltaY", "deltaZ">>)
NoDelta == [deltaX |-> 0, deltaY |-> 0, deltaZ |-> 0]
EntityId == As("varint", <<"entityId">>)

(***************************************************************************)
(* The spawning of a player.                                               *)
(***************************************************************************)
PlayerEntityTypeId == 159
SpawnHead == EntityId \o As("uuid", <<"uuid">>)
SpawnAngles == As("angle", <<"pitch", "yaw", "headYaw">>)
Velocity == As("short", <<"velocityX", "velocityY", "velocityZ">>)

AddEntity(p) ==
  Written(SpawnHead \o As("varint", <<"type">>) \o Position \o As("byte", <<"velocity">>)
            \o SpawnAngles \o As("varint", <<"data">>),
          LAMBDA name : IF name \in {"pitch", "yaw", "headYaw"} THEN Angle(p[name]) ELSE p[name])

downgradeAddEntityType(b, from, to) ==
  LET layout == SpawnHead \o As("varint", <<"type">>)
      r == Read(b, layout)
  IN  Where(r, r.v.type = from, WriteThen(r, layout, [type |-> to]))

DowngradeAddEntityTo26_2(b) == downgradeAddEntityType(b, 159, 156)
DowngradeAddEntityTo26_1(b) == downgradeAddEntityType(b, 156, 155)
DowngradeAddEntityTo1_21_9(b) == downgradeAddEntityType(b, 155, 151)
DowngradeAddEntityTo1_21_5(b) == downgradeAddEntityType(b, 149, 148)
DowngradeAddEntityTo1_21_4(b) == downgradeAddEntityType(b, 148, 147)
DowngradeAddEntityTo1_21_2(b) == downgradeAddEntityType(b, 147, 148)
DowngradeAddEntityTo1_21(b) == downgradeAddEntityType(b, 148, 128)
DowngradeAddEntityTo1_20_3(b) == downgradeAddEntityType(b, 128, 124)
DowngradeAddEntityTo1_20_2(b) == downgradeAddEntityType(b, 124, 122)

(* The velocity, in the middle as a byte and at the end as three shorts.      *)
DowngradeAddEntityTo1_21_7(b) ==
  LET front == SpawnHead \o As("varint", <<"type">>) \o Position
      back == SpawnAngles \o As("varint", <<"data">>)
      r == Read(b, front \o As("byte", <<"velocity">>) \o back)
  IN  Where(r, r.v.type = 151 /\ r.v.velocity = 0,
            WriteOnly(r, front \o back \o Velocity,
                      [type |-> 149, velocityX |-> 0, velocityY |-> 0, velocityZ |-> 0]))

(* Down to the packet that spawns players alone, which turns the two angles   *)
(* around and holds no more.                                                  *)
DowngradeAddEntityTo1_20(b) ==
  LET r == Read(b, SpawnHead \o As("varint", <<"type">>) \o Position \o SpawnAngles
                     \o As("varint", <<"data">>) \o Velocity)
  IN  Where(r, r.v.type = 122 /\ r.v.velocityX = 0 /\ r.v.velocityY = 0 /\ r.v.velocityZ = 0,
            WriteOnly(r, SpawnHead \o Position \o As("angle", <<"yaw", "pitch">>), None))

\* A player's metadata: entries of an index, a serializer and a value.
Entry(index, serializer, v) == [index |-> index, serializer |-> serializer, v |-> v]

DowngradeAddPlayerTo1_14_4(b) ==
  WriteBehind(b, As("metadata", <<"metadata">>), [metadata |-> <<>>])

(* positionTo1_8: fixed point, 32nds of a block, rounded down.                *)
FixedPoint == As("fixed", <<"x", "y", "z">>)
Fixed(coordinate) == coordinate \div 2
FitsInt(r) == \A axis \in {"x", "y", "z"} : Fixed(r.v[axis]) \in -IntMax - 1 .. IntMax
positionTo1_8(r) == [axis \in {"x", "y", "z"} |-> Fixed(r.v[axis])]

(* entityDataTo1_8: nothing but the flags, index and kind in a byte.          *)
OnlyFlags(metadata) ==
  \A i \in DOMAIN metadata : metadata[i].index = 0 /\ metadata[i].serializer = 0

DowngradeAddEntityTo1_8(b) ==
  LET r == Read(b, SpawnHead \o Position \o As("angle", <<"yaw", "pitch">>)
                     \o As("metadata", <<"metadata">>))
  IN  Where(r, FitsInt(r) /\ OnlyFlags(r.v.metadata),
            WriteAll(r, SpawnHead \o FixedPoint \o As("angle", <<"yaw", "pitch">>)
                          \o As("short", <<"heldItem">>) \o As("metadata 1.8", <<"metadata">>),
                     [heldItem |-> 0] @@ positionTo1_8(r)))

(* 1.7.6 reads the name and the skin here, which profile has, and cannot read *)
(* metadata with nothing in it.                                               *)
SpawnTail == FixedPoint \o As("angle", <<"yaw", "pitch">>) \o As("short", <<"heldItem">>)
Noted == As("string", <<"uuid", "username">>) \o As("three strings", <<"properties">>)

DowngradeAddEntityTo1_7_6(b, profiles) ==
  LET r == Read(b, SpawnHead \o SpawnTail \o As("metadata 1.8", <<"metadata">>))
  IN  Where(r, r.v.uuid \in DOMAIN profiles,
            WriteThen(r, EntityId \o Noted \o SpawnTail \o As("metadata 1.8", <<"metadata">>),
                      [username |-> profiles[r.v.uuid].username,
                       properties |-> profiles[r.v.uuid].properties,
                       metadata |-> IF r.v.metadata = <<>> THEN <<Entry(0, 0, 0)>>
                                    ELSE r.v.metadata]))

DowngradeAddEntityTo1_7_2(b) ==
  WriteThen(Read(b, EntityId \o Noted), EntityId \o As("string", <<"uuid", "username">>), None)

(***************************************************************************)
(* What moves a player.                                                    *)
(***************************************************************************)
Turn(kind) == As(kind, <<"yaw", "pitch">>)
OnGround == As("bool", <<"onGround">>)

EntityPositionSync(p) ==
  Written(EntityId \o As("varint", <<"path">>) \o Position \o Turn("float") \o OnGround,
          LAMBDA name : p[name])

DowngradeEntityPositionSyncTo26_2(b) ==
  LET r == Read(b, EntityId \o As("varint", <<"path">>) \o Position)
  IN  Where(r, r.v.path = 0, WriteThen(r, EntityId \o Position \o Delta, NoDelta))

DowngradeEntityPositionSyncTo1_21(b) ==
  LET r == Read(b, EntityId \o Position \o Delta \o Turn("float"))
  IN  Where(r, r.v.deltaX = 0 /\ r.v.deltaY = 0 /\ r.v.deltaZ = 0,
            WriteThen(r, EntityId \o Position \o Turn("angle"),
                      [yaw |-> Angle(r.v.yaw), pitch |-> Angle(r.v.pitch)]))

DowngradeEntityPositionSyncTo1_8(b) ==
  LET r == Read(b, EntityId \o Position \o Turn("angle") \o OnGround)
  IN  Where(r, FitsInt(r), WriteAll(r, EntityId \o FixedPoint \o Turn("angle") \o OnGround,
                                    positionTo1_8(r)))

DowngradeEntityPositionSyncTo1_7_6(b) ==
  LET back == FixedPoint \o Turn("angle")
  IN  WriteAll(Read(b, EntityId \o back \o OnGround), As("int", <<"entityId">>) \o back, None)

RotateHead(p) == Written(EntityId \o As("angle", <<"headYaw">>),
                         LAMBDA name : IF name = "headYaw" THEN Angle(p[name]) ELSE p[name])

DowngradeRotateHeadTo1_7_6(b) ==
  WriteAll(Read(b, EntityId \o As("angle", <<"headYaw">>)),
           As("int", <<"entityId">>) \o As("angle", <<"headYaw">>), None)

(* The swing: the hand is 0 or 1, and before 26.3 an animation among others.  *)
SwingAnimation(p) == Written(EntityId \o As("varint", <<"hand", "animation", "duration">>),
                             LAMBDA name : p[name])

DowngradeSwingAnimationTo26_2(b) ==
  LET r == Read(b, EntityId \o As("varint", <<"hand", "animation", "duration">>))
  IN  WriteOnly(r, EntityId \o As("byte", <<"animation">>),
                [animation |-> IF r.v.hand = 1 THEN 3 ELSE 0])

(* The stance: the flags and the pose, whose serializer moved about.          *)
SetEntityData(p) ==
  Written(EntityId \o As("metadata", <<"metadata">>), LAMBDA name :
    IF name = "entityId" THEN p.entityId
    ELSE <<Entry(0, 0, (IF p.sneaking THEN 2 ELSE 0) + (IF p.sprinting THEN 8 ELSE 0)),
           Entry(6, 20, IF p.sneaking THEN 5 ELSE 0)>>)

Metadata == EntityId \o As("metadata", <<"metadata">>)

renamePoseSerializer(b, from, to) ==
  LET r == Read(b, Metadata)
      renamed == [i \in DOMAIN r.v.metadata |->
                    IF r.v.metadata[i].serializer = from
                      THEN [r.v.metadata[i] EXCEPT !.serializer = to]
                      ELSE r.v.metadata[i]]
  IN  Where(r, \A i \in DOMAIN r.v.metadata : r.v.metadata[i].serializer \in {0, from},
            WriteOnly(r, Metadata, [metadata |-> renamed]))

DowngradeSetEntityDataTo1_21_7(b) == renamePoseSerializer(b, 20, 21)
DowngradeSetEntityDataTo1_20_3(b) == renamePoseSerializer(b, 21, 20)
DowngradeSetEntityDataTo1_19_3(b) == renamePoseSerializer(b, 20, 19)
DowngradeSetEntityDataTo1_19_1(b) == renamePoseSerializer(b, 19, 18)

\* Mutant: the pose goes on to versions that have none.
PoseKept(b) == Body(b)

DowngradeSetEntityDataTo1_13_2(b) ==
  LET r == Read(b, Metadata)
  IN  Where(r, \A i \in DOMAIN r.v.metadata : r.v.metadata[i].serializer \in {0, 18},
            WriteOnly(r, Metadata,
                      [metadata |-> SelectSeq(r.v.metadata, LAMBDA e : e.serializer = 0)]))

DowngradeSetEntityDataTo1_8(b) ==
  LET r == Read(b, Metadata)
  IN  Where(r, OnlyFlags(r.v.metadata),
            WriteAll(r, EntityId \o As("metadata 1.8", <<"metadata">>), None))

DowngradeSetEntityDataTo1_7_6(b) == WriteThen(Read(b, EntityId), As("int", <<"entityId">>), None)

(* The removal, of as many as there are but for 1.17.                         *)
RemoveEntities(p) ==
  Written(As("varint", <<"count">>) \o As("varints", <<"entityIds">>), LAMBDA name :
    IF name = "count" THEN Len(p.entityIds) ELSE p.entityIds)

DowngradeRemoveEntitiesTo1_17(b) ==
  LET r == Read(b, As("varint", <<"count">>) \o As("varints", <<"entityIds">>))
  IN  Where(r, r.v.count = 1,
            WriteOnly(r, EntityId, [entityId |-> r.v.entityIds[1]]))

DowngradeRemoveEntitiesTo1_16_4(b) ==
  LET r == Read(b, EntityId)
  IN  WriteOnly(r, As("varint", <<"count">>) \o As("varints", <<"entityIds">>),
                [count |-> 1, entityIds |-> <<r.v.entityId>>])

DowngradeRemoveEntitiesTo1_7_6(b) ==
  LET r == Read(b, As("varint", <<"count">>) \o As("varints", <<"entityIds">>))
  IN  Where(r, r.v.count \in 0 .. 127,
            WriteAll(r, As("byte", <<"count">>) \o As("ints", <<"entityIds">>), None))
===============================================================================
