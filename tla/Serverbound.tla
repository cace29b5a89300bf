------------------------------ MODULE Serverbound ------------------------------
(* What a joined client sends and the steps that carry it up the versions to  *)
(* the newest, which is the one the decoders read.                            *)
EXTENDS Bodies

(***************************************************************************)
(* The swing of an arm, which names a hand to 26.2, nothing to 1.8 and, to *)
(* 1.7.6, an entity and an animation.                                      *)
(***************************************************************************)
DecodePunch == <<>>
mainHand1_9 == 0
swingArm1_7_6 == 1

UpgradePunchFrom26_2(b) == WriteOnly(Read(b, As("varint", <<"hand">>)), DecodePunch, None)

UpgradePunchFrom1_8(b) ==
  WriteAll(Read(b, <<>>), As("varint", <<"hand">>), [hand |-> mainHand1_9])

UpgradePunchFrom1_7_6(b) ==
  LET r == Read(b, As("int", <<"entityId">>) \o As("byte", <<"animation">>))
  IN  Where(r, r.v.animation = swingArm1_7_6, WriteAll(r, <<>>, None))

(***************************************************************************)
(* The answer to being put somewhere: where, from 26.3 on.                 *)
(***************************************************************************)
DecodeAcceptTeleportation ==
  As("varint", <<"teleportId">>) \o As("double", <<"x", "y", "z">>) \o As("float", <<"yaw", "pitch">>)

UpgradeAcceptTeleportationFrom26_2(b) ==
  WriteOnly(Read(b, As("varint", <<"teleportId">>)), DecodeAcceptTeleportation,
            [x |-> 0, y |-> 0, z |-> 0, yaw |-> 0, pitch |-> 0])

(***************************************************************************)
(* What a player started or stopped doing. 26.3 counts from stopping to    *)
(* sleep; the shift key came before that until 1.21.6 took it off the      *)
(* list, 1.9 put stopping a riding jump in front of the inventory, and     *)
(* 1.7.6 counts from one.                                                  *)
(***************************************************************************)
DecodePlayerCommand == As("varint", <<"entityId", "action", "data">>)

PlayerCommandStartSprinting == 1
PlayerCommandStopSprinting == 2
PlayerCommandPressShiftKey == 7
PlayerCommandReleaseShiftKey == 8

\* Mutant: only the shift key moves, and what came behind it is not counted anew.
CommandNotCountedAnew(b) ==
  LET r == Read(b, DecodePlayerCommand)
  IN  WriteOnly(r, DecodePlayerCommand,
                [action |-> CASE r.v.action = 0 -> PlayerCommandPressShiftKey
                              [] r.v.action = 1 -> PlayerCommandReleaseShiftKey
                              [] OTHER -> r.v.action])

UpgradePlayerCommandFrom1_21_5(b) ==
  LET r == Read(b, DecodePlayerCommand)
  IN  WriteOnly(r, DecodePlayerCommand,
                [action |-> CASE r.v.action = 0 -> PlayerCommandPressShiftKey
                              [] r.v.action = 1 -> PlayerCommandReleaseShiftKey
                              [] OTHER -> r.v.action - 2])

playerCommandOpenInventory1_8 == 6
UpgradePlayerCommandFrom1_8(b) ==
  LET r == Read(b, DecodePlayerCommand)
      action == r.v.action
  IN  Where(r, action \in 0 .. playerCommandOpenInventory1_8,
            WriteAll(r, DecodePlayerCommand,
                     [action |-> IF action = playerCommandOpenInventory1_8 THEN 7 ELSE action]))

playerCommandFirst1_7_6 == 1
playerCommandLast1_7_6 == 7
UpgradePlayerCommandFrom1_7_6(b) ==
  LET r == Read(b, As("int", <<"entityId">>) \o As("byte", <<"action">>) \o As("int", <<"data">>))
  IN  Where(r, r.v.action \in playerCommandFirst1_7_6 .. playerCommandLast1_7_6,
            WriteAll(r, DecodePlayerCommand, [action |-> r.v.action - playerCommandFirst1_7_6]))

\* What HandlePlayerCommandServerboundPacket makes of it.
HandlePlayerCommand(action) ==
  CASE action = PlayerCommandStartSprinting -> "sprint"
    [] action = PlayerCommandStopSprinting -> "walk"
    [] action = PlayerCommandPressShiftKey -> "sneak"
    [] action = PlayerCommandReleaseShiftKey -> "stand"
    [] OTHER -> "nothing"

(***************************************************************************)
(* The keys, which are flags from 1.21.2, two axes and two flags before,   *)
(* and two axes and two booleans to 1.7.6. A set of keys is their byte.    *)
(***************************************************************************)
DecodePlayerInput == As("byte", <<"keys">>)
Steering == As("float", <<"sideways", "forward">>)

UpgradePlayerInputFrom1_21(b) ==
  LET r == Read(b, Steering \o As("byte", <<"flags">>))
      axis(amount, ahead, behind) ==
        IF amount > 0 THEN {ahead} ELSE IF amount < 0 THEN {behind} ELSE {}
  IN  WriteOnly(r, DecodePlayerInput,
                [keys |-> axis(r.v.forward, "forward", "backward")
                            \cup axis(r.v.sideways, "left", "right")
                            \cup (IF "jump" \in r.v.flags THEN {"jump"} ELSE {})
                            \cup (IF "sneak" \in r.v.flags THEN {"sneak"} ELSE {})])

UpgradePlayerInputFrom1_7_6(b) ==
  LET r == Read(b, Steering \o As("bool", <<"jump", "unmount">>))
  IN  WriteAll(r, Steering \o As("byte", <<"flags">>),
               [flags |-> (IF r.v.jump THEN {"jump"} ELSE {})
                            \cup (IF r.v.unmount THEN {"sneak"} ELSE {})])

(***************************************************************************)
(* The moves. 1.7.6 sends the height of the eyes behind that of the feet.  *)
(***************************************************************************)
Feet == As("double", <<"x", "y">>)
Stance == As("double", <<"stance">>)
BehindStance == As("double", <<"z">>)
Flags == As("byte", <<"flags">>)

DecodeMovePlayerPosition == Feet \o BehindStance \o Flags
DecodeMovePlayerPositionRotation == Feet \o BehindStance \o As("float", <<"yaw", "pitch">>) \o Flags

UpgradeMovePlayerPositionFrom1_7_6(b) ==
  WriteAll(Read(b, Feet \o Stance \o BehindStance \o Flags), DecodeMovePlayerPosition, None)

UpgradeMovePlayerPositionRotationFrom1_7_6(b) ==
  WriteAll(Read(b, Feet \o Stance \o BehindStance \o As("float", <<"yaw", "pitch">>) \o Flags),
           DecodeMovePlayerPositionRotation, None)

DecodeMovePlayerRotation == As("float", <<"yaw", "pitch">>) \o Flags
===============================================================================
