------------------------------ MODULE MCTranslation ------------------------------
(* A small instance of Translation for TLC: every version, two players, a     *)
(* place too far out for 1.8, clocks on both sides of the wrap of an id, and  *)
(* a world with the chunks that are hard.                                     *)
EXTENDS Delivery

Numbers == Supported \cup {2, 46, 800}

Person(name, skin) == [username |-> name, properties |-> skin]
TwoPlayers == <<Person("alex", 11), Person("steve", 12)>>
TheirAccounts == {TwoPlayers[uuid] : uuid \in Uuids}

Stand(x, y, z, yaw, pitch, onGround) ==
  [x |-> x, y |-> y, z |-> z, yaw |-> yaw, pitch |-> pitch, onGround |-> onGround]
NearAndFar == {Stand(-3, 6, 1, -45, 90, TRUE), Stand(200, 0, -7, 270, -30, FALSE)}

\* With IntMax = 3 an id has three bits: 8 and 16 have none of them set, 13 is -3.
AroundTheWrap == {3, 4, 8, 13, 16}

SomeKeys == {{}, {"forward", "jump"}, {"backward", "left", "sneak"},
             {"forward", "backward", "right", "sprint", "sneak"}}

(***************************************************************************)
(* The world. Nine states of a palette are sent by their own numbers.      *)
(***************************************************************************)
Plain(name) == State(name, <<>>)
Walls == [i \in 1 .. 6 |->
            State("wall", [east |-> <<"none", "low", "tall">>[(i % 3) + 1],
                           up |-> IF i > 3 THEN "true" ELSE "false",
                           waterlogged |-> IF i % 2 = 0 THEN "true" ELSE "false"])]
Newer == <<Plain("short_grass"), Plain("dirt_path"), Plain("water_cauldron")>>
Signs == <<Plain("oak_sign"), Plain("oak_wall_sign"), Plain("smooth_stone_slab")>>
Many == Newer \o Signs \o Walls

Blocks(palette, blocks, sky) == [palette |-> palette, blocks |-> blocks, skyLight |-> sky]
Block(state, sky, light) ==
  [palette |-> <<state>>, blocks |-> <<0, 0, 0, 0>>, skyLight |-> sky, blockLight |-> light]

Heights(surface, motion, floor) ==
  ("WORLD_SURFACE" :> surface) @@ ("MOTION_BLOCKING" :> motion) @@ ("OCEAN_FLOOR" :> floor)

\* Light alone below and above the world, deep stone under stone, grass and signs.
Hills ==
  [heights |-> Heights(<<0, 2, 4>>, <<1, 3, 3>>, <<0, 0, 0>>),
   sections |-> (-1 :> [skyLight |-> 20]) @@ (4 :> [blockLight |-> 21, skyLight |-> 22]) @@
                (0 :> Block(Plain("deepslate"), 1, 9)) @@
                (1 :> Blocks(<<Plain("stone"), Plain("air"), Plain("deepslate")>> \o Newer,
                             <<0, 3, 4, 5>>, 2)) @@
                (2 :> Blocks(<<Plain("cave_air")>> \o Signs, <<0, 1, 2, 3>>, 3))]

\* Every block by its own number, walls of each height, and a block nobody has yet.
Town ==
  [heights |-> Heights(<<3, 3, 3>>, <<2, 1, 0>>, <<0, 0, 0>>),
   sections |-> (1 :> Blocks(Many, <<6, 7, 8, 2>>, 5)) @@
                (2 :> (Blocks(Many, <<9, 10, 11, 0>>, 6) @@ [blockLight |-> 7])) @@
                (3 :> Block(Walls[3], 8, 4))]

\* One block or none to a section, and air that a block that is unknown becomes.
Hole ==
  [heights |-> ("MOTION_BLOCKING" :> <<2, 2, 2>>),
   sections |-> (0 :> Block(Plain("stone"), 1, 2)) @@
                (1 :> Block(Plain("newest_block"), 3, 4)) @@
                (2 :> Blocks(<<Walls[1], Walls[2], Plain("newest_block")>>, <<0, 1, 2, 1>>, 5)) @@
                (3 :> [skyLight |-> 6])]

\* Around the spawn, which is in the first of them; and one out of reach.
SmallWorld == (<<-1, 0>> :> Hills) @@ (<<0, 1>> :> Town) @@ (<<-2, -1>> :> Hole) @@ (<<3, 0>> :> Town)
Spawn == <<-1, 6, 0>>

(***************************************************************************)
(* How the game saves it: by the slot of a region the place in it, and at  *)
(* a place of its own what was built there, or what is not finished yet.   *)
(***************************************************************************)
SavedState(state) ==
  IF DOMAIN state.properties = {} THEN [name |-> state.name] ELSE state

SavedSection(section, i) ==
  LET light == [part \in {"skyLight", "blockLight"} \cap DOMAIN section |-> section[part]]
      states == [k \in DOMAIN section.palette |-> SavedState(section.palette[k])]
      bits == CASE Len(states) <= 4 -> 2 [] Len(states) <= 8 -> 3 [] OTHER -> 4
      data == IF Len(states) = 1 THEN <<>> ELSE [data |-> Packed(section.blocks, bits)]
  IN  [y |-> i - 1] @@ light @@
      IF "palette" \in DOMAIN section THEN [blockStates |-> [palette |-> states] @@ data] ELSE <<>>

SavedChunk(place, built, status) ==
  LET index == SetToSortSeq(DOMAIN built.sections, LAMBDA a, b : a > b)
  IN  [xPos |-> place[1], zPos |-> place[2], yPos |-> -1, status |-> status,
       heightmaps |-> [name \in DOMAIN built.heights |-> Packed(built.heights[name], heightmapBits)],
       sections |-> [k \in DOMAIN index |-> SavedSection(built.sections[index[k]], index[k])]]

Roots == [place \in DOMAIN SmallWorld |-> SavedChunk(place, SmallWorld[place], "full")] @@
         (<<-1, -1>> :> SavedChunk(<<-1, -1>>, Town, "features"))

PlaceOf(region, slot) == <<2 * region[1] + (slot % 2), 2 * region[2] + (slot \div 2)>>
Region(region) ==
  LET saved == {slot \in 0 .. 3 : PlaceOf(region, slot) \in DOMAIN Roots}
  IN  [locations |-> [slot \in 0 .. 3 |-> IF slot \in saved THEN [offset |-> 5 - slot, sectors |-> 1]
                                          ELSE [offset |-> 0, sectors |-> 0]],
       stored |-> [offset \in {5 - slot : slot \in saved} |->
                     [length |-> 4, scheme |-> 2, root |-> Roots[PlaceOf(region, 5 - offset)]]]]

SavedWorld == [level |-> [spawn |-> Spawn],
               regions |-> [region \in {<<-1, -1>>, <<-1, 0>>, <<0, 0>>, <<1, 0>>} |-> Region(region)]]

(***************************************************************************)
(* Saves with one thing wrong, none of which is taken for a world: Load is *)
(* an error for every damage but the absence of a chunk (world.go:153).    *)
(***************************************************************************)
HillsAre(stored) == [SavedWorld EXCEPT !.regions[<<-1, 0>>].stored[4] = stored]
HillsHold(root) == HillsAre([length |-> 4, scheme |-> 2, root |-> root])
HillsOf(sections) == HillsHold([Roots[<<-1, 0>>] EXCEPT !.sections = sections])
TwoStates == [palette |-> <<[name |-> "stone"], [name |-> "air"]>>]

BrokenWorlds ==
  {[SavedWorld EXCEPT !.level = [SpawnY |-> 6]],
   [SavedWorld EXCEPT !.regions[<<-1, 0>>].locations[1].offset = 3],
   HillsAre([length |-> 5, scheme |-> 2, root |-> Roots[<<-1, 0>>]]),
   HillsAre([length |-> 0, scheme |-> 2, root |-> Roots[<<-1, 0>>]]),
   HillsAre([length |-> 4, scheme |-> 4, root |-> Roots[<<-1, 0>>]]),
   HillsHold(Roots[<<0, 1>>]),
   HillsHold([Roots[<<-1, 0>>] EXCEPT !.yPos = 0]),
   HillsOf(<<[y |-> 0, blockStates |-> [palette |-> <<>>]]>>),
   HillsOf(<<[y |-> 0, blockStates |-> TwoStates]>>),
   HillsOf(<<[y |-> 0, blockStates |-> TwoStates @@ [data |-> <<>>]]>>),
   HillsOf(<<[y |-> 0, blockStates |-> TwoStates @@ [data |-> Packed(<<0, 1, 2, 0>>, 2)]]>>)}

ASSUME BrokenWorldsRefused == \A save \in BrokenWorlds : Load(save) = Damaged

\* What is beyond the world's bounds is not looked at, and older saves name the spawn otherwise.
ASSUME OldWorldsRead ==
  /\ Load(HillsOf(<<[y |-> 5, blockStates |-> TwoStates @@ [data |-> <<>>]]>>)).is = "found"
  /\ Load([SavedWorld EXCEPT !.level = [SpawnX |-> -1, SpawnY |-> 6]]) = Load(SavedWorld)
===============================================================================
