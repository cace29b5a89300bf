------------------------------ MODULE BlockStates ------------------------------
(* The numbers blocks go by, src/gamedata/blockstates.go. A world is saved    *)
(* under the newest names; what a client draws is a number, and each version  *)
(* numbers the blocks its own way, and knows some of them by older names and  *)
(* older values of their properties, and others not at all.                   *)
EXTENDS Versions, Sequences, SequencesExt, FiniteSetsExt, Functions

\* The last of the runs <<first version, what>> that starts at the version or before.
RunOf(runs, version) ==
  LET upTo == {i \in DOMAIN runs : runs[i][1] <= version}
  IN  runs[CHOOSE i \in upTo : \A j \in upTo : j <= i][2]

(* A version is numbered by the file of a version that numbers blocks alike.  *)
blockStatesFiles ==
  << <<V1_7_2, V1_13>>, <<V1_13_1, V1_13_2>>, <<V1_14, V1_14_4>>, <<V1_15, V1_15_2>>,
     <<V1_16, V1_16_1>>, <<V1_16_2, V1_16_4>>, <<V1_17, V1_18_2>>, <<V1_19, V1_19_1>>,
     <<V1_19_3, V1_19_3>>, <<V1_19_4, V1_19_4>>, <<V1_20, V1_20>>, <<V1_20_2, V1_20_2>>,
     <<V1_20_3, V1_20_3>>, <<V1_20_5, V1_21>>, <<V1_21_2, V1_21_2>>, <<V1_21_4, V1_21_4>>,
     <<V1_21_5, V1_21_5>>, <<V1_21_6, V1_21_7>>, <<V1_21_9, V1_21_11>>, <<V26_1, V26_1>>,
     <<V26_2, V26_2>>, <<V26_3, V26_3>> >>

(* Before 1.13 the wire has a block's own number with a variant below it: the *)
(* states are 1.13's, and a second file numbers each of them.                 *)
HasBlockIds(version) == version < V1_13
blockIdsFiles ==
  << <<V1_7_2, V1_7_6>>, <<V1_8, V1_8>>, <<V1_9, V1_9_3>>, <<V1_10, V1_10>>,
     <<V1_11, V1_11_1>>, <<V1_12, V1_12_2>> >>

\* What the older client calls it, <<the newest name, the older one>>.
blockStateRenamesFrom1_14(version) ==
  (IF version < V1_20_3 THEN {<<"short_grass", "grass">>} ELSE {})
    \cup (IF version < V1_17
            THEN {<<"dirt_path", "grass_path">>, <<"water_cauldron", "cauldron">>} ELSE {})

blockStateRenames(version) ==
  blockStateRenamesFrom1_14(version)
    \cup (IF version < V1_14
            THEN {<<"oak_sign", "sign">>, <<"oak_wall_sign", "wall_sign">>,
                  <<"smooth_stone_slab", "stone_slab">>}
          ELSE {})

\* What a wall that came in two heights with 1.16 was before.
blockStateValueRenames(version) ==
  IF version < V1_16
    THEN {<<"none", "false">>, <<"low", "true">>, <<"tall", "true">>} ELSE {}

Renamed(renames, word) ==
  IF \E pair \in renames : pair[1] = word
    THEN (CHOOSE pair \in renames : pair[1] = word)[2] ELSE word

(***************************************************************************)
(* The data, a few of the blocks of it. The entries of a table are in the  *)
(* order of their numbers, each with the values of its properties, the     *)
(* last of which turns fastest, and the offset of its default state.       *)
(***************************************************************************)
Property(name, values) == [name |-> name, values |-> values]
\* A block of one state: the newest name of it and the one the file has.
Simple(block, name) == <<[block |-> block, name |-> name, properties |-> <<>>, default |-> 0]>>
Since(file, version, older, newest) == Simple(newest, IF file < version THEN older ELSE newest)

DataFile(file) ==
  LET heights == IF file < V1_16 THEN <<"true", "false">> ELSE <<"none", "low", "tall">>
  IN  Simple("air", "air")
      \o Simple("stone", "stone")
      \o Since(file, V1_20_3, "grass", "short_grass")
      \o Since(file, V1_17, "grass_path", "dirt_path")
      \o Since(file, V1_17, "cauldron", "water_cauldron")
      \o Since(file, V1_14, "sign", "oak_sign")
      \o Since(file, V1_14, "wall_sign", "oak_wall_sign")
      \o Since(file, V1_14, "stone_slab", "smooth_stone_slab")
      \o <<[block |-> "wall", name |-> "wall",
            properties |-> <<Property("east", heights), Property("up", <<"true", "false">>),
                             Property("waterlogged", <<"true", "false">>)>>,
            default |-> IF file < V1_16 THEN 7 ELSE 3]>>
      \o (IF file < V1_17 THEN <<>> ELSE Simple("deepslate", "deepslate"))

Count(entry) ==
  LET count[i \in 0 .. Len(entry.properties)] ==
        IF i = 0 THEN 1 ELSE count[i - 1] * Len(entry.properties[i].values)
  IN  count[Len(entry.properties)]

(* loadBlockStatesTable: every entry with the number of its first state.      *)
loadBlockStatesTable(file) ==
  LET entries == DataFile(file)
      base[i \in 1 .. Len(entries) + 1] ==
        IF i = 1 THEN 0 ELSE base[i - 1] + Count(entries[i - 1])
  IN  [blocks |-> [i \in DOMAIN entries |->
                     [block |-> entries[i].block, name |-> entries[i].name, base |-> base[i],
                      properties |-> entries[i].properties, default |-> entries[i].default]],
       stateCount |-> base[Len(entries) + 1]]

Tables == [file \in {blockStatesFiles[i][2] : i \in DOMAIN blockStatesFiles} |->
             loadBlockStatesTable(file)]
TableFor(version) == Tables[RunOf(blockStatesFiles, version)]

\* A variant is one bit here. -1 is a state that the version has no number for.
VariantsPerBlock == 2
VariantId(file, state, i, block) ==
  IF state - block.base >= VariantsPerBlock \/ (file = V1_7_6 /\ block.name = "stone_slab") THEN -1
  ELSE (i - 1) * VariantsPerBlock + state - block.base

\* The block whose states that is one of.
Owner(blocks, state) ==
  CHOOSE i \in DOMAIN blocks : state \in blocks[i].base .. blocks[i].base + Count(blocks[i]) - 1

BlockIds(file, table) ==
  LET i[state \in 0 .. table.stateCount - 1] == Owner(table.blocks, state)
  IN  [state \in DOMAIN i |-> VariantId(file, state, i[state], table.blocks[i[state]])]
Ids == [file \in {blockIdsFiles[i][2] : i \in DOMAIN blockIdsFiles} |-> BlockIds(file, Tables[V1_13])]

(***************************************************************************)
(* Looking a state up. A state is a name and some of its properties.       *)
(***************************************************************************)
Unknown == -1

number(version, state) ==
  IF HasBlockIds(version) THEN Ids[RunOf(blockIdsFiles, version)][state] ELSE state

\* The entry of the file that has the version's name for it, where one has.
Entries(version, name) ==
  {entry \in ToSet(TableFor(version).blocks) :
     entry.name = Renamed(blockStateRenames(version), name)}

StateCount(version) ==
  IF HasBlockIds(version) THEN Len(TableFor(version).blocks) * VariantsPerBlock
  ELSE TableFor(version).stateCount

indexOf(property, value) ==
  IF \E i \in DOMAIN property.values : property.values[i] = value
    THEN (CHOOSE i \in DOMAIN property.values : property.values[i] = value) - 1 ELSE Unknown

Options(entry, i) == entry.properties[i].values
Strides(entry) ==
  LET stride[i \in 0 .. Len(entry.properties)] ==
        IF i = Len(entry.properties) THEN 1 ELSE stride[i + 1] * Len(Options(entry, i + 1))
  IN  stride
Digit(n, stride, base) == (n \div stride) % base

\* A value by the version's word for it, where its own is not one of them.
valueIndex(version, property, value) ==
  IF indexOf(property, value) # Unknown THEN indexOf(property, value)
  ELSE indexOf(property, Renamed(blockStateValueRenames(version), value))

(* Id: each property counts in its own base, the last fastest. A property the *)
(* state does not give has the index it has in the default.                   *)
IdOf(version, entry, properties, stride) ==
  LET index == [i \in DOMAIN entry.properties |->
                  IF entry.properties[i].name \in DOMAIN properties
                    THEN valueIndex(version, entry.properties[i], properties[entry.properties[i].name])
                  ELSE Digit(entry.default, stride[i], Len(Options(entry, i)))]
  IN  IF Unknown \in Range(index) THEN Unknown
      ELSE number(version, entry.base
                             + MapThenSumSet(LAMBDA i : index[i] * stride[i], DOMAIN entry.properties))

FromEntry(entries, IdFrom(_)) ==
  IF entries = {} THEN Unknown ELSE IdFrom(CHOOSE entry \in entries : TRUE)

Id(version, name, properties) ==
  FromEntry(Entries(version, name), LAMBDA entry : IdOf(version, entry, properties, Strides(entry)))

DefaultId(version, name) ==
  FromEntry(Entries(version, name), LAMBDA entry : number(version, entry.base + entry.default))

(***************************************************************************)
(* What a client of the version draws for a number, by its own registry:   *)
(* every state that has the number, its block by the newest name and the   *)
(* values that the client knows.                                           *)
(***************************************************************************)
DrawnState(entry, offset, stride) ==
  [block |-> entry.block,
   values |-> [name \in {property.name : property \in ToSet(entry.properties)} |->
                 LET i == CHOOSE j \in DOMAIN entry.properties : entry.properties[j].name = name
                 IN  Options(entry, i)[Digit(offset, stride[i], Len(Options(entry, i))) + 1]]]

States(version, entry) ==
  {<<number(version, entry.base + offset), DrawnState(entry, offset, Strides(entry))>> :
     offset \in 0 .. Count(entry) - 1}
\* Every number of a version's with the states that have it.
Registry == [version \in Supported |-> UNION {States(version, entry) : entry \in ToSet(TableFor(version).blocks)}]
Drawn(version, id) == {known[2] : known \in {k \in Registry[version] : k[1] = id}}
===============================================================================
