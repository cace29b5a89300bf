--------------------------------- MODULE World ---------------------------------
(* The world as it is prepared for a version, src/world/world.go: what is in  *)
(* the sections, which packets carry a chunk, and in which order.             *)
EXTENDS BlockStates, OldChunks, Saves

minSectionY == -sectionsBelowZero
chunkRadius == 1
fullChunkStatus == "full"

airBlocks == {"air", "cave_air", "void_air"}
fluidBlocks == {"water"}

(* chunkBuilder: what a version has of its own in how it is written.          *)
fluidCounts(version) == version >= V26_1
dataLengths(version) == version < V1_21_5
separateLight(version) == version < V1_18
sectionLight(version) == version < V1_14
longs(version) == IF dataLengths(version) THEN "counted longs" ELSE "longs"

\* A state without a number is its block's default, and a block without one is air.
Numbered(version, state) ==
  LET ids == <<Id(version, state.name, state.properties), DefaultId(version, state.name), 0>>
  IN  SelectSeq(ids, LAMBDA id : id # Unknown)[1]

Air(state) == state.name \in airBlocks
Fluid(state) ==
  \/ state.name \in fluidBlocks
  \/ "waterlogged" \in DOMAIN state.properties /\ state.properties["waterlogged"] = "true"

bitsLen(n) == CHOOSE bits \in 0 .. 16 : n < 2 ^ bits /\ (bits > 0 => n >= 2 ^ (bits - 1))
storedBits(palette) ==
  LET bits == bitsLen(Len(palette) - 1) IN IF bits > linearPaletteBits THEN bits ELSE linearPaletteBits

Counts(version) ==
  BlockCount \o (IF fluidCounts(version) THEN As("short", <<"fluidCount">>) ELSE <<>>)

\* The counts, the blocks and the biomes, which are all of the one.
SectionOf(version, blockCount, fluidCount, bits, container) ==
  Written(Counts(version) \o Container(bits, longs(version)) \o Biomes(longs(version)),
          LAMBDA name :
            CASE name = "blockCount" -> blockCount
              [] name = "fluidCount" -> fluidCount
              [] name = "bits" -> bits
              [] name \in {"value", "palette", "longs"} -> container[name]
              [] name = "biomeLongs" -> <<>>
              [] OTHER -> 0)

appendSingleValueSection(version, id, air, fluid) ==
  SectionOf(version, IF air THEN 0 ELSE blocksPerSection, IF fluid THEN blocksPerSection ELSE 0,
            0, [value |-> id, longs |-> <<>>])

appendEmptySection(version) ==
  appendSingleValueSection(version, Id(version, "air", <<>>), TRUE, FALSE)

\* Which state of its palette each block of a section is in.
Indices(section) == Unpacked(section.data, storedBits(section.palette), blocksPerSection)

\* What is stored fits the palette: as many longs as it packs, and no index beyond it.
Fits(section) ==
  /\ Packs(section.data, storedBits(section.palette), blocksPerSection)
  /\ \A k \in 1 .. blocksPerSection : Indices(section)[k] < Len(section.palette)

CountIn(section, indices, kinds) ==
  Cardinality({k \in DOMAIN indices : section.palette[indices[k] + 1] \in kinds})

(* The bits of an entry and what is in them. Up to the most that a palette is *)
(* sent for, the data goes as it is stored; of more, every block names its    *)
(* state directly, in the bits that all of the version's states take.         *)
Spelled(section, ids, indices, wireBits) ==
  IF Len(ids) <= 2 ^ blockIndirectBits
    THEN <<storedBits(section.palette), [palette |-> ids, longs |-> section.data]>>
  ELSE <<wireBits, [longs |-> Packed([k \in DOMAIN indices |-> ids[indices[k] + 1]], wireBits)]>>

SectionWith(version, section, indices, spelled) ==
  LET states == ToSet(section.palette)
  IN  SectionOf(version, CountIn(section, indices, {s \in states : ~Air(s)}),
                CountIn(section, indices, {s \in states : Fluid(s)}), spelled[1], spelled[2])

SpelledSection(version, section, ids, indices) ==
  SectionWith(version, section, indices,
              Spelled(section, ids, indices, bitsLen(StateCount(version) - 1)))

appendSection(version, section) ==
  LET ids == [i \in DOMAIN section.palette |-> Numbered(version, section.palette[i])]
  IN  IF Len(ids) = 1
        THEN appendSingleValueSection(version, ids[1], Air(section.palette[1]), Fluid(section.palette[1]))
      ELSE SpelledSection(version, section, ids, Indices(section))

\* Heightmaps of other kinds are not sent.
heightmaps(saved) ==
  [kind \in {k \in DOMAIN heightmapNames : heightmapNames[k] \in DOMAIN saved} |->
     saved[heightmapNames[kind]]]

\* The stored sections by height; of two at one height, the later.
Stored(chunk) ==
  [y \in {section.y : section \in ToSet(chunk.sections)} |->
     chunk.sections[Max({k \in DOMAIN chunk.sections : chunk.sections[k].y = y})]]

(* build: every section there is, and the light of those and of one more on   *)
(* either side, so that the bit of a section is the one after its index.      *)
build(version, chunk) ==
  LET stored == Stored(chunk)
      has(y, part) == y \in DOMAIN stored /\ part \in DOMAIN stored[y]
      lit(part) == {bit \in UpTo(lightSectionCount) : has(minSectionY - 1 + bit, part)}
      arrays(part) == LET index == InMask(lit(part))
                      IN  [k \in DOMAIN index |-> stored[minSectionY - 1 + index[k]][part]]
  IN  [x |-> chunk.x, z |-> chunk.z,
       heightmaps |-> heightmaps(chunk.heightmaps),
       sections |-> [i \in 1 .. sectionCount |->
                       IF has(minSectionY + i - 1, "palette")
                         THEN appendSection(version, stored[minSectionY + i - 1])
                       ELSE appendEmptySection(version)],
       skyMask |-> lit("skyLight"),
       emptySkyMask |-> UpTo(lightSectionCount) \ lit("skyLight"),
       blockMask |-> lit("blockLight"),
       emptyBlockMask |-> UpTo(lightSectionCount) \ lit("blockLight"),
       skyLight |-> arrays("skyLight"),
       blockLight |-> arrays("blockLight")]

Packets(version, packet) ==
  LET whole == <<"LevelChunkWithLight", LevelChunkWithLight(packet)>>
      light == <<"LightUpdate", LightUpdate(packet)>>
  IN  IF sectionLight(version)
        THEN << <<"LevelChunkWithSectionLight", LevelChunkWithSectionLight(packet)>> >>
      ELSE IF separateLight(version) THEN <<light, whole>>
      ELSE <<whole>>

\* What carries a chunk to a version: <<packet, body>>, in the order they are sent.
prepare(version, chunk) ==
  Packets(version, build(version, chunk))

startPackets(version) == IF sectionLight(version) THEN <<>> ELSE <<"SetChunkCacheCenter">>

\* Mutant: divided the way Go divides, towards zero.
CenterTowardsZero(spawn) ==
  LET cut(n) == IF n < 0 THEN -((-n) \div chunkWidth) ELSE n \div chunkWidth
  IN  [x |-> cut(spawn[1]), z |-> cut(spawn[3])]

\* The chunk of the spawn: the shift of the code rounds down, below zero too.
centerOf(spawn) == [x |-> spawn[1] \div chunkWidth, z |-> spawn[3] \div chunkWidth]

Translatable(chunk) ==
  /\ chunk.minSectionY = minSectionY
  /\ \A y \in DOMAIN Stored(chunk) \cap (minSectionY .. minSectionY + sectionCount - 1) :
       LET section == Stored(chunk)[y]
       IN  "palette" \in DOMAIN section => Len(section.palette) = 1 \/ Fits(section)

(* Load: the finished chunks around the spawn. One that is not there, or not  *)
(* finished, is skipped; one that is damaged, of a world of other bounds, or  *)
(* whose data is not its palette's, is an error, and there is no world.       *)
Load(save) ==
  LET spawn == ReadSpawn(save.level)
      center == centerOf(spawn.v)
      around(c) == c - chunkRadius .. c + chunkRadius
      read == {ReadChunk(save.regions, x, z) : x \in around(center.x), z \in around(center.z)}
      finished == {r.v : r \in {found \in read \ {NotFound, Damaged} : found.v.status = fullChunkStatus}}
  IN  IF spawn = Damaged THEN Damaged
      ELSE IF Damaged \in read \/ \E chunk \in finished : ~Translatable(chunk) THEN Damaged
      ELSE Found([center |-> center, chunks |-> finished])

\* Without a world, only the versions that need ground to tick on get any.
entitiesTickWithoutChunks == V1_17
voidSpawn == <<0, 64, 0>>
VoidChunk(x, z) ==
  [x |-> x, z |-> z, minSectionY |-> minSectionY, status |-> fullChunkStatus,
   heightmaps |-> <<>>, sections |-> <<>>]
Void(version) ==
  LET center == centerOf(voidSpawn)
      around(c) == c - chunkRadius .. c + chunkRadius
  IN  IF version >= entitiesTickWithoutChunks THEN {}
      ELSE {VoidChunk(x, z) : x \in around(center.x), z \in around(center.z)}
===============================================================================
