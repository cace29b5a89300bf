-------------------------------- MODULE Chunks --------------------------------
(* The packets of a chunk and of its light, and the steps that carry them     *)
(* along the versions. The world is smaller here, in every direction:         *)
(* one section below zero for four, two for the sixteen that every version    *)
(* has, one above for four; four blocks to a section, three columns to a      *)
(* heightmap, and longs of eight bits. An entry takes at least two bits for   *)
(* four, and a palette is sent for entries of up to three for eight. A mask   *)
(* is the set of its bits, a light array one value, 0 where it is dark.       *)
EXTENDS Bodies, FiniteSets, FiniteSetsExt

sectionsBelowZero == 1
sections1_16_4 == 2
sectionCount == 4
lightSections1_16_4 == sections1_16_4 + 2
lightSectionCount == sectionCount + 2
blocksPerSection == 4
LongBits == 8
linearPaletteBits == 2
blockIndirectBits == 3
heightmapBits == 3
heightmapEntries == 3
SectionHeight == 1
biomesPerSection == 1
biomes1_16_4 == 2
biomes1_14_4 == 2

(***************************************************************************)
(* Entries packed into longs, none across two of them, as they are from    *)
(* 1.16; and one right after the other, as they were before.               *)
(***************************************************************************)
PerLong(bits) == LongBits \div bits
Up(n, by) == (n + by - 1) \div by
Bit(n, i) == (n \div 2 ^ i) % 2
Sum(f(_), S) == MapThenSumSet(f, S)
UpTo(n) == 0 .. n - 1

Packed(entries, bits) ==
  [k \in 1 .. Up(Len(entries), PerLong(bits)) |->
     Sum(LAMBDA i : IF (k - 1) * PerLong(bits) + i < Len(entries)
                      THEN entries[(k - 1) * PerLong(bits) + i + 1] * 2 ^ (i * bits) ELSE 0,
         UpTo(PerLong(bits)))]

Unpacked(longs, bits, count) ==
  [i \in 1 .. count |->
     (longs[(i - 1) \div PerLong(bits) + 1] \div 2 ^ (((i - 1) % PerLong(bits)) * bits))
       % 2 ^ bits]

Packs(longs, bits, count) == Len(longs) = Up(count, PerLong(bits))

\* Mutant: the longs go out as they are packed from 1.16.
KeepPadding(longs, bits, count) == longs

spanEntries(longs, bits, count) ==
  LET entries == Unpacked(longs, bits, count)
      bit(j) == IF j < count * bits THEN Bit(entries[j \div bits + 1], j % bits) ELSE 0
  IN  [k \in 1 .. Up(count * bits, LongBits) |->
         Sum(LAMBDA j : bit((k - 1) * LongBits + j) * 2 ^ j, UpTo(LongBits))]

Unspanned(longs, bits, count) ==
  [i \in 1 .. count |->
     Sum(LAMBDA j : LET at == (i - 1) * bits + j
                    IN  Bit(longs[at \div LongBits + 1], at % LongBits) * 2 ^ j,
         UpTo(bits))]

(***************************************************************************)
(* The packets as they are written for the newest versions.                *)
(***************************************************************************)
Coordinates(kind) == As(kind, <<"x", "z">>)
Masks(kind) == As(kind, <<"skyMask", "blockMask", "emptySkyMask", "emptyBlockMask">>)
Arrays(kind) == As(kind, <<"skyLight", "blockLight">>)
Light == Masks("bit set bytes") \o Arrays("counted arrays")
TrustEdges == As("bool", <<"trustEdges">>)
Terrain(heightmaps) ==
  As(heightmaps, <<"heightmaps">>) \o As("sections", <<"sections">>)
    \o As("varint", <<"blockEntities">>)

LevelChunkWithLight(p) ==
  Written(Coordinates("int") \o Terrain("heightmap list") \o Light,
          LAMBDA name : IF name = "blockEntities" THEN 0 ELSE p[name])

LightUpdate(p) ==
  Written(Coordinates("varint") \o TrustEdges \o Light,
          LAMBDA name : IF name = "trustEdges" THEN TRUE ELSE p[name])

\* A chunk with its light behind it, the chunk with its length in front.
LevelChunkWithSectionLight(p) ==
  Written(As("packet", <<"chunk">>), LAMBDA name : LevelChunkWithLight(p)) \o LightUpdate(p)

(***************************************************************************)
(* The steps down to 1.18, where a chunk is whole and carries its light.   *)
(***************************************************************************)
DowngradeLevelChunkWithLightTo26_2(b) ==
  LET r == Read(b, Coordinates("int") \o Terrain("heightmap list") \o Masks("bit set bytes"))
  IN  Where(r, r.v.blockEntities = 0,
            WriteThen(r, Coordinates("int") \o Terrain("heightmap list") \o Masks("bit set"), None))

DowngradeLightUpdateTo26_2(b) ==
  LET r == Read(b, Coordinates("varint") \o TrustEdges \o Masks("bit set bytes"))
  IN  WriteThen(r, Coordinates("varint") \o TrustEdges \o Masks("bit set"), None)

heightmapNames == [kind \in {1, 4} |-> IF kind = 1 THEN "WORLD_SURFACE" ELSE "MOTION_BLOCKING"]

DowngradeLevelChunkWithLightTo1_21_4(b) ==
  LET r == Read(b, Coordinates("int") \o As("heightmap list", <<"heightmaps">>))
      kind(name) == CHOOSE k \in DOMAIN heightmapNames : heightmapNames[k] = name
  IN  Where(r, DOMAIN r.v.heightmaps \subseteq DOMAIN heightmapNames,
            WriteThen(r, Coordinates("int") \o As("compound", <<"heightmaps">>),
                      [heightmaps |-> [name \in {heightmapNames[k] : k \in DOMAIN r.v.heightmaps} |->
                                         r.v.heightmaps[kind(name)]]]))

DowngradeLevelChunkWithLightTo1_20(b) ==
  WriteThen(Read(b, Coordinates("int") \o As("compound", <<"heightmaps">>)),
            Coordinates("int") \o As("named compound", <<"heightmaps">>), None)

\* Mutant: no word about the light of the edges, which the client reads.
ChunkWithoutTrustEdges(b) ==
  WriteThen(Read(b, Coordinates("int") \o Terrain("named compound")),
            Coordinates("int") \o Terrain("named compound"), None)

DowngradeLevelChunkWithLightTo1_19_4(b) ==
  WriteThen(Read(b, Coordinates("int") \o Terrain("named compound")),
            Coordinates("int") \o Terrain("named compound") \o TrustEdges, [trustEdges |-> TRUE])

(***************************************************************************)
(* Sections. One is a count of its blocks and containers of its blocks and *)
(* its biomes; what is in a container depends on the bits it starts with.  *)
(***************************************************************************)
BlockCount == As("short", <<"blockCount">>)
Bits == As("byte", <<"bits">>)
Container(bits, longs) ==
  Bits \o (CASE bits = 0 -> As("varint", <<"value">>)
             [] bits \in 1 .. blockIndirectBits -> As("varints", <<"palette">>)
             [] OTHER -> <<>>)
       \o As(longs, <<"longs">>)
Biomes(longs) ==
  As("byte", <<"biomeBits">>) \o As("varint", <<"biome">>) \o As(longs, <<"biomeLongs">>)

\* A section whose head is followed by what its bits say: the rest is unread.
ReadSection(section, head, tail(_)) ==
  LET r == Read(section, head \o Bits) IN Read(section, head \o tail(r.v.bits))

SectionsFit(each) == \A i \in DOMAIN each : each[i].fits /\ each[i].rest = <<>>

\* The index of each section that a mask names, in order.
InMask(mask) == SetToSortSeq(mask, <)

readContainer(bits) == Container(bits, "counted longs")

(* rewriteSectionsTo1_17_1: the sections with blocks in them, and a mask of   *)
(* them. A section of one block spells the palette and the zeros out.         *)
rewriteSectionTo1_17_1(r) ==
  IF r.v.bits = 0
    THEN Put(r, BlockCount \o Container(linearPaletteBits, "counted longs"),
             [bits |-> linearPaletteBits, palette |-> <<r.v.value>>,
              longs |-> Packed([i \in 1 .. blocksPerSection |-> 0], linearPaletteBits)])
  ELSE Put(r, BlockCount \o readContainer(r.v.bits), None)

LongMask == As("bit set", <<"mask">>)

DowngradeLevelChunkWithLightTo1_17_1(b) ==
  LET r == Read(b, Coordinates("int") \o Terrain("named compound"))
      each == [i \in DOMAIN r.v.sections |->
                 ReadSection(r.v.sections[i], BlockCount,
                             LAMBDA bits : readContainer(bits) \o Biomes("counted longs"))]
      mask == {i - 1 : i \in {j \in DOMAIN each : each[j].v.blockCount # 0}}
      kept == InMask(mask)
  IN  IF ~r.fits \/ ~SectionsFit(each) THEN Misread
      ELSE Where(r, r.v.blockEntities = 0,
                 WriteOnly(r, Coordinates("int") \o LongMask \o As("named compound", <<"heightmaps">>)
                                \o As("varints", <<"biomes">>) \o As("sections", <<"sections">>)
                                \o As("varint", <<"blockEntities">>),
                           [mask |-> mask,
                            biomes |-> [i \in 1 .. Len(each) * biomesPerSection |-> 0],
                            sections |-> [k \in DOMAIN kept |->
                                            rewriteSectionTo1_17_1(each[kept[k] + 1])]]))

(***************************************************************************)
(* 1.17: the sections and the light below zero and above what the older    *)
(* world holds are cut off, and the heights counted from zero.             *)
(***************************************************************************)
Lowered(mask, count) == {i - sectionsBelowZero : i \in mask} \cap UpTo(count)

worldHeight1_16_4 == sections1_16_4 * SectionHeight

\* Mutant: a column that rises above the older sky ends one below it.
LowerBelowTheSky(longs) ==
  LET heights == Unpacked(longs, heightmapBits, heightmapEntries)
      lowered(h) == h - sectionsBelowZero * SectionHeight
  IN  Packed([i \in DOMAIN heights |->
                CASE lowered(heights[i]) < 0 -> 0
                  [] lowered(heights[i]) >= worldHeight1_16_4 -> worldHeight1_16_4 - 1
                  [] OTHER -> lowered(heights[i])], heightmapBits)

lowerHeightmap(longs) ==
  LET heights == Unpacked(longs, heightmapBits, heightmapEntries)
      lowered(h) == h - sectionsBelowZero * SectionHeight
  IN  Packed([i \in DOMAIN heights |->
                CASE lowered(heights[i]) < 0 -> 0
                  [] lowered(heights[i]) > worldHeight1_16_4 -> worldHeight1_16_4
                  [] OTHER -> lowered(heights[i])], heightmapBits)

HeightmapsPack(heightmaps) ==
  \A kind \in DOMAIN heightmaps : Packs(heightmaps[kind], heightmapBits, heightmapEntries)

Whole == As("bool", <<"whole">>)
Mask == As("varint", <<"mask">>)

DowngradeLevelChunkTo1_16_4(b) ==
  LET r == Read(b, Coordinates("int") \o LongMask \o As("named compound", <<"heightmaps">>)
                     \o As("varints", <<"biomes">>) \o As("sections", <<"sections">>)
                     \o As("varint", <<"blockEntities">>))
      each == [i \in DOMAIN r.v.sections |-> ReadSection(r.v.sections[i], BlockCount, readContainer)]
      index == InMask(r.v.mask)
      kept == SetToSortSeq({k \in DOMAIN index : index[k] - sectionsBelowZero \in UpTo(sections1_16_4)}, <)
  IN  IF ~r.fits \/ ~SectionsFit(each) THEN Misread
      ELSE Where(r, /\ Len(each) = Len(index)
                    /\ r.v.blockEntities = 0
                    /\ \A k \in DOMAIN each : each[k].v.bits # 0
                    /\ HeightmapsPack(r.v.heightmaps),
                 WriteOnly(r, Coordinates("int") \o Whole \o Mask
                                \o As("named compound", <<"heightmaps">>)
                                \o As("varints", <<"biomes">>) \o As("sections", <<"sections">>)
                                \o As("varint", <<"blockEntities">>),
                           [whole |-> TRUE,
                            mask |-> Lowered(r.v.mask, sections1_16_4),
                            heightmaps |-> [kind \in DOMAIN r.v.heightmaps |->
                                              lowerHeightmap(r.v.heightmaps[kind])],
                            biomes |-> [i \in 1 .. biomes1_16_4 |-> 0],
                            sections |-> [k \in DOMAIN kept |-> r.v.sections[kept[k]]]]))

cutLightArraysTo1_16_4(mask, arrays) ==
  LET index == InMask(mask)
      kept == SetToSortSeq({k \in DOMAIN index : index[k] - sectionsBelowZero \in UpTo(lightSections1_16_4)}, <)
  IN  [k \in DOMAIN kept |-> arrays[kept[k]]]

DowngradeLightUpdateTo1_16_4(b) ==
  LET r == Read(b, Coordinates("varint") \o TrustEdges \o Masks("bit set") \o Arrays("counted arrays"))
      lowered(name) == Lowered(r.v[name], lightSections1_16_4)
  IN  Where(r, /\ Len(r.v.skyLight) = Cardinality(r.v.skyMask)
               /\ Len(r.v.blockLight) = Cardinality(r.v.blockMask),
            WriteOnly(r, Coordinates("varint") \o TrustEdges \o Masks("varint") \o Arrays("arrays"),
                      [skyLight |-> cutLightArraysTo1_16_4(r.v.skyMask, r.v.skyLight),
                       blockLight |-> cutLightArraysTo1_16_4(r.v.blockMask, r.v.blockLight)]
                        @@ [name \in {"skyMask", "blockMask", "emptySkyMask", "emptyBlockMask"} |->
                              lowered(name)]))
===============================================================================
