------------------------------- MODULE OldChunks -------------------------------
(* The steps that carry a chunk from 1.16.4 down to 1.7.6: entries that span  *)
(* longs, light inside the sections, and from 1.8 down no palettes at all.    *)
EXTENDS Chunks

plainsBiome1_16_1 == 1
biomeMax1_12_2 == 255
blockIdMax1_8 == 65535
blockIdMax1_7_6 == 255
blockVariants == 2    \* the variants of a block, sixteen

Behind1_16_4 == As("named compound", <<"heightmaps">>)
SectionsAndEntities == As("sections", <<"sections">>) \o As("varint", <<"blockEntities">>)
Forget == As("bool", <<"forget">>)

\* The head of a chunk that is not whole carries no biomes.
FlaggedHead(b, flags, biomes) ==
  LET head == Coordinates("int") \o Whole \o flags \o Mask \o Behind1_16_4
      r == Read(b, head)
  IN  IF r.fits /\ r.v.whole THEN Read(b, head \o As(biomes, <<"biomes">>)) ELSE r

DowngradeLevelChunkTo1_16_1(b) ==
  LET r == FlaggedHead(b, <<>>, "varints")
      front == Coordinates("int") \o Whole \o Forget \o Mask \o Behind1_16_4
      plains == [i \in 1 .. biomes1_16_4 |-> plainsBiome1_16_1]
  IN  IF ~r.fits THEN Misread
      ELSE IF ~r.v.whole THEN WriteThen(r, front, [forget |-> r.v.whole])
      ELSE Where(r, r.v.biomes = [i \in 1 .. biomes1_16_4 |-> 0],
                 WriteThen(r, front \o As("ints", <<"biomes">>),
                           [forget |-> r.v.whole, biomes |-> plains]))

(***************************************************************************)
(* 1.15.2: heights and blocks may span two longs.                          *)
(***************************************************************************)
BareContainer(bits) == Container(bits, "counted longs")
SectionTo1_15_2(r) ==
  Put(r, BlockCount \o BareContainer(r.v.bits),
      [longs |-> spanEntries(r.v.longs, r.v.bits, blocksPerSection)])

DowngradeLevelChunkTo1_15_2(b) ==
  LET r == FlaggedHead(b, Forget, "ints")
      body == Read(r.rest, As("sections", <<"sections">>))
      each == [i \in DOMAIN body.v.sections |-> ReadSection(body.v.sections[i], BlockCount, BareContainer)]
      biomes == IF r.fits /\ r.v.whole THEN As("ints", <<"biomes">>) ELSE <<>>
      spanned == [kind \in DOMAIN r.v.heightmaps |->
                    spanEntries(r.v.heightmaps[kind], heightmapBits, heightmapEntries)]
  IN  IF ~r.fits \/ ~body.fits \/ ~SectionsFit(each) THEN Misread
      ELSE IF /\ HeightmapsPack(r.v.heightmaps)
              /\ Len(each) = Cardinality(r.v.mask)
              /\ \A k \in DOMAIN each : /\ each[k].v.bits # 0
                                        /\ Packs(each[k].v.longs, each[k].v.bits, blocksPerSection)
        THEN Body(Put(r, Coordinates("int") \o Whole \o Mask \o Behind1_16_4 \o biomes,
                      [heightmaps |-> spanned])
                  \o Put(body, As("sections", <<"sections">>),
                         [sections |-> [k \in DOMAIN each |-> SectionTo1_15_2(each[k])]])
                  \o body.rest)
      ELSE Refused

DowngradeLightUpdateTo1_15_2(b) ==
  WriteThen(Read(b, Coordinates("varint") \o TrustEdges), Coordinates("varint"), None)

(* 1.14.4: a biome to every column, behind the sections and inside the array  *)
(* that holds them. The cells of 1.15.2 are the height of four blocks, and    *)
(* the lowest stands for the column.                                          *)
DowngradeLevelChunkTo1_14_4(b) ==
  LET r == FlaggedHead(b, <<>>, "ints")
      body == Read(r.rest, As("sections", <<"sections">>))
      columns == [i \in 1 .. biomes1_14_4 |-> r.v.biomes[1]]
      biomes == IF r.v.whole THEN <<Written(As("ints", <<"biomes">>), LAMBDA name : columns)>> ELSE <<>>
  IN  IF ~r.fits \/ ~body.fits THEN Misread
      ELSE Body(Put(r, Coordinates("int") \o Whole \o Mask \o Behind1_16_4, None)
                \o Put(body, As("sections", <<"sections">>), [sections |-> body.v.sections \o biomes])
                \o body.rest)

(***************************************************************************)
(* 1.13.2: light in the sections, the block light first, where a section   *)
(* whose light was not sent is dark. The chunk comes with its light behind *)
(* it, each carried down by its own steps until here.                      *)
(***************************************************************************)
\* The steps of the chunk in front and of the light behind it.
Paired(first(_), second(_), b) ==
  LET r == Read(b, As("packet", <<"chunk">>))
      chunk == first(r.v.chunk)
      light == second(r.rest)
  IN  IF ~r.fits THEN Misread
      ELSE IF chunk.end # "whole" THEN chunk
      ELSE IF light.end # "whole" THEN light
      ELSE Body(Put(r, As("packet", <<"chunk">>), [chunk |-> chunk.fields]) \o light.fields)

SectionLight == As("light", <<"blockLight", "skyLight">>)
Dark == 0

\* Mutant: the bit of a section is taken for its index.
LightOfIndex(mask, arrays, index) ==
  IF index \in mask THEN arrays[Cardinality({i \in mask : i <= index})] ELSE Dark

\* The array of a section's index, from the arrays that the mask names.
LightOf(mask, arrays, index) ==
  LET bit == index + 1
  IN  IF bit \in mask THEN arrays[Cardinality({i \in mask : i <= bit})] ELSE Dark

\* The bodies of the sections a mask names, and those behind them.
Sections(sections, mask) == SubSeq(sections, 1, Cardinality(mask))
Behind(sections, mask) == SubSeq(sections, Cardinality(mask) + 1, Len(sections))

DowngradeLevelChunkWithSectionLightTo1_13_2(b) ==
  LET r == Read(b, As("packet", <<"chunk">>) \o Coordinates("varint") \o Masks("varint") \o Arrays("arrays"))
      chunk == Read(r.v.chunk, Coordinates("int") \o Whole \o Mask \o Behind1_16_4
                                 \o As("sections", <<"sections">>))
      index == InMask(chunk.v.mask)
      each == [k \in DOMAIN index |-> ReadSection(chunk.v.sections[k], BlockCount, BareContainer)]
      lit(k) == Put(each[k], BareContainer(each[k].v.bits) \o SectionLight,
                    [skyLight |-> LightOf(r.v.skyMask, r.v.skyLight, index[k]),
                     blockLight |-> LightOf(r.v.blockMask, r.v.blockLight, index[k])])
  IN  IF ~r.fits \/ ~chunk.fits \/ ~SectionsFit(each) THEN Misread
      ELSE IF /\ r.rest = <<>>
              /\ chunk.v.x = r.v.x /\ chunk.v.z = r.v.z
              /\ chunk.v.mask \subseteq UpTo(sections1_16_4)
              /\ \A k \in DOMAIN each : each[k].v.bits # 0
        THEN WriteThen(chunk, Coordinates("int") \o Whole \o Mask \o As("sections", <<"sections">>),
                       [sections |-> [k \in DOMAIN index |-> lit(k)]
                                       \o Behind(chunk.v.sections, chunk.v.mask)])
      ELSE Refused

(* 1.12.2: a palette that is not there has its length of none, and a biome is *)
(* a byte.                                                                    *)
LitSection(bits) == BareContainer(bits) \o SectionLight
OldContainer(bits) ==
  Bits \o As("varints", <<"palette">>) \o As("counted longs", <<"longs">>) \o SectionLight

DowngradeLevelChunkWithSectionLightTo1_12_2(b) ==
  LET layout == Coordinates("int") \o Whole \o Mask \o As("sections", <<"sections">>)
      r == Read(b, layout)
      each == [k \in 1 .. Cardinality(r.v.mask) |-> ReadSection(r.v.sections[k], <<>>, LitSection)]
      behind == Behind(r.v.sections, r.v.mask)
      biomes == Read(behind[1], As("ints", <<"biomes">>))
      section(k) == Put(each[k], OldContainer(each[k].v.bits),
                        IF each[k].v.bits > blockIndirectBits THEN [palette |-> <<>>] ELSE None)
  IN  IF ~r.fits \/ ~SectionsFit(each) THEN Misread
      ELSE IF Len(behind) # (IF r.v.whole THEN 1 ELSE 0) THEN Refused
      ELSE IF r.v.whole /\ ~biomes.fits THEN Misread
      ELSE Where(r, /\ r.v.mask \subseteq UpTo(sections1_16_4)
                    /\ \A k \in DOMAIN each : each[k].v.bits # 0
                    /\ r.v.whole => \A i \in DOMAIN biomes.v.biomes :
                                      biomes.v.biomes[i] \in 0 .. biomeMax1_12_2,
                 WriteThen(r, layout,
                           [sections |-> [k \in DOMAIN each |-> section(k)]
                              \o (IF r.v.whole THEN <<Put(biomes, As("bytes", <<"biomes">>), None)>>
                                  ELSE <<>>)]))

\* 1.9.2 reads no block entities.
DowngradeLevelChunkWithSectionLightTo1_9_2(b) ==
  LET front == Coordinates("int") \o Whole \o Mask \o As("sections", <<"sections">>)
      r == Read(b, front \o As("varint", <<"blockEntities">>))
  IN  WriteAll(r, front, None)

(***************************************************************************)
(* 1.8: a bulk of one chunk, every block a short; first all of the blocks, *)
(* then all of the block light, then all of the sky's, then the biomes.    *)
(***************************************************************************)
OldArrays == As("light arrays", <<"blockLight", "skyLight">>)
Chunk1_8 == As("shorts", <<"blocks">>) \o OldArrays \o As("bytes", <<"biomes">>)
Bulk == As("bool", <<"skyLightSent">>) \o As("varint", <<"count">>) \o Coordinates("int")
          \o As("short", <<"mask">>)

\* Every entry names one of the palette's, where there is a palette.
Names(r) == LET entries == Unspanned(r.v.longs, r.v.bits, blocksPerSection)
            IN  \A i \in DOMAIN entries : r.v.bits <= blockIndirectBits => entries[i] < Len(r.v.palette)

\* The states of a section's blocks.
sectionTo1_8(r) ==
  LET entries == Unspanned(r.v.longs, r.v.bits, blocksPerSection)
  IN  [i \in DOMAIN entries |->
         IF r.v.bits <= blockIndirectBits THEN r.v.palette[entries[i] + 1] ELSE entries[i]]

chunkTo1_8(each, biomes) ==
  Written(Chunk1_8, LAMBDA name :
    CASE name = "blocks" -> FlattenSeq([k \in DOMAIN each |-> sectionTo1_8(each[k])])
      [] name = "blockLight" -> [k \in DOMAIN each |-> each[k].v.blockLight]
      [] name = "skyLight" -> [k \in DOMAIN each |-> each[k].v.skyLight]
      [] name = "biomes" -> biomes.v.biomes)

DowngradeLevelChunkWithSectionLightTo1_8(b) ==
  LET r == Read(b, Coordinates("int") \o Whole \o Mask \o As("sections", <<"sections">>))
      each == [k \in 1 .. Cardinality(r.v.mask) |-> ReadSection(r.v.sections[k], <<>>, OldContainer)]
      biomes == Read(Behind(r.v.sections, r.v.mask)[1], As("bytes", <<"biomes">>))
  IN  IF ~r.fits \/ ~SectionsFit(each) THEN Misread
      ELSE IF /\ r.v.whole
              /\ r.v.mask \subseteq UpTo(sections1_16_4)
              /\ r.rest = <<>>
              /\ Len(r.v.sections) = Len(each) + 1
              /\ biomes.fits
              /\ \A k \in DOMAIN each :
                   /\ each[k].v.bits # 0
                   /\ each[k].v.bits > blockIndirectBits => each[k].v.palette = <<>>
                   /\ Len(each[k].v.longs) = Up(blocksPerSection * each[k].v.bits, LongBits)
                   /\ Names(each[k])
                   /\ \A i \in 1 .. blocksPerSection : sectionTo1_8(each[k])[i] \in 0 .. blockIdMax1_8
        THEN Body(Put(r, Bulk, [skyLightSent |-> TRUE, count |-> 1]) \o chunkTo1_8(each, biomes))
      ELSE Refused

(***************************************************************************)
(* 1.7.6: deflated; a block's number is a byte, and its variant four bits  *)
(* behind all of the numbers.                                              *)
(***************************************************************************)
Bulk1_7_6 ==
  As("short", <<"count">>) \o As("int", <<"length">>) \o As("bool", <<"skyLightSent">>)
    \o As("deflated", <<"chunk">>) \o Coordinates("int") \o As("short", <<"mask", "addMask">>)
Chunk1_7_6 ==
  As("bytes", <<"numbers">>) \o As("nibbles", <<"variants">>) \o OldArrays
    \o As("bytes", <<"biomes">>)

chunkTo1_7_6(r) ==
  Put(r, Chunk1_7_6,
      [numbers |-> [i \in DOMAIN r.v.blocks |-> r.v.blocks[i] \div blockVariants],
       variants |-> [i \in DOMAIN r.v.blocks |-> r.v.blocks[i] % blockVariants]])

DowngradeLevelChunkWithSectionLightTo1_7_6(b) ==
  LET r == Read(b, Bulk)
      chunk == Read(r.rest, Chunk1_8)
      sections == Cardinality(r.v.mask)
      deflated == chunkTo1_7_6(chunk)
  IN  IF ~r.fits \/ ~chunk.fits THEN Misread
      ELSE Where(r, /\ r.v.count = 1
                    /\ Len(chunk.v.blocks) = sections * blocksPerSection
                    /\ Len(chunk.v.blockLight) = sections
                    /\ Len(chunk.v.skyLight) = sections
                    /\ \A i \in DOMAIN chunk.v.blocks :
                         chunk.v.blocks[i] \div blockVariants <= blockIdMax1_7_6,
                 WriteOnly(r, Bulk1_7_6, [count |-> 1, length |-> Len(deflated),
                                          chunk |-> deflated, addMask |-> {}]))
===============================================================================
