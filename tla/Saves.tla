--------------------------------- MODULE Saves ---------------------------------
(* A world as Minecraft saves it and what src/anvil reads of it. A directory  *)
(* is its level.dat and its region files; a region file is a table of where   *)
(* each of its chunks lies and, by the sector it begins in, what lies there;  *)
(* a compound is a record, without the tags that were not saved. A region is  *)
(* two chunks wide here for thirty-two, a chunk two blocks for sixteen, and a *)
(* sector four bytes for 4096.                                                *)
EXTENDS Integers, Sequences, TLC

regionChunkSpan == 2
sectorSize == 4
chunkWidth == 2
compressionSchemes == {1, 2, 3}

\* What a read comes to: a value, nothing there to read, or an error.
Found(value) == [is |-> "found", v |-> value]
NotFound == [is |-> "absent"]
Damaged == [is |-> "damaged"]

\* compoundInt and compoundString: a tag that is not there is 0, or no text.
Tag(compound, name, none) == IF name \in DOMAIN compound THEN compound[name] ELSE none

State(name, properties) == [name |-> name, properties |-> properties]

(***************************************************************************)
(* Where a chunk is in the files. Shifts and masks round towards minus     *)
(* infinity, as the files' own names and tables do.                        *)
(***************************************************************************)
RegionOf(x, z) == <<x \div regionChunkSpan, z \div regionChunkSpan>>
SlotOf(x, z) == (x % regionChunkSpan) + (z % regionChunkSpan) * regionChunkSpan

\* The chunk's own length is believed, as far as its sectors go.
ReadChunkPayload(regions, x, z) ==
  IF RegionOf(x, z) \notin DOMAIN regions THEN NotFound
  ELSE LET region == regions[RegionOf(x, z)]
           location == region.locations[SlotOf(x, z)]
           stored == region.stored[location.offset]
       IN  CASE location.offset = 0 /\ location.sectors = 0 -> NotFound
             [] location.offset \notin DOMAIN region.stored -> Damaged
             [] stored.length \notin 1 .. location.sectors * sectorSize -> Damaged
             [] stored.scheme \notin compressionSchemes -> Damaged
             [] OTHER -> Found(stored.root)

(***************************************************************************)
(* What is in a chunk.                                                     *)
(***************************************************************************)
\* A section may have light and no blocks; the blocks of one of many states need data.
parseSection(compound) ==
  LET lit == [part \in {"skyLight", "blockLight"} \cap DOMAIN compound |-> compound[part]]
      own == [y |-> Tag(compound, "y", 0)] @@ lit
      states == compound.blockStates
      palette == [i \in DOMAIN states.palette |->
                    State(Tag(states.palette[i], "name", ""), Tag(states.palette[i], "properties", <<>>))]
  IN  CASE "blockStates" \notin DOMAIN compound -> Found(own)
        [] "palette" \notin DOMAIN states -> Damaged
        [] palette = <<>> \/ \E i \in DOMAIN palette : palette[i].name = "" -> Damaged
        [] Len(palette) > 1 /\ "data" \notin DOMAIN states -> Damaged
        [] OTHER -> Found(own @@ [palette |-> palette, data |-> Tag(states, "data", <<>>)])

parseChunk(root) ==
  LET saved == Tag(root, "sections", <<>>)
      sections == [i \in DOMAIN saved |-> parseSection(saved[i])]
  IN  IF \E i \in DOMAIN sections : sections[i] = Damaged THEN Damaged
      ELSE Found([x |-> Tag(root, "xPos", 0), z |-> Tag(root, "zPos", 0),
                  minSectionY |-> Tag(root, "yPos", 0), status |-> Tag(root, "status", ""),
                  heightmaps |-> Tag(root, "heightmaps", <<>>),
                  sections |-> [i \in DOMAIN sections |-> sections[i].v]])

\* A chunk that says it is another one is damage.
ReadChunk(regions, x, z) ==
  LET payload == ReadChunkPayload(regions, x, z)
      chunk == parseChunk(payload.v)
  IN  IF payload.is # "found" THEN payload
      ELSE IF chunk.is = "found" /\ <<chunk.v.x, chunk.v.z>> # <<x, z>> THEN Damaged
      ELSE chunk

\* Newer saves have a spawn in level.dat, older ones its three coordinates.
ReadSpawn(level) ==
  CASE "spawn" \in DOMAIN level -> Found(level.spawn)
    [] "SpawnX" \in DOMAIN level ->
         Found(<<level.SpawnX, Tag(level, "SpawnY", 0), Tag(level, "SpawnZ", 0)>>)
    [] OTHER -> Damaged
===============================================================================
