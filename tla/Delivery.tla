--------------------------------- MODULE Delivery ---------------------------------
(* What a packet that was carried along the versions has to be when it        *)
(* arrives: laid out as its reader reads it, and meaning what was meant.      *)
EXTENDS Translation

CONSTANTS
  Built,        \* what was built in the world: by its place, each finished chunk
  SpawnBlock    \* where players join

Downward == walk.way = "down"
Upward == walk.way = "up"
ChunkPackets == {"LevelChunkWithLight", "LightUpdate", "LevelChunkWithSectionLight"}

\* What the server's decoders read.
Decodes(packet) ==
  CASE packet = "LoginStart" -> DecodeLoginStart
    [] packet = "EncryptionResponse" -> DecodeEncryptionResponse
    [] packet = "Punch" -> DecodePunch
    [] packet = "AcceptTeleportation" -> DecodeAcceptTeleportation
    [] packet = "PlayerCommand" -> DecodePlayerCommand
    [] packet = "PlayerInput" -> DecodePlayerInput
    [] packet = "MovePlayerPosition" -> DecodeMovePlayerPosition
    [] packet = "MovePlayerPositionRotation" -> DecodeMovePlayerPositionRotation
    [] packet = "MovePlayerRotation" -> DecodeMovePlayerRotation
    [] packet = "KeepAlive" -> As("long", <<"id">>)

NothingMisread == walk.end # "misread"
PeerReads ==
  Arrived => IF Downward THEN ClientReads(version, walk.packet, walk.body)
             ELSE Layout(walk.body) = Decodes(walk.packet)

(* Whoever reads a packet finds what it reads. No step of a walk reads a      *)
(* field that is not where the step before it put one: every transformer's    *)
(* layout is the one its neighbour writes, along the whole chain. And what    *)
(* arrives is laid out, to the last field of the last section and list entry, *)
(* the way a client of that version reads it, or the server's decoder does    *)
(* (the walks of registry.go:182-243 over the steps of packets.go).           *)
ReadAsWritten == NothingMisread /\ PeerReads

(***************************************************************************)
(* Meaning.                                                                *)
(***************************************************************************)
\* As many steps around the circle as degrees, to the nearest below or above.
Turned(steps, degrees) == (((steps * 360) \div 256) - degrees) % 360 \in (0 .. 2) \cup (358 .. 359)

\* The registries that a version's own data has, in the form it reads them in.
OwnSet(set) == set <= version /\ ~\E later \in Sets : set < later /\ later <= version

StanceMeant(sent, metadata) ==
  LET flags == (IF sent.sneaking THEN 2 ELSE 0) + (IF sent.sprinting THEN 8 ELSE 0)
      poses == {i \in DOMAIN metadata : metadata[i].index # 0}
  IN  /\ \E i \in DOMAIN metadata : metadata[i] = Entry(0, 0, flags)
      /\ IF version < V1_14 THEN poses = {}
         ELSE /\ Cardinality(poses) = 1
              /\ \A i \in poses :
                   metadata[i] = Entry(6, PoseSerializer(version), IF sent.sneaking THEN 5 ELSE 0)

\* What the client is told only because its version asks.
Untold(name) ==
  CASE name \in {"heldItem", "velocityX", "velocityY", "velocityZ", "deltaX", "deltaY", "deltaZ",
                 "difficulty", "angle"} -> {0}
    [] name = "levelType" -> {"default"}
    [] name \in {"displayName", "profileKey", "dismountVehicle"} -> {FALSE}
    [] name = "strictErrorHandling" -> {TRUE}
    [] name = "spawn" -> {<<0, 0, 0>>}

FieldMeant(packet, sent, f) ==
  CASE f.as = "fixed" -> f.v = sent[f.is] \div 2
    [] f.as = "angle" -> Turned(f.v, sent[f.is])
    [] f.as = "nbt" -> OwnSet(f.v.of) /\ f.v # NoData
    [] f.is = "gameData" -> OwnSet(f.v.of)
    [] f.is = "dimensionType" /\ f.as = "string" ->
         IF version >= V1_19 THEN f.v = overworldDimension ELSE OwnSet(f.v.of) /\ f.v.form = "name"
    [] f.is = "dimension" /\ f.as # "string" -> f.v = 0
    [] f.is = "previousGameMode" -> f.v = IF f.as = "byte" THEN 255 ELSE 0
    [] f.is = "type" -> f.v = PlayerType(version)
    [] f.is = "metadata" ->
         IF packet = "AddEntity" THEN \A i \in DOMAIN f.v : f.v[i] = Entry(0, 0, 0)
         ELSE StanceMeant(sent, f.v)
    [] f.is = "animation" /\ version < V26_3 -> f.v = IF sent.hand = 1 THEN 3 ELSE 0
    [] f.is = "y" /\ packet = "PlayerPosition" /\ version < V1_8 -> f.v = sent.y + 104
    [] f.is = "actions" -> f.v = sent.actions \cap {KnownActions(version)[i] : i \in DOMAIN KnownActions(version)}
    [] f.is = "action" -> f.v = IF packet = "PlayerInfoUpdate" THEN 0 ELSE 4
    [] f.is = "count" -> f.v = Len(sent.entityIds)
    [] f.is \in {"username", "properties"} /\ f.is \notin DOMAIN sent ->
         CASE packet = "PlayerInfoUpdate" -> f.v = sent.entries[1][f.is]
           [] packet = "AddEntity" -> f.v = Accounts[sent.uuid][f.is]
           [] OTHER -> f.v = Accounts[sent.uuids[1]][f.is]
    [] f.is = "entries" ->
         /\ Len(f.v) = Len(sent.entries)
         /\ \A i \in DOMAIN f.v, j \in DOMAIN f.v[1] :
              LET of == f.v[i][j]
              IN  IF of.is \in DOMAIN sent.entries[i] THEN of.v = sent.entries[i][of.is]
                  ELSE of.v \in Untold(of.is)
    [] f.is = "onGround" /\ packet = "PlayerPosition" -> f.v = FALSE
    [] f.is = "online" -> f.v = (packet = "PlayerInfoUpdate")
    [] f.is = "ping" -> f.v = 0
    [] f.is \in DOMAIN sent -> f.v = sent[f.is]
    [] OTHER -> f.v \in Untold(f.is)

\* A client's own keys, where two axes and two flags can say them.
KeysMeant(keys) ==
  IF version >= V1_21_2 THEN keys
  ELSE {key \in keys \ {"sprint"} :
          /\ key \in {"forward", "backward"} => ~{"forward", "backward"} \subseteq keys
          /\ key \in {"left", "right"} => ~{"left", "right"} \subseteq keys}

CommandMeant(command) ==
  CASE command = "start sprinting" -> "sprint"
    [] command = "stop sprinting" -> "walk"
    [] command = "press shift" -> "sneak"
    [] command = "release shift" -> "stand"
    [] OTHER -> "nothing"

HeardMeant(sent, f) ==
  CASE f.is = "action" -> HandlePlayerCommand(f.v) = CommandMeant(sent.command)
    [] f.is = "keys" -> f.v = KeysMeant(sent.keys)
    [] f.is = "uuid" -> f.v = IF sent.uuid = NoOptional \/ version < V1_19_1 THEN 0 ELSE sent.uuid
    [] f.is = "verifyToken" -> f.v = IF sent.signed THEN 0 ELSE sent.verifyToken
    [] walk.packet = "AcceptTeleportation" /\ f.is # "teleportId" ->
         f.v = IF version >= V26_3 THEN sent[f.is] ELSE 0
    [] OTHER -> f.v = sent[f.is]

(* What arrives means what was sent: names, places, stances, hands, modes,    *)
(* registries and entity kinds in the numbers of the client's own version,    *)
(* and a client's commands and keys by what the server's handlers make of     *)
(* them. The 7 that takes a sprint at 1.8 is a shift key at 26.3              *)
(* (minecraft_1_21_6.go:20, minecraft_1_9.go:471, player_command.go).         *)
HeardAsMeant ==
  Arrived /\ walk.packet \notin ChunkPackets =>
    \A i \in DOMAIN walk.body :
      IF Downward THEN FieldMeant(walk.packet, walk.sent, walk.body[i])
      ELSE HeardMeant(walk.sent, walk.body[i])

(***************************************************************************)
(* Numbers.                                                                *)
(***************************************************************************)
\* A client before 1.19.3 has one list packet, which lists and unlists.
ListPackets == {"PlayerInfoUpdate", "PlayerInfoRemove"}

IdsUnambiguous ==
  Idle =>
    /\ \A key \in DOMAIN serverboundIds : serverboundIds[key][version] # -1 =>
         GetServerboundTypes(key[1], version, serverboundIds[key][version]) = {key[2]}
    /\ \A key, other \in DOMAIN clientboundIds :
         /\ key # other /\ key[1] = other[1]
         /\ clientboundIds[key][version] = clientboundIds[other][version]
         /\ clientboundIds[key][version] # -1
         => {key[2], other[2]} = ListPackets /\ version < V1_19_3

GatesAgree ==
  Idle =>
    /\ \A key \in DOMAIN clientboundIds \cup DOMAIN serverboundIds : key[1] = "configuration" =>
         LET ids == (serverboundIds @@ clientboundIds)[key]
         IN  (ids[version] # -1) = HasConfigurationPhase(version)
    /\ (GetClientboundId("login", "SetCompression", version) # -1) = HasCompression(version)
    /\ (GetClientboundId("login", "LoginPluginRequest", version) # -1) = HasLoginPluginMessages(version)
    /\ (serverboundIds[<<"login", "LoginPluginResponse">>][version] # -1) = HasLoginPluginMessages(version)

(* Within a phase no two packets of a version share a number, either way,     *)
(* but for the one list packet of the older clients (the id tables of         *)
(* packets.go:264-790, keyed by phase and version). And a packet that only    *)
(* some versions have is numbered for exactly those that the code asks of:    *)
(* what HasConfigurationPhase, HasCompression and HasLoginPluginMessages      *)
(* (types/protocol_version.go:856-888) let through is never refused for want  *)
(* of a number, and nothing else has one.                                     *)
NumbersAgree == IdsUnambiguous /\ GatesAgree

(***************************************************************************)
(* Refusals.                                                               *)
(***************************************************************************)
OutOfReach(sent) == \E axis \in {"x", "y", "z"} : sent[axis] \div 2 \notin -IntMax - 1 .. IntMax

(* A packet is refused for two reasons only: a client of 1.8 or before cannot *)
(* be told of a place so far out, and one of 1.7.6 or before of a player      *)
(* whose profile is not remembered. Chunks, logins, keep alives and whatever  *)
(* a client sends are never refused: a refusal is an error of the write, and  *)
(* cuts short what the write was one of (sync.go:430-456).                    *)
RefusedForCause ==
  [][walk.end # "refused" /\ walk'.end = "refused" =>
       /\ walk'.way = "down"
       /\ \/ /\ version <= V1_8
             /\ walk'.packet \in {"AddEntity", "EntityPositionSync"}
             /\ OutOfReach(walk'.sent)
          \/ /\ version < V1_8
             /\ \/ walk'.packet = "AddEntity" /\ walk'.sent.uuid \notin DOMAIN profiles
                \/ walk'.packet = "PlayerInfoRemove" /\ walk'.sent.uuids[1] \notin DOMAIN profiles]_vars

(* Whatever the clock says, a keep alive reaches every version, its answer    *)
(* comes back as the id that is waited on, and that id is not the zero that   *)
(* stands for none (run.go:163-181).                                          *)
KeepAliveAnswered ==
  walk.packet = "KeepAlive" =>
    /\ walk.end = "whole"
    /\ walk.sent.id # 0
    /\ Arrived /\ Upward => Of(walk.body, "id") = walk.sent.id

(***************************************************************************)
(* The world.                                                              *)
(***************************************************************************)
Below == sectionsBelowZero
\* A client up to 1.16.4 has neither what is below zero nor the height above.
Cut == version < V1_17
\* The index, or the bit, that the client has for one of the whole world.
ClientIndex(i) == IF Cut THEN i - Below ELSE i
KnownIndex(i, count) == ClientIndex(i) \in UpTo(count)
ClientSections == IF Cut THEN sections1_16_4 ELSE sectionCount
ClientLights == IF Cut THEN lightSections1_16_4 ELSE lightSectionCount

Entries1_16(array, bits, count) ==
  IF version >= V1_16 THEN Unpacked(array, bits, count) ELSE Unspanned(array, bits, count)

\* The numbers of the blocks of a section, as the client's container has them.
ContainerIds(section) ==
  LET bits == Of(section, "bits")
      entries == Entries1_16(Of(section, "longs"), bits, blocksPerSection)
  IN  [k \in 1 .. blocksPerSection |->
         CASE Has(section, "blockCount") /\ Of(section, "blockCount") = 0 -> 0
           [] bits = 0 -> Of(section, "value")
           [] bits \in 1 .. blockIndirectBits -> Of(section, "palette")[entries[k] + 1]
           [] OTHER -> entries[k]]

Rank(mask, i) == Cardinality({j \in mask : j <= i})

\* The numbers of the blocks of the section the client has at that index.
IdsAt(fields, i) ==
  LET masked == Has(fields, "mask")
      rank == IF masked THEN Rank(Of(fields, "mask"), i) ELSE i + 1
      at(k) == (rank - 1) * blocksPerSection + k
      chunk == IF Has(fields, "chunk") THEN Of(fields, "chunk") ELSE <<>>
  IN  IF masked /\ i \notin Of(fields, "mask") THEN [k \in 1 .. blocksPerSection |-> 0]
      ELSE IF version >= V1_9 THEN ContainerIds(Of(fields, "sections")[rank])
      ELSE [k \in 1 .. blocksPerSection |->
              IF version = V1_8 THEN Of(fields, "blocks")[at(k)]
              ELSE Of(chunk, "numbers")[at(k)] * blockVariants + Of(chunk, "variants")[at(k)]]

\* The states of a block that a client of the version knows; and those that say of it
\* what the saved one does, in the words of the version.
Word(value) == CASE version >= V1_16 -> value
                 [] value \in {"low", "tall"} -> "true"
                 [] value = "none" -> "false"
                 [] OTHER -> value
Named(name) == {d \in {known[2] : known \in {k \in Registry[version] : k[1] # Unknown}} : d.block = name}
Alike(state) ==
  {d \in Named(state.name) : \A name \in DOMAIN d.values \cap DOMAIN state.properties :
                             d.values[name] = Word(state.properties[name])}

DrawsAs(id, state) ==
  LET drawn == Drawn(version, id)
      air == \E d \in drawn : d.block = "air"
  IN  IF state.name \in airBlocks \/ Named(state.name) = {} THEN air
      ELSE IF Alike(state) # {} THEN drawn \cap Alike(state) # {}
      ELSE drawn \cap Named(state.name) # {} \/ air

AirState == State("air", <<>>)
BuiltState(built, i, k) ==
  IF i \in DOMAIN built.sections /\ "palette" \in DOMAIN built.sections[i]
    THEN built.sections[i].palette[built.sections[i].blocks[k] + 1] ELSE AirState

\* What was built where the packet on its way says it is.
Place == <<Of(walk.body, "x"), Of(walk.body, "z")>>
Ground == IF walk.sent.void THEN [heights |-> <<>>, sections |-> <<>>] ELSE Built[Place]

\* The places around the one that the spawn is in.
Holds(place, block) == place * chunkWidth <= block /\ block < (place + 1) * chunkWidth
Near(place, block) == \E away \in -chunkRadius .. chunkRadius : Holds(place + away, block)
Around == {place \in DOMAIN Built : Near(place[1], SpawnBlock[1]) /\ Near(place[2], SpawnBlock[3])}
AllAround == Loaded.is = "found" /\ {<<chunk.x, chunk.z>> : chunk \in Loaded.v.chunks} = Around

(* The finished chunks around the spawn are sent, each as the place it is at, *)
(* and every block of them that the client has room for is drawn as it was    *)
(* built: the same block under the client's number, with the values its       *)
(* version has words for; another state of it where its version has not that  *)
(* one; and air only where the version does not know the block (world.go:505, *)
(* blockstates.go:923, region.go:45, and every repacking down to 1.7.6).      *)
BlocksWhereTheyWere ==
  /\ AllAround
  /\ Reached(ChunkPackets) /\ walk.packet # "LightUpdate" =>
       /\ walk.sent.void \/ Place \in Around
       /\ \A i \in UpTo(sectionCount), k \in 1 .. blocksPerSection :
            KnownIndex(i, ClientSections) =>
              DrawsAs(IdsAt(walk.body, ClientIndex(i))[k], BuiltState(Ground, i, k))

BuiltLight(built, bit, part) ==
  IF bit - 1 \in DOMAIN built.sections /\ part \in DOMAIN built.sections[bit - 1]
    THEN built.sections[bit - 1][part] ELSE Dark

\* By the masks of a packet, which leave no section unsaid.
MaskedLightKept(fields, built, part, maskName, emptyName) ==
  LET mask == Of(fields, maskName)
  IN  /\ mask \cup Of(fields, emptyName) = UpTo(ClientLights)
      /\ mask \cap Of(fields, emptyName) = {}
      /\ \A bit \in UpTo(lightSectionCount) : KnownIndex(bit, ClientLights) =>
           BuiltLight(built, bit, part) =
             IF ClientIndex(bit) \in mask THEN Of(fields, part)[Rank(mask, ClientIndex(bit))] ELSE Dark

\* In the sections themselves, of which the client has the light of those it is sent.
SectionLightKept(fields, built, part) ==
  LET mask == Of(fields, "mask")
      held(rank) == IF version >= V1_9 THEN Of(Of(fields, "sections")[rank], part)
                    ELSE IF version = V1_8 THEN Of(fields, part)[rank]
                    ELSE Of(Of(fields, "chunk"), part)[rank]
  IN  \A i \in UpTo(sectionCount) : ClientIndex(i) \in mask =>
        held(Rank(mask, ClientIndex(i))) = BuiltLight(built, i + 1, part)

(* The sky's and the blocks' light of every section reach that section of the *)
(* client, whichever packet carries them and however many bits the world was  *)
(* lowered by (minecraft_1_17.go:319, minecraft_1_14.go:98).                  *)
LightWhereItWas ==
  Reached(ChunkPackets) =>
    CASE walk.packet = "LevelChunkWithSectionLight" ->
           \A part \in {"skyLight", "blockLight"} : SectionLightKept(walk.body, Ground, part)
      [] walk.packet = "LightUpdate" \/ version >= V1_18 ->
           /\ MaskedLightKept(walk.body, Ground, "skyLight", "skyMask", "emptySkyMask")
           /\ MaskedLightKept(walk.body, Ground, "blockLight", "blockMask", "emptyBlockMask")
      [] OTHER -> TRUE

\* A height counts from the client's own floor, and ends at its own sky.
HeightMeant(h) ==
  CASE ~Cut -> h
    [] h <= Below -> 0
    [] h >= Below + worldHeight1_16_4 -> worldHeight1_16_4
    [] OTHER -> h - Below

(* The heights the client is sent are the saved ones, from its floor to its   *)
(* sky, in the packing its version reads (minecraft_1_17.go:272,              *)
(* minecraft_1_16.go:382).                                                    *)
HeightsKept ==
  Reached({"LevelChunkWithLight"}) =>
    LET maps == Of(walk.body, "heightmaps")
        heights == Ground.heights
        kind(k) == IF version >= V1_21_5 THEN k ELSE heightmapNames[k]
    IN  \A k \in DOMAIN heightmapNames :
          /\ (kind(k) \in DOMAIN maps) = (heightmapNames[k] \in DOMAIN heights)
          /\ kind(k) \in DOMAIN maps =>
               Entries1_16(maps[kind(k)], heightmapBits, heightmapEntries) =
                 [i \in 1 .. heightmapEntries |-> HeightMeant(heights[heightmapNames[k]][i])]
===============================================================================
