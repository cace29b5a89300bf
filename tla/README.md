# Verification of go-void-limbo

TLA+ models of the Minecraft limbo server in `src/`, the TLC configurations
that check them on small instances, and proofs of the main results for every
instance. Source paths below are relative to the repository.

## The system

The server accepts connections, takes each through a login that ends in a
world with nothing in it, and keeps it there. Three kinds of goroutine touch a
connection: the one `handleConnection` starts for it, which reads it until it
is in play; the reactor's loop, which reads all joined connections from then
on; and the keep alive sweep. They meet at `Client.mu` (one per connection),
`PlayerSync.mu` (the roster), `Server.clientsMu` and `reactor.queueMu`. No
goroutine holds two of them while it waits.

| Part | State | Operations | What makes it correct |
| --- | --- | --- | --- |
| player synchronization (`client/sync.go`) | the roster; on each connection the record of who it was shown, and its player's pose | join, leave, move, turn, sneak, swing | every client's world holds exactly the players that are there, in the pose they are in, but for what its version cannot be told |
| connection (`client/client.go`, `handlers/`) | phase, version, framing, cipher, outstanding requests, profile | one handler for each packet, `WritePacket` | both ends agree on how to read the next packet; a login is settled by whom the server means to ask |
| read loop and keep alives (`client/run.go`) | the read deadline, the pending keep alive | `Run`, `SendKeepAlive`, `ConfirmKeepAlive` | who stops is found out, who answers is not dropped |
| server (`server/server.go`) | the connections being served, the player count | accept, sweep, disconnect | who ends is forgotten and counted out once |
| reactor and poller (`server/reactor.go`, `poller_*.go`) | the queue, the two maps, a buffer for each connection, the epoll set | take over, serve, close | every byte handled once and in order; a descriptor never stands for a connection it left |
| streams (`streams/`) | the read and write halves, the ciphers | var ints, frames, compression, encryption, takeover | what one end frames the other unframes |
| registry, transformers, packets (`protocol/`, `transformers/`, `packets/`) | tables built at startup; the profile cache all connections share | encode at the latest version and walk down; walk up and decode | every step finds what the step before it left; what arrives is what that version reads, and means what was sent |
| game data, world, anvil, nbt (`gamedata/`, `world/`, `anvil/`, `nbt/`) | built at startup, read only afterwards | read the save, number the blocks, prepare the chunks | a client of any version draws the world as it was saved |
| auth (`auth/`) | none | ask Mojang, check a signature, parse a handshake | see the connection |
| config, main, status, load test | settings; the counter behind a ping | | |

The behaviours that are hard to test are interleavings: two joins and a leave
in the middle of each other, a sweep that fails on a connection in the middle
of its handover, a keep alive in the round trip in which the two ends disagree
about the phase, a wake written while the queue is drained, a descriptor the
kernel gives away again. Next to them stand the walks: a packet goes through up
to fifty steps, none of which can see more than its neighbours' layouts and
none of which finds anything on the wire that says where it is, so that what a
step leaves wrong shows, if at all, in one version out of fifty-two. `hazards` in `PROJECT.json` lists them with the line
where each bites and the properties that would catch it.

## The modules

| Module | Models | Lines of code it stands for |
| --- | --- | --- |
| `PlayerList.tla` | what player synchronization promises: an abstract specification without goroutines, locks or packets | |
| `PlayerSync.tla` | `client/sync.go` | joins, leaves and relays, one action for each critical section |
| `PlayerSyncProofs.tla` | theorems about `PlayerSync`, with proofs | the record and the roster; what clients draw |
| `Connection.tla` | one connection from handshake to end: `client/client.go`, `client/run.go`, `handlers/`, the sweep | a handler is a sequence of steps, each one critical section |
| `ConnectionProofs.tla`, `LoginProofs.tla` | theorems about `Connection`, with proofs | what handlers consist of; that both ends are in step; logins and keep alives |
| `Reactor.tla` | `server/reactor.go`, `server/poller_linux.go`, and the parts of `server/server.go` and `client/run.go` they work with | |
| `ReactorProofs.tla` | theorems about `Reactor`, with proofs | descriptors, custody, data |
| `Streams.tla` | `streams/minecraft.go`, `streams/encryption.go`, the reactor's reads | where bytes sit, and under which cipher |
| `StreamsProofs.tla` | theorems about `Streams`, with proofs | the cipher, the read half, the write half |
| `VarInt.tla` | the var int of `streams/minecraft.go` | functions on bytes |
| `VarIntProofs.tla` | lemmas about `VarInt`, with proofs | induction, recursion, groups and their sums |
| `Frames.tla` | `streams/frame.go`, `streams/compression.go`, the framing in `client/client.go` and `processPending` | extends `VarInt`; what the bytes say |
| `FramesProofs.tla` | theorems about `Frames`, with proofs | frames one behind the other, each end's place among them |
| `Versions.tla` | `types/protocol_version.go` | |
| `PacketIds.tla` | the id tables of `protocol/packets.go` | runs of versions that number a packet alike |
| `Bodies.tla` | the helpers of `transformers/` that read, write and copy | what a body is, and what a step does to one |
| `GameData.tla` | `gamedata/provider.go`, `gamedata/registry.go` | which set of registries and tags a version is sent, in which form |
| `Logins.tla`, `Entities.tla`, `Players.tla`, `Serverbound.tla` | the packets of `packets/` and their steps in `transformers/` | by what they are for |
| `Chunks.tla`, `OldChunks.tla` | the chunk packets and their steps | down to 1.16.4, and from there on |
| `BlockStates.tla` | `gamedata/blockstates.go` | the numbers of blocks, by version |
| `Saves.tla` | `anvil/` | what is read of a saved world |
| `World.tla` | `world/world.go` | what is loaded, and how a chunk is prepared for a version |
| `Registrations.tla` | `registerTransformers` of `protocol/packets.go` | which step carries which packet off which version |
| `Profiles.tla`, `ProfilesProofs.tla` | `ProfileCache1_7_6` of `transformers/minecraft_1_8.go` | with the theorem about it |
| `Clients.tla` | external: what a client of each version reads and sends | |
| `Translation.tla` | `protocol/registry.go`, and what `client/`, `handlers/` and `world/` put into it | the walks |
| `Delivery.tla` | | the properties of the walks |
| `MCPlayerSync.tla`, `MCReactor.tla`, `MCFrames.tla`, `MCTranslation.tla` | instances for TLC | |

An operator whose comment begins `Mutant:` is no part of a specification: it
is the definition below it with a bug one could plausibly write, kept to show
that a property notices.

### PlayerSync

A player is a connection. `roster` is `PlayerSync.players`, `shown[r]` the map
`shownPlayers` of `r`, `pose` the fields under the connection's lock. What a
player does runs in order on the goroutine that reads its connection; `pc` says
where that goroutine is, `todo` what is left of its loop over `others(c)`,
`held` the snapshot it carries. The far ends are in the model because the
promises are about them: `entities[r]`, `listed[r]` and `screen[r]` are what
the packets written to `r` have put in its world.

Each action is one critical section, of `ps.mu` or of one `c.mu`. So
`JoinPlayerSync` is `JoinAdd`, then `JoinOthers`, then for each other player
`JoinVisit` (its snapshot), `JoinShowOther`, `JoinShowSelf`, `JoinRecheck` and,
where the other has gone, `JoinUnghost`. A relay holds the snapshot its move
took.

`writeSyncPackets` ends a batch of packets at its first error, logs it and
leaves the record as it is. There are two such errors. A write to a connection
in `Fragile` may fail, after which nothing more reaches it (`WriteFails`); the
deadline on the write bounds how long that takes, and of its client nothing is
claimed. And a packet may be refused on a connection that lives, because its
version has no way to say it. `OutOfReach` is the first case: 1.8 and before
(`FixedPoint`) place an entity in 32 bits of fixed point, while a move's
coordinates are relayed as they came, so the players in `Wanderers` may stand
where no such client can be told. The second is a profile that was pushed off
the cache: 1.7.6 and before (`ByName`) look one up to spawn a player and to take
it off the list. The cache is in `Profiles`, shared with connections this module
does not have; here the lookup may fail at any time. So `ShowPlayer` may write
the list entry and not the entity, `HidePlayer` take the entity and leave the
list entry, and a relay be lost (`Undelivered`), each with the connection alive
and the record as if nothing had happened. `RelayToKnown` asks the record and
nothing else.

The comments in `client/sync.go` know only the first kind of error: "A write that
fails here is this connection dying". Because of the second kind the entities of
a client of 1.8 may differ from the record for as long as the record stands, and
a relay may be about an entity that client was never sent: that the world ends
up matching the record (`sync.go:127`), and that no relay lands before its player
exists (`sync.go:421`), hold of connections that refuse nothing.
`WorldFollowsRecord` and `RelaysFollowRecord` say so, and what holds of the rest.

Positions and angles are numbered by the move that reported them, since all a
relay can get wrong about one is which it is. A uuid is abstract and two
connections may share it. `onGround` and `SyncGround` are left out: it is one
more field of the position relay. Sprinting is left out as the second flag of
the stance that sneaking is the first of. The move `enterPlay` records before
the join reaches nobody and is the pose a player starts in.

### Connection

The variables are the fields of `Client`, the handler in progress (`steps`),
and the peer: which phase it is in, how it frames and enciphers, and the two
directions of the wire. Every packet carries the phase, framing and cipher it
was written under, so that "the other end understands it" is a predicate.

A handler sets what it sets under its first lock and leaves the rest as
`steps`, of which one is taken at a time: a write, the announcement of
compression (which switches the framing in the same step, as
`EnableCompression` does under one lock), a change of phase, the wait for the
session server. Between two steps the sweep may run. A step that fails ends
the handler, whose error the read loop logs.

The end of a connection is three steps. `EndOfRun` is the loop's end and
`LeavePlay`'s first critical section, which counts a player out by its phase;
`LeaveRoster` is what `LeavePlay` does after it, off the lock; `Close` is the
deferred `removeClient` and `Close` behind it. In between the count is down and
the player still on the roster, and the sweep may still reach the connection.
The reactor's `drop` closes first (`ClosedFirst`).

Versions are the classes that the four predicates of `types/protocol_version.go`
tell apart. Runs of packets that nothing comes between in kind -- the
registries, the chunks -- are one write. The peer is a conforming client or
proxy, with or without the server's secret, that may stop or close at any
time; it is external, as are its answers.

A write blocks while `Window` packets are unread. Nothing in `writePacket`
bounds that wait, and the lock is held throughout, so `Sweep` skips the
connection meanwhile, as its `TryLock` does.

### Reactor

The bytes a peer sends are numbered units, two of which make a frame, so that
a read can end within one. `buffer` is what the goroutine's reader has read
ahead, which `take` turns into the `residue` of a command, which `register`
turns into `pending`. The kernel is in the model where the reactor rests on
it: descriptors are numbers given out again after a close, an edge is reported
once, arming a descriptor with bytes waiting raises its edge, a close removes
a descriptor from the set but not an event already reported. `wakes` are those
between the append and the write to the pipe, which `enqueue` does not do
atomically; `LoopWaits`, `LoopDrainsWake` and `LoopSwaps` are the three steps
whose order decides whether a wake can be lost.

One `wait` reports everything there is; with more than 128 ready descriptors
the real one reports the rest on the next turn. What a keep alive does is in
`Connection`; here the sweep fails on whichever connections of its snapshot it
likes, at most `MaxAsks` times each.

### Streams

`sent` and `taken` count the client's bytes into and out of the socket.
`reader`, `preEncrypted`, `decrypter` and `encrypted` are the fields of
`MinecraftStream`; `want` is what an `io.ReadFull` is still short of; `read`
is everything handed up, by the stream and, after `TakeoverRead`, by the
reactor. A byte carries the key stream it is under, which is the register that
made it: a cipher in step takes it off, one that is not makes noise. So the
feedback of `cfb8` is modelled as it is, with a register of `BlockSize` bytes,
and with it that a decrypter regains its place after a block. Reads follow
`bufio.Reader`: out of its buffer, else one read under it, past the buffer
when the room is large enough. What the client may send, and when, is nothing
the server decides: the byte after the encryption response may arrive with it.
A refusal or a failing flush in `EnableEncryption` changes nothing, which is a
stutter. `preEncrypted` is never taken in part by a reader of the same size,
as in the code, so `TakeoverRead` finds it whole or empty.

### VarInt and Frames

A var int is modelled with the widths as parameters, because the model checker
has 32 bit integers and seven bit groups make trees of lengths too wide to
check. What matters stays: the width is no multiple of the group, so the last
group has bits that are shifted away, and a body's length passes from one byte
to two. `readVarInt` is two functions of the bytes read so far, what they come
to and what is returned, where the code has one loop with two variables.

`Frames` has both directions of one connection. The server's writes go out as
bytes, the client reads them by the protocol, and the other way round; `wrote`
and `got`, `said` and `heard` are what each end meant and what the other made
of it. A deflated body stands between a header and a checksum, which is what
`Decompress` looks at. The client frames well or in one of the ways the tests
send; it says nothing between its hello and its login's success, which is the
order `Connection` establishes, and what it reads as an announcement it takes
for one only until then. `ReadPacket` finds frames until `register` hands what
is left to `processPending`, `n` bytes of which the read loop had buffered.

Bodies and thresholds are parameters. `FitsAssumption` says that a body, however
it is framed, keeps to the limit of whoever may read it: what the server writes
in play to the protocol's 2 MiB, what the client says to the 32 KiB the server
reads before play, since it may be read before (`client/client.go:37`). A body
that does not is refused as a frame without a valid length, of which the empty
frame stands here for all. `AnnouncedAssumption` asks the same of the packet
that announces a threshold, and that a threshold is an int32, as the var int
that carries it is.

### Translation

A body is a sequence of fields. Of each the wire has only its bytes, in the
form `as` (a var int, a short, a list); what it means, `is`, is nowhere in them
and is known to the model alone. A step of `transformers/` is a function from a
body to a body that says, for every field it reads, the form it reads it in and
what it takes it for. If another field is there the outcome is `misread`,
whatever the code would go on to make of the bytes. Steps that copy the rest,
drop it, or refuse one (`copyRest`, `refuseRest`) do so in the model
(`WriteThen`, `WriteOnly`, `WriteAll`), and a condition under which the code
returns an error is `refused`. Steps are named as in the code; fields are named
for the newest version that has them.

`Registrations` composes them as `registerTransformers` does, and a
`DowngradeStep` or `UpgradeStep` of `Translation` is one turn of the loop of
`DowngradeBody` or `UpgradeBody`: one version, with the step registered for it,
if any. A connection has one packet on its way at a time, `walk`, as its
handlers and relays write one after the other. `Say...` are the server's
packets, with the values `handlers/`, `client/` and `world/` give them;
`Tell...` are the client's, laid out as its version lays them out. `Answer`
turns a keep alive that arrived around.

`Clients` is not the inverse of the steps but a second account of what each
version reads and sends, written from what a client reads, era by era; it is
external. For a few values it also says what they mean there: the numbers of
entity kinds, of metadata, and, by version, the states of blocks that a number
draws.

The profile cache is the one thing a walk leaves behind. A listing for a 1.7.6
client puts its player there in the middle of a walk; other connections'
listings do so at any time (`OthersListed`), between any two steps.

`Saves` reads a directory: region files with their tables and headers, chunks
as trees of named tags. `Load` takes the chunks around the spawn and refuses
what the code refuses. `World` builds a chunk for a version and `prepare` picks
the packets that carry it; `OldChunks` then takes it as far as 1.7.6, where
entries are packed over again, light moves into the sections and palettes go.
Sizes are scaled down and keep what is hard about them: a section below zero
that the older versions have no room for and one above their sky; entries of
three bits in longs of eight, which divide it no more than five do 64; one bit
width that is sent with a palette and one that is not; regions of two by two
chunks, on both sides of zero.

## The runs

| Run | Instance | Shows |
| --- | --- | --- |
| `sync_list` | three players, no moves | `NoGhosts`, `MutualSight`, and that `PlayerSync` implements `PlayerList`, safety and liveness. Three is the smallest number at which a join, a join and a leave overlap pairwise |
| `sync_move` | two players, two moves each: one of 1.7, to whom both kinds of packet may be refused; the other of a later version, wandering and fragile | `TypeOK`, `PositionPutRight`, `WorldFollowsRecord`, `NeverBackwards`, `RelaysFollowRecord`. A relay concerns one mover and one recipient; the second move is what could overtake the first, and what may come back from where the first could not be told |
| `sync_put_right` | two players | **violated**, see below |
| `sync_reconnect` | three players, two of one profile | **violated**, see below |
| `connection_safe` | every configuration, version class and peer; a window of three | `TypeOK`, `BothUnderstand`, `SettledByWhomItAsks`, `EndsUncounted`, `AnswersMatch`. The keep alive may time out at any moment and writes may block |
| `connection_live` | the same, with a window no login fills | `LoginsArrive`, `StoppedPeersEnd` |
| `connection_stall` | the same, with a window of three | **violated**, see below |
| `reactor_safe` | two connections, two descriptors; three frames and one, the last of the three garbled; reads of three units | `TypeOK`, `DescriptorsHonest`, `HandledInOrder`, `CountedOutOnce`. Either connection may be numbered as the other was; three units cut a frame in two; the second frame behind the handover is what a unit lost or doubled would show up in |
| `reactor_live` | one connection, with or without a descriptor, three frames, two failing sweeps | `FramesServed`, `EndsAreSeen`: the queue can hold the takeover and two closes at once, around one wake; without a descriptor the reactor declines, and the goroutine serves it to the end |
| `streams` | seven bytes in, four out, buffers of three, registers of two, reads of two by the reactor; the cipher on from the first byte, after the third, or never | `TypeOK`, `DeliveredInOrder`, `NoByteStranded`, `WrittenAsMeant`, `EverythingRead`. Four bytes under the cipher outrun a buffer, a register and a read of the reactor |
| `frames` | bodies of one to three bytes, and one of four that there is room for only in play; thresholds of zero and two, lengths of one byte up to three; three frames in, two packets out; var ints of five bits in groups of two | `VarIntsReadBack`, for every value in front of whatever is on the wire and on every string of up to four bytes, one more than a var int has, `BothWaysAsMeant`, `DroppedForCause`, `NoFrameWaits`. A body lies below, at and above the threshold; the longest frame is exactly at the limit and its length takes two bytes |
| `translation` | all 52 versions, and three numbers that are none; two players; a cache of two; ints of three bits; a place within the reach of 1.8's coordinates and one beyond; keep alives at five times around the wrap of an id; a save of four finished chunks and one unfinished | `ReadAsWritten`, `HeardAsMeant`, `NumbersAgree`, `KeepAliveAnswered`, `Known`, `BlocksWhereTheyWere`, `LightWhereItWas`, `HeightsKept`, `RefusedForCause`. Layouts do not depend on values but for what is optional or of several shapes, and both sides of every such choice are sent: a player with a profile key and one without, a signed challenge and a plain one, gamemodes, stances, keys on opposite axes. The chunks are `Hills` (light beyond the world, air of two kinds, blocks with older names), `Town` (more states in a section than a palette is sent for, walls with values older versions spell otherwise) and `Hole` (sections of one block or none, and a block no version knows). Two players and a cache of two are enough for a listing to push one off while it is still listed, and for one that is listed twice |

`MCTranslation` also assumes, which TLC evaluates, that none of eleven saves
with one thing wrong is loaded, and that an older spelling of the spawn and a
damaged section out of the world's bounds are.

### What the violated runs show

- `sync_put_right`. The comment on `relayToKnown` says a dropped relay is put
  right by the next move. A position is; a stance is not, nor a head turn if
  the next move does not turn: between the snapshot a join takes of another
  player and the spawn it writes from it, that player sneaks, the relay is
  dropped because it is not known there yet, and the newcomer sees it standing
  until it changes stance again.
- `sync_reconnect`. `showPlayer` writes the list entry first, because an entity
  whose uuid has no entry is refused. But the record is kept by entity id and
  the list by uuid. Two connections of one profile -- a client that reconnects
  before its first connection has timed out; nothing refuses the second -- share
  an entry on the list of a third that was shown both. The first leaves,
  `hidePlayer` takes the entry, and the third still shows the second player,
  which it no longer lists.
- `connection_stall`. A peer that stops reading while a handler is writing to
  it, as in the chunks of a join, holds the write, which holds the lock, which
  the sweep only tries. The read deadline is never looked at, because nothing
  reads. The connection lasts until the operating system gives it up.
  `StoppedPeersEnd` holds when writes do not block (`connection_live`).

### Fairness

`sync_list` assumes that each goroutine goes on once it is in the middle of a
join, a relay or a leave: every write in it is bounded by `syncWriteTimeout`,
and nothing is waited for with a second lock held. It does not assume that
anybody joins, moves or leaves.

`connection_live` assumes that the reading goroutine runs and that the session
server answers or times out (`auth/session.go` gives it ten seconds), that the
sweep's ticker ticks, that a connection that is over ends its loop, leaves the
roster and closes, and that a
peer that has neither stopped nor closed reads what it is sent and answers
before the sweep returns (`Prompt`). It does not assume that a peer goes on.
`connection_safe` assumes none of this: a keep alive may go unanswered for
long, and the window may fill.

`streams` assumes that the loops that read go on reading, that a read
returns once there is something, that the handler of an encryption response
enables encryption, and that the client sends all it has. It does not assume
that the reactor takes over.

`reactor_live` assumes that the goroutines run on: each connection's, the
loop, and the sweep's between an append and its wake. It does not assume that
a sweep begins, or that a peer sends or closes.

All runs but `translation` turn the deadlock check off: a server all of whose
peers have left has nothing to do. `translation` states no fairness; the
deadlock check shows that no walk gets stuck on its way.

## What is proved

In `PlayerSyncProofs`, for any set of players, any number of moves, any set of
connections that may die, any of old versions and any players that wander:

- `TypeCorrect`: `TypeOK` is invariant.
- `SyncInvariant`: `SyncInv` is invariant. It is what the next two need and do
  not say. Neither is inductive as it stands: that nobody sees a ghost depends
  on a join in progress still having the recheck of that player ahead of it,
  or a leave still having that recipient in `todo`. `SyncInv` says where a
  goroutine must be for every pair in which the record and the roster
  disagree, and which of the pair must have visited the other.
- `NoGhostsAlways` and `MutualSightAlways`: read off `SyncInv` and `TypeOK`.
- `WorldFollowsRecordAlways`: under `DistinctUuids`, that no two connections
  share a profile, which `sync_reconnect` shows is needed. It is what refused
  packets leave of the comment's promise: a client alive has
  no entity its record lacks, and a list entry for everybody in it; it has the
  entity as well wherever the spawn cannot be refused (`Unrefused`), and a list
  without strangers unless its version asks for names. It goes by
  `EntitiesRecorded` and `ListRecorded`, one for each of the two, and `StaysNear`:
  a player that does not wander is never out of reach, nor spawned from a
  snapshot that is.
- `ImplementsList`: `Spec => ImplementsListSafety`. Every step of the code is a
  step of `PlayerList` or a stutter, under the refinement mapping `Stay`; the
  proof uses `SyncInv` for the guards of `Settle` and `Depart`.

The proofs rest on the five assumptions declared in `PlayerSync` and, where
said, on `DistinctUuids`. `ShowType`, `HideType`, `GotoType`, `RecordType`,
`LookType`, `ShowEntities`, `HideEntities`, `ShowLists`, `HideLists`,
`ShowRecord` and `HideRecord` are the lemmas on the operators the actions are
built from.

In the second half of `PlayerSyncProofs`, on top of that and for as many moves:

- `RelaysFollowRecordAlways`, `NeverBackwardsAlways` and
  `PositionPutRightAlways`, refused relays included. A relay writes a snapshot taken before, a spawn one
  taken before that, so that what is drawn is right depends on who still has
  what in hand. `MovesInv` adds to `SyncInv` how old a snapshot may be
  (`Snapshots`: a relay's is its player's pose, for its goroutine alone moves
  it; a join's may be behind), that no screen is ahead of its player
  (`ScreensBehind`), what entities a client still reached has
  (`EntitiesRecorded`), and that a screen behind its player has the relay on its
  way or cannot be told (`PuttingRight`).

In `ReactorProofs`, for any number of connections and descriptors, with any of
them garbled or closed, and for reads of any size:

- `DescriptorsHonestAlways` and `TypeCorrect`, from `SocketInv`: no two
  connections have one descriptor, a descriptor's goroutine has let go of what
  is on its way to the loop or held by it, and the maps agree with the kernel.
  The types go with it since what is ready must be armed, and it is the loop
  that closes what is.
- `HandledInOrderAlways` and `CountedOutOnceAlways`, from `CustodyInv`. A
  connection that counts is in one pair of hands: its goroutine's, a takeover's
  in the queue or among the commands already swapped out (`Backlog` is the two
  as one), the maps', or the loop's own while it serves or drops it
  (`Custodian`). Whoever has it also has exactly the bytes that were read and
  not handled (`NothingLost`), which is why none is handled twice or skipped.

In `ConnectionProofs` and `LoginProofs`, for every window:

- `TypeCorrect`, `EndsUncountedAlways` and `BothUnderstandAlways`, from
  `LockstepInv`. It rests on every handler being a program: what it does fits
  the phase it is taken in, it changes the phase once, and it asks with the last
  thing it does; and that what is left of a program is one. So
  what drives a login is alone on its way (`ToServerInv`, `ToPeerInv`), and
  while it is, each end can be said to be where the other thinks, but for what
  is still in the queues (`PeerInv`, `NextInv`): it is behind the packet that
  announces compression, or ahead by the one that acknowledges the login.
- `AnswersMatchAlways`, from `KeepAliveInv`: there is at most one keep alive,
  in one direction, and it is the one that is waited for. This is of queues
  longer than the runs' window of three, and through the sweep's asking in
  between.
- `SettledByWhomItAsksAlways`, from `SettledInv`. `Settler` is the one party
  whose word may settle the login, for each configuration, version and peer; the
  profile of a connection past the login is that party's. Who may be asked is
  known from the handshake on, and a server only encrypts where no proxy can
  speak for its player (`VouchInv`, `NoProxy`); the step that settles the profile is the
  first of its handler (`SettlingInv`), so that a change of phase or a login
  success behind it, and the acknowledgement that comes back for it, are on
  the strength of a profile that is settled (`ProfileInv`).

In `StreamsProofs`, for streams of every length, buffers, reads and registers
of every size, and the client's cipher on from anywhere:

- `TypeCorrect`, `DeliveredInOrderAlways`, `NoByteStrandedAlways` and
  `WrittenAsMeantAlways`, from `StreamsInv`. What was taken off the socket is in
  three places that follow each other (`InPlace`); the decrypter is not where
  the reader is but where the socket is (`DecrypterInStep`), so that what
  `EnableEncryption` deciphers of the reader's buffer and what the same cipher
  makes of the socket later fit together; the same for the writer and the
  encrypter (`Unflushed`, `EncrypterInStep`).
- Under them, `RunThrough`: a cipher in step turns a run of bytes, however
  long, from the clear onto the wire or back, and is then in step with what
  comes next. `XORKeyStream` is a recursive function, and this is an induction:
  `SetInduction` derives it, for a set of numbers, from the first-order
  minimum principle of well-founded relations (`WFMin`).

In `VarIntProofs` and `FramesProofs`, for groups and values of any width, any
bodies and thresholds that the assumptions of `Frames` admit, and reads of any
size:

- `VarIntsRead`: `VarIntsReadBack` is invariant. What `AppendVarInt` writes and
  what `readVarInt` reads are both compared with what the groups of the bytes
  add up to (`Sums`): written groups are followed by one that ends them, and
  their sum is the value (`AppendVarIntEnds`); read bytes come to their sum cut
  to the width (`ReadsAnEnd`), or end in no value (`ReadsNoEnd`). All three are
  recursive functions, of which the provers know nothing but that they are
  chosen; `Recursion` shows, from `SetInduction`, that a function of numbers
  with such an equation exists, and each module's facts start from there.
- `NoneWaits`: `NoFrameWaits` is invariant. It is part of the types: what
  `processPending` leaves of any bytes is the head of a frame
  (`processPendingType`).
- `GivenUpForCause` and `MeantBothWays`, from `FramesInv`: `DroppedForCause` and
  `BothWaysAsMeant`. Neither end sees where the frames are that it is sent; what
  it goes by is the bytes. `Ahead` says that the bytes an end has and those that
  are to come are, together, the frames behind the first `k`, one behind the
  other. It does not depend on where the bytes are cut (`AheadAs`), it stays so
  when a frame is written behind the others (`AheadBehind`), and what is found
  in front of such bytes is the next frame or a part of it, and nothing else
  (`AheadIs`). So `processPending`, itself a recursion over the buffer, gets from
  one `k` to another and hears what is between (`processPendingReaches`).
  `Coming` and `Hearing` are `Ahead` for the two directions. They need to know
  which threshold each frame was written for: `Announced` says that the first
  packet of the server is the announcement, if there is one, `Understood` that
  the client knows the threshold from the announcement on, and `Saying` that it
  says nothing between its hello and that.

In `ProfilesProofs`, for any capacity, any players and any order of listings:

- `CacheKnown`: `CacheSpec => []Known`. What is remembered is exactly what the
  ring names, and the ring never outgrows the capacity. `Known` needs only the
  types of the two variables beside it to be inductive (`CacheInv`); the case
  that takes work is a ring that forgets its front, which by `OnTail` names what
  it named but for that uuid, and still names it if it is on the ring again.
  `Translation` takes no other step on the cache than `put`.

The proofs rest on the assumptions their modules declare about the constants.
Those of `Reactor` say, besides that its sets of connections are ones and its
bounds numbers, that `Nobody` is no connection and `NoFd` no descriptor: they
stand for a map without an entry and a socket that is closed. Those of `Streams` are that the sizes are
positive and that the cipher goes on within the stream; that of `Connection`,
that the window has room for a packet; those of `VarInt`, that the widths are
positive; those of `Frames` are described above.

`SyncInv`, `MovesInv`, `SocketInv`, `CustodyInv`, `LockstepInv`, `SettledInv`,
`KeepAliveInv`, `StreamsInv` and the parts of `FramesInv` that are not about
`Ahead` held in TLC on the runs' instances before they were proved.

Only model-checked are the properties of `Delivery` but `Known`, and all
liveness, which is out of the prover's reach. What the walks of `Translation`
leave of a packet is a matter of the fifty versions one by one, and of nothing
that grows: `translation` takes every one of them.

## What is not modelled

`PROJECT.json` lists every part with the reason. In short: the bytes of the
trees in `nbt/`, what the entries of a registry hold, the cryptography and HTTP
of `auth`, reading of configuration, and logging. The block states are a few of
the thousand blocks, chosen for what the code does to them: renamed, with
renamed or dropped properties, numbered by a block's id, or unknown. Packets of
status, plugin messages and disconnects are payloads of `Connection`. A poller that fails, a platform without
one beyond the connection without a descriptor in `reactor_live`, and a peer that breaks the protocol
are not modelled either.

## Plan

In this order, the first being the most important:

1. An abstract specification of serving a connection that `Reactor` implements,
   and the composition of `Connection`'s end with `Reactor`'s.
2. The range of a keep alive's id for every clock, as a theorem, and that
   `Translation` implements `CacheSpec`.
3. The address a proxy writes into a handshake (`auth/forwarding.go`), `nbt`
   trees, and `SyncGround` in `PlayerSync`.
