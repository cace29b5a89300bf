----------------------------- MODULE ReactorProofs -----------------------------
(* What holds of the reactor however many connections, descriptors and frames *)
(* there are: its types, that the loop's maps name the connection that has    *)
(* the descriptor, that a connection is counted out once, and that what is    *)
(* handled is what was sent.                                                  *)
EXTENDS Reactor, SequenceTheorems, TLAPS

-------------------------------------------------------------------------------
(* The inductive invariants.                                                  *)

\* What the loop has yet to do, in the order it will: the commands it swapped
\* out, and behind them the queue.
Backlog == commands \o queue
Takes(c, i) == Backlog[i].take /\ Backlog[i].client = c

\* A connection the reactor was given, which its goroutine leaves alone.
HandedOver(c) == run[c] \in {"waking", "over"}

\* No two connections have one descriptor, and one that is open has its own
\* unless its goroutine serves it to the end.
OwnDescriptors ==
  /\ \A c, d \in Clients : fd[c] = fd[d] /\ fd[c] # NoFd => c = d
  /\ \A c \in Clients : open[c] => fd[c] \in Fds \/ run[c] = "alone"

\* Only what was handed over is on its way to the loop, or held by it.
OnlyHandedOver ==
  /\ \A i \in 1..Len(Backlog) : Backlog[i].take => HandedOver(Backlog[i].client)
  /\ \A c \in held : HandedOver(c)

SweepBounded == \A c \in sweeping : asks[c] < MaxAsks

SocketInv == /\ TypeOK /\ SweepBounded /\ OwnDescriptors /\ OnlyHandedOver
             /\ DescriptorsHonest

\* A connection that counts is in one pair of hands: its goroutine's, those of a
\* takeover on its way, the maps' of the loop, or the loop's own.
Custodian(c) ==
  /\ \A i, j \in 1..Len(Backlog) : Takes(c, i) /\ Takes(c, j) => i = j
  /\ \A i \in 1..Len(Backlog) : Takes(c, i) =>
       c \notin held /\ loop.client # c /\ c \in clients /\ online[c] = 1
  /\ c \in held => c \in clients /\ online[c] = 1
  /\ loop.client = c => /\ HandedOver(c) /\ online[c] = 1
                        /\ loop.step \in {"process", "read"} => c \in held
                        /\ loop.step = "leave" => c \notin held
  /\ HandedOver(c) /\ online[c] = 1 =>
       \/ \E i \in 1..Len(Backlog) : Takes(c, i)
       \/ c \in held
       \/ loop.client = c
  /\ run[c] \in {"reading", "alone", "offering"} => c \in clients

OneCustodian == \A c \in Clients : Custodian(c)

\* It counts from its arrival in play, and its goroutine does not end that but
\* by ending the connection.
CountsInPlay ==
  \A c \in Clients :
    /\ online[c] \in {0, 1}
    /\ online[c] = 1 => phase[c] = "play"
    /\ run[c] = "offering" => phase[c] = "play"
    /\ ~HandedOver(c) /\ phase[c] = "play" => online[c] = 1

\* These units are all that comes after the first n of m, in order.
Rest(n, units, m) ==
  /\ n + Len(units) = m
  /\ \A i \in 1..Len(units) : units[i] = n + i

\* What was read and not handled is wherever the connection is.
NothingLost(c) ==
  /\ ~HandedOver(c) => Rest(Len(handled[c]), buffer[c], fetched[c])
  /\ \A i \in 1..Len(Backlog) :
       Takes(c, i) => Rest(Len(handled[c]), Backlog[i].residue, fetched[c])
  /\ c \in held => Rest(Len(handled[c]), pending[c], fetched[c])

NothingLostAnywhere == \A c \in Clients : NothingLost(c)

\* These units are the first there are, and whole frames of them.
Even(n) == n % 2 = 0
WholeAndInOrder(units) == (\A i \in 1..Len(units) : units[i] = i) /\ Even(Len(units))

CustodyInv == OneCustodian /\ CountsInPlay /\ NothingLostAnywhere /\ HandledInOrder

-------------------------------------------------------------------------------
(* Types                                                                      *)

\* The type invariant, by whose state it is.
KernelType ==
  /\ sent \in [Clients -> Nat] /\ fetched \in [Clients -> Nat]
  /\ \A c \in Clients : fetched[c] <= sent[c] /\ sent[c] <= Last(c)
  /\ peerDone \in [Clients -> BOOLEAN] /\ open \in [Clients -> BOOLEAN]
  /\ fd \in [Clients -> Fds \cup {NoFd}] /\ armed \subseteq Fds /\ ready \subseteq armed
  /\ pipe \in BOOLEAN
ServerType ==
  /\ run \in [Clients -> {"away", "reading", "alone", "offering", "waking", "over"}]
  /\ phase \in [Clients -> {"login", "play"}] /\ online \in [Clients -> Int]
  /\ buffer \in [Clients -> Seq(Nat)] /\ handled \in [Clients -> Seq(Nat)]
  /\ clients \subseteq Clients
SweepType == sweeping \subseteq Clients /\ asks \in [Clients -> 0..MaxAsks]
ReactorType ==
  /\ pending \in [Clients -> Seq(Nat)] /\ held \subseteq Clients
  /\ queue \in Seq(Commands) /\ commands \in Seq(Commands)
  /\ byFd \in [Fds -> Clients \cup {Nobody}] /\ wakes \subseteq Clients \cup {Nobody}
  /\ loop \in [step : {"process", "read", "drop", "leave"}, client : Clients]
             \cup [step : {"drain", "serve"}, client : {Nobody}]
  /\ events \subseteq Fds \cup {"wake"}

\* The parts are the whole.
LEMMA TypeParts ==
  /\ TypeOK <=> KernelType /\ ServerType /\ SweepType /\ ReactorType
  /\ TypeOK' <=> KernelType' /\ ServerType' /\ SweepType' /\ ReactorType'
<1>1. TypeOK <=> KernelType /\ ServerType /\ SweepType /\ ReactorType
  BY DEF TypeOK, KernelType, ServerType, SweepType, ReactorType
<1>2. TypeOK' <=> KernelType' /\ ServerType' /\ SweepType' /\ ReactorType'
  BY DEF TypeOK, KernelType, ServerType, SweepType, ReactorType
<1>. QED BY <1>1, <1>2

\* What is appended to the queue is behind all of the backlog.
LEMMA BacklogAppend ==
  ASSUME ReactorType, NEW m \in Commands, queue' = Append(queue, m), UNCHANGED commands
  PROVE  /\ Len(Backlog) \in Nat /\ Len(Backlog') = Len(Backlog) + 1
         /\ \A i \in 1..Len(Backlog) : Backlog'[i] = Backlog[i]
         /\ Backlog'[Len(Backlog) + 1] = m
  BY DEF ReactorType, Backlog

\* The command the loop takes is the front of the backlog.
LEMMA BacklogTail ==
  ASSUME ReactorType, commands # <<>>, commands' = Tail(commands), UNCHANGED queue
  PROVE  /\ Len(Backlog) \in Nat \ {0} /\ Len(Backlog') = Len(Backlog) - 1
         /\ \A i \in 1..Len(Backlog') : Backlog'[i] = Backlog[i + 1]
         /\ Backlog[1] = Head(commands) /\ Head(commands) \in Commands
  BY DEF ReactorType, Backlog

\* Swapping the queue out leaves the backlog what it was.
LEMMA BacklogSwap ==
  ASSUME ReactorType, LoopSwaps
  PROVE  Backlog' = Backlog
  BY DEF ReactorType, Backlog, LoopSwaps, Idle

\* The backlog is a sequence of commands.
LEMMA BacklogType ==
  ASSUME ReactorType
  PROVE  /\ Backlog \in Seq(Commands) /\ Len(Backlog) \in Nat
         /\ \A i \in 1..Len(Backlog) : Backlog[i] \in Commands
  BY DEF ReactorType, Backlog

\* A read takes something, and no more than there is.
LEMMA ReadBounds ==
  ASSUME KernelType, NEW c \in Clients, Unread(c) > 0
  PROVE  /\ ReadLength(c) \in Nat \ {0}
         /\ fetched[c] + ReadLength(c) <= sent[c]
  BY BoundsAssumption DEF KernelType, ReadLength, Unread

\* What the kernel has stays of its type.
LEMMA KernelStep ==
  ASSUME KernelType, ServerType, ReactorType, OwnDescriptors, OnlyHandedOver, Next
  PROVE  KernelType'
<1> USE DEF KernelType
<1>1. ASSUME NEW c \in Clients, PeerSends(c) PROVE KernelType'
  <2>1. \A d \in Clients : Last(d) \in Nat
    BY BoundsAssumption DEF Last
  <2> QED BY <1>1, <2>1 DEF PeerSends, Edge
<1>2. ASSUME NEW c \in Clients, PeerCloses(c) PROVE KernelType'
  BY <1>2 DEF PeerCloses, Edge
<1>3. ASSUME NEW c \in Clients, Accept(c) PROVE KernelType'
  BY <1>3 DEF Accept
<1>4. ASSUME NEW c \in Clients, RunReads(c) PROVE KernelType'
  BY <1>4, ReadBounds DEF RunReads
<1>5. ASSUME NEW c \in Clients, RunEnds(c) PROVE KernelType'
  BY <1>5 DEF RunEnds, Closed
<1>6. ASSUME NEW c \in Clients, RunWakes(c) PROVE KernelType'
  BY <1>6 DEF RunWakes
<1>7. CASE SweepWakes
  BY <1>7 DEF SweepWakes
<1>8. CASE LoopWaits
  BY <1>8 DEF LoopWaits
<1>9. CASE LoopDrainsWake
  BY <1>9 DEF LoopDrainsWake
<1>10. CASE LoopCloses
  BY <1>10 DEF LoopCloses, Closed
<1>11. CASE LoopRegisters
  <2> DEFINE c == Head(commands).client
  <2>1. c \in Clients /\ 1 \in 1..Len(Backlog) /\ Backlog[1].take /\ Backlog[1].client = c
    BY <1>11, BacklogTail DEF LoopRegisters, Commands
  <2>2. open[c] => fd[c] \in Fds
    BY <2>1 DEF OwnDescriptors, OnlyHandedOver, HandedOver
  <2> QED BY <1>11, <2>1, <2>2 DEF LoopRegisters
<1>12. ASSUME NEW c \in Clients, LoopReads(c) PROVE KernelType'
  <2>1. CASE Unread(c) > 0
    <3>1. /\ fetched' = [fetched EXCEPT ![c] = @ + ReadLength(c)]
          /\ UNCHANGED <<sent, peerDone, open, fd, armed, ready, pipe>>
      BY <1>12, <2>1 DEF LoopReads
    <3> QED BY <2>1, <3>1, ReadBounds
  <2>2. CASE ~(Unread(c) > 0)
    BY <1>12, <2>2 DEF LoopReads
  <2> QED BY <2>1, <2>2
<1>13. ASSUME NEW c \in Clients, LoopDrops(c) PROVE KernelType'
  BY <1>13 DEF LoopDrops, Closed
<1>14. (\E c \in Clients : RunHandles(c) \/ RunOffers(c) \/ SweepFails(c)
          \/ LoopProcesses(c) \/ LoopLeaves(c)) \/ SweepBegins \/ LoopSwaps
          \/ (\E f \in Fds : LoopServes(f)) => KernelType'
  BY DEF RunHandles, RunOffers, SweepFails, LoopProcesses, LoopLeaves, SweepBegins,
         LoopSwaps, LoopServes, kernel
<1> QED
  BY <1>1, <1>2, <1>3, <1>4, <1>5, <1>6, <1>7, <1>8, <1>9, <1>10, <1>11, <1>12, <1>13, <1>14
     DEF Next, Peer, Run, Sweep, Loop

\* What one read takes is a piece of the stream.
LEMMA ChunkType ==
  ASSUME KernelType, NEW c \in Clients, NEW n \in Nat
  PROVE  /\ Chunk(c, n) \in Seq(Nat) /\ Len(Chunk(c, n)) = n
         /\ \A i \in 1..n : Chunk(c, n)[i] = fetched[c] + i
  BY DEF KernelType, Chunk

\* The whole frames at the front of a buffer are no more than it, and an even
\* number of units, whatever is wrong with a length among them.
LEMMA WholeBounds ==
  ASSUME NEW c \in Clients, NEW units \in Seq(Nat)
  PROVE  Whole(c, units) \in 0..Len(units) /\ Whole(c, units) % 2 = 0
<1> DEFINE bad == {i \in 1..Len(units) : i % 2 = 1 /\ Invalid(c, SubSeq(units, i, Len(units)))}
<1>1. Len(units) \in Nat
  OBVIOUS
<1>2. CASE bad = {}
  BY <1>1, <1>2 DEF Whole
<1>3. CASE bad # {}
  <2>1. PICK i \in bad : Whole(c, units) = i - 1
    BY <1>3 DEF Whole
  <2> QED BY <2>1, <1>1
<1> QED BY <1>2, <1>3

\* What is cut off a buffer at either end is a buffer.
LEMMA Pieces ==
  ASSUME NEW units \in Seq(Nat)
  PROVE  /\ \A n \in 0..Len(units) : SubSeq(units, 1, n) \in Seq(Nat)
         /\ \A n \in 1..(Len(units) + 1) : SubSeq(units, n, Len(units)) \in Seq(Nat)
  OBVIOUS

\* What the goroutines have stays of its type.
LEMMA ServerStep ==
  ASSUME KernelType, ServerType, ReactorType, Next
  PROVE  ServerType'
<1> USE DEF ServerType
<1>1. ASSUME NEW c \in Clients, Accept(c) PROVE ServerType'
  BY <1>1 DEF Accept
<1>2. ASSUME NEW c \in Clients, RunReads(c) PROVE ServerType'
  <2>1. Chunk(c, ReadLength(c)) \in Seq(Nat)
    BY <1>2, ReadBounds, ChunkType DEF RunReads
  <2>2. buffer' \in [Clients -> Seq(Nat)]
    BY <1>2, <2>1 DEF RunReads
  <2> QED BY <1>2, <2>2 DEF RunReads
<1>3. ASSUME NEW c \in Clients, RunHandles(c) PROVE ServerType'
  <2>1. /\ SubSeq(buffer[c], 1, 2) \in Seq(Nat)
        /\ SubSeq(buffer[c], 3, Len(buffer[c])) \in Seq(Nat)
    <3>1. buffer[c] \in Seq(Nat) /\ Len(buffer[c]) \in Nat /\ Len(buffer[c]) >= 2
      BY <1>3 DEF RunHandles
    <3> HIDE DEF ServerType
    <3>. QED BY <3>1, Pieces
  <2>2. handled' \in [Clients -> Seq(Nat)] /\ buffer' \in [Clients -> Seq(Nat)]
    <3>1. /\ handled' = [handled EXCEPT ![c] = handled[c] \o SubSeq(buffer[c], 1, 2)]
          /\ buffer' = [buffer EXCEPT ![c] = SubSeq(buffer[c], 3, Len(buffer[c]))]
      BY <1>3, Zenon DEF RunHandles
    <3>2. handled[c] \o SubSeq(buffer[c], 1, 2) \in Seq(Nat)
      BY <1>3, <2>1
    <3>3. handled \in [Clients -> Seq(Nat)] /\ buffer \in [Clients -> Seq(Nat)]
      OBVIOUS
    <3> HIDE DEF ServerType
    <3>. QED BY <3>1, <3>2, <3>3, <2>1, Zenon
  <2>3. online' \in [Clients -> Int] /\ phase' \in [Clients -> {"login", "play"}]
    BY <1>3 DEF RunHandles
  <2>4. run' \in [Clients -> {"away", "reading", "alone", "offering", "waking", "over"}]
    BY <1>3 DEF RunHandles
  <2> QED BY <1>3, <2>2, <2>3, <2>4 DEF RunHandles
<1>4. ASSUME NEW c \in Clients, RunOffers(c) PROVE ServerType'
  BY <1>4 DEF RunOffers
<1>5. ASSUME NEW c \in Clients, RunWakes(c) PROVE ServerType'
  BY <1>5 DEF RunWakes
<1>6. ASSUME NEW c \in Clients, RunEnds(c) PROVE ServerType'
  BY <1>6 DEF RunEnds, LeavePlay
<1>7. ASSUME NEW c \in Clients, LoopProcesses(c) PROVE ServerType'
  <2> DEFINE n == Whole(c, pending[c])
  <2>1. pending[c] \in Seq(Nat) /\ n \in 0..Len(pending[c])
    BY WholeBounds DEF ReactorType
  <2>2. SubSeq(pending[c], 1, n) \in Seq(Nat)
    <3> HIDE DEF n, ServerType
    <3>. QED BY <2>1, Pieces
  <2>3. handled' = [handled EXCEPT ![c] = @ \o SubSeq(pending[c], 1, n)]
    BY <1>7 DEF LoopProcesses
  <2>4. handled' \in [Clients -> Seq(Nat)]
    BY <2>2, <2>3
  <2> QED BY <1>7, <2>4 DEF LoopProcesses
<1>8. ASSUME NEW c \in Clients, LoopLeaves(c) PROVE ServerType'
  BY <1>8 DEF LoopLeaves, LeavePlay
<1>9. ASSUME NEW c \in Clients,
             PeerSends(c) \/ PeerCloses(c) \/ SweepFails(c) \/ LoopReads(c) \/ LoopDrops(c)
      PROVE  ServerType'
  BY <1>9 DEF PeerSends, PeerCloses, SweepFails, LoopReads, LoopDrops, server
<1>10. CASE \/ SweepBegins \/ SweepWakes \/ LoopWaits \/ LoopDrainsWake \/ LoopSwaps
            \/ LoopRegisters \/ LoopCloses \/ \E f \in Fds : LoopServes(f)
  BY <1>10 DEF SweepBegins, SweepWakes, LoopWaits, LoopDrainsWake, LoopSwaps, LoopRegisters,
               LoopCloses, LoopServes, server
<1> QED
  BY <1>1, <1>2, <1>3, <1>4, <1>5, <1>6, <1>7, <1>8, <1>9, <1>10
     DEF Next, Peer, Run, Sweep, Loop

\* What the sweep has does, and it asks no more often than it may.
LEMMA SweepStep ==
  ASSUME ServerType, SweepType, SweepBounded, Next
  PROVE  SweepType' /\ SweepBounded'
<1> USE DEF SweepType, SweepBounded
<1>1. CASE SweepBegins
  BY <1>1 DEF SweepBegins, ServerType
<1>2. ASSUME NEW c \in Clients, SweepFails(c) PROVE SweepType' /\ SweepBounded'
  BY <1>2, BoundsAssumption DEF SweepFails
<1>3. ASSUME NEW c \in Clients,
             \/ PeerSends(c) \/ PeerCloses(c) \/ Accept(c) \/ RunReads(c) \/ RunHandles(c)
             \/ RunOffers(c) \/ RunWakes(c) \/ RunEnds(c) \/ LoopProcesses(c)
             \/ LoopReads(c) \/ LoopDrops(c) \/ LoopLeaves(c)
      PROVE  SweepType' /\ SweepBounded'
  BY <1>3 DEF PeerSends, PeerCloses, Accept, RunReads, RunHandles, RunOffers, RunWakes,
              RunEnds, LoopProcesses, LoopReads, LoopDrops, LoopLeaves, sweep
<1>4. CASE \/ SweepWakes \/ LoopWaits \/ LoopDrainsWake \/ LoopSwaps
            \/ LoopRegisters \/ LoopCloses \/ \E f \in Fds : LoopServes(f)
  BY <1>4 DEF SweepWakes, LoopWaits, LoopDrainsWake, LoopSwaps, LoopRegisters,
               LoopCloses, LoopServes, sweep
<1> QED BY <1>1, <1>2, <1>3, <1>4 DEF Next, Peer, Run, Sweep, Loop

\* What the loop has does, whatever command it takes.
LEMMA ReactorStep ==
  ASSUME KernelType, ServerType, ReactorType, OwnDescriptors, OnlyHandedOver, Next
  PROVE  ReactorType'
<1> USE DEF ReactorType
<1>1. ASSUME NEW c \in Clients, RunOffers(c) PROVE ReactorType'
  <2>1. TakeOver(c) \in Commands
    BY DEF TakeOver, Commands, ServerType
  <2>2. queue' \in Seq(Commands)
    BY <1>1, <2>1 DEF RunOffers
  <2> QED BY <1>1, <2>2 DEF RunOffers
<1>2. ASSUME NEW c \in Clients, RunWakes(c) PROVE ReactorType'
  BY <1>2 DEF RunWakes
<1>3. ASSUME NEW c \in Clients, SweepFails(c) PROVE ReactorType'
  <2>1. Close(c) \in Commands
    BY DEF Close, Commands
  <2>2. queue' \in Seq(Commands)
    BY <1>3, <2>1 DEF SweepFails
  <2> QED BY <1>3, <2>2 DEF SweepFails
<1>4. CASE SweepWakes
  BY <1>4 DEF SweepWakes
<1>5. CASE LoopWaits
  BY <1>5 DEF LoopWaits, KernelType, At, Serving
<1>6. CASE LoopDrainsWake
  BY <1>6 DEF LoopDrainsWake, At, Serving
<1>7. CASE LoopSwaps
  BY <1>7 DEF LoopSwaps
<1>8. ASSUME NEW f \in Fds, LoopServes(f) PROVE ReactorType'
  BY <1>8 DEF LoopServes, At
<1>9. CASE LoopRegisters
  <2> DEFINE c == Head(commands).client
  <2>1. /\ c \in Clients /\ Head(commands).residue \in Seq(Nat)
        /\ 1 \in 1..Len(Backlog) /\ Backlog[1].take /\ Backlog[1].client = c
    <3>1. commands # <<>> /\ commands' = Tail(commands) /\ UNCHANGED queue /\ Head(commands).take
      BY <1>9 DEF LoopRegisters
    <3>2. /\ Len(Backlog) \in Nat \ {0} /\ Backlog[1] = Head(commands)
          /\ Head(commands) \in Commands
      BY <3>1, BacklogTail
    <3>3. c \in Clients /\ Head(commands).residue \in Seq(Nat)
      BY <3>2 DEF Commands
    <3>4. 1 \in 1..Len(Backlog)
      BY <3>2
    <3>. QED BY <3>1, <3>2, <3>3, <3>4
  <2>2. open[c] => fd[c] \in Fds
    BY <2>1 DEF OwnDescriptors, OnlyHandedOver, HandedOver
  <2>3. commands' \in Seq(Commands)
    BY <1>9 DEF LoopRegisters
  <2>4. pending' \in [Clients -> Seq(Nat)] /\ held' \subseteq Clients
    BY <1>9, <2>1 DEF LoopRegisters
  <2>5. byFd' \in [Fds -> Clients \cup {Nobody}]
    BY <1>9, <2>1, <2>2 DEF LoopRegisters
  <2>6. loop' = At("process", c) \/ loop' = At("drop", c)
    BY <1>9 DEF LoopRegisters
  <2>7. UNCHANGED <<queue, wakes, events>>
    BY <1>9 DEF LoopRegisters
  <2> QED BY <2>1, <2>3, <2>4, <2>5, <2>6, <2>7 DEF At
<1>10. CASE LoopCloses
  <2> DEFINE c == Head(commands).client
  <2>1. c \in Clients /\ commands' \in Seq(Commands)
    BY <1>10, BacklogTail DEF LoopCloses, Commands
  <2>2. loop' = At("drop", c) \/ loop' = loop
    BY <1>10 DEF LoopCloses
  <2> QED BY <1>10, <2>1, <2>2 DEF LoopCloses, At
<1>11. ASSUME NEW c \in Clients, LoopProcesses(c) PROVE ReactorType'
  <2> DEFINE n == Whole(c, pending[c])
             rest == SubSeq(pending[c], n + 1, Len(pending[c]))
  <2>1. pending[c] \in Seq(Nat) /\ n \in 0..Len(pending[c])
    BY WholeBounds
  <2>2. rest \in Seq(Nat)
    BY <2>1
  <2>3. pending' = [pending EXCEPT ![c] = rest]
    BY <1>11 DEF LoopProcesses
  <2>4. pending' \in [Clients -> Seq(Nat)]
    BY <2>2, <2>3
  <2>5. loop' = At("drop", c) \/ loop' = At("read", c)
    BY <1>11 DEF LoopProcesses
  <2> QED BY <1>11, <2>4, <2>5 DEF LoopProcesses, At
<1>12. ASSUME NEW c \in Clients, LoopReads(c) PROVE ReactorType'
  <2>1. pending' \in [Clients -> Seq(Nat)]
    <3>1. CASE Unread(c) > 0
      <4>1. Chunk(c, ReadLength(c)) \in Seq(Nat)
        BY <3>1, ReadBounds, ChunkType
      <4>2. pending' = [pending EXCEPT ![c] = @ \o Chunk(c, ReadLength(c))]
        BY <1>12, <3>1 DEF LoopReads
      <4> QED BY <4>1, <4>2
    <3>2. CASE ~(Unread(c) > 0)
      BY <1>12, <3>2 DEF LoopReads
    <3> QED BY <3>1, <3>2
  <2>2. loop' = At("process", c) \/ loop' = At("drop", c) \/ loop' = Serving
    BY <1>12 DEF LoopReads
  <2> QED BY <1>12, <2>1, <2>2 DEF LoopReads, At, Serving
<1>13. ASSUME NEW c \in Clients, LoopDrops(c) PROVE ReactorType'
  <2>1. byFd' \in [Fds -> Clients \cup {Nobody}]
    BY <1>13 DEF LoopDrops
  <2> QED BY <1>13, <2>1 DEF LoopDrops, At
<1>14. ASSUME NEW c \in Clients, LoopLeaves(c) PROVE ReactorType'
  BY <1>14 DEF LoopLeaves, At, Serving
<1>15. ASSUME NEW c \in Clients,
              \/ PeerSends(c) \/ PeerCloses(c) \/ Accept(c) \/ RunReads(c)
              \/ RunHandles(c) \/ RunEnds(c)
       PROVE  ReactorType'
  BY <1>15 DEF PeerSends, PeerCloses, Accept, RunReads, RunHandles, RunEnds, reactor
<1>16. CASE SweepBegins
  BY <1>16 DEF SweepBegins, reactor
<1> QED
  BY <1>1, <1>2, <1>3, <1>4, <1>5, <1>6, <1>7, <1>8, <1>9, <1>10, <1>11, <1>12, <1>13,
     <1>14, <1>15, <1>16 DEF Next, Peer, Run, Sweep, Loop

-------------------------------------------------------------------------------
(* Descriptors                                                                *)

\* A connection that was handed over is never taken back.
LEMMA HandedOverStays ==
  ASSUME ServerType, Next, NEW c \in Clients, HandedOver(c)
  PROVE  HandedOver(c)'
<1> USE DEF ServerType, HandedOver
<1>1. ASSUME NEW d \in Clients, Accept(d) PROVE HandedOver(c)'
  BY <1>1 DEF Accept
<1>2. ASSUME NEW d \in Clients, RunHandles(d) PROVE HandedOver(c)'
  BY <1>2 DEF RunHandles, Reads
<1>3. ASSUME NEW d \in Clients, RunOffers(d) \/ RunWakes(d) \/ RunEnds(d) PROVE HandedOver(c)'
  BY <1>3 DEF RunOffers, RunWakes, RunEnds
<1>4. ASSUME NEW d \in Clients,
             \/ PeerSends(d) \/ PeerCloses(d) \/ RunReads(d) \/ SweepFails(d)
             \/ LoopProcesses(d) \/ LoopReads(d) \/ LoopDrops(d) \/ LoopLeaves(d)
      PROVE  HandedOver(c)'
  BY <1>4 DEF PeerSends, PeerCloses, RunReads, SweepFails, LoopProcesses, LoopReads,
              LoopDrops, LoopLeaves, server
<1>5. CASE \/ SweepBegins \/ SweepWakes \/ LoopWaits \/ LoopDrainsWake \/ LoopSwaps
            \/ LoopRegisters \/ LoopCloses \/ \E f \in Fds : LoopServes(f)
  BY <1>5 DEF SweepBegins, SweepWakes, LoopWaits, LoopDrainsWake, LoopSwaps, LoopRegisters,
               LoopCloses, LoopServes, server
<1> QED BY <1>1, <1>2, <1>3, <1>4, <1>5 DEF Next, Peer, Run, Sweep, Loop

\* A descriptor that is given away was nobody's.
LEMMA OwnDescriptorsStep ==
  ASSUME KernelType, ServerType, OwnDescriptors, Next
  PROVE  OwnDescriptors'
<1> USE DEF KernelType, ServerType, OwnDescriptors
<1>1. ASSUME NEW c \in Clients, Accept(c) PROVE OwnDescriptors'
  <2>1. CASE c \in Pipes /\ run' = [run EXCEPT ![c] = "alone"] /\ UNCHANGED fd
    BY <1>1, <2>1 DEF Accept
  <2>2. CASE /\ run' = [run EXCEPT ![c] = "reading"]
             /\ \E f \in Fds \ {fd[d] : d \in Clients} : fd' = [fd EXCEPT ![c] = f]
    <3>1. PICK f \in Fds \ {fd[d] : d \in Clients} : fd' = [fd EXCEPT ![c] = f]
      BY <2>2
    <3>2. open' = [open EXCEPT ![c] = TRUE]
      BY <1>1 DEF Accept
    <3>3. \A d, e \in Clients : fd'[d] = fd'[e] /\ fd'[d] # NoFd => d = e
      BY <3>1
    <3>4. \A d \in Clients : open'[d] => fd'[d] \in Fds \/ run'[d] = "alone"
      BY <2>2, <3>1, <3>2
    <3> QED BY <3>3, <3>4
  <2> QED BY <1>1, <2>1, <2>2 DEF Accept
<1>2. ASSUME NEW c \in Clients, RunHandles(c) PROVE OwnDescriptors'
  BY <1>2 DEF RunHandles, kernel
<1>3. ASSUME NEW c \in Clients, RunOffers(c) PROVE OwnDescriptors'
  BY <1>3 DEF RunOffers, kernel
<1>4. ASSUME NEW c \in Clients, RunWakes(c) PROVE OwnDescriptors'
  BY <1>4 DEF RunWakes
<1>5. ASSUME NEW c \in Clients, RunEnds(c) PROVE OwnDescriptors'
  BY <1>5 DEF RunEnds, Closed
<1>6. CASE LoopCloses
  <2> DEFINE c == Head(commands).client
  <2>1. run' = run
    BY <1>6 DEF LoopCloses, server
  <2>2. UNCHANGED <<open, fd>> \/ Closed(c)
    BY <1>6 DEF LoopCloses
  <2>3. Closed(c) => /\ open' = [open EXCEPT ![c] = FALSE]
                     /\ fd' = [fd EXCEPT ![c] = NoFd]
    BY DEF Closed
  <2> HIDE DEF c
  <2>4. ASSUME NEW d \in Clients
        PROVE  (open'[d] => open[d]) /\ (fd'[d] = fd[d] \/ (fd'[d] = NoFd /\ ~open'[d]))
    BY <2>2, <2>3
  <2>. QED BY <2>1, <2>4
<1>7. ASSUME NEW c \in Clients, LoopDrops(c) PROVE OwnDescriptors'
  BY <1>7 DEF LoopDrops, Closed, server
<1>8. ASSUME NEW c \in Clients,
             \/ PeerSends(c) \/ PeerCloses(c) \/ RunReads(c) \/ SweepFails(c)
             \/ LoopProcesses(c) \/ LoopReads(c) \/ LoopLeaves(c)
      PROVE  OwnDescriptors'
  BY <1>8 DEF PeerSends, PeerCloses, RunReads, SweepFails, LoopProcesses, LoopReads,
              LoopLeaves, server, kernel
<1>9. CASE \/ SweepBegins \/ SweepWakes \/ LoopWaits \/ LoopDrainsWake \/ LoopSwaps
           \/ LoopRegisters \/ \E f \in Fds : LoopServes(f)
  BY <1>9 DEF SweepBegins, SweepWakes, LoopWaits, LoopDrainsWake, LoopSwaps, LoopRegisters,
              LoopServes, server, kernel
<1> QED
  BY <1>1, <1>2, <1>3, <1>4, <1>5, <1>6, <1>7, <1>8, <1>9 DEF Next, Peer, Run, Sweep, Loop

\* How a step changes the backlog: a takeover or a close is put behind it, the
\* loop takes its front, or it stays as it was.
LEMMA BacklogStep ==
  ASSUME ReactorType, ServerType, Next
  PROVE  \/ \E c \in Clients :
              /\ RunOffers(c) \/ SweepFails(c)
              /\ LET m == IF RunOffers(c) THEN TakeOver(c) ELSE Close(c)
                 IN  m \in Commands /\ queue' = Append(queue, m) /\ UNCHANGED commands
         \/ LoopRegisters \/ LoopCloses
         \/ Backlog' = Backlog
<1>1. ASSUME NEW c \in Clients, RunOffers(c)
      PROVE  TakeOver(c) \in Commands /\ queue' = Append(queue, TakeOver(c)) /\ UNCHANGED commands
  BY <1>1 DEF RunOffers, TakeOver, Commands, ServerType
<1>2. ASSUME NEW c \in Clients, SweepFails(c)
      PROVE  Close(c) \in Commands /\ queue' = Append(queue, Close(c)) /\ UNCHANGED commands
  BY <1>2 DEF SweepFails, Close, Commands
<1>3. CASE LoopSwaps
  BY <1>3, BacklogSwap
<1>4. ASSUME NEW c \in Clients,
             \/ PeerSends(c) \/ PeerCloses(c) \/ Accept(c) \/ RunReads(c) \/ RunHandles(c)
             \/ RunWakes(c) \/ RunEnds(c)
             \/ LoopProcesses(c) \/ LoopReads(c) \/ LoopDrops(c) \/ LoopLeaves(c)
      PROVE  Backlog' = Backlog
  BY <1>4 DEF PeerSends, PeerCloses, Accept, RunReads, RunHandles, RunWakes, RunEnds,
              LoopProcesses, LoopReads, LoopDrops, LoopLeaves, reactor, Backlog
<1>5. CASE \/ SweepBegins \/ SweepWakes \/ LoopWaits \/ LoopDrainsWake
           \/ \E f \in Fds : LoopServes(f)
  BY <1>5 DEF SweepBegins, SweepWakes, LoopWaits, LoopDrainsWake, LoopServes, reactor, Backlog
<1> QED BY <1>1, <1>2, <1>3, <1>4, <1>5 DEF Next, Peer, Run, Sweep, Loop

\* A takeover is asked for by the goroutine that then lets go.
LEMMA OnlyHandedOverStep ==
  ASSUME ServerType, ReactorType, OnlyHandedOver, Next
  PROVE  OnlyHandedOver'
<1> DEFINE given(c) == run'[c] \in {"waking", "over"}
<1>1. \A c \in Clients : HandedOver(c) => given(c)
  BY HandedOverStays DEF HandedOver
<1>2. \A i \in 1..Len(Backlog') : Backlog'[i].take => given(Backlog'[i].client)
  <2>1. \A i \in 1..Len(Backlog) : Backlog[i].take => given(Backlog[i].client)
    BY <1>1, BacklogType DEF OnlyHandedOver, Commands
  <2> HIDE DEF given
  <2>2. ASSUME NEW c \in Clients, RunOffers(c), TakeOver(c) \in Commands,
               queue' = Append(queue, TakeOver(c)), UNCHANGED commands
        PROVE  \A i \in 1..Len(Backlog') : Backlog'[i].take => given(Backlog'[i].client)
    <3>1. given(c)
      BY <2>2 DEF RunOffers, ServerType, given
    <3> QED BY <2>1, <2>2, <3>1, BacklogAppend DEF TakeOver
  <2>3. ASSUME NEW c \in Clients, Close(c) \in Commands,
               queue' = Append(queue, Close(c)), UNCHANGED commands
        PROVE  \A i \in 1..Len(Backlog') : Backlog'[i].take => given(Backlog'[i].client)
    BY <2>1, <2>3, BacklogAppend DEF Close
  <2>4. CASE LoopRegisters \/ LoopCloses
    BY <2>1, <2>4, BacklogTail DEF LoopRegisters, LoopCloses
  <2>5. CASE Backlog' = Backlog
    BY <2>1, <2>5
  <2> QED BY <2>2, <2>3, <2>4, <2>5, BacklogStep
<1>3. \A c \in held' : given(c)
  <2>1. \A c \in held : given(c)
    BY <1>1 DEF OnlyHandedOver, ReactorType
  <2>2. CASE LoopRegisters
    <3> DEFINE c == Head(commands).client
    <3>1. c \in Clients /\ 1 \in 1..Len(Backlog) /\ Backlog[1].take /\ Backlog[1].client = c
      BY <2>2, BacklogTail DEF LoopRegisters, Commands
    <3>2. given(c)
      BY <1>1, <3>1 DEF OnlyHandedOver
    <3>3. held' \subseteq held \cup {c}
      BY <2>2 DEF LoopRegisters
    <3> QED BY <2>1, <3>2, <3>3
  <2>3. CASE ~LoopRegisters
    <3>1. held' \subseteq held
      BY <2>3 DEF Next, Peer, Run, Sweep, Loop, PeerSends, PeerCloses, Accept, RunReads,
         RunHandles, RunOffers, RunWakes, RunEnds, SweepBegins, SweepWakes, SweepFails,
         LoopWaits, LoopDrainsWake, LoopSwaps, LoopCloses, LoopServes, LoopProcesses,
         LoopReads, LoopDrops, LoopLeaves, reactor
    <3> QED BY <2>1, <3>1
  <2> QED BY <2>2, <2>3
<1> QED BY <1>2, <1>3 DEF OnlyHandedOver, HandedOver

\* The maps and the kernel stay of one mind: the loop unmaps what it closes,
\* and others close only what is not mapped.
LEMMA DescriptorsStep ==
  ASSUME KernelType, ServerType, ReactorType, OwnDescriptors, OnlyHandedOver,
         DescriptorsHonest, Next
  PROVE  DescriptorsHonest'
<1>0. LoopRegisters \/ LoopCloses =>
        /\ Head(commands).client \in Clients
        /\ Head(commands).take => HandedOver(Head(commands).client)
  <2> SUFFICES ASSUME LoopRegisters \/ LoopCloses
               PROVE  /\ Head(commands).client \in Clients
                      /\ Head(commands).take => HandedOver(Head(commands).client)
    OBVIOUS
  <2>1. Head(commands) \in Commands /\ 1 \in 1..Len(Backlog) /\ Backlog[1] = Head(commands)
    BY BacklogTail DEF LoopRegisters, LoopCloses
  <2> QED BY <2>1 DEF OnlyHandedOver, Commands
<1> USE NamesAssumption DEF KernelType, ReactorType, DescriptorsHonest
<1>1. ASSUME NEW c \in Clients, Accept(c) PROVE DescriptorsHonest'
  <2>1. c \notin held
    BY <1>1 DEF Accept, OnlyHandedOver, HandedOver
  <2> QED BY <1>1, <2>1 DEF Accept, reactor
<1>2. ASSUME NEW c \in Clients, RunEnds(c) PROVE DescriptorsHonest'
  <2>1. c \notin held
    BY <1>2 DEF RunEnds, Reads, OnlyHandedOver, HandedOver
  <2> QED BY <1>2, <2>1 DEF RunEnds, Closed, OwnDescriptors, reactor
<1>3. CASE LoopCloses
  <2> DEFINE c == Head(commands).client
  <2>1. c \in Clients
    BY <1>0, <1>3
  <2>2. CASE c \in held
    BY <1>3, <2>2 DEF LoopCloses
  <2>3. CASE c \notin held
    <3>1. Closed(c) /\ UNCHANGED <<byFd, held>>
      BY <1>3, <2>3 DEF LoopCloses
    <3> QED BY <2>1, <2>3, <3>1 DEF Closed, OwnDescriptors
  <2> QED BY <2>2, <2>3
<1>4. CASE LoopRegisters
  <2> DEFINE c == Head(commands).client
  <2>1. c \in Clients /\ HandedOver(c)
    BY <1>0, <1>4 DEF LoopRegisters
  <2>2. CASE open[c]
    <3>1. fd[c] \in Fds
      BY <2>1, <2>2 DEF OwnDescriptors, HandedOver
    <3>2. /\ armed' = armed \cup {fd[c]} /\ byFd' = [byFd EXCEPT ![fd[c]] = c]
          /\ held' = held \cup {c} /\ UNCHANGED <<open, fd>>
      BY <1>4, <2>2 DEF LoopRegisters
    <3> QED BY <2>1, <2>2, <3>1, <3>2 DEF OwnDescriptors
  <2>3. CASE ~open[c]
    BY <1>4, <2>3 DEF LoopRegisters
  <2> QED BY <2>2, <2>3
<1>5. ASSUME NEW c \in Clients, LoopDrops(c) PROVE DescriptorsHonest'
  BY <1>5 DEF LoopDrops, Closed, OwnDescriptors
<1>6. ASSUME NEW c \in Clients,
             \/ PeerSends(c) \/ PeerCloses(c) \/ RunReads(c) \/ RunHandles(c) \/ RunOffers(c)
             \/ RunWakes(c) \/ SweepFails(c) \/ LoopProcesses(c) \/ LoopReads(c) \/ LoopLeaves(c)
      PROVE  DescriptorsHonest'
  <2>1. UNCHANGED <<open, fd, armed, byFd, held>>
    BY <1>6 DEF PeerSends, PeerCloses, RunReads, RunHandles, RunOffers, RunWakes, SweepFails,
                LoopProcesses, LoopReads, LoopLeaves, kernel, reactor
  <2>. QED BY <2>1
<1>7. CASE \/ SweepBegins \/ SweepWakes \/ LoopWaits \/ LoopDrainsWake \/ LoopSwaps
           \/ \E f \in Fds : LoopServes(f)
  BY <1>7 DEF SweepBegins, SweepWakes, LoopWaits, LoopDrainsWake, LoopSwaps, LoopServes,
              kernel, reactor
<1> QED BY <1>1, <1>2, <1>3, <1>4, <1>5, <1>6, <1>7 DEF Next, Peer, Run, Sweep, Loop

\* Every step keeps all of it.
LEMMA SocketStep == SocketInv /\ [Next]_vars => SocketInv'
<1> SUFFICES ASSUME SocketInv, [Next]_vars PROVE SocketInv'
  OBVIOUS
<1>1. /\ KernelType /\ ServerType /\ SweepType /\ ReactorType
      /\ SweepBounded /\ OwnDescriptors /\ OnlyHandedOver /\ DescriptorsHonest
  BY TypeParts DEF SocketInv
<1>2. CASE Next
  <2>1. TypeOK'
    BY <1>1, <1>2, KernelStep, ServerStep, SweepStep, ReactorStep, TypeParts
  <2> QED
    BY <1>1, <1>2, <2>1, SweepStep, OwnDescriptorsStep, OnlyHandedOverStep, DescriptorsStep
       DEF SocketInv
<1>3. CASE UNCHANGED vars
  BY <1>3 DEF SocketInv, TypeOK, SweepBounded, OwnDescriptors, OnlyHandedOver, HandedOver,
              Backlog, DescriptorsHonest, vars, kernel, server, sweep, reactor
<1> QED BY <1>2, <1>3

\* It holds from the start.
LEMMA SocketInit == Init => SocketInv
<1> SUFFICES ASSUME Init PROVE SocketInv
  OBVIOUS
<1> USE BoundsAssumption, NamesAssumption DEF Init
<1>1. \A c \in Clients : Last(c) \in Nat
  BY DEF Last
<1>2. KernelType
  <2>1. \A c \in Clients : sent[c] = 0 /\ fetched[c] = 0 /\ fetched[c] <= sent[c]
    OBVIOUS
  <2>2. sent \in [Clients -> Nat] /\ fetched \in [Clients -> Nat]
    OBVIOUS
  <2>3. peerDone \in [Clients -> BOOLEAN] /\ open \in [Clients -> BOOLEAN]
    OBVIOUS
  <2>4. \A c \in Clients : sent[c] <= Last(c)
    BY <1>1, <2>1
  <2>5. /\ fd \in [Clients -> Fds \cup {NoFd}] /\ armed \subseteq Fds /\ ready \subseteq armed
        /\ pipe \in BOOLEAN
    OBVIOUS
  <2> HIDE DEF Init
  <2> QED BY <2>1, <2>2, <2>3, <2>4, <2>5 DEF KernelType
<1>3. ServerType /\ SweepType
  BY DEF ServerType, SweepType
<1>4. ReactorType
  BY DEF ReactorType, Serving, At
<1>5. SweepBounded /\ OwnDescriptors /\ DescriptorsHonest
  BY DEF SweepBounded, OwnDescriptors, DescriptorsHonest
<1>6. OnlyHandedOver
  <2>1. Len(Backlog) = 0
    BY DEF Backlog
  <2> QED BY <2>1 DEF OnlyHandedOver
<1> QED BY <1>2, <1>3, <1>4, <1>5, <1>6, TypeParts DEF SocketInv

(* The variables of every module have their types: no counter runs away, and  *)
(* what is ready is armed.                                                    *)
THEOREM TypeCorrect == Spec => []TypeOK
<1>1. Init => SocketInv
  BY SocketInit
<1>2. SocketInv => TypeOK
  BY DEF SocketInv
<1> QED BY <1>1, <1>2, SocketStep, PTL DEF Spec

-------------------------------------------------------------------------------
(* Custody                                                                    *)

(* No step leaves a connection without a custodian, or with two.              *)
LEMMA CustodianStep ==
  ASSUME SocketInv, OneCustodian, CountsInPlay, Next, NEW c \in Clients
  PROVE  Custodian(c)'
<1>1. KernelType /\ ServerType /\ ReactorType /\ OnlyHandedOver /\ DescriptorsHonest
  BY TypeParts DEF SocketInv
<1>2. Custodian(c) /\ Len(Backlog) \in Nat
  BY <1>1, BacklogType DEF OneCustodian
<1>3. ASSUME UNCHANGED <<run, clients, online, held, loop>>, Backlog' = Backlog
      PROVE  Custodian(c)'
  BY <1>2, <1>3 DEF Custodian, Takes, HandedOver
<1>4. ASSUME NEW d \in Clients, RunOffers(d) PROVE Custodian(c)'
  <2>0. PICK n \in Nat : n = Len(Backlog)
    BY <1>2
  <2>1. /\ \A i \in 1..n : Takes(c, i)' <=> Takes(c, i)
        /\ Takes(c, n + 1)' <=> c = d
        /\ Len(Backlog') = n + 1
    <3>1. TakeOver(d) \in Commands
      BY <1>1 DEF TakeOver, Commands, ServerType
    <3> QED BY <1>1, <1>4, <2>0, <3>1, BacklogAppend DEF RunOffers, Takes, TakeOver
  <2>2. run' = [run EXCEPT ![d] = "waking"] /\ run[d] = "offering"
        /\ UNCHANGED <<clients, online, held, loop>>
    BY <1>4 DEF RunOffers
  <2>3. CASE c = d
    <3>1. /\ \A i \in 1..Len(Backlog) : ~Takes(c, i)
          /\ c \notin held /\ loop.client # c /\ c \in clients /\ online[c] = 1
      BY <1>1, <1>2, <2>2, <2>3
         DEF OnlyHandedOver, HandedOver, Takes, Custodian, CountsInPlay
    <3>2. \A i \in 1..Len(Backlog') : Takes(c, i)' <=> i = n + 1
      BY <2>0, <2>1, <2>3, <3>1
    <3>3. n + 1 \in 1..Len(Backlog')
      BY <2>1
    <3>4. /\ run'[c] = "waking" /\ c \notin held' /\ loop'.client # c
          /\ c \in clients' /\ online'[c] = 1
      BY <1>1, <2>2, <2>3, <3>1 DEF ServerType
    <3> QED BY <3>2, <3>3, <3>4 DEF Custodian, HandedOver
  <2>4. CASE c # d
    <3>1. \A i \in 1..Len(Backlog') : Takes(c, i)' <=> i \in 1..n /\ Takes(c, i)
      BY <2>0, <2>1, <2>4
    <3>2. 1..n \subseteq 1..Len(Backlog')
      BY <2>1
    <3>3. run'[c] = run[c] /\ UNCHANGED <<clients, online, held, loop>>
      BY <1>1, <2>2, <2>4 DEF ServerType
    <3> QED BY <1>2, <2>0, <3>1, <3>2, <3>3 DEF Custodian, HandedOver
  <2> QED BY <2>3, <2>4
<1>5. ASSUME NEW d \in Clients, SweepFails(d) PROVE Custodian(c)'
  <2>0. PICK n \in Nat : n = Len(Backlog)
    BY <1>2
  <2>1. /\ \A i \in 1..n : Takes(c, i)' <=> Takes(c, i)
        /\ ~Takes(c, n + 1)'
        /\ Len(Backlog') = n + 1
    <3>1. Close(d) \in Commands
      BY DEF Close, Commands
    <3> QED BY <1>1, <1>5, <2>0, <3>1, BacklogAppend DEF SweepFails, Takes, Close
  <2>2. UNCHANGED <<run, clients, online, held, loop>>
    BY <1>5 DEF SweepFails, server
  <2> QED BY <1>2, <2>0, <2>1, <2>2 DEF Custodian, HandedOver
<1>6. CASE LoopRegisters \/ LoopCloses
  <2> DEFINE d == Head(commands).client
  <2>1. /\ \A i \in 1..Len(Backlog') : Takes(c, i)' <=> Takes(c, i + 1)
        /\ Takes(c, 1) <=> Head(commands).take /\ c = d
        /\ Len(Backlog') = Len(Backlog) - 1 /\ Len(Backlog) \in Nat \ {0}
    BY <1>1, <1>6, BacklogTail DEF LoopRegisters, LoopCloses, Takes
  <2>2. UNCHANGED <<run, clients, online>> /\ loop = Serving
    BY <1>6 DEF LoopRegisters, LoopCloses, server
  <2>3. loop.client # c
    BY <2>2, NamesAssumption DEF Serving, At
  \* What of c was behind the front is where it was, one place further on.
  <2>4. ASSUME ~Takes(c, 1)
        PROVE  /\ \A i, j \in 1..Len(Backlog') : Takes(c, i)' /\ Takes(c, j)' => i = j
               /\ (\E i \in 1..Len(Backlog) : Takes(c, i))
                    <=> \E i \in 1..Len(Backlog') : Takes(c, i)'
    <3>1. \A i \in 1..Len(Backlog') : i + 1 \in 1..Len(Backlog)
      BY <2>1
    <3>2. \A i \in 1..Len(Backlog) : i = 1 \/ i - 1 \in 1..Len(Backlog')
      BY <2>1
    <3>3. \A i \in 1..Len(Backlog) : Takes(c, i) => Takes(c, i - 1)' /\ i - 1 \in 1..Len(Backlog')
      BY <2>1, <2>4, <3>2
    <3> QED BY <1>2, <2>1, <3>1, <3>3 DEF Custodian
  <2>5. CASE LoopRegisters /\ c = d
    <3>1. Takes(c, 1) /\ \A i \in 1..Len(Backlog') : ~Takes(c, i)'
      BY <1>2, <2>1, <2>5 DEF LoopRegisters, Custodian
    <3>2. c \notin held /\ c \in clients /\ online[c] = 1 /\ HandedOver(c)
      BY <1>1, <1>2, <2>1, <3>1 DEF Custodian, OnlyHandedOver, Takes
    <3>3. \/ loop' = At("process", c) /\ held' = held \cup {c}
          \/ loop' = At("drop", c) /\ held' = held
      BY <2>5 DEF LoopRegisters
    <3> QED BY <2>2, <3>1, <3>2, <3>3 DEF Custodian, HandedOver, At
  <2>6. CASE LoopRegisters /\ c # d
    <3>1. /\ loop'.client # c
          /\ c \in held' <=> c \in held
      BY <2>6 DEF LoopRegisters, At
    <3>2. Takes(c, 1) <=> FALSE
      BY <2>1, <2>6
    <3> QED BY <1>2, <2>2, <2>3, <2>4, <3>1, <3>2 DEF Custodian, HandedOver
  <2>7. CASE LoopCloses
    <3>1. ~Takes(c, 1) /\ held' = held
      BY <2>1, <2>7 DEF LoopCloses
    <3>2. loop' = loop \/ (loop' = At("drop", d) /\ d \in held)
      BY <2>7 DEF LoopCloses
    <3>3. c \in held => HandedOver(c)
      BY <1>1 DEF OnlyHandedOver
    <3> QED BY <1>2, <2>2, <2>3, <2>4, <3>1, <3>2, <3>3 DEF Custodian, HandedOver, At
  <2> QED BY <1>6, <2>5, <2>6, <2>7
<1>7. ASSUME NEW d \in Clients,
             Accept(d) \/ RunHandles(d) \/ RunWakes(d) \/ RunEnds(d)
      PROVE  Custodian(c)'
  <2>1. Backlog' = Backlog /\ UNCHANGED <<held, loop>>
    BY <1>7 DEF Accept, RunHandles, RunWakes, RunEnds, reactor, Backlog
  <2>2. CASE c # d
    <3>1. run'[c] = run[c] /\ online'[c] = online[c] /\ (c \in clients' <=> c \in clients)
      BY <1>1, <1>7, <2>2 DEF Accept, RunHandles, RunWakes, RunEnds, LeavePlay, ServerType
    <3> QED BY <1>2, <2>1, <3>1 DEF Custodian, Takes, HandedOver
  <2>3. CASE c = d /\ RunWakes(d)
    <3>1. /\ HandedOver(c) /\ HandedOver(c)' /\ UNCHANGED <<online, clients>>
          /\ run'[c] \notin {"reading", "alone", "offering"}
      BY <1>1, <2>3 DEF RunWakes, HandedOver, ServerType
    <3> QED BY <1>2, <2>1, <3>1 DEF Custodian, Takes
  <2>4. CASE c = d /\ ~RunWakes(d)
    <3>1. ~HandedOver(c)
      BY <1>7, <2>4 DEF Accept, RunHandles, RunEnds, HandedOver, Reads
    <3>2. /\ c \notin held /\ loop.client # c
          /\ \A i \in 1..Len(Backlog) : ~Takes(c, i)
      BY <1>1, <1>2, <3>1 DEF Custodian, OnlyHandedOver, Takes
    <3>3. HandedOver(c)' => online'[c] # 1
      BY <1>1, <1>7, <2>4, <3>1
         DEF Accept, RunHandles, RunEnds, LeavePlay, HandedOver, ServerType, CountsInPlay
    <3>4. run'[c] \in {"reading", "alone", "offering"} => c \in clients'
      BY <1>1, <1>2, <1>7, <2>4 DEF Accept, RunHandles, RunEnds, Reads, ServerType, Custodian
    <3> QED BY <2>1, <3>2, <3>3, <3>4 DEF Custodian, Takes
  <2> QED BY <2>2, <2>3, <2>4
<1>8. ASSUME LoopWaits \/ LoopDrainsWake \/ \E f \in Fds : LoopServes(f)
      PROVE  Custodian(c)'
  <2>1. Backlog' = Backlog /\ UNCHANGED <<run, clients, online, held>>
    BY <1>8 DEF LoopWaits, LoopDrainsWake, LoopServes, server, Backlog
  <2>2. loop.client # c
    BY <1>8, NamesAssumption DEF LoopWaits, LoopDrainsWake, LoopServes, Idle, Serving, At
  <2>3. \/ loop'.client = Nobody
        \/ \E d \in held : loop' = At("read", d)
    BY <1>1, <1>8
       DEF LoopWaits, LoopDrainsWake, LoopServes, Idle, Serving, At, DescriptorsHonest
  <2>4. c \in held => HandedOver(c)
    BY <1>1 DEF OnlyHandedOver
  <2>5. loop'.client = c => c \in held /\ loop' = At("read", c)
    BY <2>3, NamesAssumption DEF At
  <2> QED BY <1>2, <2>1, <2>2, <2>4, <2>5 DEF Custodian, Takes, HandedOver, At
<1>9. ASSUME NEW d \in Clients, LoopProcesses(d) \/ LoopReads(d) PROVE Custodian(c)'
  <2>1. Backlog' = Backlog /\ UNCHANGED <<run, clients, online, held>>
    BY <1>9 DEF LoopProcesses, LoopReads, server, Backlog
  <2>2. loop \in {At("process", d), At("read", d)}
    BY <1>9 DEF LoopProcesses, LoopReads
  <2>3. loop' \in {At("process", d), At("read", d), At("drop", d), Serving}
    BY <1>9 DEF LoopProcesses, LoopReads
  <2>4. CASE c = d
    <3>1. loop.client = c /\ loop.step \in {"process", "read"}
      BY <2>2, <2>4 DEF At
    <3>2. loop' # At("leave", c) /\ (loop'.step = "leave" => loop'.client # c)
      BY <2>3, <2>4 DEF At, Serving
    <3> QED BY <1>2, <2>1, <3>1, <3>2 DEF Custodian, Takes, HandedOver
  <2>5. CASE c # d
    <3>1. loop.client # c /\ loop'.client # c
      BY <2>2, <2>3, <2>5, NamesAssumption DEF At, Serving
    <3> QED BY <1>2, <2>1, <3>1 DEF Custodian, Takes, HandedOver
  <2> QED BY <2>4, <2>5
<1>10. ASSUME NEW d \in Clients, LoopDrops(d) PROVE Custodian(c)'
  <2>1. /\ Backlog' = Backlog /\ UNCHANGED <<run, clients, online>>
        /\ held' = held \ {d} /\ loop = At("drop", d) /\ loop' = At("leave", d)
    BY <1>10 DEF LoopDrops, server, Backlog
  <2>2. CASE c = d
    BY <1>2, <2>1, <2>2 DEF Custodian, Takes, HandedOver, At
  <2>3. CASE c # d
    BY <1>2, <2>1, <2>3 DEF Custodian, Takes, HandedOver, At
  <2> QED BY <2>2, <2>3
<1>11. ASSUME NEW d \in Clients, LoopLeaves(d) PROVE Custodian(c)'
  <2>1. /\ Backlog' = Backlog /\ UNCHANGED <<run, held>>
        /\ clients' = clients \ {d} /\ loop = At("leave", d) /\ loop' = Serving
    BY <1>11 DEF LoopLeaves, Backlog
  <2>2. loop'.client # c
    BY <2>1, NamesAssumption DEF At, Serving
  <2>3. CASE c = d
    <3>1. HandedOver(c) /\ c \notin held /\ \A i \in 1..Len(Backlog) : ~Takes(c, i)
      BY <1>2, <2>1, <2>3 DEF Custodian, At
    <3>2. online'[c] # 1
      BY <1>1, <1>2, <1>11, <2>1, <2>3
         DEF LoopLeaves, LeavePlay, ServerType, CountsInPlay, Custodian, At
    <3>3. run[c] \notin {"reading", "alone", "offering"}
      BY <3>1 DEF HandedOver
    <3> QED BY <2>1, <2>2, <3>1, <3>2, <3>3 DEF Custodian, Takes, HandedOver
  <2>4. CASE c # d
    <3>1. online'[c] = online[c] /\ loop.client # c /\ (c \in clients' <=> c \in clients)
      BY <1>1, <1>11, <2>1, <2>4 DEF LoopLeaves, LeavePlay, ServerType, At
    <3> QED BY <1>2, <2>1, <2>2, <3>1 DEF Custodian, Takes, HandedOver
  <2> QED BY <2>3, <2>4
<1>12. ASSUME NEW d \in Clients, PeerSends(d) \/ PeerCloses(d) \/ RunReads(d)
       PROVE  Custodian(c)'
  BY <1>3, <1>12 DEF PeerSends, PeerCloses, RunReads, server, reactor, Backlog
<1>13. CASE SweepBegins \/ SweepWakes
  BY <1>3, <1>13 DEF SweepBegins, SweepWakes, server, reactor, Backlog
<1>14. CASE LoopSwaps
  BY <1>1, <1>3, <1>14, BacklogSwap DEF LoopSwaps, server
<1> QED
  BY <1>4, <1>5, <1>6, <1>7, <1>8, <1>9, <1>10, <1>11, <1>12, <1>13, <1>14
     DEF Next, Peer, Run, Sweep, Loop

\* A connection is counted in and out by those who have it in hand.
LEMMA CountsInPlayStep ==
  ASSUME SocketInv, OneCustodian, CountsInPlay, Next
  PROVE  CountsInPlay'
<1>1. ServerType
  BY TypeParts DEF SocketInv
<1> USE DEF CountsInPlay, HandedOver, ServerType
<1>2. ASSUME NEW c \in Clients, Accept(c) PROVE CountsInPlay'
  <2>1. \/ run' = [run EXCEPT ![c] = "alone"]
        \/ run' = [run EXCEPT ![c] = "reading"]
    BY <1>2 DEF Accept
  <2> QED BY <1>1, <1>2, <2>1 DEF Accept
<1>3. ASSUME NEW c \in Clients, RunHandles(c) PROVE CountsInPlay'
  <2>1. ~HandedOver(c)
    BY <1>3 DEF RunHandles, Reads
  <2>2. /\ phase' = [phase EXCEPT ![c] = "play"]
        /\ \A d \in Clients : online'[d] = IF d = c THEN 1 ELSE online[d]
    BY <1>1, <1>3, <2>1 DEF RunHandles
  <2>3. \A d \in Clients : d # c => run'[d] = run[d]
    BY <1>1, <1>3 DEF RunHandles
  <2> QED BY <1>1, <2>2, <2>3
<1>4. ASSUME NEW c \in Clients, RunOffers(c) \/ RunWakes(c) PROVE CountsInPlay'
  BY <1>1, <1>4 DEF RunOffers, RunWakes
<1>5. ASSUME NEW c \in Clients, RunEnds(c) PROVE CountsInPlay'
  <2>1. ~HandedOver(c)
    BY <1>5 DEF RunEnds, Reads
  <2>2. /\ \A d \in Clients : online'[d] = IF d = c THEN 0 ELSE online[d]
        /\ UNCHANGED phase
    BY <1>1, <1>5, <2>1 DEF RunEnds, LeavePlay
  <2>3. run' = [run EXCEPT ![c] = "over"]
    BY <1>5 DEF RunEnds
  <2> QED BY <1>1, <2>2, <2>3
<1>6. ASSUME NEW c \in Clients, LoopLeaves(c) PROVE CountsInPlay'
  <2>1. HandedOver(c) /\ online[c] = 1
    BY <1>6 DEF LoopLeaves, OneCustodian, Custodian, At
  <2>2. online' = [online EXCEPT ![c] = 0] /\ UNCHANGED <<phase, run>>
    BY <1>1, <1>6, <2>1 DEF LoopLeaves, LeavePlay
  <2> QED BY <1>1, <2>1, <2>2
<1>7. ASSUME NEW c \in Clients,
             \/ PeerSends(c) \/ PeerCloses(c) \/ RunReads(c) \/ SweepFails(c)
             \/ LoopProcesses(c) \/ LoopReads(c) \/ LoopDrops(c)
      PROVE  CountsInPlay'
  BY <1>7 DEF PeerSends, PeerCloses, RunReads, SweepFails, LoopProcesses, LoopReads,
              LoopDrops, server
<1>8. CASE \/ SweepBegins \/ SweepWakes \/ LoopWaits \/ LoopDrainsWake \/ LoopSwaps
           \/ LoopRegisters \/ LoopCloses \/ \E f \in Fds : LoopServes(f)
  BY <1>8 DEF SweepBegins, SweepWakes, LoopWaits, LoopDrainsWake, LoopSwaps, LoopRegisters,
              LoopCloses, LoopServes, server
<1> QED BY <1>2, <1>3, <1>4, <1>5, <1>6, <1>7, <1>8 DEF Next, Peer, Run, Sweep, Loop

-------------------------------------------------------------------------------
(* Data                                                                       *)

\* What a concatenation holds, and where.
LEMMA Concatenation ==
  ASSUME NEW a \in Seq(Nat), NEW b \in Seq(Nat)
  PROVE  /\ a \o b \in Seq(Nat) /\ Len(a \o b) = Len(a) + Len(b)
         /\ \A i \in 1..Len(a \o b) :
              (a \o b)[i] = IF i <= Len(a) THEN a[i] ELSE b[i - Len(a)]
  OBVIOUS

\* A place in a concatenation is a place in one of its parts.
LEMMA Place ==
  ASSUME NEW a \in Nat, NEW b \in Nat, NEW k, k = a + b, NEW i \in 1..k
  PROVE  /\ i \in Nat /\ i <= a => i \in 1..a
         /\ ~(i <= a) => i - a \in 1..b /\ a + (i - a) = i
  OBVIOUS

\* To handle the front of what is left in order is to handle on in order, and
\* leaves the rest of it.
LEMMA Consume ==
  ASSUME NEW done \in Seq(Nat), NEW units \in Seq(Nat), NEW n \in 0..Len(units),
         NEW m, WholeAndInOrder(done), Even(n), Rest(Len(done), units, m)
  PROVE  LET more == done \o SubSeq(units, 1, n)
             rest == SubSeq(units, n + 1, Len(units))
         IN  WholeAndInOrder(more) /\ Rest(Len(more), rest, m)
<1> DEFINE front == SubSeq(units, 1, n)
           more == done \o front
           rest == SubSeq(units, n + 1, Len(units))
<1>1. Len(done) \in Nat /\ Len(units) \in Nat /\ n \in Nat
  OBVIOUS
<1>2. front \in Seq(Nat) /\ Len(front) = n /\ \A i \in 1..n : front[i] = units[i]
  <2>1. \A i \in 1..n : units[i] \in Nat
    BY <1>1
  <2>2. /\ SubSeq(units, 1, n) \in Seq(Nat)
        /\ Len(SubSeq(units, 1, n)) = IF 1 <= n THEN n - 1 + 1 ELSE 0
        /\ \A i \in 1..(n - 1 + 1) : SubSeq(units, 1, n)[i] = units[1 + i - 1]
    BY <1>1, <2>1, SubSeqProperties
  <2> QED BY <1>1, <2>2
<1>3. /\ Len(rest) = Len(units) - n
      /\ \A i \in 1..(Len(units) - n) : rest[i] = units[n + i]
  <2> DEFINE a == n + 1
             z == Len(units)
  <2>1. \A i \in a..z : units[i] \in Nat
    BY <1>1
  <2>2. a \in Int /\ z \in Int
    BY <1>1
  <2>3. /\ Len(SubSeq(units, a, z)) = IF a <= z THEN z - a + 1 ELSE 0
        /\ \A i \in 1..(z - a + 1) : SubSeq(units, a, z)[i] = units[a + i - 1]
    BY <2>1, <2>2, SubSeqProperties
  <2> QED BY <1>1, <2>3
<1>0. /\ \A i \in 1..Len(done) : done[i] = i
      /\ Even(Len(done)) /\ Len(done) + Len(units) = m
      /\ \A i \in 1..Len(units) : units[i] = Len(done) + i
  BY DEF WholeAndInOrder, Rest
<1>4. /\ Len(more) = Len(done) + n
      /\ \A i \in 1..Len(more) : more[i] = IF i <= Len(done) THEN done[i] ELSE front[i - Len(done)]
  <2> HIDE DEF front
  <2> QED BY <1>2, Concatenation DEF more
<1> HIDE DEF front, more, rest
<1>5. \A i \in 1..Len(more) : more[i] = i
  <2> SUFFICES ASSUME NEW i \in 1..Len(more) PROVE more[i] = i
    OBVIOUS
  <2>0. /\ i <= Len(done) => i \in 1..Len(done)
        /\ ~(i <= Len(done)) => i - Len(done) \in 1..n /\ Len(done) + (i - Len(done)) = i
    BY <1>1, <1>4, Place
  <2>1. CASE i <= Len(done)
    <3>1. done[i] = i
      BY <1>0, <2>0, <2>1
    <3> QED BY <1>4, <2>1, <3>1
  <2>2. CASE ~(i <= Len(done))
    <3>1. PICK j \in 1..n : j = i - Len(done) /\ Len(done) + j = i
      BY <2>0, <2>2
    <3>2. more[i] = front[j] /\ front[j] = units[j]
      BY <1>2, <1>4, <2>2, <3>1
    <3>3. units[j] = Len(done) + j
      BY <1>0, <1>1, <3>1
    <3> QED BY <1>1, <3>1, <3>2, <3>3
  <2> QED BY <2>1, <2>2
<1>6. Even(Len(more))
  <2>1. ASSUME NEW i \in Nat, NEW j \in Nat, Even(i), Even(j) PROVE Even(i + j)
    <3>1. PICK a \in Nat : i = 2 * a
      BY <2>1 DEF Even
    <3>2. PICK b \in Nat : j = 2 * b
      BY <2>1 DEF Even
    <3>3. i + j = 2 * (a + b) /\ a + b \in Nat
      BY <3>1, <3>2
    <3>4. ASSUME NEW h \in Nat, NEW k \in Nat, k = 2 * h PROVE k % 2 = 0
      BY <3>4
    <3>5. (i + j) % 2 = 0
      <4> SUFFICES ASSUME NEW h \in Nat, NEW k \in Nat, h = a + b, k = i + j
                   PROVE  k % 2 = 0
        BY <3>3
      <4>. QED BY <3>3, <3>4
    <3>. QED BY <3>5 DEF Even
  <2> QED BY <1>0, <1>1, <1>4, <2>1
<1>7. \A i \in 1..Len(rest) : rest[i] = Len(more) + i
  <2> SUFFICES ASSUME NEW i \in 1..Len(rest) PROVE rest[i] = Len(more) + i
    OBVIOUS
  <2>1. i \in 1..(Len(units) - n) /\ n + i \in 1..Len(units)
    BY <1>1, <1>3
  <2> QED BY <1>0, <1>1, <1>3, <1>4, <2>1
<1>8. Len(more) + Len(rest) = m
  BY <1>0, <1>1, <1>3, <1>4
<1>9. WholeAndInOrder(more) /\ Rest(Len(more), rest, m)
  BY <1>5, <1>6, <1>7, <1>8 DEF WholeAndInOrder, Rest
<1> QED BY <1>9 DEF more, rest, front

\* What is read next is the rest of what is left, too.
LEMMA Extend ==
  ASSUME KernelType, NEW c \in Clients, NEW done \in Nat, NEW units \in Seq(Nat),
         Unread(c) > 0, Rest(done, units, fetched[c])
  PROVE  Rest(done, units \o Chunk(c, ReadLength(c)), fetched[c] + ReadLength(c))
<1> DEFINE n == ReadLength(c)
           next == Chunk(c, n)
           more == units \o next
<1>0. done + Len(units) = fetched[c] /\ \A i \in 1..Len(units) : units[i] = done + i
  BY DEF Rest
<1>1. n \in Nat /\ Len(units) \in Nat /\ fetched[c] \in Nat
  BY ReadBounds DEF KernelType
<1>2. next \in Seq(Nat) /\ Len(next) = n /\ \A i \in 1..n : next[i] = fetched[c] + i
  BY <1>1, ChunkType
<1> HIDE DEF n, next
<1>3. /\ Len(more) = Len(units) + n
      /\ \A i \in 1..Len(more) : more[i] = IF i <= Len(units) THEN units[i] ELSE next[i - Len(units)]
  BY <1>1, <1>2, Concatenation
<1> HIDE DEF more
<1>4. \A i \in 1..Len(more) : more[i] = done + i
  <2> SUFFICES ASSUME NEW i \in 1..Len(more) PROVE more[i] = done + i
    OBVIOUS
  <2>1. CASE i <= Len(units)
    BY <1>0, <1>1, <1>3, <2>1
  <2>2. CASE ~(i <= Len(units))
    <3>1. i - Len(units) \in 1..n
      BY <1>1, <1>3, <2>2
    <3> QED BY <1>0, <1>1, <1>2, <1>3, <2>2, <3>1
  <2> QED BY <2>1, <2>2
<1>5. Rest(done, more, fetched[c] + n)
  BY <1>0, <1>1, <1>3, <1>4 DEF Rest
<1> QED BY <1>5 DEF more, next, n

\* Whoever handles frames of c -- its goroutine or the loop -- has the rest of
\* what c sent in hand, and leaves the rest of it.
LEMMA NothingLostStep ==
  ASSUME SocketInv, CustodyInv, Next, NEW c \in Clients
  PROVE  NothingLost(c)' /\ WholeAndInOrder(handled'[c])
<1>1. KernelType /\ ServerType /\ ReactorType /\ OnlyHandedOver
  BY TypeParts DEF SocketInv
<1>2. /\ Custodian(c) /\ NothingLost(c) /\ Len(Backlog) \in Nat
      /\ WholeAndInOrder(handled[c])
  BY <1>1, BacklogType DEF CustodyInv, OneCustodian, NothingLostAnywhere, HandledInOrder,
                           WholeAndInOrder, Even
<1>3. handled[c] \in Seq(Nat) /\ buffer[c] \in Seq(Nat) /\ pending[c] \in Seq(Nat)
      /\ fetched[c] \in Nat /\ Len(handled[c]) \in Nat
  BY <1>1 DEF KernelType, ServerType, ReactorType
<1>4. c \in held => HandedOver(c) /\ \A i \in 1..Len(Backlog) : ~Takes(c, i)
  BY <1>1, <1>2 DEF OnlyHandedOver, Custodian
<1>5. \A i \in 1..Len(Backlog) : Takes(c, i) => HandedOver(c)
  BY <1>1 DEF OnlyHandedOver, Takes
<1>6. HandedOver(c) => HandedOver(c)'
  BY <1>1, HandedOverStays
<1>7. ASSUME handled'[c] = handled[c], fetched'[c] = fetched[c], buffer'[c] = buffer[c],
             Backlog' = Backlog, c \in held' => c \in held /\ pending'[c] = pending[c]
      PROVE  NothingLost(c)' /\ WholeAndInOrder(handled'[c])
  BY <1>2, <1>6, <1>7 DEF NothingLost, Takes
<1>8. ASSUME NEW d \in Clients, RunReads(d) PROVE NothingLost(c)' /\ WholeAndInOrder(handled'[c])
  <2>1. Backlog' = Backlog /\ UNCHANGED <<handled, held, pending>>
    BY <1>8 DEF RunReads, reactor, Backlog
  <2>2. CASE c # d
    <3>1. fetched'[c] = fetched[c] /\ buffer'[c] = buffer[c]
      BY <1>1, <1>8, <2>2 DEF RunReads, KernelType, ServerType
    <3> QED BY <1>7, <2>1, <3>1
  <2>3. CASE c = d
    <3>1. ~HandedOver(c) /\ Unread(c) > 0
      BY <1>8, <2>3 DEF RunReads, Reads, HandedOver
    <3>2. Rest(Len(handled[c]), buffer[c], fetched[c]) /\ c \notin held /\ \A i \in 1..Len(Backlog) : ~Takes(c, i)
      BY <1>2, <1>4, <1>5, <3>1 DEF NothingLost
    <3>3. /\ buffer'[c] = buffer[c] \o Chunk(c, ReadLength(c))
          /\ fetched'[c] = fetched[c] + ReadLength(c)
      BY <1>1, <1>8, <2>3 DEF RunReads, KernelType, ServerType
    <3>4. Rest(Len(handled'[c]), buffer'[c], fetched'[c])
      BY <1>1, <1>3, <2>1, <3>1, <3>2, <3>3, Extend
    <3> QED BY <1>2, <2>1, <3>2, <3>4 DEF NothingLost, Takes
  <2> QED BY <2>2, <2>3
<1>9. ASSUME NEW d \in Clients, RunHandles(d) PROVE NothingLost(c)' /\ WholeAndInOrder(handled'[c])
  <2>1. Backlog' = Backlog /\ UNCHANGED <<fetched, held, pending>>
    BY <1>9 DEF RunHandles, kernel, reactor, Backlog
  <2>2. CASE c # d
    <3>1. handled'[c] = handled[c] /\ buffer'[c] = buffer[c]
      BY <1>1, <1>9, <2>2 DEF RunHandles, ServerType
    <3> QED BY <1>7, <2>1, <3>1
  <2>3. CASE c = d
    <3>1. ~HandedOver(c) /\ Len(buffer[c]) >= 2
      BY <1>9, <2>3 DEF RunHandles, Reads, HandedOver
    <3>2. Rest(Len(handled[c]), buffer[c], fetched[c]) /\ c \notin held /\ \A i \in 1..Len(Backlog) : ~Takes(c, i)
      BY <1>2, <1>4, <1>5, <3>1 DEF NothingLost
    <3>3. /\ handled'[c] = handled[c] \o SubSeq(buffer[c], 1, 2)
          /\ buffer'[c] = SubSeq(buffer[c], 2 + 1, Len(buffer[c]))
      <4>1. /\ handled' = [handled EXCEPT ![c] = @ \o SubSeq(buffer[c], 1, 2)]
            /\ buffer' = [buffer EXCEPT ![c] = SubSeq(@, 3, Len(@))]
        BY <1>9, <2>3, Zenon DEF RunHandles
      <4>2. handled \in [Clients -> Seq(Nat)] /\ buffer \in [Clients -> Seq(Nat)] /\ 2 + 1 = 3
        BY <1>1 DEF ServerType
      <4>. QED BY <4>1, <4>2, Zenon
    <3>4. 2 \in 0..Len(buffer[c]) /\ Even(2)
      BY <1>3, <3>1 DEF Even
    <3>5. Rest(Len(handled'[c]), buffer'[c], fetched'[c]) /\ WholeAndInOrder(handled'[c])
      BY <1>2, <1>3, <2>1, <3>2, <3>3, <3>4, Consume
    <3> QED BY <2>1, <3>2, <3>5 DEF NothingLost, Takes
  <2> QED BY <2>2, <2>3
<1>10. ASSUME NEW d \in Clients, RunOffers(d) PROVE NothingLost(c)' /\ WholeAndInOrder(handled'[c])
  <2>0. PICK n \in Nat : n = Len(Backlog)
    BY <1>2
  <2>1. /\ \A i \in 1..n : Backlog'[i] = Backlog[i]
        /\ Backlog'[n + 1] = TakeOver(d)
        /\ Len(Backlog') = n + 1
    <3>1. TakeOver(d) \in Commands
      BY <1>1 DEF TakeOver, Commands, ServerType
    <3> QED BY <1>1, <1>10, <2>0, <3>1, BacklogAppend DEF RunOffers
  <2>2. UNCHANGED <<handled, fetched, held, pending>>
    BY <1>10 DEF RunOffers, kernel
  <2>3. CASE c # d
    <3>1. buffer'[c] = buffer[c] /\ TakeOver(d).client # c
      BY <1>1, <1>10, <2>3 DEF RunOffers, ServerType, TakeOver
    <3>2. \A i \in 1..Len(Backlog') : Takes(c, i)' =>
            i \in 1..n /\ Takes(c, i) /\ Backlog'[i] = Backlog[i]
      BY <2>0, <2>1, <3>1 DEF Takes
    <3> QED BY <1>2, <1>6, <2>0, <2>2, <3>1, <3>2 DEF NothingLost
  <2>4. CASE c = d
    <3>1. ~HandedOver(c) /\ HandedOver(c)'
      BY <1>1, <1>10, <2>4 DEF RunOffers, HandedOver, ServerType
    <3>2. \A i \in 1..Len(Backlog') : Takes(c, i)' => i = n + 1
      BY <1>5, <2>0, <2>1, <3>1 DEF Takes
    <3>3. Backlog'[n + 1].residue = buffer[c] /\ Rest(Len(handled[c]), buffer[c], fetched[c]) /\ c \notin held
      BY <1>2, <1>4, <2>1, <2>4, <3>1 DEF TakeOver, NothingLost
    <3> QED BY <1>2, <2>2, <3>1, <3>2, <3>3 DEF NothingLost
  <2> QED BY <2>3, <2>4
<1>11. ASSUME NEW d \in Clients, SweepFails(d) PROVE NothingLost(c)' /\ WholeAndInOrder(handled'[c])
  <2>0. PICK n \in Nat : n = Len(Backlog)
    BY <1>2
  <2>1. /\ \A i \in 1..n : Backlog'[i] = Backlog[i]
        /\ Backlog'[n + 1] = Close(d)
        /\ Len(Backlog') = n + 1
    <3>1. Close(d) \in Commands
      BY DEF Close, Commands
    <3> QED BY <1>1, <1>11, <2>0, <3>1, BacklogAppend DEF SweepFails
  <2>2. \A i \in 1..Len(Backlog') : Takes(c, i)' =>
          i \in 1..n /\ Takes(c, i) /\ Backlog'[i] = Backlog[i]
    BY <2>0, <2>1 DEF Takes, Close
  <2>3. UNCHANGED <<handled, fetched, buffer, held, pending>>
    BY <1>11 DEF SweepFails, kernel, server
  <2> QED BY <1>2, <1>6, <2>0, <2>2, <2>3 DEF NothingLost
<1>12. CASE LoopRegisters \/ LoopCloses
  <2>1. /\ \A i \in 1..Len(Backlog') : Backlog'[i] = Backlog[i + 1] /\ i + 1 \in 1..Len(Backlog)
        /\ Backlog[1] = Head(commands) /\ 1 \in 1..Len(Backlog)
    BY <1>1, <1>12, BacklogTail DEF LoopRegisters, LoopCloses
  <2>2. \A i \in 1..Len(Backlog') : Takes(c, i)' =>
          Takes(c, i + 1) /\ Backlog'[i] = Backlog[i + 1] /\ i + 1 \in 1..Len(Backlog)
    BY <2>1 DEF Takes
  <2>3. UNCHANGED <<handled, fetched, buffer>>
    BY <1>12 DEF LoopRegisters, LoopCloses, server
  <2>4. c \in held' => Rest(Len(handled[c]), pending'[c], fetched[c])
    <3>1. CASE LoopRegisters /\ c = Head(commands).client /\ open[c]
      <4>1. pending'[c] = Backlog[1].residue /\ Takes(c, 1)
        BY <1>1, <2>1, <3>1 DEF LoopRegisters, ReactorType, Takes
      <4> QED BY <1>2, <2>1, <4>1 DEF NothingLost
    <3>2. CASE ~(LoopRegisters /\ c = Head(commands).client /\ open[c])
      <4>1. c \in held' => c \in held /\ pending'[c] = pending[c]
        BY <1>1, <1>12, <3>2 DEF LoopRegisters, LoopCloses, ReactorType
      <4> QED BY <1>2, <4>1 DEF NothingLost
    <3> QED BY <3>1, <3>2
  <2> QED BY <1>2, <1>6, <2>2, <2>3, <2>4 DEF NothingLost
<1>13. ASSUME NEW d \in Clients, LoopProcesses(d) PROVE NothingLost(c)' /\ WholeAndInOrder(handled'[c])
  <2>1. Backlog' = Backlog /\ UNCHANGED <<run, fetched, buffer, held>>
    BY <1>13 DEF LoopProcesses, kernel, Backlog
  <2>2. CASE c # d
    <3>1. handled'[c] = handled[c] /\ pending'[c] = pending[c]
      BY <1>1, <1>13, <2>2 DEF LoopProcesses, ServerType, ReactorType
    <3> QED BY <1>7, <2>1, <3>1
  <2>3. CASE c = d
    <3> DEFINE n == Whole(c, pending[c])
    <3>1. c \in held
      BY <1>2, <1>13, <2>3 DEF LoopProcesses, Custodian, At
    <3>2. Rest(Len(handled[c]), pending[c], fetched[c]) /\ HandedOver(c) /\ \A i \in 1..Len(Backlog) : ~Takes(c, i)
      BY <1>2, <1>4, <3>1 DEF NothingLost
    <3>3. /\ handled'[c] = handled[c] \o SubSeq(pending[c], 1, n)
          /\ pending'[c] = SubSeq(pending[c], n + 1, Len(pending[c]))
      BY <1>1, <1>13, <2>3 DEF LoopProcesses, ServerType, ReactorType
    <3>4. n \in 0..Len(pending[c]) /\ Even(n)
      BY <1>3, WholeBounds DEF Even
    <3> HIDE DEF n
    <3>5. Rest(Len(handled'[c]), pending'[c], fetched'[c]) /\ WholeAndInOrder(handled'[c])
      BY <1>2, <1>3, <2>1, <3>2, <3>3, <3>4, Consume
    <3> QED BY <1>6, <2>1, <3>2, <3>5 DEF NothingLost, Takes
  <2> QED BY <2>2, <2>3
<1>14. ASSUME NEW d \in Clients, LoopReads(d) PROVE NothingLost(c)' /\ WholeAndInOrder(handled'[c])
  <2>1. Backlog' = Backlog /\ UNCHANGED <<handled, buffer, held>>
    BY <1>14 DEF LoopReads, server, Backlog
  <2>2. CASE c # d \/ ~(Unread(d) > 0)
    <3>1. fetched'[c] = fetched[c] /\ pending'[c] = pending[c]
      BY <1>1, <1>14, <2>2 DEF LoopReads, KernelType, ReactorType
    <3> QED BY <1>7, <2>1, <3>1
  <2>3. CASE c = d /\ Unread(c) > 0
    <3>1. c \in held
      BY <1>2, <1>14, <2>3 DEF LoopReads, Custodian, At
    <3>2. Rest(Len(handled[c]), pending[c], fetched[c]) /\ HandedOver(c) /\ \A i \in 1..Len(Backlog) : ~Takes(c, i)
      BY <1>2, <1>4, <3>1 DEF NothingLost
    <3>3. /\ pending'[c] = pending[c] \o Chunk(c, ReadLength(c))
          /\ fetched'[c] = fetched[c] + ReadLength(c)
      BY <1>1, <1>14, <2>3 DEF LoopReads, KernelType, ReactorType
    <3>4. Rest(Len(handled'[c]), pending'[c], fetched'[c])
      BY <1>1, <1>3, <2>1, <2>3, <3>2, <3>3, Extend
    <3> QED BY <1>2, <1>6, <2>1, <3>2, <3>4 DEF NothingLost, Takes
  <2> QED BY <2>2, <2>3
<1>15. ASSUME NEW d \in Clients,
              \/ PeerSends(d) \/ PeerCloses(d) \/ Accept(d) \/ RunWakes(d) \/ RunEnds(d)
              \/ LoopDrops(d) \/ LoopLeaves(d)
       PROVE  NothingLost(c)' /\ WholeAndInOrder(handled'[c])
  <2>1. /\ UNCHANGED <<handled, fetched, buffer, pending>> /\ Backlog' = Backlog
        /\ held' \subseteq held
    BY <1>15 DEF PeerSends, PeerCloses, Accept, RunWakes, RunEnds, LoopDrops, LoopLeaves,
                 kernel, server, reactor, Backlog
  <2> QED BY <1>7, <2>1
<1>16. CASE \/ SweepBegins \/ SweepWakes \/ LoopWaits \/ LoopDrainsWake \/ LoopSwaps
            \/ \E f \in Fds : LoopServes(f)
  <2>1. UNCHANGED <<handled, fetched, buffer, pending, held>>
    BY <1>16 DEF SweepBegins, SweepWakes, LoopWaits, LoopDrainsWake, LoopSwaps, LoopServes,
                 kernel, server, reactor
  <2>2. Backlog' = Backlog
    BY <1>1, <1>16, BacklogSwap
       DEF SweepBegins, SweepWakes, LoopWaits, LoopDrainsWake, LoopServes, reactor, Backlog
  <2> QED BY <1>7, <2>1, <2>2
<1> QED
  BY <1>8, <1>9, <1>10, <1>11, <1>12, <1>13, <1>14, <1>15, <1>16
     DEF Next, Peer, Run, Sweep, Loop

\* Every step keeps all of it.
LEMMA CustodyStep == SocketInv /\ CustodyInv /\ [Next]_vars => CustodyInv'
<1> SUFFICES ASSUME SocketInv, CustodyInv, [Next]_vars PROVE CustodyInv'
  OBVIOUS
<1>1. CASE Next
  <2>1. OneCustodian' /\ CountsInPlay'
    BY <1>1, CustodianStep, CountsInPlayStep DEF CustodyInv, OneCustodian
  <2>2. NothingLostAnywhere' /\ HandledInOrder'
    BY <1>1, NothingLostStep DEF NothingLostAnywhere, HandledInOrder, WholeAndInOrder, Even
  <2> QED BY <2>1, <2>2 DEF CustodyInv
<1>2. CASE UNCHANGED vars
  <2> USE <1>2 DEF vars, kernel, server, reactor
  <2>1. Backlog' = Backlog
    BY DEF Backlog
  <2>2. OneCustodian'
    BY <2>1 DEF CustodyInv, OneCustodian, Custodian, HandedOver, Takes
  <2>3. CountsInPlay' /\ HandledInOrder'
    BY DEF CustodyInv, CountsInPlay, HandledInOrder, HandedOver
  <2>4. NothingLostAnywhere'
    BY <2>1 DEF CustodyInv, NothingLostAnywhere, NothingLost, HandedOver, Takes
  <2> QED BY <2>2, <2>3, <2>4 DEF CustodyInv
<1> QED BY <1>1, <1>2

\* It holds from the start.
LEMMA CustodyInit == Init => CustodyInv
<1> SUFFICES ASSUME Init PROVE CustodyInv
  OBVIOUS
<1>1. Len(Backlog) = 0
  BY DEF Init, Backlog
<1>2. OneCustodian
  BY <1>1, NamesAssumption DEF Init, OneCustodian, Custodian, HandedOver, Serving, At
<1>3. CountsInPlay
  BY DEF Init, CountsInPlay, HandedOver
<1>4. NothingLostAnywhere
  BY <1>1 DEF Init, NothingLostAnywhere, NothingLost, Rest
<1>5. HandledInOrder
  BY DEF Init, HandledInOrder
<1> QED BY <1>2, <1>3, <1>4, <1>5 DEF CustodyInv

\* Both invariants, in every state.
LEMMA Invariants == Spec => [](SocketInv /\ CustodyInv)
<1>1. Init => SocketInv /\ CustodyInv
  BY SocketInit, CustodyInit
<1>2. SocketInv /\ CustodyInv /\ [Next]_vars => (SocketInv /\ CustodyInv)'
  BY SocketStep, CustodyStep
<1> QED BY <1>1, <1>2, PTL DEF Spec

(* "The one rule that keeps them honest" holds however many connections share *)
(* however few descriptors: what the loop has mapped is open, is that         *)
(* connection's, and is in the epoll set.                                     *)
THEOREM DescriptorsHonestAlways == Spec => []DescriptorsHonest
<1>1. SocketInv => DescriptorsHonest
  BY DEF SocketInv
<1> QED BY <1>1, Invariants, PTL

(* What is handled is what was sent, in whole frames, across the buffer of    *)
(* the goroutine, the takeover and the reads of the loop.                     *)
THEOREM HandledInOrderAlways == Spec => []HandledInOrder
<1>1. CustodyInv => HandledInOrder
  BY DEF CustodyInv
<1> QED BY <1>1, Invariants, PTL

(* A connection that ended is counted out, and once, whoever ended it.        *)
THEOREM CountedOutOnceAlways == Spec => []CountedOutOnce
<1>1. SocketInv /\ CustodyInv => CountedOutOnce
  <2> SUFFICES ASSUME SocketInv, CustodyInv, NEW c \in Clients
               PROVE  /\ online[c] \in {0, 1}
                      /\ run[c] = "over" /\ c \notin clients /\ loop.client # c => online[c] = 0
    BY DEF CountedOutOnce
  <2>1. online[c] \in {0, 1} /\ Custodian(c)
    BY DEF CustodyInv, CountsInPlay, OneCustodian
  <2> QED BY <2>1 DEF Custodian, HandedOver
<1> QED BY <1>1, Invariants, PTL

===============================================================================
