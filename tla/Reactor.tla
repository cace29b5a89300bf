-------------------------------- MODULE Reactor --------------------------------
(* How joined connections are served: src/server/reactor.go, with its poller  *)
(* (src/server/poller_linux.go), the goroutines that hand connections to it   *)
(* (handleConnection in src/server/server.go, Run in src/client/run.go), the  *)
(* sweep that has it close them, and the kernel under all of them, which      *)
(* gives a closed connection's descriptor to the next one.                    *)
(*                                                                            *)
(* What a peer sends are units, numbered from 1; two of them are a frame, so  *)
(* that a read may end in the middle of one. The first frame is the one whose *)
(* handling puts the connection in play.                                      *)
EXTENDS Integers, Sequences, FiniteSets

CONSTANTS
  Clients,
  Fds,         \* the descriptors there are
  Pipes,       \* the connections that may have no descriptor: the reactor declines them
  Garbled,     \* the connections whose last frame has no length that is valid
  Frames,      \* bound: how many frames each peer sends
  ReadSize,    \* how many units one read takes at most
  MaxAsks      \* bound: how often the sweep fails on one connection

ASSUME SubsetsAssumption == Pipes \subseteq Clients /\ Garbled \subseteq Clients
ASSUME BoundsAssumption ==
  /\ Frames \in [Clients -> Nat \ {0}]
  /\ {ReadSize, MaxAsks} \subseteq Nat \ {0}

VARIABLES
  \* the peers and the kernel
  sent,        \* how many units each has sent
  peerDone,    \* it has closed
  fetched,     \* how many of them were read off the socket
  open,        \* the connection is open on this end
  fd,          \* its descriptor, for as long as it is
  armed,       \* the descriptors in the epoll set
  ready,       \* those with an edge to report
  pipe,        \* the wake pipe is readable
  \* Server and Client
  run,         \* where the goroutine of handleConnection is
  buffer,      \* read by it and not consumed
  phase,
  online,      \* how often a connection counts among status.online
  clients,     \* Server.clients
  handled,     \* the units consumed, in order
  \* the sweep
  sweeping,    \* what is left of its snapshot that it fails on
  asks,        \* how often it has failed on a connection
  \* the reactor
  queue,       \* r.queue
  byFd,        \* r.byFd
  held,        \* the keys of r.byClient
  pending,     \* reactorConn.pending
  wakes,       \* who has appended to the queue and not written to the pipe
  loop,        \* where the loop is, and with whose connection
  events,      \* what is left of the events of this wait
  commands     \* what is left of the queue it swapped out

kernel == <<sent, peerDone, fetched, open, fd, armed, ready, pipe>>
server == <<run, buffer, phase, online, clients, handled>>
sweep == <<sweeping, asks>>
reactor == <<queue, byFd, held, pending, wakes, loop, events, commands>>
vars == <<kernel, server, sweep, reactor>>

Nobody == "nobody"
NoFd == "no fd"
ASSUME NamesAssumption == Nobody \notin Clients /\ NoFd \notin Fds

\* The last unit a peer sends.
Last(c) == 2 * Frames[c]
At(step, c) == [step |-> step, client |-> c]
Serving == At("serve", Nobody)

TakeOver(c) == [client |-> c, take |-> TRUE, residue |-> buffer[c]]
Close(c) == [client |-> c, take |-> FALSE, residue |-> <<>>]

\* The connection is closed, and its descriptor is anybody's: what the kernel
\* knew of it is gone, but not an event it has already reported.
Closed(c) ==
  /\ open' = [open EXCEPT ![c] = FALSE]
  /\ fd' = [fd EXCEPT ![c] = NoFd]
  /\ armed' = armed \ {fd[c]}
  /\ ready' = ready \ {fd[c]}

Unread(c) == sent[c] - fetched[c]

\* The next n units off the socket.
Chunk(c, n) == [i \in 1..n |-> fetched[c] + i]
ReadLength(c) == IF Unread(c) < ReadSize THEN Unread(c) ELSE ReadSize

\* The length at the front of a buffer cannot be one.
Invalid(c, units) == c \in Garbled /\ units # <<>> /\ Head(units) = Last(c) - 1

LeavePlay(c) ==
  online' = IF phase[c] = "play" THEN [online EXCEPT ![c] = @ - 1] ELSE online

Init ==
  /\ sent = [c \in Clients |-> 0] /\ fetched = sent
  /\ peerDone = [c \in Clients |-> FALSE] /\ open = peerDone
  /\ fd = [c \in Clients |-> NoFd]
  /\ armed = {} /\ ready = {} /\ pipe = FALSE
  /\ run = [c \in Clients |-> "away"]
  /\ buffer = [c \in Clients |-> <<>>] /\ handled = buffer /\ pending = buffer
  /\ phase = [c \in Clients |-> "login"]
  /\ online = [c \in Clients |-> 0]
  /\ clients = {} /\ sweeping = {} /\ asks = online
  /\ queue = <<>> /\ byFd = [f \in Fds |-> Nobody] /\ held = {} /\ wakes = {}
  /\ loop = Serving /\ events = {} /\ commands = <<>>

-------------------------------------------------------------------------------
(* The peers                                                                  *)

\* An edge on an armed descriptor is there to report.
Edge(c) == ready' = IF fd[c] \in armed THEN ready \cup {fd[c]} ELSE ready

PeerSends(c) ==
  /\ open[c] /\ ~peerDone[c] /\ sent[c] < Last(c)
  /\ sent' = [sent EXCEPT ![c] = @ + 1]
  /\ Edge(c)
  /\ UNCHANGED <<peerDone, fetched, open, fd, armed, pipe, server, sweep, reactor>>

PeerCloses(c) ==
  /\ open[c] /\ ~peerDone[c]
  /\ peerDone' = [peerDone EXCEPT ![c] = TRUE]
  /\ Edge(c)
  /\ UNCHANGED <<sent, fetched, open, fd, armed, pipe, server, sweep, reactor>>

-------------------------------------------------------------------------------
(* handleConnection, on a goroutine of its own for each connection            *)

\* The goroutine reads the connection, and in "alone" it does to the end.
Reads(c) == run[c] \in {"reading", "alone"}

\* The kernel is free to number a connection like one that was closed.
Accept(c) ==
  /\ run[c] = "away"
  /\ open' = [open EXCEPT ![c] = TRUE]
  /\ \/ /\ c \in Pipes
        /\ run' = [run EXCEPT ![c] = "alone"]
        /\ UNCHANGED fd
     \/ /\ run' = [run EXCEPT ![c] = "reading"]
        /\ \E f \in Fds \ {fd[d] : d \in Clients} : fd' = [fd EXCEPT ![c] = f]
  /\ clients' = clients \cup {c}
  /\ UNCHANGED <<sent, peerDone, fetched, armed, ready, pipe, buffer, phase, online,
                 handled, sweep, reactor>>

\* Run reads through its buffer, as much as there is.
RunReads(c) ==
  /\ Reads(c) /\ open[c] /\ Unread(c) > 0 /\ Len(buffer[c]) < 2
  /\ buffer' = [buffer EXCEPT ![c] = @ \o Chunk(c, ReadLength(c))]
  /\ fetched' = [fetched EXCEPT ![c] = @ + ReadLength(c)]
  /\ UNCHANGED <<sent, peerDone, open, fd, armed, ready, pipe, run, phase, online,
                 clients, handled, sweep, reactor>>

\* It handles one frame at a time. Once one has put the client in play, the
\* connection is offered to the reactor.
RunHandles(c) ==
  /\ Reads(c) /\ Len(buffer[c]) >= 2 /\ ~Invalid(c, buffer[c])
  /\ handled' = [handled EXCEPT ![c] = @ \o SubSeq(buffer[c], 1, 2)]
  /\ buffer' = [buffer EXCEPT ![c] = SubSeq(@, 3, Len(@))]
  /\ phase' = [phase EXCEPT ![c] = "play"]
  /\ online' = IF phase[c] = "play" THEN online ELSE [online EXCEPT ![c] = @ + 1]
  /\ run' = IF run[c] = "alone" THEN run ELSE [run EXCEPT ![c] = "offering"]
  /\ UNCHANGED <<kernel, clients, sweep, reactor>>

\* Mutant: what the goroutine had read ahead is not handed over.
RunOffersBare(c) ==
  /\ run[c] = "offering"
  /\ queue' = Append(queue, [TakeOver(c) EXCEPT !.residue = <<>>])
  /\ wakes' = wakes \cup {c}
  /\ run' = [run EXCEPT ![c] = "waking"]
  /\ UNCHANGED <<kernel, buffer, phase, online, clients, handled, sweep, byFd, held,
                 pending, loop, events, commands>>

\* take: TakeoverRead, and the command it goes into.
RunOffers(c) ==
  /\ run[c] = "offering"
  /\ queue' = Append(queue, TakeOver(c))
  /\ wakes' = wakes \cup {c}
  /\ run' = [run EXCEPT ![c] = "waking"]
  /\ buffer' = [buffer EXCEPT ![c] = <<>>]
  /\ UNCHANGED <<kernel, phase, online, clients, handled, sweep, byFd, held,
                 pending, loop, events, commands>>

\* enqueue's last step; Run returns, and has nothing left to end.
RunWakes(c) ==
  /\ run[c] = "waking"
  /\ pipe' = TRUE
  /\ wakes' = wakes \ {c}
  /\ run' = [run EXCEPT ![c] = "over"]
  /\ UNCHANGED <<sent, peerDone, fetched, open, fd, armed, ready, buffer, phase, online,
                 clients, handled, sweep, queue, byFd, held, pending, loop, events,
                 commands>>

\* The connection ended on the goroutine: closed by either end, unreadable, or
\* silent for readTimeout.
RunEnds(c) ==
  /\ Reads(c)
  /\ \/ ~open[c] /\ Len(buffer[c]) < 2
     \/ Unread(c) = 0 /\ Len(buffer[c]) < 2
     \/ Invalid(c, buffer[c])
  /\ LeavePlay(c)
  /\ clients' = clients \ {c}
  /\ Closed(c)
  /\ run' = [run EXCEPT ![c] = "over"]
  /\ UNCHANGED <<sent, peerDone, fetched, pipe, buffer, phase, handled, sweep, reactor>>

-------------------------------------------------------------------------------
(* sweepKeepAlives: a snapshot of the clients, and those of them it will fail *)
(* on in turn                                                                 *)

\* What it sends to the others of the snapshot is Connection's to tell.
SweepBegins ==
  /\ sweeping = {} /\ Nobody \notin wakes
  /\ sweeping' \in SUBSET {c \in clients : asks[c] < MaxAsks}
  /\ UNCHANGED <<kernel, server, asks, reactor>>

\* Mutant: the sweep closes what it could not reach by its own hand.
SweepFailsHere(c) ==
  /\ c \in sweeping /\ Nobody \notin wakes
  /\ sweeping' = sweeping \ {c}
  /\ asks' = [asks EXCEPT ![c] = @ + 1]
  /\ Closed(c)
  /\ UNCHANGED <<sent, peerDone, fetched, pipe, server, reactor>>

\* disconnect: whatever has become of the connection since the snapshot.
SweepFails(c) ==
  /\ c \in sweeping /\ Nobody \notin wakes
  /\ sweeping' = sweeping \ {c}
  /\ asks' = [asks EXCEPT ![c] = @ + 1]
  /\ queue' = Append(queue, Close(c))
  /\ wakes' = wakes \cup {Nobody}
  /\ UNCHANGED <<kernel, server, byFd, held, pending, loop, events, commands>>

SweepWakes ==
  /\ Nobody \in wakes
  /\ pipe' = TRUE
  /\ wakes' = wakes \ {Nobody}
  /\ UNCHANGED <<sent, peerDone, fetched, open, fd, armed, ready, server, sweep, queue,
                 byFd, held, pending, loop, events, commands>>

-------------------------------------------------------------------------------
(* The loop                                                                   *)

Idle == loop = Serving /\ commands = <<>>

\* wait reports every edge there is, once, and the pipe for as long as it is
\* readable.
LoopWaits ==
  /\ Idle /\ events = {}
  /\ pipe \/ ready # {}
  /\ events' = ready \cup (IF pipe THEN {"wake"} ELSE {})
  /\ ready' = {}
  /\ loop' = IF pipe THEN At("drain", Nobody) ELSE Serving
  /\ UNCHANGED <<sent, peerDone, fetched, open, fd, armed, pipe, server, sweep, queue,
                 byFd, held, pending, wakes, commands>>

LoopDrainsWake ==
  /\ loop = At("drain", Nobody)
  /\ pipe' = FALSE
  /\ loop' = Serving
  /\ UNCHANGED <<sent, peerDone, fetched, open, fd, armed, ready, server, sweep, queue,
                 byFd, held, pending, wakes, events, commands>>

\* Mutant: a wake is taken for one command.
LoopSwapsOne ==
  /\ Idle /\ "wake" \in events
  /\ commands' = SubSeq(queue, 1, 1) /\ queue' = SubSeq(queue, 2, Len(queue))
  /\ events' = events \ {"wake"}
  /\ UNCHANGED <<kernel, server, sweep, byFd, held, pending, wakes, loop>>

\* drainQueue takes everything there is.
LoopSwaps ==
  /\ Idle /\ "wake" \in events
  /\ commands' = queue /\ queue' = <<>>
  /\ events' = events \ {"wake"}
  /\ UNCHANGED <<kernel, server, sweep, byFd, held, pending, wakes, loop>>

\* Mutant: every event has a connection behind it.
LoopServesAny(f) ==
  /\ Idle /\ f \in events \cap Fds
  /\ events' = events \ {f}
  /\ loop' = At("read", byFd[f])
  /\ UNCHANGED <<kernel, server, sweep, queue, byFd, held, pending, wakes, commands>>

\* An event of a descriptor nobody is behind was reported before the drop.
LoopServes(f) ==
  /\ Idle /\ f \in events \cap Fds
  /\ events' = events \ {f}
  /\ loop' = IF byFd[f] = Nobody THEN loop ELSE At("read", byFd[f])
  /\ UNCHANGED <<kernel, server, sweep, queue, byFd, held, pending, wakes, commands>>

\* Mutant: only bytes still to come are looked at.
LoopRegistersUnprocessed ==
  /\ loop = Serving /\ commands # <<>> /\ Head(commands).take
  /\ commands' = Tail(commands)
  /\ LET c == Head(commands).client IN
     IF open[c]
     THEN /\ armed' = armed \cup {fd[c]}
          /\ ready' = IF Unread(c) > 0 \/ peerDone[c] THEN ready \cup {fd[c]} ELSE ready
          /\ byFd' = [byFd EXCEPT ![fd[c]] = c] /\ held' = held \cup {c}
          /\ pending' = [pending EXCEPT ![c] = Head(commands).residue]
          /\ loop' = At("read", c)
     ELSE loop' = At("drop", c) /\ UNCHANGED <<armed, ready, byFd, held, pending>>
  /\ UNCHANGED <<sent, peerDone, fetched, open, fd, pipe, server, sweep, queue, wakes,
                 events>>

\* register: a descriptor armed with bytes waiting has its edge at once. One
\* that was closed on its way here is dropped without ever being mapped.
LoopRegisters ==
  /\ loop = Serving /\ commands # <<>> /\ Head(commands).take
  /\ commands' = Tail(commands)
  /\ LET c == Head(commands).client IN
     IF open[c]
     THEN /\ armed' = armed \cup {fd[c]}
          /\ ready' = IF Unread(c) > 0 \/ peerDone[c] THEN ready \cup {fd[c]} ELSE ready
          /\ byFd' = [byFd EXCEPT ![fd[c]] = c] /\ held' = held \cup {c}
          /\ pending' = [pending EXCEPT ![c] = Head(commands).residue]
          /\ loop' = At("process", c)
     ELSE loop' = At("drop", c) /\ UNCHANGED <<armed, ready, byFd, held, pending>>
  /\ UNCHANGED <<sent, peerDone, fetched, open, fd, pipe, server, sweep, queue, wakes,
                 events>>

\* A close asked for: of a connection held, of one still on its goroutine, of
\* one whose takeover is behind it in the queue, or of one long gone.
LoopCloses ==
  /\ loop = Serving /\ commands # <<>> /\ ~Head(commands).take
  /\ commands' = Tail(commands)
  /\ LET c == Head(commands).client IN
     IF c \in held
     THEN loop' = At("drop", c) /\ UNCHANGED <<open, fd, armed, ready>>
     ELSE Closed(c) /\ UNCHANGED loop
  /\ UNCHANGED <<sent, peerDone, fetched, pipe, server, sweep, queue, byFd, held, pending,
                 wakes, events>>

\* How much of a buffer is whole frames, up to the first without a length.
Whole(c, units) ==
  LET whole == 2 * (Len(units) \div 2)
      bad == {i \in 1..Len(units) : i % 2 = 1 /\ Invalid(c, SubSeq(units, i, Len(units)))}
  IN IF bad = {} THEN whole ELSE (CHOOSE i \in bad : TRUE) - 1

\* processPending, with HandlePlayBody for every whole frame.
LoopProcesses(c) ==
  /\ loop = At("process", c)
  /\ LET n == Whole(c, pending[c])
         rest == SubSeq(pending[c], n + 1, Len(pending[c])) IN
     /\ handled' = [handled EXCEPT ![c] = @ \o SubSeq(pending[c], 1, n)]
     /\ pending' = [pending EXCEPT ![c] = rest]
     /\ loop' = IF Invalid(c, rest) THEN At("drop", c) ELSE At("read", c)
  /\ UNCHANGED <<kernel, run, buffer, phase, online, clients, sweep, queue, byFd, held,
                 wakes, events, commands>>

\* readReady: until the kernel has nothing more.
LoopReads(c) ==
  /\ loop = At("read", c)
  /\ IF Unread(c) > 0
     THEN /\ pending' = [pending EXCEPT ![c] = @ \o Chunk(c, ReadLength(c))]
          /\ fetched' = [fetched EXCEPT ![c] = @ + ReadLength(c)]
          /\ loop' = At("process", c)
     ELSE /\ loop' = IF peerDone[c] THEN At("drop", c) ELSE Serving
          /\ UNCHANGED <<pending, fetched>>
  /\ UNCHANGED <<sent, peerDone, open, fd, armed, ready, pipe, server, sweep, queue, byFd,
                 held, wakes, events, commands>>

\* Mutant: the connection is found by its client again.
LoopDropsFd(c) ==
  /\ loop = At("drop", c)
  /\ byFd' = [f \in Fds |-> IF f = fd[c] THEN Nobody ELSE byFd[f]]
  /\ Closed(c)
  /\ loop' = At("leave", c)
  /\ UNCHANGED <<sent, peerDone, fetched, pipe, server, sweep, queue, held, pending,
                 wakes, events, commands>>

\* drop: unmapped, then closed.
LoopDrops(c) ==
  /\ loop = At("drop", c)
  /\ byFd' = [f \in Fds |-> IF f = fd[c] THEN Nobody ELSE byFd[f]]
  /\ held' = held \ {c}
  /\ Closed(c)
  /\ loop' = At("leave", c)
  /\ UNCHANGED <<sent, peerDone, fetched, pipe, server, sweep, queue, pending, wakes,
                 events, commands>>

\* The rest of drop: removeClient and LeavePlay.
LoopLeaves(c) ==
  /\ loop = At("leave", c)
  /\ clients' = clients \ {c}
  /\ LeavePlay(c)
  /\ loop' = Serving
  /\ UNCHANGED <<kernel, run, buffer, phase, handled, sweep, queue, byFd, held, pending,
                 wakes, events, commands>>

-------------------------------------------------------------------------------
Peer == \E c \in Clients : PeerSends(c) \/ PeerCloses(c)
Run(c) == RunReads(c) \/ RunHandles(c) \/ RunOffers(c) \/ RunWakes(c) \/ RunEnds(c)
Sweep == SweepBegins \/ SweepWakes
         \/ \E c \in Clients : SweepFails(c)
Loop ==
  \/ LoopWaits \/ LoopDrainsWake \/ LoopSwaps \/ LoopRegisters \/ LoopCloses
  \/ \E f \in Fds : LoopServes(f)
  \/ \E c \in Clients :
       LoopProcesses(c) \/ LoopReads(c) \/ LoopDrops(c) \/ LoopLeaves(c)

Next == Peer \/ (\E c \in Clients : Accept(c) \/ Run(c)) \/ Sweep \/ Loop

Spec == Init /\ [][Next]_vars

\* The goroutines run on: a connection's, the loop's, and the sweep's between
\* an append and its wake.
Fairness == /\ \A c \in Clients : WF_vars(Run(c))
            /\ WF_vars(SweepWakes)
            /\ WF_vars(Loop)

FairSpec == Spec /\ Fairness

-------------------------------------------------------------------------------
(* Properties                                                                 *)

Commands == [client : Clients, take : BOOLEAN, residue : Seq(Nat)]

TypeOK ==
  /\ {sent, fetched} \subseteq [Clients -> Nat]
  /\ \A c \in Clients : fetched[c] <= sent[c] /\ sent[c] <= Last(c)
  /\ peerDone \in [Clients -> BOOLEAN] /\ open \in [Clients -> BOOLEAN]
  /\ fd \in [Clients -> Fds \cup {NoFd}] /\ armed \subseteq Fds /\ ready \subseteq armed
  /\ pipe \in BOOLEAN
  /\ run \in [Clients -> {"away", "reading", "alone", "offering", "waking", "over"}]
  /\ phase \in [Clients -> {"login", "play"}] /\ online \in [Clients -> Int]
  /\ \A buf \in {buffer, handled, pending} : buf \in [Clients -> Seq(Nat)]
  /\ {clients, sweeping, held} \subseteq SUBSET Clients
  /\ asks \in [Clients -> 0..MaxAsks]
  /\ queue \in Seq(Commands) /\ commands \in Seq(Commands)
  /\ byFd \in [Fds -> Clients \cup {Nobody}] /\ wakes \subseteq Clients \cup {Nobody}
  /\ loop \in [step : {"process", "read", "drop", "leave"}, client : Clients]
             \cup [step : {"drain", "serve"}, client : {Nobody}]
  /\ events \subseteq Fds \cup {"wake"}

\* "The one rule that keeps them honest": a descriptor the loop has mapped is
\* that of the connection it is mapped to, which is open, however often the
\* kernel has given the number away; and the two maps are of one mind.
DescriptorsHonest ==
  /\ \A f \in Fds : byFd[f] # Nobody =>
       byFd[f] \in held /\ open[byFd[f]] /\ fd[byFd[f]] = f
  /\ \A c \in held : open[c] /\ byFd[fd[c]] = c /\ fd[c] \in armed

\* Across the goroutine's buffer, the takeover, the reads of the loop and the
\* frames they cut in two, what is handled is what was sent: in order, nothing
\* lost and nothing twice, and whole frames only.
HandledInOrder ==
  \A c \in Clients : /\ \A i \in 1..Len(handled[c]) : handled[c][i] = i
                     /\ Len(handled[c]) % 2 = 0

\* Whoever ends a connection -- its goroutine, the loop on its own account, the
\* loop because the sweep asked, once or twice, before or after the takeover --
\* it is counted out once.
CountedOutOnce ==
  \A c \in Clients : /\ online[c] \in {0, 1}
                     /\ run[c] = "over" /\ c \notin clients /\ loop.client # c
                          => online[c] = 0

\* A frame that has arrived whole is handled, or the connection ends: no edge is
\* missed, and nothing read ahead waits on bytes that may never follow it.
FramesServed ==
  \A c \in Clients : \A k \in 1..Frames[c] :
    sent[c] >= 2 * k ~> Len(handled[c]) >= 2 * k \/ ~open[c]

\* A connection its peer has closed, or the sweep has failed on, is closed on
\* this end, forgotten by the server and the reactor, and counted out.
EndsAreSeen ==
  \A c \in Clients : peerDone[c] \/ asks[c] > 0 ~>
    ~open[c] /\ c \notin clients /\ c \notin held /\ online[c] = 0
===============================================================================
