------------------------------ MODULE Connection ------------------------------
(* One connection from its handshake to its end: the phases of a login, as    *)
(* the handlers of src/handlers drive them over the state of                  *)
(* src/client/client.go, the loop of src/client/run.go that reads it, and the *)
(* keep alive sweep of src/server/server.go that writes to it from another    *)
(* goroutine.                                                                 *)
(*                                                                            *)
(* A handler is the sequence of steps it takes: each step is one critical     *)
(* section of c.mu, or the wait for the session server, which holds no lock.  *)
(* The first step that fails ends the handler. The peer keeps to the          *)
(* protocol, and may stop at any time.                                        *)
EXTENDS Naturals, Sequences

CONSTANTS
  Window,   \* how many packets fit between a write and the peer's reading it
  Prompt,   \* whether a peer that has not stopped always answers a keep alive
            \* before the sweep comes round again
  Reactor   \* whether joined connections are handed to the reactor, which
            \* clears the read deadline

ASSUME WindowAssumption == Window \in Nat \ {0}
ASSUME TimingAssumption == Prompt \in BOOLEAN /\ Reactor \in BOOLEAN

VARIABLES
  conf,          \* the server's configuration, the version spoken, the peer
  \* Client, under c.mu
  phase,         \* c.phase
  compression,   \* c.compressionEnabled
  cipher,        \* the stream is encrypted: c.sharedSecret is set
  verifyToken,   \* an encryption request waits on its answer
  forwarding,    \* pendingForwardingMessageId: so does a forwarding request
  forwarded,     \* who vouched for the login: "nobody", "bungee" or "modern"
  profile,       \* whose word the profile is
  finished,      \* configurationFinished
  keepAlive,     \* pendingKeepAlive
  \* the goroutine that reads the connection, and what others see of it
  steps,         \* what is left of the handler it runs
  open,          \* the socket is open on this end
  serving,       \* the read loop has not returned
  online,        \* how often this connection counts among status.online
  onRoster,      \* its player is on the PlayerSync roster
  \* the peer
  peer,          \* where it is: "new", "login", ..., "closed" or "stopped"
  peerCompress,  \* how it frames and enciphers what it sends
  peerCipher,
  toServer, toPeer   \* what is on its way

client == <<phase, compression, cipher, verifyToken, forwarding, forwarded,
            profile, finished, keepAlive>>
loop == <<steps, open, serving, online, onRoster>>
remote == <<peer, peerCompress, peerCipher>>
wires == <<toServer, toPeer>>
vars == <<conf, client, loop, remote, wires>>

-------------------------------------------------------------------------------
(* Versions, by what their login can do: each stands for the versions from    *)
(* its own up to the next.                                                    *)

Versions == {"1.7.2", "1.8", "1.13", "1.19", "1.19.3", "1.20.2"}
HasCompression(v)             == v # "1.7.2"
HasLoginPluginMessages(v)     == v \in {"1.13", "1.19", "1.19.3", "1.20.2"}
MaySignEncryptionChallenge(v) == v = "1.19"
HasConfigurationPhase(v)      == v = "1.20.2"

\* Who connects: a player's own client, a BungeeCord proxy, which writes the
\* login into the handshake, or a modern one, which signs it when asked --
\* with this server's secret, or with another.
Peers == {"player", "bungee", "modern", "impostor"}

Configs == [encryption : BOOLEAN, secret : BOOLEAN, version : Versions,
            peer : Peers, intent : {"status", "login"}]

Phases == {"handshake", "status", "login", "configuration", "play"}
Sources == {"none", "claimed", "offline", "bungee", "modern", "mojang"}
Vouched == {"bungee", "modern", "mojang"}

\* A packet as it crosses the wire: what it is, the phase whose ids it is
\* written under, the framing around it, and, in the play phase's login packet,
\* whether the client is told that somebody vouched for it.
Packet(t, ph, z, e, o) == [type |-> t, phase |-> ph, compressed |-> z,
                           enciphered |-> e, onlineMode |-> o]

-------------------------------------------------------------------------------
(* The steps of handlers                                                      *)

SetPhase(ph) == <<"phase", ph>>
SetProfile(s) == <<"profile", s>>
Write(t) == <<"write", t>>

EnterPlay ==
  <<SetPhase("play"), Write("Login")>>
  \o (IF HasConfigurationPhase(conf.version) THEN <<>> ELSE <<Write("Tags")>>)
  \o <<Write("PlayerPosition"), Write("PlayerInfo"), Write("GameEvent"),
       Write("Chunks"), <<"join", "">>>>

CompleteLogin(source) ==
  <<SetProfile(source)>>
  \o (IF HasCompression(conf.version) THEN <<<<"compress", "SetCompression">>>> ELSE <<>>)
  \o <<Write("LoginSuccess")>>
  \o (IF HasConfigurationPhase(conf.version) THEN <<>> ELSE EnterPlay)

AskForEncryption == <<<<"encrypt", "">>, Write("EncryptionRequest")>>

\* Mutant: the player's word is taken on an encrypted server too.
SettleWithoutAsking == CompleteLogin("offline")

SettleWithoutTheProxy ==
  IF conf.encryption THEN AskForEncryption ELSE CompleteLogin("offline")

Init ==
  /\ conf \in Configs
  /\ phase = "handshake" /\ compression = FALSE /\ cipher = FALSE
  /\ verifyToken = FALSE /\ forwarding = FALSE /\ forwarded = "nobody"
  /\ profile = "none" /\ finished = FALSE /\ keepAlive = FALSE
  /\ steps = <<>> /\ open = TRUE /\ serving = TRUE /\ online = 0 /\ onRoster = FALSE
  /\ peer = "new" /\ peerCompress = FALSE /\ peerCipher = FALSE
  /\ toServer = <<>> /\ toPeer = <<>>

-------------------------------------------------------------------------------
(* Taking a step. A write blocks, with the lock held, while the peer reads    *)
(* nothing and what it has not read fills the window: nothing bounds it.      *)

AtStep(kinds) == steps # <<>> /\ Head(steps)[1] \in kinds
Full == Len(toPeer) >= Window
Blocked == AtStep({"write", "compress"}) /\ open /\ Full

Send(t) == toPeer' = Append(toPeer,
             Packet(t, phase, compression, cipher,
                    t = "Login" /\ (conf.encryption \/ forwarded # "nobody")))

\* writePacket: refused once finish configuration has gone out.
Refused == ~open \/ (phase = "configuration" /\ finished)

StepWrite ==
  LET t == Head(steps)[2] IN
  /\ AtStep({"write"})
  /\ IF Refused
     THEN steps' = <<>> /\ UNCHANGED <<toPeer, finished>>
     ELSE /\ ~Full
          /\ Send(t)
          /\ steps' = Tail(steps)
          /\ finished' = (finished \/ t = "FinishConfiguration")
  /\ UNCHANGED <<conf, phase, compression, cipher, verifyToken, forwarding, forwarded,
                 profile, keepAlive, open, serving, online, onRoster, remote, toServer>>

\* EnableCompression: the packet announcing the threshold is the last one
\* framed without it.
StepCompress ==
  /\ AtStep({"compress"})
  /\ IF compression \/ Refused
     THEN steps' = <<>> /\ UNCHANGED <<toPeer, compression>>
     ELSE /\ ~Full
          /\ Send("SetCompression")
          /\ compression' = TRUE
          /\ steps' = Tail(steps)
  /\ UNCHANGED <<conf, phase, cipher, verifyToken, forwarding, forwarded, profile,
                 finished, keepAlive, open, serving, online, onRoster, remote, toServer>>

\* SetPhase counts the arrival in play among the players online.
StepPhase ==
  LET ph == Head(steps)[2] IN
  /\ AtStep({"phase"})
  /\ phase' = ph
  /\ online' = IF ph = "play" /\ phase # "play" THEN online + 1 ELSE online
  /\ steps' = Tail(steps)
  /\ UNCHANGED <<conf, compression, cipher, verifyToken, forwarding, forwarded, profile,
                 finished, keepAlive, open, serving, onRoster, remote, wires>>

StepProfile ==
  /\ AtStep({"profile"})
  /\ profile' = Head(steps)[2]
  /\ steps' = Tail(steps)
  /\ UNCHANGED <<conf, phase, compression, cipher, verifyToken, forwarding, forwarded,
                 finished, keepAlive, open, serving, online, onRoster, remote, wires>>

\* BeginEncryption
StepEncrypt ==
  /\ AtStep({"encrypt"})
  /\ IF verifyToken \/ cipher
     THEN steps' = <<>> /\ UNCHANGED verifyToken
     ELSE steps' = Tail(steps) /\ verifyToken' = TRUE
  /\ UNCHANGED <<conf, phase, compression, cipher, forwarding, forwarded, profile,
                 finished, keepAlive, open, serving, online, onRoster, remote, wires>>

\* Authenticate: the session server answers when it answers, within its timeout.
StepAuthenticate ==
  /\ AtStep({"authenticate"})
  /\ \/ steps' = CompleteLogin("mojang")
     \/ steps' = <<Write("Disconnect")>>
  /\ UNCHANGED <<conf, client, open, serving, online, onRoster, remote, wires>>

\* JoinPlayerSync, which PlayerSync takes apart.
StepJoin ==
  /\ AtStep({"join"})
  /\ onRoster' = TRUE
  /\ steps' = Tail(steps)
  /\ UNCHANGED <<conf, client, open, serving, online, remote, wires>>

-------------------------------------------------------------------------------
(* Handlers. The loop reads the next packet once the last one is handled; one *)
(* it has no entry for in the phase it is in is one packet lost.              *)

ServerReads(p) == /\ p.phase = phase
                  /\ p.compressed = compression
                  /\ p.enciphered = cipher

Receives(t) == /\ serving /\ open /\ steps = <<>> /\ toServer # <<>>
               /\ ServerReads(Head(toServer))
               /\ Head(toServer).type = t
               /\ toServer' = Tail(toServer)
               /\ UNCHANGED <<conf, compression, open, serving, online, onRoster,
                              remote, toPeer, finished>>

\* Mutant: a proxy's fields are read on a server that holds a secret.
HandleHandshakeForwarded ==
  /\ Receives("Handshake")
  /\ phase' = conf.intent
  /\ forwarded' = IF ~conf.encryption /\ conf.intent = "login" /\ conf.peer = "bungee"
                  THEN "bungee" ELSE forwarded
  /\ UNCHANGED <<cipher, verifyToken, forwarding, profile, keepAlive, steps>>

HandleHandshake ==
  /\ Receives("Handshake")
  /\ phase' = conf.intent
  /\ forwarded' = IF /\ ~conf.encryption /\ ~conf.secret
                     /\ conf.intent = "login" /\ conf.peer = "bungee"
                  THEN "bungee" ELSE forwarded
  /\ UNCHANGED <<cipher, verifyToken, forwarding, profile, keepAlive, steps>>

HandleLoginStart ==
  /\ Receives("LoginStart")
  /\ profile' = "claimed"
  /\ LET ask == conf.secret /\ HasLoginPluginMessages(conf.version) IN
     /\ forwarding' = (forwarding \/ ask)
     /\ steps' = CASE ask /\ forwarding -> <<>>
                   [] ask /\ ~forwarding -> <<Write("LoginPluginRequest")>>
                   [] ~ask /\ conf.secret -> SettleWithoutTheProxy
                   [] ~conf.secret /\ conf.encryption -> AskForEncryption
                   [] OTHER -> CompleteLogin(IF forwarded = "nobody" THEN "offline"
                                                                    ELSE forwarded)
  /\ UNCHANGED <<phase, cipher, verifyToken, forwarded, keepAlive>>

\* The answer to the forwarding request: a login signed with the secret, one
\* that was not, or none. A request that is not waiting refuses them all.
HandleForwardingSigned ==
  /\ Receives("ForwardingSigned")
  /\ IF forwarding
     THEN /\ forwarding' = FALSE /\ forwarded' = "modern"
          /\ steps' = CompleteLogin("modern")
     ELSE UNCHANGED <<forwarding, forwarded>> /\ steps' = <<Write("Disconnect")>>
  /\ UNCHANGED <<phase, cipher, verifyToken, profile, keepAlive>>

HandleForwardingUnsigned ==
  /\ Receives("ForwardingUnsigned")
  /\ steps' = <<Write("Disconnect")>>
  /\ UNCHANGED <<phase, cipher, verifyToken, forwarding, forwarded, profile, keepAlive>>

\* Mutant: a login the proxy had nothing to say about is left where it is.
HandleForwardingIgnored ==
  /\ Receives("ForwardingUnknown")
  /\ forwarding' = FALSE
  /\ steps' = <<>>
  /\ UNCHANGED <<phase, cipher, verifyToken, forwarded, profile, keepAlive>>

HandleForwardingUnknown ==
  /\ Receives("ForwardingUnknown")
  /\ forwarding' = FALSE
  /\ steps' = IF forwarding THEN SettleWithoutTheProxy ELSE <<Write("Disconnect")>>
  /\ UNCHANGED <<phase, cipher, verifyToken, forwarded, profile, keepAlive>>

\* CompleteEncryption puts the cipher on before anything is written back. A
\* signed challenge is an answer only on a version that may sign it.
HandleEncryptionResponse ==
  /\ Receives("EncryptionResponse") \/ Receives("SignedChallenge")
  /\ LET complete == /\ verifyToken
                     /\ \/ Head(toServer).type = "EncryptionResponse"
                        \/ MaySignEncryptionChallenge(conf.version) IN
     /\ cipher' = (cipher \/ complete)
     /\ verifyToken' = (verifyToken /\ ~complete)
     /\ steps' = IF complete THEN <<<<"authenticate", "">>>> ELSE <<>>
  /\ UNCHANGED <<phase, forwarding, forwarded, profile, keepAlive>>

\* Mutant: the connection is in play once it is told to go there.
HandleLoginAcknowledgedAhead ==
  /\ Receives("LoginAcknowledged")
  /\ steps' = <<SetPhase("configuration"), Write("Registries"),
                Write("FinishConfiguration"), SetPhase("play")>>
  /\ UNCHANGED <<phase, cipher, verifyToken, forwarding, forwarded, profile, keepAlive>>

HandleLoginAcknowledged ==
  /\ Receives("LoginAcknowledged")
  /\ steps' = <<SetPhase("configuration"), Write("Registries"),
                Write("FinishConfiguration")>>
  /\ UNCHANGED <<phase, cipher, verifyToken, forwarding, forwarded, profile, keepAlive>>

HandleAcknowledgeFinish ==
  /\ Receives("AcknowledgeFinish")
  /\ steps' = EnterPlay
  /\ UNCHANGED <<phase, cipher, verifyToken, forwarding, forwarded, profile, keepAlive>>

\* ConfirmKeepAlive
HandleKeepAlive ==
  /\ Receives("KeepAlive")
  /\ keepAlive' = FALSE
  /\ UNCHANGED <<phase, cipher, verifyToken, forwarding, forwarded, profile, steps>>

HandlePing ==
  \E ask \in {"StatusRequest", "PingRequest"} :
    /\ Receives(ask)
    /\ steps' = <<Write(IF ask = "StatusRequest" THEN "StatusResponse" ELSE "PongResponse")>>
    /\ UNCHANGED <<phase, cipher, verifyToken, forwarding, forwarded, profile, keepAlive>>

\* A packet without a handler, or that only PlayerSync is concerned with, and a
\* packet the server cannot make sense of.
HandleNothing ==
  /\ serving /\ open /\ steps = <<>> /\ toServer # <<>>
  /\ Head(toServer).type = "MovePlayer" \/ ~ServerReads(Head(toServer))
  /\ toServer' = Tail(toServer)
  /\ UNCHANGED <<conf, client, loop, remote, toPeer>>

\* Why a connection ends: a socket closed by either end, or a peer silent for
\* readTimeout, which a joined connection the reactor reads does not have.
Over == \/ ~open
        \/ peer = "closed" /\ toServer = <<>>
        \/ /\ toServer = <<>> /\ (Prompt => peer = "stopped")
           /\ ~(Reactor /\ phase = "play")

\* The read loop leaves and closes after it; the reactor has closed before.
ClosedFirst == open' = FALSE /\ Reactor /\ phase = "play"

\* Mutant: LeavePlay counts everybody out, players or not.
EndOfRunAlwaysLeaves ==
  /\ serving /\ steps = <<>> /\ Over
  /\ serving' = FALSE
  /\ online' = online - 1
  /\ ClosedFirst \/ UNCHANGED open
  /\ UNCHANGED <<conf, client, steps, onRoster, remote, wires>>

\* Mutant: only a player that made it onto the roster is counted out.
EndOfRunByRoster ==
  /\ serving /\ steps = <<>> /\ Over
  /\ serving' = FALSE
  /\ online' = IF onRoster THEN online - 1 ELSE online
  /\ ClosedFirst \/ UNCHANGED open
  /\ UNCHANGED <<conf, client, steps, onRoster, remote, wires>>

\* The connection ends, and LeavePlay counts it out under its lock.
EndOfRun ==
  /\ serving /\ steps = <<>> /\ Over
  /\ serving' = FALSE
  /\ online' = IF phase = "play" THEN online - 1 ELSE online
  /\ ClosedFirst \/ UNCHANGED open
  /\ UNCHANGED <<conf, client, steps, onRoster, remote, wires>>

\* LeavePlay then takes the player off the roster, off the connection's lock.
LeaveRoster ==
  /\ ~serving /\ phase = "play" /\ onRoster
  /\ onRoster' = FALSE
  /\ UNCHANGED <<conf, client, steps, open, serving, online, remote, wires>>

\* removeClient and Close, once LeavePlay has returned to the read loop.
Close ==
  /\ ~serving /\ open /\ ~(phase = "play" /\ onRoster)
  /\ open' = FALSE
  /\ UNCHANGED <<conf, client, steps, serving, online, onRoster, remote, wires>>

-------------------------------------------------------------------------------
(* The sweep: SendKeepAlive, on a clock of its own. It skips a connection     *)
(* whose lock is held, which it is for long only by a write that blocks, and  *)
(* reaches one that is ending for as long as its socket is open.              *)

\* Mutant: a configuration keep alive follows finish configuration.
SweepAfterFinish ==
  /\ open /\ ~Blocked /\ ~keepAlive /\ ~Full
  /\ phase \in {"configuration", "play"}
  /\ keepAlive' = TRUE
  /\ Send("KeepAlive")
  /\ UNCHANGED <<conf, phase, compression, cipher, verifyToken, forwarding, forwarded,
                 profile, finished, loop, remote, toServer>>

\* Mutant: a keep alive goes out whether the last was answered or not.
SweepRegardless ==
  /\ open /\ ~Blocked /\ ~Full
  /\ phase = "play" \/ (phase = "configuration" /\ ~finished)
  /\ keepAlive' = TRUE
  /\ Send("KeepAlive")
  /\ UNCHANGED <<conf, phase, compression, cipher, verifyToken, forwarding, forwarded,
                 profile, finished, loop, remote, toServer>>

\* Mutant: an unanswered keep alive is waited on.
SweepPatiently == ~keepAlive /\ SweepRegardless

Sweep ==
  /\ open /\ ~Blocked
  /\ phase = "play" \/ (phase = "configuration" /\ ~finished)
  /\ IF keepAlive
     THEN /\ Prompt => peer \in {"stopped", "closed"}
          /\ open' = FALSE
          /\ UNCHANGED <<keepAlive, toPeer>>
     ELSE /\ keepAlive' = TRUE
          /\ IF Full
             THEN open' = FALSE /\ UNCHANGED toPeer
             ELSE Send("KeepAlive") /\ UNCHANGED open
  /\ UNCHANGED <<conf, phase, compression, cipher, verifyToken, forwarding, forwarded,
                 profile, finished, steps, serving, online, onRoster, remote, toServer>>

-------------------------------------------------------------------------------
(* The peer, which is not in the repository                                   *)

Alive == peer \notin {"new", "stopped", "closed"}

Reply(ts, ph, enc) ==
  toServer' = toServer \o [i \in 1..Len(ts) |->
                             Packet(ts[i], ph, peerCompress', enc, FALSE)]

PeerOpens ==
  /\ peer = "new"
  /\ peer' = conf.intent
  /\ toServer' =
       <<Packet("Handshake", "handshake", FALSE, FALSE, FALSE),
         Packet(IF conf.intent = "login" THEN "LoginStart" ELSE "StatusRequest",
                conf.intent, FALSE, FALSE, FALSE)>>
  /\ UNCHANGED <<conf, client, loop, peerCompress, peerCipher, toPeer>>

PeerReads(p) == p.phase = peer /\ p.compressed = peerCompress /\ p.enciphered = peerCipher

Answer(p) ==
  CASE p.type = "EncryptionRequest" ->
         {"EncryptionResponse"} \cup
         (IF MaySignEncryptionChallenge(conf.version) THEN {"SignedChallenge"} ELSE {})
    [] p.type = "LoginPluginRequest" ->
         {CASE conf.peer = "modern"   -> "ForwardingSigned"
            [] conf.peer = "impostor" -> "ForwardingUnsigned"
            [] OTHER                  -> "ForwardingUnknown"}
    [] p.type = "LoginSuccess" /\ HasConfigurationPhase(conf.version) -> {"LoginAcknowledged"}
    [] p.type = "FinishConfiguration" -> {"AcknowledgeFinish"}
    [] p.type = "KeepAlive"           -> {"KeepAlive"}
    [] p.type = "StatusResponse"      -> {"PingRequest"}
    [] p.type = "PlayerPosition"      -> {"MovePlayer"}
    [] OTHER -> {}

\* The peer reads a packet, answers it in the phase and framing it read it in,
\* and moves on. A proxy cannot answer for the player's encryption, and leaves.
PeerAnswers ==
  LET p == Head(toPeer)
      leaves == \/ p.type \in {"Disconnect", "PongResponse"}
                \/ p.type = "EncryptionRequest" /\ conf.peer # "player"
                \/ ~PeerReads(p)
  IN
  /\ Alive /\ toPeer # <<>>
  /\ toPeer' = Tail(toPeer)
  /\ peerCompress' = (peerCompress \/ p.type = "SetCompression")
  /\ IF leaves
     THEN peer' = "closed" /\ UNCHANGED <<peerCipher, toServer>>
     ELSE /\ peerCipher' = (peerCipher \/ p.type = "EncryptionRequest")
          /\ peer' = CASE p.type = "LoginSuccess" ->
                            IF HasConfigurationPhase(conf.version) THEN "configuration" ELSE "play"
                       [] p.type = "FinishConfiguration" -> "play"
                       [] OTHER -> peer
          /\ IF Answer(p) = {} THEN UNCHANGED toServer
             ELSE \E a \in Answer(p) : Reply(<<a>>, peer, peerCipher)
  /\ UNCHANGED <<conf, client, loop>>

PeerStops ==
  /\ peer \notin {"stopped", "closed"}
  /\ peer' \in {"stopped", "closed"}
  /\ UNCHANGED <<conf, client, loop, peerCompress, peerCipher, wires>>

-------------------------------------------------------------------------------
Step == StepWrite \/ StepCompress \/ StepPhase \/ StepProfile \/ StepEncrypt
        \/ StepAuthenticate \/ StepJoin
Handle ==
  \/ HandleHandshake \/ HandleLoginStart \/ HandleForwardingSigned
  \/ HandleForwardingUnsigned \/ HandleForwardingUnknown \/ HandleEncryptionResponse
  \/ HandleLoginAcknowledged \/ HandleAcknowledgeFinish \/ HandleKeepAlive
  \/ HandlePing \/ HandleNothing

Next == \/ Step \/ Handle \/ EndOfRun \/ LeaveRoster \/ Close
        \/ Sweep \/ PeerOpens \/ PeerAnswers \/ PeerStops

Spec == Init /\ [][Next]_vars

\* The goroutine runs on, and ends a connection that is over, its leave included;
\* the sweep comes round; a peer that has not stopped reads what it is sent.
Fairness == /\ WF_vars(Step \/ Handle)
            /\ WF_vars(EndOfRun \/ LeaveRoster \/ Close)
            /\ WF_vars(Sweep)
            /\ WF_vars(PeerOpens) /\ WF_vars(PeerAnswers)

FairSpec == Spec /\ Fairness

-------------------------------------------------------------------------------
(* Properties                                                                 *)

PacketTypes ==
  {"Handshake", "LoginStart", "StatusRequest", "PingRequest", "EncryptionResponse",
   "SignedChallenge", "ForwardingSigned", "ForwardingUnsigned", "ForwardingUnknown",
   "LoginAcknowledged", "AcknowledgeFinish", "KeepAlive", "MovePlayer",
   "StatusResponse", "PongResponse", "EncryptionRequest", "LoginPluginRequest",
   "SetCompression", "LoginSuccess", "Disconnect", "Registries",
   "FinishConfiguration", "Login", "Tags", "PlayerPosition", "PlayerInfo",
   "GameEvent", "Chunks"}
Wire == Seq([type : PacketTypes, phase : Phases, compressed : BOOLEAN,
             enciphered : BOOLEAN, onlineMode : BOOLEAN])

\* What handlers write one by one, and the steps they are made of.
Written == {"StatusResponse", "PongResponse", "EncryptionRequest", "LoginPluginRequest",
            "LoginSuccess", "Disconnect", "Registries", "FinishConfiguration", "Login",
            "Tags", "PlayerPosition", "PlayerInfo", "GameEvent", "Chunks"}
StepSet ==
  ({"phase"} \X {"configuration", "play"})
  \cup ({"profile"} \X {"offline", "bungee", "modern", "mojang"})
  \cup ({"write"} \X Written)
  \cup {<<"compress", "SetCompression">>, <<"encrypt", "">>, <<"authenticate", "">>,
        <<"join", "">>}

TypeOK ==
  /\ conf \in Configs
  /\ phase \in Phases /\ {compression, cipher, verifyToken, forwarding} \subseteq BOOLEAN
  /\ forwarded \in {"nobody", "bungee", "modern"} /\ profile \in Sources
  /\ {finished, keepAlive, open, serving, onRoster} \subseteq BOOLEAN
  /\ steps \in Seq(StepSet) /\ online \in {0, 1}
  /\ peer \in {"new", "status", "login", "configuration", "play", "stopped", "closed"}
  /\ {peerCompress, peerCipher} \subseteq BOOLEAN
  /\ toServer \in Wire /\ toPeer \in Wire

PeerUnderstands == Alive /\ toPeer # <<>> => PeerReads(Head(toPeer))
ServerUnderstands ==
  serving /\ open /\ steps = <<>> /\ toServer # <<>> => ServerReads(Head(toServer))

\* Neither end reads a packet under another phase's ids, in another framing or
\* under another cipher than it was written in: what the phase, the threshold
\* and the cipher are switched by stays in step with what is written around it,
\* by the handlers and by the sweep. Finish configuration is where they part for
\* a round trip.
BothUnderstand == PeerUnderstands /\ ServerUnderstands

\* enterPlay tells a client that it is in online mode.
OnlineModeTruthful ==
  \A i \in 1..Len(toPeer) :
    toPeer[i].type = "Login" => toPeer[i].onlineMode = (profile \in Vouched)

\* Whose word settles a login, for each configuration, version and peer: a server
\* with a secret asks the proxy, where the version can be asked, and the proxy
\* that signs settles it, or is turned away; whoever has nothing to say to that,
\* or cannot be asked, is sent to Mojang by a server that encrypts, which no
\* proxy can answer for its player; and one that does neither believes what a
\* proxy wrote into the handshake, if it holds no secret, or the player.
CanAskProxy == conf.secret /\ HasLoginPluginMessages(conf.version)
Settler ==
  IF CanAskProxy /\ conf.peer \in {"modern", "impostor"}
  THEN IF conf.peer = "modern" THEN "modern" ELSE "nobody"
  ELSE IF conf.encryption
  THEN IF conf.peer = "player" THEN "mojang" ELSE "nobody"
  ELSE IF ~conf.secret /\ conf.peer = "bungee" THEN "bungee" ELSE "offline"

\* A login gets past the login phase on that word and on no other, Mojang's only
\* under the cipher; nobody is asked what the server does not ask or the version
\* cannot answer; and the client is told that it is in online mode exactly where
\* somebody vouched for the profile.
SettledByWhomItAsks ==
  /\ OnlineModeTruthful
  /\ phase \in {"configuration", "play"} =>
       /\ profile = Settler
       /\ profile = "mojang" => cipher
  /\ \A i \in 1..Len(toPeer) :
       /\ toPeer[i].type = "LoginPluginRequest" => CanAskProxy
       /\ toPeer[i].type = "EncryptionRequest" => conf.encryption

\* Whatever way a connection ended -- in the middle of its join, by the sweep,
\* by the peer -- it no longer counts; while it is served nobody is on the roster
\* that does not count; and nobody ever is that LeavePlay, which has only the
\* phase to go by, would not take off. It leaves the count first and the roster
\* after, so on the way out the roster alone may still hold the player.
EndsUncounted == /\ ~serving => online = 0
                 /\ serving /\ onRoster => online = 1
                 /\ onRoster => phase = "play"

\* There is never an answer on its way to a keep alive the server does not wait
\* for, nor two of them: ConfirmKeepAlive never has to refuse one.
AnswersMatch ==
  LET w == toServer \o toPeer IN
  \A i, j \in 1..Len(w) :
    w[i].type = "KeepAlive" /\ w[j].type = "KeepAlive" => keepAlive /\ i = j

\* A login that is not given up on by either end arrives in play, on the roster.
LoginsArrive ==
  peer = "login" ~> \/ peer = "play" /\ onRoster
                    \/ peer \in {"closed", "stopped"}

\* SendKeepAlive: "What ends one that stopped is readTimeout, which every phase
\* is under", and keep alives in play; and of a connection whose lock is held,
\* "the next sweep will find it free". So a peer that stops is found out.
StoppedPeersEnd == peer = "stopped" ~> ~serving
===============================================================================
